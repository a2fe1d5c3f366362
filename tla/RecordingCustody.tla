-------------------------- MODULE RecordingCustody --------------------------
(***************************************************************************)
(* What a recording transfer promises to the owner of the recording: it is *)
(* stored on the device, in full on the host, or both.  The device may     *)
(* drop its copy only while the host holds all of it, and from then on the *)
(* copy of the host is the only one and stays.                             *)
(***************************************************************************)
CONSTANT Whole        \* the recording in full
VARIABLES onDevice,   \* the device stores the recording
          copy        \* what the file of the host holds

custody == <<onDevice, copy>>

Init == onDevice = TRUE /\ copy # Whole

\* A transfer, or its cleanup, rewrites the copy of the host in any way.
Rewrite == onDevice /\ UNCHANGED onDevice

\* CONFIRM: the device drops its recording.
Release == onDevice /\ copy = Whole /\ onDevice' = FALSE /\ UNCHANGED copy

Next == Rewrite \/ Release

Spec == Init /\ [][Next]_custody
=============================================================================
