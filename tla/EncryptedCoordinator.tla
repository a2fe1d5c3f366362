------------------------ MODULE EncryptedCoordinator ------------------------
(***************************************************************************)
(* The workflow of an encrypted upload                                     *)
(* (core/.../workflow/encrypted_upload_v2.rs) as operators on its record:  *)
(* Begin, Dispatch (an event under the identifier of a request) and        *)
(* Cancel. Each yields the next record, the effects asked of the host and  *)
(* whether the event was accepted.                                         *)
(*                                                                         *)
(* An effect's kind stands for its request identifier: no two effects of   *)
(* one kind are under way at once. Notifications and progress are left     *)
(* out, and local_wifi is false. The offset of a checkpoint stands for its *)
(* revision and digest.                                                    *)
(***************************************************************************)
EXTENDS Integers, Sequences, FiniteSets

CONSTANTS Units,      \* packets of ciphertext in the recording
          MaxMissing  \* maximum_missing_sequences

NoCheckpoint == [session |-> 0, off |-> 0]

Event(k) == [k |-> k, ckpt |-> NoCheckpoint, missing |-> {}]
Effect(k) == [k |-> k, ckpt |-> NoCheckpoint, missing |-> {}]
TruncateSink(ckpt) == [Effect("truncate") EXCEPT !.ckpt = ckpt]

NoWorkflow == [phase |-> "ready", session |-> 0, selected |-> NoCheckpoint,
               pending |-> NoCheckpoint, expected |-> "none", transfer |-> "none"]

Does(co, effects) == [ok |-> TRUE, co |-> co, effects |-> effects]
Refused(co) == [ok |-> FALSE, co |-> co, effects |-> <<>>]
Enter(co, phase, effects) == Does([co EXCEPT !.phase = phase], effects)

IsTerminal(co) == co.phase \in {"completed", "cancelled", "failed"}
Fail(co) == Enter(co, "failed", <<Effect("abort")>>)

Usable(co, ckpt) == ckpt.session = co.session /\ ckpt.off <= Units
Monotonic(co, ckpt) == co.selected = NoCheckpoint \/ ckpt.off > co.selected.off

-----------------------------------------------------------------------------
(* The coordinator *)

\* A checkpoint that is not usable is deleted; the sink is cut to one that is.
CheckpointLoaded(co, e) ==
    LET found == e.ckpt # NoCheckpoint
        selected == IF found /\ Usable(co, e.ckpt) THEN e.ckpt ELSE NoCheckpoint
    IN Enter([co EXCEPT !.selected = selected], "truncating",
             (IF found /\ selected = NoCheckpoint THEN <<Effect("delete")>> ELSE <<>>)
                 \o <<TruncateSink(selected)>>)

StartTransfer(co) ==
    Enter(co, "starting", <<[Effect("start") EXCEPT !.ckpt = co.selected]>>)

SinkTruncated(co) ==
    IF co.phase = "truncating" THEN Enter(co, "preparing", <<Effect("prepare")>>) ELSE StartTransfer(co)

\* The checkpoint is deleted before the bytes it vouches for are cut.
ResumeRejected(co) ==
    Enter([co EXCEPT !.selected = NoCheckpoint, !.pending = NoCheckpoint], "restartTruncating",
          <<Effect("delete"), TruncateSink(NoCheckpoint)>>)

\* A window that lacks packets is repaired, a whole one saved before it is
\* acknowledged.
WindowStaged(co, e) ==
    IF ~Usable(co, e.ckpt) \/ ~Monotonic(co, e.ckpt) \/ Cardinality(e.missing) > MaxMissing THEN Fail(co)
    ELSE IF e.missing # {} THEN Does(co, <<[Effect("repair") EXCEPT !.missing = e.missing]>>)
    ELSE Enter([co EXCEPT !.pending = e.ckpt], "saving", <<[Effect("save") EXCEPT !.ckpt = e.ckpt]>>)

CheckpointSaved(co) ==
    Enter(co, "acknowledging", <<[Effect("ack") EXCEPT !.ckpt = co.pending]>>)

WindowAcknowledged(co, e) ==
    IF e.ckpt # co.pending THEN Fail(co)
    ELSE Enter([co EXCEPT !.selected = e.ckpt, !.pending = NoCheckpoint], "transferring", <<>>)

\* Which events belong to a phase. ResumeRejected only to a transfer that resumed.
Expects(co, k) ==
    \/ k = "loaded" /\ co.phase = "loading"
    \/ k = "truncated" /\ co.phase \in {"truncating", "restartTruncating"}
    \/ k = "prepared" /\ co.phase = "preparing"
    \/ k \in {"started", "resumeRejected"} /\ co.phase = "starting"
       /\ (k = "resumeRejected" => co.selected # NoCheckpoint)
    \/ k \in {"windowStaged", "completed"} /\ co.phase = "transferring"
    \/ k = "saved" /\ co.phase = "saving"
    \/ k = "acknowledged" /\ co.phase = "acknowledging"
    \/ k = "artifactsStaged" /\ co.phase = "staging"
    \/ k = "receipt" /\ co.phase = "waitingForReceipt"
    \/ k = "confirmed" /\ co.phase = "confirming"
    \/ k = "failed" /\ ~IsTerminal(co)

Coordinate(co, e) ==
    CASE ~Expects(co, e.k)       -> Refused(co)
      [] e.k = "loaded"          -> CheckpointLoaded(co, e)
      [] e.k = "truncated"       -> SinkTruncated(co)
      [] e.k = "prepared"        -> StartTransfer(co)
      [] e.k = "started"         -> Enter(co, "transferring", <<>>)
      [] e.k = "resumeRejected"  -> ResumeRejected(co)
      [] e.k = "windowStaged"    -> WindowStaged(co, e)
      [] e.k = "saved"           -> CheckpointSaved(co)
      [] e.k = "acknowledged"    -> WindowAcknowledged(co, e)
      [] e.k = "completed"       -> Enter(co, "staging", <<Effect("stage")>>)
      [] e.k = "artifactsStaged" -> Enter(co, "waitingForReceipt", <<Effect("receipt")>>)
      [] e.k = "receipt"         -> Enter(co, "confirming", <<Effect("confirm")>>)
      [] e.k = "confirmed"       -> Enter(co, "completed", <<Effect("delete")>>)
      [] e.k = "failed"          -> Fail(co)

-----------------------------------------------------------------------------
(* The requests of the workflow *)

Answered == {"load", "truncate", "prepare", "start", "repair", "save", "ack", "stage", "receipt",
             "confirm"}

\* translate: the last effect that is answered becomes the expected request, a
\* StartTransfer that of the transfer.
Translate(r) ==
    LET answered == {i \in DOMAIN r.effects : r.effects[i].k \in Answered}
        kinds == {r.effects[i].k : i \in answered}
    IN [r EXCEPT !.co.expected = IF answered = {} THEN @
                                 ELSE r.effects[CHOOSE i \in answered : \A j \in answered : j <= i].k,
                 !.co.transfer = IF "start" \in kinds THEN "start" ELSE @]

Ends == {"completed", "resumeRejected", "failed"}

\* Only the expected request is answered, and once: but TransferStarted leaves
\* the transfer its request, and WindowAcknowledged gives it back.
Dispatch(co, id, e) ==
    IF id # co.expected THEN Refused(co)
    ELSE LET taken == [co EXCEPT !.expected = IF e.k = "started" THEN @ ELSE "none",
                                 !.transfer = IF e.k \in Ends THEN "none" ELSE @]
             r == Translate(Coordinate(taken, e))
         IN IF ~r.ok THEN r
            ELSE IF e.k = "started" THEN [r EXCEPT !.co.expected = id, !.co.transfer = id]
            ELSE IF e.k = "acknowledged" /\ r.co.expected = "none"
            THEN [r EXCEPT !.co.expected = r.co.transfer]
            ELSE r

Begin(session) ==
    Translate(Enter([NoWorkflow EXCEPT !.session = session], "loading", <<Effect("load")>>))

Cancel(co) ==
    Enter([co EXCEPT !.expected = "none", !.transfer = "none"], "cancelled", <<Effect("abort")>>)
=============================================================================
