------------------------ MODULE MCRecordingTransfer -------------------------
(* Values for model checking RecordingTransfer. *)
EXTENDS RecordingTransfer

AllPhases      == Phases \ {"Completed", "Failed"}
BeforeConfirm  == AllPhases \ {"Confirming"}
DeviceError    == {[t |-> "Error", n |-> 0]}
NoStrays       == {}
=============================================================================
