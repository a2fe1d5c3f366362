---------------------------- MODULE ResetReducer ----------------------------
(***************************************************************************)
(* The factory reset of the core, as pure operators: what                  *)
(* FactoryResetWorkflow (workflow/factory_reset.rs) answers to one host    *)
(* event.  An event is [of |-> the effect it answers, type, val]; an answer*)
(* is [wf |-> the workflow after it, out |-> the effects it requests,      *)
(* rejected |-> TRUE when dispatch returns Err].  The name of an effect    *)
(* stands for its request identifier, and w.waits has the identifiers that *)
(* are Some.  The nonce, the grant and the binding generation are data.    *)
(***************************************************************************)
EXTENDS Integers

NoResult == -1    \* a result is the number of recordings the device deleted

ResetPhases == { "ReadingNonce", "PreparingGrant", "Subscribing", "WritingGrant",
                 "WritingOpcode", "AwaitingResult", "PersistingResult",
                 "WritingReceipt", "DeletingResult", "Completed", "Failed" }

\* SaveStart and SaveAwait are the checkpoints of the start and of the receipt.
ResetEffects == { "ReadNonce", "PrepareGrant", "Subscribe", "WriteGrant", "WriteOpcode",
                  "SaveResult", "WriteReceipt", "DeleteResult", "ResetTimer",
                  "SaveStart", "SaveAwait" }

LOCAL Step(w, out) == [wf |-> w, out |-> out, rejected |-> FALSE]
LOCAL Reject(w)    == [wf |-> w, out |-> {}, rejected |-> TRUE]

\* Enter a phase whose work is one effect.
LOCAL Enter(w, phase, effect) ==
  Step([w EXCEPT !.phase = phase, !.waits = @ \cup {effect}], {effect})

Subscribed(w) == "Subscribe" \in w.waits

\* unsubscribe, and the cancellation of the deadline.
LOCAL Unsubscribe(w) == IF Subscribed(w) THEN {"Unsubscribe"} ELSE {}
CleanupEffects(w)  == {"CancelResetTimer"} \cup Unsubscribe(w)
Cleaned(w)         == [w EXCEPT !.waits = @ \ {"ResetTimer", "Subscribe"}]

ResetFail(w) == Step([Cleaned(w) EXCEPT !.phase = "Failed"], CleanupEffects(w))
Complete(w)  == Step([Cleaned(w) EXCEPT !.phase = "Completed"],
                     CleanupEffects(w) \cup {"DeleteCheckpoint"})

WriteReceipt(w) == Enter(w, "WritingReceipt", "WriteReceipt")

\* The result is durable before the receipt; the notifications end here.
PersistResult(w, result) ==
  Step([w EXCEPT !.phase = "PersistingResult", !.result = result,
                 !.waits = (@ \ {"Subscribe"}) \cup {"SaveResult", "SaveAwait"}],
       Unsubscribe(w) \cup {"SaveResult", "SaveAwait"})

-----------------------------------------------------------------------------
(* start: a new reset, or the receipt of one that ran before. *)

ResetStart(mode, expected) ==
  LET first == IF mode = "start" THEN "ReadNonce" ELSE "Subscribe"
      w == [ kind |-> "reset", mode |-> mode, expected |-> expected, result |-> NoResult,
             settling |-> FALSE, waits |-> {"ResetTimer", "SaveStart", first},
             phase |-> IF mode = "start" THEN "ReadingNonce" ELSE "Subscribing" ]
  IN Step(w, w.waits)

-----------------------------------------------------------------------------
(* dispatch *)

\* Mutant: the callback of the opcode sends the receipt, saved or not.
SettleOpcode_Unsaved(w) ==
  LET s == [w EXCEPT !.settling = FALSE]
  IN IF w.phase = "PersistingResult" THEN WriteReceipt(s) ELSE Step(s, {})

\* The success of the device overtook the callback of the write that caused it:
\* the callback is joined before the receipt.
SettleOpcode(w) ==
  LET s == [w EXCEPT !.settling = FALSE]
  IN IF w.phase = "PersistingResult" /\ "SaveResult" \notin w.waits THEN WriteReceipt(s)
     ELSE Step(s, {})

\* A notification of the device: val is the result, or NoResult for a failure.
ResultNotified(w, result) ==
  LET s == IF w.phase = "WritingOpcode"
           THEN [w EXCEPT !.settling = TRUE, !.waits = @ \ {"WriteOpcode"}] ELSE w
  IN IF result = NoResult THEN ResetFail(w)
     ELSE IF w.mode = "resume" /\ w.expected \notin {NoResult, result} THEN ResetFail(s)
     ELSE PersistResult(s, result)

ResultSaved(w) == IF w.settling THEN Step(w, {}) ELSE WriteReceipt(w)

\* The phases that wait for one callback, and what its success does.
ResetAdvance(w, e) ==
  CASE w.phase = "ReadingNonce"   /\ e.type = "ReadCompleted"   -> Enter(w, "PreparingGrant", "PrepareGrant")
    [] w.phase = "PreparingGrant" /\ e.type = "GrantPrepared"   -> Enter(w, "Subscribing", "Subscribe")
    [] w.phase = "WritingGrant"   /\ e.type = "WriteCompleted"  -> Enter(w, "WritingOpcode", "WriteOpcode")
    [] w.phase = "WritingOpcode"  /\ e.type = "WriteCompleted"  -> Step([w EXCEPT !.phase = "AwaitingResult"], {})
    [] w.phase = "PersistingResult" /\ e.type = "ResultSaved"   -> ResultSaved(w)
    [] w.phase = "PersistingResult" /\ e.type = "PersistenceFailed" -> ResetFail(w)
    [] w.phase = "WritingReceipt" /\ e.type = "WriteCompleted"  -> Enter(w, "DeletingResult", "DeleteResult")
    [] w.phase = "DeletingResult" /\ e.type = "ResultDeleted"   -> Complete(w)
    [] w.phase = "DeletingResult" /\ e.type = "PersistenceFailed" -> ResetFail(w)
    [] OTHER -> Reject(w)

\* The subscription keeps its identifier; the other callbacks release theirs.
SubscribeReady(w) ==
  IF w.phase # "Subscribing" THEN Reject(w)
  ELSE IF w.mode = "start" THEN Enter(w, "WritingGrant", "WriteGrant")
  ELSE Step([w EXCEPT !.phase = "AwaitingResult"], {})

ResetDispatch(w, e) ==
  LET s == [w EXCEPT !.waits = @ \ {e.of}]
  IN IF w.settling /\ e.of = "WriteOpcode" /\ e.type \in {"WriteCompleted", "Failed"} THEN SettleOpcode(w)
     ELSE IF e.type = "Disconnected" THEN IF Subscribed(w) THEN ResetFail(w) ELSE Reject(w)
     ELSE IF e.of \notin w.waits THEN Reject(w)
     ELSE CASE e.type = "CheckpointSaved" -> Step(s, {})
            [] e.type = "Subscribed"   -> SubscribeReady(w)
            [] e.type = "Notification" -> IF w.phase \in {"AwaitingResult", "WritingOpcode"}
                                          THEN ResultNotified(w, e.val) ELSE Reject(w)
            [] e.type \in {"TimerFired", "Failed", "MaterialFailed"} -> ResetFail(w)
            [] OTHER -> IF e.of \in {"SaveStart", "SaveAwait"} THEN Reject(w) ELSE ResetAdvance(s, e)

ResetCancel(w) == CleanupEffects(w)
=============================================================================
