--------------------------- MODULE HandoffReducer ---------------------------
(***************************************************************************)
(* The upload handoff of the core, as pure operators: what                 *)
(* UploadHandoffWorkflow (workflow/upload_handoff.rs) answers to one host  *)
(* event.  Events, answers and w.waits are those of ResetReducer.          *)
(* A status is [pending, sync, net]; a trigger response is "accepted",     *)
(* "busy", "refused", or "other" for a notification that is none.          *)
(***************************************************************************)
EXTENDS Integers

HandoffPhases == { "ReadingStatus", "Subscribing", "Triggering", "AwaitingTrigger",
                   "WaitingToMonitor", "Completed", "Failed" }

HandoffEffects == { "ReadStatus", "Subscribe", "WriteTrigger", "TriggerTimer", "MonitorTimer" }

Purposes == {"initial", "busy", "failure", "monitor"}

LOCAL Step(w, out) == [wf |-> w, out |-> out, rejected |-> FALSE]
LOCAL Reject(w)    == [wf |-> w, out |-> {}, rejected |-> TRUE]
LOCAL Enter(w, phase, effect) ==
  Step([w EXCEPT !.phase = phase, !.waits = @ \cup {effect}], {effect})

\* Before the effects of a step, those of cancel_timer and of unsubscribe.
LOCAL Also(out, r) == [r EXCEPT !.out = @ \cup out]

LOCAL Timers == {"TriggerTimer", "MonitorTimer"}
LOCAL CancelTimer(w) == IF w.waits \cap Timers = {} THEN {} ELSE {"CancelTimers"}
LOCAL Unsubscribe(w) == IF "Subscribe" \in w.waits THEN {"Unsubscribe"} ELSE {}

Cleanup(w)  == CancelTimer(w) \cup Unsubscribe(w)
Released(w) == [w EXCEPT !.waits = @ \ (Timers \cup {"Subscribe"})]

\* complete_direct, complete_preserved, complete_with_fallback.
CompleteAs(w, outcome) ==
  Step([Released(w) EXCEPT !.phase = "Completed", !.outcome = outcome], Cleanup(w))

HandoffFail(w) == Step([Released(w) EXCEPT !.phase = "Failed"], Cleanup(w))

ReadStatus(w, purpose) == Enter([w EXCEPT !.purpose = purpose], "ReadingStatus", "ReadStatus")
Monitor(w)             == Enter(w, "WaitingToMonitor", "MonitorTimer")

HandoffStart ==
  ReadStatus([ kind |-> "handoff", phase |-> "ReadingStatus", purpose |-> "initial",
               outcome |-> "none", waits |-> {} ], "initial")

HandoffCancel(w) == Cleanup(w)

-----------------------------------------------------------------------------
(* dispatch *)

\* handle_status: who sends the recordings, by a status that was just read.
StatusRead(w, status) ==
  CASE w.purpose = "initial" /\ status.pending = 0 -> CompleteAs(w, "direct")
    [] status.sync /\ (w.purpose = "initial" => status.pending > 0) -> Monitor(w)
    [] w.purpose = "initial" /\ ~status.sync /\ status.pending > 0 ->
         IF status.net THEN Enter(w, "Subscribing", "Subscribe") ELSE CompleteAs(w, "fallback")
    [] w.purpose = "busy"    /\ ~status.sync -> CompleteAs(w, "preserved")
    [] w.purpose = "failure" /\ ~status.sync -> CompleteAs(w, "fallback")
    [] w.purpose = "monitor" /\ ~status.sync ->
         CompleteAs(w, IF status.pending = 0 THEN "direct" ELSE "fallback")

TriggerAnswered(w, response) ==
  LET s == Released(w)
  IN CASE response = "other"    -> Step(w, {})
       [] response = "accepted" -> Also(Cleanup(w), Monitor(s))
       [] response = "busy"     -> Also(Cleanup(w), ReadStatus(s, "busy"))
       [] response = "refused"  -> Also(Cleanup(w), ReadStatus(s, "failure"))

\* Mutant: no answer in time is taken for a refusal.
TriggerTimeout_Unread(w) == CompleteAs(w, "fallback")

TriggerTimeout(w) ==
  Also(Unsubscribe(w), ReadStatus([w EXCEPT !.waits = @ \ {"Subscribe"}], "failure"))

\* Mutant: no deadline for the answer.
TriggerWritten_Untimed(w) == Step([w EXCEPT !.phase = "AwaitingTrigger"], {})

TriggerWritten(w) == Enter(w, "AwaitingTrigger", "TriggerTimer")

HandoffAdvance(w, e) ==
  CASE w.phase = "ReadingStatus" /\ e.type = "ReadCompleted"   -> StatusRead(w, e.val)
    [] w.phase = "Triggering"    /\ e.type = "WriteCompleted"  -> TriggerWritten(w)
    [] w.phase = "AwaitingTrigger"  /\ e.of = "TriggerTimer"   -> TriggerTimeout(w)
    [] w.phase = "WaitingToMonitor" /\ e.of = "MonitorTimer"   -> ReadStatus(w, "monitor")
    [] OTHER -> Reject(w)

HandoffDispatch(w, e) ==
  LET s == [w EXCEPT !.waits = @ \ {e.of}]
  IN IF e.type = "Disconnected" THEN HandoffFail(w)
     ELSE IF e.of \notin w.waits THEN Reject(w)
     ELSE CASE e.type = "Subscribed"   -> IF w.phase = "Subscribing" THEN Enter(w, "Triggering", "WriteTrigger")
                                          ELSE Reject(w)
            [] e.type = "Notification" -> IF w.phase = "AwaitingTrigger" THEN TriggerAnswered(w, e.val)
                                          ELSE Reject(w)
            [] e.type = "Failed"       -> HandoffFail(w)
            [] OTHER -> HandoffAdvance(s, e)
=============================================================================
