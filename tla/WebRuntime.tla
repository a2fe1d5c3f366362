----------------------------- MODULE WebRuntime -----------------------------
(***************************************************************************)
(* The browser workflow runtime (frameworks/web/src/workflowRuntime.ts):   *)
(* one owner at a time, which runs the effects the engine asks for against *)
(* the platform, and which ends by success, cancellation or failure.       *)
(*                                                                         *)
(* JavaScript runs to completion between two awaits, so one action is the  *)
(* code between two awaits of one of the owner's threads: the effect pump, *)
(* the cancellation (enterCancellation), the terminal path (finishSuccess, *)
(* finishCancelled, finishFailure), the shared cleanup, the callbacks of   *)
(* timers and notifications, and the promises of the platform.             *)
(* The engine and the hosts are abstract: any effect, any answer.          *)
(***************************************************************************)
EXTENDS Integers, Sequences, FiniteSets, SequencesExt

CONSTANTS MaxOps,    \* operations started, workflows and direct ones
          MaxMoves   \* events the engine of one workflow answers with more work

ASSUME BoundsAssumption == MaxOps \in Nat \ {0} /\ MaxMoves \in Nat

VARIABLES
    owner,     \* activeOwner: the number of the operation, 0 for null
    next,      \* operations started so far
    op,        \* the fields of the active (or last) owner
    result,    \* the promise returned for each operation
    core,      \* the engine: status of its workflow and the work it may still ask
    ble,       \* the link, connectedDevice, poisonedDeviceId
    destroyed  \* BrowserWorkflowRuntime.destroyed

runtimeVars == <<owner, next, op, result, core, ble, destroyed>>

-----------------------------------------------------------------------------
(* Types *)

Operations == 1 .. MaxOps
Executors == {"pump", "inline"}     \* who may be running an effect
Awaited   == {"connect", "gatt", "write", "subscribe", "host", "confirm", "disconnect"}
Effects   == Awaited \cup {"unsubscribe", "timer", "completed", "cancelled", "failed"}
NoOwner == [kind |-> "none", gen |-> 0, terminal |-> FALSE, cancelling |-> FALSE,
            completing |-> FALSE, failure |-> FALSE, completionFailure |-> FALSE,
            evidence |-> -1, queue |-> <<>>, inline |-> <<>>,
            at |-> [e \in Executors |-> "idle"], cur |-> [e \in Executors |-> "none"],
            pending |-> {}, timer |-> -1, sub |-> FALSE,
            clean |-> "off", cleanFailed |-> FALSE,
            thread |-> "off", byFailure |-> FALSE, fin |-> "off", success |-> "off",
            confirm |-> "no", aborted |-> FALSE]

-----------------------------------------------------------------------------
(* Terminal paths: what one call changes before its first await *)

Workflow == owner # 0 /\ op.kind = "workflow"

\* An abort ends the awaits of the effects whose generation's signal fired; a
\* connection being made is still awaited (connectDevice joins its settlement).
AbortAwaits(o, gens) ==
    [o EXCEPT !.at = [e \in Executors |->
        IF o.at[e] = "exec" /\ o.gen \in gens
        THEN IF o.cur[e] = "connect" THEN "late" ELSE "run"
        ELSE o.at[e]]]

FinishFailure(o) ==
    IF o.terminal THEN o
    ELSE AbortAwaits([o EXCEPT !.terminal = TRUE, !.queue = <<>>, !.fin = "failure"], {0, 1})

FinishCancelled(o) ==
    IF o.terminal THEN o
    ELSE AbortAwaits([o EXCEPT !.terminal = TRUE, !.queue = <<>>, !.fin = "cancelled"], {1})

FinishSuccess(o, priorError) ==
    LET p == [o EXCEPT !.completionFailure = @ \/ priorError] IN
    IF o.completing \/ o.terminal THEN p
    ELSE IF o.failure THEN FinishFailure(p)
    ELSE [p EXCEPT !.completing = TRUE, !.success = "handoff"]

\* The generation of the cancellation starts: its queue is empty, the awaits of
\* the previous one end.
BeginCancellation(o) ==
    LET a == AbortAwaits(o, {0}) IN
    [a EXCEPT !.cancelling = TRUE, !.gen = o.gen + 1, !.queue = <<>>]

EnterCancellation_Unclaimed(o) ==
    IF o.thread # "off" THEN o
    ELSE LET c == [o EXCEPT !.byFailure = o.failure, !.thread = "waiting"] IN
         IF o.completing /\ ~o.failure THEN c
         ELSE [BeginCancellation(c) EXCEPT !.thread = "cleanup"]

\* enterCancellation, once: cancelOwner, or cancelAfterFailure when a failure
\* entered first, up to the cleanup they await. A host that has sent the
\* confirmation to the device refuses the claim.
EnterCancellation(o) ==
    IF o.thread # "off" THEN o
    ELSE LET c == [o EXCEPT !.byFailure = o.failure, !.thread = "waiting"] IN
         IF o.completing /\ ~o.failure THEN c
         ELSE IF o.confirm \in {"attempted", "uncertain"}
         THEN IF o.failure THEN FinishFailure(c) ELSE c
         ELSE [BeginCancellation(c) EXCEPT !.thread = "cleanup"]

HasCompletionEvidence(o) == o.evidence = o.gen

FailOwner_Reenters(o) ==
    IF o.terminal THEN o
    ELSE IF HasCompletionEvidence(o) THEN FinishSuccess(o, TRUE)
    ELSE IF o.failure THEN o
    ELSE EnterCancellation([o EXCEPT !.failure = TRUE])

FailOwner(o) ==
    IF o.terminal THEN o
    ELSE IF HasCompletionEvidence(o) THEN FinishSuccess(o, TRUE)
    ELSE IF o.failure THEN o
    ELSE LET f == [o EXCEPT !.failure = TRUE] IN
         IF o.cancelling THEN FinishFailure(f) ELSE EnterCancellation(f)

-----------------------------------------------------------------------------
(* The engine, any of its workflows: what dispatch may answer *)

Menu == IF ble.connected
        THEN (Effects \ {"connect", "completed", "cancelled", "failed"})
               \ (IF op.sub THEN {"subscribe"} ELSE {"unsubscribe"})
        ELSE {"connect", "host", "timer"}

CompletedMoves(o) ==
    {[status |-> "completed", effects |-> q] :
        q \in IF o.sub THEN {<<"unsubscribe", "completed">>} ELSE {<<"completed">>, <<"host", "completed">>}}

\* An engine that has heard of the confirmation completes.
CoreMoves(o) ==
    IF core.status # "running" THEN {[status |-> core.status, effects |-> <<>>]}
    ELSE IF o.confirm = "done" THEN CompletedMoves(o)
    ELSE {[status |-> "running", effects |-> q] :
            q \in IF core.left > 0 THEN {<<>>} \cup {<<e>> : e \in Menu} ELSE {<<>>}}
      \cup CompletedMoves(o)
      \cup {[status |-> "failed", effects |-> q] : q \in {<<"failed">>, <<"host", "failed">>}}
      \cup {[status |-> "throws", effects |-> <<>>]}

\* What the engine asks for when it is cancelled; its status is final at once.
CancelMoves == {<<"cancelled">>, <<"disconnect", "cancelled">>,
                <<"write", "unsubscribe", "host", "cancelled">>}

EnsurePump(o) ==
    IF o.at["pump"] = "idle" /\ ~o.terminal /\ o.queue # <<>>
    THEN [o EXCEPT !.at["pump"] = "run"] ELSE o

EnqueueEffects(o, effects) ==
    IF o.terminal THEN o
    ELSE IF o.thread = "inline" THEN [o EXCEPT !.inline = @ \o effects]
    ELSE EnsurePump([o EXCEPT !.queue = @ \o effects])

\* The call of the engine in dispatchFromContext and what follows it: m is the
\* engine's move, e the executor that dispatches ("none" for a callback).
\* A throw reaches failOwner from the pump and from callbacks; the inline
\* executor collects it.
Dispatched(o, m, e) ==
    LET evidenced == IF m.status = "completed" /\ core.status = "running"
                     THEN [o EXCEPT !.evidence = o.gen] ELSE o
        resumed   == IF e = "none" THEN evidenced ELSE [evidenced EXCEPT !.at[e] = "run"]
    IN IF m.status # "throws" THEN EnqueueEffects(resumed, m.effects)
       ELSE CASE e = "inline" -> resumed
              [] e = "pump"   -> FailOwner([resumed EXCEPT !.at[e] = "failing"])
              [] OTHER        -> FailOwner(resumed)

CoreAfter(m) ==
    core' = [status |-> IF m.status = "throws" THEN core.status ELSE m.status,
             left   |-> IF core.left > 0 THEN core.left - 1 ELSE 0]

\* o has dispatched an event: nothing reaches the engine once it is terminal.
Dispatch(o, e) ==
    IF o.terminal
    THEN op' = (IF e = "none" THEN o ELSE [o EXCEPT !.at[e] = "run"]) /\ UNCHANGED core
    ELSE \E m \in CoreMoves(o) : op' = Dispatched(o, m, e) /\ CoreAfter(m)

-----------------------------------------------------------------------------
(* Claiming the runtime *)

Free(isDisconnect) == owner = 0 /\ ~destroyed /\ (ble.poisoned => isDisconnect)

Start(o) ==
    /\ next' = next + 1
    /\ owner' = next + 1
    /\ result' = [result EXCEPT ![next + 1] = "pending"]
    /\ op' = o

\* run: the engine starts a workflow and its first effects are queued.
RunWith(q) ==
    /\ Start([NoOwner EXCEPT !.kind = "workflow", !.queue = q, !.at["pump"] = "run"])
    /\ core' = [status |-> "running", left |-> MaxMoves]
    /\ UNCHANGED <<ble, destroyed>>

Run ==
    /\ next < MaxOps /\ Free(FALSE)
    /\ RunWith(<<IF ble.connected THEN "gatt" ELSE "connect">>)

\* runExclusive: a body that reads, or DeviceManager.disconnect, whose body
\* first marks the device disconnected.
RunExclusive ==
    /\ next < MaxOps /\ ble.connected /\ Free(FALSE)
    /\ Start([NoOwner EXCEPT !.kind = "direct", !.pending = {"gatt"}])
    /\ UNCHANGED <<core, ble, destroyed>>

RunExclusiveDisconnect ==
    /\ next < MaxOps /\ ble.connected /\ Free(TRUE)
    /\ Start([NoOwner EXCEPT !.kind = "direct", !.pending = {"disconnect"}])
    /\ ble' = [ble EXCEPT !.connected = FALSE, !.poisoned = FALSE]
    /\ UNCHANGED <<core, destroyed>>

\* The body of a direct operation settles: an abort, a lost device or the
\* destruction of the client makes it fail whatever it returned.
DirectSettles ==
    /\ owner # 0 /\ op.kind = "direct" /\ op.pending # {}
    /\ \E ok \in BOOLEAN :
         /\ result' = [result EXCEPT ![owner] =
                IF ok /\ ~op.aborted /\ ~destroyed THEN "ok"
                ELSE IF (op.aborted \/ destroyed) /\ ~op.failure THEN "cancelled" ELSE "error"]
         /\ ble' = IF "disconnect" \in op.pending THEN [ble EXCEPT !.link = FALSE] ELSE ble
    /\ owner' = 0
    /\ op' = [op EXCEPT !.pending = {}]
    /\ UNCHANGED <<next, core, destroyed>>

\* The handoff of runExclusive: no await between release and run.
DirectHandsOff ==
    /\ owner # 0 /\ op.kind = "direct" /\ op.pending = {"gatt"}
    /\ ~op.aborted /\ ~destroyed /\ next < MaxOps /\ ~ble.poisoned
    /\ next' = next + 1
    /\ owner' = next + 1
    /\ result' = [result EXCEPT ![owner] = "ok", ![next + 1] = "pending"]
    /\ op' = [NoOwner EXCEPT !.kind = "workflow", !.queue = <<"gatt">>, !.at["pump"] = "run"]
    /\ core' = [status |-> "running", left |-> MaxMoves]
    /\ UNCHANGED <<ble, destroyed>>

-----------------------------------------------------------------------------
(* The pump, and the executor of the effects of a cancellation after failure *)

\* executeEffect up to its first await. Work on a device that is not connected
\* is answered with a failure at once.
Execute(o, e, eff) ==
    CASE eff \in Awaited ->
           IF eff \in {"gatt", "write", "subscribe"} /\ ~ble.connected
           THEN Dispatch([o EXCEPT !.at[e] = "run"], e)
           ELSE IF eff = "disconnect" /\ ~ble.connected
           THEN Dispatch([o EXCEPT !.at[e] = "run"], e)
           ELSE /\ op' = [o EXCEPT !.at[e] = "exec", !.cur[e] = eff, !.pending = @ \cup {eff}]
                /\ UNCHANGED core
      [] eff = "unsubscribe" ->
           /\ op' = IF o.sub THEN [o EXCEPT !.at[e] = "unsubscribe", !.pending = @ \cup {"remove"}]
                     ELSE o
           /\ UNCHANGED core
      [] eff = "timer"     -> op' = [o EXCEPT !.timer = o.gen] /\ UNCHANGED core
      [] eff = "completed" -> op' = FinishSuccess([o EXCEPT !.at[e] = "finishing"], FALSE)
                              /\ UNCHANGED core
      [] eff = "cancelled" -> op' = FinishCancelled([o EXCEPT !.at[e] = "finishing"])
                              /\ UNCHANGED core
      [] eff = "failed"    ->
           /\ op' = IF o.cancelling
                     THEN FinishFailure([o EXCEPT !.failure = TRUE, !.at[e] = "finishing"])
                     ELSE FailOwner([o EXCEPT !.at[e] = "failing"])
           /\ UNCHANGED core

PumpNext ==
    /\ Workflow /\ op.at["pump"] = "run" /\ ~op.terminal /\ op.queue # <<>>
    /\ Execute([op EXCEPT !.queue = Tail(@)], "pump", Head(op.queue))
    /\ UNCHANGED <<owner, next, result, ble, destroyed>>

\* The queue is empty: finishFromCoreStatus.
PumpDrained ==
    /\ Workflow /\ op.at["pump"] = "run" /\ (op.terminal \/ op.queue = <<>>)
    /\ op' = LET fin  == [op EXCEPT !.at["pump"] = "finishing"]
                 idle == [op EXCEPT !.at["pump"] = "idle"]
             IN IF op.terminal THEN idle
                ELSE CASE core.status = "completed" ->
                            IF HasCompletionEvidence(op) THEN FinishSuccess(fin, FALSE)
                            ELSE FailOwner([op EXCEPT !.at["pump"] = "failing"])
                       [] core.status = "cancelled" -> FinishCancelled(fin)
                       [] core.status = "failed"    -> FinishFailure(fin)
                       [] OTHER                     -> idle
    /\ UNCHANGED <<owner, next, result, core, ble, destroyed>>

InlineNext ==
    /\ Workflow /\ op.thread = "inline" /\ op.at["inline"] = "run"
    /\ ~op.terminal /\ op.inline # <<>>
    /\ Execute([op EXCEPT !.inline = Tail(@)], "inline", Head(op.inline))
    /\ UNCHANGED <<owner, next, result, ble, destroyed>>

\* The effects of the cancellation are done; the failure that began it ends it.
InlineDone ==
    /\ Workflow /\ op.thread = "inline" /\ op.at["inline"] \in {"run", "finishing"}
    /\ op.terminal \/ op.inline = <<>>
    /\ op' = FinishFailure([op EXCEPT !.thread = "waiting", !.inline = <<>>,
                                      !.at["inline"] = "idle"])
    /\ UNCHANGED <<owner, next, result, core, ble, destroyed>>

-----------------------------------------------------------------------------
(* The promises of the platform and of the hosts settle *)

Awaiting(k) == {e \in Executors : op.at[e] = "exec" /\ op.cur[e] = k}
Settled(k)  == [op EXCEPT !.pending = @ \ {k}]

\* dispatch when an executor still awaits k, nothing when its await was aborted.
Answer(o, k) ==
    IF Awaiting(k) = {} THEN op' = o /\ UNCHANGED core
    ELSE \E e \in Awaiting(k) : Dispatch(o, e)

\* An error thrown by the effect an executor awaits.
HostFailsFrom(o, k) ==
    /\ op' = IF "pump" \in Awaiting(k) THEN FailOwner([o EXCEPT !.at["pump"] = "failing"])
             ELSE IF "inline" \in Awaiting(k) THEN [o EXCEPT !.at["inline"] = "run"]
             ELSE o
    /\ UNCHANGED core

HostFails(k) == HostFailsFrom(Settled(k), k)

\* connectDevice. A link that comes up after the cancellation is taken down
\* again before the effect returns.
ConnectSettles ==
    /\ Workflow /\ "connect" \in op.pending
    /\ \/ /\ Awaiting("connect") # {} /\ ~op.cancelling /\ ~op.terminal
          /\ ble' = [ble EXCEPT !.link = TRUE, !.connected = TRUE]
          /\ Answer(Settled("connect"), "connect")
       \/ /\ Awaiting("connect") = {} \/ op.cancelling \/ op.terminal
          /\ ble' = [ble EXCEPT !.link = TRUE]
          /\ op' = [Settled("connect") EXCEPT !.pending = @ \cup {"lateLink"},
                        !.at = [e \in Executors |-> IF e \in Awaiting("connect") THEN "late"
                                                    ELSE op.at[e]]]
          /\ UNCHANGED core
       \/ /\ UNCHANGED ble
          /\ Awaiting("connect") # {}
          /\ Answer(Settled("connect"), "connect")
       \/ /\ UNCHANGED <<ble, core>>
          /\ Awaiting("connect") = {}
          /\ op' = [Settled("connect") EXCEPT
                        !.at = [e \in Executors |-> IF op.at[e] = "late" THEN "run" ELSE op.at[e]]]
    /\ UNCHANGED <<owner, next, result, destroyed>>

LateLinkSettles ==
    /\ Workflow /\ "lateLink" \in op.pending
    /\ ble' = [ble EXCEPT !.link = FALSE]
    /\ op' = [Settled("lateLink") EXCEPT
                  !.at = [e \in Executors |-> IF op.at[e] = "late" THEN "run" ELSE op.at[e]]]
    /\ UNCHANGED <<owner, next, result, core, destroyed>>

\* discoverServices, readCharacteristic, writeCharacteristic: the engine hears
\* of the success or of the failure.
GattSettles ==
    /\ Workflow
    /\ \E k \in {"gatt", "write"} \cap op.pending : Answer(Settled(k), k)
    /\ UNCHANGED <<owner, next, result, ble, destroyed>>

\* disconnectDevice. The success of an aborted await leaves connectedDevice as
\* it is; the event of the platform clears it (LinkLost).
DisconnectSettles ==
    /\ Workflow /\ "disconnect" \in op.pending
    /\ \/ /\ ble' = [ble EXCEPT !.link = FALSE, !.connected = FALSE]
          /\ Answer(Settled("disconnect"), "disconnect")
       \/ UNCHANGED ble /\ Answer(Settled("disconnect"), "disconnect")
    /\ UNCHANGED <<owner, next, result, destroyed>>

\* subscribe with trackGattSetup: a subscription that is set up after the
\* cancellation is removed within the pending setup.
SubscribeSettles ==
    /\ Workflow /\ "subscribe" \in op.pending
    /\ LET discarded == [Settled("subscribe") EXCEPT !.pending = @ \cup {"discard"},
                           !.at = [e \in Executors |-> IF e \in Awaiting("subscribe") THEN "run"
                                                       ELSE op.at[e]]]
       IN \/ Answer(Settled("subscribe"), "subscribe")
          \/ IF Awaiting("subscribe") = {} \/ op.terminal
             THEN op' = discarded /\ UNCHANGED core
             ELSE ble.link /\ Answer([Settled("subscribe") EXCEPT !.sub = TRUE], "subscribe")
    /\ UNCHANGED <<owner, next, result, ble, destroyed>>

DiscardSettles ==
    /\ Workflow /\ "discard" \in op.pending
    /\ op' = Settled("discard")
    /\ UNCHANGED <<owner, next, result, core, ble, destroyed>>

\* The removal of the subscription, asked by an effect or by the cleanup: both
\* await one promise.
RemoveSettles ==
    /\ Workflow /\ "remove" \in op.pending
    /\ \E ok \in BOOLEAN :
         LET r == [Settled("remove") EXCEPT !.sub = FALSE,
                     !.clean = IF @ = "removing" THEN "done" ELSE @,
                     !.timer = IF op.clean = "removing" THEN -1 ELSE @,
                     !.cleanFailed = @ \/ (op.clean = "removing" /\ ~ok)]
             p == [r EXCEPT !.at = [e \in Executors |-> IF op.at[e] = "unsubscribe" THEN "run"
                                                        ELSE op.at[e]]]
         IN op' = IF ok \/ op.at["pump"] # "unsubscribe" THEN p
                  ELSE FailOwner([p EXCEPT !.at["pump"] = "failing"])
    /\ UNCHANGED <<owner, next, result, core, ble, destroyed>>

\* executeHost: the events of the host are dispatched, its error is thrown.
HostSettles ==
    /\ Workflow /\ "host" \in op.pending
    /\ \/ Answer(Settled("host"), "host")
       \/ HostFails("host")
    /\ UNCHANGED <<owner, next, result, ble, destroyed>>

\* The encrypted upload host writes the confirmation of a recording.
ConfirmAttempted ==
    /\ Workflow /\ "confirm" \in op.pending /\ op.confirm = "no"
    /\ ~op.cancelling /\ ~op.terminal /\ ble.link
    /\ op' = [op EXCEPT !.confirm = "attempted"]
    /\ UNCHANGED <<owner, next, result, core, ble, destroyed>>

\* Its write is answered; when it is not, the link is poisoned.
ConfirmSettles ==
    /\ Workflow /\ "confirm" \in op.pending
    /\ \/ /\ op.confirm = "attempted"
          /\ Answer([Settled("confirm") EXCEPT !.confirm = "done"], "confirm")
          /\ UNCHANGED ble
       \/ /\ op.confirm = "attempted"
          /\ ble' = [ble EXCEPT !.poisoned = ble.connected]
          /\ HostFailsFrom([Settled("confirm") EXCEPT !.confirm = "uncertain"], "confirm")
       \/ /\ op.confirm # "attempted"
          /\ HostFails("confirm")
          /\ UNCHANGED ble
    /\ UNCHANGED <<owner, next, result, destroyed>>

-----------------------------------------------------------------------------
(* Callbacks: timers, notifications, the loss of the link *)

\* A callback of an older generation, or after the end, is dropped.
TimerFires ==
    /\ Workflow /\ op.timer # -1
    /\ LET o == [op EXCEPT !.timer = -1] IN
       IF op.terminal \/ op.timer # op.gen THEN op' = o /\ UNCHANGED core ELSE Dispatch(o, "none")
    /\ UNCHANGED <<owner, next, result, ble, destroyed>>

Notified ==
    /\ Workflow /\ op.sub /\ "remove" \notin op.pending /\ ble.link
    /\ op.gen = 0 /\ ~op.terminal
    /\ Dispatch(op, "none")
    /\ UNCHANGED <<owner, next, result, ble, destroyed>>

\* The platform reports the loss of the link: markDeviceDisconnected. A direct
\* owner is aborted, a workflow is told with an event of its own generation.
LinkLost ==
    /\ ble.link \/ ble.connected
    /\ ble' = [ble EXCEPT !.link = FALSE, !.connected = FALSE,
                          !.poisoned = @ /\ ~ble.connected]
    /\ IF ~ble.connected \/ owner = 0 THEN UNCHANGED <<op, core>>
       ELSE IF op.kind = "direct"
       THEN op' = [op EXCEPT !.aborted = TRUE, !.failure = TRUE] /\ UNCHANGED core
       ELSE Dispatch(op, "none")
    /\ UNCHANGED <<owner, next, result, destroyed>>

-----------------------------------------------------------------------------
(* Cancellation and the shared cleanup *)

\* cancel(operationId) by the application.
CancelRun ==
    /\ Workflow /\ ~op.terminal /\ op.thread = "off"
    /\ op' = EnterCancellation(op)
    /\ UNCHANGED <<owner, next, result, core, ble, destroyed>>

\* destroy(): no operation starts any more; the active one is cancelled.
DestroyRuntime ==
    /\ ~destroyed
    /\ destroyed' = TRUE
    /\ op' = IF owner = 0 THEN op
             ELSE IF op.kind = "direct" THEN [op EXCEPT !.aborted = TRUE]
             ELSE IF op.terminal THEN op ELSE EnterCancellation(op)
    /\ UNCHANGED <<owner, next, result, core, ble>>

Cleaning == op.thread = "cleanup" \/ op.fin # "off" \/ op.success = "settling"

\* cleanupAndSettle waits for the writes first; cleanupOwner runs once, and
\* cancels the hosts unless a success began it.
CleanupStarts ==
    /\ Workflow /\ Cleaning /\ op.clean = "off" /\ "write" \notin op.pending
    /\ op' = [op EXCEPT !.clean = IF op.thread = "cleanup" \/ op.fin # "off" THEN "hosts"
                                  ELSE "subs"]
    /\ UNCHANGED <<owner, next, result, core, ble, destroyed>>

\* host.cancel() throws when it finds a confirmation it cannot take back.
HostsCancelled ==
    /\ Workflow /\ op.clean = "hosts"
    /\ \E ok \in BOOLEAN :
         /\ ok => op.confirm \notin {"attempted", "uncertain"}
         /\ op' = [op EXCEPT !.clean = "subs", !.cleanFailed = @ \/ ~ok]
    /\ UNCHANGED <<owner, next, result, core, ble, destroyed>>

\* The cleanups in reverse order: the subscription is removed, the timers go.
CleanupSubscriptions ==
    /\ Workflow /\ op.clean = "subs"
    /\ op' = IF op.sub THEN [op EXCEPT !.clean = "removing", !.pending = @ \cup {"remove"}]
             ELSE [op EXCEPT !.clean = "done", !.timer = -1]
    /\ UNCHANGED <<owner, next, result, core, ble, destroyed>>

CleanedUp_Early == op.clean = "done"

\* settlePendingGattSetups and settlePendingExternalOperations after it.
CleanedUp == op.clean = "done" /\ op.pending = {}

\* The engine is cancelled once everything the cancelled generation began has
\* settled. An engine that has ended refuses.
CoreCancel ==
    /\ Workflow /\ op.thread = "cleanup" /\ CleanedUp
    /\ IF core.status = "running"
       THEN /\ core' = [core EXCEPT !.status = "cancelled"]
            /\ \E q \in CancelMoves :
                 op' = IF op.byFailure
                       THEN [op EXCEPT !.thread = "inline", !.at["inline"] = "run",
                                       !.inline = IF op.terminal THEN <<>> ELSE q]
                       ELSE EnqueueEffects([op EXCEPT !.thread = "waiting"], q)
       ELSE /\ UNCHANGED core
            /\ op' = FinishFailure([op EXCEPT !.thread = "waiting"])
    /\ UNCHANGED <<owner, next, result, ble, destroyed>>

\* The handoff of the completion, then the success is terminal.
HandedOff ==
    /\ Workflow /\ op.success = "handoff"
    /\ \E ok \in BOOLEAN :
         op' = [op EXCEPT !.completionFailure = @ \/ ~ok, !.terminal = TRUE,
                          !.queue = <<>>, !.success = "settling"]
    /\ UNCHANGED <<owner, next, result, core, ble, destroyed>>

ReleaseOwner(outcome) ==
    /\ owner' = 0
    /\ result' = [result EXCEPT ![owner] = outcome]
    /\ UNCHANGED <<next, core, ble, destroyed>>

SuccessReleases ==
    /\ Workflow /\ op.success = "settling" /\ CleanedUp
    /\ op' = [op EXCEPT !.success = "done"]
    /\ ReleaseOwner(IF op.completionFailure \/ op.cleanFailed THEN "error" ELSE "ok")

EndReleases_ByPath ==
    /\ Workflow /\ op.fin # "off" /\ CleanedUp
    /\ op' = [op EXCEPT !.fin = "off"]
    /\ ReleaseOwner(IF op.thread # "off" /\ ~op.cleanFailed THEN "cancelled" ELSE "error")

\* finishCancelled and finishFailure after their cleanup.
EndReleases ==
    /\ Workflow /\ op.fin # "off" /\ CleanedUp
    /\ op' = [op EXCEPT !.fin = "off"]
    /\ ReleaseOwner(IF op.fin = "failure" \/ op.failure \/ op.cleanFailed THEN "error"
               ELSE "cancelled")

-----------------------------------------------------------------------------
\* A runtime that is new, or idle on the device that earlier owners connected.
RuntimeInit ==
    /\ owner = 0 /\ next = 0 /\ op = NoOwner
    /\ result = [o \in Operations |-> "none"]
    /\ core = [status |-> "idle", left |-> 0]
    /\ \E on \in BOOLEAN : ble = [link |-> on, connected |-> on, poisoned |-> FALSE]
    /\ destroyed = FALSE

Platform == \/ ConnectSettles \/ LateLinkSettles \/ GattSettles \/ DisconnectSettles
            \/ SubscribeSettles \/ DiscardSettles \/ RemoveSettles \/ HostSettles
            \/ ConfirmSettles \/ DirectSettles

Runtime == \/ PumpNext \/ PumpDrained \/ InlineNext \/ InlineDone
           \/ CleanupStarts \/ HostsCancelled \/ CleanupSubscriptions \/ CoreCancel
           \/ HandedOff \/ SuccessReleases \/ EndReleases

Application == Run \/ RunExclusive \/ RunExclusiveDisconnect \/ DirectHandsOff \/ CancelRun \/ DestroyRuntime

RuntimeNext == Platform \/ Runtime \/ Application \/ TimerFires \/ Notified \/ LinkLost
            \/ ConfirmAttempted

RuntimeSpec == RuntimeInit /\ [][RuntimeNext]_runtimeVars

\* The job queue runs and the platform settles its promises.
RuntimeLiveSpec == RuntimeSpec /\ WF_runtimeVars(Platform) /\ WF_runtimeVars(Runtime) /\ WF_runtimeVars(ConfirmAttempted)

-----------------------------------------------------------------------------
(* Properties *)

\* An owner is released only when all it began has settled: no operation of the
\* platform and no subscription is left to the next owner, and no link is up
\* that connectedDevice does not name. (A timer may be left: the engine can
\* schedule one when the link drops after the cleanup; its callback is dropped.)
ReleasedClean ==
    owner = 0 => /\ op.pending = {} /\ ~op.sub
                 /\ ble.link => ble.connected

\* A recording whose confirmation reached the device is never reported as
\* cancelled: the caller of a cancelled operation deletes what it downloaded.
ConfirmedNotCancelled ==
    [][ owner # 0 /\ owner' = 0 /\ op.kind = "workflow"
          /\ op.confirm \in {"attempted", "uncertain", "done"}
        => result'[owner] # "cancelled" ]_runtimeVars

\* A workflow reports success only for an engine that completed, and a
\* cancellation only for an engine that was cancelled or still ran.
TruthfulOutcome ==
    [][ owner # 0 /\ owner' = 0 /\ op.kind = "workflow"
        => /\ result'[owner] = "ok" => core.status = "completed"
           /\ result'[owner] = "cancelled" => core.status = "cancelled" ]_runtimeVars

\* A workflow whose cancellation has begun, or that is terminal, ends: cleanup,
\* pump and cancellation never wait for each other.
EndingSettles ==
    \A o \in Operations : (owner = o /\ (op.cancelling \/ op.terminal)) ~> (result[o] # "pending")

=============================================================================
