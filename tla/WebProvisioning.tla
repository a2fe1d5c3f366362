--------------------------- MODULE WebProvisioning ---------------------------
(***************************************************************************)
(* Provisioning a device in the browser: the reducer of the core           *)
(* (core/.../workflow/provisioning.rs), the manager and the host of the    *)
(* material (frameworks/web/src/provisioningManager.ts), the journal of    *)
(* every attempt in browser storage, the provider of the application and   *)
(* the device, over losses of the link and of the result, failures,        *)
(* reloads of the page, cancellations and several attempts on one device;  *)
(* and taking the credential from the device again (deprovision).          *)
(*                                                                         *)
(* The runtime executes the effects of the workflow one after the other    *)
(* (module WebRuntime); the result of an effect and the reducer's answer   *)
(* are one action. A provider that is handed a signal that has already     *)
(* fired does nothing.                                                     *)
(***************************************************************************)
EXTENDS Integers, Sequences, FiniteSets

CONSTANTS Attempts,   \* attempts of the application (attemptId)
          Chunks,     \* chunks of the credential
          MaxFaults,  \* reloads, losses of the link, failures
          MaxAborts,  \* cancellations by the application
          MaxLost,    \* notifications lost
          MaxRemovals \* calls of deprovision

ASSUME ProvisioningAssumption ==
    /\ Attempts \subseteq Nat \ {0} /\ Chunks \in Nat \ {0}
    /\ MaxFaults \in Nat /\ MaxAborts \in Nat /\ MaxLost \in Nat
    /\ MaxRemovals \in Nat

VARIABLES
    journal, \* phase of the ProvisioningJournal of an attempt
    run,     \* the call of the manager, the host of the material and the pump
    wf,      \* ProvisioningWorkflow
    fx,      \* effects the pump has still to settle, the first is under way
    link,    \* the device is connected
    air,     \* results under way
    dev,     \* the device: chunks collected, what it works at, the grant, the credential
    applied, \* attempts whose credential the device has stored
    backend, \* attempts the provider has confirmed and aborted
    left     \* what may still happen

host == <<run, wf, fx>>
radio == <<air, dev, applied>>
vars == <<journal, host, link, radio, backend, left>>

Unresolved == {a \in Attempts : journal[a] \in {"prepared", "device_applied"}}

NoRun == [pc |-> "idle", a |-> 0, stop |-> FALSE, stage |-> "none", prep |-> FALSE, mine |-> FALSE,
          busy |-> "no", heard |-> FALSE, direct |-> FALSE, got |-> "none", told |-> "none"]
NoWorkflow == [phase |-> "none", chunk |-> 0, timer |-> FALSE, sub |-> FALSE]

Fault == left.faults > 0 /\ left' = [left EXCEPT !.faults = @ - 1]

-----------------------------------------------------------------------------
(* The reducer: a handler answers with the workflow and the effects it asks for *)

Answer(w, effects) == [wf |-> w, fx |-> effects]

Terminal == {"none", "Completed", "Failed"}

Cleanup(w) == IF w.sub THEN <<"cancelTimer", "unsubscribe">> ELSE <<"cancelTimer">>

Complete(w) ==
    Answer([w EXCEPT !.phase = "Completed"], Cleanup(w) \o <<"deleteCheckpoint", "completed">>)

Fail(w) == Answer([w EXCEPT !.phase = "Failed"], Cleanup(w) \o <<"failed">>)

\* One timer is over all phases.
Start == Answer([NoWorkflow EXCEPT !.phase = "ReadingNonce"], <<"read", "schedule", "save">>)

ReadCompleted(w) ==
    IF w.phase = "ReadingNonce" THEN Answer([w EXCEPT !.phase = "ReadingPublicKey"], <<"read">>)
    ELSE Answer([w EXCEPT !.phase = "PreparingMaterial"], <<"prepare">>)

MaterialPrepared(w) == Answer([w EXCEPT !.phase = "Subscribing", !.sub = TRUE], <<"subscribe">>)

WriteEndpoint(w) == Answer([w EXCEPT !.phase = "WritingEndpoint"], <<"endpoint">>)

\* A checkpoint is saved beside every chunk; after the last one the result is awaited.
WriteNextChunk(w) ==
    IF w.chunk >= Chunks THEN Answer([w EXCEPT !.phase = "AwaitingResult"], <<>>)
    ELSE Answer([w EXCEPT !.phase = "WritingToken"], <<"token", "save">>)

WriteCompleted(w) ==
    WriteNextChunk(IF w.phase = "WritingToken" THEN [w EXCEPT !.chunk = @ + 1] ELSE w)

\* The result may overtake the callback of the last write, nothing else.
Expected_Early(w) == w.sub
Expected(w) ==
    \/ w.phase = "AwaitingResult"
    \/ w.phase = "WritingToken" /\ w.chunk + 1 = Chunks

Result(w, success) == IF success THEN Complete(w) ELSE Fail(w)

-----------------------------------------------------------------------------
(* The runtime *)

Running == run.pc = "running"
Head1(k) == Running /\ fx # <<>> /\ Head(fx) = k

\* The first effect has settled; a workflow that has ended hears nothing more.
Settled(r) ==
    IF wf.phase \in Terminal THEN fx' = Tail(fx) /\ UNCHANGED wf
    ELSE wf' = r.wf /\ fx' = Tail(fx) \o r.fx

\* A notification or a timer is dispatched beside the effect under way.
Dispatched(r) ==
    IF wf.phase \in Terminal THEN UNCHANGED <<wf, fx>>
    ELSE wf' = r.wf /\ fx' = fx \o r.fx

\* cancelOwner and failOwner: the workflow is cancelled, its hosts are told.
Abort(r) == /\ run' = [r EXCEPT !.pc = "cancelling"]
            /\ wf' = NoWorkflow /\ fx' = <<>>

Settle == run' = NoRun

FailOwner_Always == Abort(run)

\* failOwner: with the evidence of the completion the handoff runs all the same.
FailOwner ==
    IF run.heard THEN run' = [run EXCEPT !.pc = "applied"] /\ wf' = NoWorkflow /\ fx' = <<>>
    ELSE Abort(run)

-----------------------------------------------------------------------------
(* The manager *)

\* provision: one at a time, on a connected device.
Provision(a) ==
    /\ run.pc = "idle" /\ link
    /\ run' = [NoRun EXCEPT !.pc = "load", !.a = a]
    /\ UNCHANGED <<journal, wf, fx, link, radio, backend, left>>

Begin ==
    /\ run' = [run EXCEPT !.pc = "running"]
    /\ wf' = Start.wf /\ fx' = Start.fx

Load_OwnPhase ==
    /\ run.pc = "load"
    /\ CASE journal[run.a] = "device_applied" ->
              run' = [run EXCEPT !.pc = "confirm", !.direct = TRUE] /\ UNCHANGED <<wf, fx>>
         [] journal[run.a] = "absent" /\ {a \in Attempts : journal[a] = "prepared"} = {}
              /\ ~run.stop -> Begin
         [] OTHER -> Settle /\ UNCHANGED <<wf, fx>>
    /\ UNCHANGED <<journal, link, radio, backend, left>>

Load_Reconciles ==
    /\ run.pc = "load"
    /\ IF journal[run.a] = "absent" /\ Unresolved = {} /\ ~run.stop THEN Begin
       ELSE Settle /\ UNCHANGED <<wf, fx>>
    /\ UNCHANGED <<journal, link, radio, backend, left>>

\* runProvision: an attempt the device has applied is confirmed, one that was
\* prepared has to be reconciled by the application, and so has any other one
\* of the same device that is unresolved.
Load ==
    /\ run.pc = "load"
    /\ CASE journal[run.a] = "device_applied" ->
              run' = [run EXCEPT !.pc = "confirm", !.direct = TRUE] /\ UNCHANGED <<wf, fx>>
         [] journal[run.a] = "absent" /\ Unresolved = {} /\ ~run.stop -> Begin
         [] OTHER -> Settle /\ UNCHANGED <<wf, fx>>
    /\ UNCHANGED <<journal, link, radio, backend, left>>

\* The signal of the call, or destroy: a handoff under way is not cancelled,
\* what it waits for is.
Cancel ==
    /\ run.pc # "idle" /\ ~run.stop /\ left.aborts > 0
    /\ left' = [left EXCEPT !.aborts = @ - 1]
    /\ IF Running THEN Abort([run EXCEPT !.stop = TRUE])
       ELSE run' = [run EXCEPT !.stop = TRUE] /\ UNCHANGED <<wf, fx>>
    /\ UNCHANGED <<journal, link, radio, backend>>

\* The cancellation joins the write and the save under way and gives up the
\* call of the provider; an attempt that may be prepared is aborted then.
Cancelled ==
    /\ run.pc = "cancelling" /\ run.busy = "no" /\ run.stage # "saving"
    /\ IF run.prep THEN run' = [run EXCEPT !.pc = IF run.stop THEN "give up" ELSE "abort",
                                           !.stage = "none"]
       ELSE Settle
    /\ UNCHANGED <<journal, wf, fx, link, radio, backend, left>>

\* A provider that is called with a signal that has fired rejects: the journal
\* stays prepared.
GiveUp ==
    /\ run.pc = "give up" /\ Settle
    /\ UNCHANGED <<journal, wf, fx, link, radio, backend, left>>

AbortBackend == backend' = [backend EXCEPT !.aborted = @ \cup {run.a}]

ProviderAborts ==
    /\ run.pc = "abort" /\ ~run.stop /\ AbortBackend
    /\ IF run.mine THEN run' = [run EXCEPT !.pc = "saveAborted"] ELSE Settle
    /\ UNCHANGED <<journal, wf, fx, link, radio, left>>

\* The provider fails, or the signal fires while it is asked: it may have done it.
AbortFails ==
    /\ run.pc = "abort" /\ Settle
    /\ IF run.stop THEN UNCHANGED left ELSE Fault
    /\ AbortBackend \/ UNCHANGED backend
    /\ UNCHANGED <<journal, wf, fx, link, radio>>

Save(phase) == journal' = [journal EXCEPT ![run.a] = phase]

AbortSaved ==
    /\ run.pc = "saveAborted" /\ Save("aborted") /\ Settle
    /\ UNCHANGED <<wf, fx, link, radio, backend, left>>

\* The handoff of a completed workflow: the journal says that the device has the
\* credential before the provider is told.
Completed ==
    /\ Head1("completed")
    /\ run' = [run EXCEPT !.pc = "applied"] /\ wf' = NoWorkflow /\ fx' = <<>>
    /\ UNCHANGED <<journal, link, radio, backend, left>>

AppliedSaved ==
    /\ run.pc = "applied" /\ Save("device_applied") /\ run' = [run EXCEPT !.pc = "confirm"]
    /\ UNCHANGED <<wf, fx, link, radio, backend, left>>

ConfirmBackend == backend' = [backend EXCEPT !.confirmed = @ \cup {run.a}]

ProviderConfirms ==
    /\ run.pc = "confirm" /\ ~run.stop /\ ConfirmBackend
    /\ run' = [run EXCEPT !.pc = "saveConfirmed"]
    /\ UNCHANGED <<journal, wf, fx, link, radio, left>>

ConfirmFails ==
    /\ run.pc = "confirm" /\ Settle
    /\ IF run.stop THEN UNCHANGED left ELSE Fault
    /\ ConfirmBackend \/ UNCHANGED backend
    /\ UNCHANGED <<journal, wf, fx, link, radio>>

ConfirmSaved ==
    /\ run.pc = "saveConfirmed" /\ Save("backend_confirmed") /\ Settle
    /\ UNCHANGED <<wf, fx, link, radio, backend, left>>

-----------------------------------------------------------------------------
(* Deprovision: a call of its own, which holds the runtime without a workflow *)

RemovalWrites == {"grant", "command"}
Removing == run.direct /\ run.pc \in RemovalWrites \cup {"verify", "listen", "await", "close"}

\* It goes on to pc when the step succeeded and nobody has aborted it meanwhile.
StepTo(pc) == [run EXCEPT !.busy = "no", !.pc = pc]
Alive == link /\ ~run.stop

Deprovision ==
    /\ run.pc = "idle" /\ link /\ left.removals > 0
    /\ left' = [left EXCEPT !.removals = @ - 1]
    /\ run' = [NoRun EXCEPT !.pc = "verify", !.direct = TRUE]
    /\ UNCHANGED <<journal, wf, fx, link, radio, backend>>

\* verifyConnectedDevice: the serial number is read again.
VerifyDevice ==
    /\ run.pc = "verify"
    /\ run' = IF Alive THEN StepTo("grant") ELSE [NoRun EXCEPT !.told = "failed"]
    /\ UNCHANGED <<journal, wf, fx, link, radio, backend, left>>

RemovalWrite ==
    /\ run.pc \in RemovalWrites /\ run.busy = "no" /\ link
    /\ run' = [run EXCEPT !.busy = run.pc]
    /\ UNCHANGED <<journal, wf, fx, link, radio, backend, left>>

\* gattStep joins the write, and ends the call when it failed or was aborted.  The
\* window for the result opens after the command; a result that overtakes the
\* callback of the command is not heard.
RemovalSettles ==
    /\ run.pc \in RemovalWrites
    /\ \/ run.busy = "executed" /\ (run.pc = "grant" => air = <<>>)
       \/ ~link
    /\ run' = CASE run.pc = "grant"   -> IF Alive THEN StepTo("listen") ELSE [NoRun EXCEPT !.told = "failed"]
                [] run.pc = "command" -> StepTo(IF Alive THEN "await" ELSE "close")
    /\ UNCHANGED <<journal, wf, fx, link, radio, backend, left>>

Listen ==
    /\ run.pc = "listen" /\ air = <<>>
    /\ \/ UNCHANGED left
          /\ run' = IF ~link THEN [NoRun EXCEPT !.told = "failed"]
                    ELSE StepTo(IF run.stop THEN "close" ELSE "command")
       \/ Fault /\ run' = [NoRun EXCEPT !.told = "failed"]
    /\ UNCHANGED <<journal, wf, fx, link, radio, backend>>

\* The first result decides.
Taken(success) ==
    [run EXCEPT !.pc = "close", !.got = IF success THEN "removed" ELSE "refused"]

\* resultWithDeadline: the timer, or an abort.
Deadline ==
    /\ run.pc = "await" /\ run' = StepTo("close")
    /\ UNCHANGED <<journal, wf, fx, link, radio, backend, left>>

\* finally: the subscription is removed; a link that was lost by then fails the
\* call all the same.
Unlisten ==
    /\ run.pc = "close"
    /\ run' = [NoRun EXCEPT !.told = IF link /\ run.got # "none" THEN run.got ELSE "failed"]
    /\ UNCHANGED <<journal, wf, fx, link, radio, backend, left>>

-----------------------------------------------------------------------------
(* Effects *)

\* Notifications, timers and checkpoints change nothing that is told apart.
Quiet == {"save", "cancelTimer", "deleteCheckpoint"}

DoQuiet ==
    /\ Running /\ fx # <<>> /\ Head(fx) \in Quiet \cup {"unsubscribe"} /\ fx' = Tail(fx)
    /\ UNCHANGED <<journal, run, wf, link, radio, backend, left>>

\* The timer over all phases runs once its effect was executed.
Schedule ==
    /\ Head1("schedule") /\ fx' = Tail(fx) /\ wf' = [wf EXCEPT !.timer = TRUE]
    /\ UNCHANGED <<journal, run, link, radio, backend, left>>

Fire ==
    /\ Running /\ wf.timer /\ wf.phase \notin Terminal
    /\ Dispatched(Fail(wf))
    /\ UNCHANGED <<journal, run, link, radio, backend, left>>

Read ==
    /\ Head1("read")
    /\ Settled(IF link THEN ReadCompleted(wf) ELSE Fail(wf))
    /\ UNCHANGED <<journal, run, link, radio, backend, left>>

\* ProvisioningMaterialHost.execute: the serial number is read again.
VerifySerial ==
    /\ Head1("prepare") /\ run.stage = "none"
    /\ IF link THEN run' = [run EXCEPT !.stage = "provider", !.prep = TRUE] /\ UNCHANGED <<wf, fx>>
       ELSE Abort(run)
    /\ UNCHANGED <<journal, link, radio, backend, left>>

\* The provider answers, and opens an attempt again that it had aborted; or it
\* fails, or its material does not fit.
ProviderPrepares ==
    /\ Head1("prepare") /\ run.stage = "provider"
    /\ \/ /\ run' = [run EXCEPT !.stage = "saving"] /\ UNCHANGED <<wf, fx, left>>
          /\ backend' = [backend EXCEPT !.aborted = @ \ {run.a}]
       \/ Fault /\ run' = [run EXCEPT !.stage = "none"] /\ Settled(Fail(wf)) /\ UNCHANGED backend
    /\ UNCHANGED <<journal, link, radio>>

\* The material reaches the core only once its attempt is in the journal; a save
\* that a cancellation met is joined by it.
PreparedSaved ==
    /\ run.stage = "saving" /\ Save("prepared")
    /\ run' = [run EXCEPT !.stage = "none", !.mine = TRUE]
    /\ IF Running THEN Settled(MaterialPrepared(wf)) ELSE UNCHANGED <<wf, fx>>
    /\ UNCHANGED <<link, radio, backend, left>>

\* Enabling the notifications is a round trip: what was under way has arrived.
Subscribe ==
    /\ Head1("subscribe") /\ air = <<>>
    /\ Settled(IF link THEN WriteEndpoint(wf) ELSE Fail(wf))
    /\ UNCHANGED <<journal, run, link, radio, backend, left>>

Writes == {"endpoint", "token"}
Writing == Running /\ fx # <<>> /\ Head(fx) \in Writes

\* The write is handed to the platform.
Write ==
    /\ Writing /\ run.busy = "no"
    /\ IF link THEN run' = [run EXCEPT !.busy = Head(fx)] /\ UNCHANGED <<wf, fx>>
       ELSE UNCHANGED run /\ Settled(Fail(wf))
    /\ UNCHANGED <<journal, link, radio, backend, left>>

LastWrite == Head(fx) = "token" /\ wf.chunk + 1 = Chunks

\* Its callback: the device has executed it, or the link is gone. A result that
\* was sent before the write has arrived by then.
WriteSettles ==
    /\ ~Removing
    /\ \/ run.busy = "executed" /\ (Writing => air = <<>> \/ LastWrite)
       \/ run.busy # "no" /\ ~link
    /\ run' = [run EXCEPT !.busy = "no"]
    /\ IF Running THEN Settled(IF link THEN WriteCompleted(wf) ELSE Fail(wf))
       ELSE UNCHANGED <<wf, fx>>
    /\ UNCHANGED <<journal, link, radio, backend, left>>

\* The result reaches the workflow that subscribed, which refuses one it does
\* not expect, or the removal, once its window is open.
Deliver ==
    /\ air # <<>> /\ air' = Tail(air)
    /\ IF run.pc = "await" THEN run' = Taken(Head(air)) /\ UNCHANGED <<wf, fx>>
       ELSE IF ~Running \/ ~wf.sub \/ wf.phase \in Terminal THEN UNCHANGED host
       ELSE IF ~Expected(wf) THEN Abort(run)
       ELSE /\ Dispatched(Result(wf, Head(air)))
            /\ run' = [run EXCEPT !.heard = Head(air)]
    /\ UNCHANGED <<journal, link, dev, applied, backend, left>>

\* The notification Failed: the owner fails.
Failed ==
    /\ Head1("failed") /\ Abort(run)
    /\ UNCHANGED <<journal, link, radio, backend, left>>

-----------------------------------------------------------------------------
(* The device *)

\* A result it has to make: of the credential of an attempt, or of its removal.
Removal == -1

\* It executes one write after the other, and none while it stores a credential.
DeviceExecutes ==
    /\ run.busy \in Writes \cup RemovalWrites /\ link /\ dev.storing = 0
    /\ run' = [run EXCEPT !.busy = "executed"]
    /\ dev' = CASE run.busy = "endpoint" -> [dev EXCEPT !.n = 0]
                [] run.busy = "token"    -> [dev EXCEPT !.n = @ + 1,
                                               !.storing = IF dev.n + 1 = Chunks THEN run.a ELSE 0]
                [] run.busy = "grant"    -> [dev EXCEPT !.granted = TRUE]
                [] run.busy = "command"  -> [dev EXCEPT !.storing = Removal]
    /\ UNCHANGED <<journal, wf, fx, link, air, applied, backend, left>>

\* It stores or removes the credential, or refuses to, and sends the result.
DeviceStores ==
    /\ dev.storing # 0
    /\ \E success \in BOOLEAN :
          /\ success /\ dev.storing = Removal => dev.granted
          /\ IF success \/ dev.storing = Removal THEN UNCHANGED left ELSE Fault
          /\ applied' = IF success THEN applied \cup ({dev.storing} \ {Removal}) ELSE applied
          /\ dev' = [n |-> 0, storing |-> 0, granted |-> FALSE,
                     bound |-> IF success THEN dev.storing # Removal ELSE dev.bound]
          /\ air' = IF link THEN Append(air, success) ELSE air
    /\ UNCHANGED <<journal, host, link, backend>>

-----------------------------------------------------------------------------
(* Faults *)

\* markDeviceDisconnected: the workflow is told, a call without one is aborted.
LinkDrops ==
    /\ Fault /\ link /\ link' = FALSE /\ air' = <<>>
    /\ IF Running THEN Dispatched(Fail(wf)) ELSE UNCHANGED <<wf, fx>>
    /\ run' = IF run.direct THEN [run EXCEPT !.stop = TRUE] ELSE run
    /\ dev' = [dev EXCEPT !.granted = FALSE]
    /\ UNCHANGED <<journal, applied, backend>>

Connect ==
    /\ ~link /\ run.pc = "idle" /\ link' = TRUE
    /\ UNCHANGED <<journal, host, radio, backend, left>>

LoseResult ==
    /\ left.lost > 0 /\ left' = [left EXCEPT !.lost = @ - 1]
    /\ air # <<>> /\ air' = Tail(air)
    /\ UNCHANGED <<journal, host, link, dev, applied, backend>>

\* A read or write of the storage fails.
StorageFails ==
    /\ Fault
    /\ \/ run.pc \in {"load", "saveAborted", "applied", "saveConfirmed"}
          /\ Settle /\ UNCHANGED <<wf, fx>>
       \/ run.stage = "saving" /\ run.pc = "cancelling"
          /\ run' = [run EXCEPT !.stage = "none"] /\ UNCHANGED <<wf, fx>>
       \/ Running /\ run.stage = "saving" /\ Abort([run EXCEPT !.stage = "none"])
       \/ (Head1("save") \/ Head1("deleteCheckpoint")) /\ FailOwner
    /\ UNCHANGED <<journal, link, radio, backend>>

\* Removing the notifications of a link that is gone may be refused.
UnsubscribeFails ==
    /\ Fault /\ Head1("unsubscribe") /\ ~link /\ FailOwner
    /\ UNCHANGED <<journal, link, radio, backend>>

ReloadPage ==
    /\ Fault
    /\ run' = NoRun /\ wf' = NoWorkflow /\ fx' = <<>> /\ link' = FALSE /\ air' = <<>>
    /\ dev' = [dev EXCEPT !.granted = FALSE]
    /\ UNCHANGED <<journal, applied, backend>>

-----------------------------------------------------------------------------
Init ==
    /\ journal = [a \in Attempts |-> "absent"]
    /\ run = NoRun /\ wf = NoWorkflow /\ fx = <<>> /\ link = TRUE
    /\ air = <<>> /\ applied = {}
    /\ dev = [n |-> 0, storing |-> 0, granted |-> FALSE, bound |-> FALSE]
    /\ backend = [confirmed |-> {}, aborted |-> {}]
    /\ left = [faults |-> MaxFaults, aborts |-> MaxAborts, lost |-> MaxLost, removals |-> MaxRemovals]

Host == \/ Load \/ Cancelled \/ GiveUp \/ AbortSaved \/ Completed \/ AppliedSaved \/ ConfirmSaved
        \/ DoQuiet \/ Schedule \/ Fire \/ Read \/ VerifySerial \/ PreparedSaved \/ Subscribe
        \/ Write \/ WriteSettles \/ Deliver \/ Failed
        \/ VerifyDevice \/ RemovalWrite \/ RemovalSettles \/ Listen \/ Deadline \/ Unlisten

Provider == ProviderPrepares \/ ProviderAborts \/ ProviderConfirms \/ AbortFails \/ ConfirmFails

Device == DeviceExecutes \/ DeviceStores

Next == \/ Host \/ Provider \/ Device
        \/ \E a \in Attempts : Provision(a)
        \/ Deprovision \/ Cancel \/ Connect
        \/ LinkDrops \/ LoseResult \/ StorageFails \/ UnsubscribeFails \/ ReloadPage

Spec == Init /\ [][Next]_vars

\* The browser, the provider and the device go on, and the application provisions
\* an attempt again that the device has applied, on a device it reconnects.
LiveSpec ==
    /\ Spec /\ WF_vars(Host) /\ WF_vars(Provider) /\ WF_vars(Device) /\ WF_vars(Connect)
    /\ \A a \in Attempts : SF_vars(Provision(a) /\ journal[a] = "device_applied")

-----------------------------------------------------------------------------
\* No second credential is prepared for a device while what became of the first
\* is open, over cancellations, failures and reloads.
OneUnresolved == Cardinality(Unresolved) <= 1

\* What a journal claims happened: the device took the credential, and the
\* provider was told the same; the provider is told of a success only once the
\* journal remembers it.  A removal the application is told of has happened, also
\* when the result of an abandoned attempt is still on its way.
JournalTruthful ==
    /\ \A a \in Attempts :
        /\ journal[a] \in {"device_applied", "backend_confirmed"} => a \in applied
        /\ journal[a] = "backend_confirmed" => a \in backend.confirmed
        /\ journal[a] = "aborted" => a \in backend.aborted
        /\ a \in backend.confirmed => journal[a] \in {"device_applied", "backend_confirmed"}
    /\ backend.confirmed \cap backend.aborted = {}
    /\ run.told = "removed" => ~dev.bound

\* An attempt whose success was heard is never aborted, whatever fails after it.
HeardNotAborted == [][backend'.aborted # backend.aborted => ~run.heard]_vars

\* An attempt that the device has applied is confirmed to the provider in the end.
AppliedConfirms ==
    \A a \in Attempts : journal[a] = "device_applied" ~> journal[a] = "backend_confirmed"

=============================================================================
