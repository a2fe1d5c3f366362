----------------------------- MODULE Connection ------------------------------
(***************************************************************************)
(* An application connecting to a device over several operations: the core *)
(* workflow (ConnectionReducer), the host that executes its effects, the   *)
(* radio with its links, and the peripherals, each with the serial number  *)
(* it would answer.                                                        *)
(*                                                                         *)
(* Two hosts.  "js" is React Native: one lane for GATT operations, in which*)
(* a Disconnect waits for the operation already submitted, and the effects *)
(* of a terminal or cancelled workflow wait until all others have settled. *)
(* On "apple" a Disconnect bypasses the operations of its peripheral and   *)
(* fails them, and the radio has one owner with a priority.                *)
(***************************************************************************)
EXTENDS ConnectionReducer

CONSTANTS
  Hosts,              \* the hosts considered, among "js" and "apple"
  Malformed,          \* what a peripheral with no proper serial number answers
  Target,             \* the serial number the application asks for
  Hints,              \* the hints a reconnection may come with
  Faults,             \* kinds of faults that may happen
  MaxRuns, MaxFaults  \* bounds on the operations and on the faults

FaultKinds == {"scan", "stop", "checkpoint", "save", "delete", "disconnect", "release", "linkloss"}

ASSUME ConnectionAssumption ==
  /\ Hosts \subseteq {"js", "apple"}
  /\ Malformed \notin Serials
  /\ Target \in Serials
  /\ Hints \subseteq SUBSET Peripherals
  /\ Faults \subseteq FaultKinds
  /\ MaxRuns \in Nat /\ MaxFaults \in Nat

VARIABLES
  \* chosen once
  host, serialOf,
  \* the core and its host
  status,       \* of the workflow: "Idle" before the first start
  wf,           \* ConnectionWorkflow
  ops,          \* effects the host has not settled
  scanning,     \* the scan of the platform is delivering advertisements
  stuck,        \* js: a cleanup failed and the owner is retained
  established,  \* the peripheral the application was told it is connected to
  \* durable state of the host
  saved,        \* saved[s]: the peripheral last saved as the one of serial s
  \* the radio
  links,        \* peripherals with a connection
  radio,        \* js: peripheralId, the target of reads; apple: owner of the radio
  priority,     \* apple: the owner is a manual selection
  dialled,      \* peripherals the platform was asked to connect in this operation
  \* bounds
  runs, faults

world == <<host, serialOf>>
core  == <<status, wf, ops, scanning, stuck, established>>
air   == <<links, radio, priority, dialled>>
vars  == <<world, core, saved, air, runs, faults>>

Statuses == {"Idle", "Running", "Completed", "Failed", "Cancelled"}
Running  == status = "Running"
Js       == host = "js"
Op(kind) == <<kind, Nobody>>

IoKinds      == {"Connect", "Discover", "Read"}
Io           == IoKinds \X Peripherals
CleanupKinds == {"Delete", "Release"}

Init ==
  /\ host \in Hosts
  /\ serialOf \in [Peripherals -> Serials \cup {Malformed}]
  /\ status = "Idle" /\ wf = Base("manual", Target, {}, Nobody)
  /\ ops = {} /\ scanning = FALSE /\ stuck = FALSE /\ established = Nobody
  /\ saved = [s \in Serials |-> Nobody]
  /\ links = {} /\ radio = Nobody /\ priority = FALSE /\ dialled = {}
  /\ runs = 0 /\ faults = 0

-----------------------------------------------------------------------------
(* The host takes an answer of the core. *)

StatusOf(w) == IF w.phase \in {"Completed", "Failed"} THEN w.phase ELSE "Running"

Accept(r, rest) ==
  /\ wf' = r.wf
  /\ status' = StatusOf(r.wf)
  /\ ops' = rest \cup r.out
  /\ established' = IF r.wf.phase = "Completed" THEN r.wf.active ELSE established

\* Mutant: cancellation leaves the link to the platform.
Cancelling_KeepsLink(w, rest) ==
  /\ wf' = w
  /\ status' = "Cancelled"
  /\ ops' = (IF Js THEN rest ELSE rest \ Io) \cup (CancelEffects(w) \ {<<"Release", w.active>>})
  /\ UNCHANGED established

\* apple cancels the tasks of the workflow; js joins what it submitted.
Cancelling(w, rest) ==
  /\ wf' = w
  /\ status' = "Cancelled"
  /\ ops' = (IF Js THEN rest ELSE rest \ Io) \cup CancelEffects(w)
  /\ UNCHANGED established

\* dispatch returned Err: js cancels its owner, apple ignores the event.
Refused(w, rest) ==
  IF Js THEN Cancelling(w, rest)
  ELSE wf' = w /\ ops' = rest /\ UNCHANGED <<status, established>>

Dispatch(r, rest) == IF r.rejected THEN Refused(r.wf, rest) ELSE Accept(r, rest)

\* The result of an effect reaches the core only while its workflow runs.
Deliver(r, rest) ==
  IF Running THEN Dispatch(r, rest)
  ELSE ops' = rest /\ UNCHANGED <<status, wf, established>>

Settle(op, r) == Deliver(r, ops \ {op})

\* js: the lane and the barrier of the cleanup.
Barrier == \A op \in ops : op[1] \in CleanupKinds \cup {"StopScan"}

MayRun(op) ==
  /\ op \in ops
  /\ Js /\ op[1] = "Disconnect" => ops \cap Io = {}
  /\ Js /\ op[1] \in CleanupKinds => Barrier

-----------------------------------------------------------------------------
(* The application. *)

OwnerFree == ~ Running /\ ~ stuck /\ ops = {}

\* js releases an established connection before it starts; an application of
\* the native hosts does.
MayStart == OwnerFree /\ established = Nobody /\ runs < MaxRuns

Start(r) ==
  /\ runs' = runs + 1
  /\ status' = "Running" /\ wf' = r.wf /\ ops' = ops \cup r.out
  /\ dialled' = {}
  /\ UNCHANGED <<world, scanning, stuck, established, saved, links, radio, priority, faults>>

Connect ==
  MayStart /\ \E p \in Peripherals, d \in {Target, AnySerial} : Start(StartManual(d, p))

Reconnect == MayStart /\ \E hint \in Hints : Start(StartReconnect(Target, hint))

Cancel ==
  /\ Running
  /\ Cancelling(wf, ops)
  /\ UNCHANGED <<world, scanning, stuck, saved, air, runs, faults>>

\* js: peripheralId is cleared; apple: the arbiter forgets its owner.
ReleaseRadio(p) == radio' = IF radio = p THEN Nobody ELSE radio

\* The application gives up its connection.
Disconnect ==
  /\ OwnerFree /\ established # Nobody
  /\ links' = links \ {established}
  /\ ReleaseRadio(established)
  /\ established' = Nobody
  /\ UNCHANGED <<world, status, wf, ops, scanning, stuck, saved, priority, dialled, runs, faults>>

-----------------------------------------------------------------------------
(* The scan and its deadline. *)

StartScan ==
  /\ MayRun(Op("StartScan"))
  /\ ops' = ops \ {Op("StartScan")}
  /\ scanning' = Running
  /\ UNCHANGED <<world, status, wf, stuck, established, saved, air, runs, faults>>

Advertise(p) ==
  /\ scanning /\ Running
  /\ Dispatch(ScanResult(wf, p), ops)
  /\ UNCHANGED <<world, scanning, stuck, saved, air, runs, faults>>

ScanStops ==
  /\ MayRun(Op("StopScan")) /\ Op("StartScan") \notin ops
  /\ scanning' = FALSE
  /\ Settle(Op("StopScan"), ScanStopped(wf))
  /\ UNCHANGED <<world, stuck, saved, air, runs, faults>>

ScanDeadline ==
  /\ Running /\ wf.phase = "Scanning"
  /\ Dispatch(ScanTimerFired(wf), ops)
  /\ UNCHANGED <<world, scanning, stuck, saved, air, runs, faults>>

\* A fault of this kind happens.
Fault(kind) == kind \in Faults /\ faults < MaxFaults /\ faults' = faults + 1

StartScanFails ==
  /\ Running /\ MayRun(Op("StartScan")) /\ Fault("scan")
  /\ Settle(Op("StartScan"), UnexpectedFailure(wf))
  /\ UNCHANGED <<world, scanning, stuck, saved, air, runs>>

\* js: the subscription delivers nothing more, but its removal is uncertain.
StopScanFails ==
  /\ Js /\ MayRun(Op("StopScan")) /\ Op("StartScan") \notin ops /\ Fault("stop")
  /\ scanning' = FALSE /\ stuck' = TRUE
  /\ Settle(Op("StopScan"), UnexpectedFailure(wf))
  /\ UNCHANGED <<world, saved, air, runs>>

-----------------------------------------------------------------------------
(* Attempts.  On apple the radio is acquired before the platform is asked: a   *)
(* manual selection preempts a reconnection, and whoever else finds an owner   *)
(* is refused.                                                                 *)

Manual == wf.mode = "manual"

\* RadioArbiter.acquire
MayAcquire(p) == radio \in {Nobody, p} \/ (Manual /\ ~ priority)

Acquire(p) ==
  /\ radio' = p
  /\ priority' = (Manual \/ (radio = p /\ priority))
  /\ links' = IF radio # p THEN links \ {radio} ELSE links

\* The platform is about to be asked for the connection.
ToDial(p) ==
  /\ Running /\ MayRun(<<"Connect", p>>) /\ p \notin dialled
  /\ Js \/ MayAcquire(p)

Dial(p) ==
  /\ ToDial(p)
  /\ dialled' = dialled \cup {p}
  /\ IF Js THEN UNCHANGED <<links, radio, priority>> ELSE Acquire(p)
  /\ UNCHANGED <<world, core, saved, runs, faults>>

\* Seconds after the platform was asked, if it was to be asked at all.
AttemptDeadline ==
  /\ Running /\ "timer" \in wf.waits /\ \A p \in Peripherals : ~ ToDial(p)
  /\ Dispatch(AttemptTimerFired(wf), ops)
  /\ UNCHANGED <<world, scanning, stuck, saved, air, runs, faults>>

ConnectUp(p) ==
  /\ Running /\ MayRun(<<"Connect", p>>) /\ p \in dialled
  /\ links' = links \cup {p}
  /\ radio' = p
  /\ Settle(<<"Connect", p>>, Connected(wf, p))
  /\ UNCHANGED <<world, scanning, stuck, saved, priority, dialled, runs, faults>>

\* Refused by the arbiter, or failed by the platform.  The radio keeps its owner.
ConnectFails(p) ==
  /\ MayRun(<<"Connect", p>>)
  /\ ~ ToDial(p)
  /\ Settle(<<"Connect", p>>, ConnectFailed(wf, p))
  /\ UNCHANGED <<world, scanning, stuck, saved, air, runs, faults>>

\* js: the connection comes up after the abort, and undoing it fails.
ConnectUncertain(p) ==
  /\ Js /\ ~ Running /\ MayRun(<<"Connect", p>>) /\ p \in dialled /\ Fault("release")
  /\ links' = links \cup {p} /\ stuck' = TRUE
  /\ ops' = ops \ {<<"Connect", p>>}
  /\ UNCHANGED <<world, status, wf, scanning, established, saved, radio, priority, dialled, runs>>

Discovers(p) ==
  /\ MayRun(<<"Discover", p>>) /\ p \in links
  /\ Settle(<<"Discover", p>>, ServicesDiscovered(wf, p))
  /\ UNCHANGED <<world, scanning, stuck, saved, air, runs, faults>>

\* The read goes to the peripheral of the radio.
Reads(p) ==
  /\ MayRun(<<"Read", p>>) /\ radio \in links
  /\ Settle(<<"Read", p>>, ReadCompleted(wf, p, serialOf[radio]))
  /\ UNCHANGED <<world, scanning, stuck, saved, air, runs, faults>>

VerificationFails(p) ==
  /\ \/ /\ MayRun(<<"Discover", p>>)
        /\ Settle(<<"Discover", p>>, AttemptFailed(wf, "discover", p))
     \/ /\ MayRun(<<"Read", p>>)
        /\ Settle(<<"Read", p>>, AttemptFailed(wf, "read", p))
  /\ UNCHANGED <<world, scanning, stuck, saved, air, runs, faults>>

\* apple gives up a discovery after ten seconds, and its link with it.
DiscoverTimesOut(p) ==
  /\ ~ Js /\ MayRun(<<"Discover", p>>)
  /\ links' = links \ {p} /\ ReleaseRadio(p)
  /\ Settle(<<"Discover", p>>, AttemptFailed(wf, "discover", p))
  /\ UNCHANGED <<world, scanning, stuck, saved, priority, dialled, runs, faults>>

LinkLost(p) ==
  /\ p \in links /\ Fault("linkloss")
  /\ links' = links \ {p}
  /\ IF Js /\ p = established THEN established' = Nobody /\ ReleaseRadio(p)
     ELSE UNCHANGED <<established, radio>>
  /\ UNCHANGED <<world, status, wf, ops, scanning, stuck, saved, priority, dialled, runs>>

-----------------------------------------------------------------------------
(* Disconnections: Disconnect of an attempt that was given up, Release of a    *)
(* cancelled workflow.                                                         *)

\* On apple the operations of the peripheral fail first.
Drop(p, kind) ==
  IF Js THEN ops \ {<<kind, p>>} ELSE ops \ ({<<kind, p>>} \cup (IoKinds \X {p}))

Disconnects(p, kind) ==
  /\ MayRun(<<kind, p>>)
  /\ links' = links \ {p} /\ ReleaseRadio(p)
  /\ Deliver(Disconnected(wf, p), Drop(p, kind))
  /\ UNCHANGED <<world, scanning, stuck, saved, priority, dialled, runs, faults>>

\* js: a Disconnect that was only queued when its workflow was cancelled.
DisconnectSkipped(p) ==
  /\ Js /\ ~ Running /\ MayRun(<<"Disconnect", p>>)
  /\ ops' = ops \ {<<"Disconnect", p>>}
  /\ UNCHANGED <<world, status, wf, scanning, stuck, established, saved, air, runs, faults>>

\* js: cancelDeviceConnection fails, of a link or of one that was lost.
DisconnectFails(p, kind) ==
  /\ Js /\ MayRun(<<kind, p>>)
  /\ \/ p \in links /\ Fault(IF kind = "Release" THEN "release" ELSE "disconnect")
     \/ p \notin links /\ radio = p /\ UNCHANGED faults
  /\ stuck' = (stuck \/ kind = "Release")
  /\ Settle(<<kind, p>>, DisconnectFailed(wf, p))
  /\ UNCHANGED <<world, scanning, saved, air, runs>>

-----------------------------------------------------------------------------
(* Persistence. *)

CheckpointSaved ==
  /\ MayRun(Op("Checkpoint"))
  /\ ops' = ops \ {Op("Checkpoint")}
  /\ UNCHANGED <<world, status, wf, scanning, stuck, established, saved, air, runs, faults>>

CheckpointFails ==
  /\ Running /\ MayRun(Op("Checkpoint")) /\ Fault("checkpoint")
  /\ Settle(Op("Checkpoint"), UnexpectedFailure(wf))
  /\ UNCHANGED <<world, scanning, stuck, saved, air, runs>>

SavesIdentity(p) ==
  /\ MayRun(<<"Save", p>>)
  /\ saved' = [saved EXCEPT ![wf.device] = p]
  /\ Settle(<<"Save", p>>, IdentitySaved(wf))
  /\ UNCHANGED <<world, scanning, stuck, air, runs, faults>>

SaveFails(p) ==
  /\ MayRun(<<"Save", p>>)
  /\ Fault("save") \/ (~ Running /\ UNCHANGED faults)
  /\ Settle(<<"Save", p>>, UnexpectedFailure(wf))
  /\ UNCHANGED <<world, scanning, stuck, saved, air, runs>>

DeletesCheckpoint ==
  /\ MayRun(Op("Delete"))
  /\ ops' = ops \ {Op("Delete")}
  /\ \/ UNCHANGED <<stuck, faults>>
     \/ Js /\ Fault("delete") /\ stuck' = TRUE
  /\ UNCHANGED <<world, status, wf, scanning, established, saved, air, runs>>

-----------------------------------------------------------------------------
(* The specification. *)

Application == Connect \/ Reconnect \/ Cancel \/ Disconnect

Timers == ScanDeadline \/ AttemptDeadline

ScanSettles == StartScan \/ StartScanFails \/ ScanStops \/ StopScanFails

AttemptSettles(p) ==
  ConnectUp(p) \/ ConnectFails(p) \/ ConnectUncertain(p)
  \/ Discovers(p) \/ Reads(p) \/ VerificationFails(p)

DisconnectSettles(p) ==
  DisconnectSkipped(p)
  \/ \E kind \in {"Disconnect", "Release"} : Disconnects(p, kind) \/ DisconnectFails(p, kind)

PersistenceSettles ==
  CheckpointSaved \/ CheckpointFails \/ DeletesCheckpoint
  \/ \E p \in Peripherals : SavesIdentity(p) \/ SaveFails(p)

Next ==
  \/ Application \/ Timers \/ ScanSettles \/ PersistenceSettles
  \/ \E p \in Peripherals :
       Advertise(p) \/ Dial(p) \/ AttemptSettles(p) \/ DiscoverTimesOut(p)
       \/ LinkLost(p) \/ DisconnectSettles(p)

\* Timers fire, and the host settles what it was given.  A connection, a
\* discovery or a read settles by itself on js only: the lane has no other way
\* out.  On apple the attempt deadline has to end it.
Fairness ==
  /\ WF_vars(ScanDeadline) /\ WF_vars(AttemptDeadline)
  /\ WF_vars(ScanSettles) /\ WF_vars(PersistenceSettles)
  /\ \A p \in Peripherals :
       /\ WF_vars(DisconnectSettles(p)) /\ WF_vars(Dial(p))
       /\ WF_vars(Js /\ AttemptSettles(p))

Spec == Init /\ [][Next]_vars
LiveSpec == Spec /\ Fairness

-----------------------------------------------------------------------------
(* Properties. *)

\* Every variable has its type, whatever the host settles and in which order
\* (connection.rs, executor.ts, CoreBluetoothHost.swift).
TypeOK ==
  /\ host \in Hosts /\ serialOf \in [Peripherals -> Serials \cup {Malformed}]
  /\ status \in Statuses /\ wf \in Workflows /\ ops \subseteq Effects
  /\ scanning \in BOOLEAN /\ stuck \in BOOLEAN
  /\ established \in Peripherals \cup {Nobody}
  /\ saved \in [Serials -> Peripherals \cup {Nobody}]
  /\ links \subseteq Peripherals /\ radio \in Peripherals \cup {Nobody}
  /\ priority \in BOOLEAN /\ dialled \subseteq Peripherals
  /\ runs \in 0..MaxRuns /\ faults \in 0..MaxFaults

\* A hint, a name or a late answer never makes an identity: what is saved as the
\* device of a serial number, and what the application is told it is connected
\* to, answered that serial number itself (ReadCompleted and begin_persist, on a
\* host whose reads go to the current peripheral of the radio).
IdentityVerified ==
  /\ \A s \in Serials : saved[s] # Nobody => serialOf[saved[s]] = s
  /\ established # Nobody => serialOf[established] \in Serials
  /\ established # Nobody /\ wf.mode = "reconnect" => serialOf[established] = Target

\* "at most one candidate connection at a time": over candidates, timeouts, late
\* connections, cancellations and the operations that follow each other; and
\* when an operation has settled the radio holds no connection but the one the
\* application knows of, and no scan runs (cancel, finish).
LinksOwned ==
  /\ Cardinality(links) <= 1
  /\ OwnerFree => links \subseteq {established} /\ ~ scanning

\* "never verify identity or probe again before the ack": while an attempt that
\* was given up is being disconnected the workflow does nothing else, and an
\* operation of the radio under way is one on the active candidate.
RetiredFirst ==
  Running =>
    /\ ops \cap ({"Disconnect"} \X Peripherals) # {} => wf.phase = "Disconnecting"
    /\ \A op \in ops \cap Io : op[2] = wf.active

\* A reconnection reports that its device was not found only when every candidate
\* it found was tried (begin_next_probe, finish_disconnect).
Exhaustive ==
  status = "Failed" /\ wf.mode = "reconnect" => (wf.found \cap Named) \subseteq wf.tried

\* apple: an event the core refused was the last one its phase was waiting for.
Hung ==
  ~ Js /\ wf.phase = "Persisting" /\ <<"Save", wf.active>> \notin ops

\* Every operation ends: with its device, with a failure, or cancelled, whatever
\* the peripherals do; but one that hangs as above.
EveryRunEnds == Running ~> (~ Running \/ Hung)
=============================================================================
