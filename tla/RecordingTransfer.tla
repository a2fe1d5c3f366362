------------------------- MODULE RecordingTransfer --------------------------
(***************************************************************************)
(* One recording moved from a device to a file of the host: the core       *)
(* workflow (RecordingReducer), the host that executes its effects, the    *)
(* durable file and checkpoint, the device and the BLE link, over several  *)
(* attempts with the same sink.                                            *)
(*                                                                         *)
(* Two hosts.  "js" is the executor of React Native: effects run unordered,*)
(* except GATT writes, and the effects of a terminal or cancelled workflow *)
(* wait until all earlier ones have settled.  "apple" drains the effects   *)
(* of the sink and of persistence one after the other in issue order.      *)
(***************************************************************************)
EXTENDS RecordingReducer

CONSTANTS
  Host,               \* "js" or "apple"
  TruncateExtends,    \* truncating beyond the end of the file pads it with zeros
  Strays,             \* packets the device may send out of its stream
  CancelPhases,       \* phases in which the application may cancel
  Faults,             \* kinds of faults that may happen
  MaxRuns, MaxFaults  \* bounds on the attempts and on the faults

FaultKinds == { "lose", "duplicate", "stray", "disconnect", "opfail", "crash", "otherflow" }

ASSUME HostAssumption ==
  /\ Host \in {"js", "apple"}
  /\ TruncateExtends \in BOOLEAN
  /\ Host = "apple" => TruncateExtends
  /\ Host = "js" => ~ ConfirmOnCompletion
  /\ Strays \subseteq Packets
  /\ CancelPhases \subseteq Phases \ {"Completed", "Failed"}
  /\ Faults \subseteq FaultKinds
  /\ MaxRuns \in Nat /\ MaxFaults \in Nat

VARIABLES
  \* the core and its host
  status,    \* of the workflow: "Idle" before the first start
  wf,        \* RecordingTransferWorkflow
  ops,       \* kinds of the effects the host has not settled, Save excepted
  saves,     \* SaveCheckpoint effects the host has not settled
  replies,   \* writes the device executed, their callback still to come
  timer,     \* the SHA grace timer is armed
  stuck,     \* js: a cleanup failed and the owner is retained
  \* durable state of the host
  file, journal,
  \* the device and the link
  devHas,    \* the device still stores the recording
  devPos,    \* next packet of the stream, 0 when the device is not sending
  link,      \* the peripheral is connected
  \* bounds
  runs, faults

host    == <<status, wf, ops, saves, replies, timer, stuck>>
durable == <<file, journal>>
device  == <<devHas, devPos, link>>
bounds  == <<runs, faults>>
vars    == <<host, durable, device, bounds>>

Running  == status = "Running"
Statuses == {"Idle", "Running", "Completed", "Failed", "Cancelled"}

BleOps     == {"Subscribe", "START", "ACK", "NACK", "ABORT", "CONFIRM"}
Writes     == BleOps \ {"Subscribe"}
SinkOps    == {"Truncate", "Append", "Finalize"}
CleanupOps == {"NACK", "ABORT", "Discard", "Delete"}

Checkpoints  == [units : Nat, last : Int]
NoCheckpoint == [units |-> 0, last |-> None]   \* loads as no checkpoint does

\* START makes the device stream the recording from its first packet.
Stream ==
  (IF Relay THEN <<[t |-> "E2eStart", n |-> Header]>> ELSE <<>>)
  \o [i \in 1..N |-> [t |-> IF Relay THEN "EncryptedData" ELSE "Data", n |-> i - 1]]
  \o <<[t |-> IF Relay THEN "EncryptedEof" ELSE "Eof", n |-> N - 1],
       [t |-> "Sha256", n |-> 0]>>

Init ==
  /\ status = "Idle" /\ wf = NewWorkflow
  /\ ops = {} /\ saves = {} /\ replies = {}
  /\ timer = FALSE /\ stuck = FALSE
  /\ file = <<>> /\ journal = NoCheckpoint
  /\ devHas = TRUE /\ devPos = 0 /\ link = TRUE
  /\ runs = 0 /\ faults = 0

-----------------------------------------------------------------------------
(* The host takes an answer of the core. *)

StatusOf(w) == IF w.phase \in {"Completed", "Failed"} THEN w.phase ELSE "Running"

\* Cancelling: the workflow asks for an abort and for the cleanup of its data.
Cancelling(w, rest) ==
  /\ wf' = w
  /\ status' = "Cancelled"
  /\ ops' = rest \cup CancelEffects
  /\ timer' = FALSE
  /\ UNCHANGED saves

\* Mutant: the sequence is taken from the append instead of the workflow.
CheckpointOf_Pending(w) ==
  [units |-> w.completed, last |-> w.pendSeq, late |-> StatusOf(w) # "Running"]

\* The SaveCheckpoint effect; late when it comes with the end of the workflow.
CheckpointOf(w) ==
  [units |-> w.completed, last |-> w.last, late |-> StatusOf(w) # "Running"]

Accept(r, rest) ==
  /\ wf' = r.wf
  /\ status' = StatusOf(r.wf)
  /\ ops' = rest \cup (r.out \ {"Save"})
  /\ saves' = saves \cup IF "Save" \in r.out THEN {CheckpointOf(r.wf)} ELSE {}
  /\ timer' = r.wf.shaTimer

\* dispatch returned Err: the js host cancels its owner, the native ones
\* ignore an UnexpectedEvent.
Refused(w, rest) ==
  IF Host = "js" THEN Cancelling(w, rest)
  ELSE wf' = w /\ ops' = rest /\ UNCHANGED <<status, saves, timer>>

Dispatch(r, rest) == IF r.rejected THEN Refused(r.wf, rest) ELSE Accept(r, rest)

\* The result of an effect reaches the core only while its workflow runs.
Settle(op, r) ==
  IF Running THEN Dispatch(r, ops \ {op})
  ELSE ops' = ops \ {op} /\ UNCHANGED <<status, wf, saves, timer>>

\* The order in which the host executes its effects.  The js host starts the
\* save and the delete of one batch together and relies on its persistence port
\* to apply them in call order.
Barrier == ops \subseteq CleanupOps /\ \A s \in saves : s.late

JsMayRun(op) ==
  /\ op \in CleanupOps => Barrier
  /\ op = "Delete" => saves = {}

AppleMayRun(op) ==
  CASE op \in SinkOps         -> saves = {}
    [] op = "Discard"         -> saves = {} /\ ops \cap SinkOps = {}
    [] op = "Delete"          -> saves = {} /\ ops \cap (SinkOps \cup {"Discard"}) = {}
    [] op \in {"NACK","ABORT"} -> Running \/ ops \cap {"Subscribe","START","ACK","CONFIRM"} = {}
    [] op \in BleOps          -> Running => ops \cap {"NACK","ABORT"} = {}
    [] OTHER                  -> TRUE

MayRun(op) == op \in ops /\ IF Host = "js" THEN JsMayRun(op) ELSE AppleMayRun(op)

-----------------------------------------------------------------------------
(* The application. *)

\* The host is free once the previous owner has settled; the native hosts do
\* not wait for its last acknowledgement to be written.
OwnerFree ==
  /\ ~ Running /\ ~ stuck /\ saves = {}
  /\ ops \subseteq IF Host = "js" THEN {} ELSE {"NACK", "ABORT"}

Start ==
  /\ OwnerFree /\ devHas /\ link /\ runs < MaxRuns
  /\ runs' = runs + 1
  /\ status' = "Running" /\ wf' = NewWorkflow
  /\ ops' = ops \cup {"Load"}
  /\ UNCHANGED <<saves, replies, timer, stuck, durable, device, faults>>

Cancel ==
  /\ Running /\ wf.phase \in CancelPhases
  /\ Cancelling([wf EXCEPT !.shaTimer = FALSE, !.queue = <<>>], ops)
  /\ UNCHANGED <<replies, stuck, durable, device, bounds>>

-----------------------------------------------------------------------------
(* The effects on the checkpoint and on the file. *)

LoadCheckpoint ==
  /\ MayRun("Load")
  /\ Settle("Load", CheckpointLoaded(wf, journal))
  /\ UNCHANGED <<replies, stuck, durable, device, bounds>>

SaveCheckpoint(s) ==
  /\ s \in saves
  /\ s.late /\ Host = "js" => Barrier
  /\ journal' = [units |-> s.units, last |-> s.last]
  /\ saves' = saves \ {s}
  /\ UNCHANGED <<status, wf, ops, replies, timer, stuck, file, device, bounds>>

DeleteCheckpoint ==
  /\ MayRun("Delete")
  /\ journal' = NoCheckpoint
  /\ ops' = ops \ {"Delete"}
  /\ UNCHANGED <<status, wf, saves, replies, timer, stuck, file, device, bounds>>

\* The file cut, or padded, to the units of the checkpoint.
Cut(units) ==
  IF units <= Len(file) THEN SubSeq(file, 1, units)
  ELSE IF TruncateExtends THEN file \o [i \in 1..(units - Len(file)) |-> Hole]
  ELSE file

TruncateSink ==
  /\ MayRun("Truncate")
  /\ file' = Cut(wf.completed)
  /\ Settle("Truncate", SinkTruncated(wf))
  /\ UNCHANGED <<replies, stuck, journal, device, bounds>>

\* js writes at the offset it remembers and requires exactly the new length;
\* apple writes at the end and reports the length it finds.
AtOffset == Host = "js" => Len(file) = wf.completed

AppendSink ==
  /\ MayRun("Append")
  /\ IF ~ AtOffset
     THEN Settle("Append", Fail(wf, {})) /\ UNCHANGED file
     ELSE /\ file' = file \o wf.pend
          /\ Settle("Append", AppendCompleted(wf, Len(file')))
  /\ UNCHANGED <<replies, stuck, journal, device, bounds>>

\* Mutant: only the length is verified.
IntegrityFails_SizeOnly == wf.enc # "yes" /\ Len(file) # Len(Full)

\* The checksum of EOF covers the plain recording; the encrypted EOF has none.
IntegrityFails == wf.enc # "yes" /\ file # Full

FinalizeFile ==
  /\ MayRun("Finalize")
  /\ Settle("Finalize",
       IF IntegrityFails THEN FailIntegrity(wf)
       ELSE IF ~ AtOffset THEN Fail(wf, {})
       ELSE SinkFinalized(wf, Len(file)))
  /\ UNCHANGED <<replies, stuck, durable, device, bounds>>

DiscardSink ==
  /\ MayRun("Discard")
  /\ file' = <<>>
  /\ ops' = ops \ {"Discard"}
  /\ UNCHANGED <<status, wf, saves, replies, timer, stuck, journal, device, bounds>>

TimerFires ==
  /\ timer /\ Running
  /\ Dispatch(TimerFired(wf), ops)
  /\ UNCHANGED <<replies, stuck, durable, device, bounds>>

-----------------------------------------------------------------------------
(* The effects on the device. *)

Subscribe ==
  /\ MayRun("Subscribe") /\ link
  /\ Settle("Subscribe", Subscribed(wf))
  /\ UNCHANGED <<replies, stuck, durable, device, bounds>>

\* START restarts the stream, CONFIRM releases the recording, the
\* acknowledgements end the session.
DeviceExecutes(op) ==
  /\ op \in Writes /\ MayRun(op) /\ link /\ op \notin replies
  /\ replies' = replies \cup {op}
  /\ devPos' = IF op = "START" THEN 1 ELSE 0
  /\ devHas' = (devHas /\ op # "CONFIRM")
  /\ UNCHANGED <<status, wf, ops, saves, timer, stuck, durable, link, bounds>>

WriteCompleted(op) ==
  CASE op = "START"   -> StartWritten(wf)
    [] op = "ACK"     -> AckWritten(wf)
    [] op = "CONFIRM" -> ConfirmWritten(wf)
    [] OTHER          -> Step(wf, {})

\* The callback of a write of an earlier workflow is ignored.
WriteCallback(op) ==
  /\ op \in replies
  /\ replies' = replies \ {op}
  /\ IF op \in {"START", "ACK", "CONFIRM"} THEN Settle(op, WriteCompleted(op))
     ELSE ops' = ops \ {op} /\ UNCHANGED <<status, wf, saves, timer>>
  /\ UNCHANGED <<stuck, durable, device, bounds>>

\* The core receives notifications once the subscription is up.
Listening ==
  Running /\ wf.phase \notin {"LoadingCheckpoint", "TruncatingSink", "Subscribing"}

Receive(p) ==
  IF Listening THEN Dispatch(Notification(wf, p), ops)
  ELSE UNCHANGED <<status, wf, ops, saves, timer>>

NextPos == IF devPos < Len(Stream) THEN devPos + 1 ELSE 0

DeviceSends ==
  /\ link /\ devPos # 0
  /\ devPos' = NextPos
  /\ Receive(Stream[devPos])
  /\ UNCHANGED <<replies, stuck, durable, devHas, link, bounds>>

\* Without a subscriber the device may give up; the digest is optional.
DeviceStops ==
  /\ devPos # 0
  /\ ~ Listening \/ devPos = Len(Stream)
  /\ devPos' = 0
  /\ UNCHANGED <<host, durable, devHas, link, bounds>>

-----------------------------------------------------------------------------
(* Faults. *)

Fault(kind) ==
  /\ kind \in Faults /\ faults < MaxFaults
  /\ faults' = faults + 1
  /\ UNCHANGED runs

LosePacket ==
  /\ link /\ devPos # 0 /\ Listening
  /\ Fault("lose")
  /\ devPos' = NextPos
  /\ UNCHANGED <<host, durable, devHas, link>>

DuplicatePacket ==
  /\ link /\ devPos > 1 /\ Listening
  /\ Fault("duplicate")
  /\ Receive(Stream[devPos - 1])
  /\ UNCHANGED <<replies, stuck, durable, device>>

StrayPacket ==
  /\ link /\ Listening
  /\ Fault("stray")
  /\ \E p \in Strays : Receive(p)
  /\ UNCHANGED <<replies, stuck, durable, device>>

\* An effect fails: the core hears of it while the workflow runs, the js host
\* keeps its owner when the effect belonged to the cleanup.
Failing(op) ==
  /\ MayRun(op)
  /\ replies' = replies \ {op}
  /\ IF Running /\ op \notin CleanupOps THEN Dispatch(Fail(wf, {}), ops \ {op})
     ELSE ops' = ops \ {op} /\ UNCHANGED <<status, wf, saves, timer>>
  /\ stuck' = (stuck \/ (Host = "js" /\ op \in CleanupOps))
  /\ UNCHANGED <<journal, device>>

\* A failed append may have written its bytes.
EffectFails(op) ==
  /\ Fault("opfail")
  /\ Failing(op)
  /\ file' \in {file, IF op = "Append" /\ AtOffset THEN file \o wf.pend ELSE file}

SaveFails(s) ==
  /\ s \in saves
  /\ s.late /\ Host = "js" => Barrier
  /\ Fault("opfail")
  /\ IF Running
     THEN /\ wf' = Fail(wf, {}).wf /\ status' = "Failed" /\ timer' = FALSE
          /\ UNCHANGED stuck
     ELSE /\ stuck' = (stuck \/ (Host = "js" /\ s.late))
          /\ UNCHANGED <<status, wf, timer>>
  /\ saves' = saves \ {s}
  /\ UNCHANGED <<ops, replies, durable, device>>

\* GATT work fails for certain once the link is gone.
LinkFails(op) ==
  /\ op \in BleOps /\ ~ link
  /\ Failing(op)
  /\ UNCHANGED <<file, bounds>>

\* Disconnected reaches the core through its subscription.  Without one the
\* js host cancels its owner, and apple waits for the next GATT effect to fail.
Disconnect ==
  /\ link
  /\ Fault("disconnect")
  /\ link' = FALSE /\ devPos' = 0 /\ replies' = {}
  /\ LET rest  == ops \ (BleOps \ CleanupOps)
         bound == wf.phase \notin {"LoadingCheckpoint", "TruncatingSink"}
     IN CASE Running /\ bound -> Dispatch(Fail(wf, {}), rest)
          [] Running /\ ~ bound /\ Host = "js" -> Cancelling(wf, ops)
          [] OTHER -> ops' = (IF Running THEN ops ELSE rest)
                      /\ UNCHANGED <<status, wf, saves, timer>>
  /\ UNCHANGED <<stuck, durable, devHas>>

Reconnect ==
  /\ ~ link
  /\ link' = TRUE
  /\ UNCHANGED <<host, durable, devHas, devPos, bounds>>

\* The process dies: the file and the checkpoint survive.
Crash ==
  /\ Fault("crash")
  /\ status' = "Idle" /\ wf' = NewWorkflow
  /\ ops' = {} /\ saves' = {} /\ replies' = {}
  /\ timer' = FALSE /\ stuck' = FALSE
  /\ link' = FALSE /\ devPos' = 0
  /\ UNCHANGED <<durable, devHas>>

\* The native hosts keep one checkpoint for all workflows.
OtherWorkflow ==
  /\ Host = "apple" /\ OwnerFree /\ journal # NoCheckpoint
  /\ Fault("otherflow")
  /\ journal' = NoCheckpoint
  /\ UNCHANGED <<host, file, device>>

-----------------------------------------------------------------------------

HostStep ==
  \/ LoadCheckpoint \/ DeleteCheckpoint
  \/ TruncateSink \/ AppendSink \/ FinalizeFile \/ DiscardSink
  \/ TimerFires \/ Subscribe
  \/ \E s \in saves : SaveCheckpoint(s)
  \/ \E op \in Writes : DeviceExecutes(op) \/ WriteCallback(op)
  \/ \E op \in BleOps : LinkFails(op)

FaultStep ==
  \/ LosePacket \/ DuplicatePacket \/ StrayPacket
  \/ \E op \in EffectKinds : EffectFails(op)
  \/ \E s \in saves : SaveFails(s)
  \/ Disconnect \/ Crash \/ OtherWorkflow

Next == Start \/ Cancel \/ HostStep \/ DeviceSends \/ DeviceStops \/ Reconnect \/ FaultStep

Spec == Init /\ [][Next]_vars

\* Every effect settles and the device keeps sending; nothing forces the
\* application, a fault, or a reconnection.
FairSpec == Spec /\ WF_vars(HostStep) /\ WF_vars(DeviceSends)

-----------------------------------------------------------------------------
(* Properties. *)

\* The type of every variable.
TypeOK ==
  /\ status \in Statuses /\ wf \in Workflows
  /\ ops \subseteq EffectKinds \ {"Save"}
  /\ saves \subseteq [units : Nat, last : Int, late : BOOLEAN]
  /\ replies \subseteq Writes \cap ops
  /\ timer \in BOOLEAN /\ stuck \in BOOLEAN
  /\ file \in Seq(Int) /\ journal \in Checkpoints
  /\ devHas \in BOOLEAN /\ devPos \in 0..Len(Stream) /\ link \in BOOLEAN
  /\ runs \in 0..MaxRuns /\ faults \in 0..MaxFaults

\* The device has released the recording only to a host that holds all of it:
\* no interleaving of attempts, cleanups and faults loses the only copy.
Custody == devHas \/ file = Full

\* A workflow reported as completed leaves the whole recording in the sink.
DeliveredWhole == status = "Completed" => file = Full

\* The units and the sequence of the checkpoint, written once per batch and
\* possibly out of order, describe one and the same point of the stream.
CheckpointExact ==
  journal.units = journal.last + 1 + (IF Relay /\ journal.units > 0 THEN 1 ELSE 0)

\* The transfer implements the custody it promises: see RecordingCustody.
Promise == INSTANCE RecordingCustody WITH Whole <- Full, onDevice <- devHas, copy <- file
KeepsCustody == Promise!Spec

\* A started workflow reaches a terminal status, whatever fails on the way, as
\* long as no notification is lost in the air.
Terminates == Running ~> ~ Running
-----------------------------------------------------------------------------
(* Why Custody holds, for a plain recording whose transfer is not cancelled *)
(* while it confirms: CustodyInv is inductive.                              *)

\* The effects a running workflow waits for in each phase.
OpsOf(phase) ==
  CASE phase = "LoadingCheckpoint" -> {"Load"}
    [] phase = "TruncatingSink"    -> {"Truncate"}
    [] phase = "Subscribing"       -> {"Subscribe"}
    [] phase = "Starting"          -> {"START"}
    [] phase = "Appending"         -> {"Append"}
    [] phase = "Finalizing"        -> {"Finalize"}
    [] phase = "Acknowledging"     -> {"ACK"}
    [] phase = "Confirming"        -> {"CONFIRM"}
    [] OTHER                       -> {}

OpsFollowPhase == Running => ops \subseteq OpsOf(wf.phase) \cup {"NACK", "ABORT"}

PhaseFollowsStatus ==
  (wf.phase \in {"Completed", "Failed"} => ~ Running)
  /\ (wf.phase = "Confirming" \/ "CONFIRM" \in ops \/ ~ devHas => ConfirmOnCompletion)

\* Nothing of a relayed recording reaches the workflow of a plain one.
PlainPackets == [t : PlainTypes \cup SharedTypes, n : Int]
Plain(w)     == w.enc # "yes" /\ w.queue \in Seq(PlainPackets)

\* Past the verification the file is whole, and on apple the checkpoint of the
\* last append has settled: no late failure can end a transfer that confirms.
Verified == {"WaitingForSha", "Acknowledging", "Confirming"}
VerifiedIsWhole ==
  Running /\ wf.phase \in Verified =>
    file = Full /\ (Host = "apple" => saves = {})

ConfirmIsRunning == "CONFIRM" \in ops => Running /\ wf.phase = "Confirming"

\* Once the device has released the recording nothing touches the file again.
ReleasedIsFinal ==
  ~ devHas =>
    /\ file = Full
    /\ Running => wf.phase = "Confirming"
    /\ ops \cap {"Load", "Truncate", "Append", "Finalize", "Discard"} = {}

\* The inductive invariant of the custody of a plain recording: what may be
\* outstanding in each phase, and what the file holds once it is verified.
CustodyInv ==
  /\ OpsFollowPhase /\ PhaseFollowsStatus /\ Plain(wf)
  /\ VerifiedIsWhole /\ ConfirmIsRunning /\ ReleasedIsFinal
=============================================================================
