-------------------------- MODULE NativeWorkflows --------------------------
(***************************************************************************)
(* The remaining workflows of the core on a native host: factory reset and *)
(* its resumption, live transfer, upload handoff and discovery on React    *)
(* Native, and the device log on Apple (React Native reads the log without *)
(* the engine).  The application runs one operation after another through  *)
(* BotaJsHostExecutor (jsHost/executor.ts), which asks the engine through  *)
(* the binding (device-sdk-js/src/engine.rs and core engine/runtime.rs) and*)
(* executes the effects of its answers concurrently against the radio, the *)
(* files, the application and the service.  DeviceLogManager does the same *)
(* through CoreEngineActor and HostEffectExecutor, where OnApple says so.  *)
(*                                                                         *)
(* A behaviour keeps to one family of operations; the device, the radio and*)
(* the application's backend are modelled from the way the code uses them. *)
(***************************************************************************)
EXTENDS ResetReducer, StreamReducer, HandoffReducer, LogsReducer, Sequences, FiniteSets

CONSTANTS
  Families,     \* the families of operations the application may use
  Commands,     \* identifiers of factory-reset commands
  Count,        \* what the device counts when it resets
  Units,        \* packets of the recording
  ChunkSize,    \* units of an uploaded chunk of plaintext
  Attempts,     \* of the upload of one chunk: 3
  Pending,      \* recordings the device may have to upload
  Fragments,    \* of the device log, two for each line
  MaxOperations, MaxLost, MaxFaults, MaxDrops, MaxCancels, MaxRestarts,
  MaxTroubles   \* of the last four kinds together

ASSUME NativeWorkflowsAssumption ==
  /\ Families \subseteq {"reset", "stream", "handoff", "logs", "discover"}
  /\ Count \in Nat
  /\ {Units, ChunkSize, Attempts} \subseteq Nat \ {0}
  /\ {Pending, Fragments, MaxOperations, MaxFaults, MaxLost, MaxDrops, MaxCancels, MaxRestarts,
       MaxTroubles} \subseteq Nat

VARIABLES
  host,   \* the executor's owner, with the engine and the binding behind it
  sink,   \* the session of streamingEffects.ts
  disk,   \* the reset journal, and what the application saved of a result
  link,   \* the connection: up, whether the host has heard of its loss, the subscription
  inbox,  \* notifications on their way from the device
  dev,    \* the device
  svc,    \* the service: units of the stream it has, and whether it was finalized
  told,   \* the outcome of the last operation
  used    \* how much of each bound was used

nativeVars == <<host, sink, disk, link, inbox, dev, svc, told, used>>

Timers    == {"ResetTimer", "TriggerTimer", "MonitorTimer", "ScanTimer"}
Writes    == {"WriteGrant", "WriteOpcode", "WriteReceipt", "WriteStart", "WriteAck", "WriteConfirm",
              "WriteAbort", "WriteTrigger", "WriteLogStart", "WriteLogStop"}
Reads     == {"ReadNonce", "ReadStatus"}
Saves     == {"SaveStart", "SaveAwait", "SaveResult", "DeleteResult", "DeleteCheckpoint"}
Results   == {"SaveResult", "SaveJournal", "AskApp"}    \* the steps of SaveFactoryResetResult
SinkWork  == {"AppendPlain", "BeginSealed", "AppendSealed", "Finalize"}
Recurring == {"Subscribe", "StartScan"}
HostEffects   == Writes \cup Reads \cup Saves \cup Results \cup SinkWork
             \cup {"PrepareGrant", "Subscribe", "Unsubscribe", "Discard", "StartScan", "StopScan"}

\* A submitted effect: live while its result counts, stale when it was aborted
\* before it settled, clean when it belongs to the end of the operation.
Submitted == [eff : HostEffects, mode : {"live", "stale", "clean"}]

NoJournal == <<>>
Idle == [ st |-> "idle", wf |-> [kind |-> "none"], ask |-> FALSE, cmd |-> "none",
          pend |-> {}, run |-> {}, sub |-> "off", outcome |-> "none", dirty |-> FALSE ]
NoSink == [ job |-> "idle", durable |-> 0, uploaded |-> 0, units |-> 0, chunks |-> 0,
            tries |-> 0, bad |-> FALSE, timer |-> FALSE ]

-----------------------------------------------------------------------------
(* The engine *)

EngineAnswer(w, e) ==
  CASE w.kind = "reset"    -> ResetDispatch(w, e)
    [] w.kind = "stream"   -> StreamDispatch(w, e)
    [] w.kind = "handoff"  -> HandoffDispatch(w, e)
    [] w.kind = "logs"     -> LogDispatch(w, e)
    [] w.kind = "discover" -> DiscoverDispatch(w, e)

CancelAnswer(w) ==
  CASE w.kind = "reset"    -> ResetCancel(w)
    [] w.kind = "stream"   -> StreamCancel(w)
    [] w.kind = "handoff"  -> HandoffCancel(w)
    [] w.kind = "logs"     -> LogCancel(w)
    [] w.kind = "discover" -> DiscoverCancel(w)

Terminal(w) == w.phase \in {"Completed", "Failed"}

\* The workflow runs behind CoreEngineActor: nothing tracks its callbacks, an
\* event the engine refuses is dropped, and so is the result of a last effect.
OnApple(h) == h.wf.kind = "logs"

-----------------------------------------------------------------------------
(* The binding *)

Event(of, type, val) == [of |-> of, type |-> type, val |-> val]

\* callback_matches: the kinds of event an effect may be answered with.
Matches(of, type) ==
  \/ of \in Timers /\ type = "TimerFired"
  \/ of \in Writes \cup Reads \cup {"Subscribe", "StartScan", "StopScan"} /\ type = "Failed"
  \/ of \in Writes /\ type = "WriteCompleted"
  \/ of \in Reads /\ type = "ReadCompleted"
  \/ of = "Subscribe" /\ type \in {"Subscribed", "Notification", "Disconnected"}
  \/ of = "StartScan" /\ type \in {"ScanResult", "ScanStopped"}
  \/ of = "StopScan" /\ type = "ScanStopped"
  \/ of \in Saves /\ type = "PersistenceFailed"
  \/ of \in {"SaveStart", "SaveAwait"} /\ type = "CheckpointSaved"
  \/ of = "SaveResult" /\ type = "ResultSaved"
  \/ of = "DeleteResult" /\ type = "ResultDeleted"
  \/ of = "PrepareGrant" /\ type \in {"GrantPrepared", "MaterialFailed"}
  \/ of \in SinkWork \cup {"Discard"} /\ type = "SinkFailed"
  \/ of \in SinkWork \ {"Finalize"} /\ type = "SinkAccepted"
  \/ of = "Finalize" /\ type = "SinkFinalized"

\* callback_ownership: an effect with no callback is not tracked.
Owned(out) == {e \in out : e \in (HostEffects \cup Timers) \ {"Unsubscribe", "DeleteCheckpoint"}}

\* callback_finishes_request, for an effect that may be answered again.
Finishes(type) == type \in {"ScanStopped", "Disconnected", "Failed"}

\* track_effects: a cancelled timer and an ended subscription own no callback.
Cancelled(out) ==
  (IF "CancelResetTimer" \in out THEN {"ResetTimer"} ELSE {})
  \cup (IF "CancelTimers" \in out THEN {"TriggerTimer", "MonitorTimer"} ELSE {})
  \cup (IF "CancelScanTimer" \in out THEN {"ScanTimer"} ELSE {})
  \cup (IF "Unsubscribe" \in out THEN {"Subscribe"} ELSE {})

Tracked(pend, out) == (pend \ Cancelled(out)) \cup Owned(out)

-----------------------------------------------------------------------------
(* The executor: accept, pump, emit, cancel *)

As(mode, effs) == {[eff |-> e, mode |-> mode] : e \in effs}

\* The operation ends: what was submitted is stale, and the last effects follow it.
Ending(h, out, outcome) ==
  [h EXCEPT !.st = "ending", !.outcome = outcome, !.pend = {}, !.sub = "off",
            !.run = {[r EXCEPT !.mode = "stale"] : r \in h.run} \cup As("clean", out \cap HostEffects)]

\* cancel, by the application or by the failure of the host.  The engine refuses
\* the cancellation of a workflow that completed, and the operation is rejected.
CancelOperation(h, outcome) ==
  CASE h.st = "running" -> Ending(h, CancelAnswer(h.wf), outcome)
    [] h.st = "ending" /\ h.outcome # "cancelled" -> [h EXCEPT !.outcome = "failed"]
    [] OTHER -> h

Outcome(w) ==
  IF w.phase = "Failed" THEN "failed" ELSE IF w.kind = "handoff" THEN w.outcome ELSE "done"

\* accept, and the part of the effects that happens before their first await.
Accept(h, r, pend) ==
  LET a == [h EXCEPT !.wf = r.wf]
  IN IF Terminal(r.wf) THEN Ending(a, r.out, Outcome(r.wf))
     ELSE [a EXCEPT !.pend = Tracked(pend, r.out),
                    !.run = @ \cup As("live", r.out \cap HostEffects),
                    !.sub = IF "Unsubscribe" \in r.out THEN "off"
                            ELSE IF "Subscribe" \in r.out THEN "opening" ELSE @]

\* CoreEngineActor.receive.
Receive(h, r) == IF r.rejected THEN h ELSE Accept(h, r, h.pend)

\* emit: an event the engine refuses ends the operation.
Emit(h, e) ==
  LET r == EngineAnswer(h.wf, e)
      owned == e.of \in h.pend /\ Matches(e.of, e.type)
  IN IF h.st # "running" THEN h
     ELSE IF OnApple(h) THEN Receive(h, r)
     ELSE IF ~owned \/ r.rejected THEN CancelOperation(h, "failed")
     ELSE Accept(h, r, IF e.of \in Recurring /\ ~Finishes(e.type) THEN h.pend
                       ELSE h.pend \ {e.of})

\* The effect a step belongs to.
Source(eff) == IF eff \in Results THEN "SaveResult" ELSE eff

\* An effect settles, with the event it emits; a clean effect emits nothing.
Settle(h, r, type, val) ==
  LET s == [h EXCEPT !.run = @ \ {r}]
  IN IF r.mode = "live" THEN Emit(s, Event(Source(r.eff), type, val)) ELSE s

\* The failure of a clean effect keeps the owner of the executor for good.
SettleFailed(h, r, type) ==
  LET s == [h EXCEPT !.run = @ \ {r}]
  IN CASE r.mode = "live"  -> Emit(s, Event(Source(r.eff), type, 0))
       [] r.mode = "stale" -> s
       [] r.mode = "clean" -> [s EXCEPT !.dirty = ~OnApple(h)]

\* A clean effect waits for every effect submitted before the end.
Barrier(h) == \A r \in h.run : r.mode # "stale"

Ready(r) == r \in host.run /\ (r.mode = "clean" => Barrier(host))

-----------------------------------------------------------------------------
(* Bounds *)

Troubles == used.faults + used.drops + used.cancels + used.restarts

More(what, bound) ==
  /\ used[what] < bound /\ (what \in {"ops", "lost"} \/ Troubles < MaxTroubles)
  /\ used' = [used EXCEPT ![what] = @ + 1]

\* An effect fails because the link is down, or because of one of the faults.
MayFail(needsLink) == IF needsLink /\ ~link.up THEN UNCHANGED used ELSE More("faults", MaxFaults)

-----------------------------------------------------------------------------
(* The device, as the code uses it *)

Device == [ grant |-> FALSE, wiped |-> FALSE, held |-> NoResult,
            deleted |-> FALSE, sealed |-> FALSE, next |-> 0, heard |-> {},
            pending |-> Pending, sync |-> FALSE, net |-> FALSE, logging |-> FALSE, log |-> 1 ]

\* It notifies only a subscriber.
Notifies(n) == inbox' = IF link.cccd THEN Append(inbox, n) ELSE inbox

\* A write reaches the device.  The link keeps its order: what the device notified
\* before it took a START is delivered before the callback of the START.
DeviceTakes(eff) ==
  CASE eff = "WriteGrant"    -> dev' = [dev EXCEPT !.grant = TRUE] /\ UNCHANGED inbox
    [] eff = "WriteOpcode"   -> \/ /\ dev.grant /\ ~dev.wiped
                                   /\ dev' = [dev EXCEPT !.wiped = TRUE, !.held = Count, !.grant = FALSE]
                                   /\ Notifies(Count)
                                \/ dev' = [dev EXCEPT !.grant = FALSE] /\ Notifies(NoResult)
    [] eff = "WriteReceipt"  -> dev' = [dev EXCEPT !.held = NoResult] /\ UNCHANGED inbox
    [] eff = "WriteStart"    -> /\ inbox = <<>>
                                /\ IF dev.deleted THEN UNCHANGED dev /\ Notifies([type |-> "error"])
                                   ELSE /\ dev' = [dev EXCEPT !.next = IF dev.sealed THEN -1 ELSE 1, !.heard = {}]
                                        /\ UNCHANGED inbox
    [] eff = "WriteAck"      -> UNCHANGED <<dev, inbox>>
    [] eff = "WriteConfirm"  -> dev' = [dev EXCEPT !.deleted = TRUE] /\ UNCHANGED inbox
    [] eff = "WriteAbort"    -> dev' = [dev EXCEPT !.next = 0] /\ UNCHANGED inbox
    [] eff = "WriteTrigger"  -> \/ /\ ~dev.sync /\ dev' = [dev EXCEPT !.sync = TRUE]
                                   /\ (Notifies("accepted") \/ UNCHANGED inbox)   \* the answer may be lost
                                \/ ~dev.sync /\ UNCHANGED dev /\ Notifies("refused")
                                \/ UNCHANGED dev /\ Notifies("busy")
    [] eff = "WriteLogStart" -> dev' = [dev EXCEPT !.logging = TRUE] /\ UNCHANGED inbox
    [] eff = "WriteLogStop"  -> dev' = [dev EXCEPT !.logging = FALSE] /\ UNCHANGED inbox

\* The link ends: what the device did for it ends too.
Detached == [dev EXCEPT !.grant = FALSE, !.next = 0, !.logging = FALSE]

\* The packets of a recording: a header when it is sealed, its units, the end.
PacketAt(i) ==
  CASE i = -1         -> [type |-> "sealed"]
    [] i \in 1..Units -> [type |-> IF dev.sealed THEN "sealedData" ELSE "data", seq |-> (i - 1) % SeqMod]
    [] i = Units + 1  -> [type |-> IF dev.sealed THEN "sealedEof" ELSE "eof"]

After(i) == CASE i = -1 -> 1 [] i = Units + 1 -> 0 [] OTHER -> i + 1

DeviceSends ==
  /\ link.up /\ dev.next # 0 /\ Len(inbox) < 2
  /\ \/ /\ Notifies(PacketAt(dev.next)) /\ UNCHANGED used
        /\ dev' = [dev EXCEPT !.next = After(@),
                              !.heard = IF link.cccd THEN @ \cup (1..Units \cap {dev.next}) ELSE @]
     \/ /\ dev.next # Units + 1 /\ More("lost", MaxLost) /\ UNCHANGED inbox
        /\ dev' = [dev EXCEPT !.next = After(@)]
  /\ UNCHANGED <<host, sink, disk, link, svc, told>>

\* Two fragments make a line; the device marks what follows the ones it dropped.
LogPacket(f, dropped) == [seq |-> f, dropped |-> dropped, line |-> (f + 1) \div 2, end |-> f % 2 = 0]

DeviceLogs ==
  /\ link.up /\ dev.logging /\ dev.log <= Fragments /\ Len(inbox) < 2
  /\ \/ /\ Notifies(LogPacket(dev.log, FALSE)) /\ dev' = [dev EXCEPT !.log = @ + 1]
        /\ UNCHANGED used
     \/ /\ dev' = [dev EXCEPT !.log = @ + 1] /\ More("lost", MaxLost) /\ UNCHANGED inbox
     \/ /\ dev.log < Fragments /\ More("lost", MaxLost)
        /\ Notifies([LogPacket(dev.log + 1, TRUE) EXCEPT !.seq = dev.log])
        /\ dev' = [dev EXCEPT !.log = @ + 2]
  /\ UNCHANGED <<host, sink, disk, link, svc, told>>

\* It uploads by itself, until nothing is left or its network is gone.
DeviceUploads ==
  /\ dev.sync
  /\ \/ dev.pending > 0 /\ dev' = [dev EXCEPT !.pending = @ - 1, !.sync = dev.pending > 1]
     \/ dev' = [dev EXCEPT !.sync = FALSE]
  /\ UNCHANGED <<host, sink, disk, link, inbox, svc, told, used>>

-----------------------------------------------------------------------------
(* Operations *)

Begin(h, r) == Accept([h EXCEPT !.st = "running"], r, {})

StartOp(h, r) ==
  /\ host.st = "idle" /\ More("ops", MaxOperations)
  /\ host' = Begin(h, r) /\ told' = "none"
  /\ UNCHANGED <<disk, link, inbox, dev>>

\* adapter.factoryReset: the journal of another command refuses it.
FactoryReset(cmd, ask) ==
  /\ "reset" = used.family /\ link.up
  /\ disk.journal # NoJournal => disk.journal[1] = cmd
  /\ StartOp([Idle EXCEPT !.ask = ask, !.cmd = cmd], ResetStart("start", NoResult))
  /\ UNCHANGED <<sink, svc>>

\* adapter.resumePendingFactoryReset
ResumeFactoryReset(ask) ==
  /\ "reset" = used.family /\ link.up
  /\ disk.journal # NoJournal \/ ask
  /\ LET cmd      == IF disk.journal = NoJournal THEN "rn-resume" ELSE disk.journal[1]
         expected == IF disk.journal = NoJournal THEN NoResult ELSE disk.journal[2]
     IN StartOp([Idle EXCEPT !.ask = ask, !.cmd = cmd], ResetStart("resume", expected))
  /\ UNCHANGED <<sink, svc>>

\* adapter.startStreaming: a session of its own in the sink and in the service.
StartStreaming ==
  /\ "stream" = used.family /\ link.up
  /\ StartOp(Idle, StreamStart)
  /\ sink' = NoSink /\ svc' = [units |-> {}, final |-> FALSE]

ObserveUploadOwnership ==
  /\ "handoff" = used.family /\ link.up
  /\ StartOp(Idle, HandoffStart) /\ UNCHANGED <<sink, svc>>

\* DeviceLogManager.streamLogs.
ReadDeviceLogs ==
  /\ "logs" = used.family /\ link.up
  /\ StartOp(Idle, LogStart) /\ UNCHANGED <<sink, svc>>

StartScan ==
  /\ "discover" = used.family
  /\ StartOp(Idle, DiscoverStart) /\ UNCHANGED <<sink, svc>>

\* consume: once the workflow has failed there is nothing to cancel in the
\* engine, and the manager keeps its owner, unless it has seen the failure.
CancelLog(h) ==
  IF h.st = "running" THEN {CancelOperation(h, "cancelled")}
  ELSE {h} \cup (IF h.outcome = "failed" THEN {[h EXCEPT !.dirty = TRUE]} ELSE {})

\* The application cancels, or aborts the signal it passed.
AppCancels ==
  /\ host.st \in {"running", "ending"} /\ More("cancels", MaxCancels)
  /\ host' \in IF OnApple(host) THEN CancelLog(host) ELSE {CancelOperation(host, "cancelled")}
  /\ UNCHANGED <<sink, disk, link, inbox, dev, svc, told>>

-----------------------------------------------------------------------------
(* execute: the radio *)

Radio == UNCHANGED <<sink, disk, svc, told>>

Executing(eff) == \E r \in host.run : r.eff = eff

\* The device may answer a write before the callback of the write is delivered.
WriteExecutes(r) ==
  /\ r.eff \in {"WriteOpcode", "WriteTrigger", "WriteStart"} /\ link.up /\ ~link.ahead
  /\ DeviceTakes(r.eff) /\ link' = [link EXCEPT !.ahead = TRUE]
  /\ UNCHANGED <<host, used>> /\ Radio

\* CoreBluetoothDriver.write: the characteristic of a write that was cancelled
\* is quarantined until its callback comes, and a write that does not wait for
\* it fails.
Quarantined(r) ==
  /\ r.eff = "WriteLogStop" /\ [eff |-> "WriteLogStart", mode |-> "stale"] \in host.run
  /\ host' = [host EXCEPT !.run = @ \ {r}]
  /\ UNCHANGED <<link, inbox, dev, used>> /\ Radio

\* A write takes effect and settles, or takes effect and its callback is lost,
\* or does neither.
Write(r) ==
  /\ r.eff \in Writes
  /\ \/ /\ link.up /\ IF link.ahead THEN UNCHANGED <<dev, inbox>> ELSE DeviceTakes(r.eff)
        /\ \/ UNCHANGED used /\ host' = Settle(host, r, "WriteCompleted", 0)
           \/ More("faults", MaxFaults) /\ host' = SettleFailed(host, r, "Failed")
     \/ /\ ~link.ahead \/ ~link.up
        /\ MayFail(TRUE) /\ UNCHANGED <<dev, inbox>>
        /\ host' = SettleFailed(host, r, "Failed")
  /\ link' = [link EXCEPT !.ahead = FALSE] /\ Radio

Read(r) ==
  /\ r.eff \in Reads
  /\ \/ /\ link.up /\ UNCHANGED used
        /\ host' = Settle(host, r, "ReadCompleted",
                          [pending |-> dev.pending, sync |-> dev.sync, net |-> dev.net])
     \/ MayFail(TRUE) /\ host' = SettleFailed(host, r, "Failed")
  /\ UNCHANGED <<link, inbox, dev>> /\ Radio

\* The device may notify before the subscription is reported: it repeats a
\* result it holds to every new subscriber.
Subscribe(r) ==
  /\ r.eff = "Subscribe"
  /\ \/ /\ link.up /\ ~link.cccd
        /\ link' = [link EXCEPT !.cccd = TRUE]
        /\ inbox' = IF dev.held = NoResult THEN inbox ELSE Append(inbox, dev.held)
        /\ UNCHANGED <<host, used>>
     \/ /\ link.cccd /\ UNCHANGED <<link, inbox, used>>
        /\ host' = Settle(IF r.mode = "live" THEN [host EXCEPT !.sub = "on"] ELSE host, r, "Subscribed", 0)
     \/ /\ MayFail(TRUE) /\ link' = [link EXCEPT !.cccd = FALSE] /\ inbox' = <<>>
        /\ host' = SettleFailed(host, r, "Failed")
  /\ UNCHANGED dev /\ Radio

\* An effect that reports nothing.
Done(r) == host' = [host EXCEPT !.run = @ \ {r}]

Unsubscribe(r) ==
  /\ r.eff = "Unsubscribe"
  /\ Done(r) /\ link' = [link EXCEPT !.cccd = FALSE] /\ inbox' = <<>>
  /\ UNCHANGED <<dev, used>> /\ Radio

Scan(r) ==
  /\ \/ /\ r.eff = "StartScan" /\ Done(r) /\ UNCHANGED used
     \/ /\ r.eff = "StartScan" /\ MayFail(FALSE) /\ host' = SettleFailed(host, r, "Failed")
     \/ /\ r.eff = "StopScan" /\ ~Executing("StartScan") /\ UNCHANGED used
        /\ host' = Settle(host, r, "ScanStopped", 0)
  /\ UNCHANGED <<link, inbox, dev>> /\ Radio

\* The port reports a candidate, until the scan was stopped.
Candidate ==
  /\ used.family = "discover" /\ host.st = "running"
  /\ host' = Emit(host, Event("StartScan", "ScanResult", 0))
  /\ UNCHANGED <<link, inbox, dev, used>> /\ Radio

TimerElapses ==
  \E t \in host.pend \cap Timers :
    /\ host' = Emit(host, Event(t, "TimerFired", 0))
    /\ UNCHANGED <<link, inbox, dev, used>> /\ Radio

-----------------------------------------------------------------------------
(* execute: the files and the application *)

Files == UNCHANGED <<sink, link, inbox, dev, svc, told>>

SavedAs(eff) == IF eff = "DeleteResult" THEN "ResultDeleted" ELSE "CheckpointSaved"

Save(r) ==
  /\ r.eff \in Saves \ {"SaveResult", "DeleteCheckpoint"}
  /\ \/ UNCHANGED used /\ host' = Settle(host, r, SavedAs(r.eff), 0)
     \/ MayFail(FALSE) /\ host' = SettleFailed(host, r, "PersistenceFailed")
  /\ UNCHANGED disk /\ Files

DeleteCheckpoint(r) ==
  /\ r.eff = "DeleteCheckpoint"
  /\ \/ UNCHANGED used /\ Done(r)
     \/ MayFail(FALSE) /\ host' = SettleFailed(host, r, "PersistenceFailed")
  /\ UNCHANGED disk /\ Files

\* The next step of a result that is being saved.
Continues(r, eff) == host' = [host EXCEPT !.run = (@ \ {r}) \cup {[eff |-> eff, mode |-> "live"]}]

\* beforeFactoryResetReceipt, that is saveResetOwner: the file of the result,
\* the journal of the owner, then the application.
SaveResult(r) ==
  /\ r.eff = "SaveResult"
  /\ \/ r.mode = "stale" /\ UNCHANGED used /\ Done(r)
     \/ /\ r.mode = "live" /\ UNCHANGED used
        /\ IF disk.journal # NoJournal /\ disk.journal[1] # host.cmd
           THEN host' = CancelOperation([host EXCEPT !.run = @ \ {r}], "failed")
           ELSE Continues(r, "SaveJournal")
     \/ r.mode = "live" /\ MayFail(FALSE) /\ host' = SettleFailed(host, r, "PersistenceFailed")
  /\ UNCHANGED disk /\ Files

\* A save that was submitted may still happen after the operation was aborted.
SaveJournal(r) ==
  /\ r.eff = "SaveJournal"
  /\ \/ /\ disk' = [disk EXCEPT !.journal = <<host.cmd, host.wf.result>>] /\ UNCHANGED used
        /\ IF r.mode = "stale" THEN Done(r)
           ELSE IF host.ask THEN Continues(r, "AskApp")
           ELSE host' = Settle(host, r, "ResultSaved", 0)
     \/ r.mode = "stale" /\ Done(r) /\ UNCHANGED <<disk, used>>
     \/ MayFail(FALSE) /\ UNCHANGED disk /\ host' = SettleFailed(host, r, "PersistenceFailed")
  /\ Files

\* requestFactoryResetPersistence: the application keeps the result and says so,
\* or refuses it; an aborted request is rejected.
AskApp(r) ==
  /\ r.eff = "AskApp"
  /\ \/ /\ disk' = [disk EXCEPT !.app = host.wf.result] /\ UNCHANGED used
        /\ host' = Settle(host, r, "ResultSaved", 0)
     \/ r.mode = "stale" /\ Done(r) /\ UNCHANGED <<disk, used>>
     \/ /\ r.mode = "live" /\ MayFail(FALSE) /\ UNCHANGED disk
        /\ host' = CancelOperation([host EXCEPT !.run = @ \ {r}], "failed")
  /\ Files

PrepareGrant(r) ==
  /\ r.eff = "PrepareGrant"
  /\ \/ UNCHANGED used /\ host' = Settle(host, r, "GrantPrepared", 0)
     \/ MayFail(FALSE) /\ host' = SettleFailed(host, r, "MaterialFailed")
  /\ UNCHANGED disk /\ Files

-----------------------------------------------------------------------------
(* The sink: one job at a time, each in the order it was submitted *)

Sinks == UNCHANGED <<disk, link, inbox, dev, told>>

Sealed == host.wf.profile = "sealed"

\* What the next upload holds: when it is sealed the unit of the packet taken,
\* under the sequence number of the packet.
Chunk ==
  IF sink.job = "AppendSealed" THEN {host.wf.next + 1}
  ELSE {u \in sink.uploaded + 1 .. sink.durable : u <= sink.uploaded + ChunkSize}

\* flush: whether another chunk is due.
ChunkDue(s, partial) ==
  s.durable > s.uploaded /\ (partial \/ s.durable - s.uploaded >= ChunkSize)

\* An append ends: what is left is flushed by a timer.
Accepts(s, r) ==
  /\ sink' = [s EXCEPT !.job = "idle", !.timer = ~Sealed /\ s.durable # s.uploaded]
  /\ host' = Settle(host, r, "SinkAccepted", s.units)

Refuses(s, r) ==
  /\ sink' = [s EXCEPT !.job = "idle"]
  /\ host' = SettleFailed(host, r, "SinkFailed")

SinkBegins(r) ==
  /\ r.eff \in SinkWork /\ sink.job = "idle"
  /\ \/ (r.mode = "stale" \/ sink.bad) /\ Refuses(sink, r) /\ UNCHANGED used
     \/ MayFail(FALSE) /\ Refuses(sink, r)
     \/ /\ r.mode = "live" /\ ~sink.bad /\ UNCHANGED used
        /\ \/ /\ r.eff = "AppendPlain"
              /\ LET s == [sink EXCEPT !.durable = @ + 1, !.units = @ + 1, !.timer = FALSE]
                 IN IF ChunkDue(s, FALSE)
                    THEN sink' = [s EXCEPT !.job = r.eff, !.tries = 0] /\ UNCHANGED host
                    ELSE Accepts(s, r)
           \/ r.eff = "BeginSealed" /\ Accepts(sink, r)
           \/ /\ r.eff = "AppendSealed" /\ UNCHANGED host
              /\ sink' = [sink EXCEPT !.durable = @ + 1, !.job = r.eff, !.tries = 0]
           \/ /\ r.eff = "Finalize"
              /\ IF sink.units # host.wf.units \/ (~Sealed /\ sink.units = 0) THEN Refuses(sink, r)
                 ELSE /\ UNCHANGED host
                      /\ sink' = [sink EXCEPT !.timer = FALSE, !.tries = 0,
                                    !.job = IF ~Sealed /\ ChunkDue(sink, TRUE) THEN r.eff ELSE "Asking"]
  /\ UNCHANGED svc /\ Sinks

\* The flush timer: the rest is uploaded behind the next packet.
BackgroundFlush ==
  /\ host.st = "running" /\ sink.timer /\ sink.job = "idle"
  /\ sink' = [sink EXCEPT !.timer = FALSE, !.job = "Background", !.tries = 0]
  /\ UNCHANGED <<host, svc, used>> /\ Sinks

\* The submitted effect the current job works for.
JobOf == IF sink.job = "Asking" THEN "Finalize" ELSE sink.job
Working(r) == r.eff = JobOf

\* A chunk was uploaded.
Uploaded ==
  LET s == [sink EXCEPT !.uploaded = sink.durable, !.chunks = @ + 1, !.tries = 0]
      p == [s EXCEPT !.uploaded = sink.uploaded + Cardinality(Chunk)]
  IN /\ svc' = [svc EXCEPT !.units = @ \cup Chunk]
     /\ CASE sink.job = "Background" ->
               /\ sink' = [p EXCEPT !.job = IF ChunkDue(p, TRUE) THEN @ ELSE "idle"] /\ UNCHANGED host
          [] sink.job = "Finalize" ->
               /\ sink' = [p EXCEPT !.job = IF ChunkDue(p, TRUE) THEN @ ELSE "Asking"] /\ UNCHANGED host
          [] sink.job = "AppendPlain" ->
               IF ChunkDue(p, FALSE) THEN sink' = p /\ UNCHANGED host
               ELSE \E r \in host.run : Working(r) /\ Accepts(p, r)
          [] sink.job = "AppendSealed" ->
               \E r \in host.run : Working(r) /\ Accepts([s EXCEPT !.units = @ + 1], r)

\* Every attempt failed: only a sealed chunk may be missing, but not number 0,
\* which carries the key.
GaveUp ==
  CASE sink.job = "Background" -> sink' = [sink EXCEPT !.job = "idle", !.bad = TRUE] /\ UNCHANGED host
    [] sink.job = "AppendSealed" /\ host.wf.next > 0 ->
         \E r \in host.run : Working(r) /\
           Accepts([sink EXCEPT !.uploaded = sink.durable, !.units = @ + 1], r)
    [] OTHER -> \E r \in host.run : Working(r) /\ Refuses(sink, r)

UploadChunk ==
  /\ host.st = "running" /\ sink.job \in {"AppendPlain", "AppendSealed", "Finalize", "Background"}
  /\ \/ Uploaded /\ UNCHANGED used
     \/ /\ More("faults", MaxFaults)
        /\ svc' \in {svc, [svc EXCEPT !.units = @ \cup Chunk]}
        /\ IF sink.tries + 1 < Attempts
           THEN sink' = [sink EXCEPT !.tries = @ + 1] /\ UNCHANGED host ELSE GaveUp
  /\ Sinks

\* The application finalizes what the service received, or refuses to.
FinalizeAsked ==
  /\ host.st = "running" /\ sink.job = "Asking"
  /\ \E r \in host.run :
       /\ Working(r)
       /\ \/ /\ svc' = [svc EXCEPT !.final = TRUE] /\ UNCHANGED used
             /\ sink' = [sink EXCEPT !.job = "idle"]
             /\ host' = Settle(host, r, "SinkFinalized", sink.units)
          \/ MayFail(FALSE) /\ Refuses(sink, r) /\ UNCHANGED svc
  /\ Sinks

\* An aborted job ends; what it sent may have arrived.
JobStops ==
  /\ host.st = "ending" /\ sink.job # "idle"
  /\ sink' = [sink EXCEPT !.job = "idle"]
  /\ host' = [host EXCEPT !.run = {r \in @ : ~Working(r)}]
  /\ svc' \in {svc} \cup (IF sink.job = "Asking" THEN {[svc EXCEPT !.final = TRUE]}
                          ELSE {[svc EXCEPT !.units = @ \cup Chunk]})
  /\ UNCHANGED used /\ Sinks

\* cleanup: it waits for the job, and removes the file.
Discard(r) ==
  /\ r.eff = "Discard" /\ sink.job = "idle" /\ UNCHANGED sink
  /\ \/ UNCHANGED used /\ Done(r)
     \/ MayFail(FALSE) /\ host' = SettleFailed(host, r, "SinkFailed")
  /\ UNCHANGED svc /\ Sinks

-----------------------------------------------------------------------------
(* Notifications, the link and the process *)

\* A notification before the subscription was reported is kept for the
\* resumption of a reset and on Apple, and dropped for the others.
KeepsEarly(h) == h.wf.kind = "logs" \/ (h.wf.kind = "reset" /\ h.wf.mode = "resume")

Deliver ==
  /\ inbox # <<>> /\ ~(host.sub = "opening" /\ KeepsEarly(host))
  /\ inbox' = Tail(inbox)
  /\ host' = IF host.sub = "on" THEN Emit(host, Event("Subscribe", "Notification", Head(inbox))) ELSE host
  /\ UNCHANGED <<link, dev, used>> /\ Radio

LinkLost ==
  /\ link.up /\ used.family # "discover" /\ More("drops", MaxDrops)
  /\ link' = [link EXCEPT !.up = FALSE, !.cccd = FALSE]
  /\ inbox' = <<>> /\ dev' = Detached
  /\ UNCHANGED host /\ Radio

\* peripheralDisconnected: the workflow hears of it by its subscription, or is
\* cancelled.  On Apple the stream of an open subscription fails, and an effect
\* that is still executing fails by itself.
Disconnected(h) ==
  IF h.st # "running" THEN h
  ELSE IF OnApple(h) THEN IF h.sub = "on" THEN Emit(h, Event("Subscribe", "Failed", 0)) ELSE h
  ELSE IF h.sub # "off" /\ h.wf.kind # "discover" THEN Emit(h, Event("Subscribe", "Disconnected", 0))
  ELSE CancelOperation(h, "failed")

HearDrop ==
  /\ ~link.up /\ link.known
  /\ link' = [link EXCEPT !.known = FALSE]
  /\ host' = Disconnected(host)
  /\ UNCHANGED <<inbox, dev, used>> /\ Radio

Reconnect ==
  /\ ~link.up /\ ~link.known /\ host.st = "idle" /\ used.ops < MaxOperations
  /\ link' = [link EXCEPT !.up = TRUE, !.known = TRUE]
  /\ UNCHANGED <<host, inbox, dev, used>> /\ Radio

\* finish, once nothing submitted is left: what is still open is closed.  A
\* reset that completed goes on to clear its journal.
Finish ==
  /\ host.st = "ending" /\ host.run = {} /\ sink.job = "idle"
  /\ LET done == ~host.dirty /\ host.outcome = "done" /\ host.wf.kind = "reset"
     IN /\ host' = CASE host.dirty -> [Idle EXCEPT !.st = "stuck"]
                     [] done       -> [Idle EXCEPT !.st = "clearing", !.cmd = host.cmd]
                     [] OTHER      -> Idle
        /\ told' = IF host.dirty THEN "failed" ELSE IF done THEN told ELSE host.outcome
  /\ link' = [link EXCEPT !.cccd = FALSE, !.ahead = FALSE] /\ inbox' = <<>>
  /\ sink' = NoSink
  /\ UNCHANGED <<disk, dev, svc, used>>

\* clearResetOwner: only on the connection the reset ran on.
ClearResetOwner ==
  /\ host.st = "clearing" /\ host' = Idle
  /\ \/ /\ link.known /\ UNCHANGED used
        /\ told' = "done" /\ disk' = [disk EXCEPT !.journal = NoJournal]
     \/ /\ IF link.known THEN More("faults", MaxFaults) ELSE UNCHANGED used
        /\ told' = "failed" /\ UNCHANGED disk
  /\ UNCHANGED <<sink, link, inbox, dev, svc>>

\* The process ends, at any point, and is started again.
Restart ==
  /\ host # Idle /\ More("restarts", MaxRestarts)
  /\ host' = Idle /\ sink' = NoSink /\ told' = "none"
  /\ link' = [up |-> FALSE, known |-> FALSE, cccd |-> FALSE, ahead |-> FALSE]
  /\ inbox' = <<>> /\ dev' = Detached
  /\ UNCHANGED <<disk, svc>>

-----------------------------------------------------------------------------
\* A recording may be sealed, and the device may be uploading by itself.
DeviceAtFirst(f) ==
  \/ f = "stream" /\ \E b \in BOOLEAN : dev = [Device EXCEPT !.sealed = b]
  \/ f = "handoff" /\ \E b, c \in BOOLEAN : dev = [Device EXCEPT !.sync = b, !.net = c]
  \/ f \notin {"stream", "handoff"} /\ dev = Device

NativeInit ==
  /\ host = Idle /\ sink = NoSink /\ told = "none" /\ inbox = <<>>
  /\ disk = [journal |-> NoJournal, app |-> NoResult]
  /\ link = [up |-> TRUE, known |-> TRUE, cccd |-> FALSE, ahead |-> FALSE]
  /\ svc = [units |-> {}, final |-> FALSE]
  /\ \E f \in Families :
       /\ used = [ family |-> f, ops |-> 0, faults |-> 0, lost |-> 0, drops |-> 0,
                   cancels |-> 0, restarts |-> 0 ]
       /\ DeviceAtFirst(f)

StartOperation ==
  \/ \E cmd \in Commands, ask \in BOOLEAN : FactoryReset(cmd, ask)
  \/ \E ask \in BOOLEAN : ResumeFactoryReset(ask)
  \/ StartStreaming \/ ObserveUploadOwnership \/ ReadDeviceLogs \/ StartScan

Effect ==
  \E r \in host.run :
    /\ Ready(r)
    /\ \/ Write(r) \/ Read(r) \/ Subscribe(r) \/ Unsubscribe(r) \/ Scan(r)
       \/ Save(r) \/ DeleteCheckpoint(r) \/ SaveResult(r) \/ SaveJournal(r) \/ AskApp(r)
       \/ PrepareGrant(r) \/ SinkBegins(r) \/ Discard(r)

Ahead == \E r \in host.run : Ready(r) /\ WriteExecutes(r)
Refused == \E r \in host.run : Quarantined(r)

SinkSteps == BackgroundFlush \/ UploadChunk \/ FinalizeAsked \/ JobStops

NativeNext ==
  \/ StartOperation \/ AppCancels \/ Effect \/ Ahead \/ Refused \/ SinkSteps \/ Candidate \/ TimerElapses
  \/ Deliver \/ DeviceSends \/ DeviceLogs \/ DeviceUploads
  \/ LinkLost \/ HearDrop \/ Reconnect \/ Finish \/ ClearResetOwner \/ Restart

NativeSpec == NativeInit /\ [][NativeNext]_nativeVars

\* The host's effects settle, its timers fire and the application answers; the
\* device sends what it was asked for; a lost link is noticed.
NativeLiveSpec ==
  /\ NativeSpec
  /\ WF_nativeVars(Effect) /\ WF_nativeVars(SinkSteps) /\ WF_nativeVars(TimerElapses) /\ WF_nativeVars(Deliver)
  /\ WF_nativeVars(DeviceSends) /\ WF_nativeVars(DeviceUploads) /\ WF_nativeVars(HearDrop)
  /\ WF_nativeVars(Finish) /\ WF_nativeVars(ClearResetOwner)

-----------------------------------------------------------------------------
(* Properties *)

\* The device forgets the result of its reset only when the journal has exactly
\* that result, and the application that asked for it has kept it too
\* (saveResetOwner before FactoryResetResultSaved before WriteReceipt).
ReceiptCovered ==
  [][ dev.held # NoResult /\ dev'.held = NoResult =>
        /\ disk.journal # NoJournal /\ disk.journal[2] = dev.held
        /\ host.ask => disk.app = dev.held ]_nativeVars

\* The device is told to delete a recording only when the service finalized it,
\* and has what the radio delivered of it: a plaintext without a gap, of a sealed
\* one the unit that carries its key.
StreamWhole ==
  [][ ~dev.deleted /\ dev'.deleted =>
        /\ svc.final
        /\ \A u \in dev.heard :
             (IF dev.sealed THEN {1} \cap {u} ELSE 1..u) \subseteq svc.units ]_nativeVars

\* What the application is told is so on the device: a reset that is done is
\* acknowledged, a stream that is done is deleted, and the application is told
\* to send the recordings itself only when the device does not.
Truthful ==
  /\ told = "done" /\ used.family = "reset"  => dev.wiped /\ dev.held = NoResult
  /\ told = "done" /\ used.family = "stream" => dev.deleted
  /\ told = "direct" => dev.pending = 0
  /\ told \in {"fallback", "preserved"} => ~dev.sync

\* No line of the log is spliced from the fragments of two.
NoSplicedLine ==
  host.wf.kind = "logs" =>
    \A line \in host.wf.lines : \A i, j \in DOMAIN line : line[i] = line[j]

\* When the application has cancelled and its operation ended, the device does
\* not go on sending, and nobody listens to it.  The log is only stopped for
\* sure once its start was confirmed.
Quiet ==
  /\ host.st = "idle" /\ told = "cancelled" => ~link.cccd /\ dev.next = 0
  /\ host.st = "ending" /\ host.outcome = "cancelled" /\ host.run = {} /\ used.faults = 0
       => ~(dev.logging /\ host.wf.phase = "Active")

\* An operation that was started ends, the device log when it is cancelled; it
\* may end with an owner that is kept after an uncertain cleanup.
OperationEnds ==
  /\ (host.st = "running" /\ host.wf.kind # "logs") ~> host.st \in {"idle", "stuck"}
  /\ host.st = "ending" ~> host.st \in {"idle", "stuck"}
=============================================================================
