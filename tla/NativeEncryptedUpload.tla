----------------------- MODULE NativeEncryptedUpload -----------------------
(***************************************************************************)
(* The encrypted-upload-v2 transfer of the React Native host               *)
(* (frameworks/react-native/src/jsHost/encryptedUploadV2.ts, started by    *)
(* deviceAdapter.ts, run by executor.ts): the workflow of module           *)
(* EncryptedCoordinator and the receiver of module EncryptedReceiver       *)
(* between a file, a key-value store, the radio and the upload service,    *)
(* over lost notifications, losses of the link, failed awaits, ends of the *)
(* process, cancellations and sessions that the service replaces. A        *)
(* recording may be marked: documents follow its ciphertext, made for the  *)
(* session it is sent under, and each is kept in a file of its own.        *)
(*                                                                         *)
(* Two activities share the host: the handlers of effects, one after the   *)
(* other (`tail`), and the pump of notifications, which a gate holds while *)
(* a window is saved, acknowledged or repaired. A callback, the reducer's  *)
(* answer and the start of the next await are one action.                  *)
(***************************************************************************)
EXTENDS EncryptedReceiver, Sequences, SequencesExt

CONSTANTS Markers,      \* documents of a marked recording
          MaxSessions,  \* upload sessions the service opens
          MaxFaults,    \* ends of the process, losses of the link, failed or slow awaits,
                        \* cancellations by the application
          MaxLost       \* lost notifications

ASSUME NativeAssumption ==
    /\ Markers \in Nat /\ Markers >= MinMarkers
    /\ MaxSessions \in Nat \ {0} /\ MaxFaults \in Nat /\ MaxLost \in Nat

VARIABLES
    store,  \* the journal of the recording: session, offset and last packet of its checkpoint
    sink,   \* the file of the ciphertext: its length, and how much of it is flushed
    marks,  \* the files of the marker documents: whose session's, and as sink
    co,     \* the workflow in the core
    run,    \* the host of the running operation
    link,   \* is the device connected?
    client, \* "usable", or "poisoned" after a failed cleanup
    wire,   \* the control write that the device has not answered
    air,    \* notifications under way
    dev,    \* the device's side of the transfer
    cloud,  \* what the service holds per session
    left    \* what may still happen

durable == <<store, sink, marks>>
radio == <<link, wire, air, dev>>
vars == <<store, sink, marks, co, run, link, client, wire, air, dev, cloud, left>>

C == INSTANCE EncryptedCoordinator

Sessions == 1 .. MaxSessions
NoJournal == [session |-> 0, off |-> 0, last |-> 0]
NoMark == [session |-> 0, length |-> 0, synced |-> 0]
Documents == 0 .. Markers - 1
NoWrite == [k |-> "none", off |-> 0, missing |-> {}]

\* on: is an operation running? effects, at: those to be executed, and how far
\* the first one is. pump: "off", "run", "io" (in an await), "gate" (held),
\* "spin", "dead". seen: the last WINDOW_END. staged: pendingCheckpoint.
\* target: the request under which the pump reports. reply: to the opening.
\* tried, confirming: transferAttempted, confirmationAttempted. why: how the
\* transfer failed.
NoRun == [on |-> FALSE, effects |-> <<>>, at |-> "begin", pump |-> "off", rx |-> New(0, 0, FALSE),
          action |-> Nothing, queue |-> <<>>, seen |-> NoFrame, staged |-> C!NoCheckpoint,
          target |-> "start", reply |-> "none", tried |-> FALSE, confirming |-> FALSE,
          why |-> "none"]

Cut(n) == [length |-> n, synced |-> Min({n, sink.synced})]
Checkpoint(off) == [session |-> co.session, off |-> off]

-----------------------------------------------------------------------------
(* Handlers of effects *)

\* The first effect is of kind k and its handler has come to `at`. While the
\* pump spins, nothing else of the process runs.
Handles(k, at) ==
    /\ run.on /\ run.pump # "spin" /\ run.effects # <<>>
    /\ Head(run.effects).k = k /\ run.at = at

Goto(at) == run' = [run EXCEPT !.at = at]

\* An error of a handler and a cancellation both cancel the workflow: whatever
\* is queued is dropped, AbortV2 follows what is under way.
Ends(why) ==
    /\ co' = C!Cancel(co).co
    /\ run' = [run EXCEPT !.effects = C!Cancel(co).effects, !.at = "begin", !.pump = "off", !.why = why]

\* The handler of request id ends with an event.
Answer(r, id, event) ==
    LET d == C!Dispatch(co, id, event) IN
    IF d.ok THEN /\ co' = d.co
                 /\ run' = [r EXCEPT !.effects = Tail(@) \o d.effects, !.at = "begin"]
    ELSE Ends("refused")

Reply(id, k) == Answer(run, id, C!Event(k))

\* A checkpoint of another session is not reported, hence not deleted.
Load ==
    /\ Handles("load", "begin")
    /\ LET known == store.session = co.session IN
       Answer(run, "load", [C!Event("loaded") EXCEPT
                              !.ckpt = IF known THEN Checkpoint(store.off) ELSE C!NoCheckpoint])
    /\ UNCHANGED <<durable, radio, client, cloud, left>>

Delete ==
    /\ Handles("delete", "begin")
    /\ store' = NoJournal
    /\ run' = IF co.phase = "completed" THEN NoRun ELSE [run EXCEPT !.effects = Tail(@)]
    /\ UNCHANGED <<sink, marks, co, radio, client, cloud, left>>

Truncate ==
    /\ Handles("truncate", "begin")
    /\ LET n == Head(run.effects).ckpt.off IN
       IF sink.length >= n THEN sink' = Cut(n) /\ Reply("truncate", "truncated")
       ELSE UNCHANGED sink /\ Ends("integrity")
    /\ UNCHANGED <<store, marks, radio, client, cloud, left>>

\* The context is refreshed, the signed authorization reaches the device.
PrepareSession ==
    /\ Handles("prepare", "begin") /\ link
    /\ dev' = [dev EXCEPT !.auth = co.session]
    /\ Reply("prepare", "prepared")
    /\ UNCHANGED <<durable, link, wire, air, client, cloud, left>>

\* A receiver for the checkpoint that was loaded; it proves its prefix first.
StartReceiver ==
    /\ Handles("start", "begin")
    /\ LET ckpt == Head(run.effects).ckpt
           r == Start(New(ckpt.off, store.last, dev.marked)) IN
       run' = [run EXCEPT !.at = "proving", !.rx = r.rx, !.action = r.action, !.queue = <<>>,
                          !.staged = C!NoCheckpoint, !.target = "start", !.reply = "none",
                          !.tried = FALSE, !.confirming = FALSE]
    /\ UNCHANGED <<durable, co, radio, client, cloud, left>>

ProvePrefix ==
    /\ Handles("start", "proving")
    /\ sink' = IF run.action.k = "truncate" THEN Cut(run.action.off) ELSE sink
    /\ LET r == Apply(run.rx, sink.length) IN
       IF r.action.k = "integrity" THEN Ends("integrity")
       ELSE /\ run' = [run EXCEPT !.at = IF r.action.k = "none" THEN "opening" ELSE "proving",
                                  !.rx = r.rx, !.action = r.action]
            /\ UNCHANGED co
    /\ UNCHANGED <<store, marks, radio, client, cloud, left>>

\* The subscription is there before START or RESUME is written.
Open ==
    /\ Handles("start", "opening") /\ link
    /\ wire' = [NoWrite EXCEPT !.k = IF run.rx.ckpt = 0 THEN "start" ELSE "resume", !.off = run.rx.ckpt]
    /\ run' = [run EXCEPT !.at = "opened", !.tried = TRUE]
    /\ UNCHANGED <<durable, co, link, air, dev, client, cloud, left>>

\* The callback of the write and the first frame may come in either order.
Opened ==
    /\ Handles("start", "opened") /\ wire = NoWrite /\ run.reply = "accepted"
    /\ Answer([run EXCEPT !.pump = "run"], "start", C!Event("started"))
    /\ UNCHANGED <<durable, radio, client, cloud, left>>

OpenRejected ==
    /\ Handles("start", "opened") /\ wire = NoWrite /\ run.reply = "rejected"
    /\ Answer([run EXCEPT !.tried = FALSE, !.reply = "none"], "start", C!Event("resumeRejected"))
    /\ air' = <<>>
    /\ UNCHANGED <<durable, link, wire, dev, client, cloud, left>>

OpenFails ==
    /\ Handles("start", "opened") /\ wire = NoWrite
    /\ \/ run.reply = "error"
       \/ run.reply = "none" /\ air = <<>>
    /\ Ends(IF run.reply = "none" THEN "timeout" ELSE "rejected")
    /\ UNCHANGED <<durable, radio, client, cloud, left>>

\* The frame that asks for the missing packets; from now on the pump reports
\* under this request.
RepairWindow ==
    /\ Handles("repair", "begin") /\ link
    /\ wire' = [NoWrite EXCEPT !.k = "repair", !.missing = Head(run.effects).missing]
    /\ run' = [run EXCEPT !.at = "written", !.target = "repair"]
    /\ UNCHANGED <<durable, co, link, air, dev, client, cloud, left>>

OpenGate(r) == [r EXCEPT !.pump = IF @ = "gate" THEN "run" ELSE @]

Repairing ==
    /\ Handles("repair", "written") /\ wire = NoWrite
    /\ run' = OpenGate([run EXCEPT !.effects = Tail(@), !.at = "begin"])
    /\ UNCHANGED <<durable, co, radio, client, cloud, left>>

\* Saved, read back and compared.
SaveCheckpoint ==
    /\ Handles("save", "begin")
    /\ store' = [session |-> co.session, off |-> run.staged.off, last |-> run.seen.last]
    /\ Reply("save", "saved")
    /\ UNCHANGED <<sink, marks, radio, client, cloud, left>>

\* The receiver advances, then the acknowledgement is written.
AcknowledgeWindow ==
    /\ Handles("ack", "begin") /\ link
    /\ LET r == Apply(run.rx, sink.length) IN
       IF Head(run.effects).ckpt = run.staged /\ r.action.k = "control"
       THEN /\ wire' = [NoWrite EXCEPT !.k = "ack", !.off = r.rx.ckpt]
            /\ run' = [run EXCEPT !.at = "written", !.rx = r.rx]
            /\ UNCHANGED co
       ELSE Ends("integrity") /\ UNCHANGED wire
    /\ UNCHANGED <<durable, link, air, dev, client, cloud, left>>

Acknowledged ==
    /\ Handles("ack", "written") /\ wire = NoWrite
    /\ Answer(OpenGate([run EXCEPT !.target = "start", !.staged = C!NoCheckpoint]), "ack",
              [C!Event("acknowledged") EXCEPT !.ckpt = run.staged])
    /\ UNCHANGED <<durable, radio, client, cloud, left>>

\* The ciphertext is uploaded, unless the service says it has it.
StageCiphertext ==
    /\ Handles("stage", "begin")
    /\ \/ cloud' = [cloud EXCEPT ![co.session].body = sink.length]
       \/ cloud[co.session].body = Units /\ UNCHANGED cloud
    /\ Goto("manifest")
    /\ UNCHANGED <<durable, co, radio, client, left>>

SubmitManifest ==
    /\ Handles("stage", "manifest")
    /\ cloud' = [cloud EXCEPT ![co.session].manifest = TRUE]
    /\ IF run.rx.marked THEN Goto("markers") /\ UNCHANGED co ELSE Reply("stage", "artifactsStaged")
    /\ UNCHANGED <<durable, radio, client, left>>

Whole == [session |-> co.session, length |-> Chunks, synced |-> Chunks]

\* submitMarkers: read back from their files and checked once more.
SubmitMarkers ==
    /\ Handles("stage", "markers")
    /\ IF \A i \in Documents : marks[i] = Whole
       THEN /\ cloud' = [cloud EXCEPT ![co.session].markers = TRUE]
            /\ Reply("stage", "artifactsStaged")
       ELSE Ends("integrity") /\ UNCHANGED cloud
    /\ UNCHANGED <<durable, radio, client, left>>

Finalize ==
    /\ Handles("receipt", "begin")
    /\ cloud' = [cloud EXCEPT ![co.session].completed = TRUE]
    /\ Goto("receipt")
    /\ UNCHANGED <<durable, co, radio, client, left>>

CompletionReceipt ==
    /\ Handles("receipt", "receipt")
    /\ Reply("receipt", "receipt")
    /\ UNCHANGED <<durable, radio, client, cloud, left>>

\* The context is refreshed, the signed receipt reaches the device.
DeliverReceipt ==
    /\ Handles("confirm", "begin") /\ link
    /\ dev' = [dev EXCEPT !.receipt = co.session]
    /\ Goto("send")
    /\ UNCHANGED <<durable, co, link, wire, air, client, cloud, left>>

SendConfirm ==
    /\ Handles("confirm", "send") /\ link
    /\ wire' = [NoWrite EXCEPT !.k = "confirm"]
    /\ run' = [run EXCEPT !.at = "written", !.confirming = TRUE]
    /\ UNCHANGED <<durable, co, link, air, dev, client, cloud, left>>

\* The subscription ends, the application hears of it, the workflow is done.
Confirmed ==
    /\ Handles("confirm", "written") /\ wire = NoWrite
    /\ Reply("confirm", "confirmed") /\ air' = <<>>
    /\ UNCHANGED <<durable, link, wire, dev, client, cloud, left>>

\* AbortV2 joins the pump and the write under way, then tells the device. Where
\* it cannot, the client serves no other operation.
Abort ==
    /\ Handles("abort", "begin") /\ wire = NoWrite
    /\ IF run.tried /\ ~run.confirming
       THEN client' = IF link THEN client ELSE "poisoned"
       ELSE UNCHANGED client
    /\ run' = NoRun /\ air' = <<>>
    /\ UNCHANGED <<durable, co, link, wire, dev, cloud, left>>

-----------------------------------------------------------------------------
(* The pump of notifications *)

\* The first frame decides the opening, unless it is of the transfer itself;
\* all others are queued.
Deliver ==
    /\ air # <<>> /\ run.on /\ run.tried /\ run.pump # "spin"
    /\ LET f == Head(air) IN
       run' = IF run.reply = "accepted" THEN [run EXCEPT !.queue = Append(@, f)]
              ELSE IF f.k \in {"accepted", "rejected", "error"} THEN [run EXCEPT !.reply = f.k]
              ELSE run
    /\ air' = Tail(air)
    /\ UNCHANGED <<durable, co, link, wire, dev, client, cloud, left>>

\* The pump fails: it reports under its request. If that is not the expected
\* one, the report is refused and nothing pumps any more.
PumpFails(r, c, why) ==
    LET d == C!Dispatch(c, r.target, C!Event("failed")) IN
    IF d.ok THEN /\ co' = d.co
                 /\ run' = [r EXCEPT !.effects = d.effects, !.at = "begin", !.pump = "off", !.why = why]
    ELSE co' = c /\ run' = [r EXCEPT !.pump = "dead", !.why = why]

Emit(r, event) ==
    LET d == C!Dispatch(co, r.target, event) IN
    IF d.ok THEN co' = d.co /\ run' = [r EXCEPT !.effects = @ \o d.effects]
    ELSE PumpFails(r, d.co, "refused")

Staged(off, missing) ==
    [C!Event("windowStaged") EXCEPT !.ckpt = Checkpoint(off), !.missing = missing]

\* applyAction: what the receiver asks for.
Act(r, result) ==
    LET next == [r EXCEPT !.rx = result.rx, !.action = result.action]
        a == result.action IN
    CASE a.k = "none"                 -> run' = [next EXCEPT !.pump = "run"] /\ UNCHANGED co
      [] a.k \in {"inspect", "append", "marker"} -> run' = [next EXCEPT !.pump = "io"] /\ UNCHANGED co
      [] a.k = "persist"  -> Emit([next EXCEPT !.pump = "gate", !.staged = Checkpoint(a.off)],
                                  Staged(a.off, {}))
      [] a.k = "control"  -> Emit([next EXCEPT !.pump = "gate"], Staged(r.seen.off, a.missing))
      [] a.k = "complete" -> Emit([next EXCEPT !.pump = "off"], C!Event("completed"))
      [] OTHER            -> PumpFails(next, co, a.k)

Receiving ==
    /\ run.pump = "run" /\ run.queue # <<>>
    /\ LET f == Head(run.queue) IN
       Act([run EXCEPT !.queue = Tail(@), !.seen = IF f.k = "end" THEN f ELSE @], Receive(run.rx, f))
    /\ UNCHANGED <<durable, radio, client, cloud, left>>

Appending ==
    /\ run.pump = "io" /\ run.action.k = "append" /\ sink.length = run.action.off
    /\ sink' = [sink EXCEPT !.length = run.rx.next]
    /\ Act(run, Apply(run.rx, run.rx.next))
    /\ UNCHANGED <<store, marks, radio, client, cloud, left>>

\* inspectFile: flushed where asked, then measured and hashed.
Inspecting ==
    /\ run.pump = "io" /\ run.action.k = "inspect"
    /\ sink' = IF run.action.flush THEN [sink EXCEPT !.synced = sink.length] ELSE sink
    /\ Act(run, Apply(run.rx, sink.length))
    /\ UNCHANGED <<store, marks, radio, client, cloud, left>>

Retains(i) == marks[i].length > 0 /\ marks[i].session # co.session

\* AppendMarkerDocument: a part of the document is written anew, a whole one kept.
AppendMarker ==
    /\ run.pump = "io" /\ run.action.k = "marker"
    /\ LET i == run.action.off IN
       /\ Retains(i) => marks[i].length < Chunks
       /\ marks' = IF marks[i].length = Chunks THEN marks
                   ELSE [marks EXCEPT ![i] = [Whole EXCEPT !.synced = 0]]
    /\ run' = [run EXCEPT !.action.k = "markerProof"]
    /\ UNCHANGED <<store, sink, co, radio, client, cloud, left>>

\* The files are named by recording and index. What an earlier session left in
\* one, unless no more than the header the documents share, is refused.
MarkerConflicts ==
    /\ run.pump = "io" /\ run.action.k = "marker" /\ Retains(run.action.off)
    /\ PumpFails(run, co, "retained")
    /\ UNCHANGED <<durable, radio, client, cloud, left>>

\* Flushed, hashed, remembered for submitMarkers.
ProveMarker ==
    /\ run.pump = "io" /\ run.action.k = "markerProof"
    /\ marks' = [marks EXCEPT ![run.action.off].synced = marks[run.action.off].length]
    /\ Act(run, Apply(run.rx, sink.length))
    /\ UNCHANGED <<store, sink, radio, client, cloud, left>>

\* Nothing arrives any more: operationTimeoutMs.
PumpTimesOut ==
    /\ run.pump = "run" /\ run.queue = <<>> /\ run.effects = <<>> /\ air = <<>> /\ wire = NoWrite
    /\ PumpFails(run, co, "timeout")
    /\ UNCHANGED <<durable, radio, client, cloud, left>>

-----------------------------------------------------------------------------
(* The application *)

Fault == left.faults > 0 /\ left' = [left EXCEPT !.faults = @ - 1]

Latest == MaxSessions - left.sessions

\* The service continues its latest session, or opens one that succeeds it.
Sync ==
    /\ ~run.on /\ link /\ client = "usable" /\ dev.holds
    /\ \E s \in Sessions :
         /\ s \in {Latest, Latest + 1}
         /\ LET d == C!Begin(s) IN co' = d.co /\ run' = [NoRun EXCEPT !.on = TRUE, !.effects = d.effects]
         /\ left' = [left EXCEPT !.sessions = MaxSessions - s]
    /\ UNCHANGED <<durable, radio, client, cloud>>

Connect ==
    /\ ~run.on /\ ~link /\ link' = TRUE
    /\ UNCHANGED <<durable, co, run, client, wire, air, dev, cloud, left>>

\* A client whose cleanup failed is created anew.
Recreate ==
    /\ ~run.on /\ client = "poisoned" /\ client' = "usable"
    /\ UNCHANGED <<durable, co, run, radio, cloud, left>>

\* What an await that is given up may have done already.
Lands ==
    \/ UNCHANGED <<durable, cloud>>
    \/ Handles("delete", "begin") /\ store' = NoJournal /\ UNCHANGED <<sink, marks, cloud>>
    \/ /\ Handles("truncate", "begin") /\ sink' = Cut(Head(run.effects).ckpt.off)
       /\ UNCHANGED <<store, marks, cloud>>
    \/ /\ Handles("save", "begin") /\ UNCHANGED <<sink, marks, cloud>>
       /\ store' = [session |-> co.session, off |-> run.staged.off, last |-> run.seen.last]
    \/ /\ Handles("stage", "begin") /\ cloud' = [cloud EXCEPT ![co.session].body = sink.length]
       /\ UNCHANGED durable
    \/ /\ Handles("stage", "manifest") /\ cloud' = [cloud EXCEPT ![co.session].manifest = TRUE]
       /\ UNCHANGED durable
    \/ /\ Handles("stage", "markers") /\ cloud' = [cloud EXCEPT ![co.session].markers = TRUE]
       /\ UNCHANGED durable
    \/ /\ Handles("receipt", "begin") /\ cloud' = [cloud EXCEPT ![co.session].completed = TRUE]
       /\ UNCHANGED durable
    \/ /\ run.pump = "io" /\ run.action.k = "append" /\ UNCHANGED <<store, marks, cloud>>
       /\ \E n \in sink.length .. run.rx.next : sink' = [sink EXCEPT !.length = n]
    \/ /\ run.pump = "io" /\ run.action.k = "marker" /\ marks[run.action.off].length < Chunks
       /\ \E n \in 0 .. Chunks :
            marks' = [marks EXCEPT ![run.action.off] =
                        IF n = 0 THEN NoMark ELSE [session |-> co.session, length |-> n, synced |-> 0]]
       /\ UNCHANGED <<store, sink, cloud>>

Running == run.on /\ run.pump # "spin" /\ ~C!IsTerminal(co)

Cancel ==
    /\ Fault /\ Running
    /\ Lands /\ Ends("cancelled")
    /\ UNCHANGED <<radio, client>>

\* A transfer that reports nothing any more is cancelled by its user.
GiveUp ==
    /\ Running /\ run.pump = "dead" /\ run.effects = <<>>
    /\ Ends("cancelled")
    /\ UNCHANGED <<durable, radio, client, cloud, left>>

-----------------------------------------------------------------------------
(* Faults *)

AwaitFails ==
    /\ Fault /\ Running /\ run.effects # <<>>
    /\ Lands /\ Ends("error")
    /\ UNCHANGED <<radio, client>>

PumpAwaitFails ==
    /\ Fault /\ Running /\ run.pump = "io"
    /\ Lands /\ PumpFails(run, co, "error")
    /\ UNCHANGED <<radio, client>>

\* What the gate waits for takes longer than the pump waits.
GateTimesOut ==
    /\ Fault /\ Running /\ run.pump = "gate"
    /\ PumpFails(run, co, "timeout")
    /\ UNCHANGED <<durable, radio, client, cloud>>

\* The device forgets its session with the link; restarted, also what it was
\* acknowledged.
Disconnected(acked) == [dev EXCEPT !.auth = 0, !.receipt = 0, !.acked = acked]

Severed ==
    /\ wire' = NoWrite /\ air' = <<>>
    /\ \E acked \in {0, dev.acked} : dev' = Disconnected(acked)

\* The executor cancels the workflow. An error of the subscription that comes
\* first while the gate is closed opens it without clearing it: the pump waits
\* for what is already there, again and again.
LinkDrops ==
    /\ Fault /\ link /\ link' = FALSE /\ Severed
    /\ \/ Running /\ Lands /\ Ends("link")
       \/ ~Running /\ UNCHANGED <<durable, cloud, co, run>>
       \/ /\ Running /\ run.pump = "gate" /\ run' = [run EXCEPT !.pump = "spin"]
          /\ UNCHANGED <<durable, cloud, co>>
    /\ UNCHANGED client

\* The process ends, and with it what the files had not been flushed of.
Crash ==
    /\ Severed /\ link' = FALSE /\ run' = NoRun /\ client' = "usable"
    /\ \E n \in sink.synced .. sink.length : sink' = Cut(n)
    /\ \E n \in [Documents -> 0 .. Chunks] :
         /\ \A i \in Documents : n[i] \in marks[i].synced .. marks[i].length
         /\ marks' = [i \in Documents |-> IF n[i] = 0 THEN NoMark ELSE [marks[i] EXCEPT !.length = n[i]]]
    /\ UNCHANGED <<store, co, cloud>>

EndProcess == Fault /\ Crash

\* A process that spins is ended by its user.
Kill == run.pump = "spin" /\ Crash /\ UNCHANGED left

Lose ==
    /\ air # <<>> /\ left.lost > 0
    /\ left' = [left EXCEPT !.lost = @ - 1] /\ air' = Tail(air)
    /\ UNCHANGED <<durable, co, run, link, wire, dev, client, cloud>>

-----------------------------------------------------------------------------
(* The device *)

WindowEnd(base) == Min({base + Window, Units})

\* The packets at the offsets of a window, then its end. An attempt that began
\* at `first` numbers its packets from 1.
WindowFrames(base, first, offsets) ==
    [i \in 1 .. Len(offsets) |->
        [NoFrame EXCEPT !.k = "data", !.seq = offsets[i] - first + 1, !.off = offsets[i]]]
    \o <<[k |-> "end", seq |-> base - first + 1, last |-> WindowEnd(base) - first,
          off |-> WindowEnd(base)]>>

\* The documents of a marked recording, chunk by chunk.
MarkerFrames ==
    IF dev.marked
    THEN [n \in 1 .. Markers * Chunks |->
            [k |-> "marker", seq |-> (n - 1) % Chunks, last |-> Markers, off |-> (n - 1) \div Chunks]]
    ELSE <<>>

Frames(base, first) ==
    IF base = Units
    THEN <<[NoFrame EXCEPT !.k = "manifest"]>> \o MarkerFrames
         \o <<[NoFrame EXCEPT !.k = "eof", !.seq = Units - first]>>
    ELSE WindowFrames(base, first, [i \in 1 .. WindowEnd(base) - base |-> base + i - 1])

Answers(k) == wire.k = k /\ wire' = NoWrite
Control(k) == <<[NoFrame EXCEPT !.k = k]>>

Begins(off) ==
    /\ air' = Control("accepted") \o Frames(off, off)
    /\ dev' = [dev EXCEPT !.base = off, !.first = off, !.acked = off]
    /\ UNCHANGED <<durable, co, run, link, client, cloud, left>>

DeviceStarts == Answers("start") /\ Begins(0)

\* A checkpoint ahead of what was acknowledged is accepted or rejected, any
\* other accepted.
DeviceResumes == Answers("resume") /\ Begins(wire.off)

DeviceRejects ==
    /\ Answers("resume") /\ dev.acked < wire.off
    /\ air' = Control("rejected")
    /\ UNCHANGED <<durable, co, run, link, client, dev, cloud, left>>

\* ERROR, when it is busy with something else.
DeviceRefuses ==
    /\ Fault /\ wire.k \in {"start", "resume"} /\ wire' = NoWrite
    /\ air' = Control("error")
    /\ UNCHANGED <<durable, co, run, link, client, dev, cloud>>

DeviceRepairs ==
    /\ Answers("repair")
    /\ air' = WindowFrames(dev.base, dev.first, SetToSeq({s + dev.first - 1 : s \in wire.missing}))
    /\ UNCHANGED <<durable, co, run, link, client, dev, cloud, left>>

DeviceAdvances ==
    /\ Answers("ack")
    /\ air' = Frames(wire.off, dev.first)
    /\ dev' = [dev EXCEPT !.base = wire.off, !.acked = wire.off]
    /\ UNCHANGED <<durable, co, run, link, client, cloud, left>>

\* The recording is deleted on the receipt of the session it was sent under.
DeviceConfirms ==
    /\ Answers("confirm")
    /\ dev' = [dev EXCEPT !.holds = dev.receipt # dev.auth]
    /\ UNCHANGED <<durable, co, run, link, client, air, cloud, left>>

-----------------------------------------------------------------------------
Init ==
    /\ store = NoJournal /\ sink = [length |-> 0, synced |-> 0] /\ marks = [i \in Documents |-> NoMark]
    /\ co = C!NoWorkflow /\ run = NoRun /\ link = TRUE /\ client = "usable"
    /\ wire = NoWrite /\ air = <<>>
    /\ dev \in [holds : {TRUE}, marked : BOOLEAN, base : {0}, first : {0}, acked : {0},
                auth : {0}, receipt : {0}]
    /\ cloud = [s \in Sessions |-> [body |-> 0, manifest |-> FALSE, markers |-> FALSE,
                                    completed |-> FALSE]]
    /\ left = [faults |-> MaxFaults, lost |-> MaxLost, sessions |-> MaxSessions]

Host == \/ Load \/ Delete \/ Truncate \/ PrepareSession \/ StartReceiver \/ ProvePrefix \/ Open
        \/ Opened \/ OpenRejected \/ OpenFails \/ RepairWindow \/ Repairing \/ SaveCheckpoint
        \/ AcknowledgeWindow \/ Acknowledged \/ StageCiphertext \/ SubmitManifest \/ SubmitMarkers
        \/ Finalize
        \/ CompletionReceipt \/ DeliverReceipt \/ SendConfirm \/ Confirmed \/ Abort
Pump == Receiving \/ Appending \/ Inspecting \/ AppendMarker \/ MarkerConflicts \/ ProveMarker
        \/ PumpTimesOut
Device == DeviceStarts \/ DeviceResumes \/ DeviceRejects \/ DeviceRepairs \/ DeviceAdvances
          \/ DeviceConfirms
User == Sync \/ Connect \/ Recreate \/ GiveUp \/ Kill
Faults == AwaitFails \/ PumpAwaitFails \/ GateTimesOut \/ LinkDrops \/ EndProcess
          \/ DeviceRefuses \/ Lose

Next == Host \/ Pump \/ Deliver \/ Device \/ User \/ Cancel \/ Faults

Spec == Init /\ [][Next]_vars

\* Host, radio and device run, the service answers; the application connects,
\* synchronizes again and replaces a client or a process that is stuck.
LiveSpec == /\ Spec /\ WF_vars(Host) /\ WF_vars(Pump) /\ WF_vars(Deliver) /\ WF_vars(Device)
            /\ WF_vars(User)

-----------------------------------------------------------------------------
(* Properties *)

\* The device may forget a window only once a checkpoint that covers it is
\* stored and the ciphertext below it survives the end of the process.
WindowDurable ==
    [][dev'.acked > dev.acked => /\ store.session = co.session /\ store.off >= dev'.acked
                                 /\ sink.synced >= dev'.acked]_vars

\* The receiver refuses no frame of a device that keeps to the protocol, nor
\* the coordinator an event of the host: over every order of callbacks and
\* notifications, every loss, repair and resumption. The loss of the manifest
\* or of a marker is an error at the end of the file.
NeverRefused == run.why \notin {"protocol", "integrity", "refused"}

\* A marker document of a session that was replaced is still in its file. The
\* documents of the successor are others: they are made for its session.
Obstructed == \E i \in Documents : marks[i].session \in 1 .. Latest - 1

\* The device deletes the recording in the end, and only when the service holds
\* its ciphertext, manifest and markers in one session it has completed. All
\* that stands in the way is a marker document of an earlier session.
Complete(s) == /\ cloud[s].completed /\ cloud[s].manifest /\ cloud[s].body = Units
               /\ dev.marked => cloud[s].markers
Delivers == <>(~dev.holds /\ \E s \in Sessions : Complete(s)) \/ <>[]Obstructed
=============================================================================
