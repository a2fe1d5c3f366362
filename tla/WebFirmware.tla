----------------------------- MODULE WebFirmware -----------------------------
(***************************************************************************)
(* A firmware update in the browser: the reducer of the core               *)
(* (core/.../workflow/firmware_update.rs), the manager and the artifact    *)
(* host (frameworks/web/src/otaManager.ts), the journal, the checkpoint    *)
(* and the downloaded image in browser storage, and the device, over       *)
(* losses of the link and of notifications, failures, reloads of the page, *)
(* cancellations and resumptions of one operation.                         *)
(*                                                                         *)
(* The runtime executes the effects of the workflow one after the other    *)
(* (module WebRuntime); the result of an effect and the reducer's answer   *)
(* are one action. Reconnection is one effect (module Connection).         *)
(***************************************************************************)
EXTENDS Integers, Sequences, FiniteSets

CONSTANTS Chunks,     \* chunks of the image
          AckWindow,  \* ACK_WINDOW: chunks the device acknowledges together
          SeqMod,     \* sequences are numbers modulo this
          MaxFaults,  \* reloads, losses of the link, failures, late answers
          MaxAborts,  \* cancellations by the application
          MaxLost,    \* notifications lost
          MaxDrops    \* chunks the device loses

ASSUME FirmwareAssumption ==
    /\ Chunks \in Nat \ {0} /\ AckWindow \in Nat \ {0} /\ SeqMod \in Nat \ {0}
    /\ SeqMod % AckWindow = 0
    /\ MaxFaults \in Nat /\ MaxAborts \in Nat /\ MaxLost \in Nat /\ MaxDrops \in Nat

VARIABLES
    journal, \* FirmwareJournal: state and verified
    ckpt,    \* phase of the stored WorkflowCheckpoint
    blob,    \* the image in OPFS: chunks written, and whether they are the right ones
    run,     \* the call of the manager, the download and the pump
    wf,      \* FirmwareUpdateWorkflow
    fx,      \* effects the pump has still to settle, the first is under way
    link,    \* the device is connected
    wire,    \* writes the device has not executed
    air,     \* notifications under way
    dev,     \* the device
    left     \* what may still happen

durable == <<journal, ckpt, blob>>
host == <<run, wf, fx>>
radio == <<wire, air, dev>>
vars == <<durable, host, link, radio, left>>

NoJournal == [state |-> "absent", verified |-> FALSE]
NoBlob == [n |-> 0, ok |-> TRUE]
NoRun == [pc |-> "idle", why |-> "none", dl |-> "none", busy |-> FALSE]
NoWorkflow == [phase |-> "none", off |-> 0, seq |-> 0, ack |-> -1, wait |-> -1, ready |-> FALSE,
               verified |-> FALSE, timer |-> "none", deadline |-> FALSE, sub |-> FALSE]

Whole == blob.n = Chunks /\ blob.ok

\* hasCompatibleVerifiedBlob: the journal says so and the bytes still hash to it.
Compatible == journal.verified /\ Whole

Fault == left.faults > 0 /\ left' = [left EXCEPT !.faults = @ - 1]

-----------------------------------------------------------------------------
(* The reducer: a handler answers with the workflow and the effects it asks for *)

Answer(w, effects) == [wf |-> w, fx |-> effects]

Terminal == {"none", "Completed", "Failed"}

Fail(w) == Answer([w EXCEPT !.phase = "Failed", !.timer = "none", !.deadline = FALSE, !.sub = FALSE],
                  <<"unsubscribe", "failed">>)

BeginDownload(w) == Answer([w EXCEPT !.phase = "Downloading"], <<"download">>)

Subscribe(w) == Answer([w EXCEPT !.phase = "Subscribing", !.sub = TRUE], <<"subscribe">>)

WriteStart(w) == Answer([w EXCEPT !.phase = "Starting", !.ready = FALSE], <<"start">>)

ReadNextOrVerify(w) ==
    IF w.off >= Chunks
    THEN Answer([w EXCEPT !.phase = "Verifying", !.verified = FALSE, !.timer = "none"], <<"verify">>)
    ELSE Answer([w EXCEPT !.phase = "ReadingChunk", !.timer = "none"], <<"read">>)

\* The device recreates its file on START: every transfer begins at zero.
BeginTransfer(w) ==
    ReadNextOrVerify([w EXCEPT !.off = 0, !.seq = 0, !.ack = -1, !.wait = -1])

WriteChunk(w) == Answer([w EXCEPT !.phase = "WritingChunk"], <<"data">>)

\* A chunk is written: after every window the device's acknowledgement of its
\* last chunk is awaited, which may have arrived before the write settled.
ChunkWritten(w) ==
    LET n == [w EXCEPT !.seq = (w.seq + 1) % SeqMod, !.off = @ + 1]
        r == IF n.seq % AckWindow # 0 \/ w.ack = w.seq THEN ReadNextOrVerify(n)
             ELSE Answer([n EXCEPT !.phase = "WaitingAck", !.wait = w.seq, !.timer = "ack"], <<>>)
    IN Answer(r.wf, <<"saveTransferring">> \o r.fx)

BeginReboot(w) == Answer([w EXCEPT !.phase = "AwaitingReboot", !.timer = "reboot"], <<>>)

StartReconnectAttempt(w) == Answer([w EXCEPT !.phase = "Reconnecting", !.timer = "none"], <<"connect">>)

BeginReconnect(w) ==
    LET r == StartReconnectAttempt([w EXCEPT !.deadline = TRUE, !.sub = FALSE])
    IN Answer(r.wf, <<"saveReconnecting">> \o r.fx)

CheckpointLoaded(w) ==
    CASE ckpt = "reconnecting" -> BeginReconnect(w)
      [] ckpt = "transferring" -> Subscribe(w)
      [] OTHER                 -> BeginDownload(w)

StartWritten(w) ==
    IF w.ready THEN BeginTransfer(w)
    ELSE Answer([w EXCEPT !.phase = "AwaitingReady", !.timer = "response"], <<>>)

VerifyWritten(w) ==
    IF w.verified THEN BeginReboot(w)
    ELSE Answer([w EXCEPT !.phase = "AwaitingVerify", !.timer = "response"], <<>>)

\* handle_status_notification.
StatusNotified(w, n) ==
    CASE n.k = "ready" /\ w.phase = "Starting"      -> Answer([w EXCEPT !.ready = TRUE], <<>>)
      [] n.k = "ready" /\ w.phase = "AwaitingReady" -> BeginTransfer(w)
      [] n.k = "ack" ->
           LET a == [w EXCEPT !.ack = n.seq] IN
           IF w.phase = "WaitingAck" /\ w.wait = n.seq
           THEN ReadNextOrVerify([a EXCEPT !.wait = -1]) ELSE Answer(a, <<>>)
      [] n.k = "verified" /\ w.phase = "Verifying"      -> Answer([w EXCEPT !.verified = TRUE], <<>>)
      [] n.k = "verified" /\ w.phase = "AwaitingVerify" -> BeginReboot(w)
      [] n.k \in {"refused", "mismatch"} -> Fail(w)
      [] OTHER -> Answer(w, <<>>)

Disconnected_Assumes(w) ==
    IF w.phase \in {"AwaitingVerify", "AwaitingReboot"}
    THEN LET r == BeginReconnect([w EXCEPT !.timer = "none"])
         IN Answer(r.wf, <<"unsubscribe">> \o r.fx)
    ELSE IF w.phase \in {"Reconnecting", "WaitingRetry"} THEN Answer(w, <<>>)
    ELSE Fail(w)

\* A lost link is the reboot only after the device accepted the image.
Disconnected(w) ==
    IF w.phase = "AwaitingReboot"
    THEN LET r == BeginReconnect([w EXCEPT !.timer = "none"])
         IN Answer(r.wf, <<"unsubscribe">> \o r.fx)
    ELSE IF w.phase \in {"Reconnecting", "WaitingRetry"} THEN Answer(w, <<>>)
    ELSE Fail(w)

\* An attempt to reconnect that can be retried is, until the deadline.
ReconnectAttempted(w, up) ==
    IF up THEN Answer([w EXCEPT !.phase = "ReadingVersion", !.deadline = FALSE], <<"version">>)
    ELSE Answer([w EXCEPT !.phase = "WaitingRetry", !.timer = "retry"], <<>>)

TimerFired(w) ==
    IF w.phase = "WaitingRetry" THEN StartReconnectAttempt(w) ELSE Fail(w)

VersionRead(w) ==
    IF dev.version = "new"
    THEN Answer([w EXCEPT !.phase = "Completed"], <<"deleteCheckpoint", "completed">>)
    ELSE Fail(w)

-----------------------------------------------------------------------------
(* The runtime *)

Running == run.pc = "running"
Head1(k) == Running /\ fx # <<>> /\ Head(fx) = k

\* The first effect has settled; a workflow that has ended hears nothing more.
Settled(r) ==
    IF wf.phase \in Terminal THEN fx' = Tail(fx) /\ UNCHANGED wf
    ELSE wf' = r.wf /\ fx' = Tail(fx) \o r.fx

\* A notification or a timer is dispatched beside the effect under way.
Dispatched(r) ==
    IF wf.phase \in Terminal THEN UNCHANGED <<wf, fx>>
    ELSE wf' = r.wf /\ fx' = fx \o r.fx

\* failOwner and cancel: the workflow is cancelled, its hosts are told.
Abort(why) ==
    /\ run' = [NoRun EXCEPT !.pc = "hostCancel", !.why = why]
    /\ wf' = NoWorkflow /\ fx' = <<>>

Settle(why) == run' = [NoRun EXCEPT !.why = why]

-----------------------------------------------------------------------------
(* The manager *)

\* updateFirmware: a new operation; the verified device is asked for its serial.
UpdateFirmware ==
    /\ run.pc = "idle" /\ link /\ journal.state = "absent" /\ ckpt = "none" /\ left.updates > 0
    /\ left' = [left EXCEPT !.updates = @ - 1]
    /\ run' = [NoRun EXCEPT !.pc = "saveJournal"]
    /\ UNCHANGED <<durable, wf, fx, link, radio>>

Started == /\ run' = [NoRun EXCEPT !.pc = "running"]
           /\ wf' = [NoWorkflow EXCEPT !.phase = "LoadingCheckpoint"] /\ fx' = <<"load">>

SaveJournal ==
    /\ run.pc = "saveJournal"
    /\ journal' = [state |-> "active", verified |-> FALSE]
    /\ IF link THEN Started ELSE Settle("disconnected") /\ UNCHANGED <<wf, fx>>
    /\ UNCHANGED <<ckpt, blob, link, radio, left>>

\* resumeFirmwareUpdate: journal, checkpoint and image have to agree. The exact
\* device is connected first, unless the workflow is to reconnect itself.
ResumeFirmwareUpdate ==
    /\ run.pc = "idle" /\ journal.state # "absent"
    /\ IF journal.state = "cleanup_only"
       THEN run' = [NoRun EXCEPT !.pc = "cleanup"] /\ UNCHANGED <<wf, fx, link>>
       ELSE IF (ckpt # "none" \/ journal.verified) /\ ~Compatible
       THEN Settle("rejected") /\ UNCHANGED <<wf, fx, link>>
       ELSE Started /\ link' = (link \/ ckpt # "reconnecting")
    /\ UNCHANGED <<durable, radio, left>>

\* cancelFirmwareUpdate, or the signal of the call: a completed workflow is
\* not cancelled any more.
CancelActive ==
    /\ left.aborts > 0 /\ left' = [left EXCEPT !.aborts = @ - 1]
    /\ \/ run.pc = "saveJournal" /\ Settle("cancelled") /\ UNCHANGED <<wf, fx>>
       \/ Running /\ wf.phase # "Completed" /\ Abort("cancelled")
    /\ UNCHANGED <<durable, link, radio>>

\* cancelFirmwareUpdate without a call: what is not verified is deleted.
CancelIdle ==
    /\ run.pc = "idle" /\ journal.state # "absent" /\ left.aborts > 0
    /\ left' = [left EXCEPT !.aborts = @ - 1]
    /\ IF journal.state = "cleanup_only"
       THEN run' = [NoRun EXCEPT !.pc = "cleanup"] /\ UNCHANGED blob
       ELSE blob' = (IF Compatible THEN blob ELSE NoBlob) /\ UNCHANGED run
    /\ UNCHANGED <<journal, ckpt, wf, fx, link, radio>>

\* FirmwareArtifactHost.cancel: a verified image is kept.
HostCancel ==
    /\ run.pc = "hostCancel"
    /\ blob' = IF Compatible THEN blob ELSE NoBlob
    /\ IF run.why = "integrity" THEN run' = [run EXCEPT !.pc = "dropBlob"] ELSE Settle(run.why)
    /\ UNCHANGED <<journal, ckpt, wf, fx, link, radio, left>>

\* runFirmwareWorkflow: an image that failed its check is not kept.
DeleteLatestBlob ==
    /\ run.pc = "dropBlob"
    /\ blob' = NoBlob /\ Settle(run.why)
    /\ UNCHANGED <<journal, ckpt, wf, fx, link, radio, left>>

\* finishFirmwareCleanup: checkpoint, image, journal.
CleanCheckpoint ==
    /\ run.pc = "cleanup"
    /\ IF journal.state = "cleanup_only"
       THEN ckpt' = "none" /\ run' = [run EXCEPT !.pc = "cleanBlob"] /\ UNCHANGED <<wf, fx>>
       ELSE Settle("rejected") /\ wf' = NoWorkflow /\ fx' = <<>> /\ UNCHANGED ckpt
    /\ UNCHANGED <<journal, blob, link, radio, left>>

CleanBlob ==
    /\ run.pc = "cleanBlob"
    /\ blob' = NoBlob /\ run' = [run EXCEPT !.pc = "cleanJournal"]
    /\ UNCHANGED <<journal, ckpt, wf, fx, link, radio, left>>

CleanJournal ==
    /\ run.pc = "cleanJournal"
    /\ journal' = NoJournal /\ Settle("ok") /\ wf' = NoWorkflow /\ fx' = <<>>
    /\ UNCHANGED <<ckpt, blob, link, radio, left>>

-----------------------------------------------------------------------------
(* Effects of storage *)

LoadCheckpoint ==
    /\ Head1("load") /\ Settled(CheckpointLoaded(wf))
    /\ UNCHANGED <<durable, run, link, radio, left>>

SaveCheckpoint ==
    /\ Head1("saveTransferring") \/ Head1("saveReconnecting")
    /\ ckpt' = IF Head(fx) = "saveReconnecting" THEN "reconnecting" ELSE "transferring"
    /\ fx' = Tail(fx)
    /\ UNCHANGED <<journal, blob, run, wf, link, radio, left>>

DeleteCheckpoint_Forgets ==
    /\ Head1("deleteCheckpoint")
    /\ ckpt' = "none" /\ fx' = Tail(fx)
    /\ UNCHANGED <<journal, blob, run, wf, link, radio, left>>

\* createFirmwarePersistenceHost: the journal says that only cleaning is left
\* before the checkpoint goes.
DeleteCheckpoint ==
    /\ Head1("deleteCheckpoint")
    /\ IF journal.state = "active"
       THEN journal' = [journal EXCEPT !.state = "cleanup_only"] /\ UNCHANGED <<ckpt, fx>>
       ELSE ckpt' = "none" /\ fx' = Tail(fx) /\ UNCHANGED journal
    /\ UNCHANGED <<blob, run, wf, link, radio, left>>

\* readChunk: the journal is read again, and the bytes have to be there.
ReadChunk ==
    /\ Head1("read")
    /\ IF ~journal.verified THEN Abort("rejected")
       ELSE IF blob.n <= wf.off /\ wf.phase = "ReadingChunk" THEN Abort("integrity")
       ELSE Settled(WriteChunk(wf)) /\ UNCHANGED run
    /\ UNCHANGED <<durable, link, radio, left>>

-----------------------------------------------------------------------------
(* The download *)

Downloading(stage) == Head1("download") /\ run.dl = stage
Stage(s) == run' = [run EXCEPT !.dl = s]

DownloadCompleted == Settled(
    LET r == Subscribe(wf) IN Answer(r.wf, <<"saveTransferring">> \o r.fx))

\* A verified image that is still there is not downloaded again; any other one
\* starts at nothing.
DownloadStarts ==
    /\ Downloading("none")
    /\ IF Compatible THEN DownloadCompleted /\ UNCHANGED <<run, blob>>
       ELSE blob' = NoBlob /\ Stage("body") /\ UNCHANGED <<wf, fx>>
    /\ UNCHANGED <<journal, ckpt, link, radio, left>>

\* A piece of the body reaches the file; what the server sends may be wrong.
DownloadPiece ==
    /\ Downloading("body") /\ blob.n < Chunks
    /\ \/ blob' = [blob EXCEPT !.n = @ + 1] /\ UNCHANGED left
       \/ Fault /\ blob' = [n |-> blob.n + 1, ok |-> FALSE]
    /\ UNCHANGED <<journal, ckpt, run, wf, fx, link, radio>>

\* validateDownloadedArtifact: size, CRC-32 and SHA-256.
DownloadBody ==
    /\ Downloading("body") /\ blob.n = Chunks
    /\ IF blob.ok THEN Stage("save") /\ UNCHANGED <<wf, fx, blob>>
       ELSE blob' = NoBlob /\ Abort("integrity")
    /\ UNCHANGED <<journal, ckpt, link, radio, left>>

DownloadSave ==
    /\ Downloading("save")
    /\ journal' = [journal EXCEPT !.verified = TRUE]
    /\ Stage("none") /\ DownloadCompleted
    /\ UNCHANGED <<ckpt, blob, link, radio, left>>

\* The provider, the server or the file fails: the image is deleted.
DownloadFails ==
    /\ Fault /\ Head1("download") /\ run.dl # "none"
    /\ blob' = NoBlob /\ Abort("error")
    /\ UNCHANGED <<journal, ckpt, link, radio>>

-----------------------------------------------------------------------------
(* Effects of the radio *)

\* Enabling the notifications is a round trip on the link (the session of an
\* earlier subscription was stopped): what was under way before has arrived.
SubscribeSettles ==
    /\ Head1("subscribe") /\ wire = <<>> /\ air = <<>>
    /\ Settled(IF link THEN WriteStart(wf) ELSE Fail(wf))
    /\ UNCHANGED <<durable, run, link, radio, left>>

Unsubscribe ==
    /\ Head1("unsubscribe") /\ fx' = Tail(fx)
    /\ UNCHANGED <<durable, run, wf, link, radio, left>>

Writes == {"start", "data", "verify"}

\* The write is handed to the platform.
Write ==
    /\ Running /\ fx # <<>> /\ Head(fx) \in Writes /\ ~run.busy /\ link
    /\ wire' = Append(wire, [k |-> Head(fx), seq |-> wf.seq, ok |-> blob.ok /\ journal.verified])
    /\ run' = [run EXCEPT !.busy = TRUE]
    /\ UNCHANGED <<durable, wf, fx, link, air, dev, left>>

Acknowledged(k) == \A i \in DOMAIN wire : wire[i].k # k

\* Its callback: a write with response is over when the device executed it.
WriteSettles ==
    /\ Running /\ fx # <<>> /\ Head(fx) \in Writes /\ run.busy
    /\ Head(fx) # "data" => Acknowledged(Head(fx))
    /\ run' = [run EXCEPT !.busy = FALSE]
    /\ Settled(IF ~link THEN Fail(wf)
               ELSE CASE Head(fx) = "start" -> StartWritten(wf)
                      [] Head(fx) = "data"  -> ChunkWritten(wf)
                      [] OTHER              -> VerifyWritten(wf))
    /\ UNCHANGED <<durable, link, radio, left>>

WriteUnconnected ==
    /\ Running /\ fx # <<>> /\ Head(fx) \in Writes /\ ~run.busy /\ ~link
    /\ Settled(Fail(wf))
    /\ UNCHANGED <<durable, run, link, radio, left>>

\* A notification reaches the workflow that subscribed.
Deliver ==
    /\ air # <<>> /\ air' = Tail(air)
    /\ IF Running /\ wf.sub THEN Dispatched(StatusNotified(wf, Head(air))) ELSE UNCHANGED <<wf, fx>>
    /\ run' = IF Running /\ wf.sub /\ wf.phase \notin Terminal /\ Head(air).k = "mismatch"
              THEN [run EXCEPT !.why = "integrity"] ELSE run
    /\ UNCHANGED <<durable, link, wire, dev, left>>

ConnectSettles ==
    /\ Head1("connect")
    /\ \/ link' = TRUE /\ Settled(ReconnectAttempted(wf, TRUE)) /\ UNCHANGED left
       \/ Fault /\ UNCHANGED link /\ Settled(ReconnectAttempted(wf, FALSE))
    /\ UNCHANGED <<durable, run, radio>>

ReadVersion ==
    /\ Head1("version")
    /\ Settled(IF link THEN VersionRead(wf) ELSE Fail(wf))
    /\ UNCHANGED <<durable, run, link, radio, left>>

\* Nothing of the device is under way that could answer.
Silent == wire = <<>> /\ air = <<>> /\ ~dev.accepted

\* A timer fires when nothing answers, or, as a fault, before the answer. A
\* timer runs while the pump is idle.
Fire ==
    /\ Running /\ wf.timer # "none" /\ fx = <<>>
    /\ IF Silent \/ wf.timer = "retry" THEN UNCHANGED left ELSE Fault
    /\ Dispatched(TimerFired(wf))
    /\ UNCHANGED <<durable, run, link, radio>>

\* The deadline of the reconnection: the attempt is given up.
ReconnectDeadline ==
    /\ Fault /\ Running /\ wf.deadline /\ (fx # <<>> => Head(fx) = "connect")
    /\ wf' = Fail(wf).wf /\ fx' = Fail(wf).fx
    /\ UNCHANGED <<durable, run, link, radio>>

-----------------------------------------------------------------------------
(* The ends *)

\* The notification Failed: the owner fails, with the error of the reducer.
Failed ==
    /\ Head1("failed")
    /\ Abort(IF run.why = "integrity" THEN "integrity" ELSE "error")
    /\ UNCHANGED <<durable, link, radio, left>>

\* The notification Completed: the handoff adopts the connection and cleans up.
Completed ==
    /\ Head1("completed")
    /\ run' = [run EXCEPT !.pc = "cleanup"]
    /\ UNCHANGED <<durable, wf, fx, link, radio, left>>

-----------------------------------------------------------------------------
(* The device *)

Executes(k) == wire # <<>> /\ Head(wire).k = k /\ wire' = Tail(wire)
Sends(n) == air' = Append(air, n)

\* UPLOAD_START recreates the file; a device that is busy refuses.
DeviceStarts ==
    /\ Executes("start")
    /\ \/ /\ dev' = [dev EXCEPT !.file = 0, !.ok = TRUE, !.open = TRUE, !.acked = 0]
          /\ Sends([k |-> "ready", seq |-> 0]) /\ UNCHANGED left
       \/ Fault /\ Sends([k |-> "refused", seq |-> 0]) /\ UNCHANGED dev
    /\ UNCHANGED <<durable, host, link>>

DeviceWrites ==
    /\ Executes("data")
    /\ LET d == [dev EXCEPT !.file = @ + 1, !.ok = @ /\ Head(wire).ok] IN
       IF dev.open /\ (Head(wire).seq + 1) % AckWindow = 0
       THEN dev' = [d EXCEPT !.acked = d.file] /\ Sends([k |-> "ack", seq |-> Head(wire).seq])
       ELSE dev' = (IF dev.open THEN d ELSE dev) /\ UNCHANGED air
    /\ UNCHANGED <<durable, host, link, left>>

\* UPLOAD_VERIFY: the CRC-32 of the file; an accepted image is installed.
DeviceVerifies ==
    /\ Executes("verify")
    /\ IF dev.open /\ dev.file = Chunks /\ dev.ok
       THEN dev' = [dev EXCEPT !.open = FALSE, !.accepted = TRUE] /\ Sends([k |-> "verified", seq |-> 0])
       ELSE dev' = [dev EXCEPT !.open = FALSE] /\ Sends([k |-> "mismatch", seq |-> 0])
    /\ UNCHANGED <<durable, host, link, left>>

\* The link is gone: the runtime tells the workflow, what is under way is lost.
Drop ==
    /\ link' = FALSE /\ wire' = <<>> /\ air' = <<>>
    /\ IF Running THEN Dispatched(Disconnected(wf)) ELSE UNCHANGED <<wf, fx>>
    /\ UNCHANGED <<durable, run>>

\* The device restarts into the image after it has answered (LinkDrops: before).
DeviceReboots ==
    /\ dev.accepted /\ (link => air = <<>> /\ ~run.busy) /\ Drop
    /\ dev' = [dev EXCEPT !.accepted = FALSE, !.version = "new", !.file = 0]
    /\ UNCHANGED left

-----------------------------------------------------------------------------
(* Faults *)

LinkDrops == Fault /\ link /\ Drop /\ dev' = [dev EXCEPT !.open = FALSE]

LoseNotification ==
    /\ left.lost > 0 /\ left' = [left EXCEPT !.lost = @ - 1]
    /\ air # <<>> /\ air' = Tail(air)
    /\ UNCHANGED <<durable, host, link, wire, dev>>

\* A write without response is lost in the device: its file has a hole.
LoseData ==
    /\ left.drops > 0 /\ left' = [left EXCEPT !.drops = @ - 1]
    /\ Executes("data") /\ dev' = [dev EXCEPT !.file = @ + 1, !.ok = FALSE]
    /\ UNCHANGED <<durable, host, link, air>>

StorageFails ==
    /\ Fault
    /\ \/ run.pc \in {"saveJournal", "cleanup", "cleanBlob", "cleanJournal"}
          /\ Settle("error") /\ wf' = NoWorkflow /\ fx' = <<>>
       \/ run.pc \in {"hostCancel", "dropBlob"} /\ Settle(run.why) /\ UNCHANGED <<wf, fx>>
       \/ Running /\ fx # <<>> /\ Head(fx) \in {"load", "saveTransferring", "saveReconnecting", "read"}
          /\ Abort("error")
       \/ Head1("deleteCheckpoint") /\ Settle("error") /\ wf' = NoWorkflow /\ fx' = <<>>
    /\ UNCHANGED <<durable, link, radio>>

\* Removing the notifications of a link that is gone may be refused.
UnsubscribeFails ==
    /\ Fault /\ Head1("unsubscribe") /\ ~link
    /\ IF wf.phase = "Failed"
       THEN Abort(IF run.why = "integrity" THEN "integrity" ELSE "error") ELSE Abort("error")
    /\ UNCHANGED <<durable, link, radio>>

ReloadPage ==
    /\ Fault
    /\ run' = NoRun /\ wf' = NoWorkflow /\ fx' = <<>> /\ link' = FALSE
    /\ wire' = <<>> /\ air' = <<>> /\ dev' = [dev EXCEPT !.open = FALSE]
    /\ UNCHANGED durable

-----------------------------------------------------------------------------
Init ==
    /\ journal = NoJournal /\ ckpt = "none" /\ blob = NoBlob
    /\ run = NoRun /\ wf = NoWorkflow /\ fx = <<>> /\ link = TRUE
    /\ wire = <<>> /\ air = <<>>
    /\ dev = [file |-> 0, ok |-> TRUE, open |-> FALSE, acked |-> 0, accepted |-> FALSE,
              version |-> "old"]
    /\ left = [faults |-> MaxFaults, aborts |-> MaxAborts, lost |-> MaxLost, drops |-> MaxDrops,
               updates |-> 1]

Host == \/ SaveJournal \/ HostCancel \/ DeleteLatestBlob \/ CleanCheckpoint \/ CleanBlob \/ CleanJournal
        \/ LoadCheckpoint \/ SaveCheckpoint \/ DeleteCheckpoint \/ ReadChunk
        \/ DownloadStarts \/ DownloadPiece \/ DownloadBody \/ DownloadSave
        \/ SubscribeSettles \/ Unsubscribe \/ Write \/ WriteSettles \/ WriteUnconnected
        \/ Deliver \/ ReadVersion \/ Fire \/ Failed \/ Completed

Device == DeviceStarts \/ DeviceWrites \/ DeviceVerifies \/ DeviceReboots

Faults == \/ DownloadFails \/ ReconnectDeadline \/ LinkDrops \/ LoseNotification \/ LoseData
          \/ StorageFails \/ UnsubscribeFails \/ ReloadPage

Next == Host \/ ConnectSettles \/ Device \/ Faults \/ UpdateFirmware \/ ResumeFirmwareUpdate
        \/ CancelActive \/ CancelIdle

Spec == Init /\ [][Next]_vars

\* The page runs, the device executes what reaches it and can be found again,
\* and the application resumes the operation it has begun.
LiveSpec == /\ Spec /\ WF_vars(Host) /\ WF_vars(Device) /\ WF_vars(ConnectSettles)
            /\ SF_vars(ResumeFirmwareUpdate)

-----------------------------------------------------------------------------
(* Properties *)

\* A checkpoint is never left to an operation that cannot resume from it: its
\* journal says that the image is verified; and the phase Reconnecting, in
\* which the transfer is not repeated, is stored only for an accepted image.
\* And the device is sent nothing but an image that passed its checks.
CheckpointBacked ==
    /\ \A i \in DOMAIN wire : wire[i].k # "start" => wire[i].ok
    /\ ckpt # "none" => journal.verified
    /\ ckpt = "reconnecting" => dev.accepted \/ dev.version = "new"

\* An image that was verified and is not there any more: the device refused it.
Lost == journal.verified /\ journal.state = "active" /\ ~Whole

\* An operation that was begun ends: the device runs the image and the browser
\* has forgotten it; or the image of a verified operation has been deleted,
\* from which no call of the manager leads on.
Retires == journal.state # "absent" ~> journal.state = "absent" \/ Lost

=============================================================================
