------------------------ MODULE WebEncryptedUpload ------------------------
(***************************************************************************)
(* The encrypted-upload-v2 profile in the browser: the windowed transfer   *)
(* of ciphertext with repair and durable checkpoints, the upload of body   *)
(* and manifest, the completion receipt and the confirmation              *)
(* (frameworks/web/src/encryptedUploadV2Host.ts and recordingManager.ts,   *)
(* driven by core/.../workflow/encrypted_upload_v2.rs), over losses of     *)
(* notifications and of the link, failures, reloads of the page,           *)
(* cancellations and sessions that the service replaces.                   *)
(*                                                                         *)
(* One operation. The callback of an effect, the reducer's answer and the  *)
(* start of the next effect are one action: nothing is awaited between.    *)
(* Notifications arrive at any time. Module WebRuntime has the runtime,    *)
(* module WebRecordings the cancellation of an operation that is idle.     *)
(***************************************************************************)
EXTENDS Integers, Sequences, FiniteSets, SequencesExt

CONSTANTS Units,        \* packets of ciphertext in the recording
          Window,       \* packets of a window
          BlobFrames,   \* BEGIN and DATA frames of a signed document
          MaxSessions,  \* upload sessions the service opens
          MaxFaults,    \* reloads, losses of the link, failures of an await
          MaxAborts,    \* cancellations by the application
          MaxLost       \* lost notifications

ASSUME UploadAssumption ==
    /\ {Units, Window, BlobFrames} \subseteq Nat \ {0} /\ MaxSessions \in Nat \ {0}
    /\ MaxFaults \in Nat /\ MaxAborts \in Nat /\ MaxLost \in Nat

VARIABLES
    store,  \* IndexedDB: journal phase, session, checkpoint and evidence of the operation
    body,   \* OPFS: packets in the staged ciphertext
    run,    \* the call: program counter, host, transfer session and receiver
    link,   \* "down", "up" or "poisoned"
    wire,   \* the control write that the device has not answered
    air,    \* notifications under way
    dev,    \* the device's side of the transfer
    cloud,  \* what the service holds per session
    left    \* what may still happen

durable == <<store, body>>
radio == <<wire, air, dev>>
vars == <<store, body, run, link, wire, air, dev, cloud, left>>

Sessions == 1 .. MaxSessions
Phases == <<"prepared", "transferring", "staged", "uploading", "cloud_completed", "confirmed">>
Rank(p) == CHOOSE i \in DOMAIN Phases : Phases[i] = p
Unverified == {"prepared", "transferring"}

NoCheckpoint == [session |-> 0, off |-> 0, seq |-> -1]
NoOperation == [phase |-> "absent", session |-> 0, ckpt |-> NoCheckpoint, evidence |-> FALSE]
Nothing == [k |-> "none", off |-> 0, miss |-> {}]
NoFrame == [k |-> "none", seq |-> 0, last |-> 0, off |-> 0]
NoBlob == [k |-> "none", id |-> 0, session |-> 0]

NoRun == [pc |-> "idle", api |-> "none", then |-> "none", phase |-> "absent", completed |-> FALSE,
          session |-> 0, ckpt |-> NoCheckpoint, rx |-> NoCheckpoint, pend |-> NoCheckpoint,
          pkts |-> {}, miss |-> {}, tc |-> "none", repair |-> {}, queue |-> <<>>, held |-> <<>>,
          reply |-> NoFrame, man |-> FALSE, broken |-> "no", lost |-> FALSE,
          blob |-> NoBlob, sent |-> 0, result |-> "none"]

Goto(pc) == run' = [run EXCEPT !.pc = pc]

-----------------------------------------------------------------------------
(* How a run ends *)

\* What the catch blocks delete: what is not verified, after a cancellation and
\* after any failure of sync that still owns the material.
CleansUp(error) ==
    \/ error = "cancelled" /\ ~(run.api = "sync" /\ run.pc = "provider")
    \/ run.api = "sync" /\ run.pc \in {"saveOperation", "transferring"}

Failed(error) == [NoRun EXCEPT !.pc = IF CleansUp(error) THEN "reload" ELSE "idle", !.then = error]

\* The reducer fails or is cancelled: AbortV2 joins the writer, sends ABORT and
\* unsubscribes; the recording is retained. A document whose result is not known
\* is aborted too, but the device may be verifying it.
Fail(error) ==
    /\ wire' = Nothing /\ air' = <<>> /\ run' = Failed(error)
    /\ \E blob \in {NoBlob, dev.signed} : dev' = [dev EXCEPT !.mode = "idle", !.signed = blob]

Settle(outcome) == run' = [NoRun EXCEPT !.then = outcome]

Fault == left.faults > 0 /\ left' = [left EXCEPT !.faults = @ - 1]

-----------------------------------------------------------------------------
(* The store *)

\* saveRecordingJournal: a journal stays in its phase or enters the next, or
\* restages an upload.
Accepts(old, new) ==
    /\ old # "absent"
    /\ \/ Rank(new) \in {Rank(old), Rank(old) + 1}
       \/ old = "uploading" /\ new = "staged"

\* savePhase: a journal that is further on is left alone; a phase the store
\* refuses fails the callback that wanted it.
SavePhase(at, phase, pc) ==
    /\ run.pc = at
    /\ IF Rank(run.phase) > Rank(phase) THEN Goto(pc) /\ UNCHANGED <<store, radio>>
       ELSE IF Accepts(store.phase, phase)
       THEN /\ store' = [store EXCEPT !.phase = phase]
            /\ run' = [run EXCEPT !.pc = pc, !.phase = phase]
            /\ UNCHANGED radio
       ELSE Fail("refused") /\ UNCHANGED store
    /\ UNCHANGED <<body, link, cloud, left>>

\* saveEncryptedUploadV2Checkpoint: the host's copy of the state, whole.
SaveState(ckpt, evidence) ==
    store' = [store EXCEPT !.ckpt = ckpt, !.evidence = evidence]

-----------------------------------------------------------------------------
(* The application *)

Sync ==
    /\ run.pc = "idle" /\ link = "up" /\ store.phase = "absent" /\ dev.holds
    /\ left.sessions > 0
    /\ run' = [NoRun EXCEPT !.pc = "provider", !.api = "sync"]
    /\ UNCHANGED <<durable, link, radio, cloud, left>>

\* The stored journal and state are read, they must fit: evidence exists from
\* the phase staged on. confirm() of a completed upload is the same call.
Resume ==
    /\ run.pc = "idle" /\ store.phase # "absent" /\ link = "up"
    /\ IF store.phase = "confirmed"
       THEN run' = [NoRun EXCEPT !.pc = "dropBlob", !.api = "resume", !.then = "ok"]
       ELSE IF store.phase \notin Unverified /\ ~store.evidence THEN Settle("unfit")
       ELSE run' = [NoRun EXCEPT !.pc = "provider", !.api = "resume", !.phase = store.phase,
                                 !.session = store.session, !.ckpt = store.ckpt,
                                 !.completed = store.phase = "cloud_completed"]
    /\ UNCHANGED <<durable, link, radio, cloud, left>>

\* Until the confirmation is attempted, a cancellation ends the run.
Attempted == {"confirming", "confirmed", "forget", "reload", "dropCheckpoint", "dropBlob",
              "dropOperation"}

Cancel ==
    /\ run.pc \notin Attempted \cup {"idle"} /\ left.aborts > 0
    /\ left' = [left EXCEPT !.aborts = @ - 1]
    /\ Fail("cancelled")
    /\ UNCHANGED <<durable, link, cloud>>

-----------------------------------------------------------------------------
(* Up to the transfer *)

NewSession == MaxSessions - left.sessions + 1

\* The provider answers; a new operation gets its session.
Provided ==
    /\ run.pc = "provider"
    /\ IF run.api = "sync"
       THEN /\ run' = [run EXCEPT !.pc = "saveOperation", !.session = NewSession]
            /\ left' = [left EXCEPT !.sessions = @ - 1]
       ELSE Goto("truncate") /\ UNCHANGED left
    /\ UNCHANGED <<durable, link, radio, cloud>>

\* The provider replaces the session of an upload that is not completed: the
\* store exchanges state and journal in one transaction.
Replaced ==
    /\ run.pc = "provider" /\ run.api = "resume" /\ left.sessions > 0
    /\ store.phase # "cloud_completed"
    /\ store' = [NoOperation EXCEPT !.phase = "prepared", !.session = NewSession]
    /\ run' = [run EXCEPT !.pc = "truncate", !.phase = "prepared", !.session = NewSession,
                          !.ckpt = NoCheckpoint]
    /\ left' = [left EXCEPT !.sessions = @ - 1]
    /\ UNCHANGED <<body, link, radio, cloud>>

\* saveEncryptedUploadV2Operation: a new state and its prepared journal.
SaveOperation ==
    /\ run.pc = "saveOperation"
    /\ IF store.phase = "absent"
       THEN /\ store' = [NoOperation EXCEPT !.phase = "prepared", !.session = run.session]
            /\ run' = [run EXCEPT !.pc = "transferring", !.phase = "prepared"]
            /\ UNCHANGED radio
       ELSE Fail("refused") /\ UNCHANGED store
    /\ UNCHANGED <<body, link, cloud, left>>

Transferring == SavePhase("transferring", "transferring", "truncate")

\* LoadCheckpoint and TruncateSink: a checkpoint of another session is not
\* usable; the body is cut to the checkpoint, a shorter one fails.
Truncate ==
    /\ run.pc = "truncate"
    /\ LET usable == run.ckpt.session = run.session
           ckpt == IF usable THEN run.ckpt ELSE NoCheckpoint IN
       IF body < ckpt.off THEN Fail("integrity") /\ UNCHANGED <<store, body>>
       ELSE /\ body' = ckpt.off
            /\ SaveState(ckpt, store.evidence)
            /\ run' = [run EXCEPT !.pc = "authorize", !.ckpt = ckpt]
            /\ UNCHANGED radio
    /\ UNCHANGED <<link, cloud, left>>

-----------------------------------------------------------------------------
(* The writer of signed documents: the authorization, later the receipt *)

Signing == {"signing", "committing", "result"}

\* nextSignedBlobWriteId counts on from a random seed: no number that is still
\* under way is used again.
FreshId == CHOOSE id \in 1 .. Len(air) + 2 : id # dev.signed.id /\ \A i \in DOMAIN air : air[i].seq # id

\* The subscription precedes BEGIN.
StartBlob(at, kind) ==
    /\ run.pc = at /\ link = "up"
    /\ run' = [run EXCEPT !.pc = "signing", !.sent = 0, !.result = "none",
                          !.blob = [k |-> kind, id |-> FreshId, session |-> run.session]]
    /\ UNCHANGED <<durable, link, radio, cloud, left>>

\* PrepareSession: the signed authorization is sent to the device.
Authorize == StartBlob("authorize", "auth")

\* BEGIN and DATA, one write after the other.
SendBlob ==
    /\ run.pc = "signing" /\ link = "up" /\ wire.k = "none" /\ run.sent < BlobFrames
    /\ wire' = [Nothing EXCEPT !.k = "blob"]
    /\ run' = [run EXCEPT !.sent = @ + 1]
    /\ UNCHANGED <<durable, link, air, dev, cloud, left>>

\* A result counts from the moment COMMIT is written.
CommitBlob ==
    /\ run.pc = "signing" /\ link = "up" /\ wire.k = "none" /\ run.sent = BlobFrames
    /\ wire' = [Nothing EXCEPT !.k = "commit"]
    /\ Goto("committing")
    /\ UNCHANGED <<durable, link, air, dev, cloud, left>>

Committed ==
    /\ run.pc = "committing" /\ wire.k = "none"
    /\ Goto("result")
    /\ UNCHANGED <<durable, link, radio, cloud, left>>

\* The result may overtake the callback of COMMIT; one of another write is
\* ignored, and so is one that nobody waits for.
DeliverResult ==
    /\ air # <<>> /\ Head(air).k \in {"signed", "refused"}
    /\ run' = IF run.pc \in {"committing", "result"} /\ Head(air).seq = run.blob.id /\ run.result = "none"
              THEN [run EXCEPT !.result = Head(air).k] ELSE run
    /\ air' = Tail(air)
    /\ UNCHANGED <<durable, link, wire, dev, cloud, left>>

BlobSent ==
    /\ run.pc = "result" /\ run.result # "none"
    /\ IF run.result = "signed"
       THEN /\ run' = [run EXCEPT !.pc = IF run.blob.k = "auth" THEN "open" ELSE "confirm",
                                  !.blob = NoBlob, !.sent = 0, !.result = "none"]
            /\ UNCHANGED radio
       ELSE Fail("rejected")
    /\ UNCHANGED <<durable, link, cloud, left>>

\* resultTimeoutMs, after which nothing is heard any more.
BlobTimesOut ==
    /\ run.pc = "result" /\ run.result = "none" /\ air = <<>> /\ dev.signed = NoBlob
    /\ Fail("timeout")
    /\ UNCHANGED <<durable, link, cloud, left>>

-----------------------------------------------------------------------------
(* The transfer begins *)

\* StartTransfer: the receiver proves its prefix, the subscription precedes
\* the request.
Open ==
    /\ run.pc = "open" /\ link = "up"
    /\ wire' = [Nothing EXCEPT !.k = IF run.ckpt = NoCheckpoint THEN "start" ELSE "resume",
                               !.off = run.ckpt.off]
    /\ run' = [run EXCEPT !.pc = "opening", !.rx = run.ckpt, !.pend = NoCheckpoint, !.pkts = {},
                          !.miss = {}, !.tc = "awaiting_control", !.queue = <<>>, !.held = <<>>,
                          !.reply = NoFrame, !.man = FALSE, !.broken = "no"]
    /\ UNCHANGED <<durable, link, air, dev, cloud, left>>

-----------------------------------------------------------------------------
(* Notifications *)

\* acceptTransferFrame: a frame enters the queue if the phase expects it.
Break(r, why) == [r EXCEPT !.broken = IF @ = "no" THEN why ELSE @, !.queue = <<>>]

Accept(r, f) ==
    LET Push(tc, repair) == [r EXCEPT !.tc = tc, !.repair = repair, !.queue = Append(@, f)] IN
    IF r.broken # "no" THEN r ELSE
    CASE r.tc = "window"   /\ f.k = "data"            -> Push("window", {})
      [] r.tc = "window"   /\ f.k = "end"             -> Push("paused", {})
      [] r.tc = "repair"   /\ f.k = "data" /\ f.seq \in r.repair
                                                      -> Push("repair", r.repair \ {f.seq})
      [] r.tc = "repair"   /\ f.k = "end"             -> IF r.repair = {} THEN Push("paused", {})
                                                         ELSE Break(r, "lossy")
      [] r.tc = "manifest" /\ f.k = "manifest"        -> Push("manifest", {})
      [] r.tc = "manifest" /\ f.k = "eof"             -> Push("terminal", {})
      [] OTHER                                        -> Break(r, "protocol")

\* The first frame answers the request; what follows waits for the opening.
Deliver ==
    /\ air # <<>> /\ run.tc # "none" /\ Head(air).k \notin {"signed", "refused"}
    /\ run' = IF run.tc = "awaiting_control"
              THEN [run EXCEPT !.tc = "control_pending", !.reply = Head(air)]
              ELSE IF run.pc \in {"opening", "replaying"}
              THEN [run EXCEPT !.held = Append(@, Head(air))]
              ELSE Accept(run, Head(air))
    /\ air' = Tail(air)
    /\ UNCHANGED <<durable, link, wire, dev, cloud, left>>

\* A notification of a packet, of the manifest or of a result is lost.
Lose ==
    /\ air # <<>> /\ Head(air).k \in {"data", "manifest", "signed"} /\ left.lost > 0
    /\ left' = [left EXCEPT !.lost = @ - 1] /\ air' = Tail(air)
    /\ UNCHANGED <<durable, run, link, wire, dev, cloud>>

Replies == {"start_ack", "resume_accept"}
FirstPhase == IF run.rx.off = Units THEN "manifest" ELSE "window"

Opened_DropsHeld ==
    /\ run.pc = "opening" /\ run.reply.k \in Replies /\ wire.k = "none"
    /\ run' = [run EXCEPT !.pc = "replaying", !.tc = FirstPhase, !.held = <<>>]
    /\ UNCHANGED <<durable, link, radio, cloud, left>>

\* The request is answered.
Opened ==
    /\ run.pc = "opening" /\ run.reply.k \in Replies /\ wire.k = "none"
    /\ run' = [run EXCEPT !.pc = "replaying", !.tc = FirstPhase]
    /\ UNCHANGED <<durable, link, radio, cloud, left>>

\* The frames held back are accepted in order, before any other and before the
\* pump begins. (The code does so in one go; here, a step each.)
ReplayHeld ==
    /\ run.pc = "replaying"
    /\ IF run.held = <<>> THEN Goto("receive")
       ELSE run' = [Accept(run, Head(run.held)) EXCEPT !.held = Tail(@)]
    /\ UNCHANGED <<durable, link, radio, cloud, left>>

\* A rejection that names the checkpoint asked for ends the session and makes
\* the transfer start over; any other answer is of another identity.
OpenRejected ==
    /\ run.pc = "opening" /\ run.reply.k \in {"resume_reject", "error"} /\ wire.k = "none"
    /\ IF run.reply.k = "resume_reject" /\ run.reply.off = run.rx.off
       THEN /\ run' = [run EXCEPT !.pc = "restart", !.tc = "none", !.ckpt = NoCheckpoint]
            /\ UNCHANGED radio
       ELSE Fail(IF run.reply.k = "error" THEN "rejected" ELSE "identity")
    /\ UNCHANGED <<durable, link, cloud, left>>

\* DeleteCheckpoint, then TruncateSink to nothing, before the new START.
DeleteCheckpoint ==
    /\ run.pc = "restart"
    /\ SaveState(NoCheckpoint, store.evidence)
    /\ Goto("truncate0")
    /\ UNCHANGED <<body, link, radio, cloud, left>>

TruncateAll ==
    /\ run.pc = "truncate0"
    /\ body' = 0 /\ Goto("open")
    /\ UNCHANGED <<store, link, radio, cloud, left>>

-----------------------------------------------------------------------------
(* The receiver: the pump takes the frames in order *)

Next1 == run.pc = "receive" /\ run.queue # <<>>
Took(r) == [r EXCEPT !.queue = Tail(@)]

\* A queue that failed ends the pump once it asks for the next frame.
PumpFails ==
    /\ run.pc = "receive" /\ run.broken # "no"
    /\ Fail(run.broken)
    /\ UNCHANGED <<durable, link, cloud, left>>

ReceiveData ==
    /\ Next1 /\ Head(run.queue).k = "data"
    /\ IF run.miss # {} /\ Head(run.queue).seq \notin run.miss
       THEN Fail("protocol")
       ELSE run' = [Took(run) EXCEPT !.pkts = @ \cup {Head(run.queue).seq}] /\ UNCHANGED radio
    /\ UNCHANGED <<durable, link, cloud, left>>

\* The window must follow what is acknowledged.
Follows(f) ==
    /\ run.rx.seq = -1 \/ f.seq = run.rx.seq + 1
    /\ f.off > run.rx.off
    /\ \A s \in run.pkts : s \in f.seq .. f.last

Missing(f) == (f.seq .. f.last) \ run.pkts

\* A window that does not follow is refused; of one that lacks packets the
\* reducer asks for them.
WindowIncomplete ==
    /\ Next1
    /\ LET f == Head(run.queue) IN
       /\ f.k = "end" /\ (Follows(f) => Missing(f) # {})
       /\ IF Follows(f)
          THEN run' = [Took(run) EXCEPT !.pc = "repair", !.miss = Missing(f)] /\ UNCHANGED radio
          ELSE Fail("protocol")
    /\ UNCHANGED <<durable, link, cloud, left>>

\* The window is whole: its packets are appended to the body, the reducer asks
\* for the checkpoint to be saved.
WindowStaged ==
    /\ Next1
    /\ LET f == Head(run.queue) IN
       /\ f.k = "end" /\ Follows(f) /\ Missing(f) = {} /\ body = run.rx.off
       /\ body' = f.off
       /\ run' = [Took(run) EXCEPT !.pc = "save", !.miss = {},
                                   !.pend = [session |-> run.session, off |-> f.off, seq |-> f.last]]
    /\ UNCHANGED <<store, link, radio, cloud, left>>

\* sendActiveFrame: what the device will send is expected before it is asked.
SendRepair ==
    /\ run.pc = "repair" /\ run.tc = "paused" /\ link = "up"
    /\ wire' = [Nothing EXCEPT !.k = "repair", !.miss = run.miss]
    /\ run' = [run EXCEPT !.pc = "repairing", !.tc = "repair", !.repair = run.miss]
    /\ UNCHANGED <<durable, link, air, dev, cloud, left>>

Repairing ==
    /\ run.pc = "repairing" /\ wire.k = "none"
    /\ Goto("receive")
    /\ UNCHANGED <<durable, link, radio, cloud, left>>

SaveCheckpoint ==
    /\ run.pc = "save"
    /\ SaveState(run.pend, store.evidence)
    /\ run' = [run EXCEPT !.pc = "ack", !.ckpt = run.pend]
    /\ UNCHANGED <<body, link, radio, cloud, left>>

SendAck_Late ==
    /\ run.pc = "ack" /\ run.tc = "paused" /\ link = "up"
    /\ wire' = [Nothing EXCEPT !.k = "ack", !.off = run.pend.off]
    /\ run' = [run EXCEPT !.pc = "acking", !.rx = run.pend, !.pkts = {}]
    /\ UNCHANGED <<durable, link, air, dev, cloud, left>>

SendAck ==
    /\ run.pc = "ack" /\ run.tc = "paused" /\ link = "up"
    /\ wire' = [Nothing EXCEPT !.k = "ack", !.off = run.pend.off]
    /\ run' = [run EXCEPT !.pc = "acking", !.rx = run.pend, !.pkts = {},
                          !.tc = IF run.pend.off = Units THEN "manifest" ELSE "window"]
    /\ UNCHANGED <<durable, link, air, dev, cloud, left>>

\* WindowAcknowledged gives the transfer its request back, then the gate opens.
Acked ==
    /\ run.pc = "acking" /\ wire.k = "none"
    /\ run' = [run EXCEPT !.pc = "receive", !.pend = NoCheckpoint]
    /\ UNCHANGED <<durable, link, radio, cloud, left>>

ReceiveManifest ==
    /\ Next1 /\ Head(run.queue).k = "manifest"
    /\ run' = [Took(run) EXCEPT !.man = TRUE]
    /\ UNCHANGED <<durable, link, radio, cloud, left>>

\* The end of the file: the manifest must be there, length, digest and last
\* sequence must agree.
ReceiveEof ==
    /\ Next1 /\ Head(run.queue).k = "eof"
    /\ IF ~run.man THEN Fail("integrity")
       ELSE IF body = Units /\ run.pkts = {} /\ run.rx.seq = Head(run.queue).seq
       THEN run' = [Took(run) EXCEPT !.pc = "evidence"] /\ UNCHANGED radio
       ELSE Fail("mismatch")
    /\ UNCHANGED <<durable, link, cloud, left>>

-----------------------------------------------------------------------------
(* From the whole ciphertext to the receipt *)

\* The pump saves the evidence; an upload that is completed only needs its
\* receipt again.
Evidence ==
    /\ run.pc = "evidence"
    /\ SaveState(run.ckpt, TRUE)
    /\ Goto(IF run.completed THEN "receipt" ELSE "staged")
    /\ UNCHANGED <<body, link, radio, cloud, left>>

Staged == SavePhase("staged", "staged", "uploading")
Uploading == SavePhase("uploading", "uploading", "put")

Put_Assumes ==
    /\ run.pc = "put"
    /\ cloud' = IF store.phase = "uploading" THEN cloud ELSE [cloud EXCEPT ![run.session].body = body]
    /\ Goto("manifest")
    /\ UNCHANGED <<durable, link, radio, left>>

\* The ciphertext is streamed to the service, unless it says it has it.
Put ==
    /\ run.pc = "put"
    /\ \/ cloud' = [cloud EXCEPT ![run.session].body = body]
       \/ cloud[run.session].body = Units /\ UNCHANGED cloud
    /\ Goto("manifest")
    /\ UNCHANGED <<durable, link, radio, left>>

SubmitManifest ==
    /\ run.pc = "manifest"
    /\ cloud' = [cloud EXCEPT ![run.session].manifest = TRUE]
    /\ Goto("finalize")
    /\ UNCHANGED <<durable, link, radio, left>>

Finalize ==
    /\ run.pc = "finalize"
    /\ cloud' = [cloud EXCEPT ![run.session].completed = TRUE]
    /\ Goto("receipt")
    /\ UNCHANGED <<durable, link, radio, left>>

\* The service gives the receipt of a session it has completed.
Receipt ==
    /\ run.pc = "receipt" /\ cloud[run.session].completed
    /\ Goto("cloud")
    /\ UNCHANGED <<durable, link, radio, cloud, left>>

CloudCompleted == SavePhase("cloud", "cloud_completed", "deliver")

-----------------------------------------------------------------------------
(* The confirmation *)

\* The signed receipt is sent to the device.
DeliverReceipt == StartBlob("deliver", "receipt")

SendConfirm ==
    /\ run.pc = "confirm" /\ link = "up"
    /\ wire' = [Nothing EXCEPT !.k = "confirm"]
    /\ run' = [run EXCEPT !.pc = "confirming", !.tc = "confirming"]
    /\ UNCHANGED <<durable, link, air, dev, cloud, left>>

ConfirmWritten ==
    /\ run.pc = "confirming" /\ wire.k = "none"
    /\ Goto("confirmed")
    /\ UNCHANGED <<durable, link, radio, cloud, left>>

\* The write succeeded: the journal says so, then the session is released.
Confirmed ==
    /\ run.pc = "confirmed" /\ Accepts(store.phase, "confirmed")
    /\ store' = [store EXCEPT !.phase = "confirmed"]
    /\ IF run.lost THEN Settle("error")
       ELSE run' = [run EXCEPT !.pc = "forget", !.phase = "confirmed", !.tc = "none"]
    /\ UNCHANGED <<body, link, radio, cloud, left>>

\* The workflow deletes its checkpoint and completes.
Forget ==
    /\ run.pc = "forget"
    /\ SaveState(NoCheckpoint, store.evidence)
    /\ run' = [run EXCEPT !.pc = "dropBlob", !.then = "ok"]
    /\ UNCHANGED <<body, link, radio, cloud, left>>

-----------------------------------------------------------------------------
(* Cleaning up *)

\* deleteUnverifiedState looks at the journal that is stored.
Reload ==
    /\ run.pc = "reload"
    /\ IF store.phase \in Unverified THEN Goto("dropCheckpoint") ELSE Settle(run.then)
    /\ UNCHANGED <<durable, link, radio, cloud, left>>

DropCheckpoint_Keeps ==
    /\ run.pc = "dropCheckpoint"
    /\ Goto("dropBlob")
    /\ UNCHANGED <<durable, link, radio, cloud, left>>

\* The checkpoint goes before the body it vouches for.
DropCheckpoint ==
    /\ run.pc = "dropCheckpoint"
    /\ SaveState(NoCheckpoint, store.evidence)
    /\ Goto("dropBlob")
    /\ UNCHANGED <<body, link, radio, cloud, left>>

DropBlob ==
    /\ run.pc = "dropBlob"
    /\ body' = 0 /\ Goto("dropOperation")
    /\ UNCHANGED <<store, link, radio, cloud, left>>

DropOperation ==
    /\ run.pc = "dropOperation"
    /\ store' = NoOperation /\ Settle(run.then)
    /\ UNCHANGED <<body, link, radio, cloud, left>>

-----------------------------------------------------------------------------
(* The device *)

WindowEnd(base) == IF base + Window > Units THEN Units ELSE base + Window

\* Packets of a window, then its end.
WindowFrames(base, num, packets) ==
    LET Data == [i \in 1 .. Len(packets) |-> [NoFrame EXCEPT !.k = "data", !.seq = packets[i]]]
    IN Append(Data, [k |-> "end", seq |-> base + 1 - num, last |-> WindowEnd(base) - num,
                     off |-> WindowEnd(base)])

ManifestFrames(num) ==
    << [NoFrame EXCEPT !.k = "manifest"], [NoFrame EXCEPT !.k = "eof", !.seq = Units - num] >>

Frames(base, num) == IF base = Units THEN ManifestFrames(num)
                     ELSE WindowFrames(base, num, [i \in 1 .. WindowEnd(base) - base |-> base + i - num])

Answers(k) == wire.k = k /\ wire' = Nothing

DeviceBuffers ==
    /\ Answers("blob")
    /\ UNCHANGED <<durable, run, link, air, dev, cloud, left>>

DeviceCommits ==
    /\ Answers("commit")
    /\ dev' = [dev EXCEPT !.signed = run.blob]
    /\ UNCHANGED <<durable, run, link, air, cloud, left>>

Result(k) == air' = Append(air, [NoFrame EXCEPT !.k = k, !.seq = dev.signed.id])

\* It verifies and keeps the document, sooner or later.
DeviceVerifies ==
    /\ dev.signed.k # "none"
    /\ dev' = [dev EXCEPT ![dev.signed.k] = dev.signed.session, !.signed = NoBlob]
    /\ Result("signed")
    /\ UNCHANGED <<durable, run, link, wire, cloud, left>>

\* START begins at nothing, if the recording and its authorization are there.
DeviceStarts ==
    /\ Answers("start")
    /\ IF dev.holds /\ dev.auth # 0
       THEN /\ air' = <<[NoFrame EXCEPT !.k = "start_ack"]>> \o Frames(0, 0)
            /\ dev' = [dev EXCEPT !.mode = "open", !.base = 0, !.num = 0, !.acked = 0]
       ELSE air' = <<[NoFrame EXCEPT !.k = "error"]>> /\ UNCHANGED dev
    /\ UNCHANGED <<durable, run, link, cloud, left>>

\* A resumption is a new transfer from the offset asked for: its packets are
\* numbered from 1, and it ends with the number of its last packet.
DeviceAccepts ==
    /\ Answers("resume") /\ dev.holds /\ dev.auth # 0
    /\ air' = <<[NoFrame EXCEPT !.k = "resume_accept", !.off = wire.off]>>
              \o Frames(wire.off, wire.off)
    /\ dev' = [dev EXCEPT !.mode = "open", !.base = wire.off, !.num = wire.off, !.acked = wire.off]
    /\ UNCHANGED <<durable, run, link, cloud, left>>

\* A rejection names the checkpoint of the device.
DeviceRejects ==
    /\ Answers("resume")
    /\ air' = <<IF dev.holds THEN [NoFrame EXCEPT !.k = "resume_reject", !.off = dev.acked]
                ELSE [NoFrame EXCEPT !.k = "error"]>>
    /\ UNCHANGED <<durable, run, link, dev, cloud, left>>

DeviceRepairs ==
    /\ Answers("repair") /\ dev.mode = "open"
    /\ air' = WindowFrames(dev.base, dev.num, SetToSeq(wire.miss))
    /\ UNCHANGED <<durable, run, link, dev, cloud, left>>

DeviceAdvances ==
    /\ Answers("ack") /\ dev.mode = "open"
    /\ air' = Frames(wire.off, dev.num)
    /\ dev' = [dev EXCEPT !.base = wire.off, !.acked = wire.off]
    /\ UNCHANGED <<durable, run, link, cloud, left>>

\* The recording is deleted on the receipt of the session it was sent under.
DeviceConfirms ==
    /\ Answers("confirm")
    /\ dev' = IF dev.receipt = dev.auth THEN [dev EXCEPT !.holds = FALSE] ELSE dev
    /\ UNCHANGED <<durable, run, link, air, cloud, left>>

-----------------------------------------------------------------------------
(* Faults *)

Storing == {"saveOperation", "transferring", "truncate", "restart", "truncate0", "save", "evidence",
            "staged", "uploading", "cloud", "forget"}
Cleaning == {"reload", "dropCheckpoint", "dropBlob", "dropOperation"}
Asking == {"provider", "put", "manifest", "finalize", "receipt"}

StorageFails ==
    /\ Fault /\ run.pc \in Storing
    /\ Fail("error")
    /\ UNCHANGED <<durable, link, cloud>>

\* What a cleanup cannot delete stays.
CleanupFails ==
    /\ Fault /\ run.pc \in Cleaning
    /\ Settle(IF run.then = "ok" THEN "error" ELSE run.then)
    /\ UNCHANGED <<durable, link, radio, cloud>>

\* A window that fails while it is appended leaves some of its packets.
FlushFails ==
    /\ Fault /\ Next1 /\ Head(run.queue).k = "end" /\ Follows(Head(run.queue))
    /\ Missing(Head(run.queue)) = {}
    /\ body' \in body .. Head(run.queue).off
    /\ Fail("error")
    /\ UNCHANGED <<store, link, cloud>>

\* A confirmation that cannot be recorded leaves the ownership uncertain.
ConfirmUncertain ==
    /\ Fault /\ run.pc \in {"confirming", "confirmed"} /\ link = "up"
    /\ link' = "poisoned" /\ Settle("uncertain")
    /\ wire' = Nothing /\ UNCHANGED <<durable, air, dev, cloud>>

\* The device does not take the document.
DeviceRefuses ==
    /\ Fault /\ dev.signed.k # "none"
    /\ dev' = [dev EXCEPT !.signed = NoBlob] /\ Result("refused")
    /\ UNCHANGED <<durable, run, link, wire, cloud>>

\* A write fails, or the result is slower than its timer.
BlobFails ==
    /\ Fault /\ run.pc \in Signing /\ run.result = "none"
    /\ Fail("error")
    /\ UNCHANGED <<durable, link, cloud>>

\* The release of a failed run or of a cancelled one.
Poisons == /\ link' = "poisoned"
           /\ \E error \in {"uncertain", "cancelled"} : run' = Failed(error)
           /\ wire' = Nothing /\ UNCHANGED <<durable, air, dev, cloud>>

\* It ends, and its ABORT or the unsubscription fails or takes too long.
BlobAbortFails == Fault /\ run.pc \in Signing /\ link = "up" /\ Poisons

\* The same of the transfer.
ReleaseFails ==
    /\ Fault /\ link = "up" /\ run.tc # "none"
    /\ run.pc \notin Attempted \cup Signing
    /\ Poisons

ProviderFails ==
    /\ Fault /\ run.pc \in Asking
    /\ \/ UNCHANGED cloud
       \/ run.pc = "put" /\ cloud' = [cloud EXCEPT ![run.session].body = body]
       \/ run.pc = "manifest" /\ cloud' = [cloud EXCEPT ![run.session].manifest = TRUE]
       \/ run.pc = "finalize" /\ cloud' = [cloud EXCEPT ![run.session].completed = TRUE]
    /\ Fail("error")
    /\ UNCHANGED <<durable, link>>

\* The device forgets its session with the link, not its checkpoint. A save of
\* the confirmation that is under way lands.
Disconnected == [dev EXCEPT !.mode = "idle", !.auth = 0, !.receipt = 0, !.signed = NoBlob]

LinkDrops ==
    /\ Fault /\ link # "down" /\ link' = "down"
    /\ wire' = Nothing /\ air' = <<>> /\ dev' = Disconnected
    /\ run' = IF run.pc \in Cleaning \cup {"idle"} THEN run
              ELSE IF run.pc \in {"confirmed", "forget"} THEN [run EXCEPT !.lost = TRUE]
              ELSE Failed("error")
    /\ UNCHANGED <<durable, cloud>>

Connect ==
    /\ link # "up" /\ run.pc = "idle"
    /\ link' = "up" /\ dev' = Disconnected /\ air' = <<>>
    /\ UNCHANGED <<durable, run, wire, cloud, left>>

ReloadPage ==
    /\ Fault
    /\ run' = NoRun /\ link' = "down" /\ wire' = Nothing /\ air' = <<>> /\ dev' = Disconnected
    /\ UNCHANGED <<durable, cloud>>

-----------------------------------------------------------------------------
Init ==
    /\ store = NoOperation /\ body = 0 /\ run = NoRun /\ link = "up"
    /\ wire = Nothing /\ air = <<>>
    /\ dev = [holds |-> TRUE, mode |-> "idle", base |-> 0, num |-> 0, acked |-> 0,
              auth |-> 0, receipt |-> 0, signed |-> NoBlob]
    /\ cloud = [s \in Sessions |-> [body |-> 0, manifest |-> FALSE, completed |-> FALSE]]
    /\ left = [faults |-> MaxFaults, aborts |-> MaxAborts, lost |-> MaxLost, sessions |-> MaxSessions]

Host == \/ Provided \/ SaveOperation \/ Transferring \/ Truncate \/ Authorize
        \/ SendBlob \/ CommitBlob \/ Committed \/ BlobSent \/ BlobTimesOut \/ Open \/ Opened \/ ReplayHeld
        \/ OpenRejected \/ DeleteCheckpoint \/ TruncateAll \/ PumpFails \/ ReceiveData
        \/ WindowIncomplete \/ WindowStaged \/ SendRepair \/ Repairing
        \/ SaveCheckpoint \/ SendAck \/ Acked \/ ReceiveManifest \/ ReceiveEof \/ Evidence
        \/ Staged \/ Uploading \/ Put \/ SubmitManifest \/ Finalize \/ Receipt \/ CloudCompleted
        \/ DeliverReceipt \/ SendConfirm \/ ConfirmWritten \/ Confirmed \/ Forget
        \/ Reload \/ DropCheckpoint \/ DropBlob \/ DropOperation

Device == DeviceStarts \/ DeviceAccepts \/ DeviceRejects \/ DeviceRepairs \/ DeviceAdvances
          \/ DeviceConfirms \/ DeviceBuffers \/ DeviceCommits \/ DeviceVerifies

Faults == StorageFails \/ CleanupFails \/ FlushFails \/ ConfirmUncertain \/ ProviderFails
          \/ LinkDrops \/ ReloadPage \/ Lose \/ DeviceRefuses \/ BlobFails \/ BlobAbortFails
          \/ ReleaseFails

Next == Host \/ Device \/ Deliver \/ DeliverResult \/ Faults \/ Sync \/ Resume \/ Cancel \/ Replaced \/ Connect

Spec == Init /\ [][Next]_vars

\* The page and the device run, the service answers, notifications arrive.
LiveSpec == Spec /\ WF_vars(Host) /\ WF_vars(Device) /\ WF_vars(Deliver) /\ WF_vars(DeliverResult)

-----------------------------------------------------------------------------
(* Properties *)

\* The device deletes a recording only when the service holds all of its
\* ciphertext and its manifest in one session it has completed.
Custody ==
    dev.holds \/ \E s \in Sessions : /\ cloud[s].completed /\ cloud[s].manifest
                                     /\ cloud[s].body = Units

\* What is resumed is there: a stored checkpoint is of the stored session and
\* never ahead of the ciphertext that survives a reload.
CheckpointBacked ==
    store.phase \notin {"absent", "confirmed"} /\ store.ckpt # NoCheckpoint
        => store.ckpt.session = store.session /\ store.ckpt.off <= body

\* In a transfer that begins with START host and device never disagree on what
\* is sent next: with every order of the notifications and every loss but that
\* of a repair.
FreshAgrees ==
    dev.num = 0 => run.then \notin {"protocol", "mismatch"} /\ run.broken # "protocol"

\* What may end a call that nothing interrupts early: the loss of a notification
\* that is not sent again, the resumption of a checkpoint, a journal that is
\* resumed in its first phase.
Unrepaired == run.then \in {"lossy", "integrity", "timeout"}
Resumption == dev.num # 0 \/ run.then = "identity"
StillPrepared == run.then = "refused" /\ store.phase = "prepared"

\* Every call of the application ends; one that no fault and no cancellation
\* interrupts ends with the recording released, whatever the calls before left.
RunsEnd ==
    /\ run.pc # "idle" ~> run.pc = "idle"
    /\ run.pc = "provider" /\ left.faults + left.aborts = 0
           ~> run.pc = "idle" /\ (~dev.holds \/ Unrepaired \/ Resumption \/ StillPrepared)
=============================================================================
