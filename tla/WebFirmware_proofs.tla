------------------------- MODULE WebFirmware_proofs -------------------------
(***************************************************************************)
(* Proofs about WebFirmware, for every number of chunks, every window and  *)
(* modulus, every number of faults, cancellations and lost notifications:  *)
(* a checkpoint is backed by a verified image and by what the device has   *)
(* accepted, and the device is sent no other image.                        *)
(***************************************************************************)
EXTENDS WebFirmware, SequenceTheorems, TLAPS

-----------------------------------------------------------------------------
(* Types *)

Late == {"Subscribing", "Starting", "AwaitingReady", "ReadingChunk", "WritingChunk", "WaitingAck",
         "Verifying", "AwaitingVerify", "AwaitingReboot", "Reconnecting", "WaitingRetry",
         "ReadingVersion", "Completed"}
Phases == {"none", "LoadingCheckpoint", "Downloading", "Failed"} \cup Late

\* Effects of an image that has been verified, and the others.
LateEffects == {"saveTransferring", "saveReconnecting", "subscribe", "read", "connect", "version"} \cup Writes
Effects == {"load", "download", "unsubscribe", "failed", "deleteCheckpoint", "completed"} \cup LateEffects

Ends == {"none", "disconnected", "cancelled", "rejected", "integrity", "error", "ok"}

Runs == [pc : {"idle", "saveJournal", "running", "hostCancel", "dropBlob", "cleanup", "cleanBlob", "cleanJournal"},
         why : Ends, dl : {"none", "body", "save"}, busy : BOOLEAN]

Workflows == [phase : Phases, off : Nat, seq : Nat, ack : Int, wait : Int, ready : BOOLEAN,
              verified : BOOLEAN, timer : {"none", "ack", "response", "reboot", "retry"},
              deadline : BOOLEAN, sub : BOOLEAN]

Notifications == [k : {"ready", "ack", "verified", "refused", "mismatch"}, seq : Nat]

Devices == [file : Nat, ok : BOOLEAN, open : BOOLEAN, acked : Nat, accepted : BOOLEAN,
            version : {"old", "new"}]

Budgets == [faults : Nat, aborts : Nat, lost : Nat, drops : Nat, updates : Nat]

\* The types of what is stored, of the call, the workflow, the radio and the device.
TypeOK ==
    /\ journal \in [state : {"absent", "active", "cleanup_only"}, verified : BOOLEAN]
    /\ ckpt \in {"none", "transferring", "reconnecting"}
    /\ blob \in [n : Nat, ok : BOOLEAN]
    /\ run \in Runs /\ wf \in Workflows /\ fx \in Seq(Effects) /\ link \in BOOLEAN
    /\ wire \in Seq([k : Writes, seq : Nat, ok : BOOLEAN]) /\ air \in Seq(Notifications)
    /\ dev \in Devices /\ left \in Budgets

-----------------------------------------------------------------------------
(* The inductive invariant *)

\* The device has accepted the image, which it keeps over its restart.
Done == dev.accepted \/ dev.version = "new"

\* The device is sent an image only when it is verified, and says so itself.
OnAir ==
    /\ \A i \in DOMAIN wire : wire[i].k # "start" => wire[i].ok
    /\ \A i \in DOMAIN air : air[i].k = "verified" => Done

\* A checkpoint is backed by the journal and the device, and is gone before the
\* journal is replaced.
Backed ==
    /\ ckpt # "none" => journal.verified
    /\ ckpt = "reconnecting" => Done
    /\ run.pc \in {"saveJournal", "cleanBlob", "cleanJournal"} => ckpt = "none"

\* The image of a verified journal is never a wrong one, and whole while a workflow
\* runs; only a download that is under way writes to it.
Image ==
    /\ journal.verified => blob.ok
    /\ Running /\ journal.verified => Whole
    /\ run.dl # "none" => Running /\ fx # <<>> /\ Head(fx) = "download"
    /\ run.dl = "body" => ~journal.verified
    /\ run.dl = "save" => Whole

\* What a workflow with answers v and d to "is the image verified" and "has the device
\* accepted it" may have reached and asked for.
Entitled(w, s, v, d) ==
    /\ w.phase \in Late => v
    /\ \A i \in DOMAIN s : s[i] \in LateEffects => v
    /\ \A i \in DOMAIN s : s[i] = "saveReconnecting" => d
    /\ w.phase = "AwaitingReboot" \/ w.verified => d

IInv == /\ TypeOK /\ OnAir /\ Backed /\ Image
        /\ Running => Entitled(wf, fx, journal.verified, Done)
-----------------------------------------------------------------------------
(* Sequences *)

LEMMA Tails ==
    ASSUME NEW S, NEW s \in Seq(S), s # <<>>
    PROVE  /\ Head(s) = s[1] /\ Head(s) \in S /\ 1 \in DOMAIN s /\ Tail(s) \in Seq(S)
           /\ \A i \in DOMAIN Tail(s) : i + 1 \in DOMAIN s /\ Tail(s)[i] = s[i + 1]
  OBVIOUS

LEMMA Joins ==
    ASSUME NEW S, NEW s \in Seq(S), NEW t \in Seq(S)
    PROVE  /\ s \o t \in Seq(S)
           /\ \A i \in DOMAIN (s \o t) :
                 \/ i \in DOMAIN s /\ (s \o t)[i] = s[i]
                 \/ i - Len(s) \in DOMAIN t /\ (s \o t)[i] = t[i - Len(s)]
           /\ s # <<>> => s \o t # <<>> /\ Head(s \o t) = Head(s)
  OBVIOUS

LEMMA Appends ==
    ASSUME NEW S, NEW s \in Seq(S), NEW e \in S
    PROVE  /\ Append(s, e) \in Seq(S)
           /\ \A i \in DOMAIN Append(s, e) : (i \in DOMAIN s /\ Append(s, e)[i] = s[i]) \/ Append(s, e)[i] = e
  OBVIOUS

\* What a workflow is entitled to is not lost with the first effect, nor when it is
\* asked for more.
LEMMA EntitledTail ==
    ASSUME NEW w, NEW s \in Seq(Effects), s # <<>>, NEW v, NEW d, Entitled(w, s, v, d)
    PROVE  Entitled(w, Tail(s), v, d)
BY Tails DEF Entitled

LEMMA EntitledJoin ==
    ASSUME NEW w, NEW s \in Seq(Effects), NEW u, NEW t \in Seq(Effects), NEW v, NEW d,
           Entitled(w, s, v, d), Entitled(u, t, v, d)
    PROVE  Entitled(u, s \o t, v, d)
<1>1. \A i \in DOMAIN (s \o t) :
         \/ i \in DOMAIN s /\ (s \o t)[i] = s[i]
         \/ i - Len(s) \in DOMAIN t /\ (s \o t)[i] = t[i - Len(s)]
  BY Joins
<1>. QED
  BY <1>1 DEF Entitled

-----------------------------------------------------------------------------
(* The reducer: no handler reaches or asks for what the workflow is not entitled to *)

Good(r, v, d) == r.wf \in Workflows /\ r.fx \in Seq(Effects) /\ Entitled(r.wf, r.fx, v, d)

Holds(w, v, d) == (w.phase \in Late => v) /\ (w.phase = "AwaitingReboot" \/ w.verified => d)
Asks(e, v, d) == e \in Effects /\ (e \in LateEffects => v) /\ (e = "saveReconnecting" => d)

LEMMA Answering ==
    ASSUME NEW w \in Workflows, NEW v, NEW d, Holds(w, v, d)
    PROVE  /\ Good(Answer(w, <<>>), v, d)
           /\ \A e : Asks(e, v, d) => Good(Answer(w, <<e>>), v, d)
           /\ \A e, f : Asks(e, v, d) /\ Asks(f, v, d) => Good(Answer(w, <<e, f>>), v, d)
<1>0. \A s : Answer(w, s).wf = w /\ Answer(w, s).fx = s
  BY DEF Answer
<1>1. Good(Answer(w, <<>>), v, d)
  <2>1. <<>> \in Seq(Effects) /\ DOMAIN <<>> = {}
    OBVIOUS
  <2>2. Entitled(w, <<>>, v, d)
    BY <2>1 DEF Entitled, Holds
  <2>. QED
    BY <1>0, <2>1, <2>2 DEF Good
<1>2. ASSUME NEW e, Asks(e, v, d) PROVE Good(Answer(w, <<e>>), v, d)
  <2>1. <<e>> \in Seq(Effects) /\ \A i \in DOMAIN <<e>> : <<e>>[i] = e
    BY <1>2 DEF Asks
  <2>2. Entitled(w, <<e>>, v, d)
    BY <1>2, <2>1 DEF Entitled, Holds, Asks
  <2>. QED
    BY <1>0, <2>1, <2>2 DEF Good
<1>3. ASSUME NEW e, NEW f, Asks(e, v, d), Asks(f, v, d) PROVE Good(Answer(w, <<e, f>>), v, d)
  <2>1. <<e, f>> \in Seq(Effects) /\ \A i \in DOMAIN <<e, f>> : <<e, f>>[i] \in {e, f}
    BY <1>3 DEF Asks
  <2>2. Entitled(w, <<e, f>>, v, d)
    BY <1>3, <2>1 DEF Entitled, Holds, Asks
  <2>. QED
    BY <1>0, <2>1, <2>2 DEF Good
<1>. QED
  BY <1>1, <1>2, <1>3

\* Something that is asked for before an answer.
LEMMA Before ==
    ASSUME NEW r, NEW v, NEW d, Good(r, v, d), NEW e, Asks(e, v, d)
    PROVE  Good(Answer(r.wf, <<e>> \o r.fx), v, d)
<1>1. Holds(r.wf, v, d) /\ r.wf \in Workflows
  BY DEF Good, Entitled, Holds
<1>2. Good(Answer(r.wf, <<e>>), v, d) /\ Answer(r.wf, <<e>>).fx = <<e>> /\ Answer(r.wf, <<e>>).wf = r.wf
  BY <1>1, Answering DEF Answer
<1>3. <<e>> \o r.fx \in Seq(Effects) /\ Entitled(r.wf, <<e>> \o r.fx, v, d)
  BY <1>2, EntitledJoin, Joins DEF Good
<1>. QED
  BY <1>1, <1>3 DEF Good, Answer

\* Phases that change and a flag of the device.
LEMMA Moves ==
    ASSUME NEW w \in Workflows, NEW v, NEW d, Holds(w, v, d), NEW p \in Phases, p \in Late => v,
           p = "AwaitingReboot" => d
    PROVE  LET u == [w EXCEPT !.phase = p] IN u \in Workflows /\ Holds(u, v, d)
BY DEF Workflows, Holds

LEMMA Failing ==
    ASSUME NEW w \in Workflows, NEW v, NEW d, Holds(w, v, d)
    PROVE  Good(Fail(w), v, d) /\ Fail(w).wf.phase = "Failed"
<1> DEFINE u == [w EXCEPT !.phase = "Failed", !.timer = "none", !.deadline = FALSE, !.sub = FALSE]
<1>1. u \in Workflows /\ Holds(u, v, d) /\ u.phase = "Failed"
  BY DEF Workflows, Holds, Phases, Late
<1>2. Asks("unsubscribe", v, d) /\ Asks("failed", v, d)
  BY DEF Asks, Effects, LateEffects, Writes
<1>3. Good(Answer(u, <<"unsubscribe", "failed">>), v, d)
  BY <1>1, <1>2, Answering
<1>. QED
  BY <1>1, <1>3 DEF Fail, Answer

\* The handlers of an image that is verified.
LEMMA Transfers ==
    ASSUME NEW w \in Workflows, NEW d, Holds(w, TRUE, d)
    PROVE  /\ Good(Subscribe(w), TRUE, d) /\ Good(WriteStart(w), TRUE, d)
           /\ Good(ReadNextOrVerify(w), TRUE, d) /\ Good(BeginTransfer(w), TRUE, d)
           /\ Good(WriteChunk(w), TRUE, d) /\ Good(StartReconnectAttempt(w), TRUE, d)
           /\ d => Good(BeginReboot(w), TRUE, d) /\ Good(BeginReconnect(w), TRUE, d)
<1>1. ASSUME NEW e \in {"subscribe", "start", "verify", "read", "data", "connect"} PROVE Asks(e, TRUE, d)
  BY DEF Asks, Effects, LateEffects, Writes
<1>2. ASSUME NEW u \in Workflows, Holds(u, TRUE, d) PROVE Good(ReadNextOrVerify(u), TRUE, d)
  <2>1. CASE u.off >= Chunks
    <3>1. LET x == [u EXCEPT !.phase = "Verifying", !.verified = FALSE, !.timer = "none"]
          IN x \in Workflows /\ Holds(x, TRUE, d)
      BY <1>2 DEF Workflows, Holds, Phases, Late
    <3>. QED
      BY <1>1, <2>1, <3>1, Answering DEF ReadNextOrVerify
  <2>2. CASE ~(u.off >= Chunks)
    <3>1. LET x == [u EXCEPT !.phase = "ReadingChunk", !.timer = "none"]
          IN x \in Workflows /\ Holds(x, TRUE, d)
      BY <1>2 DEF Workflows, Holds, Phases, Late
    <3>. QED
      BY <1>1, <2>2, <3>1, Answering DEF ReadNextOrVerify
  <2>. QED
    BY <2>1, <2>2
<1>3. Good(Subscribe(w), TRUE, d)
  <2>1. LET x == [w EXCEPT !.phase = "Subscribing", !.sub = TRUE] IN x \in Workflows /\ Holds(x, TRUE, d)
    BY DEF Workflows, Holds, Phases, Late
  <2>. QED
    BY <1>1, <2>1, Answering DEF Subscribe
<1>4. Good(WriteStart(w), TRUE, d)
  <2>1. LET x == [w EXCEPT !.phase = "Starting", !.ready = FALSE] IN x \in Workflows /\ Holds(x, TRUE, d)
    BY DEF Workflows, Holds, Phases, Late
  <2>. QED
    BY <1>1, <2>1, Answering DEF WriteStart
<1>5. Good(BeginTransfer(w), TRUE, d)
  <2>1. \A n \in Nat, i \in Int :
           LET x == [w EXCEPT !.off = n, !.seq = n, !.ack = i, !.wait = i] IN x \in Workflows /\ Holds(x, TRUE, d)
    BY DEF Workflows, Holds
  <2>2. 0 \in Nat /\ -1 \in Int
    OBVIOUS
  <2>. QED
    BY <1>2, <2>1, <2>2 DEF BeginTransfer
<1>6. Good(WriteChunk(w), TRUE, d)
  <2>1. LET x == [w EXCEPT !.phase = "WritingChunk"] IN x \in Workflows /\ Holds(x, TRUE, d)
    BY DEF Workflows, Holds, Phases, Late
  <2>. QED
    BY <1>1, <2>1, Answering DEF WriteChunk
<1>7. ASSUME NEW u \in Workflows, Holds(u, TRUE, d) PROVE Good(StartReconnectAttempt(u), TRUE, d)
  <2>1. LET x == [u EXCEPT !.phase = "Reconnecting", !.timer = "none"] IN x \in Workflows /\ Holds(x, TRUE, d)
    BY <1>7 DEF Workflows, Holds, Phases, Late
  <2>. QED
    BY <1>1, <2>1, Answering DEF StartReconnectAttempt
<1>8. d => Good(BeginReboot(w), TRUE, d)
  <2>1. d => LET x == [w EXCEPT !.phase = "AwaitingReboot", !.timer = "reboot"] IN x \in Workflows /\ Holds(x, TRUE, d)
    BY DEF Workflows, Holds, Phases, Late
  <2>. QED
    BY <2>1, Answering DEF BeginReboot
<1>9. d => Good(BeginReconnect(w), TRUE, d)
  <2>1. LET x == [w EXCEPT !.deadline = TRUE, !.sub = FALSE] IN x \in Workflows /\ Holds(x, TRUE, d)
    BY DEF Workflows, Holds
  <2>2. d => Asks("saveReconnecting", TRUE, d)
    BY DEF Asks, Effects, LateEffects
  <2>. QED
    BY <1>7, <2>1, <2>2, Before DEF BeginReconnect
<1>. QED
  BY <1>2, <1>3, <1>4, <1>5, <1>6, <1>7, <1>8, <1>9

\* A chunk is written.
LEMMA Writing ==
    ASSUME NEW w \in Workflows, NEW d, Holds(w, TRUE, d)
    PROVE  Good(ChunkWritten(w), TRUE, d)
<1> DEFINE n == [w EXCEPT !.seq = (w.seq + 1) % SeqMod, !.off = @ + 1]
<1> DEFINE r == IF n.seq % AckWindow # 0 \/ w.ack = w.seq THEN ReadNextOrVerify(n)
                ELSE Answer([n EXCEPT !.phase = "WaitingAck", !.wait = w.seq, !.timer = "ack"], <<>>)
<1>1. n \in Workflows /\ Holds(n, TRUE, d)
  <2>1. (w.seq + 1) % SeqMod \in Nat /\ w.off + 1 \in Nat
    BY FirmwareAssumption DEF Workflows
  <2>2. \A x, y \in Nat : LET u == [w EXCEPT !.seq = x, !.off = y] IN u \in Workflows /\ Holds(u, TRUE, d)
    BY DEF Workflows, Holds
  <2>. QED
    BY <2>1, <2>2
<1>2. LET x == [n EXCEPT !.phase = "WaitingAck", !.wait = w.seq, !.timer = "ack"]
      IN x \in Workflows /\ Holds(x, TRUE, d)
  <2>1. w.seq \in Int
    BY DEF Workflows
  <2>. HIDE DEF n
  <2>. QED
    BY <1>1, <2>1 DEF Workflows, Holds, Phases, Late
<1>3. Good(r, TRUE, d)
  <2>. HIDE DEF n
  <2>. QED
    BY <1>1, <1>2, Transfers, Answering
<1>4. Asks("saveTransferring", TRUE, d)
  BY DEF Asks, Effects, LateEffects
<1>5. ChunkWritten(w) = Answer(r.wf, <<"saveTransferring">> \o r.fx)
  BY DEF ChunkWritten
<1>. HIDE DEF r
<1>. QED
  BY <1>3, <1>4, <1>5, Before

\* The writes before the first chunk and after the last.
LEMMA Written ==
    ASSUME NEW w \in Workflows, NEW d, Holds(w, TRUE, d)
    PROVE  Good(StartWritten(w), TRUE, d) /\ Good(VerifyWritten(w), TRUE, d)
<1>1. \A p \in {"AwaitingReady", "AwaitingVerify"} :
         LET x == [w EXCEPT !.phase = p, !.timer = "response"] IN x \in Workflows /\ Holds(x, TRUE, d)
  BY DEF Workflows, Holds, Phases, Late
<1>2. w.verified => d
  BY DEF Holds
<1>. QED
  BY <1>1, <1>2, Transfers, Answering DEF StartWritten, VerifyWritten

\* A notification is dispatched to the workflow that subscribed.
LEMMA Notified ==
    ASSUME NEW w \in Workflows, NEW v \in BOOLEAN, NEW d, Holds(w, v, d), NEW n \in Notifications,
           n.k = "verified" => d
    PROVE  Good(StatusNotified(w, n), v, d)
<1>0. w.phase \in Late => v
  BY DEF Holds
<1>1. CASE n.k = "ready" /\ w.phase = "Starting"
  <2>1. LET x == [w EXCEPT !.ready = TRUE] IN x \in Workflows /\ Holds(x, v, d)
    BY DEF Workflows, Holds
  <2>2. StatusNotified(w, n) = Answer([w EXCEPT !.ready = TRUE], <<>>)
    BY <1>1 DEF StatusNotified
  <2>. QED
    BY <2>1, <2>2, Answering
<1>2. CASE n.k = "ready" /\ w.phase = "AwaitingReady"
  <2>1. v = TRUE /\ StatusNotified(w, n) = BeginTransfer(w)
    BY <1>0, <1>2 DEF StatusNotified, Late
  <2>. QED
    BY <2>1, Transfers
<1>3. CASE n.k = "ack"
  <2> DEFINE a == [w EXCEPT !.ack = n.seq]
  <2>1. a \in Workflows /\ Holds(a, v, d) /\ a.phase = w.phase
    BY DEF Workflows, Holds, Notifications
  <2>2. CASE w.phase = "WaitingAck" /\ w.wait = n.seq
    <3>1. v = TRUE /\ StatusNotified(w, n) = ReadNextOrVerify([a EXCEPT !.wait = -1])
      BY <1>0, <1>3, <2>2 DEF StatusNotified, Late
    <3>2. LET x == [a EXCEPT !.wait = -1] IN x \in Workflows /\ Holds(x, v, d)
      <4>. HIDE DEF a
      <4>. QED
        BY <2>1 DEF Workflows, Holds
    <3>. HIDE DEF a
    <3>. QED
      BY <3>1, <3>2, Transfers
  <2>3. CASE ~(w.phase = "WaitingAck" /\ w.wait = n.seq)
    <3>1. StatusNotified(w, n) = Answer(a, <<>>)
      BY <1>3, <2>3 DEF StatusNotified
    <3>. HIDE DEF a
    <3>. QED
      BY <2>1, <3>1, Answering
  <2>. QED
    BY <2>2, <2>3
<1>4. CASE n.k = "verified" /\ w.phase = "Verifying"
  <2>1. LET x == [w EXCEPT !.verified = TRUE] IN x \in Workflows /\ Holds(x, v, d)
    BY <1>4 DEF Workflows, Holds
  <2>2. StatusNotified(w, n) = Answer([w EXCEPT !.verified = TRUE], <<>>)
    BY <1>4 DEF StatusNotified
  <2>. QED
    BY <2>1, <2>2, Answering
<1>5. CASE n.k = "verified" /\ w.phase = "AwaitingVerify"
  <2>1. v = TRUE /\ StatusNotified(w, n) = BeginReboot(w)
    BY <1>0, <1>5 DEF StatusNotified, Late
  <2>. QED
    BY <1>5, <2>1, Transfers
<1>6. CASE n.k \in {"refused", "mismatch"}
  <2>1. StatusNotified(w, n) = Fail(w)
    BY <1>6 DEF StatusNotified
  <2>. QED
    BY <2>1, Failing
<1>7. CASE /\ n.k \in {"ready", "verified"}
           /\ n.k = "ready" => w.phase \notin {"Starting", "AwaitingReady"}
           /\ n.k = "verified" => w.phase \notin {"Verifying", "AwaitingVerify"}
  <2>1. StatusNotified(w, n) = Answer(w, <<>>)
    BY <1>7 DEF StatusNotified
  <2>. QED
    BY <2>1, Answering
<1>. QED
  BY <1>1, <1>2, <1>3, <1>4, <1>5, <1>6, <1>7 DEF Notifications

\* The loss of the link, the reconnection and the timers.
LEMMA Reconnects ==
    ASSUME NEW w \in Workflows, NEW v \in BOOLEAN, NEW d, Holds(w, v, d)
    PROVE  /\ Good(Disconnected(w), v, d) /\ Good(TimerFired(w), v, d)
           /\ v => Good(ReconnectAttempted(w, TRUE), v, d) /\ Good(ReconnectAttempted(w, FALSE), v, d)
           /\ v => Good(VersionRead(w), v, d)
<1>0. w.phase \in Late => v
  BY DEF Holds
<1>1. Good(Disconnected(w), v, d)
  <2>1. CASE w.phase = "AwaitingReboot"
    <3> DEFINE x == [w EXCEPT !.timer = "none"]
    <3>1. v = TRUE /\ d /\ x \in Workflows /\ Holds(x, v, d)
      BY <1>0, <2>1 DEF Workflows, Holds, Late
    <3>2. Disconnected(w) = Answer(BeginReconnect(x).wf, <<"unsubscribe">> \o BeginReconnect(x).fx)
      BY <2>1 DEF Disconnected
    <3>3. Asks("unsubscribe", v, d)
      BY DEF Asks, Effects, LateEffects, Writes
    <3>. HIDE DEF x
    <3>. QED
      BY <3>1, <3>2, <3>3, Transfers, Before
  <2>2. CASE w.phase \in {"Reconnecting", "WaitingRetry"}
    <3>1. Disconnected(w) = Answer(w, <<>>)
      BY <2>2 DEF Disconnected
    <3>. QED
      BY <3>1, Answering
  <2>3. CASE w.phase \notin {"AwaitingReboot", "Reconnecting", "WaitingRetry"}
    <3>1. Disconnected(w) = Fail(w)
      BY <2>3 DEF Disconnected
    <3>. QED
      BY <3>1, Failing
  <2>. QED
    BY <2>1, <2>2, <2>3
<1>2. Good(TimerFired(w), v, d)
  <2>1. CASE w.phase = "WaitingRetry"
    <3>1. v = TRUE /\ TimerFired(w) = StartReconnectAttempt(w)
      BY <1>0, <2>1 DEF TimerFired, Late
    <3>. QED
      BY <3>1, Transfers
  <2>2. CASE w.phase # "WaitingRetry"
    BY <2>2, Failing DEF TimerFired
  <2>. QED
    BY <2>1, <2>2
<1>3. v => Good(ReconnectAttempted(w, TRUE), v, d)
  <2>1. v => LET x == [w EXCEPT !.phase = "ReadingVersion", !.deadline = FALSE] IN x \in Workflows /\ Holds(x, v, d)
    BY DEF Workflows, Holds, Phases, Late
  <2>2. v => Asks("version", v, d)
    BY DEF Asks, Effects, LateEffects
  <2>. QED
    BY <2>1, <2>2, Answering DEF ReconnectAttempted
<1>4. v => Good(ReconnectAttempted(w, FALSE), v, d)
  <2>1. v => LET x == [w EXCEPT !.phase = "WaitingRetry", !.timer = "retry"] IN x \in Workflows /\ Holds(x, v, d)
    BY DEF Workflows, Holds, Phases, Late
  <2>. QED
    BY <2>1, Answering DEF ReconnectAttempted
<1>5. v => Good(VersionRead(w), v, d)
  <2>1. v => LET x == [w EXCEPT !.phase = "Completed"] IN x \in Workflows /\ Holds(x, v, d)
    BY DEF Workflows, Holds, Phases, Late
  <2>2. v => Asks("deleteCheckpoint", v, d) /\ Asks("completed", v, d)
    BY DEF Asks, Effects
  <2>. QED
    BY <2>1, <2>2, Answering, Failing DEF VersionRead
<1>. QED
  BY <1>1, <1>2, <1>3, <1>4, <1>5

\* What a stored checkpoint leads to.
LEMMA Loads ==
    ASSUME NEW w \in Workflows, NEW v \in BOOLEAN, NEW d, Holds(w, v, d),
           ckpt # "none" => v, ckpt = "reconnecting" => d
    PROVE  Good(CheckpointLoaded(w), v, d)
<1>1. CASE ckpt = "reconnecting"
  <2>1. v = TRUE /\ d /\ CheckpointLoaded(w) = BeginReconnect(w)
    BY <1>1 DEF CheckpointLoaded
  <2>. QED
    BY <2>1, Transfers
<1>2. CASE ckpt = "transferring"
  <2>1. v = TRUE /\ CheckpointLoaded(w) = Subscribe(w)
    BY <1>2 DEF CheckpointLoaded
  <2>. QED
    BY <2>1, Transfers
<1>3. CASE ckpt \notin {"reconnecting", "transferring"}
  <2>1. LET x == [w EXCEPT !.phase = "Downloading"] IN x \in Workflows /\ Holds(x, v, d)
    BY DEF Workflows, Holds, Phases, Late
  <2>2. Asks("download", v, d)
    BY DEF Asks, Effects, LateEffects, Writes
  <2>3. CheckpointLoaded(w) = BeginDownload(w)
    BY <1>3 DEF CheckpointLoaded
  <2>. QED
    BY <2>1, <2>2, <2>3, Answering DEF BeginDownload
<1>. QED
  BY <1>1, <1>2, <1>3

-----------------------------------------------------------------------------
(* What a step has to show *)

\* The first effect has settled, or something was dispatched beside it.
LEMMA Settling ==
    ASSUME TypeOK, fx # <<>>, NEW v, NEW d, Entitled(wf, fx, v, d), NEW r, Settled(r),
           wf.phase \notin Terminal => Good(r, v, d)
    PROVE  wf' \in Workflows /\ fx' \in Seq(Effects) /\ Entitled(wf', fx', v, d)
<1>1. wf \in Workflows /\ fx \in Seq(Effects) /\ Tail(fx) \in Seq(Effects) /\ Entitled(wf, Tail(fx), v, d)
  BY EntitledTail, Tails DEF TypeOK
<1>2. CASE wf.phase \in Terminal
  BY <1>1, <1>2 DEF Settled
<1>3. CASE wf.phase \notin Terminal
  <2>1. wf' = r.wf /\ fx' = Tail(fx) \o r.fx
    BY <1>3 DEF Settled
  <2>2. r.wf \in Workflows /\ r.fx \in Seq(Effects) /\ Entitled(r.wf, r.fx, v, d)
    BY <1>3 DEF Good
  <2>3. Entitled(r.wf, Tail(fx) \o r.fx, v, d)
    BY <1>1, <2>2, EntitledJoin
  <2>4. Tail(fx) \o r.fx \in Seq(Effects)
    BY <1>1, <2>2, Joins
  <2>. QED
    BY <2>1, <2>2, <2>3, <2>4
<1>. QED
  BY <1>2, <1>3

LEMMA Dispatching ==
    ASSUME TypeOK, NEW v, NEW d, Entitled(wf, fx, v, d), NEW r, Dispatched(r), Good(r, v, d)
    PROVE  /\ wf' \in Workflows /\ fx' \in Seq(Effects) /\ Entitled(wf', fx', v, d)
           /\ fx # <<>> => fx' # <<>> /\ Head(fx') = Head(fx)
<1>1. wf \in Workflows /\ fx \in Seq(Effects)
  BY DEF TypeOK
<1>2. CASE wf.phase \in Terminal
  BY <1>1, <1>2 DEF Dispatched
<1>3. CASE wf.phase \notin Terminal
  <2>1. wf' = r.wf /\ fx' = fx \o r.fx
    BY <1>3 DEF Dispatched
  <2>2. r.wf \in Workflows /\ r.fx \in Seq(Effects) /\ Entitled(r.wf, r.fx, v, d)
    BY DEF Good
  <2>3. Entitled(r.wf, fx \o r.fx, v, d)
    BY <1>1, <2>2, EntitledJoin
  <2>4. fx \o r.fx \in Seq(Effects) /\ (fx # <<>> => fx \o r.fx # <<>> /\ Head(fx \o r.fx) = Head(fx))
    BY <1>1, <2>2, Joins
  <2>. QED
    BY <2>1, <2>2, <2>3, <2>4
<1>. QED
  BY <1>2, <1>3

\* The first effect of a workflow that runs, which is no download.
LEMMA Running1 ==
    ASSUME IInv, Running
    PROVE  /\ TypeOK /\ wf \in Workflows /\ fx \in Seq(Effects) /\ run \in Runs
           /\ journal.verified \in BOOLEAN /\ Holds(wf, journal.verified, Done)
           /\ Entitled(wf, fx, journal.verified, Done)
           /\ fx # <<>> => /\ Head(fx) \in LateEffects => journal.verified = TRUE
                           /\ Head(fx) = "saveReconnecting" => Done
                           /\ Head(fx) # "download" => run.dl = "none"
<1>1. /\ TypeOK /\ wf \in Workflows /\ fx \in Seq(Effects) /\ run \in Runs /\ journal.verified \in BOOLEAN
      /\ Entitled(wf, fx, journal.verified, Done)
  BY DEF IInv, TypeOK
<1>2. fx # <<>> => Head(fx) = fx[1] /\ 1 \in DOMAIN fx
  BY <1>1, Tails
<1>. QED
  BY <1>1, <1>2 DEF IInv, Image, Entitled, Holds

\* A workflow goes on running.
LEMMA Runs1 ==
    ASSUME IInv, Running, Running', TypeOK', OnAir', Backed', UNCHANGED <<journal, blob>>,
           run'.dl = "none" \/ (run'.dl = run.dl /\ fx' # <<>> /\ Head(fx') = "download"),
           Entitled(wf', fx', journal.verified, Done')
    PROVE  IInv'
<1>1. Image'
  BY DEF IInv, Image, Whole
<1>. QED
  BY <1>1 DEF IInv

\* A call without a workflow that runs.
LEMMA Stops ==
    ASSUME TypeOK', ~Running', run'.dl = "none", OnAir', Backed', journal'.verified => blob'.ok
    PROVE  IInv'
<1>1. Image'
  BY DEF Image
<1>. QED
  BY <1>1 DEF IInv

LEMMA NoRunTyped ==
    ASSUME NEW why \in Ends
    PROVE  /\ NoWorkflow \in Workflows /\ <<>> \in Seq(Effects)
           /\ NoRun \in Runs /\ NoRun.pc = "idle" /\ NoRun.dl = "none"
           /\ \A pc \in {"saveJournal", "running", "cleanup"} :
                 LET r == [NoRun EXCEPT !.pc = pc] IN r \in Runs /\ r.pc = pc /\ r.dl = "none"
           /\ LET r == [NoRun EXCEPT !.pc = "hostCancel", !.why = why]
              IN r \in Runs /\ r.pc = "hostCancel" /\ r.dl = "none"
           /\ LET r == [NoRun EXCEPT !.why = why] IN r \in Runs /\ r.pc = "idle" /\ r.dl = "none"
<1>1. NoRun \in Runs /\ NoRun.pc = "idle" /\ NoRun.dl = "none"
  BY DEF NoRun, Runs, Ends
<1>2. NoWorkflow \in Workflows
  <2>1. -1 \in Int /\ 0 \in Nat
    OBVIOUS
  <2>. QED
    BY <2>1 DEF NoWorkflow, Workflows, Phases
<1>3. <<>> \in Seq(Effects)
  OBVIOUS
<1>. QED
  BY <1>1, <1>2, <1>3 DEF Runs

\* A workflow that begins loads its checkpoint.
LEMMA Starting ==
    ASSUME NEW v, NEW d
    PROVE  LET w == [NoWorkflow EXCEPT !.phase = "LoadingCheckpoint"] IN
           w \in Workflows /\ <<"load">> \in Seq(Effects) /\ Entitled(w, <<"load">>, v, d)
<1>1. NoWorkflow \in Workflows /\ NoWorkflow.verified = FALSE
  BY NoRunTyped DEF Ends, NoWorkflow
<1>2. LET w == [NoWorkflow EXCEPT !.phase = "LoadingCheckpoint"] IN
      w \in Workflows /\ w.phase = "LoadingCheckpoint" /\ w.verified = FALSE
  BY <1>1 DEF Workflows, Phases
<1>3. <<"load">> \in Seq(Effects) /\ \A i \in DOMAIN <<"load">> : <<"load">>[i] = "load"
  BY DEF Effects
<1>. QED
  BY <1>2, <1>3 DEF Entitled, Late, LateEffects, Writes

\* The call ends, or its workflow is cancelled and its hosts are told.
LEMMA Leaves ==
    ASSUME IInv, NEW why \in Ends, Settle(why) \/ Abort(why),
           UNCHANGED <<journal, ckpt, link, radio>>, left' \in Budgets,
           Settle(why) => wf' \in Workflows /\ fx' \in Seq(Effects),
           blob' \in [n : Nat, ok : BOOLEAN], journal.verified => blob'.ok
    PROVE  IInv'
<1>1. /\ run' \in Runs /\ run'.dl = "none" /\ run'.pc \in {"idle", "hostCancel"}
      /\ wf' \in Workflows /\ fx' \in Seq(Effects)
  <2>1. CASE Settle(why)
    <3>1. run' = [NoRun EXCEPT !.why = why] /\ wf' \in Workflows /\ fx' \in Seq(Effects)
      BY <2>1 DEF Settle
    <3>. QED
      BY <3>1, NoRunTyped
  <2>2. CASE Abort(why)
    <3>1. run' = [NoRun EXCEPT !.pc = "hostCancel", !.why = why] /\ wf' = NoWorkflow /\ fx' = <<>>
      BY <2>2 DEF Abort
    <3>. QED
      BY <3>1, NoRunTyped
  <2>. QED
    BY <2>1, <2>2
<1>2. TypeOK'
  BY <1>1 DEF IInv, TypeOK, radio
<1>3. OnAir' /\ Backed'
  BY <1>1 DEF IInv, OnAir, Backed, Done, radio
<1>. QED
  BY <1>1, <1>2, <1>3, Stops DEF Running

\* Every budget stays a natural number.
LEMMA Budgeted ==
    ASSUME TypeOK
    PROVE  /\ Fault => left' \in Budgets
           /\ left.aborts > 0 /\ left' = [left EXCEPT !.aborts = @ - 1] => left' \in Budgets
           /\ left.lost > 0 /\ left' = [left EXCEPT !.lost = @ - 1] => left' \in Budgets
           /\ left.drops > 0 /\ left' = [left EXCEPT !.drops = @ - 1] => left' \in Budgets
           /\ left.updates > 0 /\ left' = [left EXCEPT !.updates = @ - 1] => left' \in Budgets
<1>1. left \in Budgets
  BY DEF TypeOK
<1>2. \A n \in Nat : n > 0 => n - 1 \in Nat
  OBVIOUS
<1>3. ASSUME NEW n \in Nat
      PROVE  /\ [left EXCEPT !.faults = n] \in Budgets /\ [left EXCEPT !.aborts = n] \in Budgets
             /\ [left EXCEPT !.lost = n] \in Budgets /\ [left EXCEPT !.drops = n] \in Budgets
             /\ [left EXCEPT !.updates = n] \in Budgets
  BY <1>1 DEF Budgets
<1>4. left.faults \in Nat /\ left.aborts \in Nat /\ left.lost \in Nat /\ left.drops \in Nat /\ left.updates \in Nat
  BY <1>1 DEF Budgets
<1>. QED
  BY <1>2, <1>3, <1>4 DEF Fault

-----------------------------------------------------------------------------
(* The manager *)

LEMMA BeginsKeep == IInv /\ (UpdateFirmware \/ SaveJournal) => IInv'
<1>. SUFFICES ASSUME IInv, UpdateFirmware \/ SaveJournal PROVE IInv'
  OBVIOUS
<1>0. TypeOK /\ wf \in Workflows /\ fx \in Seq(Effects)
  BY DEF IInv, TypeOK
<1>1. CASE UpdateFirmware
  <2>1. /\ ckpt = "none" /\ run' = [NoRun EXCEPT !.pc = "saveJournal"]
        /\ UNCHANGED <<journal, ckpt, blob, wf, fx, link, wire, air, dev>> /\ left' \in Budgets
    BY <1>0, <1>1, Budgeted DEF UpdateFirmware, durable, radio
  <2>2. run' \in Runs /\ run'.pc = "saveJournal" /\ run'.dl = "none"
    BY <2>1, NoRunTyped DEF Ends
  <2>3. TypeOK'
    BY <1>0, <2>1, <2>2 DEF TypeOK
  <2>4. OnAir' /\ Backed'
    BY <2>1, <2>2 DEF IInv, OnAir, Backed, Done
  <2>. QED
    BY <2>1, <2>2, <2>3, <2>4, Stops DEF IInv, Image, Running
<1>2. CASE SaveJournal
  <2>1. /\ run.pc = "saveJournal" /\ ckpt = "none"
        /\ journal' = [state |-> "active", verified |-> FALSE]
        /\ UNCHANGED <<ckpt, blob, link, wire, air, dev, left>>
        /\ Started \/ (Settle("disconnected") /\ UNCHANGED <<wf, fx>>)
    BY <1>2 DEF SaveJournal, IInv, Backed, radio
  <2>2. /\ run' \in Runs /\ run'.dl = "none" /\ run'.pc \in {"running", "idle"}
        /\ wf' \in Workflows /\ fx' \in Seq(Effects)
        /\ Running' => Entitled(wf', fx', FALSE, Done')
    <3>1. CASE Started
      <4>1. wf' = [NoWorkflow EXCEPT !.phase = "LoadingCheckpoint"] /\ fx' = <<"load">>
        BY <3>1 DEF Started
      <4>2. run' \in Runs /\ run'.dl = "none" /\ run'.pc = "running"
        BY <3>1, NoRunTyped DEF Started, Ends
      <4>. QED
        BY <4>1, <4>2, Starting
    <3>2. CASE Settle("disconnected") /\ UNCHANGED <<wf, fx>>
      <4>1. run' \in Runs /\ run'.dl = "none" /\ run'.pc = "idle"
        BY <3>2, NoRunTyped DEF Settle, Ends
      <4>. QED
        BY <1>0, <3>2, <4>1 DEF Running
    <3>. QED
      BY <2>1, <3>1, <3>2
  <2>3. TypeOK'
    BY <1>0, <2>1, <2>2 DEF TypeOK
  <2>4. OnAir' /\ Backed'
    BY <2>1, <2>2 DEF IInv, OnAir, Backed, Done
  <2>5. Image' /\ ~journal'.verified
    BY <2>1, <2>2 DEF Image
  <2>. QED
    BY <2>1, <2>2, <2>3, <2>4, <2>5 DEF IInv
<1>. QED
  BY <1>1, <1>2

LEMMA ResumeKeeps == IInv /\ ResumeFirmwareUpdate => IInv'
<1>. SUFFICES ASSUME IInv, ResumeFirmwareUpdate PROVE IInv'
  OBVIOUS
<1>0. /\ TypeOK /\ wf \in Workflows /\ fx \in Seq(Effects) /\ UNCHANGED <<journal, ckpt, blob, wire, air, dev, left>>
      /\ run.pc = "idle" /\ link \in BOOLEAN /\ link' \in BOOLEAN
  BY DEF IInv, TypeOK, ResumeFirmwareUpdate, durable, radio
<1>1. CASE run' = [NoRun EXCEPT !.pc = "cleanup"] /\ UNCHANGED <<wf, fx>>
  <2>1. run' \in Runs /\ run'.pc = "cleanup" /\ run'.dl = "none"
    BY <1>1, NoRunTyped DEF Ends
  <2>2. TypeOK'
    BY <1>0, <1>1, <2>1 DEF TypeOK
  <2>3. OnAir' /\ Backed'
    BY <1>0, <2>1 DEF IInv, OnAir, Backed, Done
  <2>. QED
    BY <1>0, <2>1, <2>2, <2>3, Stops DEF IInv, Image, Running
<1>2. CASE Settle("rejected") /\ UNCHANGED <<wf, fx, link>>
  <2>1. journal.verified => blob.ok
    BY DEF IInv, Image
  <2>2. blob \in [n : Nat, ok : BOOLEAN] /\ left \in Budgets /\ "rejected" \in Ends
    BY <1>0 DEF TypeOK, Ends
  <2>. QED
    BY <1>0, <1>2, <2>1, <2>2, Leaves DEF radio
<1>3. CASE Started /\ (journal.verified => Compatible)
  <2>1. wf' = [NoWorkflow EXCEPT !.phase = "LoadingCheckpoint"] /\ fx' = <<"load">>
    BY <1>3 DEF Started
  <2>2. run' \in Runs /\ run'.dl = "none" /\ run'.pc = "running"
    BY <1>3, NoRunTyped DEF Started, Ends
  <2>3. wf' \in Workflows /\ fx' \in Seq(Effects) /\ Entitled(wf', fx', journal.verified, Done)
    BY <2>1, Starting
  <2>4. TypeOK'
    BY <1>0, <2>2, <2>3 DEF TypeOK
  <2>5. OnAir' /\ Backed' /\ (Done' <=> Done)
    BY <1>0, <2>2 DEF IInv, OnAir, Backed, Done
  <2>6. Image'
    BY <1>0, <1>3, <2>2 DEF IInv, Image, Whole, Compatible
  <2>. QED
    BY <1>0, <2>3, <2>4, <2>5, <2>6 DEF IInv, Entitled
<1>. QED
  BY <1>1, <1>2, <1>3 DEF ResumeFirmwareUpdate

LEMMA CancelsKeep == IInv /\ (CancelActive \/ CancelIdle) => IInv'
<1>. SUFFICES ASSUME IInv, CancelActive \/ CancelIdle PROVE IInv'
  OBVIOUS
<1>0. /\ TypeOK /\ wf \in Workflows /\ fx \in Seq(Effects) /\ left' \in Budgets
      /\ blob \in [n : Nat, ok : BOOLEAN] /\ (journal.verified => blob.ok)
      /\ NoBlob \in [n : Nat, ok : BOOLEAN] /\ NoBlob.ok /\ run \in Runs
  BY Budgeted DEF CancelActive, CancelIdle, IInv, TypeOK, Image, NoBlob
<1>1. CASE CancelActive
  <2>1. "cancelled" \in Ends
    BY DEF Ends
  <2>2. \/ Settle("cancelled") /\ UNCHANGED <<wf, fx>>
        \/ Abort("cancelled")
    BY <1>1 DEF CancelActive
  <2>3. UNCHANGED <<journal, ckpt, blob, link, radio>>
    BY <1>1 DEF CancelActive, durable
  <2>4. Settle("cancelled") => wf' \in Workflows /\ fx' \in Seq(Effects)
    <3>1. Abort("cancelled") => wf' \in Workflows /\ fx' \in Seq(Effects)
      BY NoRunTyped, <2>1 DEF Abort
    <3>. QED
      BY <1>0, <2>2, <3>1
  <2>. QED
    BY <1>0, <2>1, <2>2, <2>3, <2>4, Leaves
<1>2. CASE CancelIdle
  <2>1. /\ run.pc = "idle" /\ UNCHANGED <<journal, ckpt, wf, fx, link, wire, air, dev>>
        /\ blob' \in {blob, NoBlob} /\ run' \in {run, [NoRun EXCEPT !.pc = "cleanup"]}
    BY <1>2 DEF CancelIdle, radio
  <2>2. run.dl = "none"
    BY <2>1 DEF IInv, Image, Running
  <2>3. run' \in Runs /\ run'.dl = "none" /\ run'.pc \in {"idle", "cleanup"}
    BY ZenonT(60), <1>0, <2>1, <2>2, NoRunTyped DEF Ends
  <2>4. TypeOK'
    BY <1>0, <2>1, <2>3 DEF TypeOK
  <2>5. OnAir' /\ Backed'
    BY <2>1, <2>3 DEF IInv, OnAir, Backed, Done
  <2>. QED
    BY <1>0, <2>1, <2>3, <2>4, <2>5, Stops DEF Running
<1>. QED
  BY <1>1, <1>2

\* What a cancelled or a completed operation leaves is removed.
LEMMA CleansKeep ==
    IInv /\ (HostCancel \/ DeleteLatestBlob \/ CleanCheckpoint \/ CleanBlob \/ CleanJournal) => IInv'
<1>. SUFFICES ASSUME IInv, HostCancel \/ DeleteLatestBlob \/ CleanCheckpoint \/ CleanBlob \/ CleanJournal
              PROVE  IInv'
  OBVIOUS
<1>0. /\ TypeOK /\ run \in Runs /\ wf \in Workflows /\ fx \in Seq(Effects) /\ UNCHANGED <<link, wire, air, dev, left>>
      /\ NoBlob \in [n : Nat, ok : BOOLEAN] /\ NoBlob.ok /\ NoJournal.verified = FALSE
      /\ NoJournal \in [state : {"absent", "active", "cleanup_only"}, verified : BOOLEAN]
  BY DEF HostCancel, DeleteLatestBlob, CleanCheckpoint, CleanBlob, CleanJournal, IInv, TypeOK, NoBlob, NoJournal, radio
<1>1. /\ run.pc \in {"hostCancel", "dropBlob", "cleanup", "cleanBlob", "cleanJournal"} /\ run.dl = "none"
      /\ run.why \in Ends
  BY <1>0 DEF HostCancel, DeleteLatestBlob, CleanCheckpoint, CleanBlob, CleanJournal, IInv, Image, Running, Runs
<1>2. \/ run' = [run EXCEPT !.pc = "dropBlob"]
      \/ \E why \in Ends : run' = [NoRun EXCEPT !.why = why]
      \/ run' = [run EXCEPT !.pc = "cleanBlob"] /\ ckpt' = "none"
      \/ run' = [run EXCEPT !.pc = "cleanJournal"] /\ ckpt' = "none"
  <2>1. run.pc = "cleanBlob" => ckpt = "none"
    BY DEF IInv, Backed
  <2>2. "rejected" \in Ends /\ "ok" \in Ends
    BY DEF Ends
  <2>3. CASE HostCancel \/ DeleteLatestBlob
    BY <1>1, <2>3 DEF HostCancel, DeleteLatestBlob, Settle
  <2>4. CASE CleanCheckpoint
    BY <2>2, <2>4 DEF CleanCheckpoint, Settle
  <2>5. CASE CleanBlob
    BY <2>1, <2>5 DEF CleanBlob
  <2>6. CASE CleanJournal
    BY <2>2, <2>6 DEF CleanJournal, Settle
  <2>. QED
    BY <2>3, <2>4, <2>5, <2>6
<1>3. /\ run' \in Runs /\ run'.dl = "none" /\ run'.pc \in {"idle", "dropBlob", "cleanBlob", "cleanJournal"}
      /\ run'.pc \in {"cleanBlob", "cleanJournal"} => ckpt' = "none"
  <2>1. \A p \in {"dropBlob", "cleanBlob", "cleanJournal"} :
           LET u == [run EXCEPT !.pc = p] IN u \in Runs /\ u.dl = "none" /\ u.pc = p
    BY <1>0, <1>1 DEF Runs
  <2>2. \A why \in Ends : LET u == [NoRun EXCEPT !.why = why] IN u \in Runs /\ u.pc = "idle" /\ u.dl = "none"
    BY NoRunTyped
  <2>3. CASE run' = [run EXCEPT !.pc = "dropBlob"]
    BY <2>1, <2>3
  <2>4. CASE \E why \in Ends : run' = [NoRun EXCEPT !.why = why]
    BY <2>2, <2>4
  <2>5. CASE run' = [run EXCEPT !.pc = "cleanBlob"] /\ ckpt' = "none"
    BY <2>1, <2>5
  <2>6. CASE run' = [run EXCEPT !.pc = "cleanJournal"] /\ ckpt' = "none"
    BY <2>1, <2>6
  <2>. QED
    BY <1>2, <2>3, <2>4, <2>5, <2>6
<1>4. /\ wf' \in Workflows /\ fx' \in Seq(Effects) /\ ckpt' \in {"none", ckpt}
      /\ blob' \in {blob, NoBlob} /\ journal' \in {journal, NoJournal}
      /\ journal' = NoJournal => ckpt' = "none" \/ journal' = journal
  <2>1. NoWorkflow \in Workflows /\ <<>> \in Seq(Effects)
    BY NoRunTyped DEF Ends
  <2>2. run.pc = "cleanJournal" => ckpt = "none"
    BY DEF IInv, Backed
  <2>. QED
    BY <1>0, <2>1, <2>2 DEF HostCancel, DeleteLatestBlob, CleanCheckpoint, CleanBlob, CleanJournal
<1>5. TypeOK'
  BY <1>0, <1>3, <1>4 DEF TypeOK
<1>6. OnAir' /\ Backed'
  BY <1>0, <1>3, <1>4 DEF IInv, OnAir, Backed, Done
<1>7. journal'.verified => blob'.ok
  BY <1>0, <1>4 DEF IInv, Image
<1>. QED
  BY <1>3, <1>5, <1>6, <1>7, Stops DEF Running

-----------------------------------------------------------------------------
(* Effects of storage *)

LEMMA StorageKeeps == IInv /\ (LoadCheckpoint \/ SaveCheckpoint \/ DeleteCheckpoint) => IInv'
<1>. SUFFICES ASSUME IInv, LoadCheckpoint \/ SaveCheckpoint \/ DeleteCheckpoint PROVE IInv'
  OBVIOUS
<1>0. /\ Running /\ fx # <<>> /\ run' = run /\ UNCHANGED <<blob, link, wire, air, dev, left>>
      /\ Head(fx) \in {"load", "saveTransferring", "saveReconnecting", "deleteCheckpoint"}
  BY DEF LoadCheckpoint, SaveCheckpoint, DeleteCheckpoint, Head1, durable, radio
<1>1. /\ TypeOK /\ wf \in Workflows /\ fx \in Seq(Effects) /\ journal.verified \in BOOLEAN
      /\ Entitled(wf, fx, journal.verified, Done) /\ Holds(wf, journal.verified, Done)
      /\ (Head(fx) \in LateEffects => journal.verified = TRUE)
      /\ (Head(fx) = "saveReconnecting" => Done) /\ run.dl = "none" /\ (Done' <=> Done)
  BY <1>0, Running1 DEF Done
<1>2. Tail(fx) \in Seq(Effects) /\ Entitled(wf, Tail(fx), journal.verified, Done)
  BY <1>0, <1>1, EntitledTail, Tails
<1>3. CASE LoadCheckpoint
  <2>1. Settled(CheckpointLoaded(wf)) /\ UNCHANGED <<journal, ckpt>>
    BY <1>3 DEF LoadCheckpoint, durable
  <2>2. Good(CheckpointLoaded(wf), journal.verified, Done)
    BY <1>1, Loads DEF IInv, Backed
  <2>3. wf' \in Workflows /\ fx' \in Seq(Effects) /\ Entitled(wf', fx', journal.verified, Done)
    BY <1>0, <1>1, <2>1, <2>2, Settling
  <2>4. TypeOK'
    BY <1>0, <1>1, <2>1, <2>3 DEF TypeOK
  <2>5. OnAir' /\ Backed' /\ Running'
    BY <1>0, <2>1 DEF IInv, OnAir, Backed, Done, Running
  <2>. QED
    BY <1>0, <1>1, <2>1, <2>3, <2>4, <2>5, Runs1 DEF Entitled
<1>4. CASE SaveCheckpoint
  <2>1. /\ ckpt' = IF Head(fx) = "saveReconnecting" THEN "reconnecting" ELSE "transferring"
        /\ fx' = Tail(fx) /\ UNCHANGED <<journal, wf>> /\ Head(fx) \in LateEffects
    BY <1>4 DEF SaveCheckpoint, Head1, LateEffects
  <2>2. TypeOK'
    BY <1>0, <1>1, <1>2, <2>1 DEF TypeOK
  <2>3. OnAir' /\ Backed' /\ Running'
    BY <1>0, <1>1, <2>1 DEF IInv, OnAir, Backed, Done, Running
  <2>. QED
    BY <1>0, <1>1, <1>2, <2>1, <2>2, <2>3, Runs1 DEF Entitled
<1>5. CASE DeleteCheckpoint
  <2>1. UNCHANGED wf
    BY <1>5 DEF DeleteCheckpoint
  <2>2. CASE ckpt' = "none" /\ fx' = Tail(fx) /\ UNCHANGED journal
    <3>1. TypeOK'
      BY <1>0, <1>1, <1>2, <2>1, <2>2 DEF TypeOK
    <3>2. OnAir' /\ Backed' /\ Running'
      BY <1>0, <1>1, <2>2 DEF IInv, OnAir, Backed, Done, Running
    <3>. QED
      BY <1>0, <1>1, <1>2, <2>1, <2>2, <3>1, <3>2, Runs1 DEF Entitled
  <2>3. CASE journal' = [journal EXCEPT !.state = "cleanup_only"] /\ UNCHANGED <<ckpt, fx>>
    <3>1. /\ journal' \in [state : {"absent", "active", "cleanup_only"}, verified : BOOLEAN]
          /\ journal'.verified = journal.verified
      BY <1>1, <2>3 DEF TypeOK
    <3>2. TypeOK'
      BY <1>0, <1>1, <2>1, <2>3, <3>1 DEF TypeOK
    <3>3. OnAir' /\ Backed' /\ Image' /\ Running'
      BY <1>0, <1>1, <2>3, <3>1 DEF IInv, OnAir, Backed, Done, Image, Whole, Running
    <3>. QED
      BY <1>0, <1>1, <2>1, <2>3, <3>1, <3>2, <3>3 DEF IInv, Entitled
  <2>. QED
    BY <1>5, <2>2, <2>3 DEF DeleteCheckpoint
<1>. QED
  BY <1>3, <1>4, <1>5

\* A failure of the storage ends the call, or cancels its workflow.
LEMMA EndsKeep == IInv /\ (StorageFails \/ Failed \/ UnsubscribeFails) => IInv'
<1>. SUFFICES ASSUME IInv, StorageFails \/ Failed \/ UnsubscribeFails PROVE IInv'
  OBVIOUS
<1>1. /\ TypeOK /\ run \in Runs /\ run.why \in Ends /\ wf \in Workflows /\ fx \in Seq(Effects)
      /\ NoWorkflow \in Workflows /\ <<>> \in Seq(Effects) /\ left' \in Budgets
      /\ UNCHANGED <<journal, ckpt, blob, link, radio>> /\ blob \in [n : Nat, ok : BOOLEAN]
      /\ (journal.verified => blob.ok) /\ "error" \in Ends /\ "integrity" \in Ends
  <2>1. TypeOK /\ run \in Runs /\ run.why \in Ends /\ wf \in Workflows /\ fx \in Seq(Effects) /\ left \in Budgets
        /\ blob \in [n : Nat, ok : BOOLEAN] /\ (journal.verified => blob.ok)
    BY DEF IInv, TypeOK, Runs, Image
  <2>2. "error" \in Ends /\ "integrity" \in Ends
    BY DEF Ends
  <2>. QED
    BY <2>1, <2>2, NoRunTyped, Budgeted DEF StorageFails, Failed, UnsubscribeFails, durable
<1>2. \E why \in Ends : \/ Abort(why)
                        \/ Settle(why) /\ wf' \in Workflows /\ fx' \in Seq(Effects)
  BY <1>1 DEF StorageFails, Failed, UnsubscribeFails
<1>3. PICK why \in Ends : Abort(why) \/ (Settle(why) /\ wf' \in Workflows /\ fx' \in Seq(Effects))
  BY <1>2
<1>4. Settle(why) => wf' \in Workflows /\ fx' \in Seq(Effects)
  BY <1>1, <1>3 DEF Abort
<1>. QED
  BY <1>1, <1>3, <1>4, Leaves

\* The effect under way has settled with an answer to which the workflow is entitled.
LEMMA SettlesKeep ==
    ASSUME IInv, Running, fx # <<>>, Head(fx) # "download", NEW r, Settled(r),
           wf.phase \notin Terminal => Good(r, journal.verified, Done),
           UNCHANGED <<durable, radio>>, link' \in BOOLEAN, left' \in Budgets,
           run' \in Runs, run'.pc = "running", run'.dl = "none"
    PROVE  IInv'
<1>1. /\ TypeOK /\ journal.verified \in BOOLEAN /\ Entitled(wf, fx, journal.verified, Done)
      /\ UNCHANGED <<journal, ckpt, blob, wire, air, dev>> /\ Done' = Done
  BY Running1 DEF durable, radio, Done
<1>2. wf' \in Workflows /\ fx' \in Seq(Effects) /\ Entitled(wf', fx', journal.verified, Done)
  BY <1>1, Settling
<1>3. TypeOK'
  BY <1>1, <1>2 DEF TypeOK
<1>4. OnAir' /\ Backed' /\ Running'
  BY <1>1 DEF IInv, OnAir, Backed, Running, Done
<1>. QED
  BY <1>1, <1>2, <1>3, <1>4, Runs1 DEF Entitled

LEMMA ReadsKeep == IInv /\ (ReadChunk \/ SubscribeSettles \/ ConnectSettles \/ ReadVersion) => IInv'
<1>. SUFFICES ASSUME IInv, ReadChunk \/ SubscribeSettles \/ ConnectSettles \/ ReadVersion PROVE IInv'
  OBVIOUS
<1>0. /\ Running /\ fx # <<>> /\ UNCHANGED <<durable, radio>>
      /\ Head(fx) \in {"read", "subscribe", "connect", "version"}
  BY DEF ReadChunk, SubscribeSettles, ConnectSettles, ReadVersion, Head1
<1>1. /\ TypeOK /\ wf \in Workflows /\ run \in Runs /\ Holds(wf, TRUE, Done) /\ journal.verified = TRUE
      /\ run.dl = "none" /\ run.pc = "running" /\ link \in BOOLEAN /\ left \in Budgets
  <2>1. Head(fx) \in LateEffects /\ Head(fx) # "download"
    BY <1>0 DEF LateEffects
  <2>2. TypeOK /\ wf \in Workflows /\ run \in Runs /\ journal.verified = TRUE
        /\ Holds(wf, journal.verified, Done) /\ run.dl = "none"
    BY <1>0, <2>1, Running1
  <2>. QED
    BY <1>0, <2>2 DEF TypeOK, Running
<1>2. link' \in BOOLEAN /\ left' \in Budgets
  BY <1>1, Budgeted DEF ReadChunk, SubscribeSettles, ConnectSettles, ReadVersion
<1>3. \/ Abort("integrity")
      \/ run' = run /\ \E r : Settled(r) /\ r \in {WriteChunk(wf), WriteStart(wf), Fail(wf), VersionRead(wf),
                                  ReconnectAttempted(wf, TRUE), ReconnectAttempted(wf, FALSE)}
  <2>1. CASE ReadChunk
    BY <1>1, <2>1 DEF ReadChunk
  <2>2. CASE SubscribeSettles
    BY <2>2 DEF SubscribeSettles
  <2>3. CASE ConnectSettles
    BY <2>3 DEF ConnectSettles
  <2>4. CASE ReadVersion
    BY <2>4 DEF ReadVersion
  <2>. QED
    BY <2>1, <2>2, <2>3, <2>4
<1>4. CASE Abort("integrity")
  <2>1. "integrity" \in Ends /\ ~Settle("integrity") /\ blob \in [n : Nat, ok : BOOLEAN] /\ (journal.verified => blob.ok)
    <3>1. run'.pc = "hostCancel"
      BY <1>4, NoRunTyped DEF Abort, Ends
    <3>2. "integrity" \in Ends
      BY DEF Ends
    <3>3. ~Settle("integrity")
      BY <3>1, <3>2, NoRunTyped DEF Settle
    <3>. QED
      BY <3>2, <3>3 DEF IInv, TypeOK, Image
  <2>2. UNCHANGED <<journal, ckpt, blob, radio>> /\ link' = link
    BY <1>0, <1>4, <2>1, <1>3, NoRunTyped, <1>1 DEF durable, ReadChunk, SubscribeSettles, ConnectSettles, ReadVersion, Abort
  <2>. QED
    BY <1>2, <1>4, <2>1, <2>2, Leaves
<1>5. CASE run' = run /\ \E r : Settled(r) /\ r \in {WriteChunk(wf), WriteStart(wf), Fail(wf), VersionRead(wf),
                                  ReconnectAttempted(wf, TRUE), ReconnectAttempted(wf, FALSE)}
  <2>1. PICK r \in {WriteChunk(wf), WriteStart(wf), Fail(wf), VersionRead(wf),
                    ReconnectAttempted(wf, TRUE), ReconnectAttempted(wf, FALSE)} : Settled(r)
    BY <1>5
  <2>2. TRUE \in BOOLEAN
    OBVIOUS
  <2>3. Good(r, TRUE, Done)
    BY <1>1, <2>1, <2>2, Transfers, Reconnects, Failing
  <2>4. Head(fx) # "download"
    BY <1>0
  <2>. QED
    BY <1>0, <1>1, <1>2, <1>5, <2>1, <2>3, <2>4, SettlesKeep
<1>. QED
  BY <1>3, <1>4, <1>5

-----------------------------------------------------------------------------
(* The download *)

LEMMA Downloaded ==
    ASSUME NEW w \in Workflows, NEW d, Holds(w, TRUE, d)
    PROVE  Good(Answer(Subscribe(w).wf, <<"saveTransferring">> \o Subscribe(w).fx), TRUE, d)
<1>1. Asks("saveTransferring", TRUE, d)
  BY DEF Asks, Effects, LateEffects
<1>2. Good(Subscribe(w), TRUE, d)
  BY Transfers
<1>. QED
  BY <1>1, <1>2, Before

\* Only what is not verified is downloaded; what is verified is whole.
LEMMA DownloadsKeep == IInv /\ (DownloadStarts \/ DownloadPiece \/ DownloadBody) => IInv'
<1>. SUFFICES ASSUME IInv, DownloadStarts \/ DownloadPiece \/ DownloadBody PROVE IInv'
  OBVIOUS
<1>0. /\ Running /\ fx # <<>> /\ Head(fx) = "download" /\ UNCHANGED <<journal, ckpt, link, radio, wire, air, dev>>
      /\ run.dl \in {"none", "body"}
  BY DEF DownloadStarts, DownloadPiece, DownloadBody, Downloading, Head1, radio
<1>1. /\ TypeOK /\ wf \in Workflows /\ fx \in Seq(Effects) /\ run \in Runs /\ journal.verified \in BOOLEAN
      /\ Entitled(wf, fx, journal.verified, Done) /\ Holds(wf, journal.verified, Done)
      /\ run.pc = "running" /\ blob \in [n : Nat, ok : BOOLEAN] /\ left' \in Budgets /\ Done' = Done
      /\ NoBlob \in [n : Nat, ok : BOOLEAN] /\ NoBlob.ok
  <2>1. left \in Budgets /\ blob \in [n : Nat, ok : BOOLEAN] /\ TypeOK
    BY DEF IInv, TypeOK
  <2>2. left' \in Budgets
    BY <2>1, Budgeted DEF DownloadStarts, DownloadPiece, DownloadBody
  <2>. QED
    BY <1>0, <2>1, <2>2, Running1 DEF Running, Done, NoBlob
<1>2. \A s \in {"none", "body", "save"} :
         LET r == [run EXCEPT !.dl = s] IN r \in Runs /\ r.pc = "running" /\ r.dl = s
  BY <1>1 DEF Runs
<1>3. OnAir' /\ (Running' => Backed') /\ (run'.pc = "hostCancel" => Backed')
  BY <1>0 DEF IInv, OnAir, Backed, Done, Running
<1>4. CASE DownloadStarts /\ Compatible
  <2>1. journal.verified = TRUE /\ run.dl = "none" /\ UNCHANGED <<run, blob>> /\ DownloadCompleted
    BY <1>1, <1>4 DEF DownloadStarts, Compatible, Downloading
  <2>2. PICK r : Settled(r) /\ r = Answer(Subscribe(wf).wf, <<"saveTransferring">> \o Subscribe(wf).fx)
    BY <2>1 DEF DownloadCompleted
  <2>3. Good(r, TRUE, Done)
    BY <1>1, <2>1, <2>2, Downloaded
  <2>4. wf' \in Workflows /\ fx' \in Seq(Effects) /\ Entitled(wf', fx', TRUE, Done)
    BY <1>0, <1>1, <2>1, <2>2, <2>3, Settling
  <2>5. TypeOK'
    BY <1>0, <1>1, <2>1, <2>4 DEF TypeOK
  <2>6. Running'
    BY <1>1, <2>1 DEF Running
  <2>. QED
    BY <1>0, <1>1, <1>3, <2>1, <2>4, <2>5, <2>6, Runs1
<1>5. CASE run' \in Runs /\ run'.pc = "running" /\ run'.dl \in {"body", "save"} /\ UNCHANGED <<wf, fx>>
           /\ blob' \in [n : Nat, ok : BOOLEAN] /\ ~journal.verified /\ (run'.dl = "save" => Whole')
  <2>1. TypeOK'
    BY <1>0, <1>1, <1>5 DEF TypeOK
  <2>2. Running' /\ Image'
    BY <1>0, <1>5 DEF Running, Image
  <2>. QED
    BY <1>0, <1>1, <1>3, <1>5, <2>1, <2>2 DEF IInv
<1>6. CASE blob' = NoBlob /\ Abort("integrity")
  <2>1. "integrity" \in Ends
    BY DEF Ends
  <2>2. ~Settle("integrity")
    BY <1>6, <2>1, NoRunTyped DEF Abort, Settle
  <2>. QED
    BY <1>0, <1>1, <1>6, <2>1, <2>2, Leaves
<1>7. DownloadStarts /\ ~Compatible => run' = [run EXCEPT !.dl = "body"] /\ UNCHANGED <<wf, fx>> /\ blob' = NoBlob /\ ~journal.verified
  BY <1>0 DEF DownloadStarts, Stage, IInv, Image, Compatible
<1>8. DownloadPiece => UNCHANGED <<run, wf, fx>> /\ run.dl = "body" /\ ~journal.verified /\ blob' \in [n : Nat, ok : BOOLEAN]
  <2>1. \A k \in Nat, b \in BOOLEAN : [n |-> k, ok |-> b] \in [n : Nat, ok : BOOLEAN] /\ [blob EXCEPT !.n = k] \in [n : Nat, ok : BOOLEAN]
    BY <1>1
  <2>2. blob.n + 1 \in Nat
    BY <1>1
  <2>. QED
    BY <1>1, <2>1, <2>2 DEF DownloadPiece, Downloading, IInv, Image
<1>9. DownloadBody => \/ run' = [run EXCEPT !.dl = "save"] /\ UNCHANGED <<wf, fx, blob>> /\ Whole /\ ~journal.verified
                      \/ blob' = NoBlob /\ Abort("integrity")
  BY DEF DownloadBody, Downloading, Stage, Whole, IInv, Image
<1>. QED
  BY <1>1, <1>2, <1>4, <1>5, <1>6, <1>7, <1>8, <1>9 DEF Whole

LEMMA DownloadEndsKeep == IInv /\ (DownloadSave \/ DownloadFails) => IInv'
<1>. SUFFICES ASSUME IInv, DownloadSave \/ DownloadFails PROVE IInv'
  OBVIOUS
<1>0. Running /\ fx # <<>> /\ UNCHANGED <<ckpt, link, radio, wire, air, dev>>
  BY DEF DownloadSave, DownloadFails, Downloading, Head1, radio
<1>1. /\ TypeOK /\ wf \in Workflows /\ fx \in Seq(Effects) /\ run \in Runs
      /\ Entitled(wf, fx, journal.verified, Done) /\ Holds(wf, journal.verified, Done)
      /\ journal \in [state : {"absent", "active", "cleanup_only"}, verified : BOOLEAN] /\ Done' = Done
  BY <1>0, Running1 DEF TypeOK, Done
<1>2. CASE DownloadSave
  <2>1. /\ journal' = [journal EXCEPT !.verified = TRUE] /\ run' = [run EXCEPT !.dl = "none"] /\ Whole
        /\ UNCHANGED <<blob, left>> /\ DownloadCompleted
    BY <1>2 DEF DownloadSave, Downloading, Stage, IInv, Image
  <2>2. /\ journal' \in [state : {"absent", "active", "cleanup_only"}, verified : BOOLEAN] /\ journal'.verified = TRUE
        /\ run' \in Runs /\ run'.pc = run.pc /\ run'.dl = "none"
    BY <1>1, <2>1 DEF Runs
  <2>3. PICK r : Settled(r) /\ r = Answer(Subscribe(wf).wf, <<"saveTransferring">> \o Subscribe(wf).fx)
    BY <2>1 DEF DownloadCompleted
  <2>4. Holds(wf, TRUE, Done) /\ Entitled(wf, fx, TRUE, Done)
    BY <1>1 DEF Holds, Entitled
  <2>5. Good(r, TRUE, Done)
    BY <1>1, <2>3, <2>4, Downloaded
  <2>6. wf' \in Workflows /\ fx' \in Seq(Effects) /\ Entitled(wf', fx', TRUE, Done)
    BY <1>0, <1>1, <2>3, <2>4, <2>5, Settling
  <2>7. TypeOK'
    BY <1>0, <1>1, <2>1, <2>2, <2>6 DEF TypeOK
  <2>8. OnAir' /\ Backed' /\ Image'
    BY <1>0, <2>1, <2>2 DEF IInv, OnAir, Backed, Done, Running, Image, Whole
  <2>9. Entitled(wf', fx', journal'.verified, Done')
    BY <1>1, <2>2, <2>6 DEF Entitled
  <2>. QED
    BY <2>7, <2>8, <2>9 DEF IInv
<1>3. CASE DownloadFails
  <2>1. "error" \in Ends /\ blob' = NoBlob /\ Abort("error") /\ UNCHANGED journal
    BY <1>3 DEF DownloadFails, Ends
  <2>2. ~Settle("error") /\ blob' \in [n : Nat, ok : BOOLEAN] /\ blob'.ok
    BY <2>1, NoRunTyped DEF Abort, Settle, NoBlob
  <2>3. left' \in Budgets
    BY <1>1, <1>3, Budgeted DEF DownloadFails
  <2>. QED
    BY <1>0, <2>1, <2>2, <2>3, Leaves
<1>. QED
  BY <1>2, <1>3

-----------------------------------------------------------------------------
(* Effects of the radio *)

LEMMA WritesKeep == IInv /\ (Write \/ WriteSettles \/ WriteUnconnected) => IInv'
<1>. SUFFICES ASSUME IInv, Write \/ WriteSettles \/ WriteUnconnected PROVE IInv'
  OBVIOUS
<1>0. Running /\ fx # <<>> /\ Head(fx) \in Writes /\ UNCHANGED <<durable, journal, ckpt, blob, link, left>>
  BY DEF Write, WriteSettles, WriteUnconnected, durable
<1>1. /\ TypeOK /\ wf \in Workflows /\ fx \in Seq(Effects) /\ run \in Runs /\ Holds(wf, TRUE, Done)
      /\ Entitled(wf, fx, TRUE, Done) /\ journal.verified = TRUE /\ run.dl = "none" /\ run.pc = "running"
      /\ link \in BOOLEAN /\ left \in Budgets
  <2>1. Head(fx) \in LateEffects /\ Head(fx) # "download"
    BY <1>0 DEF LateEffects, Writes
  <2>2. TypeOK /\ wf \in Workflows /\ fx \in Seq(Effects) /\ run \in Runs /\ Holds(wf, journal.verified, Done)
        /\ Entitled(wf, fx, journal.verified, Done) /\ journal.verified = TRUE /\ run.dl = "none"
    BY <1>0, <2>1, Running1
  <2>. QED
    BY <1>0, <2>2 DEF TypeOK, Running
<1>2. ASSUME NEW b \in BOOLEAN
      PROVE  LET r == [run EXCEPT !.busy = b] IN r \in Runs /\ r.pc = "running" /\ r.dl = "none"
  BY <1>1 DEF Runs
<1>3. CASE Write
  <2> DEFINE e == [k |-> Head(fx), seq |-> wf.seq, ok |-> blob.ok /\ journal.verified]
  <2>1. /\ wire' = Append(wire, e) /\ run' = [run EXCEPT !.busy = TRUE] /\ UNCHANGED <<wf, fx, air, dev>>
    BY <1>3 DEF Write
  <2>2. blob.ok = TRUE
    BY <1>1 DEF IInv, Image, TypeOK
  <2>3. e \in [k : Writes, seq : Nat, ok : BOOLEAN] /\ e.ok
    <3>1. e = [k |-> Head(fx), seq |-> wf.seq, ok |-> TRUE]
      BY <1>1, <2>2
    <3>2. wf.seq \in Nat
      BY <1>1 DEF Workflows
    <3>. HIDE DEF e
    <3>. QED
      BY <1>0, <3>1, <3>2
  <2>4. /\ wire' \in Seq([k : Writes, seq : Nat, ok : BOOLEAN])
        /\ \A i \in DOMAIN wire' : (i \in DOMAIN wire /\ wire'[i] = wire[i]) \/ wire'[i].ok
    <3>1. wire \in Seq([k : Writes, seq : Nat, ok : BOOLEAN])
      BY <1>1 DEF TypeOK
    <3>. HIDE DEF e
    <3>. QED
      BY <2>1, <2>3, <3>1, Appends
  <2>5. run' \in Runs /\ run'.pc = "running" /\ run'.dl = "none"
    BY <1>2, <2>1
  <2>6. TypeOK'
    BY <1>0, <1>1, <2>1, <2>4, <2>5 DEF TypeOK
  <2>7. OnAir' /\ Backed' /\ Running' /\ Done' = Done
    BY <1>0, <2>1, <2>4, <2>5 DEF IInv, OnAir, Backed, Done, Running
  <2>. HIDE DEF e
  <2>. QED
    BY <1>0, <1>1, <2>1, <2>5, <2>6, <2>7, Runs1
<1>4. CASE WriteSettles \/ WriteUnconnected
  <2>1. \E r : Settled(r) /\ r \in {Fail(wf), StartWritten(wf), ChunkWritten(wf), VerifyWritten(wf)}
    <3>1. CASE WriteSettles
      <4>1. PICK r : /\ Settled(r)
                     /\ r = IF ~link THEN Fail(wf)
                            ELSE CASE Head(fx) = "start" -> StartWritten(wf)
                                   [] Head(fx) = "data"  -> ChunkWritten(wf)
                                   [] OTHER              -> VerifyWritten(wf)
        BY <3>1 DEF WriteSettles
      <4>2. r \in {Fail(wf), StartWritten(wf), ChunkWritten(wf), VerifyWritten(wf)}
        BY <1>0, <4>1 DEF Writes
      <4>. QED
        BY <4>1, <4>2
    <3>2. CASE WriteUnconnected
      BY <3>2 DEF WriteUnconnected
    <3>. QED
      BY <1>4, <3>1, <3>2
  <2>2. PICK r \in {Fail(wf), StartWritten(wf), ChunkWritten(wf), VerifyWritten(wf)} : Settled(r)
    BY <2>1
  <2>3. Good(r, TRUE, Done)
    BY <1>1, <2>2, Failing, Written, Writing
  <2>4. run' \in Runs /\ run'.pc = "running" /\ run'.dl = "none" /\ UNCHANGED radio
    BY <1>1, <1>2, <1>4 DEF WriteSettles, WriteUnconnected
  <2>5. Head(fx) # "download"
    BY <1>0 DEF Writes
  <2>. QED
    BY <1>0, <1>1, <2>2, <2>3, <2>4, <2>5, SettlesKeep
<1>. QED
  BY <1>3, <1>4

\* A notification reaches the workflow that subscribed, or nobody.
LEMMA DeliverKeeps == IInv /\ Deliver => IInv'
<1>. SUFFICES ASSUME IInv, Deliver PROVE IInv'
  OBVIOUS
<1>0. /\ air # <<>> /\ air' = Tail(air) /\ UNCHANGED <<journal, ckpt, blob, link, wire, dev, left>>
      /\ TypeOK /\ wf \in Workflows /\ fx \in Seq(Effects) /\ run \in Runs /\ air \in Seq(Notifications)
      /\ run' \in {run, [run EXCEPT !.why = "integrity"]}
  BY DEF Deliver, IInv, TypeOK, durable
<1>1. /\ air' \in Seq(Notifications) /\ Head(air) \in Notifications /\ (Head(air).k = "verified" => Done)
      /\ \A i \in DOMAIN air' : air'[i].k = "verified" => Done
  BY <1>0, Tails DEF IInv, OnAir
<1>2. /\ run' \in Runs /\ run'.pc = run.pc /\ run'.dl = run.dl
  BY <1>0 DEF Runs, Ends
<1>3. /\ wf' \in Workflows /\ fx' \in Seq(Effects) /\ (fx # <<>> => fx' # <<>> /\ Head(fx') = Head(fx))
      /\ Running => Entitled(wf', fx', journal.verified, Done)
  <2>1. CASE Running /\ wf.sub
    <3>1. /\ Entitled(wf, fx, journal.verified, Done) /\ Holds(wf, journal.verified, Done)
          /\ journal.verified \in BOOLEAN
      BY <2>1, Running1
    <3>2. Good(StatusNotified(wf, Head(air)), journal.verified, Done)
      BY <1>0, <1>1, <3>1, Notified
    <3>3. Dispatched(StatusNotified(wf, Head(air)))
      BY <2>1 DEF Deliver
    <3>. QED
      BY <1>0, <3>1, <3>2, <3>3, Dispatching
  <2>2. CASE ~(Running /\ wf.sub)
    BY <1>0, <2>2 DEF Deliver, IInv
  <2>. QED
    BY <2>1, <2>2
<1>4. TypeOK'
  BY <1>0, <1>1, <1>2, <1>3 DEF TypeOK
<1>5. OnAir' /\ Backed' /\ (Running' <=> Running) /\ Done' = Done
  BY <1>0, <1>1, <1>2 DEF IInv, OnAir, Backed, Done, Running
<1>6. Image'
  BY <1>0, <1>2, <1>3, <1>5 DEF IInv, Image, Whole
<1>. QED
  BY <1>0, <1>3, <1>4, <1>5, <1>6 DEF IInv, Entitled

\* A timer or the deadline of the reconnection.
LEMMA TimersKeep == IInv /\ (Fire \/ ReconnectDeadline) => IInv'
<1>. SUFFICES ASSUME IInv, Fire \/ ReconnectDeadline PROVE IInv'
  OBVIOUS
<1>0. /\ Running /\ UNCHANGED <<journal, ckpt, blob, run, link, wire, air, dev>>
  BY DEF Fire, ReconnectDeadline, durable, radio
<1>1. /\ TypeOK /\ wf \in Workflows /\ fx \in Seq(Effects) /\ journal.verified \in BOOLEAN
      /\ Entitled(wf, fx, journal.verified, Done) /\ Holds(wf, journal.verified, Done) /\ Done' = Done
  BY <1>0, Running1 DEF Done
<1>2. left' \in Budgets
  BY <1>1, Budgeted DEF Fire, ReconnectDeadline, TypeOK
<1>3. run.dl = "none"
  <2>1. fx = <<>> \/ Head(fx) = "connect"
    BY DEF Fire, ReconnectDeadline
  <2>. QED
    BY <2>1 DEF IInv, Image
<1>4. wf' \in Workflows /\ fx' \in Seq(Effects) /\ Entitled(wf', fx', journal.verified, Done)
  <2>1. CASE Fire
    <3>1. Dispatched(TimerFired(wf))
      BY <2>1 DEF Fire
    <3>2. Good(TimerFired(wf), journal.verified, Done)
      BY <1>1, Reconnects
    <3>. QED
      BY <1>1, <3>1, <3>2, Dispatching
  <2>2. CASE ReconnectDeadline
    <3>1. Good(Fail(wf), journal.verified, Done) /\ wf' = Fail(wf).wf /\ fx' = Fail(wf).fx
      BY <1>1, <2>2, Failing DEF ReconnectDeadline
    <3>. QED
      BY <3>1 DEF Good
  <2>. QED
    BY <2>1, <2>2
<1>5. TypeOK'
  BY <1>0, <1>1, <1>2, <1>4 DEF TypeOK
<1>6. OnAir' /\ Backed' /\ Running'
  BY <1>0 DEF IInv, OnAir, Backed, Done, Running
<1>. QED
  BY <1>0, <1>1, <1>3, <1>4, <1>5, <1>6, Runs1

\* The completed workflow hands over; removing the notifications changes nothing.
LEMMA HandsKeep == IInv /\ (Completed \/ Unsubscribe) => IInv'
<1>. SUFFICES ASSUME IInv, Completed \/ Unsubscribe PROVE IInv'
  OBVIOUS
<1>0. /\ Running /\ fx # <<>> /\ Head(fx) # "download" /\ UNCHANGED <<durable, journal, ckpt, blob, wf, link, radio, wire, air, dev, left>>
  BY DEF Completed, Unsubscribe, Head1, durable, radio
<1>1. /\ TypeOK /\ wf \in Workflows /\ fx \in Seq(Effects) /\ run \in Runs /\ run.dl = "none" /\ Done' = Done
      /\ Entitled(wf, fx, journal.verified, Done)
  BY <1>0, Running1 DEF Done
<1>2. CASE Completed
  <2>1. run' \in Runs /\ run'.pc = "cleanup" /\ run'.dl = "none" /\ UNCHANGED fx
    BY <1>1, <1>2 DEF Completed, Runs
  <2>2. TypeOK'
    BY <1>0, <1>1, <2>1 DEF TypeOK
  <2>3. OnAir' /\ Backed'
    BY <1>0, <2>1 DEF IInv, OnAir, Backed, Done
  <2>. QED
    BY <1>0, <2>1, <2>2, <2>3, Stops DEF IInv, Image, Running
<1>3. CASE Unsubscribe
  <2>1. fx' = Tail(fx) /\ run' = run
    BY <1>3 DEF Unsubscribe
  <2>2. fx' \in Seq(Effects) /\ Entitled(wf', fx', journal.verified, Done)
    BY <1>0, <1>1, <2>1, EntitledTail, Tails
  <2>3. TypeOK'
    BY <1>0, <1>1, <2>1, <2>2 DEF TypeOK
  <2>4. OnAir' /\ Backed' /\ Running'
    BY <1>0, <2>1 DEF IInv, OnAir, Backed, Done, Running
  <2>. QED
    BY <1>0, <1>1, <2>1, <2>2, <2>3, <2>4, Runs1
<1>. QED
  BY <1>2, <1>3

-----------------------------------------------------------------------------
(* The device, and the loss of the link *)

LEMMA DeviceKeeps ==
    ASSUME IInv, UNCHANGED <<durable, host, link>>, dev' \in Devices, left' \in Budgets,
           wire' \in Seq([k : Writes, seq : Nat, ok : BOOLEAN]), air' \in Seq(Notifications),
           Done => Done', \A i \in DOMAIN wire' : wire'[i].k # "start" => wire'[i].ok,
           \A i \in DOMAIN air' : (i \in DOMAIN air /\ air'[i] = air[i]) \/ (air'[i].k = "verified" => Done')
    PROVE  IInv'
<1>1. UNCHANGED <<journal, ckpt, blob, run, wf, fx, link>>
  BY DEF durable, host
<1>2. TypeOK'
  BY <1>1 DEF IInv, TypeOK
<1>3. OnAir' /\ Backed' /\ Image'
  BY <1>1 DEF IInv, OnAir, Backed, Image, Whole, Running
<1>. QED
  BY <1>1, <1>2, <1>3 DEF IInv, Entitled, Running

\* The first write is executed.
LEMMA Executing ==
    ASSUME IInv, NEW k, Executes(k)
    PROVE  /\ TypeOK /\ dev \in Devices /\ left \in Budgets /\ air \in Seq(Notifications)
           /\ wire' \in Seq([k : Writes, seq : Nat, ok : BOOLEAN])
           /\ \A i \in DOMAIN wire' : wire'[i].k # "start" => wire'[i].ok
           /\ Head(wire).ok \in BOOLEAN /\ Head(wire).seq \in Nat
<1>1. TypeOK /\ dev \in Devices /\ left \in Budgets /\ air \in Seq(Notifications)
      /\ wire \in Seq([k : Writes, seq : Nat, ok : BOOLEAN]) /\ wire # <<>> /\ wire' = Tail(wire)
  BY DEF IInv, TypeOK, Executes
<1>2. Head(wire) \in [k : Writes, seq : Nat, ok : BOOLEAN]
  BY <1>1, Tails
<1>. QED
  BY <1>1, <1>2, Tails DEF IInv, OnAir

LEMMA DeviceActsKeep == IInv /\ (DeviceStarts \/ DeviceWrites \/ DeviceVerifies \/ LoseData) => IInv'
<1>. SUFFICES ASSUME IInv, DeviceStarts \/ DeviceWrites \/ DeviceVerifies \/ LoseData PROVE IInv'
  OBVIOUS
<1>0. UNCHANGED <<durable, host, link>>
  BY DEF DeviceStarts, DeviceWrites, DeviceVerifies, LoseData
<1>1. PICK k : Executes(k)
  BY DEF DeviceStarts, DeviceWrites, DeviceVerifies, LoseData
<1>2. /\ TypeOK /\ dev \in Devices /\ left \in Budgets /\ air \in Seq(Notifications)
      /\ wire' \in Seq([k : Writes, seq : Nat, ok : BOOLEAN])
      /\ \A i \in DOMAIN wire' : wire'[i].k # "start" => wire'[i].ok
      /\ Head(wire).ok \in BOOLEAN /\ Head(wire).seq \in Nat
  BY <1>1, Executing
<1>3. left' \in Budgets
  BY <1>2, Budgeted DEF DeviceStarts, DeviceWrites, DeviceVerifies, LoseData
<1>4. ASSUME NEW n \in Notifications, Sends(n)
      PROVE  /\ air' \in Seq(Notifications)
             /\ \A i \in DOMAIN air' : (i \in DOMAIN air /\ air'[i] = air[i]) \/ air'[i] = n
  BY <1>2, <1>4, Appends DEF Sends
<1>5. ASSUME NEW m \in Nat, NEW a \in Nat, NEW b \in BOOLEAN, NEW c \in BOOLEAN
      PROVE  LET x == [dev EXCEPT !.file = m, !.ok = b, !.open = c, !.acked = a]
             IN x \in Devices /\ x.accepted = dev.accepted /\ x.version = dev.version
  BY <1>2 DEF Devices
<1>6. ASSUME NEW m \in Nat, NEW b \in BOOLEAN
      PROVE  LET x == [dev EXCEPT !.file = m, !.ok = b]
             IN /\ x \in Devices /\ x.accepted = dev.accepted /\ x.version = dev.version /\ x.file = m
                /\ [x EXCEPT !.acked = m] \in Devices /\ [x EXCEPT !.acked = m].accepted = dev.accepted
                /\ [x EXCEPT !.acked = m].version = dev.version
  BY <1>2 DEF Devices
<1>7. /\ LET x == [dev EXCEPT !.open = FALSE]
         IN x \in Devices /\ x.accepted = dev.accepted /\ x.version = dev.version
      /\ LET x == [dev EXCEPT !.open = FALSE, !.accepted = TRUE] IN x \in Devices /\ x.accepted
  BY <1>2 DEF Devices
<1>8. dev.file + 1 \in Nat /\ dev.ok \in BOOLEAN /\ (dev.ok /\ Head(wire).ok) \in BOOLEAN /\ 0 \in Nat
  BY <1>2 DEF Devices
<1>9. CASE DeviceStarts
  <2>1. CASE dev' = [dev EXCEPT !.file = 0, !.ok = TRUE, !.open = TRUE, !.acked = 0] /\ Sends([k |-> "ready", seq |-> 0])
    <3>1. dev' \in Devices /\ (Done => Done')
      BY <1>5, <1>8, <2>1 DEF Done
    <3>2. [k |-> "ready", seq |-> 0] \in Notifications
      BY DEF Notifications
    <3>. QED
      BY <1>0, <1>2, <1>3, <1>4, <2>1, <3>1, <3>2, DeviceKeeps
  <2>2. CASE Sends([k |-> "refused", seq |-> 0]) /\ UNCHANGED dev
    <3>1. [k |-> "refused", seq |-> 0] \in Notifications
      BY DEF Notifications
    <3>. QED
      BY <1>0, <1>2, <1>3, <1>4, <2>2, <3>1, DeviceKeeps DEF Done
  <2>. QED
    BY <1>9, <2>1, <2>2 DEF DeviceStarts
<1>10. CASE DeviceWrites
  <2> DEFINE d == [dev EXCEPT !.file = dev.file + 1, !.ok = dev.ok /\ Head(wire).ok]
  <2>1. /\ d \in Devices /\ d.accepted = dev.accepted /\ d.version = dev.version
        /\ [d EXCEPT !.acked = d.file] \in Devices /\ [d EXCEPT !.acked = d.file].accepted = dev.accepted
        /\ [d EXCEPT !.acked = d.file].version = dev.version
    <3>1. PICK m \in Nat, b \in BOOLEAN : m = dev.file + 1 /\ b = (dev.ok /\ Head(wire).ok)
      BY <1>8
    <3>2. d = [dev EXCEPT !.file = m, !.ok = b]
      BY <3>1
    <3>3. d.file = m
      BY ZenonT(60), <1>6, <3>2
    <3>. HIDE DEF d
    <3>. QED
      BY <1>6, <3>2, <3>3
  <2>2. \/ dev' = [d EXCEPT !.acked = d.file] /\ Sends([k |-> "ack", seq |-> Head(wire).seq])
        \/ dev' \in {d, dev} /\ UNCHANGED air
    BY <1>10 DEF DeviceWrites
  <2>3. dev' \in Devices /\ (Done => Done')
    <3>. HIDE DEF d
    <3>. QED
      BY <1>2, <2>1, <2>2 DEF Done
  <2>4. [k |-> "ack", seq |-> Head(wire).seq] \in Notifications
    BY <1>2 DEF Notifications
  <2>5. CASE Sends([k |-> "ack", seq |-> Head(wire).seq])
    BY <1>0, <1>2, <1>3, <1>4, <2>3, <2>4, <2>5, DeviceKeeps
  <2>6. CASE UNCHANGED air
    BY <1>0, <1>2, <1>3, <2>3, <2>6, DeviceKeeps
  <2>. HIDE DEF d
  <2>. QED
    BY <2>2, <2>5, <2>6
<1>11. CASE DeviceVerifies
  <2>1. CASE dev' = [dev EXCEPT !.open = FALSE, !.accepted = TRUE] /\ Sends([k |-> "verified", seq |-> 0])
    <3>1. dev' \in Devices /\ Done'
      BY <1>7, <2>1 DEF Done
    <3>2. [k |-> "verified", seq |-> 0] \in Notifications
      BY DEF Notifications
    <3>. QED
      BY <1>0, <1>2, <1>3, <1>4, <2>1, <3>1, <3>2, DeviceKeeps
  <2>2. CASE dev' = [dev EXCEPT !.open = FALSE] /\ Sends([k |-> "mismatch", seq |-> 0])
    <3>1. dev' \in Devices /\ (Done => Done')
      BY <1>7, <2>2 DEF Done
    <3>2. [k |-> "mismatch", seq |-> 0] \in Notifications
      BY DEF Notifications
    <3>. QED
      BY <1>0, <1>2, <1>3, <1>4, <2>2, <3>1, <3>2, DeviceKeeps
  <2>. QED
    BY <1>11, <2>1, <2>2 DEF DeviceVerifies
<1>12. CASE LoseData
  <2>1. dev' = [dev EXCEPT !.file = dev.file + 1, !.ok = FALSE] /\ UNCHANGED air
    BY <1>12 DEF LoseData
  <2>2. dev' \in Devices /\ (Done => Done')
    BY <1>6, <1>8, <2>1 DEF Done
  <2>. QED
    BY <1>0, <1>2, <1>3, <2>1, <2>2, DeviceKeeps
<1>. QED
  BY <1>9, <1>10, <1>11, <1>12

LEMMA LoseKeeps == IInv /\ LoseNotification => IInv'
<1>. SUFFICES ASSUME IInv, LoseNotification PROVE IInv'
  OBVIOUS
<1>1. /\ TypeOK /\ air \in Seq(Notifications) /\ air # <<>> /\ air' = Tail(air) /\ dev \in Devices
      /\ UNCHANGED <<durable, host, link, wire, dev>> /\ left' \in Budgets
      /\ wire \in Seq([k : Writes, seq : Nat, ok : BOOLEAN])
  BY Budgeted DEF LoseNotification, IInv, TypeOK
<1>2. air' \in Seq(Notifications) /\ \A i \in DOMAIN air' : air'[i].k = "verified" => Done
  BY <1>1, Tails DEF IInv, OnAir
<1>. QED
  BY <1>1, <1>2, DeviceKeeps DEF IInv, OnAir, Done

LEMMA DropKeeps == IInv /\ (DeviceReboots \/ LinkDrops) => IInv'
<1>. SUFFICES ASSUME IInv, DeviceReboots \/ LinkDrops PROVE IInv'
  OBVIOUS
<1>1. /\ TypeOK /\ wf \in Workflows /\ fx \in Seq(Effects) /\ dev \in Devices
      /\ link' = FALSE /\ wire' = <<>> /\ air' = <<>> /\ UNCHANGED <<journal, ckpt, blob, run>>
      /\ IF Running THEN Dispatched(Disconnected(wf)) ELSE UNCHANGED <<wf, fx>>
      /\ left' \in Budgets
  <2>1. TypeOK /\ wf \in Workflows /\ fx \in Seq(Effects) /\ dev \in Devices /\ left \in Budgets
    BY DEF IInv, TypeOK
  <2>2. Drop /\ left' \in Budgets
    BY <2>1, Budgeted DEF DeviceReboots, LinkDrops
  <2>. QED
    BY <2>1, <2>2 DEF Drop, durable
<1>2. dev' \in Devices /\ (Done => Done')
  <2>1. /\ LET x == [dev EXCEPT !.accepted = FALSE, !.version = "new", !.file = 0]
           IN x \in Devices /\ x.version = "new"
        /\ LET x == [dev EXCEPT !.open = FALSE]
           IN x \in Devices /\ x.accepted = dev.accepted /\ x.version = dev.version
    BY <1>1 DEF Devices
  <2>. QED
    BY <2>1 DEF DeviceReboots, LinkDrops, Done
<1>3. /\ wf' \in Workflows /\ fx' \in Seq(Effects) /\ (fx # <<>> => fx' # <<>> /\ Head(fx') = Head(fx))
      /\ Running => Entitled(wf', fx', journal.verified, Done)
  <2>1. CASE Running
    <3>1. /\ Entitled(wf, fx, journal.verified, Done) /\ Holds(wf, journal.verified, Done)
          /\ journal.verified \in BOOLEAN
      BY <2>1, Running1
    <3>2. Good(Disconnected(wf), journal.verified, Done) /\ Dispatched(Disconnected(wf))
      BY <1>1, <2>1, <3>1, Reconnects
    <3>. QED
      BY <1>1, <3>1, <3>2, Dispatching
  <2>2. CASE ~Running
    BY <1>1, <2>2
  <2>. QED
    BY <2>1, <2>2
<1>4. <<>> \in Seq([k : Writes, seq : Nat, ok : BOOLEAN]) /\ <<>> \in Seq(Notifications) /\ DOMAIN <<>> = {}
  OBVIOUS
<1>5. TypeOK'
  BY <1>1, <1>2, <1>3, <1>4 DEF TypeOK
<1>6. OnAir' /\ Backed' /\ (Running' <=> Running)
  BY <1>1, <1>2, <1>4 DEF IInv, OnAir, Backed, Running
<1>7. Image'
  BY <1>1, <1>3, <1>6 DEF IInv, Image, Whole
<1>8. Running => Entitled(wf', fx', journal.verified, Done')
  BY <1>2, <1>3 DEF Entitled
<1>. QED
  BY <1>1, <1>5, <1>6, <1>7, <1>8 DEF IInv

LEMMA ReloadKeeps == IInv /\ ReloadPage => IInv'
<1>. SUFFICES ASSUME IInv, ReloadPage PROVE IInv'
  OBVIOUS
<1>1. /\ run' = NoRun /\ wf' = NoWorkflow /\ fx' = <<>> /\ link' = FALSE /\ wire' = <<>> /\ air' = <<>>
      /\ dev' = [dev EXCEPT !.open = FALSE] /\ UNCHANGED <<journal, ckpt, blob>> /\ TypeOK /\ left' \in Budgets
      /\ dev \in Devices
  BY Budgeted DEF ReloadPage, durable, IInv, TypeOK
<1>2. dev' \in Devices /\ (Done => Done')
  BY <1>1 DEF Devices, Done
<1>3. <<>> \in Seq([k : Writes, seq : Nat, ok : BOOLEAN]) /\ <<>> \in Seq(Notifications) /\ DOMAIN <<>> = {}
  OBVIOUS
<1>4. run' \in Runs /\ run'.pc = "idle" /\ run'.dl = "none" /\ wf' \in Workflows /\ fx' \in Seq(Effects)
  BY <1>1, NoRunTyped DEF Ends
<1>5. TypeOK'
  BY <1>1, <1>2, <1>3, <1>4 DEF TypeOK
<1>6. OnAir' /\ Backed'
  BY <1>1, <1>2, <1>3, <1>4 DEF IInv, OnAir, Backed
<1>. QED
  BY <1>1, <1>4, <1>5, <1>6, Stops DEF IInv, Image, Running

-----------------------------------------------------------------------------
(* The theorems *)

LEMMA Starts == Init => IInv
<1>. SUFFICES ASSUME Init PROVE IInv
  OBVIOUS
<1>1. run \in Runs /\ run.pc = "idle" /\ run.dl = "none" /\ wf \in Workflows /\ fx \in Seq(Effects)
  BY NoRunTyped DEF Init, Ends
<1>2. /\ <<>> \in Seq([k : Writes, seq : Nat, ok : BOOLEAN]) /\ <<>> \in Seq(Notifications) /\ DOMAIN <<>> = {}
  OBVIOUS
<1>3. /\ dev \in Devices /\ left \in Budgets /\ blob \in [n : Nat, ok : BOOLEAN] /\ journal.verified = FALSE
      /\ journal \in [state : {"absent", "active", "cleanup_only"}, verified : BOOLEAN]
  BY FirmwareAssumption DEF Init, Devices, Budgets, NoBlob, NoJournal
<1>4. TypeOK
  BY <1>1, <1>2, <1>3 DEF Init, TypeOK
<1>5. OnAir /\ Backed /\ Image /\ ~Running
  BY <1>1, <1>2, <1>3 DEF Init, OnAir, Backed, Image, Running
<1>. QED
  BY <1>4, <1>5 DEF IInv

LEMMA HostKeeps == IInv /\ Host => IInv'
BY BeginsKeep, CleansKeep, StorageKeeps, ReadsKeep, DownloadsKeep, DownloadEndsKeep, WritesKeep, DeliverKeeps,
   TimersKeep, EndsKeep, HandsKeep
   DEF Host

LEMMA Keeps == IInv /\ [Next]_vars => IInv'
<1>. SUFFICES ASSUME IInv, [Next]_vars PROVE IInv'
  OBVIOUS
<1>1. CASE Host
  BY <1>1, HostKeeps
<1>2. CASE Device
  BY <1>2, DeviceActsKeep, DropKeeps DEF Device
<1>3. CASE Faults
  BY <1>3, DownloadEndsKeep, TimersKeep, DropKeeps, LoseKeeps, DeviceActsKeep, EndsKeep, ReloadKeeps DEF Faults
<1>4. CASE ConnectSettles \/ UpdateFirmware \/ ResumeFirmwareUpdate \/ CancelActive \/ CancelIdle
  BY <1>4, ReadsKeep, BeginsKeep, ResumeKeeps, CancelsKeep
<1>5. CASE UNCHANGED vars
  <2>1. UNCHANGED <<journal, ckpt, blob, run, wf, fx, link, wire, air, dev, left>>
    BY <1>5 DEF vars, durable, host, radio
  <2>2. TypeOK'
    BY <2>1 DEF IInv, TypeOK
  <2>3. OnAir' /\ Backed' /\ Image' /\ (Running' => Entitled(wf, fx, journal.verified, Done)')
    BY <2>1 DEF IInv, OnAir, Backed, Image, Done, Running, Whole, Entitled
  <2>. QED
    BY <2>2, <2>3 DEF IInv
<1>. QED
  BY <1>1, <1>2, <1>3, <1>4, <1>5 DEF Next

\* The inductive invariant: a workflow goes beyond the download, and asks for what belongs
\* to it, only with a verified image, and waits for the reboot only of an accepted one.
THEOREM Invariant == Spec => []IInv
<1>. QED
  BY Starts, Keeps, PTL DEF Spec

\* The journal, the checkpoint, the image, the call, the workflow and the device keep
\* their types.
THEOREM TypeInvariant == Spec => []TypeOK
<1>1. IInv => TypeOK
  BY DEF IInv
<1>. QED
  BY <1>1, Invariant, PTL

\* A stored checkpoint is one that its operation can resume from, the transfer is not
\* repeated only for an image that the device has accepted, and the device is sent
\* nothing but an image that passed its checks.
THEOREM CheckpointBackedHolds == Spec => []CheckpointBacked
<1>1. IInv => CheckpointBacked
  BY DEF IInv, OnAir, Backed, CheckpointBacked, Done
<1>. QED
  BY <1>1, Invariant, PTL

=============================================================================
