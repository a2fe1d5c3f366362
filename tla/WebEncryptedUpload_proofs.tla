------------------- MODULE WebEncryptedUpload_proofs -------------------
(***************************************************************************)
(* Proofs about WebEncryptedUpload, for every size of recording, of window *)
(* and of document, and every number of sessions, faults, losses and       *)
(* cancellations: the device deletes a recording only once the service     *)
(* holds it, a stored checkpoint is of the stored session and never ahead  *)
(* of the ciphertext that is staged, and in a transfer that begins with    *)
(* START host and device agree on what is sent next.                       *)
(***************************************************************************)
EXTENDS WebEncryptedUpload, FiniteSetTheorems, SequenceTheorems, TLAPS

-----------------------------------------------------------------------------
(* Types *)

PhaseSet == {"prepared", "transferring", "staged", "uploading", "cloud_completed", "confirmed"}
StoredPhases == PhaseSet \cup {"absent"}
Pcs == {"idle", "authorize", "open", "opening", "replaying", "receive", "repair", "repairing",
        "ack", "acking", "deliver", "confirm", "confirming", "confirmed"}
       \cup Storing \cup Cleaning \cup Asking \cup Signing
Outcomes == {"none", "ok", "error", "cancelled", "uncertain", "unfit", "refused", "rejected",
             "identity", "integrity", "mismatch", "protocol", "lossy", "timeout"}
Expected == {"none", "awaiting_control", "control_pending", "window", "paused", "repair",
             "manifest", "terminal", "confirming"}
Breaks == {"no", "lossy", "protocol"}
FrameKinds == {"none", "start_ack", "resume_accept", "resume_reject", "error", "data", "end",
               "manifest", "eof", "signed", "refused"}
RequestKinds == {"none", "blob", "commit", "start", "resume", "repair", "ack", "confirm"}

Checkpoints == [session : 0 .. MaxSessions, off : 0 .. Units, seq : Int]
FrameSet == [k : FrameKinds, seq : Int, last : Int, off : 0 .. Units]
Blobs == [k : {"none", "auth", "receipt"}, id : Nat, session : 0 .. MaxSessions]
Requests == [k : RequestKinds, off : 0 .. Units, miss : SUBSET Int]
Runs == [pc : Pcs, api : {"none", "sync", "resume"}, then : Outcomes, phase : StoredPhases,
         completed : BOOLEAN, session : 0 .. MaxSessions, ckpt : Checkpoints,
         rx : Checkpoints, pend : Checkpoints, pkts : SUBSET Int, miss : SUBSET Int,
         tc : Expected, repair : SUBSET Int, queue : Seq(FrameSet), held : Seq(FrameSet),
         reply : FrameSet, man : BOOLEAN, broken : Breaks, lost : BOOLEAN,
         blob : Blobs, sent : Nat, result : {"none", "signed", "refused"}]
Stores == [phase : StoredPhases, session : 0 .. MaxSessions, ckpt : Checkpoints,
           evidence : BOOLEAN]
Devices == [holds : BOOLEAN, mode : {"idle", "open"}, base : 0 .. Units, num : Int,
            acked : 0 .. Units, auth : 0 .. MaxSessions, receipt : 0 .. MaxSessions,
            signed : Blobs]
Clouds == [Sessions -> [body : 0 .. Units, manifest : BOOLEAN, completed : BOOLEAN]]
Lefts == [faults : Nat, aborts : Nat, lost : Nat, sessions : 0 .. MaxSessions]

RunOK == run \in Runs /\ IsFiniteSet(run.miss)
StoreOK == store \in Stores /\ body \in 0 .. Units /\ link \in {"down", "up", "poisoned"}
WireOK == wire \in Requests /\ IsFiniteSet(wire.miss)
RadioOK == WireOK /\ air \in Seq(FrameSet) /\ dev \in Devices
RestOK == cloud \in Clouds /\ left \in Lefts

TypeOK == RunOK /\ StoreOK /\ RadioOK /\ RestOK

-----------------------------------------------------------------------------
(* The inductive invariant *)

Early == {"idle", "provider", "saveOperation"} \cup Cleaning
Starting == run.pc = "saveOperation" \/ (run.pc = "provider" /\ run.api = "sync")
Working == run.pc \notin Early \/ (run.pc = "provider" /\ run.api = "resume")

\* A run works on the operation that is stored, with the checkpoint that is stored.
Fits ==
    /\ store.phase # "absent" => store.session \in Sessions
    /\ run.pc = "saveOperation" => run.session \in Sessions
    /\ run.pc = "provider" => /\ run.api # "none"
                              /\ run.api = "sync" => left.sessions > 0
    /\ Working => /\ store.phase # "absent" /\ store.session = run.session
                  /\ run.pc # "forget" => store.phase # "confirmed"
                  /\ run.pc \notin {"restart", "forget"} => run.ckpt = store.ckpt
    /\ Starting \/ run.pc \in {"restart", "truncate0"} => run.ckpt = NoCheckpoint
    /\ run.pc = "save" => run.pend.session = run.session /\ run.pend.off = body
    /\ run.pc = "dropBlob" => store.ckpt = NoCheckpoint \/ store.phase = "confirmed"

\* What the device has not answered is what the run waits for.
Asks ==
    wire.k # "none" => \/ run.pc = "signing" /\ wire.k = "blob"
                       \/ run.pc = "committing" /\ wire.k = "commit"
                       \/ run.pc = "opening" /\ wire.k \in {"start", "resume"}
                       \/ run.pc = "repairing" /\ wire.k = "repair"
                       \/ run.pc = "acking" /\ wire.k = "ack"
                       \/ run.pc = "confirming" /\ wire.k = "confirm"

Completed(s) == s \in Sessions /\ cloud[s].completed

\* The steps from the whole ciphertext to the receipt.
Chain ==
    /\ \A s \in Sessions : /\ cloud[s].completed => cloud[s].manifest
                           /\ cloud[s].manifest => cloud[s].body = Units
    /\ run.pc \in {"evidence", "staged", "uploading", "put"} => body = Units
    /\ run.pc \in {"manifest", "finalize"} => cloud[run.session].body = Units
    /\ run.pc = "finalize" => cloud[run.session].manifest
    /\ run.pc \in {"cloud", "deliver"} => Completed(run.session)

\* A receipt, wherever it is, is of a session that the service has completed.
Receipts ==
    /\ run.pc \in Signing => /\ run.blob.k \in {"auth", "receipt"}
                             /\ run.blob.session = run.session /\ run.blob.id > 0
    /\ run.pc \in Signing /\ run.blob.k = "receipt" => Completed(run.session)
    /\ dev.signed.k = "receipt" => Completed(dev.signed.session)
    /\ dev.receipt # 0 => Completed(dev.receipt)

\* The result that the writer of a receipt hears is of that receipt: the device has it.
InAir(id) == \E i \in DOMAIN air : air[i].k = "signed" /\ air[i].seq = id

Heard ==
    /\ run.pc \in Signing /\ dev.signed.k # "none" /\ dev.signed.id = run.blob.id
           => dev.signed.k = run.blob.k
    /\ run.pc \in Signing /\ run.blob.k = "receipt" /\ (run.result = "signed" \/ InAir(run.blob.id))
           => dev.receipt # 0
    /\ run.pc \in {"confirm", "confirming"} => dev.receipt # 0

IInv == TypeOK /\ Fits /\ Asks /\ Chain /\ Receipts /\ Heard /\ Custody /\ CheckpointBacked
-----------------------------------------------------------------------------
(* What the types say *)

LEMMA ConstantTypes ==
    /\ Units \in Nat \ {0} /\ Window \in Nat \ {0} /\ MaxSessions \in Nat \ {0}
    /\ BlobFrames \in Nat \ {0}
    /\ MaxFaults \in Nat /\ MaxAborts \in Nat /\ MaxLost \in Nat  BY UploadAssumption

LEMMA PcNames ==
    /\ {"saveOperation", "transferring", "truncate", "restart", "truncate0", "save", "evidence",
        "staged", "uploading", "cloud", "forget", "reload", "dropCheckpoint", "dropBlob",
        "dropOperation", "provider", "put", "manifest", "finalize", "receipt", "signing",
        "committing", "result", "idle", "authorize", "open", "opening", "replaying", "receive",
        "repair", "repairing", "ack", "acking", "deliver", "confirm", "confirming",
        "confirmed"} = Pcs  BY DEF Pcs, Storing, Cleaning, Asking, Signing

LEMMA EmptyTypes ==
    /\ NoCheckpoint \in Checkpoints /\ NoFrame \in FrameSet /\ NoBlob \in Blobs
    /\ NoRun \in Runs /\ NoRun.miss = {}
    /\ Nothing \in Requests /\ Nothing.miss = {}
    /\ IsFiniteSet({})
<1>1. -1 \in Int /\ 0 \in 0 .. MaxSessions /\ 0 \in 0 .. Units  BY ConstantTypes
<1>2. NoCheckpoint \in Checkpoints  BY <1>1 DEF NoCheckpoint, Checkpoints
<1>3. NoFrame \in FrameSet /\ NoBlob \in Blobs  BY <1>1 DEF NoFrame, FrameSet, FrameKinds, NoBlob, Blobs
<1>4. <<>> \in Seq(FrameSet)  OBVIOUS
<1>5. NoRun \in Runs /\ NoRun.miss = {}
  BY <1>1, <1>2, <1>3, <1>4, PcNames DEF NoRun, Runs, Outcomes, Expected, Breaks, StoredPhases
<1>6. Nothing \in Requests /\ Nothing.miss = {}  BY <1>1 DEF Nothing, Requests, RequestKinds
<1>. QED  BY <1>2, <1>3, <1>5, <1>6, FS_EmptySet

LEMMA RunFields ==
  ASSUME NEW r \in Runs
  PROVE  /\ r.pc \in Pcs /\ r.api \in {"none", "sync", "resume"} /\ r.then \in Outcomes
         /\ r.phase \in StoredPhases /\ r.completed \in BOOLEAN /\ r.session \in 0 .. MaxSessions
         /\ r.ckpt \in Checkpoints /\ r.rx \in Checkpoints /\ r.pend \in Checkpoints
         /\ r.pkts \in SUBSET Int /\ r.miss \in SUBSET Int /\ r.tc \in Expected
         /\ r.repair \in SUBSET Int /\ r.queue \in Seq(FrameSet) /\ r.held \in Seq(FrameSet)
         /\ r.reply \in FrameSet /\ r.man \in BOOLEAN /\ r.broken \in Breaks /\ r.lost \in BOOLEAN
         /\ r.blob \in Blobs /\ r.sent \in Nat /\ r.result \in {"none", "signed", "refused"}
  BY DEF Runs

LEMMA DeviceFields ==
  ASSUME NEW d \in Devices
  PROVE  /\ d.holds \in BOOLEAN /\ d.mode \in {"idle", "open"} /\ d.base \in 0 .. Units
         /\ d.num \in Int /\ d.acked \in 0 .. Units /\ d.auth \in 0 .. MaxSessions
         /\ d.receipt \in 0 .. MaxSessions /\ d.signed \in Blobs
  BY DEF Devices

LEMMA CheckpointFields ==
  ASSUME NEW c \in Checkpoints
  PROVE  c.session \in 0 .. MaxSessions /\ c.off \in 0 .. Units /\ c.seq \in Int
  BY DEF Checkpoints

LEMMA BlobFields ==
  ASSUME NEW b \in Blobs
  PROVE  b.k \in {"none", "auth", "receipt"} /\ b.id \in Nat /\ b.session \in 0 .. MaxSessions
  BY DEF Blobs

LEMMA FrameFields ==
  ASSUME NEW f \in FrameSet
  PROVE  f.k \in FrameKinds /\ f.seq \in Int /\ f.last \in Int /\ f.off \in 0 .. Units
  BY DEF FrameSet

\* The fields of what is typed.
LEMMA Fields ==
  ASSUME TypeOK
  PROVE  /\ run \in Runs /\ store \in Stores /\ wire \in Requests /\ dev \in Devices
         /\ cloud \in Clouds /\ left \in Lefts
         /\ store.phase \in StoredPhases /\ store.session \in 0 .. MaxSessions
         /\ store.ckpt \in Checkpoints /\ store.evidence \in BOOLEAN /\ body \in 0 .. Units
         /\ wire.k \in RequestKinds /\ wire.off \in 0 .. Units /\ wire.miss \in SUBSET Int
         /\ IsFiniteSet(wire.miss) /\ IsFiniteSet(run.miss) /\ air \in Seq(FrameSet)
         /\ left.sessions \in 0 .. MaxSessions /\ left.faults \in Nat /\ left.lost \in Nat
         /\ left.aborts \in Nat /\ link \in {"down", "up", "poisoned"}
<1>1. /\ run \in Runs /\ store \in Stores /\ wire \in Requests /\ dev \in Devices
      /\ cloud \in Clouds /\ left \in Lefts /\ body \in 0 .. Units
      /\ IsFiniteSet(wire.miss) /\ IsFiniteSet(run.miss) /\ air \in Seq(FrameSet)
      /\ link \in {"down", "up", "poisoned"}  BY DEF TypeOK, RunOK, StoreOK, WireOK, RadioOK, RestOK
<1>2. /\ store.phase \in StoredPhases /\ store.session \in 0 .. MaxSessions
      /\ store.ckpt \in Checkpoints /\ store.evidence \in BOOLEAN  BY <1>1 DEF Stores
<1>3. wire.k \in RequestKinds /\ wire.off \in 0 .. Units /\ wire.miss \in SUBSET Int  BY <1>1 DEF Requests
<1>4. /\ left.sessions \in 0 .. MaxSessions /\ left.faults \in Nat /\ left.lost \in Nat
      /\ left.aborts \in Nat  BY <1>1 DEF Lefts
<1>. QED  BY <1>1, <1>2, <1>3, <1>4

\* The first frame of a sequence, and the rest.
LEMMA TakeType ==
  ASSUME NEW q \in Seq(FrameSet), q # <<>>
  PROVE  /\ Head(q) \in FrameSet /\ Tail(q) \in Seq(FrameSet)
         /\ Head(q).off \in 0 .. Units /\ Head(q).seq \in Int /\ Head(q).last \in Int
<1>1. Head(q) \in FrameSet /\ Tail(q) \in Seq(FrameSet)  BY HeadTailProperties
<1>. QED  BY <1>1, FrameFields

\* What is taken from the air was in it, what stays in it too.
LEMMA TailInAir ==
  ASSUME TypeOK, air # <<>>, air' = Tail(air)
  PROVE  /\ Head(air).k = "signed" => InAir(Head(air).seq)
         /\ \A id : InAir(id)' => InAir(id)
<1>1. air \in Seq(FrameSet) /\ Len(air) \in Nat \ {0} /\ DOMAIN air = 1 .. Len(air) /\ Head(air) = air[1]
  BY Fields
<1>2. /\ DOMAIN Tail(air) = 1 .. Len(air) - 1
      /\ \A i \in 1 .. Len(air) - 1 : Tail(air)[i] = air[i + 1]  BY <1>1
<1>3. Head(air).k = "signed" => InAir(Head(air).seq)  BY <1>1 DEF InAir
<1>4. ASSUME NEW id, InAir(id)'  PROVE InAir(id)
  <2>1. PICK i \in DOMAIN Tail(air) : Tail(air)[i].k = "signed" /\ Tail(air)[i].seq = id  BY <1>4 DEF InAir
  <2>2. i + 1 \in DOMAIN air /\ air[i + 1] = Tail(air)[i]  BY <1>1, <1>2, <2>1
  <2>. QED  BY <2>1, <2>2 DEF InAir
<1>. QED  BY <1>3, <1>4

-----------------------------------------------------------------------------
(* Frames *)

\* Accepting a frame changes what the control expects and its queue alone.
LEMMA AcceptType ==
  ASSUME NEW r \in Runs, NEW f \in FrameSet
  PROVE  /\ Accept(r, f) \in Runs
         /\ \E tc \in Expected, repair \in SUBSET Int, queue \in Seq(FrameSet), broken \in Breaks :
               Accept(r, f) = [r EXCEPT !.tc = tc, !.repair = repair, !.queue = queue,
                                        !.broken = broken]
<1>. DEFINE Form(x) == \E tc \in Expected, repair \in SUBSET Int, queue \in Seq(FrameSet), broken \in Breaks :
               x = [r EXCEPT !.tc = tc, !.repair = repair, !.queue = queue, !.broken = broken]
            Push(tc, repair) == [r EXCEPT !.tc = tc, !.repair = repair, !.queue = Append(@, f)]
<1>1. /\ r.queue \in Seq(FrameSet) /\ r.tc \in Expected /\ r.repair \in SUBSET Int
      /\ r.broken \in Breaks  BY RunFields
<1>2. Append(r.queue, f) \in Seq(FrameSet)  BY <1>1, AppendProperties
<1>3. Form(r)
  <2>1. r = [r EXCEPT !.tc = r.tc, !.repair = r.repair, !.queue = r.queue, !.broken = r.broken]  BY DEF Runs
  <2>. QED  BY <1>1, <2>1, Zenon
<1>4. ASSUME NEW tc \in Expected, NEW repair \in SUBSET Int
      PROVE  Form(Push(tc, repair))
  <2>1. Push(tc, repair) = [r EXCEPT !.tc = tc, !.repair = repair, !.queue = Append(r.queue, f),
                                     !.broken = r.broken]
    BY DEF Runs
  <2>. DEFINE q == Append(r.queue, f)
              x == Push(tc, repair)
  <2>2. q \in Seq(FrameSet) /\ x = [r EXCEPT !.tc = tc, !.repair = repair, !.queue = q,
                                            !.broken = r.broken]
    BY <1>2, <2>1
  <2>. HIDE DEF Push, q, x
  <2>3. Form(x)  BY <1>1, <2>2, Zenon
  <2>. QED  BY <2>3 DEF x
<1>5. ASSUME NEW why \in {"lossy", "protocol"}  PROVE Form(Break(r, why))
  <2>1. <<>> \in Seq(FrameSet)  OBVIOUS
  <2>2. PICK b \in Breaks : b = IF r.broken = "no" THEN why ELSE r.broken  BY <1>1 DEF Breaks
  <2>3. Break(r, why) = [r EXCEPT !.tc = r.tc, !.repair = r.repair, !.queue = <<>>, !.broken = b]
    BY <2>2 DEF Runs, Break
  <2>. QED  BY <1>1, <2>1, <2>3, Zenon
<1>6. r.repair \ {f.seq} \in SUBSET Int /\ {} \in SUBSET Int  BY <1>1
<1>7. Form(Push("window", {})) /\ Form(Push("paused", {})) /\ Form(Push("manifest", {}))
      /\ Form(Push("terminal", {})) /\ Form(Push("repair", r.repair \ {f.seq}))
      /\ Form(Break(r, "lossy")) /\ Form(Break(r, "protocol"))
  <2>1. /\ "window" \in Expected /\ "paused" \in Expected /\ "manifest" \in Expected
        /\ "terminal" \in Expected /\ "repair" \in Expected  BY DEF Expected
  <2>. HIDE DEF Form, Push
  <2>. QED  BY <1>4, <1>5, <1>6, <2>1
<1>8. Accept(r, f) \in {r, Push("window", {}), Push("paused", {}), Push("manifest", {}),
         Push("terminal", {}), Push("repair", r.repair \ {f.seq}), Break(r, "lossy"),
         Break(r, "protocol")}
  <2>. HIDE DEF Push
  <2>. QED  BY DEF Accept, Push
<1>9. Form(Accept(r, f))
  <2>. HIDE DEF Form, Push
  <2>. QED  BY <1>3, <1>7, <1>8
<1>10. Accept(r, f) \in Runs
  <2>1. PICK tc \in Expected, repair \in SUBSET Int, queue \in Seq(FrameSet), broken \in Breaks :
          Accept(r, f) = [r EXCEPT !.tc = tc, !.repair = repair, !.queue = queue,
                                   !.broken = broken]
    BY <1>9
  <2>2. [r EXCEPT !.tc = tc, !.repair = repair, !.queue = queue, !.broken = broken] \in Runs
    BY DEF Runs, Breaks
  <2>. QED  BY <2>1, <2>2
<1>. QED  BY <1>9, <1>10

\* A finite set of numbers, in some order.
LEMMA SetToSeqType ==
  ASSUME NEW S \in SUBSET Int, IsFiniteSet(S)
  PROVE  SetToSeq(S) \in Seq(Int)
<1>1. Cardinality(S) \in Nat /\ ExistsBijection(1 .. Cardinality(S), S)  BY FS_CardinalityType
<1>2. \E f \in [1 .. Cardinality(S) -> S] : IsInjective(f)
  BY <1>1, Zenon DEF ExistsBijection, Bijection, Injection
<1>3. SetToSeq(S) \in [1 .. Cardinality(S) -> S]  BY <1>2, Zenon DEF SetToSeq
<1>4. \A i \in 1 .. Cardinality(S) : SetToSeq(S)[i] \in Int  BY <1>1, <1>3
<1>5. ASSUME NEW q, q = SetToSeq(S), NEW n \in Nat, n = Cardinality(S)
      PROVE  q \in Seq(Int)
  <2>1. q \in [1 .. n -> Int]  BY <1>3, <1>4, <1>5
  <2>. QED  BY <2>1
<1>. QED  BY <1>1, <1>5

\* The device sends frames, whatever it is asked for.
LEMMA WindowFramesType ==
  ASSUME NEW base \in 0 .. Units, NEW num \in Int, NEW packets \in Seq(Int)
  PROVE  WindowFrames(base, num, packets) \in Seq(FrameSet)
<1>. DEFINE data(i) == [NoFrame EXCEPT !.k = "data", !.seq = packets[i]]
            Data == [i \in 1 .. Len(packets) |-> data(i)]
            end == [k |-> "end", seq |-> base + 1 - num, last |-> WindowEnd(base) - num,
                    off |-> WindowEnd(base)]
<1>1. WindowEnd(base) \in 0 .. Units  BY ConstantTypes DEF WindowEnd
<1>2. end \in FrameSet  BY <1>1, ConstantTypes DEF FrameSet, FrameKinds
<1>3. ASSUME NEW i \in 1 .. Len(packets)  PROVE data(i) \in FrameSet
  <2>1. packets[i] \in Int  BY ElementOfSeq
  <2>2. ASSUME NEW n \in Int  PROVE [NoFrame EXCEPT !.k = "data", !.seq = n] \in FrameSet
    BY EmptyTypes DEF FrameSet, FrameKinds, NoFrame
  <2>. QED  BY <2>1, <2>2
<1>. HIDE DEF data, end
<1>4. Len(packets) \in Nat  OBVIOUS
<1>5. Data \in Seq(FrameSet)  BY <1>3, <1>4
<1>. HIDE DEF Data
<1>6. Append(Data, end) \in Seq(FrameSet)  BY <1>2, <1>5, AppendProperties
<1>. QED  BY <1>6 DEF WindowFrames, Data, data, end

LEMMA FramesType ==
  ASSUME NEW base \in 0 .. Units, NEW num \in Int
  PROVE  Frames(base, num) \in Seq(FrameSet)
<1>1. CASE base = Units
  <2>. DEFINE m == [NoFrame EXCEPT !.k = "manifest"]
              e == [NoFrame EXCEPT !.k = "eof", !.seq = Units - num]
  <2>1. m \in FrameSet /\ e \in FrameSet
    <3>1. Units - num \in Int  BY ConstantTypes
    <3>. QED  BY <3>1, EmptyTypes DEF FrameSet, FrameKinds, NoFrame
  <2>. HIDE DEF m, e
  <2>2. <<m, e>> \in Seq(FrameSet)  BY <2>1
  <2>. QED  BY <1>1, <2>2 DEF Frames, ManifestFrames, m, e
<1>2. CASE base # Units
  <2>1. WindowEnd(base) - base \in Nat  BY ConstantTypes DEF WindowEnd
  <2>2. [i \in 1 .. WindowEnd(base) - base |-> base + i - num] \in Seq(Int)  BY <2>1
  <2>. QED  BY <1>2, <2>2, WindowFramesType DEF Frames
<1>. QED  BY <1>1, <1>2

-----------------------------------------------------------------------------
(* What a step leaves as it was *)

\* The fields of the run that the invariant is about, but for the program counter.
Holding == /\ run'.api = run.api /\ run'.session = run.session /\ run'.ckpt = run.ckpt
           /\ run'.pend = run.pend /\ run'.blob = run.blob /\ run'.result = run.result

Grounded(s) == /\ cloud[s].completed => cloud[s].manifest
               /\ cloud[s].manifest => cloud[s].body = Units

\* The service takes nothing back.
Grows == /\ \A s \in Sessions : Grounded(s)'
         /\ \A s : Completed(s) => Completed(s)'

LEMMA SameCloud == IInv /\ cloud' = cloud => Grows
  BY DEF IInv, Chain, Grows, Grounded, Completed

\* A run that only moves on.
LEMMA GotoFacts ==
  ASSUME TypeOK, NEW pc \in Pcs, Goto(pc)
  PROVE  RunOK' /\ run'.pc = pc /\ Holding /\ run'.tc = run.tc
<1>1. run \in Runs /\ IsFiniteSet(run.miss)  BY DEF TypeOK, RunOK
<1>2. run' \in Runs /\ run'.miss = run.miss  BY <1>1 DEF Goto, Runs
<1>3. run'.pc = pc /\ Holding /\ run'.tc = run.tc  BY <1>1 DEF Goto, Runs, Holding
<1>. QED  BY <1>1, <1>2, <1>3 DEF RunOK

\* What is stored is as it was, and so is what the run has of it.
LEMMA FitsKept ==
  ASSUME IInv, store' = store, body' = body, Holding,
         run.pc \notin Early \cup {"restart", "forget", "truncate0"},
         run'.pc \notin Early \cup {"restart", "forget", "truncate0", "save"}
  PROVE  Fits' /\ CheckpointBacked'
<1>1. run.pc # "provider" /\ run'.pc # "provider" /\ Working /\ ~(Starting')
      /\ run'.pc \notin {"saveOperation", "dropBlob"}  BY DEF Early, Working, Starting, Cleaning
<1>2. Fits'  BY <1>1 DEF IInv, Fits, Holding, Working
<1>. QED  BY <1>2 DEF IInv, CheckpointBacked

\* The writer is not at work, and no receipt is confirmed but one the device has.
LEMMA ReceiptsKept ==
  ASSUME IInv, Grows, dev'.holds = dev.holds, dev'.receipt \in {dev.receipt, 0},
         dev'.signed \in {dev.signed, NoBlob}, run'.pc \notin Signing,
         run'.pc \in {"confirm", "confirming"} => dev'.receipt # 0
  PROVE  Receipts' /\ Heard' /\ Custody'
<1>1. NoBlob.k = "none"  BY DEF NoBlob
<1>2. Receipts'  BY <1>1 DEF IInv, Receipts, Grows
<1>3. Heard'  BY DEF Heard
<1>4. Custody'  BY DEF IInv, Custody, Chain, Grows, Grounded, Completed
<1>. QED  BY <1>2, <1>3, <1>4

\* A run that has ended, well or not.
LEMMA EndsKeep ==
  ASSUME IInv, RunOK', RadioOK', RestOK', run'.pc \in {"idle", "reload"}, wire'.k = "none",
         dev'.holds = dev.holds, dev'.receipt \in {dev.receipt, 0},
         dev'.signed \in {dev.signed, NoBlob}, Grows,
         store' = store, body' \in body .. Units, link' \in {"down", "up", "poisoned"}
  PROVE  IInv'
<1>1. store \in Stores /\ body \in 0 .. Units /\ store.ckpt.off \in 0 .. Units /\ Units \in Nat
  BY Fields, CheckpointFields, ConstantTypes DEF IInv
<1>2. TypeOK'
  <2>1. body' \in 0 .. Units  BY <1>1
  <2>. QED  BY <1>1, <2>1 DEF TypeOK, StoreOK
<1>3. run'.pc \notin Signing /\ run'.pc \in Early
      /\ run'.pc \notin {"restart", "truncate0", "save", "dropBlob", "saveOperation", "provider",
                         "confirm", "confirming"}
  BY DEF Signing, Early, Cleaning
<1>4. Fits'  BY <1>3 DEF IInv, Fits, Working, Starting
<1>5. CheckpointBacked'  BY <1>1 DEF IInv, CheckpointBacked
<1>6. Asks'  BY DEF Asks
<1>7. Chain'
  <2>1. run'.pc \notin {"evidence", "staged", "uploading", "put", "manifest", "finalize", "cloud",
                        "deliver"}
    OBVIOUS
  <2>. QED  BY <2>1 DEF Chain, Grows, Grounded
<1>8. Receipts' /\ Heard' /\ Custody'  BY <1>3, ReceiptsKept
<1>. QED  BY <1>2, <1>4, <1>5, <1>6, <1>7, <1>8 DEF IInv

\* Settle and Failed leave nothing of the run but its outcome.
LEMMA SettleFacts ==
  ASSUME NEW e \in Outcomes, Settle(e)
  PROVE  RunOK' /\ run'.pc = "idle"
<1>1. run' \in Runs /\ run'.miss = {} /\ run'.pc = "idle"
  <2>1. NoRun.pc = "idle"  BY DEF NoRun
  <2>2. run' \in Runs  BY EmptyTypes DEF Settle, Runs
  <2>3. run'.miss = {} /\ run'.pc = "idle"  BY <2>1, EmptyTypes DEF Settle, Runs
  <2>. QED  BY <2>2, <2>3
<1>. QED  BY <1>1, EmptyTypes DEF RunOK

LEMMA FailedFacts ==
  ASSUME NEW e \in Outcomes, run' = Failed(e)
  PROVE  RunOK' /\ run'.pc \in {"idle", "reload"}
<1>1. "idle" \in Pcs /\ "reload" \in Pcs  BY PcNames
<1>2. ASSUME NEW pc \in {"idle", "reload"}
      PROVE  LET r == [NoRun EXCEPT !.pc = pc, !.then = e] IN
             r \in Runs /\ r.miss = {} /\ r.pc = pc
  BY <1>1, EmptyTypes DEF Runs
<1>3. CASE CleansUp(e)
  <2>1. run' = [NoRun EXCEPT !.pc = "reload", !.then = e]  BY <1>3 DEF Failed
  <2>2. run' \in Runs /\ run'.miss = {} /\ run'.pc = "reload"  BY <1>2, <2>1
  <2>. QED  BY <2>2, EmptyTypes DEF RunOK
<1>4. CASE ~CleansUp(e)
  <2>1. run' = [NoRun EXCEPT !.pc = "idle", !.then = e]  BY <1>4 DEF Failed
  <2>2. run' \in Runs /\ run'.miss = {} /\ run'.pc = "idle"  BY <1>2, <2>1
  <2>. QED  BY <2>2, EmptyTypes DEF RunOK
<1>. QED  BY <1>3, <1>4

LEMMA FailKeeps ==
  ASSUME IInv, NEW e \in Outcomes, Fail(e), RestOK', Grows, store' = store,
         body' \in body .. Units, link' = link
  PROVE  IInv'
<1>1. TypeOK /\ dev \in Devices /\ link \in {"down", "up", "poisoned"}  BY Fields DEF IInv
<1>2. RunOK' /\ run'.pc \in {"idle", "reload"}  BY FailedFacts DEF Fail
<1>3. wire' = Nothing /\ air' = <<>> /\ wire'.k = "none"  BY DEF Fail, Nothing
<1>4. PICK b \in {NoBlob, dev.signed} : dev' = [dev EXCEPT !.mode = "idle", !.signed = b]  BY DEF Fail
<1>5. b \in Blobs  BY <1>1, EmptyTypes, DeviceFields
<1>6. dev' \in Devices /\ dev'.holds = dev.holds /\ dev'.receipt = dev.receipt /\ dev'.signed = b
  BY <1>1, <1>4, <1>5 DEF Devices
<1>7. RadioOK'  BY <1>3, <1>6, EmptyTypes DEF RadioOK, WireOK
<1>. QED  BY <1>1, <1>2, <1>3, <1>4, <1>6, <1>7, EndsKeep

\* What a fault costs.
LEMMA FaultFacts == TypeOK /\ Fault => left' \in Lefts
  BY Fields DEF Fault, Lefts

LEMMA OutcomeNames ==
    /\ "none" \in Outcomes /\ "ok" \in Outcomes /\ "error" \in Outcomes
    /\ "cancelled" \in Outcomes /\ "uncertain" \in Outcomes /\ "unfit" \in Outcomes
    /\ "refused" \in Outcomes /\ "rejected" \in Outcomes /\ "identity" \in Outcomes
    /\ "integrity" \in Outcomes /\ "mismatch" \in Outcomes /\ "protocol" \in Outcomes
    /\ "lossy" \in Outcomes /\ "timeout" \in Outcomes  BY DEF Outcomes

\* The common case of a failure: nothing but the run and the radio changes.
LEMMA JustFails ==
  ASSUME IInv, NEW e \in Outcomes, Fail(e), UNCHANGED <<store, body, link, cloud>>,
         left' \in Lefts
  PROVE  IInv'
<1>1. Grows /\ RestOK'  BY SameCloud DEF IInv, TypeOK, RestOK
<1>2. body' \in body .. Units  BY Fields, ConstantTypes DEF IInv
<1>. QED  BY <1>1, <1>2, FailKeeps

\* Where a run says something of the ciphertext or of the service.
Chained == {"evidence", "staged", "uploading", "put", "manifest", "finalize", "cloud", "deliver"}

LEMMA ChainFree == Grows /\ run'.pc \notin Chained => Chain'
  BY DEF Chain, Grows, Grounded, Chained

\* Where a write may be unanswered.
Writing == {"signing", "committing", "opening", "repairing", "acking", "confirming"}

LEMMA NoWrite == IInv /\ run.pc \notin Writing => wire.k = "none"
  BY DEF IInv, Asks, Writing

\* A step of the host that leaves the radio alone.
LEMMA QuietKeeps ==
  ASSUME IInv, RunOK', StoreOK', RestOK', UNCHANGED radio, wire.k = "none",
         Fits', CheckpointBacked', Chain', Grows, run'.pc \notin Signing,
         run'.pc \in {"confirm", "confirming"} => dev.receipt # 0
  PROVE  IInv'
<1>1. wire' = wire /\ air' = air /\ dev' = dev  BY DEF radio
<1>2. TypeOK'  BY <1>1 DEF IInv, TypeOK, RadioOK, WireOK
<1>3. Asks'  BY <1>1 DEF Asks
<1>4. Receipts' /\ Heard' /\ Custody'  BY <1>1, ReceiptsKept
<1>. QED  BY <1>2, <1>3, <1>4 DEF IInv

-----------------------------------------------------------------------------
(* The application and the provider *)

LEMMA NewSessionType == TypeOK /\ left.sessions > 0 => NewSession \in Sessions
  BY Fields, ConstantTypes DEF NewSession, Sessions

LEMMA SpendSession ==
  ASSUME TypeOK, left.sessions > 0, left' = [left EXCEPT !.sessions = @ - 1]
  PROVE  left' \in Lefts
<1>1. left.sessions - 1 \in 0 .. MaxSessions  BY SMTT(60), Fields, ConstantTypes
<1>. QED  BY <1>1, Fields DEF Lefts

LEMMA SyncKeeps == IInv /\ Sync => IInv'
<1>. SUFFICES ASSUME IInv, Sync  PROVE IInv'  OBVIOUS
<1>1. /\ UNCHANGED <<store, body, link, radio, cloud, left>> /\ run.pc = "idle"
      /\ run' = [NoRun EXCEPT !.pc = "provider", !.api = "sync"] /\ left.sessions > 0  BY DEF Sync, durable
<1>2. run' \in Runs /\ run'.miss = {} /\ run'.pc = "provider" /\ run'.api = "sync"
      /\ run'.ckpt = NoCheckpoint
  <2>1. NoRun.ckpt = NoCheckpoint  BY DEF NoRun
  <2>2. NoRun \in Runs /\ NoRun.miss = {} /\ "provider" \in Pcs  BY EmptyTypes, PcNames
  <2>. QED  BY <1>1, <2>1, <2>2 DEF Runs
<1>3. RunOK' /\ StoreOK' /\ RestOK' /\ Grows
  BY <1>1, <1>2, EmptyTypes, SameCloud DEF IInv, TypeOK, RunOK, StoreOK, RestOK
<1>4. Fits' /\ CheckpointBacked'  BY <1>1, <1>2 DEF IInv, Fits, CheckpointBacked, Working, Starting, Early
<1>5. run'.pc \notin Signing /\ run'.pc \notin Chained /\ wire.k = "none"
  BY <1>1, <1>2, NoWrite DEF Signing, Chained, Writing
<1>. QED  BY <1>1, <1>2, <1>3, <1>4, <1>5, ChainFree, QuietKeeps

LEMMA ResumeKeeps == IInv /\ Resume => IInv'
<1>. SUFFICES ASSUME IInv, Resume  PROVE IInv'  OBVIOUS
<1>1. UNCHANGED <<store, body, link, radio, cloud, left>> /\ run.pc = "idle"
      /\ store.phase # "absent"  BY DEF Resume, durable
<1>2. wire.k = "none" /\ StoreOK' /\ RestOK' /\ Grows
  BY <1>1, NoWrite, SameCloud DEF Writing, IInv, TypeOK, StoreOK, RestOK
<1>3. CASE store.phase = "confirmed"
  <2>1. run' = [NoRun EXCEPT !.pc = "dropBlob", !.api = "resume", !.then = "ok"]  BY <1>3 DEF Resume
  <2>2. run' \in Runs /\ run'.miss = {} /\ run'.pc = "dropBlob"
    <3>1. NoRun \in Runs /\ NoRun.miss = {} /\ "dropBlob" \in Pcs /\ "ok" \in Outcomes
      BY EmptyTypes, PcNames, OutcomeNames
    <3>. QED  BY <2>1, <3>1 DEF Runs
  <2>3. Fits' /\ CheckpointBacked'  BY <1>1, <1>3, <2>2
       DEF IInv, Fits, CheckpointBacked, Working, Starting, Early, Cleaning
  <2>4. RunOK' /\ run'.pc \notin Signing /\ run'.pc \notin Chained
    BY <2>2, EmptyTypes DEF RunOK, Signing, Chained
  <2>. QED  BY <1>1, <1>2, <2>2, <2>3, <2>4, ChainFree, QuietKeeps
<1>4. CASE store.phase # "confirmed" /\ Settle("unfit")
  <2>1. RunOK' /\ run'.pc = "idle"  BY <1>4, SettleFacts, OutcomeNames
  <2>2. body' \in body .. Units /\ dev' = dev /\ wire' = wire /\ air' = air
    BY <1>1, Fields, ConstantTypes DEF IInv, radio
  <2>3. RadioOK' /\ link' \in {"down", "up", "poisoned"}
    BY <1>1, <2>2, Fields DEF IInv, TypeOK, RadioOK, WireOK
  <2>. QED  BY <1>1, <1>2, <2>1, <2>2, <2>3, EndsKeep
<1>5. CASE store.phase # "confirmed" /\ ~Settle("unfit")
  <2>1. PICK c \in BOOLEAN : c = (store.phase = "cloud_completed")  OBVIOUS
  <2>2. run' = [NoRun EXCEPT !.pc = "provider", !.api = "resume", !.phase = store.phase,
                             !.session = store.session, !.ckpt = store.ckpt, !.completed = c]
    BY <1>5, <2>1 DEF Resume
  <2>3. run' \in Runs /\ run'.miss = {} /\ run'.pc = "provider" /\ run'.api = "resume"
        /\ run'.session = store.session /\ run'.ckpt = store.ckpt
    <3>1. store.phase \in StoredPhases /\ store.session \in 0 .. MaxSessions
          /\ store.ckpt \in Checkpoints /\ NoRun \in Runs /\ NoRun.miss = {} /\ "provider" \in Pcs
      BY Fields, EmptyTypes, PcNames DEF IInv
    <3>. DEFINE v == [NoRun EXCEPT !.pc = "provider", !.api = "resume"]
                w == [v EXCEPT !.phase = store.phase, !.session = store.session]
    <3>2. v \in Runs /\ v.miss = {} /\ v.pc = "provider" /\ v.api = "resume"  BY <3>1 DEF Runs
    <3>3. run' = [w EXCEPT !.ckpt = store.ckpt, !.completed = c]  BY <2>2
    <3>. HIDE DEF v
    <3>4. w \in Runs /\ w.miss = {} /\ w.pc = "provider" /\ w.api = "resume"
          /\ w.session = store.session
      BY <3>1, <3>2 DEF Runs
    <3>. HIDE DEF w
    <3>5. run' \in Runs  BY <2>1, <3>1, <3>3, <3>4 DEF Runs
    <3>6. /\ run'.miss = {} /\ run'.pc = "provider" /\ run'.api = "resume"
          /\ run'.session = store.session /\ run'.ckpt = store.ckpt
      BY <3>3, <3>4 DEF Runs
    <3>. QED  BY <3>5, <3>6
  <2>4. Fits' /\ CheckpointBacked'  BY <1>1, <1>5, <2>3
       DEF IInv, Fits, CheckpointBacked, Working, Starting, Early, Cleaning
  <2>5. RunOK' /\ run'.pc \notin Signing /\ run'.pc \notin Chained
    BY <2>3, EmptyTypes DEF RunOK, Signing, Chained
  <2>. QED  BY <1>1, <1>2, <2>3, <2>4, <2>5, ChainFree, QuietKeeps
<1>. QED  BY <1>3, <1>4, <1>5

LEMMA ProvidedKeeps == IInv /\ Provided => IInv'
<1>. SUFFICES ASSUME IInv, Provided  PROVE IInv'  OBVIOUS
<1>1. UNCHANGED <<store, body, link, radio, cloud>> /\ run.pc = "provider" /\ TypeOK
  BY DEF Provided, durable, IInv
<1>2. wire.k = "none" /\ StoreOK' /\ Grows  BY <1>1, NoWrite, SameCloud DEF Writing, IInv, TypeOK, StoreOK
<1>3. CASE run.api = "sync"
  <2>1. /\ run' = [run EXCEPT !.pc = "saveOperation", !.session = NewSession]
        /\ left' = [left EXCEPT !.sessions = @ - 1]  BY <1>3 DEF Provided
  <2>2. NewSession \in Sessions /\ NewSession \in 0 .. MaxSessions /\ left' \in Lefts
    <3>1. left.sessions > 0  BY <1>1, <1>3 DEF IInv, Fits, Starting
    <3>2. NewSession \in Sessions  BY <1>1, <3>1, NewSessionType
    <3>. QED  BY <1>1, <2>1, <3>1, <3>2, SpendSession, ConstantTypes DEF Sessions
  <2>3. run' \in Runs /\ run'.miss = run.miss /\ run'.pc = "saveOperation"
        /\ run'.session = NewSession /\ run'.ckpt = run.ckpt
    <3>1. run \in Runs /\ "saveOperation" \in Pcs  BY <1>1, Fields, PcNames
    <3>2. ASSUME NEW s \in 0 .. MaxSessions
          PROVE  LET r == [run EXCEPT !.pc = "saveOperation", !.session = s] IN
                 /\ r \in Runs /\ r.miss = run.miss /\ r.pc = "saveOperation"
                 /\ r.session = s /\ r.ckpt = run.ckpt
      BY <3>1 DEF Runs
    <3>. QED  BY <2>1, <2>2, <3>2
  <2>4. RunOK' /\ RestOK'  BY <1>1, <2>2, <2>3 DEF TypeOK, RunOK, RestOK
  <2>5. Fits' /\ CheckpointBacked'  BY <1>1, <1>3, <2>2, <2>3
       DEF IInv, Fits, CheckpointBacked, Working, Starting, Early, Cleaning
  <2>6. run'.pc \notin Signing /\ run'.pc \notin Chained  BY <2>3 DEF Signing, Chained
  <2>. QED  BY <1>1, <1>2, <2>3, <2>4, <2>5, <2>6, ChainFree, QuietKeeps
<1>4. CASE run.api # "sync"
  <2>1. Goto("truncate") /\ left' = left  BY <1>4 DEF Provided
  <2>2. RunOK' /\ run'.pc = "truncate" /\ Holding /\ RestOK' /\ run.api = "resume"
    <3>1. run.api \in {"none", "sync", "resume"} /\ "truncate" \in Pcs  BY <1>1, Fields, RunFields, PcNames
    <3>2. RunOK' /\ run'.pc = "truncate" /\ Holding  BY <1>1, <2>1, <3>1, GotoFacts
    <3>. QED  BY <1>1, <1>4, <2>1, <3>1, <3>2 DEF TypeOK, RestOK, IInv, Fits
  <2>3. Fits' /\ CheckpointBacked'  BY <1>1, <1>4, <2>1, <2>2
       DEF IInv, Fits, CheckpointBacked, Holding, Working, Starting, Early, Cleaning
  <2>4. run'.pc \notin Signing /\ run'.pc \notin Chained  BY <2>2 DEF Signing, Chained
  <2>. QED  BY <1>1, <1>2, <2>2, <2>3, <2>4, ChainFree, QuietKeeps
<1>. QED  BY <1>3, <1>4

LEMMA ReplacedKeeps == IInv /\ Replaced => IInv'
<1>. SUFFICES ASSUME IInv, Replaced  PROVE IInv'  OBVIOUS
<1>1. /\ UNCHANGED <<body, link, radio, cloud>> /\ run.pc = "provider" /\ run.api = "resume"
      /\ left.sessions > 0 /\ left' = [left EXCEPT !.sessions = @ - 1] /\ TypeOK
      /\ store' = [NoOperation EXCEPT !.phase = "prepared", !.session = NewSession]
      /\ run' = [run EXCEPT !.pc = "truncate", !.phase = "prepared", !.session = NewSession,
                            !.ckpt = NoCheckpoint]
  BY DEF Replaced, IInv
<1>2. NewSession \in Sessions /\ NewSession \in 0 .. MaxSessions /\ left' \in Lefts
  BY <1>1, NewSessionType, SpendSession, ConstantTypes DEF Sessions
<1>3. run' \in Runs /\ run'.miss = run.miss /\ run'.pc = "truncate" /\ run'.api = "resume"
      /\ run'.session = NewSession /\ run'.ckpt = NoCheckpoint
  <2>1. run \in Runs /\ "truncate" \in Pcs /\ NoCheckpoint \in Checkpoints
        /\ "prepared" \in StoredPhases  BY <1>1, Fields, PcNames, EmptyTypes DEF StoredPhases, PhaseSet
  <2>2. ASSUME NEW s \in 0 .. MaxSessions
        PROVE  LET r == [run EXCEPT !.pc = "truncate", !.phase = "prepared", !.session = s,
                                    !.ckpt = NoCheckpoint] IN
               /\ r \in Runs /\ r.miss = run.miss /\ r.pc = "truncate" /\ r.api = run.api
               /\ r.session = s /\ r.ckpt = NoCheckpoint
    BY <2>1 DEF Runs
  <2>. QED  BY <1>1, <1>2, <2>2
<1>4. store' \in Stores /\ store'.phase = "prepared" /\ store'.session = NewSession
      /\ store'.ckpt = NoCheckpoint
  BY <1>1, <1>2, EmptyTypes DEF NoOperation, Stores, StoredPhases, PhaseSet
<1>5. RunOK' /\ StoreOK' /\ RestOK' /\ Grows /\ wire.k = "none"
  BY <1>1, <1>2, <1>3, <1>4, SameCloud, NoWrite DEF IInv, TypeOK, RunOK, StoreOK, RestOK, Writing
<1>6. Fits' /\ CheckpointBacked'
  BY <1>2, <1>3, <1>4 DEF Fits, CheckpointBacked, Working, Starting, Early, Cleaning
<1>7. run'.pc \notin Signing /\ run'.pc \notin Chained  BY <1>3 DEF Signing, Chained
<1>. QED  BY <1>1, <1>3, <1>5, <1>6, <1>7, ChainFree, QuietKeeps

LEMMA SaveOperationKeeps == IInv /\ SaveOperation => IInv'
<1>. SUFFICES ASSUME IInv, SaveOperation  PROVE IInv'  OBVIOUS
<1>1. UNCHANGED <<body, link, cloud, left>> /\ run.pc = "saveOperation" /\ TypeOK
  BY DEF SaveOperation, IInv
<1>2. CASE store.phase = "absent"
  <2>1. /\ store' = [NoOperation EXCEPT !.phase = "prepared", !.session = run.session]
        /\ run' = [run EXCEPT !.pc = "transferring", !.phase = "prepared"]
        /\ UNCHANGED radio  BY <1>2 DEF SaveOperation
  <2>2. run \in Runs /\ run.session \in Sessions /\ run.session \in 0 .. MaxSessions
        /\ run.ckpt = NoCheckpoint /\ "transferring" \in Pcs /\ "prepared" \in StoredPhases
    BY <1>1, Fields, PcNames, RunFields DEF IInv, Fits, Starting, StoredPhases, PhaseSet
  <2>3. run' \in Runs /\ run'.miss = run.miss /\ run'.pc = "transferring"
        /\ run'.session = run.session /\ run'.ckpt = NoCheckpoint  BY <2>1, <2>2 DEF Runs
  <2>4. store' \in Stores /\ store'.phase = "prepared" /\ store'.session = run.session
        /\ store'.ckpt = NoCheckpoint  BY <2>1, <2>2, EmptyTypes DEF NoOperation, Stores
  <2>5. RunOK' /\ StoreOK' /\ RestOK' /\ Grows /\ wire.k = "none"  BY <1>1, <2>3, <2>4, SameCloud, NoWrite
       DEF IInv, TypeOK, RunOK, StoreOK, RestOK, Writing
  <2>6. Fits' /\ CheckpointBacked'
    BY <2>2, <2>3, <2>4 DEF Fits, CheckpointBacked, Working, Starting, Early, Cleaning
  <2>7. run'.pc \notin Signing /\ run'.pc \notin Chained  BY <2>3 DEF Signing, Chained
  <2>. QED  BY <2>1, <2>3, <2>5, <2>6, <2>7, ChainFree, QuietKeeps
<1>3. CASE store.phase # "absent"
  <2>1. Fail("refused") /\ UNCHANGED <<store, body, link, cloud>>  BY <1>1, <1>3 DEF SaveOperation
  <2>. QED  BY <1>1, <2>1, JustFails, OutcomeNames, Fields
<1>. QED  BY <1>2, <1>3

\* A journal that enters a phase, or is further on.
LEMMA SavePhaseKeeps ==
  ASSUME IInv, NEW at, NEW phase \in PhaseSet \ {"confirmed"}, NEW pc \in Pcs,
         SavePhase(at, phase, pc),
         at \notin Early \cup Writing \cup {"restart", "forget", "truncate0"},
         pc \notin Early \cup Signing \cup {"restart", "forget", "truncate0", "save", "confirm",
                                            "confirming"},
         run'.pc = pc /\ Holding => Chain'
  PROVE  IInv'
<1>1. UNCHANGED <<body, link, cloud, left>> /\ run.pc = at /\ TypeOK /\ left' \in Lefts
  BY Fields DEF SavePhase, IInv
<1>2. Grows /\ RestOK' /\ wire.k = "none"  BY <1>1, SameCloud, NoWrite DEF RestOK, TypeOK
<1>3. CASE Rank(run.phase) > Rank(phase)
  <2>1. Goto(pc) /\ UNCHANGED <<store, radio>>  BY <1>3 DEF SavePhase
  <2>2. RunOK' /\ run'.pc = pc /\ Holding  BY <1>1, <2>1, GotoFacts
  <2>3. Fits' /\ CheckpointBacked' /\ StoreOK'  BY <1>1, <2>1, <2>2, FitsKept DEF TypeOK, StoreOK
  <2>. QED  BY <1>1, <1>2, <2>1, <2>2, <2>3, QuietKeeps
<1>4. CASE ~(Rank(run.phase) > Rank(phase)) /\ Accepts(store.phase, phase)
  <2>1. /\ store' = [store EXCEPT !.phase = phase]
        /\ run' = [run EXCEPT !.pc = pc, !.phase = phase] /\ UNCHANGED radio  BY <1>4 DEF SavePhase
  <2>2. run' \in Runs /\ run'.miss = run.miss /\ run'.pc = pc /\ Holding
    <3>1. run \in Runs /\ phase \in StoredPhases  BY <1>1, Fields DEF StoredPhases
    <3>2. run' \in Runs  BY <2>1, <3>1 DEF Runs
    <3>. QED  BY <2>1, <3>1, <3>2 DEF Runs, Holding
  <2>3. store' \in Stores /\ store'.phase = phase /\ store'.session = store.session
        /\ store'.ckpt = store.ckpt  BY <1>1, <2>1, Fields DEF Stores, StoredPhases
  <2>4. RunOK' /\ StoreOK'  BY <1>1, <2>2, <2>3 DEF TypeOK, RunOK, StoreOK
  <2>5. /\ Working /\ run.pc # "provider" /\ run'.pc # "provider" /\ ~(Starting')
        /\ phase # "absent" /\ phase # "confirmed" /\ store.phase # "absent"
        /\ run'.pc \notin {"dropBlob", "saveOperation"}
    BY <1>1, <1>4, <2>2 DEF Working, Starting, Early, Accepts, Cleaning, PhaseSet
  <2>6. Fits' /\ CheckpointBacked'
    BY <1>1, <2>2, <2>3, <2>5 DEF IInv, Fits, CheckpointBacked, Working, Holding
  <2>. QED  BY <1>1, <1>2, <2>1, <2>2, <2>4, <2>6, QuietKeeps
<1>5. CASE ~(Rank(run.phase) > Rank(phase)) /\ ~Accepts(store.phase, phase)
  <2>1. Fail("refused") /\ UNCHANGED <<store, body, link, cloud>>  BY <1>1, <1>5 DEF SavePhase
  <2>. QED  BY <1>1, <2>1, JustFails, OutcomeNames
<1>. QED  BY <1>3, <1>4, <1>5

LEMMA PhasesKeep == IInv /\ (Transferring \/ Staged \/ Uploading \/ CloudCompleted) => IInv'
<1>. SUFFICES ASSUME IInv, Transferring \/ Staged \/ Uploading \/ CloudCompleted  PROVE IInv'  OBVIOUS
<1>1. UNCHANGED <<body, cloud>> /\ Grows
  BY SameCloud DEF Transferring, Staged, Uploading, CloudCompleted, SavePhase
<1>2. CASE Transferring
  <2>1. SavePhase("transferring", "transferring", "truncate") /\ "truncate" \in Pcs
    BY <1>2, PcNames DEF Transferring
  <2>2. run'.pc = "truncate" => Chain'  BY <1>1, ChainFree DEF Chained
  <2>. QED  BY <2>1, <2>2, SavePhaseKeeps DEF PhaseSet, Early, Writing, Signing, Cleaning
<1>3. CASE Staged
  <2>1. SavePhase("staged", "staged", "uploading") /\ "uploading" \in Pcs /\ run.pc = "staged"
    BY <1>3, PcNames DEF Staged, SavePhase
  <2>2. run'.pc = "uploading" => Chain'  BY <1>1, <2>1 DEF IInv, Chain
  <2>. QED  BY <2>1, <2>2, SavePhaseKeeps DEF PhaseSet, Early, Writing, Signing, Cleaning
<1>4. CASE Uploading
  <2>1. SavePhase("uploading", "uploading", "put") /\ "put" \in Pcs /\ run.pc = "uploading"
    BY <1>4, PcNames DEF Uploading, SavePhase
  <2>2. run'.pc = "put" => Chain'  BY <1>1, <2>1 DEF IInv, Chain
  <2>. QED  BY <2>1, <2>2, SavePhaseKeeps DEF PhaseSet, Early, Writing, Signing, Cleaning
<1>5. CASE CloudCompleted
  <2>1. SavePhase("cloud", "cloud_completed", "deliver") /\ "deliver" \in Pcs /\ run.pc = "cloud"
    BY <1>5, PcNames DEF CloudCompleted, SavePhase
  <2>2. run'.pc = "deliver" /\ Holding => Chain'  BY <1>1, <2>1 DEF IInv, Chain, Holding, Completed
  <2>. QED  BY <2>1, <2>2, SavePhaseKeeps DEF PhaseSet, Early, Writing, Signing, Cleaning
<1>. QED  BY <1>2, <1>3, <1>4, <1>5

LEMMA CancelKeeps == IInv /\ Cancel => IInv'
<1>. SUFFICES ASSUME IInv, Cancel  PROVE IInv'  OBVIOUS
<1>1. /\ Fail("cancelled") /\ UNCHANGED <<store, body, link, cloud>> /\ left.aborts > 0
      /\ left' = [left EXCEPT !.aborts = @ - 1]  BY DEF Cancel, durable
<1>2. left' \in Lefts  BY <1>1, Fields DEF IInv, Lefts
<1>. QED  BY <1>1, <1>2, JustFails, OutcomeNames

LEMMA TruncateKeeps == IInv /\ Truncate => IInv'
<1>. SUFFICES ASSUME IInv, Truncate  PROVE IInv'  OBVIOUS
<1>. DEFINE ckpt == IF run.ckpt.session = run.session THEN run.ckpt ELSE NoCheckpoint
<1>1. UNCHANGED <<link, cloud, left>> /\ run.pc = "truncate" /\ TypeOK /\ left' \in Lefts
  BY Fields DEF Truncate, IInv
<1>2. /\ run.ckpt = store.ckpt /\ store.session = run.session /\ store.phase # "absent"
      /\ store.phase # "confirmed"  BY <1>1 DEF IInv, Fits, Working, Early, Cleaning
<1>3. ckpt \in Checkpoints /\ ckpt.off \in 0 .. Units
  BY <1>1, Fields, RunFields, EmptyTypes, CheckpointFields
<1>4. CASE body < ckpt.off
  <2>1. Fail("integrity") /\ UNCHANGED <<store, body>>  BY <1>4 DEF Truncate
  <2>. QED  BY <1>1, <2>1, JustFails, OutcomeNames
<1>5. CASE ~(body < ckpt.off)
  <2>1. /\ body' = ckpt.off /\ store' = [store EXCEPT !.ckpt = ckpt, !.evidence = store.evidence]
        /\ run' = [run EXCEPT !.pc = "authorize", !.ckpt = ckpt] /\ UNCHANGED radio
    BY <1>5 DEF Truncate, SaveState
  <2>2. ckpt = NoCheckpoint \/ ckpt.session = store.session  BY <1>2
  <2>. HIDE DEF ckpt
  <2>3. run' \in Runs /\ run'.miss = run.miss /\ run'.pc = "authorize" /\ run'.ckpt = ckpt
        /\ run'.session = run.session
    <3>1. run \in Runs /\ "authorize" \in Pcs  BY <1>1, Fields, PcNames
    <3>. QED  BY <1>3, <2>1, <3>1 DEF Runs
  <2>4. store' \in Stores /\ store'.ckpt = ckpt /\ store'.phase = store.phase
        /\ store'.session = store.session  BY <1>1, <1>3, <2>1, Fields DEF Stores
  <2>5. RunOK' /\ StoreOK' /\ RestOK' /\ Grows /\ wire.k = "none"
    BY <1>1, <1>3, <2>1, <2>3, <2>4, SameCloud, NoWrite DEF IInv, TypeOK, RunOK, StoreOK, RestOK, Writing
  <2>6. Fits'  BY <1>1, <1>2, <2>3, <2>4 DEF IInv, Fits, Working, Starting, Early, Cleaning
  <2>7. CheckpointBacked'  BY <1>3, <2>1, <2>2, <2>4 DEF CheckpointBacked
  <2>8. run'.pc \notin Signing /\ run'.pc \notin Chained  BY <2>3 DEF Signing, Chained
  <2>. QED  BY <2>1, <2>3, <2>5, <2>6, <2>7, <2>8, ChainFree, QuietKeeps
<1>. QED  BY <1>4, <1>5

-----------------------------------------------------------------------------
(* The writer of signed documents *)

\* There is a number that nothing uses: fewer are in use than there are to choose from.
LEMMA FreshIdFacts ==
  ASSUME TypeOK
  PROVE  /\ FreshId \in Nat \ {0} /\ FreshId # dev.signed.id
         /\ \A i \in DOMAIN air : air[i].seq # FreshId
<1>. DEFINE n == Len(air)
            Used == {air[i].seq : i \in 1 .. n}
            Taken == Used \cup {dev.signed.id}
            Free == 1 .. n + 2
<1>1. air \in Seq(FrameSet) /\ n \in Nat /\ DOMAIN air = 1 .. n  BY Fields
<1>2. IsFiniteSet(1 .. n) /\ Cardinality(1 .. n) = n  BY <1>1, FS_Interval
<1>3. IsFiniteSet(Free) /\ Cardinality(Free) = n + 2  BY <1>1, FS_Interval
<1>4. IsFiniteSet(Used) /\ Cardinality(Used) <= n
  <2>. DEFINE f == [i \in 1 .. n |-> air[i].seq]
  <2>1. f \in Surjection(1 .. n, Used)  BY DEF Surjection
  <2>. QED  BY <1>2, <2>1, FS_Surjection
<1>5. IsFiniteSet(Taken) /\ Cardinality(Taken) <= n + 1
  <2>1. IsFiniteSet(Taken) /\ Cardinality(Taken) =
          IF dev.signed.id \in Used THEN Cardinality(Used) ELSE Cardinality(Used) + 1
    BY <1>4, FS_AddElement
  <2>2. Cardinality(Used) \in Nat  BY <1>4, FS_CardinalityType
  <2>. QED  BY <1>1, <1>4, <2>1, <2>2
<1>6. \E id \in Free : id \notin Taken
  <2>1. SUFFICES ASSUME Free \subseteq Taken  PROVE FALSE  OBVIOUS
  <2>2. Cardinality(Free) <= Cardinality(Taken)  BY <1>5, <2>1, FS_Subset
  <2>3. Cardinality(Taken) \in Nat  BY <1>5, FS_CardinalityType
  <2>. HIDE DEF n, Taken, Free
  <2>. QED  BY <1>1, <1>3, <1>5, <2>2, <2>3
<1>7. \E id \in 1 .. Len(air) + 2 : id # dev.signed.id /\ \A i \in DOMAIN air : air[i].seq # id
  BY <1>1, <1>6
<1>8. /\ FreshId \in 1 .. Len(air) + 2 /\ FreshId # dev.signed.id
      /\ \A i \in DOMAIN air : air[i].seq # FreshId
  <2>. HIDE DEF n, Used, Taken, Free
  <2>. QED  BY <1>7 DEF FreshId
<1>. QED  BY <1>1, <1>8

LEMMA StartBlobKeeps ==
  ASSUME IInv, NEW at \in {"authorize", "deliver"}, NEW kind \in {"auth", "receipt"},
         StartBlob(at, kind), kind = "receipt" => at = "deliver"
  PROVE  IInv'
<1>. DEFINE id == FreshId
<1>1. /\ UNCHANGED <<store, body, link, wire, air, dev, cloud, left>> /\ run.pc = at /\ TypeOK
      /\ run' = [run EXCEPT !.pc = "signing", !.sent = 0, !.result = "none",
                            !.blob = [k |-> kind, id |-> id, session |-> run.session]]
  BY DEF StartBlob, durable, radio, IInv
<1>2. id \in Nat \ {0} /\ id # dev.signed.id /\ \A i \in DOMAIN air : air[i].seq # id  BY <1>1, FreshIdFacts
<1>. HIDE DEF id
<1>3. /\ run' \in Runs /\ run'.miss = run.miss /\ run'.pc = "signing" /\ run'.result = "none"
      /\ run'.blob = [k |-> kind, id |-> id, session |-> run.session]
      /\ run'.api = run.api /\ run'.session = run.session /\ run'.ckpt = run.ckpt
  <2>1. run \in Runs /\ run.session \in 0 .. MaxSessions /\ "signing" \in Pcs
    BY <1>1, Fields, RunFields, PcNames
  <2>2. [k |-> kind, id |-> id, session |-> run.session] \in Blobs  BY <1>2, <2>1 DEF Blobs
  <2>3. ASSUME NEW b \in Blobs
        PROVE  LET r == [run EXCEPT !.pc = "signing", !.sent = 0, !.result = "none", !.blob = b] IN
               /\ r \in Runs /\ r.miss = run.miss /\ r.pc = "signing" /\ r.result = "none"
               /\ r.blob = b /\ r.api = run.api /\ r.session = run.session /\ r.ckpt = run.ckpt
    BY <2>1 DEF Runs
  <2>. QED  BY <1>1, <2>2, <2>3
<1>4. run'.blob.k = kind /\ run'.blob.id = id /\ run'.blob.session = run.session  BY <1>3
<1>5. TypeOK'  BY <1>1, <1>3 DEF TypeOK, RunOK, StoreOK, RadioOK, WireOK, RestOK
<1>6. Fits' /\ CheckpointBacked'
  BY <1>1, <1>3 DEF IInv, Fits, CheckpointBacked, Working, Starting, Early, Cleaning
<1>7. Asks'  BY <1>1, NoWrite DEF Asks, Writing
<1>8. Grows /\ Chain'  BY <1>1, <1>3, SameCloud, ChainFree DEF Chained
<1>9. Receipts'  BY <1>1, <1>2, <1>3, <1>4 DEF IInv, Receipts, Chain, Completed
<1>10. Heard'
  <2>1. ~(run'.pc \in {"confirm", "confirming"}) /\ run'.result # "signed"  BY <1>3
  <2>2. dev'.signed.id # run'.blob.id  BY <1>1, <1>2, <1>4
  <2>3. \A i \in DOMAIN air' : air'[i].seq # run'.blob.id  BY <1>1, <1>2, <1>4
  <2>. QED  BY <2>1, <2>2, <2>3 DEF Heard, InAir
<1>11. Custody'  BY <1>1 DEF IInv, Custody
<1>. QED  BY <1>5, <1>6, <1>7, <1>8, <1>9, <1>10, <1>11 DEF IInv

\* A step between BEGIN and the result: nothing is heard that was not there.
LEMMA WriterKeeps ==
  ASSUME IInv, RunOK', WireOK', air' \in Seq(FrameSet), UNCHANGED <<store, body, link, dev, cloud, left>>,
         run.pc \in Signing, run'.pc \in Signing, Asks',
         run'.blob = run.blob, run'.session = run.session, run'.ckpt = run.ckpt,
         run'.result = "signed" => run.result = "signed" \/ InAir(run.blob.id),
         \A id : InAir(id)' => InAir(id)
  PROVE  IInv'
<1>1. TypeOK'  BY DEF IInv, TypeOK, StoreOK, RadioOK, RestOK
<1>2. Working /\ Working' /\ ~(Starting')
      /\ run'.pc \notin {"provider", "saveOperation", "restart", "truncate0", "save", "dropBlob", "forget"}
      /\ run.pc \notin {"restart", "forget"}  BY DEF Working, Starting, Early, Signing, Cleaning
<1>3. Fits' /\ CheckpointBacked'  BY <1>2 DEF IInv, Fits, CheckpointBacked
<1>4. Grows /\ Chain'  BY SameCloud, ChainFree DEF Chained, Signing
<1>5. Receipts'  BY DEF IInv, Receipts, Completed
<1>6. Heard'
  <2>1. run'.pc \notin {"confirm", "confirming"}  BY DEF Signing
  <2>2. InAir(run.blob.id)' => InAir(run.blob.id)
    <3>1. ASSUME NEW b, b = run.blob.id, \E i \in DOMAIN air' : air'[i].k = "signed" /\ air'[i].seq = b
          PROVE  InAir(b)
      BY <3>1 DEF InAir
    <3>. QED  BY <3>1 DEF InAir
  <2>. QED  BY <2>1, <2>2 DEF IInv, Heard
<1>7. Custody'  BY DEF IInv, Custody
<1>. QED  BY <1>1, <1>3, <1>4, <1>5, <1>6, <1>7 DEF IInv

LEMMA SendBlobKeeps == IInv /\ SendBlob => IInv'
<1>. SUFFICES ASSUME IInv, SendBlob  PROVE IInv'  OBVIOUS
<1>1. /\ UNCHANGED <<store, body, link, air, dev, cloud, left>> /\ run.pc = "signing"
      /\ run' = [run EXCEPT !.sent = @ + 1] /\ wire' = [Nothing EXCEPT !.k = "blob"]
      /\ TypeOK  BY DEF SendBlob, durable, IInv
<1>2. /\ run' \in Runs /\ run'.miss = run.miss /\ run'.pc = run.pc /\ run'.blob = run.blob
      /\ run'.session = run.session /\ run'.ckpt = run.ckpt /\ run'.result = run.result
  <2>1. run \in Runs /\ run.sent + 1 \in Nat  BY <1>1, Fields, RunFields
  <2>. QED  BY <1>1, <2>1 DEF Runs
<1>3. wire' \in Requests /\ wire'.miss = {} /\ wire'.k = "blob"
  BY <1>1, EmptyTypes DEF Requests, RequestKinds
<1>4. RunOK' /\ WireOK' /\ air' \in Seq(FrameSet) /\ Asks'
  BY <1>1, <1>2, <1>3, Fields, EmptyTypes DEF RunOK, WireOK, Asks
<1>5. run.pc \in Signing /\ \A id : InAir(id)' => InAir(id)  BY <1>1 DEF Signing, InAir
<1>. QED  BY <1>1, <1>2, <1>4, <1>5, WriterKeeps

LEMMA CommitBlobKeeps == IInv /\ CommitBlob => IInv'
<1>. SUFFICES ASSUME IInv, CommitBlob  PROVE IInv'  OBVIOUS
<1>1. /\ UNCHANGED <<store, body, link, air, dev, cloud, left>> /\ run.pc = "signing"
      /\ Goto("committing") /\ wire' = [Nothing EXCEPT !.k = "commit"] /\ TypeOK
  BY DEF CommitBlob, durable, IInv
<1>2. RunOK' /\ run'.pc = "committing" /\ Holding  BY <1>1, GotoFacts, PcNames
<1>3. wire' \in Requests /\ wire'.miss = {} /\ wire'.k = "commit"
  BY <1>1, EmptyTypes DEF Requests, RequestKinds
<1>4. WireOK' /\ air' \in Seq(FrameSet) /\ Asks'  BY <1>1, <1>2, <1>3, Fields, EmptyTypes DEF WireOK, Asks
<1>5. run.pc \in Signing /\ run'.pc \in Signing /\ \A id : InAir(id)' => InAir(id)
  BY <1>1, <1>2 DEF Signing, InAir
<1>. QED  BY <1>1, <1>2, <1>4, <1>5, WriterKeeps DEF Holding

LEMMA CommittedKeeps == IInv /\ Committed => IInv'
<1>. SUFFICES ASSUME IInv, Committed  PROVE IInv'  OBVIOUS
<1>1. /\ UNCHANGED <<store, body, link, wire, air, dev, cloud, left>> /\ run.pc = "committing"
      /\ Goto("result") /\ wire.k = "none" /\ TypeOK  BY DEF Committed, durable, radio, IInv
<1>2. RunOK' /\ run'.pc = "result" /\ Holding  BY <1>1, GotoFacts, PcNames
<1>3. WireOK' /\ air' \in Seq(FrameSet) /\ Asks'  BY <1>1, <1>2, Fields DEF TypeOK, RadioOK, WireOK, Asks
<1>4. run.pc \in Signing /\ run'.pc \in Signing /\ \A id : InAir(id)' => InAir(id)
  BY <1>1, <1>2 DEF Signing, InAir
<1>. QED  BY <1>1, <1>2, <1>3, <1>4, WriterKeeps DEF Holding

\* A result of another document, or one that nobody waits for, changes the air alone.
LEMMA DeliverResultKeeps == IInv /\ DeliverResult => IInv'
<1>. SUFFICES ASSUME IInv, DeliverResult  PROVE IInv'  OBVIOUS
<1>1. /\ UNCHANGED <<store, body, link, wire, dev, cloud, left>> /\ air # <<>>
      /\ Head(air).k \in {"signed", "refused"} /\ air' = Tail(air) /\ TypeOK
  BY DEF DeliverResult, durable, IInv
<1>2. air' \in Seq(FrameSet) /\ WireOK' /\ (\A id : InAir(id)' => InAir(id))
      /\ (Head(air).k = "signed" => InAir(Head(air).seq))
  BY <1>1, Fields, TakeType, TailInAir DEF TypeOK, RadioOK, WireOK
<1>3. CASE /\ run.pc \in {"committing", "result"} /\ Head(air).seq = run.blob.id
           /\ run.result = "none"
  <2>. DEFINE k == Head(air).k
  <2>1. run' = [run EXCEPT !.result = k]  BY <1>3 DEF DeliverResult
  <2>2. k \in {"signed", "refused"}  BY <1>1
  <2>. HIDE DEF k
  <2>3. /\ run' \in Runs /\ run'.miss = run.miss /\ run'.pc = run.pc /\ run'.blob = run.blob
        /\ run'.session = run.session /\ run'.ckpt = run.ckpt /\ run'.result = k
    <3>1. run \in Runs  BY <1>1, Fields
    <3>. QED  BY <2>1, <2>2, <3>1 DEF Runs
  <2>4. RunOK' /\ Asks' /\ run.pc \in Signing  BY <1>1, <1>3, <2>3 DEF IInv, TypeOK, RunOK, Asks, Signing
  <2>5. run'.result = "signed" => InAir(run.blob.id)  BY <1>2, <1>3, <2>3 DEF k
  <2>. QED  BY <1>1, <1>2, <2>3, <2>4, <2>5, WriterKeeps
<1>4. CASE ~(/\ run.pc \in {"committing", "result"} /\ Head(air).seq = run.blob.id
             /\ run.result = "none")
  <2>1. run' = run  BY <1>4 DEF DeliverResult
  <2>2. TypeOK'  BY <1>1, <1>2, <2>1 DEF TypeOK, RunOK, StoreOK, RadioOK, RestOK
  <2>3. Fits' /\ CheckpointBacked' /\ Asks' /\ Chain' /\ Custody'
    BY <1>1, <2>1 DEF IInv, Fits, CheckpointBacked, Working, Starting, Asks, Chain, Completed, Custody
  <2>4. Receipts'  BY <1>1, <2>1 DEF IInv, Receipts, Completed
  <2>5. Heard'
    <3>1. InAir(run.blob.id)' => InAir(run.blob.id)
      <4>1. ASSUME NEW b, b = run.blob.id, \E i \in DOMAIN air' : air'[i].k = "signed" /\ air'[i].seq = b
            PROVE  InAir(b)
        BY <1>2, <4>1 DEF InAir
      <4>. QED  BY <2>1, <4>1 DEF InAir
    <3>. QED  BY <1>1, <2>1, <3>1 DEF IInv, Heard
  <2>. QED  BY <2>2, <2>3, <2>4, <2>5 DEF IInv
<1>. QED  BY <1>3, <1>4

LEMMA BlobSentKeeps == IInv /\ BlobSent => IInv'
<1>. SUFFICES ASSUME IInv, BlobSent  PROVE IInv'  OBVIOUS
<1>1. UNCHANGED <<store, body, link, cloud, left>> /\ run.pc = "result" /\ TypeOK
      /\ left' \in Lefts  BY Fields DEF BlobSent, durable, IInv
<1>2. CASE run.result = "signed"
  <2>. DEFINE pc == IF run.blob.k = "auth" THEN "open" ELSE "confirm"
  <2>1. run' = [run EXCEPT !.pc = pc, !.blob = NoBlob, !.sent = 0, !.result = "none"]
        /\ UNCHANGED radio  BY <1>2 DEF BlobSent
  <2>2. pc \in {"open", "confirm"} /\ (pc = "confirm" => dev.receipt # 0)
    BY <1>1, <1>2 DEF IInv, Heard, Receipts, Signing
  <2>. HIDE DEF pc
  <2>3. /\ run' \in Runs /\ run'.miss = run.miss /\ run'.pc = pc /\ run'.session = run.session
        /\ run'.ckpt = run.ckpt /\ run'.api = run.api /\ run'.pend = run.pend
    <3>1. run \in Runs /\ pc \in Pcs /\ NoBlob \in Blobs  BY <1>1, <2>2, Fields, PcNames, EmptyTypes
    <3>. QED  BY <2>1, <3>1 DEF Runs
  <2>4. RunOK' /\ StoreOK' /\ RestOK' /\ Grows /\ wire.k = "none"
    BY <1>1, <2>3, SameCloud, NoWrite DEF IInv, TypeOK, RunOK, StoreOK, RestOK, Writing
  <2>5. Fits' /\ CheckpointBacked'  BY <1>1, <2>2, <2>3
       DEF IInv, Fits, CheckpointBacked, Working, Starting, Early, Cleaning
  <2>6. run'.pc \notin Signing /\ run'.pc \notin Chained  BY <2>2, <2>3 DEF Signing, Chained
  <2>. QED  BY <2>1, <2>2, <2>3, <2>4, <2>5, <2>6, ChainFree, QuietKeeps
<1>3. CASE run.result # "signed"
  <2>1. Fail("rejected")  BY <1>3 DEF BlobSent
  <2>. QED  BY <1>1, <2>1, JustFails, OutcomeNames
<1>. QED  BY <1>2, <1>3

-----------------------------------------------------------------------------
(* The device *)

\* A step of the device: the host has what it had, and what the device knows of
\* receipts is right.
LEMMA DeviceKeeps ==
  ASSUME IInv, RadioOK', UNCHANGED <<store, body, run, link, cloud>>, left' \in Lefts,
         left'.sessions = left.sessions, Asks', Receipts', Heard', Custody'
  PROVE  IInv'
<1>1. TypeOK'  BY DEF IInv, TypeOK, RunOK, StoreOK, RestOK
<1>2. Fits'  BY DEF IInv, Fits, Working, Starting
<1>3. CheckpointBacked' /\ Chain'  BY DEF IInv, CheckpointBacked, Chain, Completed
<1>. QED  BY <1>1, <1>2, <1>3 DEF IInv

\* What an answer leaves of the wire.
LEMMA AnswersFacts ==
  ASSUME IInv, NEW k \in RequestKinds \ {"none"}, Answers(k)
  PROVE  /\ wire.k = k /\ WireOK' /\ wire'.k = "none" /\ Asks'
         /\ k = "blob" => run.pc = "signing"
         /\ k = "commit" => run.pc = "committing"
         /\ k \in {"start", "resume"} => run.pc = "opening"
         /\ k = "repair" => run.pc = "repairing"
         /\ k = "ack" => run.pc = "acking"
         /\ k = "confirm" => run.pc = "confirming"
<1>1. wire.k = k /\ wire' = Nothing  BY DEF Answers
<1>2. wire'.k = "none" /\ WireOK'  BY <1>1, EmptyTypes DEF WireOK, Nothing
<1>. QED  BY <1>1, <1>2 DEF IInv, Asks

\* The transfer goes on: the writer of documents is not at work.
LEMMA TransfersKeep ==
  ASSUME IInv, NEW k \in {"start", "resume", "repair", "ack"}, Answers(k),
         air' \in Seq(FrameSet), dev' \in Devices, dev'.holds = dev.holds,
         dev'.receipt = dev.receipt, dev'.signed = dev.signed,
         UNCHANGED <<store, body, run, link, cloud, left>>
  PROVE  IInv'
<1>1. WireOK' /\ Asks' /\ run.pc \in {"opening", "repairing", "acking"}  BY AnswersFacts DEF RequestKinds
<1>2. RadioOK' /\ left' \in Lefts  BY <1>1, Fields DEF RadioOK, IInv
<1>3. run'.pc \notin Signing /\ run'.pc \notin {"confirm", "confirming"} /\ Grows
  BY <1>1, SameCloud DEF Signing
<1>4. Receipts' /\ Heard' /\ Custody'  BY <1>3, ReceiptsKept
<1>. QED  BY <1>1, <1>2, <1>4, DeviceKeeps

LEMMA SmallFrames ==
  ASSUME NEW k \in FrameKinds, NEW n \in 0 .. Units
  PROVE  /\ [NoFrame EXCEPT !.k = k] \in FrameSet
         /\ [NoFrame EXCEPT !.k = k, !.off = n] \in FrameSet
         /\ <<[NoFrame EXCEPT !.k = k]>> \in Seq(FrameSet)
         /\ <<[NoFrame EXCEPT !.k = k, !.off = n]>> \in Seq(FrameSet)
<1>1. /\ [NoFrame EXCEPT !.k = k] \in FrameSet
      /\ [NoFrame EXCEPT !.k = k, !.off = n] \in FrameSet  BY EmptyTypes DEF FrameSet
<1>. QED  BY <1>1

LEMMA DeviceTransfersKeep ==
  IInv /\ (DeviceStarts \/ DeviceAccepts \/ DeviceRejects \/ DeviceRepairs \/ DeviceAdvances) => IInv'
<1>. SUFFICES ASSUME IInv,
                     DeviceStarts \/ DeviceAccepts \/ DeviceRejects \/ DeviceRepairs \/ DeviceAdvances
              PROVE  IInv'
  OBVIOUS
<1>1. /\ UNCHANGED <<store, body, run, link, cloud, left>> /\ TypeOK /\ dev \in Devices
      /\ wire.off \in 0 .. Units /\ dev.base \in 0 .. Units /\ dev.num \in Int
      /\ dev.acked \in 0 .. Units /\ 0 \in 0 .. Units /\ 0 \in Int  BY Fields, DeviceFields, ConstantTypes
     DEF DeviceStarts, DeviceAccepts, DeviceRejects, DeviceRepairs, DeviceAdvances, durable, IInv
<1>2. ASSUME NEW base \in 0 .. Units, NEW num \in Int, NEW acked \in 0 .. Units
      PROVE  LET d == [dev EXCEPT !.mode = "open", !.base = base, !.num = num, !.acked = acked] IN
             d \in Devices /\ d.holds = dev.holds /\ d.receipt = dev.receipt /\ d.signed = dev.signed
  BY <1>1 DEF Devices
<1>3. {"start_ack", "error", "resume_accept", "resume_reject"} \subseteq FrameKinds  BY DEF FrameKinds
<1>4. CASE DeviceStarts
  <2>1. Answers("start")  BY <1>4 DEF DeviceStarts
  <2>2. CASE dev.holds /\ dev.auth # 0
    <3>1. /\ air' = <<[NoFrame EXCEPT !.k = "start_ack"]>> \o Frames(0, 0)
          /\ dev' = [dev EXCEPT !.mode = "open", !.base = 0, !.num = 0, !.acked = 0]
      BY <1>4, <2>2 DEF DeviceStarts
    <3>2. <<[NoFrame EXCEPT !.k = "start_ack"]>> \in Seq(FrameSet) /\ Frames(0, 0) \in Seq(FrameSet)
      BY <1>1, <1>3, SmallFrames, FramesType
    <3>3. air' \in Seq(FrameSet)  BY <3>1, <3>2, ConcatProperties
    <3>4. dev' \in Devices /\ dev'.holds = dev.holds /\ dev'.receipt = dev.receipt
          /\ dev'.signed = dev.signed
      BY ZenonT(60), <1>1, <1>2, <3>1
    <3>. QED  BY <1>1, <2>1, <3>3, <3>4, TransfersKeep
  <2>3. CASE ~(dev.holds /\ dev.auth # 0)
    <3>1. air' = <<[NoFrame EXCEPT !.k = "error"]>> /\ dev' = dev  BY <1>4, <2>3 DEF DeviceStarts
    <3>2. air' \in Seq(FrameSet)  BY <1>1, <1>3, <3>1, SmallFrames
    <3>. QED  BY <1>1, <2>1, <3>1, <3>2, TransfersKeep
  <2>. QED  BY <2>2, <2>3
<1>5. CASE DeviceAccepts
  <2>. DEFINE num == wire.off
  <2>1. /\ Answers("resume")
        /\ air' = <<[NoFrame EXCEPT !.k = "resume_accept", !.off = wire.off]>> \o Frames(wire.off, num)
        /\ dev' = [dev EXCEPT !.mode = "open", !.base = wire.off, !.num = num, !.acked = wire.off]
    BY <1>5 DEF DeviceAccepts
  <2>2. num \in Int  BY <1>1
  <2>. HIDE DEF num
  <2>3. <<[NoFrame EXCEPT !.k = "resume_accept", !.off = wire.off]>> \in Seq(FrameSet)
        /\ Frames(wire.off, num) \in Seq(FrameSet)  BY <1>1, <1>3, <2>2, SmallFrames, FramesType
  <2>4. air' \in Seq(FrameSet)  BY <2>1, <2>3, ConcatProperties
  <2>5. dev' \in Devices /\ dev'.holds = dev.holds /\ dev'.receipt = dev.receipt
        /\ dev'.signed = dev.signed  BY <1>1, <2>1, <2>2 DEF Devices
  <2>. QED  BY <1>1, <2>1, <2>4, <2>5, TransfersKeep
<1>6. CASE DeviceRejects
  <2>1. Answers("resume") /\ dev' = dev  BY <1>6 DEF DeviceRejects
  <2>2. air' = <<[NoFrame EXCEPT !.k = "resume_reject", !.off = dev.acked]>>
        \/ air' = <<[NoFrame EXCEPT !.k = "error"]>>  BY <1>6 DEF DeviceRejects
  <2>3. air' \in Seq(FrameSet)  BY <1>1, <1>3, <2>2, SmallFrames
  <2>. QED  BY <1>1, <2>1, <2>3, TransfersKeep
<1>7. CASE DeviceRepairs
  <2>1. Answers("repair") /\ dev' = dev /\ air' = WindowFrames(dev.base, dev.num, SetToSeq(wire.miss))
    BY <1>7 DEF DeviceRepairs
  <2>2. SetToSeq(wire.miss) \in Seq(Int)  BY <1>1, Fields, SetToSeqType
  <2>3. air' \in Seq(FrameSet)  BY <1>1, <2>1, <2>2, WindowFramesType
  <2>. QED  BY <1>1, <2>1, <2>3, TransfersKeep
<1>8. CASE DeviceAdvances
  <2>1. Answers("ack") /\ air' = Frames(wire.off, dev.num)
        /\ dev' = [dev EXCEPT !.base = wire.off, !.acked = wire.off]  BY <1>8 DEF DeviceAdvances
  <2>2. air' \in Seq(FrameSet)  BY <1>1, <2>1, FramesType
  <2>3. dev' \in Devices /\ dev'.holds = dev.holds /\ dev'.receipt = dev.receipt
        /\ dev'.signed = dev.signed  BY <1>1, <2>1 DEF Devices
  <2>. QED  BY <1>1, <2>1, <2>2, <2>3, TransfersKeep
<1>. QED  BY <1>4, <1>5, <1>6, <1>7, <1>8

LEMMA DeviceBuffersKeeps == IInv /\ DeviceBuffers => IInv'
<1>. SUFFICES ASSUME IInv, DeviceBuffers  PROVE IInv'  OBVIOUS
<1>1. Answers("blob") /\ UNCHANGED <<store, body, run, link, air, dev, cloud, left>>
  BY DEF DeviceBuffers, durable
<1>2. WireOK' /\ Asks'  BY <1>1, AnswersFacts DEF RequestKinds
<1>3. RadioOK' /\ left' \in Lefts  BY <1>1, <1>2, Fields DEF RadioOK, IInv
<1>4. Receipts' /\ Heard' /\ Custody'  BY <1>1 DEF IInv, Receipts, Heard, Custody, Completed, InAir
<1>. QED  BY <1>1, <1>2, <1>3, <1>4, DeviceKeeps

LEMMA DeviceCommitsKeeps == IInv /\ DeviceCommits => IInv'
<1>. SUFFICES ASSUME IInv, DeviceCommits  PROVE IInv'  OBVIOUS
<1>1. /\ Answers("commit") /\ UNCHANGED <<store, body, run, link, air, cloud, left>>
      /\ dev' = [dev EXCEPT !.signed = run.blob] /\ TypeOK  BY DEF DeviceCommits, durable, IInv
<1>2. WireOK' /\ Asks' /\ run.pc = "committing"  BY <1>1, AnswersFacts DEF RequestKinds
<1>3. dev' \in Devices /\ dev'.signed = run.blob /\ dev'.holds = dev.holds
      /\ dev'.receipt = dev.receipt
  <2>1. dev \in Devices /\ run.blob \in Blobs  BY <1>1, Fields, RunFields
  <2>. QED  BY <1>1, <2>1 DEF Devices
<1>4. RadioOK' /\ left' \in Lefts  BY <1>1, <1>2, <1>3, Fields DEF RadioOK
<1>5. Receipts' /\ Heard' /\ Custody'
  BY <1>1, <1>2, <1>3 DEF IInv, Receipts, Heard, Custody, Completed, InAir, Signing
<1>. QED  BY <1>1, <1>2, <1>4, <1>5, DeviceKeeps

\* The result of the document that the device works at goes on the air.
LEMMA ResultFacts ==
  ASSUME TypeOK, NEW k \in {"signed", "refused"}, Result(k)
  PROVE  /\ air' \in Seq(FrameSet)
         /\ \A id : InAir(id)' => InAir(id) \/ (k = "signed" /\ id = dev.signed.id)
<1>. DEFINE f == [NoFrame EXCEPT !.k = k, !.seq = dev.signed.id]
<1>1. air \in Seq(FrameSet) /\ Len(air) \in Nat /\ DOMAIN air = 1 .. Len(air)
      /\ dev.signed.id \in Nat  BY Fields, DeviceFields, BlobFields
<1>2. f \in FrameSet /\ f.k = k /\ f.seq = dev.signed.id
  <2>1. ASSUME NEW n \in Nat
        PROVE  LET g == [NoFrame EXCEPT !.k = k, !.seq = n] IN
               g \in FrameSet /\ g.k = k /\ g.seq = n
    <3>1. NoFrame \in FrameSet /\ k \in FrameKinds /\ n \in Int  BY EmptyTypes DEF FrameKinds
    <3>. QED  BY <3>1 DEF FrameSet
  <2>. QED  BY <1>1, <2>1
<1>3. air' = Append(air, f)  BY DEF Result
<1>. HIDE DEF f
<1>4. /\ air' \in Seq(FrameSet) /\ Len(air') = Len(air) + 1
      /\ \A i \in 1 .. Len(air) : air'[i] = air[i]
      /\ air'[Len(air) + 1] = f  BY <1>1, <1>2, <1>3, AppendProperties
<1>5. DOMAIN air' = 1 .. Len(air) + 1  BY <1>1, <1>4
<1>. QED  BY <1>1, <1>2, <1>4, <1>5 DEF InAir

LEMMA DeviceVerifiesKeeps == IInv /\ DeviceVerifies => IInv'
<1>. SUFFICES ASSUME IInv, DeviceVerifies  PROVE IInv'  OBVIOUS
<1>1. /\ UNCHANGED <<store, body, run, link, wire, cloud, left>> /\ dev.signed.k # "none"
      /\ dev' = [dev EXCEPT ![dev.signed.k] = dev.signed.session, !.signed = NoBlob]
      /\ Result("signed") /\ TypeOK  BY DEF DeviceVerifies, durable, IInv
<1>2. dev \in Devices /\ dev.signed.k \in {"auth", "receipt"} /\ dev.signed.session \in 0 .. MaxSessions
  BY <1>1, Fields, DeviceFields, BlobFields
<1>3. /\ air' \in Seq(FrameSet)
      /\ \A id : InAir(id)' => InAir(id) \/ id = dev.signed.id  BY <1>1, ResultFacts
<1>4. /\ dev' \in Devices /\ dev'.signed = NoBlob /\ dev'.holds = dev.holds
      /\ dev'.receipt = IF dev.signed.k = "receipt" THEN dev.signed.session ELSE dev.receipt
  <2>1. CASE dev.signed.k = "auth"
    <3>1. dev' = [dev EXCEPT !.auth = dev.signed.session, !.signed = NoBlob]  BY <1>1, <2>1
    <3>. QED  BY <1>2, <2>1, <3>1, EmptyTypes DEF Devices
  <2>2. CASE dev.signed.k = "receipt"
    <3>1. dev' = [dev EXCEPT !.receipt = dev.signed.session, !.signed = NoBlob]  BY <1>1, <2>2
    <3>. QED  BY <1>2, <2>2, <3>1, EmptyTypes DEF Devices
  <2>. QED  BY <1>2, <2>1, <2>2
<1>5. RadioOK' /\ left' \in Lefts /\ Asks'
  BY <1>1, <1>3, <1>4, Fields DEF IInv, TypeOK, RadioOK, WireOK, Asks
<1>6. Receipts' /\ Custody'
  <2>1. NoBlob.k = "none"  BY DEF NoBlob
  <2>2. dev.signed.k = "receipt" => Completed(dev.signed.session)  BY DEF IInv, Receipts
  <2>3. dev'.receipt # 0 => Completed(dev'.receipt)  BY <1>4, <2>2 DEF IInv, Receipts
  <2>4. dev'.receipt # 0 => dev'.receipt \in Sessions /\ cloud'[dev'.receipt].completed
    BY <1>1, <2>3 DEF Completed
  <2>. QED  BY <1>1, <1>4, <2>1, <2>4 DEF IInv, Receipts, Custody, Completed
<1>7. dev.signed.k = "receipt" => dev'.receipt # 0  BY <1>4 DEF IInv, Receipts, Completed, Sessions
<1>8. Heard'
  <2>1. NoBlob.k = "none"  BY DEF NoBlob
  <2>2. ASSUME run.pc \in Signing, run.blob.k = "receipt", run.result = "signed" \/ InAir(run.blob.id)'
        PROVE  dev'.receipt # 0
    <3>1. ASSUME NEW b, b = run.blob.id, \E i \in DOMAIN air' : air'[i].k = "signed" /\ air'[i].seq = b
          PROVE  InAir(b) \/ b = dev.signed.id
      BY <1>3, <3>1 DEF InAir
    <3>2. run.result = "signed" \/ InAir(run.blob.id) \/ run.blob.id = dev.signed.id
      BY <1>1, <2>2, <3>1 DEF InAir
    <3>3. dev.signed.k = "receipt" \/ dev.receipt # 0  BY <1>2, <2>2, <3>2 DEF IInv, Heard
    <3>. QED  BY <1>4, <1>7, <3>3
  <2>3. run.pc \in {"confirm", "confirming"} => dev'.receipt # 0  BY <1>4, <1>7 DEF IInv, Heard
  <2>. QED  BY <1>1, <1>4, <2>1, <2>2, <2>3 DEF Heard
<1>. QED  BY <1>1, <1>5, <1>6, <1>8, DeviceKeeps

LEMMA DeviceConfirmsKeeps == IInv /\ DeviceConfirms => IInv'
<1>. SUFFICES ASSUME IInv, DeviceConfirms  PROVE IInv'  OBVIOUS
<1>1. /\ Answers("confirm") /\ UNCHANGED <<store, body, run, link, air, cloud, left>> /\ TypeOK
      /\ dev' = IF dev.receipt = dev.auth THEN [dev EXCEPT !.holds = FALSE] ELSE dev
  BY DEF DeviceConfirms, durable, IInv
<1>2. WireOK' /\ Asks' /\ run.pc = "confirming"  BY <1>1, AnswersFacts DEF RequestKinds
<1>3. dev' \in Devices /\ dev'.signed = dev.signed /\ dev'.receipt = dev.receipt
  <2>1. dev \in Devices  BY <1>1, Fields
  <2>. QED  BY <1>1, <2>1 DEF Devices
<1>4. RadioOK' /\ left' \in Lefts  BY <1>1, <1>2, <1>3, Fields DEF RadioOK
<1>5. Receipts' /\ Heard'  BY <1>1, <1>2, <1>3 DEF IInv, Receipts, Heard, Completed, InAir
<1>6. Custody'
  <2>1. Completed(dev.receipt)  BY <1>2 DEF IInv, Heard, Receipts
  <2>2. \E s \in Sessions : cloud[s].completed /\ cloud[s].manifest /\ cloud[s].body = Units
    BY <2>1 DEF Completed, IInv, Chain
  <2>. QED  BY <1>1, <2>2 DEF Custody
<1>. QED  BY <1>1, <1>2, <1>4, <1>5, <1>6, DeviceKeeps

LEMMA DeviceRefusesKeeps == IInv /\ DeviceRefuses => IInv'
<1>. SUFFICES ASSUME IInv, DeviceRefuses  PROVE IInv'  OBVIOUS
<1>1. /\ UNCHANGED <<store, body, run, link, wire, cloud>> /\ Fault
      /\ dev' = [dev EXCEPT !.signed = NoBlob] /\ Result("refused") /\ TypeOK
  BY DEF DeviceRefuses, durable, IInv
<1>2. /\ air' \in Seq(FrameSet) /\ \A id : InAir(id)' => InAir(id)  BY <1>1, ResultFacts
<1>3. /\ dev' \in Devices /\ dev'.signed = NoBlob /\ dev'.holds = dev.holds
      /\ dev'.receipt = dev.receipt
  <2>1. dev \in Devices  BY <1>1, Fields
  <2>. QED  BY <1>1, <2>1, EmptyTypes DEF Devices
<1>4. left' \in Lefts /\ left'.sessions = left.sessions  BY <1>1, FaultFacts, Fields DEF Fault, Lefts
<1>5. RadioOK' /\ Asks'  BY <1>1, <1>2, <1>3 DEF IInv, TypeOK, RadioOK, WireOK, Asks
<1>6. Receipts' /\ Custody'  BY <1>1, <1>3 DEF IInv, Receipts, Custody, Completed, NoBlob
<1>7. Heard'
  <2>1. NoBlob.k = "none"  BY DEF NoBlob
  <2>2. InAir(run.blob.id)' => InAir(run.blob.id)
    <3>1. ASSUME NEW b, b = run.blob.id, \E i \in DOMAIN air' : air'[i].k = "signed" /\ air'[i].seq = b
          PROVE  InAir(b)
      BY <1>2, <3>1 DEF InAir
    <3>. QED  BY <1>1, <3>1 DEF InAir
  <2>. QED  BY <1>1, <1>3, <2>1, <2>2 DEF IInv, Heard
<1>. QED  BY <1>1, <1>4, <1>5, <1>6, <1>7, DeviceKeeps

-----------------------------------------------------------------------------
(* The transfer and its receiver *)

\* A step of the transfer that asks nothing of the store: the run goes on, and no
\* document is on its way.
Flowing == {"authorize", "open", "opening", "replaying", "receive", "repair", "repairing", "ack",
            "acking", "confirm", "confirming", "confirmed"}

LEMMA FlowKeeps ==
  ASSUME IInv, RunOK', WireOK', air' \in Seq(FrameSet), Holding,
         UNCHANGED <<store, body, link, dev, cloud, left>>,
         run.pc \notin Early \cup {"restart", "forget", "truncate0"}, run'.pc \in Flowing, Asks',
         run'.pc \in {"confirm", "confirming"} => run.pc \in {"confirm", "confirming"}
  PROVE  IInv'
<1>1. TypeOK'  BY DEF IInv, TypeOK, StoreOK, RadioOK, RestOK
<1>2. /\ run'.pc \notin Early \cup {"restart", "forget", "truncate0", "save"}
      /\ run'.pc \notin Signing /\ run'.pc \notin Chained  BY DEF Flowing, Early, Signing, Chained, Cleaning
<1>3. Fits' /\ CheckpointBacked'  BY <1>2, FitsKept
<1>4. Grows /\ Chain'  BY <1>2, SameCloud, ChainFree
<1>5. Receipts' /\ Heard' /\ Custody'
  <2>1. run'.pc \in {"confirm", "confirming"} => dev'.receipt # 0  BY DEF IInv, Heard
  <2>. QED  BY <1>2, <1>4, <2>1, ReceiptsKept
<1>. QED  BY <1>1, <1>3, <1>4, <1>5 DEF IInv

\* The common case: the radio is as it was and nothing is unanswered.
LEMMA FlowsKeep ==
  ASSUME IInv, RunOK', Holding, UNCHANGED <<store, body, link, radio, cloud, left>>,
         run.pc \notin Early \cup {"restart", "forget", "truncate0"}, run'.pc \in Flowing,
         wire.k = "none",
         run'.pc \in {"confirm", "confirming"} => run.pc \in {"confirm", "confirming"}
  PROVE  IInv'
<1>1. wire' = wire /\ air' = air /\ dev' = dev  BY DEF radio
<1>2. WireOK' /\ air' \in Seq(FrameSet) /\ Asks'  BY <1>1 DEF IInv, TypeOK, RadioOK, WireOK, Asks
<1>. QED  BY <1>1, <1>2, FlowKeeps

LEMMA OpenKeeps == IInv /\ Open => IInv'
<1>. SUFFICES ASSUME IInv, Open  PROVE IInv'  OBVIOUS
<1>. DEFINE k == IF run.ckpt = NoCheckpoint THEN "start" ELSE "resume"
<1>1. /\ UNCHANGED <<store, body, link, air, dev, cloud, left>> /\ run.pc = "open" /\ TypeOK
      /\ wire' = [Nothing EXCEPT !.k = k, !.off = run.ckpt.off]
      /\ run' = [run EXCEPT !.pc = "opening", !.rx = run.ckpt, !.pend = NoCheckpoint, !.pkts = {},
                          !.miss = {}, !.tc = "awaiting_control", !.queue = <<>>, !.held = <<>>,
                          !.reply = NoFrame, !.man = FALSE, !.broken = "no"]
  BY DEF Open, durable, IInv
<1>2. run \in Runs /\ run.ckpt \in Checkpoints /\ run.ckpt.off \in 0 .. Units /\ "opening" \in Pcs
      /\ NoCheckpoint \in Checkpoints /\ NoFrame \in FrameSet /\ air \in Seq(FrameSet)
      /\ Nothing \in Requests /\ Nothing.miss = {} /\ IsFiniteSet({})
  BY <1>1, Fields, RunFields, CheckpointFields, EmptyTypes, PcNames
<1>3. k \in {"start", "resume"}  OBVIOUS
<1>. HIDE DEF k
<1>4. wire' \in Requests /\ wire'.k = k /\ wire'.miss = {}  BY <1>1, <1>2, <1>3 DEF Requests, RequestKinds
<1>5. <<>> \in Seq(FrameSet) /\ {} \in SUBSET Int /\ "awaiting_control" \in Expected /\ "no" \in Breaks
  BY DEF Expected, Breaks
<1>6. run' \in Runs  BY <1>1, <1>2, <1>5 DEF Runs
<1>7. run'.miss = {} /\ run'.pc = "opening" /\ run'.session = run.session /\ run'.ckpt = run.ckpt
      /\ run'.api = run.api  BY <1>1, <1>2 DEF Runs
<1>8. RunOK' /\ WireOK' /\ Asks'  BY <1>2, <1>3, <1>4, <1>6, <1>7 DEF RunOK, WireOK, Asks
<1>9. TypeOK'  BY <1>1, <1>8 DEF TypeOK, StoreOK, RadioOK, RestOK
<1>10. Fits' /\ CheckpointBacked'
  BY <1>1, <1>7 DEF IInv, Fits, CheckpointBacked, Working, Starting, Early, Cleaning
<1>11. Grows /\ Chain' /\ run'.pc \notin Signing  BY <1>1, <1>7, SameCloud, ChainFree DEF Chained, Signing
<1>12. Receipts' /\ Heard' /\ Custody'  BY <1>1, <1>7, <1>11, ReceiptsKept
<1>. QED  BY <1>8, <1>9, <1>10, <1>11, <1>12 DEF IInv

LEMMA OpenedKeeps == IInv /\ Opened => IInv'
<1>. SUFFICES ASSUME IInv, Opened  PROVE IInv'  OBVIOUS
<1>1. /\ UNCHANGED <<store, body, link, radio, cloud, left>> /\ run.pc = "opening" /\ TypeOK
      /\ wire.k = "none" /\ run' = [run EXCEPT !.pc = "replaying", !.tc = FirstPhase]
  BY DEF Opened, durable, IInv
<1>2. run' \in Runs /\ run'.miss = run.miss /\ run'.pc = "replaying" /\ Holding
  <2>1. run \in Runs /\ "replaying" \in Pcs /\ FirstPhase \in Expected
    BY <1>1, Fields, PcNames DEF FirstPhase, Expected
  <2>2. run' \in Runs  BY <1>1, <2>1 DEF Runs
  <2>. QED  BY <1>1, <2>1, <2>2 DEF Runs, Holding
<1>3. RunOK'  BY <1>1, <1>2 DEF TypeOK, RunOK
<1>. QED  BY <1>1, <1>2, <1>3, FlowsKeep DEF Flowing, Early, Cleaning

LEMMA ReplayHeldKeeps == IInv /\ ReplayHeld => IInv'
<1>. SUFFICES ASSUME IInv, ReplayHeld  PROVE IInv'  OBVIOUS
<1>1. /\ UNCHANGED <<store, body, link, radio, cloud, left>> /\ run.pc = "replaying" /\ TypeOK
      /\ wire.k = "none"  BY NoWrite DEF ReplayHeld, durable, IInv, Writing
<1>2. run \in Runs /\ run.held \in Seq(FrameSet)  BY <1>1, Fields, RunFields
<1>3. RunOK' /\ Holding /\ run'.pc \in {"receive", "replaying"}
  <2>1. CASE run.held = <<>>  BY <1>1, <2>1, GotoFacts, PcNames DEF ReplayHeld
  <2>2. CASE run.held # <<>>
    <3>1. run' = [Accept(run, Head(run.held)) EXCEPT !.held = Tail(@)]  BY <2>2 DEF ReplayHeld
    <3>2. Head(run.held) \in FrameSet /\ Tail(run.held) \in Seq(FrameSet)  BY <1>2, <2>2, TakeType
    <3>3. PICK tc \in Expected, repair \in SUBSET Int, queue \in Seq(FrameSet), broken \in Breaks :
            Accept(run, Head(run.held)) = [run EXCEPT !.tc = tc, !.repair = repair, !.queue = queue,
                                                      !.broken = broken]
      BY <1>2, <3>2, AcceptType
    <3>. DEFINE h == Tail(run.held)
    <3>4. run' = [run EXCEPT !.tc = tc, !.repair = repair, !.queue = queue, !.broken = broken,
                             !.held = h]
      BY <1>2, <3>1, <3>3 DEF Runs
    <3>5. h \in Seq(FrameSet)  BY <3>2
    <3>. HIDE DEF h
    <3>6. run' \in Runs /\ run'.miss = run.miss  BY <1>2, <3>4, <3>5 DEF Runs
    <3>7. run'.pc = run.pc /\ Holding  BY <1>2, <3>4 DEF Runs, Holding
    <3>. QED  BY <1>1, <3>6, <3>7 DEF TypeOK, RunOK
  <2>. QED  BY <2>1, <2>2
<1>. QED  BY <1>1, <1>3, FlowsKeep DEF Flowing, Early, Cleaning

LEMMA OpenRejectedKeeps == IInv /\ OpenRejected => IInv'
<1>. SUFFICES ASSUME IInv, OpenRejected  PROVE IInv'  OBVIOUS
<1>1. /\ UNCHANGED <<store, body, link, cloud, left>> /\ run.pc = "opening" /\ TypeOK
      /\ wire.k = "none" /\ left' \in Lefts  BY Fields DEF OpenRejected, durable, IInv
<1>2. CASE run' = [run EXCEPT !.pc = "restart", !.tc = "none", !.ckpt = NoCheckpoint]
           /\ UNCHANGED radio
  <2>1. run' \in Runs /\ run'.miss = run.miss /\ run'.pc = "restart" /\ run'.ckpt = NoCheckpoint
        /\ run'.session = run.session
    <3>1. run \in Runs /\ "restart" \in Pcs /\ "none" \in Expected /\ NoCheckpoint \in Checkpoints
      BY <1>1, Fields, PcNames, EmptyTypes DEF Expected
    <3>. QED  BY <1>2, <3>1 DEF Runs
  <2>2. RunOK' /\ StoreOK' /\ RestOK' /\ Grows
    BY <1>1, <2>1, SameCloud DEF IInv, TypeOK, RunOK, StoreOK, RestOK
  <2>3. Fits' /\ CheckpointBacked'
    BY <1>1, <2>1 DEF IInv, Fits, CheckpointBacked, Working, Starting, Early, Cleaning
  <2>4. run'.pc \notin Signing /\ run'.pc \notin Chained  BY <2>1 DEF Signing, Chained
  <2>. QED  BY <1>1, <1>2, <2>1, <2>2, <2>3, <2>4, ChainFree, QuietKeeps
<1>3. CASE Fail("rejected") \/ Fail("identity")  BY <1>1, <1>3, JustFails, OutcomeNames
<1>. QED  BY <1>2, <1>3 DEF OpenRejected

LEMMA SaveStateFacts ==
  ASSUME TypeOK, NEW c \in Checkpoints, NEW e \in BOOLEAN, SaveState(c, e)
  PROVE  store' \in Stores /\ store'.ckpt = c /\ store'.phase = store.phase
         /\ store'.session = store.session
  BY Fields DEF SaveState, Stores

LEMMA DeleteCheckpointKeeps == IInv /\ DeleteCheckpoint => IInv'
<1>. SUFFICES ASSUME IInv, DeleteCheckpoint  PROVE IInv'  OBVIOUS
<1>1. /\ UNCHANGED <<body, link, radio, cloud, left>> /\ run.pc = "restart" /\ TypeOK
      /\ SaveState(NoCheckpoint, store.evidence) /\ Goto("truncate0") /\ wire.k = "none"
  BY NoWrite DEF DeleteCheckpoint, IInv, Writing
<1>2. store' \in Stores /\ store'.ckpt = NoCheckpoint /\ store'.phase = store.phase
      /\ store'.session = store.session  BY <1>1, SaveStateFacts, EmptyTypes, Fields
<1>3. RunOK' /\ run'.pc = "truncate0" /\ Holding  BY <1>1, GotoFacts, PcNames
<1>4. StoreOK' /\ RestOK' /\ Grows  BY <1>1, <1>2, SameCloud DEF IInv, TypeOK, StoreOK, RestOK
<1>5. Fits' /\ CheckpointBacked'  BY <1>1, <1>2, <1>3
     DEF IInv, Fits, CheckpointBacked, Holding, Working, Starting, Early, Cleaning
<1>6. run'.pc \notin Signing /\ run'.pc \notin Chained  BY <1>3 DEF Signing, Chained
<1>. QED  BY <1>1, <1>3, <1>4, <1>5, <1>6, ChainFree, QuietKeeps

LEMMA TruncateAllKeeps == IInv /\ TruncateAll => IInv'
<1>. SUFFICES ASSUME IInv, TruncateAll  PROVE IInv'  OBVIOUS
<1>1. /\ UNCHANGED <<store, link, radio, cloud, left>> /\ run.pc = "truncate0" /\ TypeOK
      /\ body' = 0 /\ Goto("open") /\ wire.k = "none" /\ store.ckpt = NoCheckpoint
      /\ 0 \in 0 .. Units
  BY NoWrite, ConstantTypes DEF TruncateAll, IInv, Fits, Working, Early, Cleaning, Writing
<1>2. RunOK' /\ run'.pc = "open" /\ Holding  BY <1>1, GotoFacts, PcNames
<1>3. StoreOK' /\ RestOK' /\ Grows  BY <1>1, SameCloud DEF IInv, TypeOK, StoreOK, RestOK
<1>4. Fits' /\ CheckpointBacked'
  BY <1>1, <1>2 DEF IInv, Fits, CheckpointBacked, Holding, Working, Starting, Early, Cleaning
<1>5. run'.pc \notin Signing /\ run'.pc \notin Chained  BY <1>2 DEF Signing, Chained
<1>. QED  BY <1>1, <1>2, <1>3, <1>4, <1>5, ChainFree, QuietKeeps

\* The pump takes the next frame.
LEMMA TookFacts ==
  ASSUME TypeOK, Next1
  PROVE  /\ run \in Runs /\ run.pc = "receive" /\ Head(run.queue) \in FrameSet
         /\ Tail(run.queue) \in Seq(FrameSet)
         /\ Took(run) \in Runs /\ Took(run).miss = run.miss
         /\ Took(run) = [run EXCEPT !.queue = Tail(run.queue)]
<1>1. run \in Runs /\ run.queue \in Seq(FrameSet) /\ run.queue # <<>> /\ run.pc = "receive"
  BY Fields, RunFields DEF Next1
<1>2. Head(run.queue) \in FrameSet /\ Tail(run.queue) \in Seq(FrameSet)  BY <1>1, TakeType
<1>. DEFINE t == Tail(run.queue)
<1>3. Took(run) = [run EXCEPT !.queue = t] /\ t \in Seq(FrameSet)  BY <1>1, <1>2 DEF Took
<1>. HIDE DEF t
<1>4. [run EXCEPT !.queue = t] \in Runs /\ [run EXCEPT !.queue = t].miss = run.miss  BY <1>1, <1>3 DEF Runs
<1>. QED  BY <1>1, <1>2, <1>3, <1>4 DEF t

LEMMA PumpFailsKeeps == IInv /\ PumpFails => IInv'
<1>. SUFFICES ASSUME IInv, PumpFails  PROVE IInv'  OBVIOUS
<1>1. Fail(run.broken) /\ UNCHANGED <<store, body, link, cloud, left>> /\ run.broken # "no"
  BY DEF PumpFails, durable
<1>2. run.broken \in {"lossy", "protocol"} /\ left' \in Lefts  BY <1>1, Fields, RunFields DEF IInv, Breaks
<1>. QED  BY <1>1, <1>2, JustFails, OutcomeNames

LEMMA ReceiveDataKeeps == IInv /\ ReceiveData => IInv'
<1>. SUFFICES ASSUME IInv, ReceiveData  PROVE IInv'  OBVIOUS
<1>1. /\ UNCHANGED <<store, body, link, cloud, left>> /\ Next1 /\ TypeOK /\ left' \in Lefts
      /\ run.pc = "receive"  BY Fields DEF ReceiveData, durable, IInv, Next1
<1>2. CASE /\ run' = [Took(run) EXCEPT !.pkts = @ \cup {Head(run.queue).seq}]
           /\ UNCHANGED radio
  <2>. DEFINE t == Took(run)
              pkts == t.pkts \cup {Head(run.queue).seq}
  <2>1. t \in Runs /\ t.miss = run.miss /\ Head(run.queue).seq \in Int  BY <1>1, TookFacts, FrameFields
  <2>2. t.pc = run.pc /\ t.api = run.api /\ t.session = run.session /\ t.ckpt = run.ckpt
        /\ t.pend = run.pend /\ t.blob = run.blob /\ t.result = run.result  BY <1>1, TookFacts DEF Runs
  <2>3. run' = [t EXCEPT !.pkts = pkts] /\ pkts \in SUBSET Int  BY <1>2, <2>1, RunFields
  <2>. HIDE DEF t, pkts
  <2>4. run' \in Runs /\ run'.miss = t.miss  BY <2>1, <2>3 DEF Runs
  <2>5. run'.pc = run.pc /\ Holding  BY <2>1, <2>2, <2>3 DEF Runs, Holding
  <2>6. RunOK' /\ wire.k = "none"  BY <1>1, <2>1, <2>4, NoWrite DEF TypeOK, RunOK, Writing
  <2>. QED  BY <1>1, <1>2, <2>5, <2>6, FlowsKeep DEF Flowing, Early, Cleaning
<1>3. CASE Fail("protocol")  BY <1>1, <1>3, JustFails, OutcomeNames
<1>. QED  BY <1>2, <1>3 DEF ReceiveData

LEMMA MissingType ==
  ASSUME NEW f \in FrameSet
  PROVE  Missing(f) \in SUBSET Int /\ IsFiniteSet(Missing(f))
<1>1. f.seq \in Int /\ f.last \in Int  BY FrameFields
<1>2. f.seq .. f.last \in SUBSET Int /\ IsFiniteSet(f.seq .. f.last)  BY <1>1, FS_Interval
<1>. QED  BY <1>2, FS_Subset DEF Missing

LEMMA WindowIncompleteKeeps == IInv /\ WindowIncomplete => IInv'
<1>. SUFFICES ASSUME IInv, WindowIncomplete  PROVE IInv'  OBVIOUS
<1>. DEFINE f == Head(run.queue)
<1>1. /\ UNCHANGED <<store, body, link, cloud, left>> /\ Next1 /\ TypeOK /\ left' \in Lefts
      /\ run.pc = "receive"  BY Fields DEF WindowIncomplete, durable, IInv, Next1
<1>2. CASE run' = [Took(run) EXCEPT !.pc = "repair", !.miss = Missing(f)] /\ UNCHANGED radio
  <2>. DEFINE t == Took(run)
              miss == Missing(f)
  <2>1. t \in Runs /\ miss \in SUBSET Int /\ IsFiniteSet(miss) /\ "repair" \in Pcs
    BY <1>1, TookFacts, MissingType, PcNames
  <2>2. t.api = run.api /\ t.session = run.session /\ t.ckpt = run.ckpt
        /\ t.pend = run.pend /\ t.blob = run.blob /\ t.result = run.result  BY <1>1, TookFacts DEF Runs
  <2>3. run' = [t EXCEPT !.pc = "repair", !.miss = miss]  BY <1>2
  <2>. HIDE DEF t, miss
  <2>4. run' \in Runs /\ run'.miss = miss  BY <2>1, <2>3 DEF Runs
  <2>5. run'.pc = "repair" /\ Holding  BY <2>1, <2>2, <2>3 DEF Runs, Holding
  <2>6. RunOK' /\ wire.k = "none"  BY <1>1, <2>1, <2>4, NoWrite DEF RunOK, Writing
  <2>. QED  BY <1>1, <1>2, <2>5, <2>6, FlowsKeep DEF Flowing, Early, Cleaning
<1>3. CASE Fail("protocol")  BY <1>1, <1>3, JustFails, OutcomeNames
<1>. QED  BY <1>2, <1>3 DEF WindowIncomplete

LEMMA WindowStagedKeeps == IInv /\ WindowStaged => IInv'
<1>. SUFFICES ASSUME IInv, WindowStaged  PROVE IInv'  OBVIOUS
<1>. DEFINE f == Head(run.queue)
            t == Took(run)
            c == [session |-> run.session, off |-> f.off, seq |-> f.last]
<1>1. /\ UNCHANGED <<store, link, radio, cloud, left>> /\ Next1 /\ TypeOK
      /\ run.pc = "receive" /\ Follows(f) /\ body = run.rx.off /\ body' = f.off
      /\ run' = [t EXCEPT !.pc = "save", !.miss = {}, !.pend = c]  BY DEF WindowStaged, IInv, Next1
<1>2. t \in Runs /\ f \in FrameSet /\ run \in Runs /\ "save" \in Pcs
      /\ t.session = run.session /\ t.ckpt = run.ckpt /\ t.api = run.api
  <2>1. run \in Runs /\ t \in Runs /\ t = [run EXCEPT !.queue = Tail(run.queue)]  BY <1>1, TookFacts
  <2>. QED  BY ZenonT(60), <1>1, <2>1, TookFacts, PcNames DEF Runs
<1>3. /\ c \in Checkpoints /\ c.off = f.off /\ c.session = run.session
      /\ f.off \in 0 .. Units /\ run.rx.off \in 0 .. Units /\ f.off > run.rx.off
  <2>1. run.session \in 0 .. MaxSessions /\ run.rx \in Checkpoints  BY <1>2, RunFields
  <2>2. f.off \in 0 .. Units /\ f.last \in Int /\ run.rx.off \in 0 .. Units
    BY <1>2, <2>1, FrameFields, CheckpointFields
  <2>. QED  BY <1>1, <2>1, <2>2 DEF Checkpoints, Follows
<1>. HIDE DEF t, c, f
<1>4. run' \in Runs /\ run'.miss = {} /\ run'.pc = "save" /\ run'.pend = c
      /\ run'.session = run.session /\ run'.ckpt = run.ckpt  BY <1>1, <1>2, <1>3 DEF Runs
<1>5. RunOK' /\ StoreOK' /\ RestOK' /\ Grows /\ wire.k = "none"
  BY <1>1, <1>3, <1>4, EmptyTypes, SameCloud, NoWrite DEF IInv, TypeOK, RunOK, StoreOK, RestOK, Writing
<1>6. Fits'  BY <1>1, <1>3, <1>4 DEF IInv, Fits, Working, Starting, Early, Cleaning
<1>7. CheckpointBacked'
  <2>1. store.ckpt.off \in 0 .. Units /\ Units \in Nat  BY <1>1, Fields, CheckpointFields, ConstantTypes
  <2>2. f.off >= body  BY <1>1, <1>3, ConstantTypes
  <2>3. store.ckpt.off <= body => store.ckpt.off <= body'  BY <1>1, <1>3, <2>1, <2>2
  <2>. QED  BY <1>1, <2>3 DEF IInv, CheckpointBacked
<1>8. run'.pc \notin Signing /\ run'.pc \notin Chained  BY <1>4 DEF Signing, Chained
<1>. QED  BY <1>1, <1>4, <1>5, <1>6, <1>7, <1>8, ChainFree, QuietKeeps

LEMMA SendRepairKeeps == IInv /\ SendRepair => IInv'
<1>. SUFFICES ASSUME IInv, SendRepair  PROVE IInv'  OBVIOUS
<1>1. /\ UNCHANGED <<store, body, link, air, dev, cloud, left>> /\ run.pc = "repair" /\ TypeOK
      /\ wire' = [Nothing EXCEPT !.k = "repair", !.miss = run.miss]
      /\ run' = [run EXCEPT !.pc = "repairing", !.tc = "repair", !.repair = run.miss]
  BY DEF SendRepair, durable, IInv
<1>2. run \in Runs /\ run.miss \in SUBSET Int /\ IsFiniteSet(run.miss) /\ "repairing" \in Pcs
      /\ "repair" \in Expected /\ Nothing \in Requests /\ air \in Seq(FrameSet)
  BY <1>1, Fields, RunFields, PcNames, EmptyTypes DEF Expected
<1>3. wire' \in Requests /\ wire'.k = "repair" /\ wire'.miss = run.miss
  BY <1>1, <1>2 DEF Requests, RequestKinds
<1>4. run' \in Runs /\ run'.miss = run.miss  BY <1>1, <1>2 DEF Runs
<1>5. run'.pc = "repairing" /\ Holding  BY <1>1, <1>2 DEF Runs, Holding
<1>6. RunOK' /\ WireOK' /\ Asks'  BY <1>2, <1>3, <1>4, <1>5 DEF RunOK, WireOK, Asks
<1>. QED  BY <1>1, <1>2, <1>5, <1>6, FlowKeeps DEF Flowing, Early, Cleaning

LEMMA SendAckKeeps == IInv /\ SendAck => IInv'
<1>. SUFFICES ASSUME IInv, SendAck  PROVE IInv'  OBVIOUS
<1>. DEFINE tc == IF run.pend.off = Units THEN "manifest" ELSE "window"
<1>1. /\ UNCHANGED <<store, body, link, air, dev, cloud, left>> /\ run.pc = "ack" /\ TypeOK
      /\ wire' = [Nothing EXCEPT !.k = "ack", !.off = run.pend.off]
      /\ run' = [run EXCEPT !.pc = "acking", !.rx = run.pend, !.pkts = {}, !.tc = tc]
  BY DEF SendAck, durable, IInv
<1>2. run \in Runs /\ run.pend \in Checkpoints /\ run.pend.off \in 0 .. Units /\ "acking" \in Pcs
      /\ tc \in Expected /\ Nothing \in Requests /\ Nothing.miss = {} /\ air \in Seq(FrameSet)
      /\ IsFiniteSet(run.miss) /\ IsFiniteSet({})
  BY <1>1, Fields, RunFields, CheckpointFields, PcNames, EmptyTypes DEF Expected
<1>. HIDE DEF tc
<1>3. wire' \in Requests /\ wire'.k = "ack" /\ wire'.miss = {}  BY <1>1, <1>2 DEF Requests, RequestKinds
<1>4. run' \in Runs /\ run'.miss = run.miss  BY <1>1, <1>2 DEF Runs
<1>5. run'.pc = "acking" /\ Holding  BY <1>1, <1>2 DEF Runs, Holding
<1>6. RunOK' /\ WireOK' /\ Asks'  BY <1>2, <1>3, <1>4, <1>5 DEF RunOK, WireOK, Asks
<1>. QED  BY <1>1, <1>2, <1>5, <1>6, FlowKeeps DEF Flowing, Early, Cleaning

LEMMA RepairingKeeps == IInv /\ Repairing => IInv'
<1>. SUFFICES ASSUME IInv, Repairing  PROVE IInv'  OBVIOUS
<1>1. /\ UNCHANGED <<store, body, link, radio, cloud, left>> /\ run.pc = "repairing" /\ TypeOK
      /\ wire.k = "none" /\ Goto("receive")  BY DEF Repairing, durable, IInv
<1>2. RunOK' /\ run'.pc = "receive" /\ Holding  BY <1>1, GotoFacts, PcNames
<1>. QED  BY <1>1, <1>2, FlowsKeep DEF Flowing, Early, Cleaning

LEMMA AckedKeeps == IInv /\ Acked => IInv'
<1>. SUFFICES ASSUME IInv, Acked  PROVE IInv'  OBVIOUS
<1>1. /\ UNCHANGED <<store, body, link, radio, cloud, left>> /\ run.pc = "acking" /\ TypeOK
      /\ wire.k = "none" /\ run' = [run EXCEPT !.pc = "receive", !.pend = NoCheckpoint]
  BY DEF Acked, durable, IInv
<1>2. run' \in Runs /\ run'.miss = run.miss /\ run'.pc = "receive" /\ run'.session = run.session
      /\ run'.ckpt = run.ckpt
  <2>1. run \in Runs /\ "receive" \in Pcs /\ NoCheckpoint \in Checkpoints
    BY <1>1, Fields, PcNames, EmptyTypes
  <2>. QED  BY <1>1, <2>1 DEF Runs
<1>3. RunOK' /\ StoreOK' /\ RestOK' /\ Grows
  BY <1>1, <1>2, SameCloud DEF IInv, TypeOK, RunOK, StoreOK, RestOK
<1>4. Fits' /\ CheckpointBacked'
  BY <1>1, <1>2 DEF IInv, Fits, CheckpointBacked, Working, Starting, Early, Cleaning
<1>5. run'.pc \notin Signing /\ run'.pc \notin Chained  BY <1>2 DEF Signing, Chained
<1>. QED  BY <1>1, <1>2, <1>3, <1>4, <1>5, ChainFree, QuietKeeps

LEMMA SaveCheckpointKeeps == IInv /\ SaveCheckpoint => IInv'
<1>. SUFFICES ASSUME IInv, SaveCheckpoint  PROVE IInv'  OBVIOUS
<1>1. /\ UNCHANGED <<body, link, radio, cloud, left>> /\ run.pc = "save" /\ TypeOK
      /\ SaveState(run.pend, store.evidence) /\ run' = [run EXCEPT !.pc = "ack", !.ckpt = run.pend]
      /\ wire.k = "none"  BY NoWrite DEF SaveCheckpoint, IInv, Writing
<1>2. run \in Runs /\ run.pend \in Checkpoints /\ store.evidence \in BOOLEAN /\ "ack" \in Pcs
      /\ run.pend.session = run.session /\ run.pend.off = body /\ body \in 0 .. Units
  BY <1>1, Fields, RunFields, PcNames DEF IInv, Fits
<1>3. store' \in Stores /\ store'.ckpt = run.pend /\ store'.phase = store.phase
      /\ store'.session = store.session  BY <1>1, <1>2, SaveStateFacts
<1>4. run' \in Runs /\ run'.miss = run.miss /\ run'.pc = "ack" /\ run'.ckpt = run.pend
      /\ run'.session = run.session  BY <1>1, <1>2 DEF Runs
<1>5. RunOK' /\ StoreOK' /\ RestOK' /\ Grows
  BY <1>1, <1>3, <1>4, SameCloud DEF IInv, TypeOK, RunOK, StoreOK, RestOK
<1>6. Fits'  BY <1>1, <1>3, <1>4 DEF IInv, Fits, Working, Starting, Early, Cleaning
<1>7. CheckpointBacked'
  <2>1. store.session = run.session /\ run.pend.off <= body
    BY <1>1, <1>2, ConstantTypes DEF IInv, Fits, Working, Early, Cleaning
  <2>. QED  BY <1>1, <1>2, <1>3, <2>1 DEF CheckpointBacked
<1>8. run'.pc \notin Signing /\ run'.pc \notin Chained  BY <1>4 DEF Signing, Chained
<1>. QED  BY <1>1, <1>4, <1>5, <1>6, <1>7, <1>8, ChainFree, QuietKeeps

LEMMA ReceiveManifestKeeps == IInv /\ ReceiveManifest => IInv'
<1>. SUFFICES ASSUME IInv, ReceiveManifest  PROVE IInv'  OBVIOUS
<1>. DEFINE t == Took(run)
<1>1. /\ UNCHANGED <<store, body, link, radio, cloud, left>> /\ Next1 /\ TypeOK
      /\ run.pc = "receive" /\ run' = [t EXCEPT !.man = TRUE] /\ wire.k = "none"
  BY NoWrite DEF ReceiveManifest, durable, IInv, Next1, Writing
<1>2. t \in Runs /\ t.miss = run.miss /\ t.pc = run.pc /\ t.api = run.api /\ t.session = run.session
      /\ t.ckpt = run.ckpt /\ t.pend = run.pend /\ t.blob = run.blob /\ t.result = run.result
  BY <1>1, TookFacts DEF Runs
<1>. HIDE DEF t
<1>3. run' \in Runs /\ run'.miss = run.miss  BY <1>1, <1>2 DEF Runs
<1>4. run'.pc = run.pc /\ Holding  BY <1>1, <1>2 DEF Runs, Holding
<1>5. RunOK'  BY <1>1, <1>3 DEF TypeOK, RunOK
<1>. QED  BY <1>1, <1>4, <1>5, FlowsKeep DEF Flowing, Early, Cleaning

LEMMA ReceiveEofKeeps == IInv /\ ReceiveEof => IInv'
<1>. SUFFICES ASSUME IInv, ReceiveEof  PROVE IInv'  OBVIOUS
<1>. DEFINE t == Took(run)
<1>1. /\ UNCHANGED <<store, body, link, cloud, left>> /\ Next1 /\ TypeOK /\ left' \in Lefts
      /\ run.pc = "receive" /\ wire.k = "none"
  BY Fields, NoWrite DEF ReceiveEof, durable, IInv, Next1, Writing
<1>2. CASE body = Units /\ run' = [t EXCEPT !.pc = "evidence"] /\ UNCHANGED radio
  <2>1. t \in Runs /\ t.miss = run.miss /\ t.api = run.api /\ t.session = run.session
        /\ t.ckpt = run.ckpt /\ t.pend = run.pend /\ t.blob = run.blob /\ t.result = run.result
    BY <1>1, TookFacts DEF Runs
  <2>. HIDE DEF t
  <2>2. run' \in Runs /\ run'.miss = run.miss /\ run'.pc = "evidence"
    BY SMTT(60), <1>2, <2>1, PcNames DEF Runs
  <2>3. Holding  BY <1>2, <2>1 DEF Runs, Holding
  <2>4. RunOK' /\ StoreOK' /\ RestOK' /\ Grows
    BY <1>1, <2>2, SameCloud DEF IInv, TypeOK, RunOK, StoreOK, RestOK
  <2>5. Fits' /\ CheckpointBacked'  BY <1>1, <2>2, <2>3, FitsKept DEF Early, Cleaning
  <2>6. Chain'  BY <1>1, <1>2, <2>2 DEF IInv, Chain
  <2>. QED  BY <1>1, <1>2, <2>2, <2>4, <2>5, <2>6, QuietKeeps DEF Signing
<1>3. CASE Fail("integrity") \/ Fail("mismatch")  BY <1>1, <1>3, JustFails, OutcomeNames
<1>. QED  BY <1>2, <1>3 DEF ReceiveEof

-----------------------------------------------------------------------------
(* From the whole ciphertext to the receipt *)

LEMMA EvidenceKeeps == IInv /\ Evidence => IInv'
<1>. SUFFICES ASSUME IInv, Evidence  PROVE IInv'  OBVIOUS
<1>1. /\ UNCHANGED <<body, link, radio, cloud, left>> /\ run.pc = "evidence" /\ TypeOK
      /\ SaveState(run.ckpt, TRUE) /\ wire.k = "none" /\ run.ckpt = store.ckpt
      /\ \E pc \in {"receipt", "staged"} : Goto(pc)
  BY NoWrite DEF Evidence, IInv, Fits, Working, Early, Cleaning, Writing
<1>2. PICK pc \in {"receipt", "staged"} : Goto(pc)  BY <1>1
<1>3. RunOK' /\ run'.pc = pc /\ Holding
  <2>1. pc \in Pcs  BY PcNames
  <2>. QED  BY <1>1, <1>2, <2>1, GotoFacts
<1>4. store' \in Stores /\ store'.ckpt = store.ckpt /\ store'.phase = store.phase
      /\ store'.session = store.session
  <2>1. run.ckpt \in Checkpoints /\ TRUE \in BOOLEAN  BY <1>1, Fields
  <2>. QED  BY <1>1, <2>1, SaveStateFacts
<1>5. StoreOK' /\ RestOK' /\ Grows  BY <1>1, <1>4, SameCloud DEF IInv, TypeOK, StoreOK, RestOK
<1>6. Fits' /\ CheckpointBacked'  BY <1>1, <1>3, <1>4
     DEF IInv, Fits, CheckpointBacked, Holding, Working, Starting, Early, Cleaning
<1>7. Chain' /\ run'.pc \notin Signing  BY <1>1, <1>3 DEF IInv, Chain, Signing
<1>. QED  BY <1>1, <1>3, <1>5, <1>6, <1>7, QuietKeeps

\* What the service takes in, whether or not its answer is heard.
PutIn == run.pc = "put" /\ cloud' = [cloud EXCEPT ![run.session].body = body]
SubmitIn == run.pc = "manifest" /\ cloud' = [cloud EXCEPT ![run.session].manifest = TRUE]
FinalizeIn == run.pc = "finalize" /\ cloud' = [cloud EXCEPT ![run.session].completed = TRUE]

LEMMA TakesIn ==
  ASSUME IInv, PutIn \/ SubmitIn \/ FinalizeIn
  PROVE  /\ cloud' \in Clouds /\ Grows /\ run.session \in Sessions
         /\ cloud'[run.session].body = Units
         /\ run.pc \in {"manifest", "finalize"} => cloud'[run.session].manifest
<1>. DEFINE s == run.session
            C == [body : 0 .. Units, manifest : BOOLEAN, completed : BOOLEAN]
<1>1. cloud \in [Sessions -> C] /\ body \in 0 .. Units  BY Fields DEF IInv, Clouds
<1>2. s \in Sessions  BY DEF PutIn, SubmitIn, FinalizeIn, IInv, Fits, Working, Early, Cleaning
<1>3. ASSUME NEW c \in C, NEW b \in 0 .. Units
      PROVE  /\ [c EXCEPT !.body = b] \in C /\ [c EXCEPT !.manifest = TRUE] \in C
             /\ [c EXCEPT !.completed = TRUE] \in C
             /\ [c EXCEPT !.body = b].body = b /\ [c EXCEPT !.body = b].manifest = c.manifest
             /\ [c EXCEPT !.body = b].completed = c.completed
             /\ [c EXCEPT !.manifest = TRUE].body = c.body /\ [c EXCEPT !.manifest = TRUE].manifest
             /\ [c EXCEPT !.manifest = TRUE].completed = c.completed
             /\ [c EXCEPT !.completed = TRUE].body = c.body
             /\ [c EXCEPT !.completed = TRUE].manifest = c.manifest
  OBVIOUS
<1>4. \A t \in Sessions : cloud[t] \in C  BY <1>1
<1>5. /\ \A t \in Sessions : Grounded(t)
      /\ run.pc = "put" => body = Units
      /\ run.pc \in {"manifest", "finalize"} => cloud[s].body = Units
      /\ run.pc = "finalize" => cloud[s].manifest  BY DEF IInv, Chain, Grounded
<1>6. PICK c \in C :
        /\ cloud' = [cloud EXCEPT ![s] = c]
        /\ c.body = Units /\ (cloud[s].completed => c.completed) /\ (c.completed => c.manifest)
        /\ run.pc \in {"manifest", "finalize"} => c.manifest
  <2>1. CASE PutIn
    <3>. DEFINE e == [cloud[s] EXCEPT !.body = body]
    <3>1. e \in C /\ cloud' = [cloud EXCEPT ![s] = e]  BY <1>1, <1>2, <1>3, <1>4, <2>1 DEF PutIn
    <3>2. e.body = body /\ e.manifest = cloud[s].manifest /\ e.completed = cloud[s].completed
      BY <1>1, <1>2, <1>3, <1>4
    <3>3. run.pc = "put"  BY <2>1 DEF PutIn
    <3>. HIDE DEF C, s, e
    <3>. QED  BY <1>2, <1>5, <3>1, <3>2, <3>3 DEF Grounded
  <2>2. CASE SubmitIn
    <3>. DEFINE e == [cloud[s] EXCEPT !.manifest = TRUE]
    <3>1. e \in C /\ cloud' = [cloud EXCEPT ![s] = e]  BY <1>1, <1>2, <1>3, <1>4, <2>2 DEF SubmitIn
    <3>2. e.body = cloud[s].body /\ e.manifest /\ e.completed = cloud[s].completed
      BY <1>1, <1>2, <1>3, <1>4
    <3>3. run.pc = "manifest"  BY <2>2 DEF SubmitIn
    <3>. HIDE DEF C, s, e
    <3>. QED  BY <1>2, <1>5, <3>1, <3>2, <3>3 DEF Grounded
  <2>3. CASE FinalizeIn
    <3>. DEFINE e == [cloud[s] EXCEPT !.completed = TRUE]
    <3>1. e \in C /\ cloud' = [cloud EXCEPT ![s] = e]  BY <1>1, <1>2, <1>3, <1>4, <2>3 DEF FinalizeIn
    <3>2. e.body = cloud[s].body /\ e.manifest = cloud[s].manifest /\ e.completed  BY <1>1, <1>2, <1>3, <1>4
    <3>3. run.pc = "finalize"  BY <2>3 DEF FinalizeIn
    <3>. HIDE DEF C, s, e
    <3>. QED  BY <1>2, <1>5, <3>1, <3>2, <3>3 DEF Grounded
  <2>. QED  BY <2>1, <2>2, <2>3
<1>. HIDE DEF C, s
<1>7. cloud' \in [Sessions -> C] /\ cloud'[s] = c /\ \A t \in Sessions \ {s} : cloud'[t] = cloud[t]
  BY <1>1, <1>2, <1>6
<1>8. \A t \in Sessions : Grounded(t)'  BY <1>5, <1>6, <1>7 DEF Grounded
<1>9. \A t : Completed(t) => Completed(t)'  BY <1>6, <1>7 DEF Completed
<1>. QED  BY <1>2, <1>6, <1>7, <1>8, <1>9 DEF Clouds, C, Grows, s

\* A step from one request to the service to the next.
LEMMA AsksServiceKeeps ==
  ASSUME IInv, NEW pc \in {"manifest", "finalize", "receipt", "cloud"}, Goto(pc),
         UNCHANGED <<store, body, link, radio, left>>, cloud' \in Clouds, Grows,
         run.pc \in {"put", "manifest", "finalize", "receipt"},
         run'.pc = pc /\ Holding => Chain'
  PROVE  IInv'
<1>1. TypeOK /\ pc \in Pcs /\ wire.k = "none"  BY PcNames, NoWrite DEF IInv, Writing
<1>2. RunOK' /\ run'.pc = pc /\ Holding  BY <1>1, GotoFacts
<1>3. StoreOK' /\ RestOK'  BY <1>1 DEF TypeOK, StoreOK, RestOK
<1>4. Fits' /\ CheckpointBacked'  BY <1>2, FitsKept DEF Early, Cleaning
<1>5. run'.pc \notin Signing /\ run'.pc \notin {"confirm", "confirming"}  BY <1>2 DEF Signing
<1>. QED  BY <1>1, <1>2, <1>3, <1>4, <1>5, QuietKeeps

LEMMA ServiceKeeps == IInv /\ (Put \/ SubmitManifest \/ Finalize \/ Receipt) => IInv'
<1>. SUFFICES ASSUME IInv, Put \/ SubmitManifest \/ Finalize \/ Receipt  PROVE IInv'  OBVIOUS
<1>1. UNCHANGED <<store, body, link, radio, left>> /\ cloud \in Clouds
  BY Fields DEF Put, SubmitManifest, Finalize, Receipt, durable, IInv
<1>2. CASE Put
  <2>1. run.pc = "put" /\ Goto("manifest")
        /\ (PutIn \/ (cloud' = cloud /\ cloud[run.session].body = Units))  BY <1>2 DEF Put, PutIn
  <2>2. cloud' \in Clouds /\ Grows /\ cloud'[run.session].body = Units  BY <1>1, <2>1, TakesIn, SameCloud
  <2>3. run'.pc = "manifest" /\ Holding => Chain'  BY <2>2 DEF Chain, Grows, Grounded, Holding
  <2>. QED  BY <1>1, <2>1, <2>2, <2>3, AsksServiceKeeps
<1>3. CASE SubmitManifest
  <2>1. run.pc = "manifest" /\ Goto("finalize") /\ SubmitIn  BY <1>3 DEF SubmitManifest, SubmitIn
  <2>2. cloud' \in Clouds /\ Grows /\ cloud'[run.session].body = Units /\ cloud'[run.session].manifest
    BY <2>1, TakesIn
  <2>3. run'.pc = "finalize" /\ Holding => Chain'  BY <2>2 DEF Chain, Grows, Grounded, Holding
  <2>. QED  BY <1>1, <2>1, <2>2, <2>3, AsksServiceKeeps
<1>4. CASE Finalize
  <2>1. run.pc = "finalize" /\ Goto("receipt") /\ FinalizeIn  BY <1>4 DEF Finalize, FinalizeIn
  <2>2. cloud' \in Clouds /\ Grows  BY <2>1, TakesIn
  <2>3. run'.pc = "receipt" => Chain'  BY <2>2, ChainFree DEF Chained
  <2>. QED  BY <1>1, <2>1, <2>2, <2>3, AsksServiceKeeps
<1>5. CASE Receipt
  <2>1. run.pc = "receipt" /\ Goto("cloud") /\ cloud' = cloud /\ cloud[run.session].completed
    BY <1>5 DEF Receipt
  <2>2. cloud' \in Clouds /\ Grows /\ run.session \in Sessions
    BY <1>1, <2>1, SameCloud DEF IInv, Fits, Working, Early, Cleaning
  <2>3. run'.pc = "cloud" /\ Holding => Chain'  BY <2>1, <2>2 DEF Chain, Grows, Grounded, Holding, Completed
  <2>. QED  BY <1>1, <2>1, <2>2, <2>3, AsksServiceKeeps
<1>. QED  BY <1>2, <1>3, <1>4, <1>5

-----------------------------------------------------------------------------
(* The confirmation and the cleanup *)

LEMMA SendConfirmKeeps == IInv /\ SendConfirm => IInv'
<1>. SUFFICES ASSUME IInv, SendConfirm  PROVE IInv'  OBVIOUS
<1>1. /\ UNCHANGED <<store, body, link, air, dev, cloud, left>> /\ run.pc = "confirm" /\ TypeOK
      /\ wire' = [Nothing EXCEPT !.k = "confirm"]
      /\ run' = [run EXCEPT !.pc = "confirming", !.tc = "confirming"]  BY DEF SendConfirm, durable, IInv
<1>2. run \in Runs /\ "confirming" \in Pcs /\ "confirming" \in Expected /\ Nothing \in Requests
      /\ Nothing.miss = {} /\ IsFiniteSet({}) /\ IsFiniteSet(run.miss) /\ air \in Seq(FrameSet)
  BY <1>1, Fields, PcNames, EmptyTypes DEF Expected
<1>3. wire' \in Requests /\ wire'.k = "confirm" /\ wire'.miss = {}  BY <1>1, <1>2 DEF Requests, RequestKinds
<1>4. run' \in Runs /\ run'.miss = run.miss  BY <1>1, <1>2 DEF Runs
<1>5. run'.pc = "confirming" /\ Holding  BY <1>1, <1>2 DEF Runs, Holding
<1>6. RunOK' /\ WireOK' /\ Asks'  BY <1>2, <1>3, <1>4, <1>5 DEF RunOK, WireOK, Asks
<1>. QED  BY <1>1, <1>2, <1>5, <1>6, FlowKeeps DEF Flowing, Early, Cleaning

LEMMA ConfirmWrittenKeeps == IInv /\ ConfirmWritten => IInv'
<1>. SUFFICES ASSUME IInv, ConfirmWritten  PROVE IInv'  OBVIOUS
<1>1. /\ UNCHANGED <<store, body, link, radio, cloud, left>> /\ run.pc = "confirming" /\ TypeOK
      /\ wire.k = "none" /\ Goto("confirmed")  BY DEF ConfirmWritten, durable, IInv
<1>2. RunOK' /\ run'.pc = "confirmed" /\ Holding  BY <1>1, GotoFacts, PcNames
<1>. QED  BY <1>1, <1>2, FlowsKeep DEF Flowing, Early, Cleaning

LEMMA ConfirmedKeeps == IInv /\ Confirmed => IInv'
<1>. SUFFICES ASSUME IInv, Confirmed  PROVE IInv'  OBVIOUS
<1>1. /\ UNCHANGED <<body, link, radio, cloud, left>> /\ run.pc = "confirmed" /\ TypeOK
      /\ store' = [store EXCEPT !.phase = "confirmed"] /\ wire.k = "none"
  BY NoWrite DEF Confirmed, IInv, Writing
<1>2. store' \in Stores /\ store'.phase = "confirmed" /\ store'.session = store.session
      /\ store.phase # "absent" /\ store.session = run.session  BY <1>1, Fields
     DEF Stores, StoredPhases, PhaseSet, IInv, Fits, Working, Early, Cleaning
<1>3. StoreOK' /\ RestOK' /\ Grows  BY <1>1, <1>2, SameCloud DEF IInv, TypeOK, StoreOK, RestOK
<1>4. RunOK' /\ (run'.pc = "idle" \/ (run'.pc = "forget" /\ run'.session = run.session))
  <2>1. CASE Settle("error")  BY <2>1, SettleFacts, OutcomeNames
  <2>2. CASE run' = [run EXCEPT !.pc = "forget", !.phase = "confirmed", !.tc = "none"]
    <3>1. run \in Runs /\ "forget" \in Pcs /\ "confirmed" \in StoredPhases /\ "none" \in Expected
      BY <1>1, Fields, PcNames DEF StoredPhases, PhaseSet, Expected
    <3>2. run' \in Runs /\ run'.miss = run.miss /\ run'.pc = "forget" /\ run'.session = run.session
      BY <2>2, <3>1 DEF Runs
    <3>. QED  BY <1>1, <3>2 DEF TypeOK, RunOK
  <2>. QED  BY <2>1, <2>2 DEF Confirmed
<1>5. Fits' /\ CheckpointBacked'
  BY <1>1, <1>2, <1>4 DEF IInv, Fits, CheckpointBacked, Working, Starting, Early, Cleaning
<1>6. run'.pc \notin Signing /\ run'.pc \notin Chained  BY <1>4 DEF Signing, Chained
<1>. QED  BY <1>1, <1>3, <1>4, <1>5, <1>6, ChainFree, QuietKeeps

LEMMA ForgetKeeps == IInv /\ Forget => IInv'
<1>. SUFFICES ASSUME IInv, Forget  PROVE IInv'  OBVIOUS
<1>1. /\ UNCHANGED <<body, link, radio, cloud, left>> /\ run.pc = "forget" /\ TypeOK
      /\ SaveState(NoCheckpoint, store.evidence) /\ wire.k = "none"
      /\ run' = [run EXCEPT !.pc = "dropBlob", !.then = "ok"]  BY NoWrite DEF Forget, IInv, Writing
<1>2. store' \in Stores /\ store'.ckpt = NoCheckpoint /\ store'.phase = store.phase
      /\ store'.session = store.session  BY <1>1, SaveStateFacts, EmptyTypes, Fields
<1>3. run' \in Runs /\ run'.miss = run.miss /\ run'.pc = "dropBlob"
  <2>1. run \in Runs /\ "dropBlob" \in Pcs /\ "ok" \in Outcomes  BY <1>1, Fields, PcNames, OutcomeNames
  <2>. QED  BY <1>1, <2>1 DEF Runs
<1>4. RunOK' /\ StoreOK' /\ RestOK' /\ Grows
  BY <1>1, <1>2, <1>3, SameCloud DEF IInv, TypeOK, RunOK, StoreOK, RestOK
<1>5. Fits' /\ CheckpointBacked'
  BY <1>1, <1>2, <1>3 DEF IInv, Fits, CheckpointBacked, Working, Starting, Early, Cleaning
<1>6. run'.pc \notin Signing /\ run'.pc \notin Chained  BY <1>3 DEF Signing, Chained
<1>. QED  BY <1>1, <1>3, <1>4, <1>5, <1>6, ChainFree, QuietKeeps

LEMMA CleansKeep == IInv /\ (Reload \/ DropCheckpoint \/ DropBlob \/ DropOperation) => IInv'
<1>. SUFFICES ASSUME IInv, Reload \/ DropCheckpoint \/ DropBlob \/ DropOperation  PROVE IInv'  OBVIOUS
<1>1. /\ UNCHANGED <<link, radio, cloud, left>> /\ wire.k = "none" /\ TypeOK
      /\ run.pc \in {"reload", "dropCheckpoint", "dropBlob", "dropOperation"}
  <2>1. /\ UNCHANGED <<link, radio, cloud, left>>
        /\ run.pc \in {"reload", "dropCheckpoint", "dropBlob", "dropOperation"}
    BY DEF Reload, DropCheckpoint, DropBlob, DropOperation
  <2>. QED  BY <2>1, NoWrite DEF IInv, Writing
<1>2. RestOK' /\ Grows  BY <1>1, SameCloud DEF IInv, TypeOK, RestOK
<1>3. CASE Reload
  <2>1. run.pc = "reload" /\ UNCHANGED <<store, body>>
        /\ (Goto("dropCheckpoint") \/ Settle(run.then))  BY <1>3 DEF Reload, durable
  <2>2. RunOK' /\ run'.pc \in {"dropCheckpoint", "idle"}
    <3>1. run.then \in Outcomes /\ "dropCheckpoint" \in Pcs  BY <1>1, Fields, RunFields, PcNames
    <3>. QED  BY <1>1, <2>1, <3>1, GotoFacts, SettleFacts
  <2>3. Fits' /\ CheckpointBacked' /\ StoreOK'  BY <1>1, <2>1, <2>2
       DEF IInv, TypeOK, StoreOK, Fits, CheckpointBacked, Working, Starting, Early, Cleaning
  <2>4. run'.pc \notin Signing /\ run'.pc \notin Chained  BY <2>2 DEF Signing, Chained
  <2>. QED  BY <1>1, <1>2, <2>2, <2>3, <2>4, ChainFree, QuietKeeps
<1>4. CASE DropCheckpoint
  <2>1. SaveState(NoCheckpoint, store.evidence) /\ Goto("dropBlob") /\ body' = body
    BY <1>4 DEF DropCheckpoint
  <2>2. store' \in Stores /\ store'.ckpt = NoCheckpoint /\ store'.phase = store.phase
        /\ store'.session = store.session  BY <1>1, <2>1, SaveStateFacts, EmptyTypes, Fields
  <2>3. RunOK' /\ run'.pc = "dropBlob"  BY <1>1, <2>1, GotoFacts, PcNames
  <2>4. Fits' /\ CheckpointBacked' /\ StoreOK'  BY <1>1, <2>1, <2>2, <2>3
       DEF IInv, TypeOK, StoreOK, Fits, CheckpointBacked, Working, Starting, Early, Cleaning
  <2>5. run'.pc \notin Signing /\ run'.pc \notin Chained  BY <2>3 DEF Signing, Chained
  <2>. QED  BY <1>1, <1>2, <2>3, <2>4, <2>5, ChainFree, QuietKeeps
<1>5. CASE DropBlob
  <2>1. run.pc = "dropBlob" /\ body' = 0 /\ store' = store /\ Goto("dropOperation")
        /\ 0 \in 0 .. Units  BY <1>5, ConstantTypes DEF DropBlob
  <2>2. RunOK' /\ run'.pc = "dropOperation"  BY <1>1, <2>1, GotoFacts, PcNames
  <2>3. Fits' /\ CheckpointBacked' /\ StoreOK'  BY <1>1, <2>1, <2>2
       DEF IInv, TypeOK, StoreOK, Fits, CheckpointBacked, Working, Starting, Early, Cleaning
  <2>4. run'.pc \notin Signing /\ run'.pc \notin Chained  BY <2>2 DEF Signing, Chained
  <2>. QED  BY <1>1, <1>2, <2>2, <2>3, <2>4, ChainFree, QuietKeeps
<1>6. CASE DropOperation
  <2>1. store' = NoOperation /\ Settle(run.then) /\ body' = body /\ run.then \in Outcomes
    BY <1>1, <1>6, Fields, RunFields DEF DropOperation
  <2>2. RunOK' /\ run'.pc = "idle"  BY <2>1, SettleFacts
  <2>3. NoOperation \in Stores /\ NoOperation.phase = "absent" /\ NoOperation.ckpt = NoCheckpoint
    BY EmptyTypes, ConstantTypes DEF NoOperation, Stores, StoredPhases
  <2>4. Fits' /\ CheckpointBacked' /\ StoreOK'  BY <1>1, <2>1, <2>2, <2>3
       DEF IInv, TypeOK, StoreOK, Fits, CheckpointBacked, Working, Starting, Early, Cleaning
  <2>5. run'.pc \notin Signing /\ run'.pc \notin Chained  BY <2>2 DEF Signing, Chained
  <2>. QED  BY <1>1, <1>2, <2>2, <2>4, <2>5, ChainFree, QuietKeeps
<1>. QED  BY <1>3, <1>4, <1>5, <1>6

-----------------------------------------------------------------------------
(* Notifications and faults *)

\* A notification of the transfer is taken from the air.
LEMMA AirKeeps ==
  ASSUME IInv, RunOK', Holding, run'.pc = run.pc, air # <<>>, air' = Tail(air),
         UNCHANGED <<store, body, link, wire, dev, cloud>>, left' \in Lefts,
         left'.sessions = left.sessions
  PROVE  IInv'
<1>1. /\ air' \in Seq(FrameSet) /\ \A id : InAir(id)' => InAir(id)  BY TakeType, TailInAir, Fields DEF IInv
<1>2. TypeOK' /\ Asks'  BY <1>1 DEF IInv, TypeOK, StoreOK, RadioOK, WireOK, RestOK, Asks
<1>3. Fits' /\ CheckpointBacked' /\ Custody'
  BY DEF IInv, Fits, CheckpointBacked, Custody, Working, Starting, Holding
<1>4. Chain' /\ Receipts'  BY DEF IInv, Chain, Receipts, Completed, Holding
<1>5. Heard'
  <2>1. InAir(run.blob.id)' => InAir(run.blob.id)
    <3>1. ASSUME NEW b, b = run.blob.id, \E i \in DOMAIN air' : air'[i].k = "signed" /\ air'[i].seq = b
          PROVE  InAir(b)
      BY <1>1, <3>1 DEF InAir
    <3>. QED  BY <3>1 DEF InAir, Holding
  <2>. QED  BY <2>1 DEF IInv, Heard, Holding
<1>. QED  BY <1>2, <1>3, <1>4, <1>5 DEF IInv

LEMMA DeliverKeeps == IInv /\ Deliver => IInv'
<1>. SUFFICES ASSUME IInv, Deliver  PROVE IInv'  OBVIOUS
<1>1. /\ UNCHANGED <<store, body, link, wire, dev, cloud, left>> /\ air # <<>> /\ air' = Tail(air)
      /\ TypeOK /\ left' \in Lefts  BY Fields DEF Deliver, durable, IInv
<1>2. run \in Runs /\ IsFiniteSet(run.miss) /\ Head(air) \in FrameSet /\ run.held \in Seq(FrameSet)
  BY <1>1, Fields, RunFields, TakeType
<1>. DEFINE f == Head(air)
<1>3. run' \in Runs /\ run'.miss = run.miss /\ run'.pc = run.pc /\ Holding
  <2>1. CASE run' = [run EXCEPT !.tc = "control_pending", !.reply = f]
    <3>1. f \in FrameSet /\ "control_pending" \in Expected  BY <1>2 DEF Expected
    <3>. HIDE DEF f
    <3>2. run' \in Runs /\ run'.miss = run.miss  BY <1>2, <2>1, <3>1 DEF Runs
    <3>. QED  BY <1>2, <2>1, <3>2 DEF Runs, Holding
  <2>2. CASE run' = [run EXCEPT !.held = Append(@, f)]
    <3>. DEFINE h == Append(run.held, f)
    <3>1. h \in Seq(FrameSet) /\ run' = [run EXCEPT !.held = h]  BY <1>2, <2>2, AppendProperties
    <3>. HIDE DEF h, f
    <3>2. run' \in Runs /\ run'.miss = run.miss  BY <1>2, <3>1 DEF Runs
    <3>. QED  BY <1>2, <3>1, <3>2 DEF Runs, Holding
  <2>3. CASE run' = Accept(run, f)
    <3>1. PICK tc \in Expected, repair \in SUBSET Int, queue \in Seq(FrameSet), broken \in Breaks :
            Accept(run, f) = [run EXCEPT !.tc = tc, !.repair = repair, !.queue = queue,
                                         !.broken = broken]
      BY <1>2, AcceptType
    <3>2. run' = [run EXCEPT !.tc = tc, !.repair = repair, !.queue = queue, !.broken = broken]
      BY <2>3, <3>1
    <3>3. run' \in Runs /\ run'.miss = run.miss  BY <1>2, <3>2 DEF Runs
    <3>. QED  BY <1>2, <3>2, <3>3 DEF Runs, Holding
  <2>. QED  BY <2>1, <2>2, <2>3 DEF Deliver
<1>4. RunOK'  BY <1>2, <1>3 DEF RunOK
<1>. QED  BY <1>1, <1>3, <1>4, AirKeeps

LEMMA LoseKeeps == IInv /\ Lose => IInv'
<1>. SUFFICES ASSUME IInv, Lose  PROVE IInv'  OBVIOUS
<1>1. /\ UNCHANGED <<store, body, run, link, wire, dev, cloud>> /\ air # <<>> /\ air' = Tail(air)
      /\ left.lost > 0 /\ left' = [left EXCEPT !.lost = @ - 1] /\ TypeOK  BY DEF Lose, durable, IInv
<1>2. left' \in Lefts /\ left'.sessions = left.sessions  BY <1>1, Fields DEF Lefts
<1>3. RunOK' /\ Holding  BY <1>1 DEF TypeOK, RunOK, Holding
<1>. QED  BY <1>1, <1>2, <1>3, AirKeeps

\* The failures that end a run and change nothing else.
LEMMA FailuresKeep == IInv /\ (StorageFails \/ BlobFails \/ BlobTimesOut) => IInv'
<1>. SUFFICES ASSUME IInv, StorageFails \/ BlobFails \/ BlobTimesOut  PROVE IInv'  OBVIOUS
<1>1. UNCHANGED <<store, body, link, cloud>> /\ (Fail("error") \/ Fail("timeout"))
      /\ (Fault \/ left' = left)  BY DEF StorageFails, BlobFails, BlobTimesOut, durable
<1>2. left' \in Lefts  BY <1>1, FaultFacts, Fields DEF IInv
<1>. QED  BY <1>1, <1>2, JustFails, OutcomeNames

LEMMA FlushFailsKeeps == IInv /\ FlushFails => IInv'
<1>. SUFFICES ASSUME IInv, FlushFails  PROVE IInv'  OBVIOUS
<1>. DEFINE n == Head(run.queue).off
<1>1. Fault /\ Next1 /\ body' \in body .. n /\ Fail("error") /\ UNCHANGED <<store, link, cloud>>
      /\ TypeOK  BY DEF FlushFails, IInv
<1>2. n \in 0 .. Units /\ body \in 0 .. Units /\ Units \in Nat
  BY <1>1, TookFacts, FrameFields, Fields, ConstantTypes
<1>. HIDE DEF n
<1>3. body' \in body .. Units  BY <1>1, <1>2
<1>4. RestOK' /\ Grows  BY <1>1, FaultFacts, SameCloud DEF IInv, TypeOK, RestOK
<1>. QED  BY <1>1, <1>3, <1>4, FailKeeps, OutcomeNames

LEMMA ProviderFailsKeeps == IInv /\ ProviderFails => IInv'
<1>. SUFFICES ASSUME IInv, ProviderFails  PROVE IInv'  OBVIOUS
<1>1. /\ Fault /\ Fail("error") /\ UNCHANGED <<store, body, link>>
      /\ (cloud' = cloud \/ PutIn \/ SubmitIn \/ FinalizeIn)
  BY DEF ProviderFails, durable, PutIn, SubmitIn, FinalizeIn
<1>2. cloud' \in Clouds /\ Grows  BY <1>1, TakesIn, SameCloud, Fields DEF IInv
<1>3. RestOK' /\ body' \in body .. Units  BY <1>1, <1>2, FaultFacts, Fields, ConstantTypes DEF IInv, RestOK
<1>. QED  BY <1>1, <1>2, <1>3, FailKeeps, OutcomeNames

LEMMA DisconnectedFacts ==
  ASSUME TypeOK
  PROVE  /\ Disconnected \in Devices /\ Disconnected.holds = dev.holds
         /\ Disconnected.receipt = 0 /\ Disconnected.signed = NoBlob
<1>1. dev \in Devices /\ NoBlob \in Blobs /\ 0 \in 0 .. MaxSessions  BY Fields, EmptyTypes, ConstantTypes
<1>. QED  BY <1>1 DEF Disconnected, Devices

\* A run that ends, and leaves the radio or resets it.
LEMMA StopsKeep ==
  ASSUME IInv, RunOK', run'.pc \in {"idle", "reload"}, wire' = Nothing \/ (wire' = wire /\ wire.k = "none"),
         air' = air \/ air' = <<>>, dev' = dev \/ dev' = Disconnected, left' \in Lefts,
         UNCHANGED <<store, body, cloud>>, link' \in {"down", "up", "poisoned"}
  PROVE  IInv'
<1>1. TypeOK /\ dev \in Devices /\ air \in Seq(FrameSet) /\ <<>> \in Seq(FrameSet)  BY Fields DEF IInv
<1>2. Nothing.k = "none"  BY DEF Nothing
<1>3. dev' \in Devices /\ dev'.holds = dev.holds /\ dev'.receipt \in {dev.receipt, 0}
      /\ dev'.signed \in {dev.signed, NoBlob}  BY <1>1, DisconnectedFacts
<1>4. RadioOK' /\ wire'.k = "none"  BY <1>1, <1>2, <1>3, EmptyTypes DEF TypeOK, RadioOK, WireOK
<1>5. RestOK' /\ Grows /\ body' \in body .. Units
  BY <1>1, SameCloud, Fields, ConstantTypes DEF TypeOK, RestOK
<1>. QED  BY <1>3, <1>4, <1>5, EndsKeep

LEMMA StopsFailing ==
  IInv /\ (CleanupFails \/ ConfirmUncertain \/ BlobAbortFails \/ ReleaseFails \/ ReloadPage) => IInv'
<1>. SUFFICES ASSUME IInv,
                     CleanupFails \/ ConfirmUncertain \/ BlobAbortFails \/ ReleaseFails \/ ReloadPage
              PROVE  IInv'
  OBVIOUS
<1>1. /\ Fault /\ UNCHANGED <<store, body, cloud>> /\ TypeOK /\ left' \in Lefts
      /\ link \in {"down", "up", "poisoned"} /\ run.then \in Outcomes
  <2>1. Fault /\ UNCHANGED <<store, body, cloud>>
    BY DEF CleanupFails, ConfirmUncertain, BlobAbortFails, ReleaseFails, Poisons, ReloadPage, durable
  <2>. QED  BY <2>1, FaultFacts, Fields, RunFields DEF IInv
<1>2. CASE CleanupFails
  <2>1. /\ run.pc \in Cleaning /\ Settle(IF run.then = "ok" THEN "error" ELSE run.then)
        /\ link' = link /\ wire' = wire /\ air' = air /\ dev' = dev  BY <1>2 DEF CleanupFails, radio
  <2>2. PICK e \in Outcomes : Settle(e)  BY <1>1, <2>1, OutcomeNames
  <2>3. RunOK' /\ run'.pc = "idle" /\ wire.k = "none"
    BY <2>1, <2>2, SettleFacts, NoWrite DEF Cleaning, Writing
  <2>. QED  BY <1>1, <2>1, <2>3, StopsKeep
<1>3. CASE ConfirmUncertain
  <2>1. link' = "poisoned" /\ Settle("uncertain") /\ wire' = Nothing /\ air' = air /\ dev' = dev
    BY <1>3 DEF ConfirmUncertain
  <2>. QED  BY <1>1, <2>1, SettleFacts, OutcomeNames, StopsKeep
<1>4. CASE BlobAbortFails \/ ReleaseFails
  <2>1. Poisons  BY <1>4 DEF BlobAbortFails, ReleaseFails
  <2>2. link' = "poisoned" /\ wire' = Nothing /\ air' = air /\ dev' = dev
        /\ \E e \in Outcomes : run' = Failed(e)  BY <2>1, OutcomeNames DEF Poisons
  <2>3. RunOK' /\ run'.pc \in {"idle", "reload"}  BY <2>2, FailedFacts
  <2>. QED  BY <1>1, <2>2, <2>3, StopsKeep
<1>5. CASE ReloadPage
  <2>1. run' = NoRun /\ link' = "down" /\ wire' = Nothing /\ air' = <<>> /\ dev' = Disconnected
    BY <1>5 DEF ReloadPage
  <2>2. RunOK' /\ run'.pc = "idle"  BY <2>1, EmptyTypes DEF RunOK, NoRun
  <2>. QED  BY <1>1, <2>1, <2>2, StopsKeep
<1>. QED  BY <1>2, <1>3, <1>4, <1>5

\* The link and the device start anew; a run that stores its confirmation, or cleans
\* up, goes on without them.
LEMMA ResetKeeps ==
  ASSUME IInv, RunOK', Holding, run'.pc = run.pc,
         run.pc \in Cleaning \cup {"idle", "confirmed", "forget"},
         wire' = Nothing \/ (wire' = wire /\ wire.k = "none"), air' = <<>>, dev' = Disconnected,
         left' \in Lefts, left'.sessions = left.sessions, UNCHANGED <<store, body, cloud>>,
         link' \in {"down", "up", "poisoned"}
  PROVE  IInv'
<1>1. TypeOK /\ dev \in Devices /\ <<>> \in Seq(FrameSet)  BY Fields DEF IInv
<1>2. Nothing.k = "none"  BY DEF Nothing
<1>3. dev' \in Devices /\ dev'.holds = dev.holds /\ dev'.receipt = 0 /\ dev'.signed = NoBlob
  BY <1>1, DisconnectedFacts
<1>4. RadioOK' /\ wire'.k = "none" /\ Asks'
  BY <1>1, <1>2, <1>3, EmptyTypes DEF TypeOK, RadioOK, WireOK, Asks
<1>5. TypeOK' /\ Grows  BY <1>1, <1>4, SameCloud DEF TypeOK, StoreOK, RestOK
<1>6. Fits' /\ CheckpointBacked'  BY DEF IInv, Fits, CheckpointBacked, Working, Starting, Holding
<1>7. run'.pc \notin Signing /\ run'.pc \notin Chained /\ run'.pc \notin {"confirm", "confirming"}
  BY DEF Signing, Chained, Cleaning
<1>8. Chain' /\ Receipts' /\ Heard' /\ Custody'  BY <1>3, <1>5, <1>7, ChainFree, ReceiptsKept
<1>. QED  BY <1>4, <1>5, <1>6, <1>8 DEF IInv

LEMMA LinkDropsKeeps == IInv /\ LinkDrops => IInv'
<1>. SUFFICES ASSUME IInv, LinkDrops  PROVE IInv'  OBVIOUS
<1>1. /\ Fault /\ link' = "down" /\ wire' = Nothing /\ air' = <<>> /\ dev' = Disconnected
      /\ UNCHANGED <<store, body, cloud>> /\ TypeOK /\ run \in Runs  BY Fields DEF LinkDrops, durable, IInv
<1>2. left' \in Lefts /\ left'.sessions = left.sessions  BY <1>1, FaultFacts, Fields DEF Fault, Lefts
<1>3. CASE run.pc \in Cleaning \cup {"idle"}
  <2>1. run' = run  BY <1>3 DEF LinkDrops
  <2>2. RunOK' /\ Holding  BY <1>1, <2>1 DEF TypeOK, RunOK, Holding
  <2>. QED  BY <1>1, <1>2, <1>3, <2>1, <2>2, ResetKeeps
<1>4. CASE run.pc \in {"confirmed", "forget"}
  <2>1. run' = [run EXCEPT !.lost = TRUE]  BY <1>4 DEF LinkDrops, Cleaning
  <2>2. run' \in Runs /\ run'.miss = run.miss  BY <1>1, <2>1 DEF Runs
  <2>3. run'.pc = run.pc /\ Holding  BY <1>1, <2>1 DEF Runs, Holding
  <2>4. RunOK'  BY <1>1, <2>2 DEF TypeOK, RunOK
  <2>. QED  BY <1>1, <1>2, <1>4, <2>3, <2>4, ResetKeeps
<1>5. CASE run.pc \notin Cleaning \cup {"idle", "confirmed", "forget"}
  <2>1. run' = Failed("error")  BY <1>5 DEF LinkDrops
  <2>2. RunOK' /\ run'.pc \in {"idle", "reload"}  BY <2>1, FailedFacts, OutcomeNames
  <2>. QED  BY <1>1, <1>2, <2>2, StopsKeep
<1>. QED  BY <1>3, <1>4, <1>5

LEMMA ConnectKeeps == IInv /\ Connect => IInv'
<1>. SUFFICES ASSUME IInv, Connect  PROVE IInv'  OBVIOUS
<1>1. /\ run.pc = "idle" /\ link' = "up" /\ dev' = Disconnected /\ air' = <<>>
      /\ UNCHANGED <<store, body, run, wire, cloud, left>> /\ TypeOK /\ left' \in Lefts
      /\ wire.k = "none"  BY Fields, NoWrite DEF Connect, durable, IInv, Writing
<1>2. RunOK' /\ Holding  BY <1>1 DEF TypeOK, RunOK, Holding
<1>. QED  BY <1>1, <1>2, ResetKeeps

-----------------------------------------------------------------------------
(* What is sent next: the second inductive invariant *)

\* The frames that are under way to the host and not accepted yet.
Coming == run.held \o air

Results == {"signed", "refused"}
Silent(s) == \A i \in 1 .. Len(s) : s[i].k \in Results
Is(f, k, S) == f.k = k /\ f.seq \in S

\* Frames of one kind and then the one that ends them, between the results of writes.
EndsAt(s, n, last, k, S) ==
    /\ n \in 1 .. Len(s) /\ s[n] = last
    /\ \A i \in 1 .. Len(s) : /\ i < n => s[i].k \in Results \/ Is(s[i], k, S)
                              /\ i > n => s[i].k \in Results
Ends(s, last, k, S) == \E n \in 1 .. Len(s) : EndsAt(s, n, last, k, S)

Once(s) == \A i, j \in 1 .. Len(s) : s[i].k = "data" /\ s[j].k = "data" /\ s[i].seq = s[j].seq => i = j

\* What the device sends of the recording from a packet on.
Gap(base) == base + 1 .. WindowEnd(base)
EndOf(base) == IF base = Units THEN [NoFrame EXCEPT !.k = "eof", !.seq = Units]
               ELSE [k |-> "end", seq |-> base + 1, last |-> WindowEnd(base), off |-> WindowEnd(base)]
KindOf(base) == IF base = Units THEN "manifest" ELSE "data"
SeqsOf(base) == IF base = Units THEN {0} ELSE Gap(base)
Round(s, base) == Ends(s, EndOf(base), KindOf(base), SeqsOf(base))

\* What comes is what the control expects.
Due(r, s) ==
    /\ r.tc \in {"window", "manifest"} => Round(s, r.rx.off)
    /\ r.tc = "repair" => Ends(s, EndOf(r.rx.off), "data", r.repair) /\ Once(s)
    /\ r.tc \in {"paused", "terminal", "confirming"} => Silent(s)

\* What the pump has still to take is what the receiver wants.
Wanted(r) == IF r.miss = {} THEN SeqsOf(r.rx.off) ELSE r.miss
Queued(r) ==
    /\ \A i \in 1 .. Len(r.queue) :
          \/ Is(r.queue[i], KindOf(r.rx.off), Wanted(r))
          \/ i = Len(r.queue) /\ r.tc \in {"paused", "terminal"}
    /\ r.tc \in {"paused", "terminal"} /\ r.queue # <<>> => r.queue[Len(r.queue)] = EndOf(r.rx.off)
    /\ r.tc \in {"none", "awaiting_control", "control_pending", "confirming"} => r.queue = <<>>

\* The packets that are there, and those that are missing, are of the window.
Counts(r) ==
    /\ r.tc \in {"window", "repair", "paused"} => r.rx.off < Units /\ r.pkts \subseteq Gap(r.rx.off)
                                                  /\ r.miss \subseteq Gap(r.rx.off)
    /\ r.tc \in {"manifest", "terminal"} => r.rx.off = Units /\ r.pkts = {} /\ r.miss = {}
    /\ r.tc \in {"awaiting_control", "control_pending"} => r.pkts = {} /\ r.miss = {}
    /\ r.tc = "window" => r.miss = {}
    /\ r.tc = "repair" => r.miss # {} /\ r.repair \subseteq r.miss
    /\ r.pc = "repair" => r.miss # {}
    /\ r.pc \in {"save", "ack"} => r.miss = {} /\ r.pend.off = WindowEnd(r.rx.off)

\* Where a run is and what its control expects.
Receiving == {"replaying", "receive", "repairing", "acking"}
Stopped == {"repair", "save", "ack"}
Whole == {"evidence", "staged", "uploading", "put", "manifest", "finalize", "receipt", "cloud",
          "deliver", "confirm"}
Confirming == {"confirming", "confirmed"}
Controlled == {"opening"} \cup Receiving \cup Stopped \cup Whole \cup Confirming \cup Signing
Places(r) ==
    /\ r.pc = "opening" => r.tc \in {"awaiting_control", "control_pending"}
    /\ r.pc \in Receiving => r.tc \in {"window", "paused", "manifest", "terminal", "repair"}
    /\ r.pc \in {"replaying", "acking"} => r.tc # "repair"
    /\ r.pc = "repairing" => r.tc \in {"repair", "paused"}
    /\ r.pc \in Stopped => r.tc = "paused" /\ r.queue = <<>>
    /\ r.pc \in Whole => r.tc = "terminal" /\ r.queue = <<>>
    /\ r.pc \in Confirming => r.tc = "confirming"
    /\ r.pc \in Signing => r.tc = (IF r.blob.k = "auth" THEN "none" ELSE "terminal") /\ r.queue = <<>>
    /\ r.pc \notin Controlled => r.tc = "none" /\ r.queue = <<>>
    /\ r.pc \in Receiving /\ r.tc \in {"paused", "terminal"} => r.queue # <<>>

\* The queue breaks for a packet that is lost again, and for nothing else.
Heeds(r) ==
    /\ r.broken \in {"no", "lossy"}
    /\ r.broken = "lossy" => r.pc \in {"receive", "repairing"} /\ r.tc = "repair" /\ r.queue = <<>>
    /\ r.pc \notin {"opening", "replaying"} \/ r.tc = "awaiting_control" => r.held = <<>>
    /\ \A i \in 1 .. Len(r.held) : r.held[i].k \notin Results
    /\ r.tc = "awaiting_control" => r.reply = NoFrame
    /\ Places(r)
    /\ r.broken = "no" => Queued(r) /\ Counts(r)

\* A checkpoint is of a transfer that began with START.
Numbered(c) == c = NoCheckpoint \/ (c.seq = c.off /\ c.off > 0)
Numbers == Numbered(store.ckpt) /\ Numbered(run.ckpt) /\ Numbered(run.rx) /\ Numbered(run.pend)

\* What is staged is what is acknowledged, or about to be.
Stages ==
    /\ run.pc \in {"authorize", "open"} \/ (run.pc \in Signing /\ run.tc = "none") => body = run.ckpt.off
    /\ run.tc \notin {"none", "confirming"} =>
          body = IF run.pc \in {"save", "ack"} THEN run.pend.off ELSE run.rx.off

\* A request that is unanswered, and what the device knows of it.
Requesting == {"start", "resume", "repair", "ack"}
Asked ==
    /\ wire.k \in Requesting => Silent(Coming)
    /\ wire.k \in {"start", "resume", "ack"} => wire.off = run.rx.off
    /\ wire.k = "repair" => run.tc = "repair" /\ wire.miss = run.repair
    /\ wire.k \in {"start", "resume"} => run.tc = "awaiting_control"
    /\ wire.k = "start" => run.rx.off = 0
    /\ wire.k = "resume" => run.rx # NoCheckpoint
    /\ wire.k = "ack" => run.tc \in {"window", "manifest"}
Based ==
    /\ run.tc \in {"window", "paused", "repair"} /\ wire.k # "ack" => dev.base = run.rx.off
    /\ run.tc \in {"window", "paused", "repair", "manifest", "terminal"} => dev.num = 0

\* What is under way.
Rejections == {"resume_reject", "error"}
Replying(f, s, base) ==
    /\ f.k \in Replies \cup Rejections
    /\ f.k \in Replies => dev.base = base /\ dev.num = 0 /\ Round(s, base)
    /\ f.k \in Rejections => Silent(s)
Travels ==
    /\ run.tc = "none" /\ link = "up" => Silent(Coming)
    /\ run.tc = "awaiting_control" /\ wire.k = "none" =>
          air # <<>> /\ Replying(Head(air), Tail(air), run.rx.off)
    /\ run.tc = "control_pending" => wire.k = "none" /\ Replying(run.reply, Coming, run.rx.off)
    /\ run.broken = "no" /\ wire.k \notin Requesting => Due(run, Coming)

Line == Heeds(run) /\ Numbers /\ Stages /\ Asked /\ Based /\ Travels

-----------------------------------------------------------------------------
(* Sequences of frames *)

\* A sequence without one of its elements.
Without(s, t, j) ==
    /\ s \in Seq(FrameSet) /\ t \in Seq(FrameSet) /\ j \in 1 .. Len(s) /\ Len(t) = Len(s) - 1
    /\ \A i \in 1 .. Len(t) : t[i] = IF i < j THEN s[i] ELSE s[i + 1]

\* The end stays where it is told when something else is taken out.
LEMMA EndsWithout ==
  ASSUME NEW s, NEW t, NEW j, Without(s, t, j), NEW last, NEW k, NEW S, Ends(s, last, k, S),
         s[j] # last
  PROVE  Ends(t, last, k, S)
<1>1. PICK n \in 1 .. Len(s) : EndsAt(s, n, last, k, S)  BY DEF Ends
<1>2. /\ s[n] = last /\ n # j
      /\ \A i \in 1 .. Len(s) : /\ i < n => s[i].k \in Results \/ Is(s[i], k, S)
                                /\ i > n => s[i].k \in Results
  BY <1>1 DEF EndsAt
<1>. DEFINE m == IF n < j THEN n ELSE n - 1
<1>3. Len(s) \in Nat /\ Len(t) = Len(s) - 1 /\ j \in 1 .. Len(s)
      /\ \A i \in 1 .. Len(t) : t[i] = IF i < j THEN s[i] ELSE s[i + 1]  BY DEF Without
<1>4. m \in 1 .. Len(t) /\ t[m] = last  BY <1>2, <1>3
<1>5. ASSUME NEW i \in 1 .. Len(t)
      PROVE  /\ i < m => t[i].k \in Results \/ Is(t[i], k, S)
             /\ i > m => t[i].k \in Results
  <2>1. CASE i < j  BY <1>2, <1>3, <2>1
  <2>2. CASE i >= j  BY <1>2, <1>3, <2>2
  <2>. QED  BY <1>3, <2>1, <2>2
<1>. HIDE DEF m
<1>6. EndsAt(t, m, last, k, S)  BY <1>4, <1>5 DEF EndsAt
<1>. QED  BY <1>4, <1>6 DEF Ends

LEMMA SilentWithout ==
  ASSUME NEW s, NEW t, NEW j, Without(s, t, j), Silent(s)
  PROVE  Silent(t)
  BY DEF Without, Silent

LEMMA OnceWithout ==
  ASSUME NEW s, NEW t, NEW j, Without(s, t, j), Once(s)
  PROVE  Once(t)
<1>1. /\ Len(s) \in Nat /\ Len(t) = Len(s) - 1 /\ j \in 1 .. Len(s)
      /\ \A i \in 1 .. Len(t) : t[i] = IF i < j THEN s[i] ELSE s[i + 1]  BY DEF Without
<1>2. ASSUME NEW a \in 1 .. Len(t), NEW b \in 1 .. Len(t), t[a].k = "data", t[b].k = "data",
             t[a].seq = t[b].seq
      PROVE  a = b
  <2>1. PICK c \in 1 .. Len(s), d \in 1 .. Len(s) :
          c = (IF a < j THEN a ELSE a + 1) /\ d = (IF b < j THEN b ELSE b + 1)
    BY <1>1
  <2>2. t[a] = s[c] /\ t[b] = s[d]  BY <1>1, <2>1
  <2>3. c = d  BY <1>2, <2>2 DEF Once
  <2>. QED  BY <1>1, <2>1, <2>3
<1>. QED  BY <1>2 DEF Once

\* After the end there are only results.
LEMMA SilentAfter ==
  ASSUME NEW s, NEW t, Without(s, t, 1), NEW last, NEW k, NEW S, Ends(s, last, k, S),
         s[1] = last, last.k # k, last.k \notin Results
  PROVE  Silent(t)
<1>1. PICK n \in 1 .. Len(s) : EndsAt(s, n, last, k, S)  BY DEF Ends
<1>2. Len(s) \in Nat /\ Len(t) = Len(s) - 1 /\ 1 \in 1 .. Len(s)
      /\ \A i \in 1 .. Len(t) : t[i] = s[i + 1]  BY DEF Without
<1>3. n = 1  BY <1>1, <1>2 DEF EndsAt, Is
<1>. QED  BY <1>1, <1>2, <1>3 DEF EndsAt, Silent

\* A frame is the end, one of those before it, or a result.
LEMMA FirstOf ==
  ASSUME NEW s, NEW last, NEW k, NEW S, Ends(s, last, k, S), Len(s) \in Nat
  PROVE  Len(s) > 0 /\ (s[1] = last \/ s[1].k \in Results \/ Is(s[1], k, S))
<1>1. PICK n \in 1 .. Len(s) : EndsAt(s, n, last, k, S)  BY DEF Ends
<1>. QED  BY <1>1 DEF EndsAt

\* The packets that are left are others than the first one.
LEMMA OthersOnce ==
  ASSUME NEW s, NEW t, Without(s, t, 1), NEW last, last.k = "end", NEW S, Ends(s, last, "data", S),
         Once(s), s[1].k = "data"
  PROVE  Ends(t, last, "data", S \ {s[1].seq}) /\ Once(t)
<1>1. Ends(t, last, "data", S) /\ Once(t)  BY EndsWithout, OnceWithout
<1>2. PICK n \in 1 .. Len(t) : EndsAt(t, n, last, "data", S)  BY <1>1 DEF Ends
<1>3. Len(s) \in Nat /\ Len(t) = Len(s) - 1 /\ 1 \in 1 .. Len(s)
      /\ \A i \in 1 .. Len(t) : t[i] = s[i + 1]  BY DEF Without
<1>4. ASSUME NEW i \in 1 .. Len(t), Is(t[i], "data", S)
      PROVE  Is(t[i], "data", S \ {s[1].seq})
  <2>1. i + 1 \in 1 .. Len(s) /\ t[i] = s[i + 1]  BY <1>3
  <2>2. s[i + 1].seq # s[1].seq  BY <1>3, <1>4, <2>1 DEF Once, Is
  <2>. QED  BY <1>4, <2>1, <2>2 DEF Is
<1>5. EndsAt(t, n, last, "data", S \ {s[1].seq})  BY <1>2, <1>4 DEF EndsAt
<1>. QED  BY <1>1, <1>2, <1>5 DEF Ends

\* A result that is added changes nothing.
LEMMA ResultAdded ==
  ASSUME NEW s \in Seq(FrameSet), NEW f \in FrameSet, f.k \in Results
  PROVE  /\ Append(s, f) \in Seq(FrameSet)
         /\ Silent(s) => Silent(Append(s, f))
         /\ Once(s) => Once(Append(s, f))
         /\ \A last, k, S : Ends(s, last, k, S) => Ends(Append(s, f), last, k, S)
<1>. DEFINE t == Append(s, f)
<1>1. /\ t \in Seq(FrameSet) /\ Len(s) \in Nat /\ Len(t) = Len(s) + 1
      /\ \A i \in 1 .. Len(s) : t[i] = s[i]
      /\ t[Len(t)] = f  BY AppendProperties
<1>. HIDE DEF t
<1>2. Silent(s) => Silent(t)  BY <1>1 DEF Silent
<1>3. Once(s) => Once(t)
  <2>1. f.k # "data"  BY DEF Results
  <2>. QED  BY <1>1, <2>1 DEF Once
<1>4. ASSUME NEW last, NEW k, NEW S, Ends(s, last, k, S)
      PROVE  Ends(t, last, k, S)
  <2>1. PICK n \in 1 .. Len(s) : EndsAt(s, n, last, k, S)  BY <1>4 DEF Ends
  <2>2. n \in 1 .. Len(t) /\ EndsAt(t, n, last, k, S)
    <3>1. n \in 1 .. Len(t) /\ t[n] = last  BY <1>1, <2>1 DEF EndsAt
    <3>2. ASSUME NEW i \in 1 .. Len(t)
          PROVE  /\ i < n => t[i].k \in Results \/ Is(t[i], k, S)
                 /\ i > n => t[i].k \in Results
      <4>1. CASE i \in 1 .. Len(s)  BY <1>1, <2>1, <4>1 DEF EndsAt
      <4>2. CASE i = Len(t)  BY <1>1, <2>1, <4>2
      <4>. QED  BY <1>1, <4>1, <4>2
    <3>. QED  BY <3>1, <3>2 DEF EndsAt
  <2>. QED  BY <2>2 DEF Ends
<1>. QED  BY <1>1, <1>2, <1>3, <1>4 DEF t

\* The first frame of what comes after those that are held back.
LEMMA TakenFromAir ==
  ASSUME NEW h \in Seq(FrameSet), NEW a \in Seq(FrameSet), a # <<>>
  PROVE  /\ Without(h \o a, h \o Tail(a), Len(h) + 1)
         /\ (h \o a)[Len(h) + 1] = Head(a)
         /\ Append(h, Head(a)) \o Tail(a) = h \o a
<1>1. /\ h \o a \in Seq(FrameSet) /\ Len(h) \in Nat /\ Len(a) \in Nat \ {0}
      /\ Len(h \o a) = Len(h) + Len(a)
      /\ \A i \in 1 .. Len(h) + Len(a) : (h \o a)[i] = IF i <= Len(h) THEN h[i] ELSE a[i - Len(h)]
  BY ConcatProperties, EmptySeq
<1>2. /\ Tail(a) \in Seq(FrameSet) /\ Len(Tail(a)) = Len(a) - 1
      /\ \A i \in 1 .. Len(Tail(a)) : Tail(a)[i] = a[i + 1]
      /\ Head(a) = a[1] /\ Head(a) \in FrameSet  BY HeadTailProperties
<1>. DEFINE b == Tail(a)
            t == h \o b
<1>3. /\ t \in Seq(FrameSet) /\ Len(t) = Len(h) + Len(b)
      /\ \A i \in 1 .. Len(h) + Len(b) : t[i] = IF i <= Len(h) THEN h[i] ELSE b[i - Len(h)]
  BY <1>2, ConcatProperties
<1>4. Without(h \o a, t, Len(h) + 1)
  <2>1. Len(t) = Len(h \o a) - 1 /\ Len(h) + 1 \in 1 .. Len(h \o a)  BY <1>1, <1>2, <1>3
  <2>2. ASSUME NEW i \in 1 .. Len(t)
        PROVE  t[i] = IF i < Len(h) + 1 THEN (h \o a)[i] ELSE (h \o a)[i + 1]
    <3>1. CASE i <= Len(h)  BY <1>1, <1>2, <1>3, <3>1
    <3>2. CASE i > Len(h)
      <4>1. t[i] = b[i - Len(h)] /\ i - Len(h) \in 1 .. Len(b)  BY <1>1, <1>2, <1>3, <3>2
      <4>2. b[i - Len(h)] = a[i - Len(h) + 1]  BY <1>2, <4>1
      <4>3. (h \o a)[i + 1] = a[i + 1 - Len(h)]  BY <1>1, <1>2, <1>3, <3>2
      <4>4. i + 1 - Len(h) = i - Len(h) + 1  BY <1>1
      <4>. QED  BY <1>1, <3>2, <4>1, <4>2, <4>3, <4>4
    <3>. QED  BY <1>1, <3>1, <3>2
  <2>. QED  BY <1>1, <1>3, <2>1, <2>2 DEF Without
<1>5. (h \o a)[Len(h) + 1] = Head(a)  BY <1>1, <1>2
<1>6. Append(h, Head(a)) \o Tail(a) = h \o a
  <2>. DEFINE g == Append(h, Head(a))
  <2>1. g \in Seq(FrameSet) /\ Len(g) = Len(h) + 1 /\ g[Len(h) + 1] = Head(a)
        /\ \A i \in 1 .. Len(h) : g[i] = h[i]  BY <1>1, <1>2, AppendProperties
  <2>. HIDE DEF g
  <2>2. /\ g \o b \in Seq(FrameSet) /\ Len(g \o b) = Len(g) + Len(b)
        /\ \A i \in 1 .. Len(g) + Len(b) : (g \o b)[i] = IF i <= Len(g) THEN g[i] ELSE b[i - Len(g)]
    BY <1>2, <2>1, ConcatProperties
  <2>3. Len(g \o b) = Len(h \o a)  BY <1>1, <1>2, <2>1, <2>2
  <2>4. ASSUME NEW i \in 1 .. Len(g \o b)  PROVE (g \o b)[i] = (h \o a)[i]
    <3>1. CASE i <= Len(h)  BY <1>1, <1>2, <2>1, <2>2, <3>1
    <3>2. CASE i = Len(h) + 1  BY <1>1, <1>2, <2>1, <2>2, <3>2
    <3>3. CASE i > Len(h) + 1
      <4>1. (g \o b)[i] = b[i - Len(g)] /\ i - Len(g) \in 1 .. Len(b)  BY <1>1, <1>2, <2>1, <2>2, <3>3
      <4>2. b[i - Len(g)] = a[i - Len(g) + 1] /\ i - Len(g) + 1 = i - Len(h)  BY <1>1, <1>2, <2>1, <4>1
      <4>3. (h \o a)[i] = a[i - Len(h)]  BY <1>1, <2>1, <2>2, <2>3, <3>3
      <4>. QED  BY <4>1, <4>2, <4>3
    <3>. QED  BY <1>1, <2>3, <3>1, <3>2, <3>3
  <2>5. g \o b = h \o a  BY <1>1, <2>2, <2>3, <2>4, SeqEqual
  <2>. QED  BY <2>5 DEF g, b
<1>. QED  BY <1>4, <1>5, <1>6 DEF t, b

-----------------------------------------------------------------------------
(* What the device sends *)

LEMMA EndFacts ==
  ASSUME NEW base \in 0 .. Units
  PROVE  /\ EndOf(base) \in FrameSet /\ EndOf(base).k \in {"eof", "end"}
         /\ EndOf(base).k # KindOf(base) /\ EndOf(base).k \notin Results
         /\ EndOf(base).k \notin {"data", "manifest"}
         /\ KindOf(base) \in {"data", "manifest"}
         /\ base = Units => /\ EndOf(base).k = "eof" /\ EndOf(base).seq = Units
                            /\ KindOf(base) = "manifest"
         /\ base # Units => /\ base < Units /\ EndOf(base).k = "end" /\ KindOf(base) = "data"
                            /\ EndOf(base).seq = base + 1 /\ EndOf(base).last = WindowEnd(base)
                            /\ EndOf(base).off = WindowEnd(base) /\ SeqsOf(base) = Gap(base)
                            /\ Gap(base) = EndOf(base).seq .. EndOf(base).last
         /\ base # Units => WindowEnd(base) \in 0 .. Units /\ WindowEnd(base) > base
<1>1. Units \in Nat \ {0} /\ Window \in Nat \ {0}  BY ConstantTypes
<1>2. CASE base = Units
  <2>1. EndOf(base) = [k |-> "eof", seq |-> Units, last |-> 0, off |-> 0]  BY <1>2 DEF EndOf, NoFrame
  <2>. QED  BY <1>1, <1>2, <2>1 DEF FrameSet, FrameKinds, KindOf, Results
<1>3. CASE base # Units
  <2>1. WindowEnd(base) \in 0 .. Units /\ WindowEnd(base) > base  BY <1>1, <1>3 DEF WindowEnd
  <2>2. EndOf(base) = [k |-> "end", seq |-> base + 1, last |-> WindowEnd(base), off |-> WindowEnd(base)]
    BY <1>3 DEF EndOf
  <2>. QED  BY <1>1, <1>3, <2>1, <2>2 DEF FrameSet, FrameKinds, KindOf, Results, SeqsOf, Gap
<1>. QED  BY <1>2, <1>3

\* Packets of some numbers, in any order, and the end of their window.
LEMMA WindowFramesEnd ==
  ASSUME NEW base \in 0 .. Units, base # Units, NEW S, NEW packets \in Seq(Int),
         \A i \in 1 .. Len(packets) : packets[i] \in S
  PROVE  /\ WindowFrames(base, 0, packets) \in Seq(FrameSet)
         /\ Ends(WindowFrames(base, 0, packets), EndOf(base), "data", S)
         /\ (\A i, j \in 1 .. Len(packets) : packets[i] = packets[j] => i = j)
               => Once(WindowFrames(base, 0, packets))
<1>. DEFINE data(i) == [NoFrame EXCEPT !.k = "data", !.seq = packets[i]]
            Data == [i \in 1 .. Len(packets) |-> data(i)]
            end == [k |-> "end", seq |-> base + 1 - 0, last |-> WindowEnd(base) - 0,
                    off |-> WindowEnd(base)]
<1>1. WindowEnd(base) \in 0 .. Units /\ end = EndOf(base) /\ EndOf(base) \in FrameSet
      /\ EndOf(base).k = "end"
  <2>1. WindowEnd(base) \in 0 .. Units /\ Units \in Nat  BY ConstantTypes DEF WindowEnd
  <2>2. base + 1 - 0 = base + 1 /\ WindowEnd(base) - 0 = WindowEnd(base)  BY <2>1
  <2>. QED  BY <2>1, <2>2, EndFacts DEF EndOf
<1>2. ASSUME NEW i \in 1 .. Len(packets)
      PROVE  data(i) \in FrameSet /\ Is(data(i), "data", S) /\ data(i).seq = packets[i]
             /\ data(i).k = "data"
  <2>1. packets[i] \in Int /\ packets[i] \in S  BY ElementOfSeq
  <2>2. ASSUME NEW n \in Int
        PROVE  LET f == [NoFrame EXCEPT !.k = "data", !.seq = n] IN
               f \in FrameSet /\ f.k = "data" /\ f.seq = n
    BY EmptyTypes DEF FrameSet, FrameKinds, NoFrame
  <2>. QED  BY <2>1, <2>2 DEF Is
<1>. HIDE DEF data, end
<1>3. Len(packets) \in Nat  OBVIOUS
<1>4. Data \in Seq(FrameSet) /\ Len(Data) = Len(packets) /\ \A i \in 1 .. Len(packets) : Data[i] = data(i)
  BY <1>2, <1>3
<1>. HIDE DEF Data
<1>. DEFINE t == Append(Data, EndOf(base))
            n == Len(packets) + 1
<1>5. /\ t \in Seq(FrameSet) /\ Len(t) = n /\ t[n] = EndOf(base)
      /\ \A i \in 1 .. Len(packets) : t[i] = data(i)  BY <1>1, <1>4, AppendProperties
<1>6. WindowFrames(base, 0, packets) = t  BY <1>1 DEF WindowFrames, Data, data, end
<1>. HIDE DEF t
<1>7. EndsAt(t, n, EndOf(base), "data", S)  BY <1>2, <1>3, <1>5 DEF EndsAt
<1>8. Ends(t, EndOf(base), "data", S)
  <2>1. n \in 1 .. Len(t)  BY <1>3, <1>5
  <2>. QED  BY <1>7, <2>1 DEF Ends
<1>9. ASSUME \A i, j \in 1 .. Len(packets) : packets[i] = packets[j] => i = j
      PROVE  Once(t)
  <2>1. ASSUME NEW i \in 1 .. Len(t), NEW j \in 1 .. Len(t), t[i].k = "data", t[j].k = "data",
               t[i].seq = t[j].seq
        PROVE  i = j
    <3>1. i # n /\ j # n  BY <1>1, <1>5, <2>1
    <3>2. i \in 1 .. Len(packets) /\ j \in 1 .. Len(packets)  BY <1>3, <1>5, <3>1
    <3>3. packets[i] = packets[j]  BY <1>2, <1>5, <2>1, <3>2
    <3>. QED  BY <1>9, <3>2, <3>3
  <2>. QED  BY <2>1 DEF Once
<1>. QED  BY <1>5, <1>6, <1>8, <1>9

\* A window, or the manifest and the end of the recording.
LEMMA FramesRound ==
  ASSUME NEW base \in 0 .. Units
  PROVE  Frames(base, 0) \in Seq(FrameSet) /\ Round(Frames(base, 0), base)
<1>1. CASE base = Units
  <2>. DEFINE m == [NoFrame EXCEPT !.k = "manifest"]
              e == [NoFrame EXCEPT !.k = "eof", !.seq = Units - 0]
              t == <<m, e>>
  <2>1. m \in FrameSet /\ e \in FrameSet /\ e = EndOf(base) /\ Is(m, "manifest", {0})
    <3>1. Units - 0 = Units /\ Units \in Int  BY ConstantTypes
    <3>2. e = EndOf(base)  BY <1>1, <3>1 DEF EndOf
    <3>3. m \in FrameSet /\ Is(m, "manifest", {0})  BY EmptyTypes DEF FrameSet, FrameKinds, NoFrame, Is
    <3>. QED  BY <3>2, <3>3, EndFacts
  <2>. HIDE DEF m, e
  <2>2. t \in Seq(FrameSet) /\ Len(t) = 2 /\ t[1] = m /\ t[2] = e  BY <2>1
  <2>3. EndsAt(t, 2, EndOf(base), "manifest", {0}) /\ 2 \in 1 .. Len(t)
    <3>1. \A i \in 1 .. 2 : i < 2 => i = 1  OBVIOUS
    <3>2. \A i \in 1 .. 2 : ~(i > 2)  OBVIOUS
    <3>. HIDE DEF t
    <3>3. 2 \in 1 .. 2  OBVIOUS
    <3>. QED  BY <2>1, <2>2, <3>1, <3>2, <3>3 DEF EndsAt
  <2>4. Frames(base, 0) = t  BY <1>1 DEF Frames, ManifestFrames, m, e
  <2>. HIDE DEF t
  <2>5. Ends(t, EndOf(base), "manifest", {0})  BY <2>3 DEF Ends
  <2>. QED  BY <1>1, <2>2, <2>4, <2>5 DEF Round, KindOf, SeqsOf
<1>2. CASE base # Units
  <2>1. WindowEnd(base) - base \in Nat /\ WindowEnd(base) \in Int  BY ConstantTypes DEF WindowEnd
  <2>. DEFINE p == [i \in 1 .. WindowEnd(base) - base |-> base + i - 0]
  <2>2. p \in Seq(Int) /\ Len(p) = WindowEnd(base) - base
        /\ \A i \in 1 .. Len(p) : p[i] \in Gap(base)  BY <2>1 DEF Gap
  <2>3. Frames(base, 0) = WindowFrames(base, 0, p)  BY <1>2 DEF Frames
  <2>. HIDE DEF p
  <2>4. /\ WindowFrames(base, 0, p) \in Seq(FrameSet)
        /\ Ends(WindowFrames(base, 0, p), EndOf(base), "data", Gap(base))  BY <1>2, <2>2, WindowFramesEnd
  <2>. QED  BY <1>2, <2>3, <2>4 DEF Round, KindOf, SeqsOf
<1>. QED  BY <1>1, <1>2

\* The packets that are missing, once each.
LEMMA RepairFrames ==
  ASSUME NEW base \in 0 .. Units, base # Units, NEW S \in SUBSET Int, IsFiniteSet(S)
  PROVE  LET t == WindowFrames(base, 0, SetToSeq(S)) IN
         t \in Seq(FrameSet) /\ Ends(t, EndOf(base), "data", S) /\ Once(t)
<1>1. Cardinality(S) \in Nat /\ ExistsBijection(1 .. Cardinality(S), S)  BY FS_CardinalityType
<1>2. \E f \in [1 .. Cardinality(S) -> S] : IsInjective(f)
  BY <1>1, Zenon DEF ExistsBijection, Bijection, Injection
<1>3. SetToSeq(S) \in [1 .. Cardinality(S) -> S] /\ IsInjective(SetToSeq(S))  BY <1>2, Zenon DEF SetToSeq
<1>4. SetToSeq(S) \in Seq(Int)  BY SetToSeqType
<1>5. ASSUME NEW q, q = SetToSeq(S), NEW n \in Nat, n = Cardinality(S)
      PROVE  /\ \A i \in 1 .. Len(q) : q[i] \in S
             /\ \A i, j \in 1 .. Len(q) : q[i] = q[j] => i = j
  <2>1. q \in [1 .. n -> S] /\ IsInjective(q)  BY <1>3, <1>5
  <2>2. q \in Seq(Int) /\ Len(q) \in Nat  BY <1>4, <1>5
  <2>3. DOMAIN q = 1 .. n /\ DOMAIN q = 1 .. Len(q)  BY <2>1, <2>2
  <2>4. \A i \in 1 .. Len(q) : q[i] \in S  BY <2>1, <2>3
  <2>5. \A i, j \in 1 .. Len(q) : q[i] = q[j] => i = j  BY <2>1, <2>3, Zenon DEF IsInjective
  <2>. QED  BY <2>4, <2>5
<1>6. /\ \A i \in 1 .. Len(SetToSeq(S)) : SetToSeq(S)[i] \in S
      /\ \A i, j \in 1 .. Len(SetToSeq(S)) : SetToSeq(S)[i] = SetToSeq(S)[j] => i = j  BY <1>1, <1>5
<1>. QED  BY <1>4, <1>6, WindowFramesEnd

-----------------------------------------------------------------------------
(* The control accepts what is due *)

\* The next frame of a sequence.
Follow(s, t) == Without(s, t, 1)

LEMMA FollowFacts ==
  ASSUME NEW s \in Seq(FrameSet), s # <<>>
  PROVE  Follow(s, Tail(s)) /\ s[1] = Head(s)
<1>1. /\ Tail(s) \in Seq(FrameSet) /\ Len(Tail(s)) = Len(s) - 1
      /\ \A i \in 1 .. Len(Tail(s)) : Tail(s)[i] = s[i + 1]
      /\ Len(s) \in Nat \ {0} /\ Head(s) = s[1]  BY HeadTailProperties, EmptySeq
<1>. QED  BY <1>1 DEF Follow, Without

\* The fields of the run that only the receiver changes.
SameReceiver(r, x) ==
    /\ x.rx = r.rx /\ x.pend = r.pend /\ x.pkts = r.pkts /\ x.miss = r.miss /\ x.held = r.held
    /\ x.reply = r.reply /\ x.pc = r.pc /\ x.ckpt = r.ckpt /\ x.then = r.then /\ x.blob = r.blob

LEMMA AcceptDue ==
  ASSUME NEW r \in Runs, NEW s, NEW t, Follow(s, t), NEW f, f = s[1], f.k \notin Results,
         r.pc \in Receiving, Heeds(r), r.broken = "no", Due(r, s),
         NEW x, x = Accept(r, f)
  PROVE  /\ x \in Runs /\ SameReceiver(r, x)
         /\ Heeds(x) /\ (x.broken = "no" => Due(x, t))
         /\ x.tc \notin {"none", "awaiting_control", "control_pending", "confirming"}
         /\ x.tc \in {"window", "paused", "repair"} <=> r.tc \in {"window", "paused", "repair"}
<1>. DEFINE base == r.rx.off
<1>1. /\ s \in Seq(FrameSet) /\ t \in Seq(FrameSet) /\ f \in FrameSet /\ Len(s) \in Nat \ {0}
      /\ base \in 0 .. Units /\ r.queue \in Seq(FrameSet) /\ r.tc \in Expected
      /\ r.repair \in SUBSET Int /\ r.held \in Seq(FrameSet)
  BY RunFields, CheckpointFields DEF Follow, Without
<1>2. Queued(r) /\ Counts(r) /\ Places(r) /\ r.tc \in {"window", "paused", "manifest", "terminal", "repair"}
  BY DEF Heeds, Places
<1>18. /\ r.tc \in {"window", "paused", "repair"} => base # Units
       /\ r.tc \in {"manifest", "terminal"} => base = Units  BY <1>1, <1>2, ConstantTypes DEF Counts
<1>3. r.tc \in {"window", "manifest", "repair"}
  <2>1. CASE r.tc \in {"paused", "terminal"}
    <3>1. Silent(s)  BY <2>1 DEF Due
    <3>. QED  BY <1>1, <3>1 DEF Silent
  <2>. QED  BY <1>2, <2>1
<1>4. f = EndOf(base) \/ Is(f, KindOf(base), IF r.tc = "repair" THEN r.repair ELSE SeqsOf(base))
  <2>1. CASE r.tc = "repair"
    <3>1. Ends(s, EndOf(base), "data", r.repair) /\ base # Units  BY <1>18, <2>1 DEF Due
    <3>. QED  BY <1>1, <2>1, <3>1, FirstOf, EndFacts
  <2>2. CASE r.tc \in {"window", "manifest"}
    <3>1. Ends(s, EndOf(base), KindOf(base), SeqsOf(base))  BY <2>2 DEF Due, Round
    <3>2. f = EndOf(base) \/ Is(f, KindOf(base), SeqsOf(base))  BY <1>1, <3>1, FirstOf
    <3>. QED  BY <2>2, <3>2
  <2>. QED  BY <1>3, <2>1, <2>2
<1>. DEFINE q == Append(r.queue, f)
            Push(tc, repair) == [r EXCEPT !.tc = tc, !.repair = repair, !.queue = q]
<1>5. Append(r.queue, f) \in Seq(FrameSet) /\ Len(Append(r.queue, f)) = Len(r.queue) + 1
      /\ Len(r.queue) \in Nat
      /\ Append(r.queue, f)[Len(r.queue) + 1] = f
      /\ \A i \in 1 .. Len(r.queue) : Append(r.queue, f)[i] = r.queue[i]  BY <1>1, AppendProperties
<1>19. q \in Seq(FrameSet)  BY <1>5
<1>6. \A i \in 1 .. Len(r.queue) : Is(r.queue[i], KindOf(base), Wanted(r))  BY <1>2, <1>3 DEF Queued
<1>7. x \in Runs  BY <1>1, AcceptType
<1>8. ASSUME NEW tc \in Expected, NEW repair \in SUBSET Int, x = Push(tc, repair)
      PROVE  /\ SameReceiver(r, x) /\ x.tc = tc /\ x.repair = repair /\ x.broken = "no"
             /\ x.queue = Append(r.queue, f)
  <2>. HIDE DEF q
  <2>1. SameReceiver(r, x) /\ x.tc = tc /\ x.repair = repair /\ x.broken = "no" /\ x.queue = q
    BY <1>8 DEF Runs, SameReceiver
  <2>. QED  BY <2>1 DEF q
<1>9. ASSUME NEW tc \in Expected, NEW repair \in SUBSET Int, x = Push(tc, repair),
             tc = r.tc, Is(f, KindOf(base), Wanted(r)), repair \subseteq r.repair
      PROVE  Heeds(x)
  <2>1. /\ SameReceiver(r, x) /\ x.tc = tc /\ x.repair = repair /\ x.broken = "no"
        /\ x.queue = Append(r.queue, f)  BY <1>9, <1>8
  <2>2. Queued(x)
    <3>1. Wanted(x) = Wanted(r) /\ x.rx.off = base /\ x.tc \in {"window", "manifest", "repair"}
      BY <1>3, <1>9, <2>1 DEF Wanted, SameReceiver
    <3>2. \A i \in 1 .. Len(x.queue) : Is(x.queue[i], KindOf(base), Wanted(r))  BY <1>5, <1>6, <1>9, <2>1
    <3>. QED  BY <3>1, <3>2 DEF Queued
  <2>3. Counts(x)  BY <1>2, <1>9, <2>1 DEF Counts, SameReceiver
  <2>4. Places(x)
    <3>1. x.pc = r.pc /\ x.pc \in Receiving /\ x.tc = r.tc  BY <1>9, <2>1 DEF SameReceiver
    <3>2. x.pc \notin Stopped \cup Whole \cup Confirming \cup Signing /\ x.pc # "opening"
          /\ x.pc \in Controlled
      BY <3>1 DEF Receiving, Stopped, Whole, Confirming, Signing, Controlled
    <3>. QED  BY <1>2, <1>3, <3>1, <3>2 DEF Places
  <2>. QED  BY <1>9, <2>1, <2>2, <2>3, <2>4 DEF Heeds, SameReceiver
<1>10. ASSUME NEW tc \in {"paused", "terminal"}, x = Push(tc, {}), f = EndOf(base),
              tc = "paused" <=> base # Units
       PROVE  Heeds(x)
  <2>1. /\ SameReceiver(r, x) /\ x.tc = tc /\ x.repair = {} /\ x.broken = "no"
        /\ x.queue = Append(r.queue, f)
    <3>1. tc \in Expected /\ {} \in SUBSET Int  BY <1>10 DEF Expected
    <3>. HIDE DEF Push
    <3>. QED  BY <1>8, <1>10, <3>1
  <2>2. Queued(x)
    <3>1. Wanted(x) = Wanted(r) /\ x.rx.off = base  BY <2>1 DEF Wanted, SameReceiver
    <3>2. \A i \in 1 .. Len(x.queue) : Is(x.queue[i], KindOf(base), Wanted(r)) \/ i = Len(x.queue)
      BY <1>5, <1>6, <2>1
    <3>3. x.queue[Len(x.queue)] = EndOf(base)  BY <1>5, <1>10, <2>1
    <3>. QED  BY <1>10, <2>1, <3>1, <3>2, <3>3 DEF Queued
  <2>3. Counts(x)
    <3>1. x.pc \notin {"repair", "save", "ack"}  BY <2>1 DEF SameReceiver, Receiving
    <3>2. tc = "paused" => r.tc \in {"window", "repair"}  BY <1>2, <1>3, <1>10 DEF Counts
    <3>3. tc = "terminal" => r.tc = "manifest"
      <4>1. base \in Nat  BY <1>1
      <4>. QED  BY <1>2, <1>3, <1>10, <4>1 DEF Counts
    <3>. QED  BY <1>2, <1>10, <2>1, <3>1, <3>2, <3>3 DEF Counts, SameReceiver
  <2>4. Places(x)
    <3>1. x.pc = r.pc /\ x.pc \in Receiving /\ x.tc = tc  BY <2>1 DEF SameReceiver
    <3>2. x.pc \notin Stopped \cup Whole \cup Confirming \cup Signing /\ x.pc # "opening"
          /\ x.pc \in Controlled
      BY <3>1 DEF Receiving, Stopped, Whole, Confirming, Signing, Controlled
    <3>3. x.queue # <<>>
      <4>1. x.queue \in Seq(FrameSet) /\ Len(x.queue) = Len(r.queue) + 1 /\ Len(r.queue) \in Nat
        BY <1>5, <2>1
      <4>2. Len(x.queue) # 0  BY <4>1
      <4>. QED  BY <4>1, <4>2, EmptySeq
    <3>4. x.pc = "repairing" => tc = "paused"  BY <1>2, <1>10, <1>18, <3>1 DEF Places
    <3>. QED  BY <1>10, <3>1, <3>2, <3>3, <3>4 DEF Places
  <2>. QED  BY <2>1, <2>2, <2>3, <2>4 DEF Heeds, SameReceiver
<1>11. /\ KindOf(base) \in {"data", "manifest"} /\ EndOf(base).k \in {"eof", "end"}
       /\ base = Units => EndOf(base).k = "eof" /\ KindOf(base) = "manifest"
       /\ base # Units => EndOf(base).k = "end" /\ KindOf(base) = "data"
       /\ EndOf(base).k # KindOf(base) /\ EndOf(base).k \notin Results  BY <1>1, EndFacts
<1>12. ASSUME f = EndOf(base)  PROVE Silent(t)
  <2>1. CASE r.tc = "repair"
    <3>1. Ends(s, EndOf(base), "data", r.repair) /\ EndOf(base).k # "data"  BY <1>11, <2>1 DEF Due
    <3>. QED  BY <1>11, <1>12, <3>1, SilentAfter DEF Follow
  <2>2. CASE r.tc \in {"window", "manifest"}
    <3>1. Ends(s, EndOf(base), KindOf(base), SeqsOf(base))  BY <2>2 DEF Due, Round
    <3>. QED  BY <1>11, <1>12, <3>1, SilentAfter DEF Follow
  <2>. QED  BY <1>3, <2>1, <2>2
<1>13. CASE r.tc \in {"window", "manifest"} /\ f # EndOf(base)
  <2>1. Is(f, KindOf(base), SeqsOf(base)) /\ Wanted(r) = SeqsOf(base) /\ f.k = KindOf(base)
    BY <1>2, <1>4, <1>13 DEF Counts, Wanted, Is
  <2>2. x = Push(r.tc, {})
    <3>1. r.tc = "window" => f.k = "data"  BY <1>11, <1>18, <2>1
    <3>2. r.tc = "manifest" => f.k = "manifest"  BY <1>11, <1>18, <2>1
    <3>. QED  BY <1>13, <3>1, <3>2 DEF Accept
  <2>3. /\ SameReceiver(r, x) /\ x.tc = r.tc /\ Heeds(x)
    <3>1. {} \in SUBSET Int /\ {} \subseteq r.repair  OBVIOUS
    <3>. HIDE DEF Push
    <3>. QED  BY <1>1, <1>8, <1>9, <2>1, <2>2, <3>1
  <2>4. Round(t, base)
    <3>1. Ends(s, EndOf(base), KindOf(base), SeqsOf(base))  BY <1>13 DEF Due, Round
    <3>. QED  BY <1>13, <3>1, EndsWithout DEF Round, Follow
  <2>5. Due(x, t)  BY <1>13, <2>3, <2>4 DEF Due, SameReceiver
  <2>. QED  BY <1>7, <1>13, <2>3, <2>5
<1>14. CASE r.tc \in {"window", "manifest"} /\ f = EndOf(base)
  <2>. DEFINE tc == IF r.tc = "window" THEN "paused" ELSE "terminal"
  <2>1. x = Push(tc, {}) /\ (tc = "paused" <=> base # Units)
    <3>1. r.tc = "window" => f.k = "end" /\ base # Units  BY <1>11, <1>14, <1>18
    <3>2. r.tc = "manifest" => f.k = "eof" /\ base = Units  BY <1>11, <1>14, <1>18
    <3>. QED  BY <1>14, <3>1, <3>2 DEF Accept
  <2>2. tc \in {"paused", "terminal"} /\ tc \in Expected /\ {} \in SUBSET Int  BY DEF Expected
  <2>3. SameReceiver(r, x) /\ x.tc = tc /\ Heeds(x)  BY <1>8, <1>10, <1>14, <2>1, <2>2
  <2>4. Due(x, t)  BY <1>12, <1>14, <2>2, <2>3 DEF Due
  <2>. QED  BY <1>7, <1>14, <2>2, <2>3, <2>4
<1>15. CASE r.tc = "repair" /\ f # EndOf(base)
  <2>1. base # Units /\ f.k = "data" /\ f.seq \in r.repair /\ r.miss # {} /\ r.repair \subseteq r.miss
    BY <1>2, <1>4, <1>11, <1>15, <1>18 DEF Counts, Is
  <2>. DEFINE rest == r.repair \ {f.seq}
  <2>2. x = Push("repair", rest)  BY <1>15, <2>1 DEF Accept
  <2>3. rest \in SUBSET Int /\ rest \subseteq r.repair /\ "repair" \in Expected
        /\ Is(f, KindOf(base), Wanted(r))  BY <1>1, <1>11, <2>1 DEF Expected, Is, Wanted
  <2>4. SameReceiver(r, x) /\ x.tc = "repair" /\ x.repair = rest /\ Heeds(x)
    <3>. HIDE DEF Push, rest
    <3>. QED  BY <1>8, <1>9, <1>15, <2>2, <2>3
  <2>5. Ends(s, EndOf(base), "data", r.repair) /\ Once(s) /\ EndOf(base).k = "end"
    BY <1>11, <1>15, <2>1 DEF Due
  <2>6. Ends(t, EndOf(base), "data", rest) /\ Once(t)  BY <2>1, <2>5, OthersOnce DEF Follow
  <2>7. Due(x, t)  BY <2>4, <2>6 DEF Due, SameReceiver
  <2>. QED  BY <1>7, <1>15, <2>4, <2>7
<1>16. CASE r.tc = "repair" /\ f = EndOf(base) /\ r.repair = {}
  <2>1. base # Units /\ f.k = "end"  BY <1>11, <1>16, <1>18
  <2>2. x = Push("paused", {})  BY <1>16, <2>1 DEF Accept
  <2>3. SameReceiver(r, x) /\ x.tc = "paused" /\ Heeds(x)
    <3>1. "paused" \in Expected /\ {} \in SUBSET Int  BY DEF Expected
    <3>. QED  BY <1>8, <1>10, <1>16, <2>1, <2>2, <3>1
  <2>4. Due(x, t)  BY <1>12, <1>16, <2>3 DEF Due
  <2>. QED  BY <1>7, <1>16, <2>3, <2>4
<1>17. CASE r.tc = "repair" /\ f = EndOf(base) /\ r.repair # {}
  <2>1. base # Units /\ f.k = "end"  BY <1>11, <1>17, <1>18
  <2>2. x = [r EXCEPT !.broken = "lossy", !.queue = <<>>]  BY <1>17, <2>1 DEF Accept, Break
  <2>3. SameReceiver(r, x) /\ x.tc = "repair" /\ x.broken = "lossy" /\ x.queue = <<>>
    BY <1>17, <2>2 DEF Runs, SameReceiver
  <2>4. r.pc \in {"receive", "repairing"}  BY <1>2, <1>17 DEF Places, Receiving
  <2>5. Places(x)
    <3>1. x.pc = r.pc /\ x.pc \in Receiving /\ x.tc = r.tc  BY <1>17, <2>3 DEF SameReceiver
    <3>2. x.pc \notin Stopped \cup Whole \cup Confirming \cup Signing /\ x.pc # "opening"
          /\ x.pc \in Controlled
      BY <3>1 DEF Receiving, Stopped, Whole, Confirming, Signing, Controlled
    <3>. QED  BY <1>2, <1>17, <2>4, <3>1, <3>2 DEF Places
  <2>6. Heeds(x)  BY <2>3, <2>4, <2>5 DEF Heeds, SameReceiver
  <2>. QED  BY <1>7, <1>17, <2>3, <2>6
<1>. QED  BY <1>3, <1>13, <1>14, <1>15, <1>16, <1>17

-----------------------------------------------------------------------------
(* What a step leaves agreed *)

LEMMA LineFields ==
  ASSUME IInv
  PROVE  /\ TypeOK /\ run \in Runs /\ run.rx \in Checkpoints /\ run.rx.off \in 0 .. Units
         /\ run.ckpt \in Checkpoints /\ run.pend \in Checkpoints /\ run.pend.off \in 0 .. Units
         /\ run.held \in Seq(FrameSet) /\ run.queue \in Seq(FrameSet) /\ air \in Seq(FrameSet)
         /\ run.pc \in Pcs /\ run.tc \in Expected /\ run.blob \in Blobs /\ dev \in Devices
         /\ store \in Stores /\ store.ckpt \in Checkpoints /\ run.miss \in SUBSET Int
         /\ Coming \in Seq(FrameSet) /\ (run.held = <<>> => Coming = air)
<1>1. TypeOK  BY DEF IInv
<1>2. /\ run \in Runs /\ run.rx \in Checkpoints /\ run.ckpt \in Checkpoints /\ run.pend \in Checkpoints
      /\ run.held \in Seq(FrameSet) /\ run.queue \in Seq(FrameSet) /\ air \in Seq(FrameSet)
      /\ run.pc \in Pcs /\ run.tc \in Expected /\ run.blob \in Blobs /\ dev \in Devices
      /\ store \in Stores /\ store.ckpt \in Checkpoints /\ run.miss \in SUBSET Int
  BY <1>1, Fields, RunFields
<1>3. run.rx.off \in 0 .. Units /\ run.pend.off \in 0 .. Units  BY <1>2, CheckpointFields
<1>4. Coming \in Seq(FrameSet) /\ (run.held = <<>> => Coming = air)
  BY <1>2, ConcatProperties, ConcatEmptySeq DEF Coming
<1>. QED  BY <1>1, <1>2, <1>3, <1>4

\* A run whose control expects nothing.
LEMMA Rests ==
  ASSUME IInv', run'.tc = "none", run'.held = <<>>, run'.queue = <<>>,
         run'.broken = "no", Numbers', wire'.k \notin Requesting, link' = "up" => Silent(air'),
         run'.pc \notin Controlled \/ (run'.pc \in Signing /\ run'.blob.k = "auth"),
         run'.pc \in {"authorize", "open"} \cup Signing => body' = run'.ckpt.off
  PROVE  Line'
<1>1. air' \in Seq(FrameSet)  BY DEF IInv, TypeOK, RadioOK
<1>2. Coming' = air'  BY <1>1, ConcatEmptySeq DEF Coming
<1>3. /\ run'.pc \notin {"opening"} \cup Receiving \cup Stopped \cup Whole \cup Confirming
      /\ run'.pc \notin {"repair", "save", "ack"}
  BY DEF Controlled, Signing, Receiving, Stopped, Whole, Confirming
<1>4. Heeds(run)'
  <2>1. Places(run)'  BY <1>3 DEF Places, Receiving, Controlled
  <2>2. Queued(run)'
    <3>1. Len(run'.queue) = 0  BY EmptySeq
    <3>. QED  BY <3>1 DEF Queued
  <2>3. Counts(run)'  BY <1>3 DEF Counts
  <2>. QED  BY <2>1, <2>2, <2>3 DEF Heeds
<1>5. Stages'  BY DEF Stages
<1>6. Asked' /\ Based' /\ Travels'  BY <1>2 DEF Asked, Based, Travels, Due, Requesting
<1>. QED  BY <1>4, <1>5, <1>6 DEF Line

LEMMA NumbersFacts ==
    /\ Numbered(NoCheckpoint)
    /\ NoRun.ckpt = NoCheckpoint /\ NoRun.rx = NoCheckpoint /\ NoRun.pend = NoCheckpoint
    /\ NoRun.tc = "none" /\ NoRun.held = <<>> /\ NoRun.queue = <<>> /\ NoRun.broken = "no"
    /\ NoRun.then = "none" /\ NoRun.pc = "idle"
    /\ NoOperation.ckpt = NoCheckpoint
    /\ "idle" \notin Controlled /\ "reload" \notin Controlled /\ "provider" \notin Controlled
    /\ "dropBlob" \notin Controlled
    /\ \A pc \in {"idle", "reload", "provider", "dropBlob"} :
          pc \notin {"authorize", "open"} \cup Signing
  BY DEF Numbered, NoRun, NoOperation, Controlled, Receiving, Stopped, Whole, Confirming, Signing

\* A run that has ended, or has just begun.
LEMMA Ended ==
  ASSUME IInv', NEW pc \in {"idle", "reload", "provider", "dropBlob"},
         run'.pc = pc, run'.tc = "none", run'.held = <<>>, run'.queue = <<>>,
         run'.broken = "no", Numbered(run'.ckpt), run'.rx = NoCheckpoint, run'.pend = NoCheckpoint,
         Numbered(store'.ckpt), wire'.k \notin Requesting,
         link' = "up" => Silent(air')
  PROVE  Line'
<1>1. Numbers'  BY NumbersFacts DEF Numbers
<1>. QED  BY <1>1, NumbersFacts, Rests

LEMMA NoRequest == Nothing.k \notin Requesting /\ Silent(<<>>) /\ Nothing.k = "none"
  BY DEF Nothing, Requesting, Silent

LEMMA FailedRun ==
  ASSUME NEW e, run' = Failed(e)
  PROVE  /\ run'.pc \in {"idle", "reload"} /\ run'.then = e /\ run'.tc = "none" /\ run'.held = <<>>
         /\ run'.queue = <<>> /\ run'.broken = "no" /\ run'.ckpt = NoCheckpoint
         /\ run'.rx = NoCheckpoint /\ run'.pend = NoCheckpoint
<1>1. PICK pc \in {"idle", "reload"} : run' = [NoRun EXCEPT !.pc = pc, !.then = e]  BY DEF Failed
<1>. QED  BY <1>1 DEF NoRun

LEMMA FailEnds ==
  ASSUME IInv, IInv', Numbered(store.ckpt), NEW e, Fail(e), store' = store
  PROVE  Line'
<1>1. run' = Failed(e) /\ wire' = Nothing /\ air' = <<>>  BY DEF Fail
<1>2. Numbered(store'.ckpt)  OBVIOUS
<1>3. /\ run'.pc \in {"idle", "reload"} /\ run'.then = e /\ run'.tc = "none" /\ run'.held = <<>>
      /\ run'.queue = <<>> /\ run'.broken = "no" /\ run'.ckpt = NoCheckpoint
      /\ run'.rx = NoCheckpoint /\ run'.pend = NoCheckpoint  BY <1>1, FailedRun
<1>. QED  BY <1>1, <1>2, <1>3, NoRequest, NumbersFacts, Ended

LEMMA FailAgrees ==
  ASSUME IInv, IInv', Line, NEW e, Fail(e), store' = store
  PROVE  Line'
<1>1. Numbered(store.ckpt)  BY DEF Line, Numbers
<1>. QED  BY <1>1, FailEnds

LEMMA SettleAgrees ==
  ASSUME IInv, IInv', Line, NEW e, Settle(e), Numbered(store'.ckpt),
         wire'.k \notin Requesting, link' = "up" => Silent(air')
  PROVE  Line'
<1>1. /\ run'.pc = "idle" /\ run'.then = e /\ run'.tc = "none" /\ run'.held = <<>>
      /\ run'.queue = <<>> /\ run'.broken = "no" /\ run'.ckpt = NoCheckpoint
      /\ run'.rx = NoCheckpoint /\ run'.pend = NoCheckpoint  BY DEF Settle, NoRun
<1>. QED  BY <1>1, NumbersFacts, Ended

\* The control expects nothing, and is silent.
LEMMA Unexpecting ==
  ASSUME IInv, Line, run.tc = "none"
  PROVE  /\ run.held = <<>> /\ run.queue = <<>> /\ run.broken = "no"
         /\ Coming = air /\ (link = "up" => Silent(air))
         /\ wire.k \notin Requesting
<1>1. Heeds(run) /\ Places(run) /\ Travels /\ Asked  BY DEF Line, Heeds
<1>2. run.pc \notin {"opening", "replaying"}  BY <1>1 DEF Places, Receiving
<1>3. run.held = <<>> /\ run.broken = "no" /\ run.queue = <<>>  BY <1>1, <1>2 DEF Heeds, Queued
<1>4. wire.k \notin Requesting
  <2>1. run.pc \notin {"repairing", "acking"}  BY <1>1 DEF Places, Receiving
  <2>. QED  BY <1>2, <2>1 DEF IInv, Asks, Requesting
<1>. QED  BY <1>1, <1>3, <1>4, LineFields DEF Travels

\* Where the control expects nothing.
LEMMA Uncontrolled ==
  ASSUME Line, run.pc \notin Controlled \/ (run.pc \in Signing /\ run.blob.k = "auth")
  PROVE  run.tc = "none"
  BY DEF Line, Heeds, Places

\* A step among those where it does.
LEMMA Resting ==
  ASSUME IInv, IInv', Line, run.tc = "none",
         run'.tc = "none", run'.held = run.held, run'.queue = run.queue, run'.broken = run.broken,
         Numbered(run'.ckpt), run'.rx = run.rx, run'.pend = run.pend, Numbered(store'.ckpt),
         air' = air, link' = link, dev'.num = dev.num, wire'.k \notin Requesting,
         run'.pc \notin Controlled \/ (run'.pc \in Signing /\ run'.blob.k = "auth"),
         run'.pc \in {"authorize", "open"} \cup Signing => body' = run'.ckpt.off
  PROVE  Line'
<1>1. /\ run.held = <<>> /\ run.queue = <<>> /\ run.broken = "no" /\ (link = "up" => Silent(air))
  BY Unexpecting
<1>2. Numbers'  BY DEF Line, Numbers
<1>. QED  BY <1>1, <1>2, Rests

-----------------------------------------------------------------------------
(* A step that leaves the receiver and the air as they were *)

SameExpected ==
    /\ run'.tc = run.tc /\ run'.queue = run.queue /\ run'.held = run.held /\ run'.rx = run.rx
    /\ run'.pkts = run.pkts /\ run'.miss = run.miss /\ run'.repair = run.repair
    /\ run'.reply = run.reply /\ run'.broken = run.broken /\ run'.then = run.then

LEMMA HeedsKept ==
  ASSUME Line, SameExpected, Places(run)', run'.pc # "repair",
         run'.pc \in {"save", "ack"} => run.pc \in {"save", "ack"} /\ run'.pend = run.pend,
         run'.pc \in {"opening", "replaying"} => run.pc \in {"opening", "replaying"},
         run'.held = <<>> \/ run'.pc \in {"opening", "replaying"},
         run.pc \in {"receive", "repairing"} => run'.pc \in {"receive", "repairing"} \/ run.broken = "no"
  PROVE  Heeds(run)'
<1>1. Heeds(run)  BY DEF Line
<1>2. run.broken = "no" => Queued(run)' /\ Counts(run)'
  <2>1. run.broken = "no" => Queued(run)'
    <3>1. Wanted(run)' = Wanted(run)  BY DEF Wanted, SameExpected
    <3>. QED  BY <1>1, <3>1 DEF Heeds, Queued, SameExpected
  <2>2. run.broken = "no" => Counts(run)'  BY <1>1 DEF Heeds, Counts, SameExpected
  <2>. QED  BY <2>1, <2>2
<1>. QED  BY <1>1, <1>2 DEF Heeds, SameExpected

LEMMA Steady ==
  ASSUME IInv, IInv', Line, SameExpected, Heeds(run)', Stages', air' = air,
         Numbered(store'.ckpt), Numbered(run'.ckpt), Numbered(run'.pend),
         dev'.num = dev.num, dev'.base = dev.base, link' = "up" => link = "up",
         wire' = wire \/ (/\ run.tc \notin {"awaiting_control", "control_pending"}
                          /\ wire.k \notin Requesting /\ wire'.k \notin Requesting)
  PROVE  Line'
<1>1. Coming' = Coming  BY DEF Coming, SameExpected
<1>2. Numbers'  BY DEF Line, Numbers, SameExpected
<1>3. Asked'  BY <1>1 DEF Line, Asked, SameExpected, Requesting
<1>4. Based'  BY DEF Line, Based, SameExpected, Requesting
<1>5. Travels'
  <2>1. Travels  BY DEF Line
  <2>2. wire'.k \in Requesting <=> wire.k \in Requesting  OBVIOUS
  <2>3. \A s : Due(run, s) => Due(run', s)  BY DEF Due, SameExpected
  <2>4. run'.broken = "no" /\ wire'.k \notin Requesting => Due(run', Coming)
    BY <2>1, <2>2, <2>3 DEF Travels, SameExpected
  <2>5. \A f, s, base : Replying(f, s, base) <=> Replying(f, s, base)'  BY DEF Replying
  <2>6. run'.tc = "none" /\ link' = "up" => Silent(Coming)  BY <2>1 DEF Travels, SameExpected
  <2>7. run'.tc = "awaiting_control" /\ wire'.k = "none" =>
          air # <<>> /\ Replying(Head(air), Tail(air), run.rx.off)
    BY <2>1 DEF Travels, SameExpected
  <2>8. run'.tc = "control_pending" =>
          wire'.k = "none" /\ Replying(run.reply, Coming, run.rx.off)
    BY <2>1 DEF Travels, SameExpected
  <2>. QED  BY <1>1, <2>4, <2>5, <2>6, <2>7, <2>8 DEF Travels, SameExpected, Replying
<1>. QED  BY <1>2, <1>3, <1>4, <1>5 DEF Line, SameExpected

-----------------------------------------------------------------------------
(* Results, and what is lost *)

LEMMA DueWithout ==
  ASSUME NEW s, NEW t, NEW j, Without(s, t, j), s[j].k \in Results \cup {"data", "manifest"}
  PROVE  /\ Silent(s) => Silent(t)
         /\ \A base \in 0 .. Units : Round(s, base) => Round(t, base)
         /\ \A r \in Runs : Due(r, s) => Due(r, t)
<1>1. Silent(s) => Silent(t)  BY SilentWithout
<1>2. \A base \in 0 .. Units : s[j] # EndOf(base)  BY EndFacts
<1>3. ASSUME NEW base \in 0 .. Units, Round(s, base)  PROVE Round(t, base)
  <2>1. s[j] # EndOf(base)  BY <1>2
  <2>. QED  BY <1>3, <2>1, EndsWithout DEF Round
<1>4. ASSUME NEW r \in Runs, Due(r, s)  PROVE Due(r, t)
  <2>1. r.rx.off \in 0 .. Units  BY RunFields, CheckpointFields
  <2>2. r.tc = "repair" => Ends(t, EndOf(r.rx.off), "data", r.repair) /\ Once(t)
    <3>1. s[j] # EndOf(r.rx.off)  BY <1>2, <2>1
    <3>. QED  BY <1>4, <3>1, EndsWithout, OnceWithout DEF Due
  <2>. QED  BY <1>1, <1>3, <1>4, <2>1, <2>2 DEF Due
<1>. QED  BY <1>1, <1>3, <1>4

LEMMA DueAdded ==
  ASSUME NEW s \in Seq(FrameSet), NEW f \in FrameSet, f.k \in Results, NEW t, t = Append(s, f)
  PROVE  /\ Silent(s) => Silent(t)
         /\ \A base \in 0 .. Units : Round(s, base) => Round(t, base)
         /\ \A r \in Runs : Due(r, s) => Due(r, t)
  BY ResultAdded DEF Due, Round

LEMMA TailOfAppend ==
  ASSUME NEW a \in Seq(FrameSet), a # <<>>, NEW f \in FrameSet
  PROVE  /\ Append(a, f) # <<>> /\ Head(Append(a, f)) = Head(a)
         /\ Tail(Append(a, f)) = Append(Tail(a), f)
<1>. DEFINE b == Append(a, f)
            u == Append(Tail(a), f)
<1>1. Len(a) \in Nat \ {0} /\ Tail(a) \in Seq(FrameSet) /\ Len(Tail(a)) = Len(a) - 1
      /\ Head(a) = a[1] /\ \A i \in 1 .. Len(Tail(a)) : Tail(a)[i] = a[i + 1]
  BY HeadTailProperties, EmptySeq
<1>2. b \in Seq(FrameSet) /\ Len(b) = Len(a) + 1 /\ b[Len(a) + 1] = f
      /\ \A i \in 1 .. Len(a) : b[i] = a[i]  BY AppendProperties
<1>3. u \in Seq(FrameSet) /\ Len(u) = Len(Tail(a)) + 1 /\ u[Len(Tail(a)) + 1] = f
      /\ \A i \in 1 .. Len(Tail(a)) : u[i] = Tail(a)[i]  BY <1>1, AppendProperties
<1>. HIDE DEF b, u
<1>4. b # <<>>  BY <1>1, <1>2, EmptySeq
<1>5. Head(b) = b[1] /\ Tail(b) \in Seq(FrameSet) /\ Len(Tail(b)) = Len(b) - 1
      /\ \A i \in 1 .. Len(Tail(b)) : Tail(b)[i] = b[i + 1]  BY <1>2, <1>4, HeadTailProperties
<1>6. Len(Tail(b)) = Len(a) /\ Len(u) = Len(a) /\ Len(Tail(a)) = Len(a) - 1  BY <1>1, <1>2, <1>3, <1>5
<1>7. ASSUME NEW i \in 1 .. Len(a)  PROVE Tail(b)[i] = u[i]
  <2>1. CASE i = Len(a)  BY <1>1, <1>2, <1>3, <1>5, <1>6, <2>1
  <2>2. CASE i \in 1 .. Len(a) - 1  BY <1>1, <1>2, <1>3, <1>5, <1>6, <2>2
  <2>3. i = Len(a) \/ i \in 1 .. Len(a) - 1
    <3>1. \A n \in Nat : \A m \in 1 .. n : m = n \/ m \in 1 .. n - 1  OBVIOUS
    <3>2. Len(a) \in Nat  BY <1>1
    <3>. QED  BY <3>1, <3>2
  <2>. QED  BY <2>1, <2>2, <2>3
<1>8. Tail(b) = u  BY <1>3, <1>5, <1>6, <1>7, SeqEqual
<1>. QED  BY <1>1, <1>2, <1>4, <1>5, <1>8 DEF b, u

LEMMA ConcatOfAppend ==
  ASSUME NEW h \in Seq(FrameSet), NEW a \in Seq(FrameSet), NEW f \in FrameSet
  PROVE  h \o Append(a, f) = Append(h \o a, f)
<1>. DEFINE o == <<f>>
            b == h \o a
<1>1. o \in Seq(FrameSet) /\ b \in Seq(FrameSet)  BY ConcatProperties
<1>2. Append(a, f) = a \o o  BY AppendIsConcat
<1>3. Append(b, f) = b \o o
  <2>. HIDE DEF b
  <2>. QED  BY <1>1, AppendIsConcat DEF o
<1>. HIDE DEF o
<1>4. b \o o = h \o (a \o o)  BY <1>1, ConcatAssociative
<1>. QED  BY <1>2, <1>3, <1>4

\* Something is taken from the air, or a result is added to it.
LEMMA AirAgrees ==
  ASSUME IInv, IInv', Line, SameExpected, run'.pc = run.pc, run'.blob = run.blob,
         run'.ckpt = run.ckpt, run'.pend = run.pend, wire' = wire, link' = link,
         store' = store, body' = body, dev'.num = dev.num, dev'.base = dev.base,
         \/ /\ air # <<>> /\ air' = Tail(air)
            /\ Head(air).k \in Results \cup {"data", "manifest"}
         \/ \E f \in FrameSet : f.k \in Results /\ air' = Append(air, f)
  PROVE  Line'
<1>1. /\ run.held \in Seq(FrameSet) /\ air \in Seq(FrameSet) /\ run \in Runs
      /\ Coming \in Seq(FrameSet) /\ run.rx.off \in 0 .. Units  BY LineFields
<1>2. /\ Silent(Coming) => Silent(Coming')
      /\ \A base \in 0 .. Units : Round(Coming, base) => Round(Coming', base)
      /\ \A r \in Runs : Due(r, Coming) => Due(r, Coming')
  <2>1. CASE air # <<>> /\ air' = Tail(air) /\ Head(air).k \in Results \cup {"data", "manifest"}
    <3>1. Without(Coming, Coming', Len(run.held) + 1) /\ Coming[Len(run.held) + 1] = Head(air)
      BY <1>1, <2>1, TakenFromAir DEF Coming, SameExpected
    <3>. QED  BY <2>1, <3>1, DueWithout
  <2>2. ASSUME NEW f \in FrameSet, f.k \in Results, air' = Append(air, f)
        PROVE  Coming' = Append(Coming, f)
    <3>1. run.held \o Append(air, f) = Append(run.held \o air, f)  BY <1>1, ConcatOfAppend DEF Coming
    <3>. QED  BY <2>2, <3>1 DEF Coming, SameExpected
  <2>. QED  BY <1>1, <2>1, <2>2, DueAdded
<1>3. Heeds(run)'
  <2>1. Heeds(run)  BY DEF Line
  <2>2. Places(run)'  BY <2>1 DEF Heeds, Places, SameExpected
  <2>3. Queued(run)' <=> Queued(run)  BY DEF Queued, Wanted, SameExpected
  <2>4. Counts(run)' <=> Counts(run)  BY DEF Counts, SameExpected
  <2>. QED  BY <2>1, <2>2, <2>3, <2>4 DEF Heeds, SameExpected
<1>4. Numbers' /\ Stages' /\ Based'  BY DEF Line, Numbers, Stages, Based, SameExpected
<1>5. Asked'  BY <1>2 DEF Line, Asked, SameExpected
<1>6. Travels  BY DEF Line
<1>7. run'.tc = "awaiting_control" /\ wire'.k = "none" =>
         air' # <<>> /\ Replying(Head(air'), Tail(air'), run.rx.off)
  <2>. SUFFICES ASSUME run.tc = "awaiting_control", wire.k = "none"
                PROVE  air' # <<>> /\ Replying(Head(air'), Tail(air'), run.rx.off)
    BY DEF SameExpected
  <2>1. air # <<>> /\ Replying(Head(air), Tail(air), run.rx.off)  BY <1>6 DEF Travels
  <2>2. Head(air).k \notin Results \cup {"data", "manifest"}
    BY <2>1 DEF Replying, Replies, Rejections, Results
  <2>3. PICK f \in FrameSet : f.k \in Results /\ air' = Append(air, f)  BY <2>2
  <2>4. air' # <<>> /\ Head(air') = Head(air) /\ Tail(air') = Append(Tail(air), f)
        /\ Tail(air) \in Seq(FrameSet)
    <3>1. Tail(air) \in Seq(FrameSet)  BY <1>1, <2>1, HeadTailProperties
    <3>. QED  BY <1>1, <2>1, <2>3, <3>1, TailOfAppend
  <2>5. /\ Silent(Tail(air)) => Silent(Tail(air'))
        /\ Round(Tail(air), run.rx.off) => Round(Tail(air'), run.rx.off)
    <3>1. Tail(air') = Append(Tail(air), f) /\ Tail(air) \in Seq(FrameSet) /\ f.k \in Results  BY <2>3, <2>4
    <3>2. /\ Silent(Tail(air)) => Silent(Append(Tail(air), f))
          /\ \A base \in 0 .. Units : Round(Tail(air), base) => Round(Append(Tail(air), f), base)
      BY <3>1, DueAdded
    <3>. QED  BY <1>1, <3>1, <3>2
  <2>. QED  BY <2>1, <2>4, <2>5 DEF Replying
<1>8. Travels'
  <2>1. run'.tc = "none" /\ link' = "up" => Silent(Coming')  BY <1>2, <1>6 DEF Travels, SameExpected
  <2>2. run'.tc = "control_pending" =>
          wire'.k = "none" /\ Replying(run.reply, Coming', run.rx.off)
    BY <1>1, <1>2, <1>6 DEF Travels, SameExpected, Replying
  <2>3. \A s : Due(run, s) <=> Due(run', s)  BY DEF Due, SameExpected
  <2>4. run'.broken = "no" /\ wire'.k \notin Requesting => Due(run', Coming')
    BY <1>1, <1>2, <1>6, <2>3 DEF Travels, SameExpected
  <2>. QED  BY <1>7, <2>1, <2>2, <2>4 DEF Travels, SameExpected, Replying
<1>. QED  BY <1>3, <1>4, <1>5, <1>8 DEF Line, SameExpected

-----------------------------------------------------------------------------
(* The steps without a transfer *)

LEMMA GotoSame ==
  ASSUME IInv, NEW pc, Goto(pc)
  PROVE  SameExpected /\ run'.pc = pc /\ run'.ckpt = run.ckpt /\ run'.pend = run.pend
         /\ run'.blob = run.blob /\ run'.session = run.session
<1>1. run \in Runs  BY LineFields
<1>. QED  BY <1>1 DEF Goto, Runs, SameExpected

LEMMA PcPlaces ==
    /\ \A pc \in {"idle", "provider", "saveOperation", "transferring", "truncate", "authorize",
                  "open", "restart", "truncate0", "forget", "reload", "dropCheckpoint",
                  "dropBlob", "dropOperation"} : pc \notin Controlled
    /\ \A pc \in {"provider", "saveOperation", "transferring", "truncate", "restart", "truncate0",
                  "forget", "reload", "dropCheckpoint", "dropBlob", "dropOperation", "idle"} :
          pc \notin {"authorize", "open"} \cup Signing
  BY DEF Controlled, Receiving, Stopped, Whole, Confirming, Signing

LEMMA LineNumbers ==
  Line => /\ Numbered(store.ckpt) /\ Numbered(run.ckpt) /\ Numbered(run.rx) /\ Numbered(run.pend)
  BY DEF Line, Numbers

LEMMA IdleAir ==
  ASSUME IInv, Line, run.pc \notin Controlled
  PROVE  /\ run.tc = "none" /\ wire.k \notin Requesting /\ (link = "up" => Silent(air))
  BY Uncontrolled, Unexpecting

LEMMA SyncAgrees == IInv /\ IInv' /\ Line /\ Sync => Line'
<1>. SUFFICES ASSUME IInv, IInv', Line, Sync  PROVE Line'  OBVIOUS
<1>1. /\ run.pc = "idle" /\ UNCHANGED <<store, body, link, wire, air, dev, cloud, left>>
      /\ run' = [NoRun EXCEPT !.pc = "provider", !.api = "sync"]  BY DEF Sync, durable, radio
<1>2. /\ run'.pc = "provider" /\ run'.then = "none" /\ run'.tc = "none" /\ run'.held = <<>>
      /\ run'.queue = <<>> /\ run'.broken = "no" /\ run'.ckpt = NoCheckpoint
      /\ run'.rx = NoCheckpoint /\ run'.pend = NoCheckpoint  BY <1>1 DEF NoRun
<1>. QED  BY <1>1, <1>2, IdleAir, PcPlaces, LineNumbers, NumbersFacts, Ended

LEMMA ResumeAgrees == IInv /\ IInv' /\ Line /\ Resume => Line'
<1>. SUFFICES ASSUME IInv, IInv', Line, Resume  PROVE Line'  OBVIOUS
<1>1. run.pc = "idle" /\ UNCHANGED <<store, body, link, wire, air, dev, cloud, left>>
  BY DEF Resume, durable, radio
<1>2. /\ wire.k \notin Requesting /\ (link = "up" => Silent(air)) /\ Numbered(store.ckpt)
  BY <1>1, IdleAir, PcPlaces, LineNumbers
<1>3. CASE Settle("unfit")  BY <1>1, <1>2, <1>3, SettleAgrees
<1>4. CASE run' = [NoRun EXCEPT !.pc = "dropBlob", !.api = "resume", !.then = "ok"]
  <2>1. /\ run'.pc = "dropBlob" /\ run'.then = "ok" /\ run'.tc = "none" /\ run'.held = <<>>
        /\ run'.queue = <<>> /\ run'.broken = "no" /\ run'.ckpt = NoCheckpoint
        /\ run'.rx = NoCheckpoint /\ run'.pend = NoCheckpoint  BY <1>4 DEF NoRun
  <2>. QED  BY <1>1, <1>2, <2>1, NumbersFacts, Ended
<1>5. CASE run' = [NoRun EXCEPT !.pc = "provider", !.api = "resume", !.phase = store.phase,
                                !.session = store.session, !.ckpt = store.ckpt,
                                !.completed = store.phase = "cloud_completed"]
  <2>1. /\ run'.pc = "provider" /\ run'.then = "none" /\ run'.tc = "none" /\ run'.held = <<>>
        /\ run'.queue = <<>> /\ run'.broken = "no" /\ run'.ckpt = store.ckpt
        /\ run'.rx = NoCheckpoint /\ run'.pend = NoCheckpoint  BY <1>5 DEF NoRun
  <2>. QED  BY <1>1, <1>2, <2>1, NumbersFacts, Ended
<1>. QED  BY <1>3, <1>4, <1>5 DEF Resume

LEMMA CancelAgrees == IInv /\ IInv' /\ Line /\ Cancel => Line'
  BY FailAgrees DEF Cancel, durable

\* A step of the host on the store and the body.
LEMMA HostRests ==
  ASSUME IInv, IInv', Line, run.pc \notin Controlled, run'.pc \notin Controlled,
         run'.tc = run.tc,
         run'.held = run.held, run'.queue = run.queue, run'.broken = run.broken,
         Numbered(run'.ckpt), run'.rx = run.rx, run'.pend = run.pend, Numbered(store'.ckpt),
         UNCHANGED radio, link' = link,
         run'.pc \in {"authorize", "open"} => body' = run'.ckpt.off
  PROVE  Line'
<1>1. run.tc = "none" /\ wire.k \notin Requesting  BY IdleAir
<1>2. wire' = wire /\ air' = air /\ dev' = dev  BY DEF radio
<1>3. run'.pc \in {"authorize", "open"} \cup Signing => body' = run'.ckpt.off  BY DEF Controlled
<1>. QED  BY <1>1, <1>2, <1>3, Resting

LEMMA ProvidedAgrees == IInv /\ IInv' /\ Line /\ Provided => Line'
<1>. SUFFICES ASSUME IInv, IInv', Line, Provided  PROVE Line'  OBVIOUS
<1>1. /\ run.pc = "provider" /\ UNCHANGED <<store, body, link, radio>> /\ run \in Runs
      /\ \/ run' = [run EXCEPT !.pc = "saveOperation", !.session = NewSession]
         \/ run' = [run EXCEPT !.pc = "truncate"]
  BY LineFields DEF Provided, durable, Goto
<1>2. /\ run'.pc \in {"saveOperation", "truncate"} /\ run'.then = run.then /\ run'.tc = run.tc
      /\ run'.held = run.held /\ run'.queue = run.queue /\ run'.broken = run.broken
      /\ run'.ckpt = run.ckpt /\ run'.rx = run.rx /\ run'.pend = run.pend  BY <1>1 DEF Runs
<1>. QED  BY <1>1, <1>2, PcPlaces, LineNumbers, HostRests

LEMMA ReplacedAgrees == IInv /\ IInv' /\ Line /\ Replaced => Line'
<1>. SUFFICES ASSUME IInv, IInv', Line, Replaced  PROVE Line'  OBVIOUS
<1>1. /\ run.pc = "provider" /\ UNCHANGED <<body, link, radio>> /\ run \in Runs
      /\ store' = [NoOperation EXCEPT !.phase = "prepared", !.session = NewSession]
      /\ run' = [run EXCEPT !.pc = "truncate", !.phase = "prepared", !.session = NewSession,
                            !.ckpt = NoCheckpoint]
  BY LineFields DEF Replaced
<1>2. /\ run'.pc = "truncate" /\ run'.then = run.then /\ run'.tc = run.tc
      /\ run'.held = run.held /\ run'.queue = run.queue /\ run'.broken = run.broken
      /\ run'.ckpt = NoCheckpoint /\ run'.rx = run.rx /\ run'.pend = run.pend  BY <1>1 DEF Runs
<1>3. store'.ckpt = NoCheckpoint  BY <1>1 DEF NoOperation
<1>. QED  BY <1>1, <1>2, <1>3, PcPlaces, LineNumbers, NumbersFacts, HostRests

LEMMA SaveOperationAgrees == IInv /\ IInv' /\ Line /\ SaveOperation => Line'
<1>. SUFFICES ASSUME IInv, IInv', Line, SaveOperation  PROVE Line'  OBVIOUS
<1>1. CASE Fail("refused") /\ UNCHANGED store  BY <1>1, FailAgrees
<1>2. CASE /\ store' = [NoOperation EXCEPT !.phase = "prepared", !.session = run.session]
           /\ run' = [run EXCEPT !.pc = "transferring", !.phase = "prepared"]
           /\ UNCHANGED radio
  <2>1. run.pc = "saveOperation" /\ run \in Runs /\ link' = link  BY LineFields DEF SaveOperation
  <2>2. /\ run'.pc = "transferring" /\ run'.then = run.then /\ run'.tc = run.tc
        /\ run'.held = run.held /\ run'.queue = run.queue /\ run'.broken = run.broken
        /\ run'.ckpt = run.ckpt /\ run'.rx = run.rx /\ run'.pend = run.pend  BY <1>2, <2>1 DEF Runs
  <2>3. store'.ckpt = NoCheckpoint  BY <1>2 DEF NoOperation
  <2>. QED  BY <1>2, <2>1, <2>2, <2>3, PcPlaces, LineNumbers, NumbersFacts, HostRests
<1>. QED  BY <1>1, <1>2 DEF SaveOperation

LEMMA TruncateAgrees == IInv /\ IInv' /\ Line /\ Truncate => Line'
<1>. SUFFICES ASSUME IInv, IInv', Line, Truncate  PROVE Line'  OBVIOUS
<1>1. CASE Fail("integrity") /\ UNCHANGED <<store, body>>  BY <1>1, FailAgrees
<1>2. ASSUME NEW ckpt \in {run.ckpt, NoCheckpoint}, body' = ckpt.off, SaveState(ckpt, store.evidence),
             run' = [run EXCEPT !.pc = "authorize", !.ckpt = ckpt], UNCHANGED radio
      PROVE  Line'
  <2>1. run.pc = "truncate" /\ run \in Runs /\ link' = link  BY LineFields DEF Truncate
  <2>2. /\ run'.pc = "authorize" /\ run'.then = run.then /\ run'.tc = run.tc
        /\ run'.held = run.held /\ run'.queue = run.queue /\ run'.broken = run.broken
        /\ run'.ckpt = ckpt /\ run'.rx = run.rx /\ run'.pend = run.pend  BY <1>2, <2>1 DEF Runs
  <2>3. store'.ckpt = ckpt /\ Numbered(ckpt)
    BY <1>2, LineFields, LineNumbers, NumbersFacts DEF SaveState, Stores
  <2>. QED  BY <1>2, <2>1, <2>2, <2>3, PcPlaces, LineNumbers, HostRests
<1>. QED  BY <1>1, <1>2 DEF Truncate

LEMMA DeleteCheckpointAgrees == IInv /\ IInv' /\ Line /\ (DeleteCheckpoint \/ TruncateAll) => Line'
<1>. SUFFICES ASSUME IInv, IInv', Line, DeleteCheckpoint \/ TruncateAll  PROVE Line'  OBVIOUS
<1>1. CASE DeleteCheckpoint
  <2>1. run.pc = "restart" /\ Goto("truncate0") /\ link' = link /\ UNCHANGED radio
        /\ store'.ckpt = NoCheckpoint  BY <1>1, LineFields DEF DeleteCheckpoint, SaveState, Stores
  <2>. QED  BY <2>1, GotoSame, PcPlaces, LineNumbers, NumbersFacts, HostRests DEF SameExpected
<1>2. CASE TruncateAll
  <2>1. run.pc = "truncate0" /\ Goto("open") /\ link' = link /\ UNCHANGED radio
        /\ store' = store /\ body' = 0 /\ run.ckpt = NoCheckpoint  BY <1>2 DEF TruncateAll, IInv, Fits
  <2>2. body' = run.ckpt.off  BY <2>1 DEF NoCheckpoint
  <2>. QED  BY <2>1, <2>2, GotoSame, PcPlaces, LineNumbers, HostRests DEF SameExpected
<1>. QED  BY <1>1, <1>2

LEMMA ForgetAgrees == IInv /\ IInv' /\ Line /\ Forget => Line'
<1>. SUFFICES ASSUME IInv, IInv', Line, Forget  PROVE Line'  OBVIOUS
<1>1. /\ run.pc = "forget" /\ link' = link /\ UNCHANGED radio /\ store'.ckpt = NoCheckpoint
      /\ run' = [run EXCEPT !.pc = "dropBlob", !.then = "ok"] /\ run \in Runs
  BY LineFields DEF Forget, SaveState, Stores
<1>2. /\ run'.pc = "dropBlob" /\ run'.then = "ok" /\ run'.tc = run.tc
      /\ run'.held = run.held /\ run'.queue = run.queue /\ run'.broken = run.broken
      /\ run'.ckpt = run.ckpt /\ run'.rx = run.rx /\ run'.pend = run.pend  BY <1>1 DEF Runs
<1>. QED  BY <1>1, <1>2, PcPlaces, LineNumbers, NumbersFacts, HostRests

LEMMA CleansAgree == IInv /\ IInv' /\ Line /\ (Reload \/ DropCheckpoint \/ DropBlob \/ DropOperation) => Line'
<1>. SUFFICES ASSUME IInv, IInv', Line, Reload \/ DropCheckpoint \/ DropBlob \/ DropOperation  PROVE Line'
  OBVIOUS
<1>1. /\ run.pc \in {"reload", "dropCheckpoint", "dropBlob", "dropOperation"} /\ link' = link
      /\ wire' = wire /\ air' = air /\ dev' = dev /\ UNCHANGED radio
  BY DEF Reload, DropCheckpoint, DropBlob, DropOperation, radio
<1>2. store'.ckpt \in {store.ckpt, NoCheckpoint}
  BY LineFields, NumbersFacts DEF Reload, DropCheckpoint, DropBlob, DropOperation, SaveState, Stores, durable
<1>3. CASE Settle(run.then)
  <2>1. /\ wire.k \notin Requesting /\ (link = "up" => Silent(air))  BY <1>1, IdleAir, PcPlaces
  <2>. QED  BY <1>1, <1>2, <1>3, <2>1, LineNumbers, NumbersFacts, SettleAgrees
<1>4. CASE \E pc \in {"dropCheckpoint", "dropBlob", "dropOperation"} : Goto(pc)
  BY <1>1, <1>2, <1>4, GotoSame, PcPlaces, LineNumbers, NumbersFacts, HostRests DEF SameExpected
<1>. QED  BY <1>3, <1>4 DEF Reload, DropCheckpoint, DropBlob, DropOperation

LEMMA ConnectAgrees == IInv /\ IInv' /\ Line /\ Connect => Line'
<1>. SUFFICES ASSUME IInv, IInv', Line, Connect  PROVE Line'  OBVIOUS
<1>1. run.pc = "idle" /\ UNCHANGED <<store, body, run, wire, cloud, left>> /\ air' = <<>>
      /\ dev' = Disconnected  BY DEF Connect, durable
<1>2. run.tc = "none" /\ wire.k \notin Requesting /\ run.held = <<>> /\ run.queue = <<>>
      /\ run.broken = "no"  BY <1>1, PcPlaces, Uncontrolled, Unexpecting
<1>3. dev'.num = dev.num  BY <1>1, LineFields DEF Disconnected, Devices
<1>4. Numbers'  BY <1>1, <1>3 DEF Line, Numbers
<1>. QED  BY <1>1, <1>2, <1>4, LineNumbers, NoRequest, PcPlaces, Rests

-----------------------------------------------------------------------------
(* The phases of the journal *)

\* A step from where the recording is whole to where it still is.
LEMMA WholeSteps ==
  ASSUME IInv, IInv', Line, SameExpected, run.pc \in Whole, run'.pc \in Whole,
         run'.ckpt = run.ckpt, run'.pend = run.pend, Numbered(store'.ckpt),
         body' = body, UNCHANGED radio, link' = link
  PROVE  Line'
<1>1. /\ run.pc \notin {"opening"} \cup Receiving \cup Stopped \cup Confirming \cup Signing
      /\ run'.pc \notin {"opening"} \cup Receiving \cup Stopped \cup Confirming \cup Signing
      /\ run'.pc \in Controlled
      /\ run'.pc \notin {"repair", "save", "ack", "opening", "replaying", "authorize", "open"}
      /\ run.pc \notin {"repair", "save", "ack", "opening", "replaying", "receive", "repairing"}
  BY DEF Controlled, Receiving, Stopped, Whole, Confirming, Signing
<1>2. run.held = <<>> /\ Places(run)  BY <1>1 DEF Line, Heeds
<1>3. Places(run)'  BY <1>1, <1>2 DEF Places, Receiving, SameExpected
<1>4. Heeds(run)'  BY <1>1, <1>2, <1>3, HeedsKept DEF SameExpected
<1>5. Stages'  BY <1>1 DEF Line, Stages, SameExpected
<1>. QED  BY <1>4, <1>5, LineNumbers, Steady DEF radio

LEMMA PhasesAgree == IInv /\ IInv' /\ Line /\ (Transferring \/ Staged \/ Uploading \/ CloudCompleted) => Line'
<1>. SUFFICES ASSUME IInv, IInv', Line, NEW at, NEW phase, NEW pc, SavePhase(at, phase, pc),
                     \/ at = "transferring" /\ pc = "truncate"
                     \/ {at, pc} \subseteq Whole
              PROVE  Line'
  BY DEF Transferring, Staged, Uploading, CloudCompleted, Whole
<1>1. CASE Fail("refused") /\ UNCHANGED store  BY <1>1, FailAgrees
<1>2. CASE ~(Fail("refused") /\ UNCHANGED store)
  <2>1. /\ run.pc = at /\ UNCHANGED radio /\ link' = link /\ body' = body /\ run \in Runs
        /\ store'.ckpt = store.ckpt  BY <1>2, LineFields DEF SavePhase, Stores
  <2>2. run' = [run EXCEPT !.pc = pc] \/ run' = [run EXCEPT !.pc = pc, !.phase = phase]
    BY <1>2 DEF SavePhase, Goto
  <2>3. SameExpected /\ run'.pc = pc /\ run'.ckpt = run.ckpt /\ run'.pend = run.pend
    BY <2>1, <2>2 DEF Runs, SameExpected
  <2>4. CASE at = "transferring" /\ pc = "truncate"
    BY <2>1, <2>3, <2>4, PcPlaces, LineNumbers, HostRests DEF SameExpected
  <2>5. CASE {at, pc} \subseteq Whole  BY <2>1, <2>3, <2>5, LineNumbers, WholeSteps
  <2>. QED  BY <2>4, <2>5
<1>. QED  BY <1>1, <1>2

LEMMA ServiceAgrees == IInv /\ IInv' /\ Line /\ (Evidence \/ Put \/ SubmitManifest \/ Finalize \/ Receipt) => Line'
<1>. SUFFICES ASSUME IInv, IInv', Line, Evidence \/ Put \/ SubmitManifest \/ Finalize \/ Receipt  PROVE Line'
  OBVIOUS
<1>1. CASE Evidence
  <2>1. /\ run.pc = "evidence" /\ UNCHANGED <<body, link, radio>> /\ store'.ckpt = run.ckpt
        /\ \E pc \in {"receipt", "staged"} : Goto(pc)  BY <1>1, LineFields DEF Evidence, SaveState, Stores
  <2>2. PICK pc \in {"receipt", "staged"} : Goto(pc)  BY <2>1
  <2>. QED  BY <2>1, <2>2, GotoSame, LineNumbers, WholeSteps DEF Whole
<1>2. CASE Put \/ SubmitManifest \/ Finalize \/ Receipt
  <2>1. /\ run.pc \in {"put", "manifest", "finalize", "receipt"} /\ UNCHANGED <<store, body, link, radio>>
        /\ \E pc \in {"manifest", "finalize", "receipt", "cloud"} : Goto(pc)
    BY <1>2 DEF Put, SubmitManifest, Finalize, Receipt, durable
  <2>2. PICK pc \in {"manifest", "finalize", "receipt", "cloud"} : Goto(pc)  BY <2>1
  <2>. QED  BY <2>1, <2>2, GotoSame, LineNumbers, WholeSteps DEF Whole
<1>. QED  BY <1>1, <1>2

-----------------------------------------------------------------------------
(* The writer of signed documents, and the faults *)

\* The writer moves on.
LEMMA WriterAgrees ==
  ASSUME IInv, IInv', Line, SameExpected, run.pc \in Signing, run'.pc \in Signing,
         run'.blob = run.blob, run'.ckpt = run.ckpt, run'.pend = run.pend, air' = air,
         UNCHANGED <<store, body, link>>, dev'.num = dev.num, dev'.base = dev.base,
         wire' = wire \/ wire'.k \notin Requesting
  PROVE  Line'
<1>1. /\ run.pc \notin {"opening"} \cup Receiving \cup Stopped \cup Confirming \cup Whole
      /\ run'.pc \notin {"opening"} \cup Receiving \cup Stopped \cup Confirming \cup Whole
      /\ run'.pc \in Controlled
      /\ run'.pc \notin {"repair", "save", "ack", "opening", "replaying", "authorize", "open"}
      /\ run.pc \notin {"repair", "save", "ack", "opening", "replaying", "receive", "repairing",
                        "acking", "confirming"}
  BY DEF Controlled, Receiving, Stopped, Whole, Confirming, Signing
<1>2. run.held = <<>> /\ Places(run)  BY <1>1 DEF Line, Heeds
<1>3. Places(run)'  BY <1>1, <1>2 DEF Places, Receiving, SameExpected
<1>4. Heeds(run)'  BY <1>1, <1>2, <1>3, HeedsKept DEF SameExpected
<1>5. Stages'  BY <1>1 DEF Line, Stages, SameExpected
<1>6. wire.k \notin Requesting /\ run.tc \notin {"awaiting_control", "control_pending"}
  <2>1. wire.k \notin Requesting  BY <1>1 DEF IInv, Asks, Requesting
  <2>2. run.tc \in {"none", "terminal"}  BY <1>2 DEF Places
  <2>. QED  BY <2>1, <2>2
<1>. QED  BY <1>4, <1>5, <1>6, LineNumbers, Steady

LEMMA StartBlobAgrees ==
  ASSUME IInv, IInv', Line,
         \/ StartBlob("authorize", "auth")
         \/ StartBlob("deliver", "receipt")
  PROVE  Line'
<1>1. PICK kind \in {"auth", "receipt"} :
        /\ StartBlob(IF kind = "auth" THEN "authorize" ELSE "deliver", kind)  OBVIOUS
<1>2. /\ run.pc = (IF kind = "auth" THEN "authorize" ELSE "deliver")
      /\ UNCHANGED <<store, body, link, radio, cloud, left>> /\ run \in Runs
      /\ run' = [run EXCEPT !.pc = "signing", !.sent = 0, !.result = "none",
                            !.blob = [k |-> kind, id |-> FreshId, session |-> run.session]]
  BY <1>1, LineFields DEF StartBlob, durable
<1>3. SameExpected /\ run'.pc = "signing" /\ run'.blob.k = kind /\ run'.ckpt = run.ckpt
      /\ run'.pend = run.pend  BY <1>2 DEF Runs, SameExpected
<1>4. /\ "signing" \in Signing /\ "signing" \in Controlled
      /\ "signing" \notin {"opening"} \cup Receiving \cup Stopped \cup Confirming \cup Whole
      /\ "authorize" \notin Controlled \cup {"receive", "repairing", "opening", "replaying"}
      /\ "deliver" \in Whole
      /\ "deliver" \notin {"receive", "repairing", "opening", "replaying", "save", "ack", "repair"} \cup Signing
  BY DEF Controlled, Receiving, Stopped, Whole, Confirming, Signing
<1>5. run.held = <<>> /\ Places(run)  BY <1>2, <1>4 DEF Line, Heeds
<1>6. run.tc = (IF kind = "auth" THEN "none" ELSE "terminal") /\ run.queue = <<>>
  BY <1>2, <1>4, <1>5 DEF Places
<1>7. Places(run)'  BY <1>3, <1>4, <1>6 DEF Places, Receiving, SameExpected
<1>8. Heeds(run)'  BY <1>2, <1>3, <1>4, <1>5, <1>7, HeedsKept DEF SameExpected
<1>9. Stages'  BY <1>2, <1>3, <1>6 DEF Line, Stages, SameExpected
<1>. QED  BY <1>2, <1>3, <1>8, <1>9, LineNumbers, Steady DEF radio

LEMMA WritesAgree == IInv /\ IInv' /\ Line /\ (SendBlob \/ CommitBlob \/ Committed) => Line'
<1>. SUFFICES ASSUME IInv, IInv', Line, SendBlob \/ CommitBlob \/ Committed  PROVE Line'  OBVIOUS
<1>1. run \in Runs /\ "signing" \in Signing /\ "committing" \in Signing /\ "result" \in Signing
  BY LineFields DEF Signing
<1>2. CASE SendBlob
  <2>1. /\ run.pc = "signing" /\ UNCHANGED <<store, body, link, air, dev>>
        /\ wire' = [Nothing EXCEPT !.k = "blob"] /\ run' = [run EXCEPT !.sent = @ + 1]
    BY <1>2 DEF SendBlob, durable
  <2>2. wire'.k \notin Requesting  BY <2>1 DEF Nothing, Requesting
  <2>3. SameExpected /\ run'.pc = run.pc /\ run'.blob = run.blob /\ run'.ckpt = run.ckpt
        /\ run'.pend = run.pend  BY <1>1, <2>1 DEF Runs, SameExpected
  <2>. QED  BY <1>1, <2>1, <2>2, <2>3, WriterAgrees
<1>3. CASE CommitBlob
  <2>1. /\ run.pc = "signing" /\ UNCHANGED <<store, body, link, air, dev>>
        /\ wire' = [Nothing EXCEPT !.k = "commit"] /\ Goto("committing")  BY <1>3 DEF CommitBlob, durable
  <2>2. wire'.k \notin Requesting  BY <2>1 DEF Nothing, Requesting
  <2>. QED  BY <1>1, <2>1, <2>2, GotoSame, WriterAgrees
<1>4. CASE Committed
  <2>1. /\ run.pc = "committing" /\ UNCHANGED <<store, body, link, air, dev, wire>> /\ Goto("result")
    BY <1>4 DEF Committed, durable, radio
  <2>. QED  BY <1>1, <2>1, GotoSame, WriterAgrees
<1>. QED  BY <1>2, <1>3, <1>4

\* The document is with the device: the authorization, or the receipt.
LEMMA BlobSentAgrees == IInv /\ IInv' /\ Line /\ BlobSent => Line'
<1>. SUFFICES ASSUME IInv, IInv', Line, BlobSent  PROVE Line'  OBVIOUS
<1>1. CASE Fail("rejected")  BY <1>1, FailAgrees DEF BlobSent, durable
<1>2. CASE ~Fail("rejected")
  <2>. DEFINE pc == IF run.blob.k = "auth" THEN "open" ELSE "confirm"
  <2>1. /\ run.pc = "result" /\ UNCHANGED <<store, body, link, radio>> /\ run \in Runs
        /\ run' = [run EXCEPT !.pc = pc, !.blob = NoBlob, !.sent = 0, !.result = "none"]
    BY <1>2, LineFields DEF BlobSent, durable
  <2>2. SameExpected /\ run'.pc = pc /\ run'.ckpt = run.ckpt /\ run'.pend = run.pend
    BY <2>1 DEF Runs, SameExpected
  <2>3. /\ "result" \in Signing /\ "confirm" \in Whole /\ "confirm" \in Controlled
        /\ "open" \notin Controlled
        /\ "confirm" \notin {"opening", "authorize", "open"} \cup Receiving \cup Stopped \cup Confirming \cup Signing
        /\ "result" \notin {"opening", "replaying", "receive", "repairing"}
    BY DEF Controlled, Receiving, Stopped, Whole, Confirming, Signing
  <2>4. run.held = <<>> /\ Places(run)  BY <2>1, <2>3 DEF Line, Heeds
  <2>5. run.tc = (IF run.blob.k = "auth" THEN "none" ELSE "terminal") /\ run.queue = <<>>
    BY <2>1, <2>3, <2>4 DEF Places
  <2>6. Stages  BY DEF Line
  <2>7. CASE run.blob.k = "auth"
    <3>1. body = run.ckpt.off  BY <2>1, <2>3, <2>5, <2>6, <2>7 DEF Stages
    <3>2. run.tc = "none" /\ wire.k \notin Requesting  BY <2>5, <2>7, Unexpecting
    <3>3. run'.pc = "open" /\ run'.pc \notin Signing /\ air' = air /\ dev' = dev /\ wire' = wire
      BY <2>1, <2>2, <2>7 DEF Signing, radio
    <3>. QED  BY <2>1, <2>2, <2>3, <3>1, <3>2, <3>3, LineNumbers, Resting DEF SameExpected
  <2>8. CASE run.blob.k # "auth"
    <3>1. run'.pc = "confirm" /\ run.tc = "terminal"  BY <2>2, <2>5, <2>8
    <3>2. Places(run)'  BY <2>2, <2>3, <2>5, <3>1 DEF Places, Receiving, SameExpected
    <3>3. Heeds(run)'  BY <2>1, <2>2, <2>3, <2>4, <3>1, <3>2, HeedsKept DEF SameExpected
    <3>4. Stages'  BY <2>1, <2>2, <2>3, <2>6, <3>1 DEF Stages, SameExpected
    <3>. QED  BY <2>1, <2>2, <3>3, <3>4, LineNumbers, Steady DEF radio
  <2>. QED  BY <2>7, <2>8
<1>. QED  BY <1>1, <1>2

\* The device takes a write, or verifies a document.
LEMMA DeviceDocuments ==
  IInv /\ IInv' /\ Line /\ (DeviceBuffers \/ DeviceCommits \/ DeviceConfirms) => Line'
<1>. SUFFICES ASSUME IInv, IInv', Line, DeviceBuffers \/ DeviceCommits \/ DeviceConfirms  PROVE Line'
  OBVIOUS
<1>1. /\ wire.k \in {"blob", "commit", "confirm"} /\ wire' = Nothing
      /\ UNCHANGED <<store, body, run, link, air>>
  BY DEF DeviceBuffers, DeviceCommits, DeviceConfirms, Answers, durable
<1>2. dev'.num = dev.num /\ dev'.base = dev.base
  BY LineFields DEF DeviceBuffers, DeviceCommits, DeviceConfirms, Devices
<1>3. SameExpected /\ Heeds(run)' /\ Stages'
  BY <1>1 DEF Line, SameExpected, Heeds, Places, Queued, Wanted, Counts, Stages
<1>4. run.tc \notin {"awaiting_control", "control_pending"}
  <2>1. run.pc \in {"signing", "committing", "confirming"} /\ Places(run)
    BY <1>1 DEF IInv, Asks, Line, Heeds
  <2>. QED  BY <2>1 DEF Places, Signing, Confirming
<1>5. wire.k \notin Requesting /\ wire'.k \notin Requesting  BY <1>1, NoRequest DEF Requesting
<1>. QED  BY <1>1, <1>2, <1>3, <1>4, <1>5, LineNumbers, Steady

LEMMA ResultsAgree == IInv /\ IInv' /\ Line /\ (DeviceVerifies \/ DeviceRefuses) => Line'
<1>. SUFFICES ASSUME IInv, IInv', Line, DeviceVerifies \/ DeviceRefuses  PROVE Line'  OBVIOUS
<1>1. UNCHANGED <<store, body, run, link, wire>> /\ dev.signed.k # "none"
      /\ (Result("signed") \/ Result("refused"))  BY DEF DeviceVerifies, DeviceRefuses, durable
<1>2. dev'.num = dev.num /\ dev'.base = dev.base
  <2>1. dev \in Devices /\ dev.signed.k \in {"none", "auth", "receipt"}
    BY LineFields, DeviceFields, BlobFields
  <2>. QED  BY <1>1, <2>1 DEF DeviceVerifies, DeviceRefuses, Devices
<1>3. \E f \in FrameSet : f.k \in Results /\ air' = Append(air, f)
  <2>1. PICK k \in {"signed", "refused"} : Result(k)  BY <1>1
  <2>. DEFINE f == [NoFrame EXCEPT !.k = k, !.seq = dev.signed.id]
  <2>2. f \in FrameSet /\ f.k = k
    <3>1. dev.signed.id \in Int  BY LineFields, DeviceFields, BlobFields
    <3>. QED  BY <3>1, EmptyTypes DEF NoFrame, FrameSet, FrameKinds
  <2>3. air' = Append(air, f)  BY <2>1 DEF Result
  <2>. HIDE DEF f
  <2>. QED  BY <2>2, <2>3 DEF Results
<1>4. SameExpected  BY <1>1 DEF SameExpected
<1>. QED  BY <1>1, <1>2, <1>3, <1>4, AirAgrees

LEMMA DeliverResultAgrees == IInv /\ IInv' /\ Line /\ (DeliverResult \/ Lose) => Line'
<1>. SUFFICES ASSUME IInv, IInv', Line, DeliverResult \/ Lose  PROVE Line'  OBVIOUS
<1>1. /\ UNCHANGED <<store, body, link, wire, dev>> /\ air # <<>> /\ air' = Tail(air)
      /\ Head(air).k \in Results \cup {"data", "manifest"}  BY DEF DeliverResult, Lose, durable, Results
<1>2. run' = run \/ run' = [run EXCEPT !.result = Head(air).k]  BY DEF DeliverResult, Lose
<1>3. /\ SameExpected /\ run'.pc = run.pc /\ run'.blob = run.blob /\ run'.ckpt = run.ckpt
      /\ run'.pend = run.pend  BY <1>2, LineFields DEF Runs, SameExpected
<1>. QED  BY <1>1, <1>3, AirAgrees

\* Where a run ends, what was wrong is nothing that host and device disagree on.
LEMMA FaultsAgree ==
  IInv /\ IInv' /\ Line /\ (StorageFails \/ BlobFails \/ BlobTimesOut \/ ProviderFails \/ FlushFails) => Line'
<1>. SUFFICES ASSUME IInv, IInv', Line,
                     StorageFails \/ BlobFails \/ BlobTimesOut \/ ProviderFails \/ FlushFails
              PROVE  Line'
  OBVIOUS
<1>1. (Fail("error") \/ Fail("timeout")) /\ store' = store
  BY DEF StorageFails, BlobFails, BlobTimesOut, ProviderFails, FlushFails, durable
<1>. QED  BY <1>1, FailAgrees

LEMMA PumpFailsAgrees == IInv /\ IInv' /\ Line /\ PumpFails => Line'
<1>. SUFFICES ASSUME IInv, IInv', Line, PumpFails  PROVE Line'  OBVIOUS
<1>1. run.broken = "lossy" /\ Fail(run.broken) /\ store' = store  BY DEF PumpFails, durable, Line, Heeds
<1>. QED  BY <1>1, FailAgrees

LEMMA StopsAgree ==
  IInv /\ IInv' /\ Line /\ (CleanupFails \/ ConfirmUncertain \/ BlobAbortFails \/ ReleaseFails) => Line'
<1>. SUFFICES ASSUME IInv, IInv', Line,
                     CleanupFails \/ ConfirmUncertain \/ BlobAbortFails \/ ReleaseFails
              PROVE  Line'
  OBVIOUS
<1>1. Numbered(store.ckpt)  BY LineNumbers
<1>2. CASE CleanupFails
  <2>1. /\ run.pc \in Cleaning /\ UNCHANGED <<store, body, link, wire, air, dev>>
        /\ Settle(IF run.then = "ok" THEN "error" ELSE run.then)  BY <1>2 DEF CleanupFails, durable, radio
  <2>2. /\ wire.k \notin Requesting /\ (link = "up" => Silent(air))  BY <2>1, IdleAir, PcPlaces DEF Cleaning
  <2>. QED  BY <1>1, <2>1, <2>2, SettleAgrees
<1>3. CASE ConfirmUncertain
  <2>1. /\ link' = "poisoned" /\ Settle("uncertain") /\ wire' = Nothing
        /\ UNCHANGED <<store, body, air, dev>>  BY <1>3 DEF ConfirmUncertain, durable
  <2>. QED  BY <1>1, <2>1, NoRequest, SettleAgrees
<1>4. CASE BlobAbortFails \/ ReleaseFails
  <2>1. /\ link' = "poisoned" /\ wire' = Nothing /\ UNCHANGED <<store, body, air, dev>>
        /\ \E e \in {"uncertain", "cancelled"} : run' = Failed(e)
    BY <1>4 DEF BlobAbortFails, ReleaseFails, Poisons, durable
  <2>2. PICK e \in {"uncertain", "cancelled"} : run' = Failed(e)  BY <2>1
  <2>3. /\ run'.pc \in {"idle", "reload"} /\ run'.then = e /\ run'.tc = "none" /\ run'.held = <<>>
        /\ run'.queue = <<>> /\ run'.broken = "no" /\ run'.ckpt = NoCheckpoint
        /\ run'.rx = NoCheckpoint /\ run'.pend = NoCheckpoint  BY <2>2, FailedRun
  <2>. QED  BY <1>1, <2>1, <2>2, <2>3, NoRequest, NumbersFacts, Ended
<1>. QED  BY <1>2, <1>3, <1>4

LEMMA ReloadPageAgrees == IInv /\ IInv' /\ Line /\ ReloadPage => Line'
<1>. SUFFICES ASSUME IInv, IInv', Line, ReloadPage  PROVE Line'  OBVIOUS
<1>1. /\ run' = NoRun /\ wire' = Nothing /\ air' = <<>> /\ dev' = Disconnected /\ store' = store
      /\ link' = "down"  BY DEF ReloadPage, durable
<1>2. dev'.num = dev.num  BY <1>1, LineFields DEF Disconnected, Devices
<1>. QED  BY <1>1, <1>2, LineNumbers, NoRequest, NumbersFacts, Ended

\* The link drops: what was under way is gone, a confirmation that is saved is not.
LEMMA LinkDropsAgrees == IInv /\ IInv' /\ Line /\ LinkDrops => Line'
<1>. SUFFICES ASSUME IInv, IInv', Line, LinkDrops  PROVE Line'  OBVIOUS
<1>1. /\ wire' = Nothing /\ air' = <<>> /\ dev' = Disconnected /\ store' = store /\ body' = body
      /\ link' = "down" /\ run \in Runs  BY LineFields DEF LinkDrops, durable
<1>2. dev'.num = dev.num  BY <1>1, LineFields DEF Disconnected, Devices
<1>3. CASE run' = Failed("error")
  <2>1. /\ run'.pc \in {"idle", "reload"} /\ run'.then = "error" /\ run'.tc = "none"
        /\ run'.held = <<>> /\ run'.queue = <<>> /\ run'.broken = "no" /\ run'.ckpt = NoCheckpoint
        /\ run'.rx = NoCheckpoint /\ run'.pend = NoCheckpoint  BY <1>3, FailedRun
  <2>. QED  BY <1>1, <1>2, <2>1, LineNumbers, NoRequest, NumbersFacts, Ended
<1>4. CASE run.pc \in Cleaning \cup {"idle", "forget"} /\ run' \in {run, [run EXCEPT !.lost = TRUE]}
  <2>1. run.pc \notin Controlled /\ run.pc \notin {"authorize", "open"} \cup Signing
    BY <1>4, PcPlaces DEF Cleaning
  <2>2. run.tc = "none" /\ run.held = <<>> /\ run.queue = <<>> /\ run.broken = "no"
    BY <2>1, Uncontrolled, Unexpecting
  <2>3. /\ run'.pc = run.pc /\ run'.then = run.then /\ run'.tc = run.tc /\ run'.held = run.held
        /\ run'.queue = run.queue /\ run'.broken = run.broken /\ run'.ckpt = run.ckpt
        /\ run'.rx = run.rx /\ run'.pend = run.pend  BY <1>1, <1>4 DEF Runs
  <2>4. Numbers'  BY <1>1, <1>2, <2>3 DEF Line, Numbers
  <2>. QED  BY <1>1, <2>1, <2>2, <2>3, <2>4, LineNumbers, NoRequest, Rests
<1>5. CASE run.pc = "confirmed" /\ run' = [run EXCEPT !.lost = TRUE]
  <2>1. SameExpected /\ run'.pc = run.pc /\ run'.ckpt = run.ckpt /\ run'.pend = run.pend
        /\ run'.blob = run.blob  BY <1>1, <1>5 DEF Runs, SameExpected
  <2>2. /\ "confirmed" \in Confirming /\ "confirmed" \in Controlled
        /\ "confirmed" \notin {"opening", "authorize", "open"} \cup Receiving \cup Stopped \cup Whole \cup Signing
    BY DEF Controlled, Receiving, Stopped, Whole, Confirming, Signing
  <2>3. Heeds(run) /\ run.tc = "confirming" /\ run.held = <<>> /\ Places(run)
    BY <1>5, <2>2 DEF Line, Heeds, Places, Receiving
  <2>4. Heeds(run)'
    <3>1. Places(run)'  BY <1>5, <2>1, <2>2, <2>3 DEF Places, Receiving, SameExpected
    <3>2. run.pc \notin {"receive", "repairing", "repair", "save", "ack", "opening", "replaying"}  BY <1>5
    <3>. QED  BY <2>1, <2>3, <3>1, <3>2, HeedsKept DEF SameExpected
  <2>5. Coming' = <<>>
    <3>1. <<>> \in Seq(FrameSet)  OBVIOUS
    <3>. QED  BY <1>1, <2>1, <2>3, <3>1, ConcatEmptySeq DEF Coming, SameExpected
  <2>6. Numbers' /\ Stages'  BY <1>1, <1>2, <1>5, <2>1, <2>2, <2>3 DEF Line, Numbers, Stages, SameExpected
  <2>7. Asked' /\ Based' /\ Travels'
    BY <1>1, <2>1, <2>3, <2>5, NoRequest DEF Asked, Based, Travels, Due, SameExpected, Requesting
  <2>. QED  BY <2>1, <2>4, <2>6, <2>7, LineNumbers DEF Line, SameExpected
<1>. QED  BY <1>3, <1>4, <1>5 DEF LinkDrops

-----------------------------------------------------------------------------
(* The device answers *)

LEMMA FirstThen ==
  ASSUME NEW f \in FrameSet, NEW s \in Seq(FrameSet)
  PROVE  <<f>> \o s # <<>> /\ Head(<<f>> \o s) = f /\ Tail(<<f>> \o s) = s
<1>. DEFINE o == <<f>>
            t == o \o s
<1>1. o \in Seq(FrameSet) /\ Len(o) = 1 /\ o[1] = f  OBVIOUS
<1>. HIDE DEF o
<1>2. t \in Seq(FrameSet) /\ Len(t) = 1 + Len(s) /\ Len(s) \in Nat
      /\ \A i \in 1 .. 1 + Len(s) : t[i] = IF i <= 1 THEN o[i] ELSE s[i - 1]
  <2>1. /\ o \o s \in Seq(FrameSet) /\ Len(o \o s) = Len(o) + Len(s)
        /\ \A i \in 1 .. Len(o) + Len(s) :
              (o \o s)[i] = IF i <= Len(o) THEN o[i] ELSE s[i - Len(o)]
    BY <1>1, ConcatProperties
  <2>2. Len(s) \in Nat  BY LenProperties
  <2>. QED  BY <1>1, <2>1, <2>2
<1>. HIDE DEF t
<1>3. t # <<>>  BY <1>2, EmptySeq
<1>4. Head(t) = t[1] /\ Tail(t) \in Seq(FrameSet) /\ Len(Tail(t)) = Len(t) - 1
      /\ \A i \in 1 .. Len(Tail(t)) : Tail(t)[i] = t[i + 1]  BY <1>2, <1>3, HeadTailProperties
<1>5. Head(t) = f  BY <1>1, <1>2, <1>4
<1>6. Len(Tail(t)) = Len(s)  BY <1>2, <1>4
<1>7. ASSUME NEW i \in 1 .. Len(s)  PROVE Tail(t)[i] = s[i]
  <2>1. i + 1 \in 1 .. 1 + Len(s) /\ ~(i + 1 <= 1) /\ i + 1 - 1 = i  BY <1>2
  <2>2. t[i + 1] = s[i]  BY <1>2, <2>1
  <2>3. Tail(t)[i] = t[i + 1]  BY <1>4, <1>6
  <2>. QED  BY <2>2, <2>3
<1>8. Tail(t) = s  BY <1>4, <1>6, <1>7, SeqEqual
<1>. QED  BY <1>3, <1>5, <1>8 DEF t, o

\* An answer: nothing is asked any more.
LEMMA Answering ==
  ASSUME IInv', Line, UNCHANGED <<store, body, run, link>>, wire' = Nothing,
         Based', Travels'
  PROVE  Line'
<1>1. Heeds(run)' /\ Stages'  BY DEF Line, Heeds, Places, Queued, Wanted, Counts, Stages
<1>2. Numbers' /\ Asked'  BY NoRequest DEF Line, Numbers, Asked
<1>. QED  BY <1>1, <1>2 DEF Line

\* The answer to the request that opens a transfer.
LEMMA OpeningAnswered ==
  ASSUME IInv, IInv', Line, UNCHANGED <<store, body, run, link>>, wire.k \in {"start", "resume"},
         wire' = Nothing,
         NEW f \in FrameSet, NEW s \in Seq(FrameSet), air' = <<f>> \o s,
         \/ f.k \in Replies /\ dev'.base = wire.off /\ dev'.num = 0 /\ s = Frames(wire.off, 0)
         \/ f.k \in Rejections /\ s = <<>>
  PROVE  Line'
<1>1. run.tc = "awaiting_control" /\ run.rx.off = wire.off /\ Heeds(run)  BY DEF Line, Asked
<1>2. /\ wire.off \in 0 .. Units  BY <1>1, LineFields
<1>3. air' # <<>> /\ Head(air') = f /\ Tail(air') = s  BY FirstThen
<1>4. Replying(f, s, run.rx.off)'  BY <1>1, <1>2, FramesRound, NoRequest DEF Replying, Replies, Rejections
<1>5. Based' /\ Travels'  BY <1>1, <1>3, <1>4 DEF Based, Travels, Due
<1>. QED  BY <1>5, Answering

LEMMA OpeningsAgree ==
  IInv /\ IInv' /\ Line /\ (DeviceStarts \/ DeviceRejects) => Line'
<1>. SUFFICES ASSUME IInv, IInv', Line, DeviceStarts \/ DeviceRejects  PROVE Line'  OBVIOUS
<1>1. /\ wire.k \in {"start", "resume"} /\ wire' = Nothing /\ UNCHANGED <<store, body, run, link>>
      /\ dev \in Devices /\ dev.acked \in 0 .. Units /\ wire.off \in 0 .. Units
      /\ 0 \in 0 .. Units
  <2>1. wire.k \in {"start", "resume"} /\ wire' = Nothing /\ UNCHANGED <<store, body, run, link>>
    BY DEF DeviceStarts, DeviceRejects, Answers, durable
  <2>2. dev \in Devices /\ TypeOK  BY LineFields
  <2>3. dev.acked \in 0 .. Units  BY <2>2 DEF Devices
  <2>4. wire.off \in 0 .. Units  BY <2>2, Fields
  <2>5. 0 \in 0 .. Units  BY ConstantTypes
  <2>. QED  BY <2>1, <2>2, <2>3, <2>4, <2>5
<1>2. \A k \in FrameKinds, n \in 0 .. Units :
         LET f == [NoFrame EXCEPT !.k = k, !.off = n] IN f \in FrameSet /\ f.k = k
  BY EmptyTypes DEF NoFrame, FrameSet
<1>3. \A k \in FrameKinds : LET f == [NoFrame EXCEPT !.k = k] IN f \in FrameSet /\ f.k = k
  BY EmptyTypes DEF NoFrame, FrameSet
<1>4. /\ "start_ack" \in FrameKinds /\ "resume_accept" \in FrameKinds /\ "resume_reject" \in FrameKinds
      /\ "error" \in FrameKinds  BY DEF FrameKinds
<1>5. \A n \in 0 .. Units : Frames(n, 0) \in Seq(FrameSet)  BY FramesRound
<1>6. ASSUME NEW f \in FrameSet, f.k = "error" \/ f.k = "resume_reject", air' = <<f>>, dev' = dev
      PROVE  Line'
  <2>1. <<>> \in Seq(FrameSet) /\ <<f>> \in Seq(FrameSet)  OBVIOUS
  <2>2. <<f>> = <<f>> \o <<>>  BY <2>1, ConcatEmptySeq
  <2>. QED  BY <1>1, <1>6, <2>1, <2>2, OpeningAnswered DEF Rejections
<1>7. CASE DeviceStarts
  <2>. DEFINE f == [NoFrame EXCEPT !.k = "start_ack"]
              e == [NoFrame EXCEPT !.k = "error"]
  <2>1. f \in FrameSet /\ f.k = "start_ack" /\ e \in FrameSet /\ e.k = "error"  BY <1>3, <1>4
  <2>2. wire.k = "start" /\ wire.off = 0  BY <1>7 DEF DeviceStarts, Answers, Line, Asked
  <2>3. CASE air' = <<f>> \o Frames(0, 0) /\ dev' = [dev EXCEPT !.mode = "open", !.base = 0, !.num = 0, !.acked = 0]
    <3>. HIDE DEF f
    <3>1. dev'.num = 0 /\ dev'.base = wire.off  BY <1>1, <2>2, <2>3 DEF Devices
    <3>. QED  BY <1>1, <1>5, <2>1, <2>2, <2>3, <3>1, OpeningAnswered DEF Replies
  <2>4. CASE air' = <<e>> /\ dev' = dev
    <3>. HIDE DEF e
    <3>. QED  BY <1>6, <2>1, <2>4
  <2>. QED  BY <1>7, <2>3, <2>4 DEF DeviceStarts
<1>8. CASE DeviceRejects
  <2>. DEFINE f == [NoFrame EXCEPT !.k = "resume_reject", !.off = dev.acked]
              e == [NoFrame EXCEPT !.k = "error"]
  <2>1. f \in FrameSet /\ f.k = "resume_reject" /\ e \in FrameSet /\ e.k = "error"
    BY <1>1, <1>2, <1>3, <1>4
  <2>2. (air' = <<f>> \/ air' = <<e>>) /\ dev' = dev  BY <1>8 DEF DeviceRejects
  <2>. HIDE DEF f, e
  <2>. QED  BY <1>6, <2>1, <2>2
<1>. QED  BY <1>7, <1>8

LEMMA DeviceRepairsAgrees == IInv /\ IInv' /\ Line /\ DeviceRepairs => Line'
<1>. SUFFICES ASSUME IInv, IInv', Line, DeviceRepairs  PROVE Line'  OBVIOUS
<1>1. /\ wire.k = "repair" /\ wire' = Nothing /\ UNCHANGED <<store, body, run, link, dev>>
      /\ air' = WindowFrames(dev.base, dev.num, SetToSeq(wire.miss))
      /\ wire.miss \in SUBSET Int /\ IsFiniteSet(wire.miss)
  BY LineNumbers, LineFields, Fields DEF DeviceRepairs, Answers, durable
<1>2. run.pc = "repairing" /\ run.tc = "repair" /\ wire.miss = run.repair /\ dev.base = run.rx.off
      /\ run.rx.off \in 0 .. Units /\ dev.num = 0  BY <1>1, LineFields DEF IInv, Asks, Line, Asked, Based
<1>3. run.held = <<>>  BY <1>2 DEF Line, Heeds
<1>4. Coming' = air'
  <2>1. air' \in Seq(FrameSet)  BY DEF IInv, TypeOK, RadioOK
  <2>. QED  BY <1>1, <1>3, <2>1, ConcatEmptySeq DEF Coming
<1>5. run.broken = "no" => Ends(air', EndOf(run.rx.off), "data", run.repair) /\ Once(air')
  <2>. SUFFICES ASSUME run.broken = "no"
                PROVE  Ends(air', EndOf(run.rx.off), "data", run.repair) /\ Once(air')
    OBVIOUS
  <2>1. run.rx.off # Units  BY <1>2, ConstantTypes DEF Line, Heeds, Counts
  <2>. QED  BY <1>1, <1>2, <2>1, RepairFrames
<1>6. Travels' /\ Based'  BY <1>1, <1>2, <1>4, <1>5 DEF Travels, Based, Due
<1>. QED  BY <1>1, <1>6, Answering

LEMMA DeviceAdvancesAgrees == IInv /\ IInv' /\ Line /\ DeviceAdvances => Line'
<1>. SUFFICES ASSUME IInv, IInv', Line, DeviceAdvances  PROVE Line'  OBVIOUS
<1>1. /\ wire.k = "ack" /\ wire' = Nothing /\ UNCHANGED <<store, body, run, link>>
      /\ air' = Frames(wire.off, dev.num) /\ dev' = [dev EXCEPT !.base = wire.off, !.acked = wire.off]
      /\ dev \in Devices  BY LineNumbers, LineFields DEF DeviceAdvances, Answers, durable
<1>2. run.pc = "acking" /\ run.tc \in {"window", "manifest"} /\ wire.off = run.rx.off
      /\ run.rx.off \in 0 .. Units /\ dev.num = 0  BY <1>1, LineFields DEF IInv, Asks, Line, Asked, Based
<1>3. run.held = <<>>  BY <1>2 DEF Line, Heeds
<1>4. Coming' = air'
  <2>1. air' \in Seq(FrameSet)  BY DEF IInv, TypeOK, RadioOK
  <2>. QED  BY <1>1, <1>3, <2>1, ConcatEmptySeq DEF Coming
<1>5. Round(air', run.rx.off)  BY <1>1, <1>2, FramesRound
<1>6. dev'.num = 0 /\ dev'.base = run.rx.off  BY <1>1, <1>2 DEF Devices
<1>7. Travels' /\ Based'  BY <1>1, <1>2, <1>4, <1>5, <1>6 DEF Travels, Based, Due
<1>. QED  BY <1>1, <1>6, <1>7, Answering

-----------------------------------------------------------------------------
(* Opening a transfer *)

LEMMA OpenAgrees == IInv /\ IInv' /\ Line /\ Open => Line'
<1>. SUFFICES ASSUME IInv, IInv', Line, Open  PROVE Line'  OBVIOUS
<1>. DEFINE k == IF run.ckpt = NoCheckpoint THEN "start" ELSE "resume"
<1>1. /\ UNCHANGED <<store, body, link, air, dev, cloud, left>> /\ run.pc = "open" /\ link = "up"
      /\ wire' = [Nothing EXCEPT !.k = k, !.off = run.ckpt.off] /\ run \in Runs
      /\ run' = [run EXCEPT !.pc = "opening", !.rx = run.ckpt, !.pend = NoCheckpoint, !.pkts = {},
                          !.miss = {}, !.tc = "awaiting_control", !.queue = <<>>, !.held = <<>>,
                          !.reply = NoFrame, !.man = FALSE, !.broken = "no"]
  BY LineFields DEF Open, durable
<1>2. /\ run'.pc = "opening" /\ run'.rx = run.ckpt /\ run'.pend = NoCheckpoint /\ run'.pkts = {}
      /\ run'.miss = {} /\ run'.tc = "awaiting_control" /\ run'.queue = <<>> /\ run'.held = <<>>
      /\ run'.reply = NoFrame /\ run'.broken = "no" /\ run'.then = run.then /\ run'.ckpt = run.ckpt
  BY <1>1 DEF Runs
<1>3. wire'.k = k /\ wire'.off = run.ckpt.off /\ (k = "start" => run.ckpt.off = 0)
      /\ (k = "resume" => run.ckpt # NoCheckpoint)  BY <1>1 DEF Nothing, NoCheckpoint
<1>4. k \in {"start", "resume"}  OBVIOUS
<1>. HIDE DEF k
<1>5. Silent(air) /\ Coming' = air
  <2>1. Silent(air)  BY <1>1, PcPlaces, IdleAir
  <2>. QED  BY <1>1, <1>2, <2>1, LineFields, ConcatEmptySeq DEF Coming
<1>6. Heeds(run)'
  <2>1. "opening" \notin Receiving \cup Stopped \cup Whole \cup Confirming \cup Signing
        /\ "opening" \in Controlled  BY DEF Controlled, Receiving, Stopped, Whole, Confirming, Signing
  <2>2. Places(run)'  BY <1>2, <2>1 DEF Places
  <2>3. Queued(run)' /\ Counts(run)' /\ Len(run'.held) = 0
    <3>1. Len(run'.queue) = 0 /\ Len(run'.held) = 0  BY <1>2, EmptySeq
    <3>. QED  BY <1>2, <3>1 DEF Queued, Counts
  <2>. QED  BY <1>2, <2>2, <2>3 DEF Heeds
<1>7. Numbers'  BY <1>1, <1>2, NumbersFacts DEF Line, Numbers
<1>8. Stages'
  <2>1. body = run.ckpt.off  BY <1>1 DEF Line, Stages
  <2>. QED  BY <1>1, <1>2, <2>1 DEF Stages, Signing
<1>9. Asked' /\ Based' /\ Travels'  BY <1>2, <1>3, <1>4, <1>5 DEF Asked, Based, Travels, Requesting
<1>. QED  BY <1>2, <1>6, <1>7, <1>8, <1>9 DEF Line

\* Where a request is answered.
LEMMA OpeningFacts ==
  ASSUME IInv, Line, run.pc = "opening", run.reply.k \in Replies \cup Rejections, wire.k = "none"
  PROVE  /\ run.tc = "control_pending" /\ run.broken = "no" /\ run.queue = <<>>
         /\ run.pkts = {} /\ run.miss = {} /\ Replying(run.reply, Coming, run.rx.off)
<1>1. Heeds(run) /\ Places(run) /\ run.broken = "no"  BY DEF Line, Heeds
<1>2. run.tc = "control_pending"
  <2>1. NoFrame.k \notin Replies \cup Rejections  BY DEF NoFrame, Replies, Rejections
  <2>. QED  BY <1>1, <2>1 DEF Heeds, Places
<1>. QED  BY <1>1, <1>2 DEF Heeds, Queued, Counts, Line, Travels

LEMMA OpenedAgrees == IInv /\ IInv' /\ Line /\ Opened => Line'
<1>. SUFFICES ASSUME IInv, IInv', Line, Opened  PROVE Line'  OBVIOUS
<1>1. /\ UNCHANGED <<store, body, link, wire, air, dev>> /\ run.pc = "opening" /\ wire.k = "none"
      /\ run.reply.k \in Replies /\ run \in Runs /\ run.rx.off \in 0 .. Units
      /\ run' = [run EXCEPT !.pc = "replaying", !.tc = FirstPhase]  BY LineFields DEF Opened, durable, radio
<1>2. /\ run.tc = "control_pending" /\ run.broken = "no" /\ run.queue = <<>>
      /\ run.pkts = {} /\ run.miss = {} /\ dev.base = run.rx.off /\ dev.num = 0 /\ Round(Coming, run.rx.off)
  BY <1>1, OpeningFacts DEF Replying
<1>3. /\ run'.pc = "replaying" /\ run'.tc = FirstPhase
      /\ run'.queue = run.queue /\ run'.held = run.held /\ run'.rx = run.rx
      /\ run'.pkts = run.pkts /\ run'.miss = run.miss /\ run'.pend = run.pend
      /\ run'.ckpt = run.ckpt /\ run'.broken = run.broken /\ run'.then = run.then  BY <1>1 DEF Runs
<1>4. FirstPhase = (IF run.rx.off = Units THEN "manifest" ELSE "window")
      /\ (run.rx.off # Units => run.rx.off < Units)  BY <1>1, ConstantTypes DEF FirstPhase
<1>5. Coming' = Coming  BY <1>1, <1>3 DEF Coming
<1>6. Heeds(run)'
  <2>1. /\ "replaying" \notin {"opening"} \cup Stopped \cup Whole \cup Confirming \cup Signing
        /\ "replaying" \in Controlled  BY DEF Controlled, Receiving, Stopped, Whole, Confirming, Signing
  <2>2. Places(run)'  BY <1>3, <1>4, <2>1 DEF Places
  <2>3. Queued(run)'
    <3>1. Len(run'.queue) = 0  BY <1>2, <1>3, EmptySeq
    <3>. QED  BY <1>2, <1>3, <1>4, <3>1 DEF Queued
  <2>4. Counts(run)'  BY <1>2, <1>3, <1>4 DEF Counts
  <2>. QED  BY <1>2, <1>3, <1>4, <2>2, <2>3, <2>4 DEF Heeds, Line
<1>7. Numbers'  BY <1>1, <1>3 DEF Line, Numbers
<1>8. Stages'  BY <1>1, <1>2, <1>3, <1>4 DEF Line, Stages, Signing
<1>9. Asked' /\ Based' /\ Travels'
  BY <1>1, <1>2, <1>3, <1>4, <1>5 DEF Asked, Based, Travels, Due, Requesting
<1>. QED  BY <1>3, <1>6, <1>7, <1>8, <1>9, LineNumbers DEF Line

LEMMA OpenRejectedAgrees == IInv /\ IInv' /\ Line /\ OpenRejected => Line'
<1>. SUFFICES ASSUME IInv, IInv', Line, OpenRejected  PROVE Line'  OBVIOUS
<1>1. CASE Fail("rejected") \/ Fail("identity")  BY <1>1, FailAgrees DEF OpenRejected, durable
<1>2. CASE run' = [run EXCEPT !.pc = "restart", !.tc = "none", !.ckpt = NoCheckpoint] /\ UNCHANGED radio
  <2>1. /\ UNCHANGED <<store, body, link>> /\ wire' = wire /\ air' = air /\ dev' = dev
        /\ run.pc = "opening" /\ run.reply.k \in Rejections /\ wire.k = "none" /\ run \in Runs
    BY <1>2, LineFields DEF OpenRejected, Rejections, radio, durable
  <2>2. run.broken = "no" /\ run.queue = <<>> /\ Silent(Coming)  BY <2>1, OpeningFacts DEF Replying
  <2>3. run.held = <<>>
    <3>. SUFFICES ASSUME run.held # <<>>  PROVE FALSE  OBVIOUS
    <3>1. /\ run.held \in Seq(FrameSet) /\ air \in Seq(FrameSet) /\ Len(run.held) \in Nat \ {0}
      BY LineFields, EmptySeq
    <3>2. Len(Coming) = Len(run.held) + Len(air) /\ Len(air) \in Nat /\ Coming[1] = run.held[1]
      BY <3>1, ConcatProperties DEF Coming
    <3>3. run.held[1].k \in Results  BY <2>2, <3>1, <3>2 DEF Silent
    <3>. QED  BY <3>1, <3>3 DEF Line, Heeds
  <2>4. /\ run'.pc = "restart" /\ run'.tc = "none" /\ run'.held = run.held
        /\ run'.queue = run.queue /\ run'.broken = run.broken /\ run'.ckpt = NoCheckpoint
        /\ run'.rx = run.rx /\ run'.pend = run.pend /\ run'.then = run.then  BY <1>2, <2>1 DEF Runs
  <2>5. Silent(air)  BY <2>2, <2>3, LineFields
  <2>6. Numbers'  BY <2>1, <2>4, NumbersFacts DEF Line, Numbers
  <2>. QED  BY <2>1, <2>2, <2>3, <2>4, <2>5, <2>6, PcPlaces, LineNumbers, Rests DEF Requesting
<1>. QED  BY <1>1, <1>2 DEF OpenRejected

-----------------------------------------------------------------------------
(* Notifications are delivered *)

\* A result is not awaited by a frame of the transfer: one that comes shows that the
\* request is answered.
LEMMA Spoken ==
  ASSUME IInv, Line, NEW n \in 1 .. Len(Coming), Coming[n].k \notin Results
  PROVE  ~Silent(Coming) /\ wire.k \notin Requesting
<1>1. ~Silent(Coming)  BY DEF Silent
<1>. QED  BY <1>1 DEF Line, Asked

LEMMA AwaitingPlaces ==
  ASSUME NEW r, Places(r), r.tc \in {"awaiting_control", "control_pending"}
  PROVE  r.pc = "opening"
<1>1. /\ r.pc \notin Receiving \cup Stopped \cup Whole \cup Confirming \cup Signing
      /\ r.pc \in Controlled  BY DEF Places
<1>. QED  BY <1>1 DEF Controlled

\* Where frames of the transfer can come at all.
LEMMA ListeningPlaces ==
  ASSUME IInv, Line, run.tc \notin {"none", "awaiting_control"}, ~Silent(Coming), wire.k \notin Requesting
  PROVE  run.pc \in {"opening"} \cup Receiving
<1>1. Places(run) /\ Heeds(run) /\ Travels  BY DEF Line, Heeds
<1>2. run.tc \in {"paused", "terminal", "confirming"} => run.broken # "no"  BY <1>1 DEF Travels, Due
<1>3. run.tc \notin {"paused", "terminal", "confirming"}  BY <1>1, <1>2 DEF Heeds
<1>4. /\ run.pc \notin Stopped \cup Whole \cup Confirming
      /\ run.pc \in Signing => FALSE
      /\ run.pc \in Controlled  BY <1>1, <1>3 DEF Places
<1>. QED  BY <1>4 DEF Controlled

\* The run after a frame, except for what is held back.
ButHeld(x) ==
    /\ run'.pc = x.pc /\ run'.rx = x.rx /\ run'.pend = x.pend /\ run'.pkts = x.pkts
    /\ run'.miss = x.miss /\ run'.tc = x.tc /\ run'.repair = x.repair /\ run'.queue = x.queue
    /\ run'.reply = x.reply /\ run'.broken = x.broken /\ run'.then = x.then
    /\ run'.ckpt = x.ckpt /\ run'.blob = x.blob

LEMMA AcceptedAgrees ==
  ASSUME IInv, IInv', Line, UNCHANGED <<store, body, link, wire, dev>>, wire.k \notin Requesting,
         run.pc \in Receiving, run.broken = "no", Follow(Coming, Coming'),
         Coming[1].k \notin Results, ButHeld(Accept(run, Coming[1])),
         \A i \in 1 .. Len(run'.held) : run'.held[i].k \notin Results,
         run.pc = "replaying" \/ run'.held = <<>>
  PROVE  Line'
<1>1. run \in Runs /\ Heeds(run) /\ Travels /\ Stages /\ Based /\ Numbers /\ Asked /\ Places(run)
      /\ dev.num = 0  BY LineFields DEF Line, Heeds, Places, Based
<1>2. Due(run, Coming)  BY <1>1 DEF Travels
<1>. DEFINE x == Accept(run, Coming[1])
<1>3. /\ SameReceiver(run, x) /\ Heeds(x) /\ (x.broken = "no" => Due(x, Coming'))
      /\ x.tc \notin {"none", "awaiting_control", "control_pending", "confirming"}
      /\ x.tc \in {"window", "paused", "repair"} <=> run.tc \in {"window", "paused", "repair"}
  <2>1. \A s, t : s = Coming /\ t = Coming' => Follow(s, t)  OBVIOUS
  <2>. QED  BY <1>1, <1>2, <2>1, AcceptDue
<1>4. ButHeld(x)  OBVIOUS
<1>. HIDE DEF x
<1>5. Heeds(run)'
  <2>1. Places(run)'  BY <1>3, <1>4 DEF Heeds, Places, ButHeld
  <2>2. Queued(x) => Queued(run)'  BY <1>4 DEF Queued, Wanted, ButHeld
  <2>3. Counts(x) => Counts(run)'  BY <1>4 DEF Counts, ButHeld
  <2>4. run'.pc \notin {"opening", "replaying"} \/ run'.tc = "awaiting_control" => run'.held = <<>>
    BY <1>3, <1>4 DEF ButHeld, SameReceiver
  <2>. QED  BY <1>3, <1>4, <2>1, <2>2, <2>3, <2>4 DEF Heeds, ButHeld
<1>6. Numbers'  BY <1>1, <1>3, <1>4 DEF Numbers, ButHeld, SameReceiver
<1>7. Stages'
  <2>1. run.tc \notin {"none", "confirming"}  BY <1>1 DEF Places
  <2>2. run.pc \notin {"authorize", "open", "save", "ack"} \cup Signing  BY DEF Receiving, Signing
  <2>. QED  BY <1>1, <1>3, <1>4, <2>1, <2>2 DEF Stages, ButHeld, SameReceiver
<1>8. Asked' /\ Based'  BY <1>1, <1>3, <1>4 DEF Asked, Based, Requesting, ButHeld, SameReceiver
<1>9. Travels'
  <2>1. run'.broken = "no" => Due(run', Coming')  BY <1>3, <1>4 DEF Due, ButHeld
  <2>. QED  BY <1>3, <1>4, <2>1 DEF Travels, ButHeld
<1>. QED  BY <1>1, <1>3, <1>4, <1>5, <1>6, <1>7, <1>8, <1>9 DEF Line, ButHeld, SameReceiver

LEMMA DeliverAgrees == IInv /\ IInv' /\ Line /\ Deliver => Line'
<1>. SUFFICES ASSUME IInv, IInv', Line, Deliver  PROVE Line'  OBVIOUS
<1>. DEFINE f == Head(air)
<1>1. /\ air # <<>> /\ run.tc # "none" /\ f.k \notin Results /\ air' = Tail(air)
      /\ UNCHANGED <<store, body, link, wire, dev>> /\ run \in Runs /\ run.held \in Seq(FrameSet)
      /\ air \in Seq(FrameSet) /\ f \in FrameSet /\ air' \in Seq(FrameSet)
  BY LineFields, HeadTailProperties DEF Deliver, durable, Results
<1>2. /\ Without(Coming, run.held \o air', Len(run.held) + 1) /\ Coming[Len(run.held) + 1] = f
      /\ Append(run.held, f) \o air' = Coming  BY <1>1, TakenFromAir DEF Coming
<1>. HIDE DEF f
<1>3. ~Silent(Coming) /\ wire.k \notin Requesting
  <2>1. Len(run.held) + 1 \in 1 .. Len(Coming)  BY <1>2 DEF Without
  <2>. QED  BY <1>1, <1>2, <2>1, Spoken
<1>4. /\ Heeds(run) /\ Places(run) /\ Travels /\ Stages /\ Based /\ Numbers /\ Asked

  BY DEF Line, Heeds
<1>5. CASE run.tc = "awaiting_control"
  <2>1. run.pc = "opening" /\ run.held = <<>> /\ run.broken = "no"  BY <1>4, <1>5, AwaitingPlaces DEF Heeds
  <2>2. wire.k = "none"  BY <1>3, <2>1 DEF IInv, Asks, Requesting
  <2>3. Replying(f, air', run.rx.off)  BY <1>1, <1>4, <1>5, <2>2 DEF Travels, f
  <2>4. run' = [run EXCEPT !.tc = "control_pending", !.reply = f]  BY <1>5 DEF Deliver, f
  <2>5. /\ run'.pc = "opening" /\ run'.tc = "control_pending" /\ run'.reply = f
        /\ run'.held = <<>> /\ run'.queue = run.queue /\ run'.rx = run.rx /\ run'.pend = run.pend
        /\ run'.pkts = run.pkts /\ run'.miss = run.miss /\ run'.broken = "no"
        /\ run'.then = run.then /\ run'.ckpt = run.ckpt  BY <1>1, <2>1, <2>4 DEF Runs
  <2>6. Coming' = air'  BY <1>1, <2>5, ConcatEmptySeq DEF Coming
  <2>7. Heeds(run)'
    <3>1. "opening" \notin Receiving \cup Stopped \cup Whole \cup Confirming \cup Signing
          /\ "opening" \in Controlled
      BY DEF Controlled, Receiving, Stopped, Whole, Confirming, Signing
    <3>2. Places(run)'  BY <2>5, <3>1 DEF Places
    <3>3. Len(run'.queue) = 0 /\ run'.queue = <<>> /\ run'.pkts = {} /\ run'.miss = {}
          /\ Len(run'.held) = 0
      BY <1>4, <1>5, <2>1, <2>5, EmptySeq DEF Heeds, Queued, Counts
    <3>4. Queued(run)' /\ Counts(run)'  BY <2>5, <3>3 DEF Queued, Counts
    <3>. QED  BY <2>5, <3>2, <3>3, <3>4 DEF Heeds
  <2>8. Numbers'  BY <1>1, <1>4, <2>5 DEF Numbers
  <2>9. Stages'  BY <1>1, <1>4, <1>5, <2>1, <2>5 DEF Stages, Signing
  <2>10. Asked' /\ Based'  BY <1>1, <1>3, <2>5 DEF Asked, Based, Requesting
  <2>11. Travels'  BY <1>1, <2>2, <2>3, <2>5, <2>6 DEF Travels, Replying, Due
  <2>. QED  BY <1>4, <2>5, <2>7, <2>8, <2>9, <2>10, <2>11 DEF Line
<1>6. CASE run.tc # "awaiting_control" /\ run.pc \in {"opening", "replaying"}
  <2>1. run' = [run EXCEPT !.held = Append(@, f)]  BY <1>6 DEF Deliver, f
  <2>2. /\ run'.held = Append(run.held, f) /\ run'.pc = run.pc /\ run'.tc = run.tc
        /\ run'.reply = run.reply
        /\ run'.queue = run.queue /\ run'.rx = run.rx /\ run'.pend = run.pend
        /\ run'.pkts = run.pkts /\ run'.miss = run.miss /\ run'.broken = run.broken
        /\ run'.then = run.then /\ run'.ckpt = run.ckpt /\ run'.repair = run.repair
        /\ run'.blob = run.blob  BY <1>1, <2>1 DEF Runs
  <2>3. Coming' = Coming  BY <1>2, <2>2 DEF Coming
  <2>4. \A i \in 1 .. Len(run'.held) : run'.held[i].k \notin Results
    <3>1. /\ Len(run.held) \in Nat /\ Len(run'.held) = Len(run.held) + 1
          /\ run'.held[Len(run.held) + 1] = f
          /\ \A i \in 1 .. Len(run.held) : run'.held[i] = run.held[i]
      BY <1>1, <2>2, AppendProperties, LenProperties
    <3>2. \A i \in 1 .. Len(run.held) : run.held[i].k \notin Results  BY <1>4 DEF Heeds
    <3>3. \A n \in Nat : \A i \in 1 .. n + 1 : i \in 1 .. n \/ i = n + 1  OBVIOUS
    <3>. QED  BY <1>1, <3>1, <3>2, <3>3
  <2>5. Heeds(run)'
    <3>1. Places(run)'  BY <1>4, <2>2 DEF Places
    <3>2. (Queued(run) => Queued(run)') /\ (Counts(run) => Counts(run)')  BY <2>2 DEF Queued, Wanted, Counts
    <3>. QED  BY <1>4, <1>6, <2>2, <2>4, <3>1, <3>2 DEF Heeds
  <2>6. Numbers' /\ Stages' /\ Based'  BY <1>1, <1>4, <2>2 DEF Numbers, Stages, Based
  <2>7. Asked'  BY <1>1, <1>3 DEF Asked, Requesting
  <2>8. Travels'
    <3>1. Due(run, Coming) => Due(run', Coming)  BY <2>2 DEF Due
    <3>. QED  BY <1>1, <1>3, <1>4, <1>6, <2>2, <2>3, <3>1 DEF Travels, Replying
  <2>. QED  BY <1>4, <2>2, <2>5, <2>6, <2>7, <2>8 DEF Line
<1>7. CASE run.tc # "awaiting_control" /\ run.pc \notin {"opening", "replaying"}
  <2>1. run.pc \in Receiving /\ run.held = <<>> /\ run' = Accept(run, f)
    BY <1>1, <1>3, <1>4, <1>7, ListeningPlaces DEF Deliver, Heeds, f
  <2>2. Coming = air /\ air \in Seq(FrameSet)  BY <2>1, LineFields
  <2>3. CASE run.broken = "no"
    <3>1. SameReceiver(run, run')
      <4>1. Follow(Coming, Tail(Coming)) /\ Coming[1] = f  BY <1>1, <2>2, FollowFacts DEF f
      <4>2. Due(run, Coming)  BY <1>3, <1>4, <2>3 DEF Travels
      <4>3. run' = Accept(run, Coming[1])  BY <2>1, <4>1
      <4>. QED  BY <1>1, <1>4, <2>1, <2>3, <4>1, <4>2, <4>3, AcceptDue
    <3>2. run'.held = <<>> /\ Len(run'.held) = 0  BY <2>1, <3>1, EmptySeq DEF SameReceiver
    <3>3. Coming' = Tail(Coming) /\ Coming[1] = f
      BY <1>1, <2>2, <3>2, ConcatEmptySeq, FollowFacts DEF Coming, f
    <3>4. Follow(Coming, Coming')  BY <1>1, <2>2, <3>3, FollowFacts
    <3>5. ButHeld(Accept(run, Coming[1]))  BY <2>1, <3>3 DEF ButHeld
    <3>6. \A i \in 1 .. Len(run'.held) : run'.held[i].k \notin Results  BY <3>2
    <3>. QED  BY <1>1, <1>3, <2>1, <2>3, <3>2, <3>3, <3>4, <3>5, <3>6, AcceptedAgrees
  <2>4. CASE run.broken # "no"
    <3>1. run' = run  BY <2>1, <2>4 DEF Accept
    <3>2. run.tc = "repair"  BY <1>4, <2>4 DEF Heeds
    <3>3. Heeds(run)'  BY <1>4, <3>1 DEF Heeds, Places, Queued, Wanted, Counts
    <3>4. Numbers' /\ Stages' /\ Based' /\ Asked' /\ Travels'
      BY <1>1, <1>3, <1>4, <2>4, <3>1, <3>2 DEF Numbers, Stages, Based, Asked, Travels, Requesting
    <3>. QED  BY <1>4, <3>1, <3>3, <3>4 DEF Line
  <2>. QED  BY <2>3, <2>4
<1>. QED  BY <1>5, <1>6, <1>7

\* What is held back comes before what is in the air.
LEMMA FromHeld ==
  ASSUME NEW h \in Seq(FrameSet), h # <<>>, NEW a \in Seq(FrameSet)
  PROVE  /\ Follow(h \o a, Tail(h) \o a) /\ (h \o a)[1] = Head(h)
         /\ Tail(h) \in Seq(FrameSet)
         /\ \A i \in 1 .. Len(Tail(h)) : \E j \in 1 .. Len(h) : Tail(h)[i] = h[j]
<1>1. /\ Tail(h) \in Seq(FrameSet) /\ Len(Tail(h)) = Len(h) - 1 /\ Head(h) = h[1]
      /\ \A i \in 1 .. Len(Tail(h)) : Tail(h)[i] = h[i + 1]
      /\ Len(h) \in Nat \ {0} /\ Len(a) \in Nat  BY HeadTailProperties, EmptySeq, LenProperties
<1>2. /\ h \o a \in Seq(FrameSet) /\ Len(h \o a) = Len(h) + Len(a)
      /\ \A i \in 1 .. Len(h) + Len(a) : (h \o a)[i] = IF i <= Len(h) THEN h[i] ELSE a[i - Len(h)]
  BY ConcatProperties
<1>. DEFINE b == Tail(h)
<1>. HIDE DEF b
<1>3. /\ b \o a \in Seq(FrameSet) /\ Len(b \o a) = Len(b) + Len(a)
      /\ \A i \in 1 .. Len(b) + Len(a) : (b \o a)[i] = IF i <= Len(b) THEN b[i] ELSE a[i - Len(b)]
  BY <1>1, ConcatProperties DEF b
<1>4. Len(b) = Len(h) - 1 /\ \A i \in 1 .. Len(b) : b[i] = h[i + 1]  BY <1>1 DEF b
<1>5. (h \o a)[1] = Head(h)  BY <1>1, <1>2
<1>6. Len(b \o a) = Len(h \o a) - 1 /\ 1 \in 1 .. Len(h \o a)  BY <1>1, <1>2, <1>3, <1>4
<1>7. ASSUME NEW i \in 1 .. Len(b \o a)  PROVE (b \o a)[i] = (h \o a)[i + 1]
  <2>1. CASE i <= Len(b)  BY <1>1, <1>2, <1>3, <1>4, <2>1
  <2>2. CASE i > Len(b)
    <3>1. (b \o a)[i] = a[i - Len(b)]  BY <1>1, <1>3, <1>4, <2>2
    <3>2. (h \o a)[i + 1] = a[i + 1 - Len(h)]  BY <1>1, <1>2, <1>3, <1>4, <2>2
    <3>3. i - Len(b) = i + 1 - Len(h)  BY <1>1, <1>4
    <3>. QED  BY <3>1, <3>2, <3>3
  <2>. QED  BY <1>1, <1>4, <2>1, <2>2
<1>8. Follow(h \o a, b \o a)
  <2>1. \A i \in 1 .. Len(b \o a) : ~(i < 1)  OBVIOUS
  <2>. QED  BY <1>2, <1>3, <1>6, <1>7, <2>1 DEF Follow, Without
<1>9. ASSUME NEW i \in 1 .. Len(Tail(h))
      PROVE  \E j \in 1 .. Len(h) : Tail(h)[i] = h[j]
  <2>1. i + 1 \in 1 .. Len(h) /\ Tail(h)[i] = h[i + 1]  BY <1>1
  <2>. QED  BY <2>1
<1>. QED  BY <1>1, <1>5, <1>8, <1>9 DEF b

LEMMA ReplayHeldAgrees == IInv /\ IInv' /\ Line /\ ReplayHeld => Line'
<1>. SUFFICES ASSUME IInv, IInv', Line, ReplayHeld  PROVE Line'  OBVIOUS
<1>1. /\ run.pc = "replaying" /\ wire' = wire /\ air' = air /\ dev' = dev
      /\ UNCHANGED <<store, body, link>> /\ run \in Runs /\ run.held \in Seq(FrameSet)
      /\ air \in Seq(FrameSet)  BY LineFields DEF ReplayHeld, durable, radio
<1>2. /\ Heeds(run) /\ Places(run) /\ Travels /\ Stages
      /\ run.tc \in {"window", "paused", "manifest", "terminal"} /\ run.broken = "no"
  BY <1>1 DEF Line, Heeds, Places, Receiving
<1>3. wire.k = "none"  BY <1>1 DEF IInv, Asks
<1>4. CASE run.held = <<>>
  <2>1. SameExpected /\ run'.pc = "receive" /\ run'.ckpt = run.ckpt /\ run'.pend = run.pend
    BY <1>1, <1>4, GotoSame DEF ReplayHeld
  <2>2. Places(run)'
    <3>1. /\ "receive" \in Receiving /\ "receive" \in Controlled
          /\ "receive" \notin {"opening"} \cup Stopped \cup Whole \cup Confirming \cup Signing
          /\ "replaying" \in Receiving
      BY DEF Controlled, Receiving, Stopped, Whole, Confirming, Signing
    <3>. QED  BY <1>1, <1>2, <2>1, <3>1 DEF Places, SameExpected
  <2>3. Heeds(run)'  BY <1>1, <1>2, <1>4, <2>1, <2>2, HeedsKept DEF SameExpected
  <2>4. Stages'  BY <1>1, <1>2, <2>1 DEF Stages, Signing, SameExpected
  <2>. QED  BY <1>1, <2>1, <2>3, <2>4, LineNumbers, Steady
<1>5. CASE run.held # <<>>
  <2>. DEFINE x == Accept(run, Head(run.held))
  <2>1. /\ Follow(Coming, Tail(run.held) \o air) /\ Coming[1] = Head(run.held)
        /\ Tail(run.held) \in Seq(FrameSet) /\ Head(run.held).k \notin Results
        /\ \A i \in 1 .. Len(Tail(run.held)) : Tail(run.held)[i].k \notin Results
    <3>1. \A i \in 1 .. Len(run.held) : run.held[i].k \notin Results  BY <1>2 DEF Heeds
    <3>2. Head(run.held) = run.held[1] /\ 1 \in 1 .. Len(run.held)
      BY <1>1, <1>5, HeadTailProperties, EmptySeq
    <3>. QED  BY <1>1, <1>5, <3>1, <3>2, FromHeld DEF Coming
  <2>2. run.pc \in Receiving /\ Due(run, Coming) /\ wire.k \notin Requesting
    BY <1>1, <1>2, <1>3 DEF Receiving, Travels, Requesting
  <2>3. x \in Runs /\ SameReceiver(run, x)
    <3>1. x = Accept(run, Coming[1])  BY <2>1
    <3>. HIDE DEF x
    <3>. QED  BY <1>1, <1>2, <2>1, <2>2, <3>1, AcceptDue
  <2>4. run' = [x EXCEPT !.held = Tail(@)]  BY <1>5 DEF ReplayHeld
  <2>5. ButHeld(x) /\ run'.held = Tail(run.held)
    <3>. HIDE DEF x
    <3>. QED  BY <2>3, <2>4 DEF ButHeld, Runs, SameReceiver
  <2>6. ButHeld(Accept(run, Coming[1]))  BY <2>1, <2>5
  <2>7. Follow(Coming, Coming')  BY <1>1, <2>1, <2>5 DEF Coming
  <2>. QED  BY <1>1, <1>2, <2>1, <2>2, <2>5, <2>6, <2>7, AcceptedAgrees
<1>. QED  BY <1>4, <1>5

-----------------------------------------------------------------------------
(* The pump *)

LEMMA TailFacts ==
  ASSUME NEW q \in Seq(FrameSet), q # <<>>
  PROVE  /\ Tail(q) \in Seq(FrameSet) /\ Head(q) \in FrameSet /\ Head(q) = q[1]
         /\ Len(q) \in Nat \ {0} /\ Len(Tail(q)) = Len(q) - 1
         /\ \A i \in 1 .. Len(Tail(q)) : Tail(q)[i] = q[i + 1] /\ i + 1 \in 1 .. Len(q)
         /\ Tail(q) # <<>> <=> Len(q) # 1
<1>1. /\ Tail(q) \in Seq(FrameSet) /\ Head(q) = q[1] /\ Len(Tail(q)) = Len(q) - 1
      /\ Head(q) \in FrameSet /\ \A i \in 1 .. Len(Tail(q)) : Tail(q)[i] = q[i + 1]
      /\ Len(q) \in Nat \ {0}  BY HeadTailProperties, EmptySeq
<1>2. Tail(q) # <<>> <=> Len(q) # 1
  <2>1. Tail(q) = <<>> <=> Len(Tail(q)) = 0  BY <1>1, EmptySeq
  <2>2. Len(Tail(q)) = 0 <=> Len(q) = 1  BY <1>1
  <2>. QED  BY <2>1, <2>2
<1>3. \A i \in 1 .. Len(Tail(q)) : i + 1 \in 1 .. Len(q)  BY <1>1
<1>. QED  BY <1>1, <1>2, <1>3

\* The frame that the pump takes is of the window, or its end and the last one.
LEMMA QueueHead ==
  ASSUME IInv, Line, Next1
  PROVE  /\ run.pc = "receive" /\ run.broken = "no" /\ Heeds(run) /\ Queued(run) /\ Counts(run)
         /\ Places(run) /\ Stages /\ run.held = <<>> /\ wire.k = "none"
         /\ run.tc \in {"window", "paused", "manifest", "terminal", "repair"}
         /\ run \in Runs /\ run.queue \in Seq(FrameSet) /\ run.queue # <<>>
         /\ Head(run.queue) \in FrameSet /\ run.rx.off \in 0 .. Units
         /\ \/ /\ Is(Head(run.queue), KindOf(run.rx.off), Wanted(run))
               /\ run.tc \in {"paused", "terminal"} => Tail(run.queue) # <<>>
            \/ /\ Head(run.queue) = EndOf(run.rx.off) /\ Tail(run.queue) = <<>>
               /\ run.tc \in {"paused", "terminal"}
<1>1. /\ run.pc = "receive" /\ run.queue # <<>> /\ run \in Runs /\ run.queue \in Seq(FrameSet)
      /\ run.rx.off \in 0 .. Units  BY LineFields DEF Next1
<1>2. Heeds(run) /\ Places(run) /\ Stages /\ run.broken = "no" /\ run.held = <<>>  BY <1>1 DEF Line, Heeds
<1>3. Queued(run) /\ Counts(run)  BY <1>2 DEF Heeds
<1>4. run.tc \in {"window", "paused", "manifest", "terminal", "repair"}  BY <1>1, <1>2 DEF Places, Receiving
<1>5. wire.k = "none"  BY <1>1 DEF IInv, Asks
<1>6. /\ Head(run.queue) \in FrameSet /\ Head(run.queue) = run.queue[1] /\ Len(run.queue) \in Nat \ {0}
      /\ Tail(run.queue) # <<>> <=> Len(run.queue) # 1  BY <1>1, TailFacts
<1>7. CASE Len(run.queue) = 1 /\ run.tc \in {"paused", "terminal"}
  BY <1>1, <1>2, <1>3, <1>4, <1>5, <1>6, <1>7 DEF Queued
<1>8. CASE ~(Len(run.queue) = 1 /\ run.tc \in {"paused", "terminal"})
  <2>1. 1 \in 1 .. Len(run.queue)  BY <1>6
  <2>2. Is(run.queue[1], KindOf(run.rx.off), Wanted(run))  BY <1>3, <1>8, <2>1 DEF Queued
  <2>. QED  BY <1>1, <1>2, <1>3, <1>4, <1>5, <1>6, <1>8, <2>2
<1>. QED  BY <1>7, <1>8

\* The frames that are left.
LEMMA TailQueued ==
  ASSUME NEW r \in Runs, Queued(r), r.queue # <<>>, NEW x, x.queue = Tail(r.queue), x.tc = r.tc,
         x.rx = r.rx, x.miss = r.miss,
         r.tc \in {"window", "paused", "manifest", "terminal", "repair"}
  PROVE  Queued(x)
<1>1. /\ Len(r.queue) \in Nat \ {0} /\ Len(x.queue) = Len(r.queue) - 1
      /\ x.queue \in Seq(FrameSet)
      /\ \A i \in 1 .. Len(x.queue) : x.queue[i] = r.queue[i + 1] /\ i + 1 \in 1 .. Len(r.queue)
  BY TailFacts, RunFields
<1>2. Wanted(x) = Wanted(r)  BY DEF Wanted
<1>3. ASSUME NEW i \in 1 .. Len(x.queue)
      PROVE  \/ Is(x.queue[i], KindOf(x.rx.off), Wanted(x))
             \/ i = Len(x.queue) /\ x.tc \in {"paused", "terminal"}
  <2>1. x.queue[i] = r.queue[i + 1] /\ i + 1 \in 1 .. Len(r.queue)  BY <1>1
  <2>2. i + 1 = Len(r.queue) => i = Len(x.queue)  BY <1>1
  <2>. QED  BY <1>2, <2>1, <2>2 DEF Queued
<1>4. x.queue # <<>> => x.queue[Len(x.queue)] = r.queue[Len(r.queue)]
  <2>1. x.queue # <<>> => Len(x.queue) \in 1 .. Len(x.queue)  BY <1>1, EmptySeq
  <2>2. Len(x.queue) + 1 = Len(r.queue)  BY <1>1
  <2>. QED  BY <1>1, <2>1, <2>2
<1>. QED  BY <1>3, <1>4 DEF Queued

\* The receiver goes on, and nothing is sent.
LEMMA Taking ==
  ASSUME IInv, IInv', Line, run.pc = "receive", run.broken = "no", UNCHANGED radio, link' = link,
         run'.tc = run.tc, run'.rx = run.rx, run'.held = run.held, run'.repair = run.repair,
         run'.broken = run.broken, run'.then = run.then, run'.ckpt = run.ckpt,
         Numbered(run'.pend), store' = store, Heeds(run)', Stages'
  PROVE  Line'
<1>1. wire' = wire /\ air' = air /\ dev' = dev /\ wire.k = "none"  BY DEF radio, IInv, Asks
<1>2. run.tc \in {"window", "paused", "manifest", "terminal", "repair"} /\ Travels
  BY DEF Line, Heeds, Places, Receiving
<1>3. Coming' = Coming  BY <1>1 DEF Coming
<1>4. Numbers'  BY <1>1 DEF Line, Numbers
<1>5. Asked' /\ Based'  BY <1>1 DEF Line, Asked, Based, Requesting
<1>6. Travels'
  <2>1. Due(run, Coming)  BY <1>1, <1>2 DEF Travels, Requesting
  <2>2. Due(run', Coming)  BY <2>1 DEF Due
  <2>. QED  BY <1>1, <1>2, <1>3, <2>2 DEF Travels
<1>. QED  BY <1>4, <1>5, <1>6 DEF Line

\* A packet or the manifest is taken.
LEMMA FrameTaken ==
  ASSUME IInv, IInv', Line, Next1, UNCHANGED <<store, body, link, radio>>,
         Head(run.queue).k \in {"data", "manifest"},
         run'.queue = Tail(run.queue), run'.pc = run.pc, run'.tc = run.tc, run'.rx = run.rx,
         run'.held = run.held, run'.repair = run.repair, run'.broken = run.broken,
         run'.then = run.then, run'.ckpt = run.ckpt, run'.pend = run.pend, run'.miss = run.miss,
         run'.pkts = (IF Head(run.queue).k = "data" THEN run.pkts \cup {Head(run.queue).seq}
                      ELSE run.pkts)
  PROVE  Line'
<1>. DEFINE f == Head(run.queue)
<1>1. /\ run.pc = "receive" /\ run.broken = "no" /\ Heeds(run) /\ Queued(run) /\ Counts(run)
      /\ Places(run) /\ Stages /\ run.held = <<>>
      /\ run.tc \in {"window", "paused", "manifest", "terminal", "repair"}
      /\ run \in Runs /\ run.queue # <<>> /\ run.rx.off \in 0 .. Units
      /\ \/ /\ Is(f, KindOf(run.rx.off), Wanted(run))
            /\ run.tc \in {"paused", "terminal"} => Tail(run.queue) # <<>>
         \/ f = EndOf(run.rx.off)
  BY QueueHead
<1>2. /\ Is(f, KindOf(run.rx.off), Wanted(run))
      /\ run.tc \in {"paused", "terminal"} => run'.queue # <<>>  BY <1>1, EndFacts
<1>. HIDE DEF f
<1>3. Queued(run)'
  <2>1. \A x : /\ x.queue = Tail(run.queue) /\ x.tc = run.tc /\ x.rx = run.rx /\ x.miss = run.miss
              => Queued(x)
    BY <1>1, TailQueued
  <2>2. Queued(run')  BY <2>1
  <2>. QED  BY <2>2 DEF Queued, Wanted
<1>4. Counts(run)'
  <2>1. f.k = "data" => run.rx.off # Units /\ f.seq \in Gap(run.rx.off)
    <3>. SUFFICES ASSUME f.k = "data"  PROVE run.rx.off # Units /\ f.seq \in Gap(run.rx.off)  OBVIOUS
    <3>1. KindOf(run.rx.off) = "data" /\ f.seq \in Wanted(run)  BY <1>2 DEF Is
    <3>2. run.rx.off # Units  BY <3>1 DEF KindOf
    <3>3. run.tc \in {"window", "repair", "paused"}  BY <1>1, <3>2 DEF Counts
    <3>4. run.miss \subseteq Gap(run.rx.off) /\ SeqsOf(run.rx.off) = Gap(run.rx.off)
      BY <1>1, <3>2, <3>3, EndFacts DEF Counts
    <3>. QED  BY <3>1, <3>2, <3>4 DEF Wanted
  <2>2. run'.pkts = IF f.k = "data" THEN run.pkts \cup {f.seq} ELSE run.pkts  BY DEF f
  <2>3. run.tc \in {"window", "repair", "paused"} => run'.pkts \subseteq Gap(run.rx.off)
    BY <1>1, <2>1, <2>2 DEF Counts
  <2>4. run.tc \in {"manifest", "terminal"} => run'.pkts = {}  BY <1>1, <2>1, <2>2 DEF Counts
  <2>. QED  BY <1>1, <2>3, <2>4 DEF Counts
<1>5. Places(run)'  BY <1>1, <1>2 DEF Places
<1>6. Heeds(run)'  BY <1>1, <1>3, <1>4, <1>5 DEF Heeds
<1>7. Stages'  BY <1>1 DEF Stages
<1>. QED  BY <1>1, <1>6, <1>7, LineNumbers, Taking

\* A packet that comes is one that is wanted.
LEMMA DataWanted ==
  ASSUME IInv, Line, Next1, NEW f, f = Head(run.queue), f.k = "data"
  PROVE  ~(run.miss # {} /\ f.seq \notin run.miss)
<1>1. run \in Runs /\ run.rx.off \in 0 .. Units
      /\ (Is(f, KindOf(run.rx.off), Wanted(run)) \/ f = EndOf(run.rx.off))  BY QueueHead
<1>. QED  BY <1>1, EndFacts DEF Is, Wanted

LEMMA ReceiveDataAgrees == IInv /\ IInv' /\ Line /\ ReceiveData => Line'
<1>. SUFFICES ASSUME IInv, IInv', Line, ReceiveData  PROVE Line'  OBVIOUS
<1>. DEFINE f == Head(run.queue)
<1>1. Next1 /\ f.k = "data" /\ UNCHANGED <<store, body, link>>  BY DEF ReceiveData, durable
<1>2. run \in Runs  BY LineFields
<1>3. ~(run.miss # {} /\ f.seq \notin run.miss)  BY <1>1, DataWanted
<1>4. run' = [run EXCEPT !.queue = Tail(@), !.pkts = @ \cup {f.seq}] /\ UNCHANGED radio
  BY <1>3 DEF ReceiveData, Took
<1>. HIDE DEF f
<1>5. /\ run'.queue = Tail(run.queue) /\ run'.pc = run.pc /\ run'.tc = run.tc /\ run'.rx = run.rx
      /\ run'.held = run.held /\ run'.repair = run.repair /\ run'.broken = run.broken
      /\ run'.then = run.then /\ run'.ckpt = run.ckpt /\ run'.pend = run.pend
      /\ run'.miss = run.miss /\ run'.pkts = run.pkts \cup {f.seq}  BY <1>2, <1>4 DEF Runs
<1>. QED  BY <1>1, <1>4, <1>5, FrameTaken DEF f

LEMMA ReceiveManifestAgrees == IInv /\ IInv' /\ Line /\ ReceiveManifest => Line'
<1>. SUFFICES ASSUME IInv, IInv', Line, ReceiveManifest  PROVE Line'  OBVIOUS
<1>1. Next1 /\ Head(run.queue).k = "manifest" /\ UNCHANGED <<store, body, link>> /\ UNCHANGED radio
  BY DEF ReceiveManifest, durable
<1>2. run' = [run EXCEPT !.queue = Tail(@), !.man = TRUE] /\ run \in Runs
  BY LineFields DEF ReceiveManifest, Took
<1>3. /\ run'.queue = Tail(run.queue) /\ run'.pc = run.pc /\ run'.tc = run.tc /\ run'.rx = run.rx
      /\ run'.held = run.held /\ run'.repair = run.repair /\ run'.broken = run.broken
      /\ run'.then = run.then /\ run'.ckpt = run.ckpt /\ run'.pend = run.pend
      /\ run'.miss = run.miss /\ run'.pkts = run.pkts  BY <1>2 DEF Runs
<1>. QED  BY <1>1, <1>3, FrameTaken

\* A window that ends follows what is acknowledged, and the packets are its own.
LEMMA WindowEnds ==
  ASSUME IInv, Line, Next1, NEW f, f = Head(run.queue), f.k = "end"
  PROVE  /\ Follows(f) /\ run.tc = "paused" /\ Tail(run.queue) = <<>>
         /\ run.rx.off \in 0 .. Units /\ run.rx.off # Units
         /\ f.off = WindowEnd(run.rx.off) /\ f.last = f.off
         /\ Missing(f) \subseteq Gap(run.rx.off)
<1>1. /\ Queued(run) /\ Counts(run) /\ run.rx.off \in 0 .. Units /\ run \in Runs
      /\ \/ Is(f, KindOf(run.rx.off), Wanted(run))
         \/ /\ f = EndOf(run.rx.off) /\ Tail(run.queue) = <<>>
            /\ run.tc \in {"paused", "terminal"}
  BY QueueHead
<1>2. f = EndOf(run.rx.off) /\ Tail(run.queue) = <<>> /\ run.tc \in {"paused", "terminal"}
  BY <1>1, EndFacts DEF Is
<1>3. run.rx.off # Units  BY <1>1, <1>2, EndFacts
<1>4. run.tc = "paused" /\ run.pkts \subseteq Gap(run.rx.off)  BY <1>1, <1>2, <1>3 DEF Counts
<1>5. /\ f.seq = run.rx.off + 1 /\ f.last = WindowEnd(run.rx.off) /\ f.off = WindowEnd(run.rx.off)
      /\ Gap(run.rx.off) = f.seq .. f.last /\ WindowEnd(run.rx.off) > run.rx.off
  BY <1>1, <1>2, <1>3, EndFacts
<1>6. run.rx.seq = -1 \/ run.rx.seq = run.rx.off
  <2>1. Numbered(run.rx)  BY LineNumbers
  <2>. QED  BY <2>1 DEF Numbered, NoCheckpoint
<1>7. Follows(f)  BY <1>4, <1>5, <1>6 DEF Follows
<1>. QED  BY <1>1, <1>2, <1>3, <1>4, <1>5, <1>7 DEF Missing

LEMMA WindowIncompleteAgrees == IInv /\ IInv' /\ Line /\ WindowIncomplete => Line'
<1>. SUFFICES ASSUME IInv, IInv', Line, WindowIncomplete  PROVE Line'  OBVIOUS
<1>. DEFINE f == Head(run.queue)
<1>1. Next1 /\ f.k = "end" /\ UNCHANGED <<store, body, link>> /\ (Follows(f) => Missing(f) # {})
  BY DEF WindowIncomplete, durable
<1>2. /\ Follows(f) /\ run.tc = "paused" /\ Tail(run.queue) = <<>> /\ run.rx.off # Units
      /\ Missing(f) \subseteq Gap(run.rx.off)  BY <1>1, WindowEnds
<1>3. /\ run.pc = "receive" /\ run.broken = "no" /\ Heeds(run) /\ Queued(run) /\ Counts(run)
      /\ Places(run) /\ Stages /\ run.held = <<>> /\ run \in Runs  BY <1>1, QueueHead
<1>. DEFINE m == Missing(f)
<1>4. run' = [run EXCEPT !.queue = Tail(@), !.pc = "repair", !.miss = m] /\ UNCHANGED radio
  BY <1>2 DEF WindowIncomplete, Took
<1>5. m # {} /\ m \subseteq Gap(run.rx.off)  BY <1>1, <1>2
<1>. HIDE DEF m
<1>6. /\ run'.queue = <<>> /\ run'.pc = "repair" /\ run'.tc = "paused" /\ run'.rx = run.rx
      /\ run'.held = <<>> /\ run'.repair = run.repair /\ run'.broken = "no"
      /\ run'.then = run.then /\ run'.ckpt = run.ckpt /\ run'.pend = run.pend
      /\ run'.miss = m /\ run'.pkts = run.pkts  BY <1>2, <1>3, <1>4 DEF Runs
<1>7. Heeds(run)'
  <2>1. Len(run'.queue) = 0 /\ Len(run'.held) = 0  BY <1>6, EmptySeq
  <2>2. Queued(run)'  BY <1>6, <2>1 DEF Queued
  <2>3. Counts(run)'  BY <1>2, <1>3, <1>5, <1>6 DEF Counts
  <2>4. Places(run)'
    <3>1. /\ "repair" \in Stopped /\ "repair" \in Controlled
          /\ "repair" \notin {"opening"} \cup Receiving \cup Whole \cup Confirming \cup Signing
      BY DEF Controlled, Receiving, Stopped, Whole, Confirming, Signing
    <3>. QED  BY <1>6, <3>1 DEF Places
  <2>. QED  BY <1>6, <2>1, <2>2, <2>3, <2>4 DEF Heeds
<1>8. Stages'  BY <1>1, <1>2, <1>3, <1>6 DEF Stages, Signing
<1>. QED  BY <1>1, <1>2, <1>3, <1>4, <1>6, <1>7, <1>8, LineNumbers, Taking

LEMMA WindowStagedAgrees == IInv /\ IInv' /\ Line /\ WindowStaged => Line'
<1>. SUFFICES ASSUME IInv, IInv', Line, WindowStaged  PROVE Line'  OBVIOUS
<1>. DEFINE f == Head(run.queue)
            pend == [session |-> run.session, off |-> f.off, seq |-> f.last]
<1>1. /\ Next1 /\ f.k = "end" /\ UNCHANGED <<store, link>> /\ UNCHANGED radio /\ body' = f.off
      /\ run' = [run EXCEPT !.queue = Tail(@), !.pc = "save", !.miss = {}, !.pend = pend]
  BY DEF WindowStaged, Took
<1>2. /\ run.tc = "paused" /\ Tail(run.queue) = <<>> /\ run.rx.off # Units
      /\ f.off = WindowEnd(run.rx.off) /\ f.last = f.off  BY <1>1, WindowEnds
<1>3. /\ run.pc = "receive" /\ run.broken = "no" /\ Heeds(run) /\ Queued(run) /\ Counts(run)
      /\ Places(run) /\ Stages /\ run.held = <<>> /\ run \in Runs  BY <1>1, QueueHead
<1>4. Numbered(pend) /\ pend.off = WindowEnd(run.rx.off) /\ body' = pend.off
  <2>1. WindowEnd(run.rx.off) > run.rx.off /\ run.rx.off \in 0 .. Units  BY <1>2, LineFields, EndFacts
  <2>2. pend.off = f.off /\ pend.seq = f.last  OBVIOUS
  <2>. HIDE DEF pend, f
  <2>3. pend.off > 0
    <3>1. WindowEnd(run.rx.off) \in Int  BY <2>1, ConstantTypes DEF WindowEnd
    <3>2. \A n, m \in Int : n > m /\ m >= 0 => n > 0  OBVIOUS
    <3>3. run.rx.off \in Int /\ run.rx.off >= 0  BY <2>1
    <3>. QED  BY <1>2, <2>1, <2>2, <3>1, <3>2, <3>3
  <2>4. body' = f.off  BY <1>1
  <2>5. pend.seq = pend.off  BY <1>2, <2>2
  <2>6. Numbered(pend)  BY <2>3, <2>5 DEF Numbered
  <2>. QED  BY <1>2, <2>2, <2>4, <2>6
<1>. HIDE DEF pend
<1>6. /\ run'.queue = <<>> /\ run'.pc = "save" /\ run'.tc = "paused" /\ run'.rx = run.rx
      /\ run'.held = <<>> /\ run'.repair = run.repair /\ run'.broken = "no"
      /\ run'.then = run.then /\ run'.ckpt = run.ckpt /\ run'.pend = pend
      /\ run'.miss = {} /\ run'.pkts = run.pkts  BY <1>1, <1>2, <1>3 DEF Runs
<1>7. Heeds(run)'
  <2>1. Len(run'.queue) = 0 /\ Len(run'.held) = 0  BY <1>6, EmptySeq
  <2>2. Queued(run)'  BY <1>6, <2>1 DEF Queued
  <2>3. Counts(run)'  BY <1>2, <1>3, <1>4, <1>6 DEF Counts
  <2>4. Places(run)'
    <3>1. /\ "save" \in Stopped /\ "save" \in Controlled
          /\ "save" \notin {"opening"} \cup Receiving \cup Whole \cup Confirming \cup Signing
      BY DEF Controlled, Receiving, Stopped, Whole, Confirming, Signing
    <3>. QED  BY <1>6, <3>1 DEF Places
  <2>. QED  BY <1>6, <2>1, <2>2, <2>3, <2>4 DEF Heeds
<1>8. Stages'  BY <1>4, <1>6 DEF Stages, Signing
<1>. QED  BY <1>1, <1>2, <1>3, <1>4, <1>6, <1>7, <1>8, Taking

\* The file ends where the checkpoint is.
LEMMA EofEnds ==
  ASSUME IInv, Line, Next1, NEW f, f = Head(run.queue), f.k = "eof"
  PROVE  /\ run.tc = "terminal" /\ run.pkts = {} /\ Tail(run.queue) = <<>>
         /\ body = Units /\ run.rx.seq = Units /\ f.seq = Units
<1>1. /\ Counts(run) /\ Stages /\ run.pc = "receive" /\ run.rx.off \in 0 .. Units
      /\ \/ Is(f, KindOf(run.rx.off), Wanted(run))
         \/ /\ f = EndOf(run.rx.off) /\ Tail(run.queue) = <<>>
            /\ run.tc \in {"paused", "terminal"}
  BY QueueHead
<1>2. f = EndOf(run.rx.off) /\ Tail(run.queue) = <<>> /\ run.tc \in {"paused", "terminal"}
  BY <1>1, EndFacts DEF Is
<1>3. run.rx.off = Units /\ f.seq = Units  BY <1>1, <1>2, EndFacts
<1>4. run.tc = "terminal" /\ run.pkts = {}
  <2>1. ~(Units < Units)  BY ConstantTypes
  <2>. QED  BY <1>1, <1>2, <1>3, <2>1 DEF Counts
<1>5. body = Units  BY <1>1, <1>3, <1>4 DEF Stages
<1>6. run.rx.seq = Units
  <2>1. Numbered(run.rx) /\ Units # 0  BY LineNumbers, ConstantTypes
  <2>. QED  BY <1>3, <2>1 DEF Numbered, NoCheckpoint
<1>. QED  BY <1>2, <1>3, <1>4, <1>5, <1>6

LEMMA ReceiveEofAgrees == IInv /\ IInv' /\ Line /\ ReceiveEof => Line'
<1>. SUFFICES ASSUME IInv, IInv', Line, ReceiveEof  PROVE Line'  OBVIOUS
<1>. DEFINE f == Head(run.queue)
<1>1. Next1 /\ f.k = "eof" /\ UNCHANGED <<store, body, link>>  BY DEF ReceiveEof, durable
<1>2. /\ run.pc = "receive" /\ run.broken = "no" /\ Heeds(run) /\ Queued(run) /\ Counts(run)
      /\ Places(run) /\ Stages /\ run.held = <<>> /\ run \in Runs  BY <1>1, QueueHead
<1>3. /\ run.tc = "terminal" /\ run.pkts = {} /\ Tail(run.queue) = <<>>
      /\ body = Units /\ run.rx.seq = Units /\ f.seq = Units  BY <1>1, EofEnds
<1>8. CASE Fail("integrity")  BY <1>1, <1>8, FailAgrees
<1>9. CASE run' = [run EXCEPT !.queue = Tail(@), !.pc = "evidence"] /\ UNCHANGED radio
  <2>1. /\ run'.queue = <<>> /\ run'.pc = "evidence" /\ run'.tc = "terminal" /\ run'.rx = run.rx
        /\ run'.held = <<>> /\ run'.repair = run.repair /\ run'.broken = "no"
        /\ run'.then = run.then /\ run'.ckpt = run.ckpt /\ run'.pend = run.pend
        /\ run'.miss = run.miss /\ run'.pkts = run.pkts  BY <1>2, <1>3, <1>9 DEF Runs
  <2>2. Heeds(run)'
    <3>1. Len(run'.queue) = 0 /\ Len(run'.held) = 0  BY <2>1, EmptySeq
    <3>2. Queued(run)'  BY <2>1, <3>1 DEF Queued
    <3>3. Counts(run)'  BY <1>2, <1>3, <2>1 DEF Counts
    <3>4. Places(run)'
      <4>1. /\ "evidence" \in Whole /\ "evidence" \in Controlled
            /\ "evidence" \notin {"opening"} \cup Receiving \cup Stopped \cup Confirming \cup Signing
        BY DEF Controlled, Receiving, Stopped, Whole, Confirming, Signing
      <4>. QED  BY <2>1, <4>1 DEF Places
    <3>. QED  BY <2>1, <3>1, <3>2, <3>3, <3>4 DEF Heeds
  <2>3. Stages'  BY <1>1, <1>2, <1>3, <2>1 DEF Stages, Signing
  <2>. QED  BY <1>1, <1>2, <1>3, <1>9, <2>1, <2>2, <2>3, LineNumbers, Taking
<1>. QED  BY <1>3, <1>8, <1>9 DEF ReceiveEof, Took

-----------------------------------------------------------------------------
(* Repairs, acknowledgements and the confirmation *)

\* Where the run is not opening a transfer, receiving or stopped, for the places below.
LEMMA PlaceNames ==
    /\ {"repairing", "acking", "receive"} \subseteq Receiving
    /\ {"repair", "save", "ack"} \subseteq Stopped /\ "confirm" \in Whole
    /\ {"confirming", "confirmed"} \subseteq Confirming
    /\ Receiving \cup Stopped \cup Whole \cup Confirming \subseteq Controlled
    /\ \A pc \in {"repairing", "acking", "receive"} :
          pc \notin {"opening"} \cup Stopped \cup Whole \cup Confirming \cup Signing
    /\ \A pc \in {"repair", "save", "ack"} :
          pc \notin {"opening"} \cup Receiving \cup Whole \cup Confirming \cup Signing
    /\ "confirm" \notin {"opening"} \cup Receiving \cup Stopped \cup Confirming \cup Signing
    /\ \A pc \in {"confirming", "confirmed"} :
          pc \notin {"opening"} \cup Receiving \cup Stopped \cup Whole \cup Signing
    /\ \A pc \in Receiving \cup Stopped \cup Whole \cup Confirming :
          pc \notin {"authorize", "open"}
    /\ "forget" \notin Controlled  BY DEF Controlled, Receiving, Stopped, Whole, Confirming, Signing

\* A run whose control is silent for a while.
LEMMA Quieted ==
  ASSUME IInv, Line, run.pc \in {"repair", "save", "ack", "confirm"}
  PROVE  /\ run.tc = (IF run.pc = "confirm" THEN "terminal" ELSE "paused") /\ run.queue = <<>>
         /\ run.held = <<>> /\ run.broken = "no" /\ Counts(run) /\ wire.k = "none"
         /\ Coming = air /\ Silent(air) /\ Stages /\ Heeds(run) /\ run \in Runs
         /\ Len(<<>>) = 0
<1>1. Heeds(run) /\ Places(run) /\ Travels /\ Stages  BY DEF Line, Heeds
<1>2. run.tc = (IF run.pc = "confirm" THEN "terminal" ELSE "paused") /\ run.queue = <<>>
  BY <1>1, PlaceNames DEF Places
<1>3. run.held = <<>> /\ run.broken = "no" /\ Counts(run)  BY <1>1, <1>2 DEF Heeds
<1>4. wire.k = "none"  BY DEF IInv, Asks
<1>5. Silent(Coming)  BY <1>1, <1>2, <1>3, <1>4 DEF Travels, Due, Requesting
<1>. QED  BY <1>1, <1>2, <1>3, <1>4, <1>5, LineFields, EmptySeq

LEMMA SendRepairAgrees == IInv /\ IInv' /\ Line /\ SendRepair => Line'
<1>. SUFFICES ASSUME IInv, IInv', Line, SendRepair  PROVE Line'  OBVIOUS
<1>1. /\ run.pc = "repair" /\ UNCHANGED <<store, body, link, air, dev>>
      /\ wire' = [Nothing EXCEPT !.k = "repair", !.miss = run.miss]
      /\ run' = [run EXCEPT !.pc = "repairing", !.tc = "repair", !.repair = run.miss]
  BY DEF SendRepair, durable
<1>2. /\ run.tc = "paused" /\ run.queue = <<>> /\ run.held = <<>> /\ run.broken = "no"
      /\ Counts(run) /\ wire.k = "none" /\ Coming = air /\ Silent(air) /\ Stages /\ Heeds(run)
      /\ run \in Runs /\ Len(<<>>) = 0  BY <1>1, Quieted
<1>3. wire'.k = "repair" /\ wire'.miss = run.miss  BY <1>1 DEF Nothing
<1>4. /\ run'.pc = "repairing" /\ run'.tc = "repair" /\ run'.repair = run.miss
      /\ run'.queue = <<>> /\ run'.held = <<>> /\ run'.broken = "no" /\ run'.rx = run.rx
      /\ run'.pend = run.pend /\ run'.pkts = run.pkts /\ run'.miss = run.miss
      /\ run'.then = run.then /\ run'.ckpt = run.ckpt  BY <1>1, <1>2 DEF Runs
<1>5. Heeds(run)'
  <2>1. Places(run)'  BY <1>4, PlaceNames DEF Places
  <2>2. Queued(run)'  BY <1>2, <1>4 DEF Queued
  <2>3. Counts(run)'  BY <1>1, <1>2, <1>4 DEF Counts
  <2>. QED  BY <1>2, <1>4, <2>1, <2>2, <2>3 DEF Heeds
<1>6. Coming' = air  BY <1>1, <1>4, LineFields, ConcatEmptySeq DEF Coming
<1>7. Numbers' /\ Stages'  BY <1>1, <1>2, <1>4, PlaceNames DEF Line, Numbers, Stages
<1>8. Asked' /\ Based' /\ Travels'
  BY <1>1, <1>2, <1>3, <1>4, <1>6 DEF Line, Asked, Based, Travels, Requesting
<1>. QED  BY <1>2, <1>4, <1>5, <1>7, <1>8 DEF Line

LEMMA RepairingAgrees == IInv /\ IInv' /\ Line /\ Repairing => Line'
<1>. SUFFICES ASSUME IInv, IInv', Line, Repairing  PROVE Line'  OBVIOUS
<1>1. /\ run.pc = "repairing" /\ wire.k = "none" /\ Goto("receive")
      /\ UNCHANGED <<store, body, link, wire, air, dev>>  BY DEF Repairing, durable, radio
<1>2. /\ SameExpected /\ run'.pc = "receive" /\ run'.ckpt = run.ckpt /\ run'.pend = run.pend
  BY <1>1, GotoSame
<1>3. Heeds(run) /\ Places(run) /\ Stages /\ run.tc \in {"repair", "paused"} /\ run.held = <<>>
  BY <1>1 DEF Line, Heeds, Places
<1>4. Places(run)'  BY <1>1, <1>2, <1>3, PlaceNames DEF Places, SameExpected
<1>5. Heeds(run)'  BY <1>1, <1>2, <1>3, <1>4, HeedsKept DEF SameExpected
<1>6. Stages'  BY <1>1, <1>2, <1>3, PlaceNames DEF Stages, SameExpected
<1>. QED  BY <1>1, <1>2, <1>5, <1>6, LineNumbers, Steady

LEMMA SaveCheckpointAgrees == IInv /\ IInv' /\ Line /\ SaveCheckpoint => Line'
<1>. SUFFICES ASSUME IInv, IInv', Line, SaveCheckpoint  PROVE Line'  OBVIOUS
<1>1. /\ run.pc = "save" /\ UNCHANGED <<body, link, wire, air, dev>> /\ run \in Runs
      /\ store'.ckpt = run.pend /\ run' = [run EXCEPT !.pc = "ack", !.ckpt = run.pend]
  BY LineFields DEF SaveCheckpoint, SaveState, Stores, radio
<1>2. /\ SameExpected /\ run'.pc = "ack" /\ run'.ckpt = run.pend /\ run'.pend = run.pend
  BY <1>1 DEF Runs, SameExpected
<1>3. Heeds(run) /\ Places(run) /\ Stages /\ run.tc = "paused" /\ run.queue = <<>> /\ run.held = <<>>
  BY <1>1, Quieted DEF Heeds
<1>4. Places(run)'  BY <1>2, <1>3, PlaceNames DEF Places, SameExpected
<1>5. Heeds(run)'  BY <1>1, <1>2, <1>3, <1>4, HeedsKept DEF SameExpected
<1>6. Stages'  BY <1>1, <1>2, <1>3, PlaceNames DEF Stages, SameExpected
<1>. QED  BY <1>1, <1>2, <1>5, <1>6, LineNumbers, Steady

LEMMA SendAckAgrees == IInv /\ IInv' /\ Line /\ SendAck => Line'
<1>. SUFFICES ASSUME IInv, IInv', Line, SendAck  PROVE Line'  OBVIOUS
<1>. DEFINE tc == IF run.pend.off = Units THEN "manifest" ELSE "window"
<1>1. /\ run.pc = "ack" /\ UNCHANGED <<store, body, link, air, dev>>
      /\ wire' = [Nothing EXCEPT !.k = "ack", !.off = run.pend.off]
      /\ run' = [run EXCEPT !.pc = "acking", !.rx = run.pend, !.pkts = {}, !.tc = tc]
  BY DEF SendAck, durable
<1>2. /\ run.tc = "paused" /\ run.queue = <<>> /\ run.held = <<>> /\ run.broken = "no"
      /\ Counts(run) /\ wire.k = "none" /\ Coming = air /\ Silent(air) /\ Stages /\ Heeds(run)
      /\ run \in Runs /\ Len(<<>>) = 0  BY <1>1, Quieted
<1>3. wire'.k = "ack" /\ wire'.off = run.pend.off  BY <1>1 DEF Nothing
<1>4. /\ tc \in {"manifest", "window"} /\ (tc = "manifest" => run.pend.off = Units)
      /\ (tc = "window" => run.pend.off < Units)
  <2>1. run.pend.off \in 0 .. Units /\ Units \in Nat  BY LineFields, ConstantTypes
  <2>. QED  BY <2>1
<1>. HIDE DEF tc
<1>5. /\ run'.pc = "acking" /\ run'.tc = tc /\ run'.rx = run.pend /\ run'.pkts = {}
      /\ run'.queue = <<>> /\ run'.held = <<>> /\ run'.broken = "no"
      /\ run'.pend = run.pend /\ run'.miss = run.miss
      /\ run'.then = run.then /\ run'.ckpt = run.ckpt  BY <1>1, <1>2 DEF Runs
<1>6. Heeds(run)'
  <2>1. Places(run)'  BY <1>4, <1>5, PlaceNames DEF Places
  <2>2. Queued(run)'  BY <1>2, <1>4, <1>5 DEF Queued
  <2>3. Counts(run)'
    <3>1. run'.miss = {}  BY <1>1, <1>2, <1>5 DEF Counts
    <3>. QED  BY <1>4, <1>5, <3>1 DEF Counts
  <2>. QED  BY <1>2, <1>4, <1>5, <2>1, <2>2, <2>3 DEF Heeds
<1>7. Coming' = air  BY <1>1, <1>5, LineFields, ConcatEmptySeq DEF Coming
<1>8. Numbers'  BY <1>1, <1>5 DEF Line, Numbers
<1>9. Stages'
  <2>1. body = run.pend.off  BY <1>1, <1>2 DEF Stages
  <2>. QED  BY <1>1, <1>4, <1>5, <2>1, PlaceNames DEF Stages
<1>10. Asked' /\ Based' /\ Travels'
  <2>1. dev.num = 0  BY <1>2 DEF Line, Based
  <2>. QED  BY <1>1, <1>2, <1>3, <1>4, <1>5, <1>7, <2>1 DEF Asked, Based, Travels, Requesting
<1>. QED  BY <1>2, <1>5, <1>6, <1>8, <1>9, <1>10 DEF Line

LEMMA AckedAgrees == IInv /\ IInv' /\ Line /\ Acked => Line'
<1>. SUFFICES ASSUME IInv, IInv', Line, Acked  PROVE Line'  OBVIOUS
<1>1. /\ run.pc = "acking" /\ wire.k = "none" /\ run \in Runs
      /\ run' = [run EXCEPT !.pc = "receive", !.pend = NoCheckpoint]
      /\ UNCHANGED <<store, body, link, wire, air, dev>>  BY LineFields DEF Acked, durable, radio
<1>2. /\ SameExpected /\ run'.pc = "receive" /\ run'.ckpt = run.ckpt /\ run'.pend = NoCheckpoint
  BY <1>1 DEF Runs, SameExpected
<1>3. /\ Heeds(run) /\ Places(run) /\ Stages /\ run.held = <<>> /\ run.broken = "no"
      /\ run.tc \in {"window", "paused", "manifest", "terminal"}
  BY <1>1, PlaceNames DEF Line, Heeds, Places
<1>4. Places(run)'  BY <1>1, <1>2, <1>3, PlaceNames DEF Places, SameExpected
<1>5. Heeds(run)'  BY <1>1, <1>2, <1>3, <1>4, HeedsKept DEF SameExpected
<1>6. Stages'  BY <1>1, <1>2, <1>3, PlaceNames DEF Stages, SameExpected
<1>. QED  BY <1>1, <1>2, <1>5, <1>6, LineNumbers, NumbersFacts, Steady

LEMMA SendConfirmAgrees == IInv /\ IInv' /\ Line /\ SendConfirm => Line'
<1>. SUFFICES ASSUME IInv, IInv', Line, SendConfirm  PROVE Line'  OBVIOUS
<1>1. /\ run.pc = "confirm" /\ UNCHANGED <<store, body, link, air, dev>>
      /\ wire' = [Nothing EXCEPT !.k = "confirm"]
      /\ run' = [run EXCEPT !.pc = "confirming", !.tc = "confirming"]  BY DEF SendConfirm, durable
<1>2. /\ run.tc = "terminal" /\ run.queue = <<>> /\ run.held = <<>> /\ run.broken = "no"
      /\ Counts(run) /\ wire.k = "none" /\ Coming = air /\ Silent(air) /\ Stages /\ Heeds(run)
      /\ run \in Runs /\ Len(<<>>) = 0  BY <1>1, Quieted
<1>3. wire'.k \notin Requesting  BY <1>1 DEF Nothing, Requesting
<1>4. /\ run'.pc = "confirming" /\ run'.tc = "confirming"
      /\ run'.queue = <<>> /\ run'.held = <<>> /\ run'.broken = "no" /\ run'.rx = run.rx
      /\ run'.pend = run.pend /\ run'.then = run.then /\ run'.ckpt = run.ckpt  BY <1>1, <1>2 DEF Runs
<1>5. Heeds(run)'
  <2>1. Places(run)'  BY <1>4, PlaceNames DEF Places
  <2>2. Queued(run)' /\ Counts(run)'  BY <1>2, <1>4 DEF Queued, Counts
  <2>. QED  BY <1>2, <1>4, <2>1, <2>2 DEF Heeds
<1>6. Coming' = air  BY <1>1, <1>4, LineFields, ConcatEmptySeq DEF Coming
<1>7. Numbers' /\ Stages'  BY <1>1, <1>4, PlaceNames DEF Line, Numbers, Stages
<1>8. Asked' /\ Based' /\ Travels'  BY <1>2, <1>3, <1>4, <1>6 DEF Asked, Based, Travels, Due, Requesting
<1>. QED  BY <1>2, <1>4, <1>5, <1>7, <1>8 DEF Line

LEMMA ConfirmWrittenAgrees == IInv /\ IInv' /\ Line /\ ConfirmWritten => Line'
<1>. SUFFICES ASSUME IInv, IInv', Line, ConfirmWritten  PROVE Line'  OBVIOUS
<1>1. /\ run.pc = "confirming" /\ Goto("confirmed")
      /\ UNCHANGED <<store, body, link, wire, air, dev>>  BY DEF ConfirmWritten, durable, radio
<1>2. /\ SameExpected /\ run'.pc = "confirmed" /\ run'.ckpt = run.ckpt /\ run'.pend = run.pend
  BY <1>1, GotoSame
<1>3. Heeds(run) /\ Places(run) /\ Stages /\ run.tc = "confirming" /\ run.held = <<>>
  BY <1>1, PlaceNames DEF Line, Heeds, Places
<1>4. Places(run)'  BY <1>1, <1>2, <1>3, PlaceNames DEF Places, SameExpected
<1>5. Heeds(run)'  BY <1>1, <1>2, <1>3, <1>4, HeedsKept DEF SameExpected
<1>6. Stages'  BY <1>1, <1>2, <1>3, PlaceNames DEF Stages, SameExpected
<1>. QED  BY <1>1, <1>2, <1>5, <1>6, LineNumbers, Steady

LEMMA ConfirmedAgrees == IInv /\ IInv' /\ Line /\ Confirmed => Line'
<1>. SUFFICES ASSUME IInv, IInv', Line, Confirmed  PROVE Line'  OBVIOUS
<1>1. /\ run.pc = "confirmed" /\ UNCHANGED <<body, link, wire, air, dev>> /\ run \in Runs
      /\ store'.ckpt = store.ckpt  BY LineFields DEF Confirmed, Stores, radio
<1>2. /\ run.tc = "confirming" /\ run.queue = <<>> /\ run.held = <<>> /\ run.broken = "no"
      /\ Travels  BY <1>1, PlaceNames DEF Line, Heeds, Places, Queued
<1>3. wire.k = "none"  BY <1>1 DEF IInv, Asks
<1>4. Silent(air)  BY <1>2, <1>3, LineFields DEF Travels, Due, Requesting
<1>5. CASE Settle("error")  BY <1>1, <1>3, <1>4, <1>5, LineNumbers, SettleAgrees DEF Requesting
<1>6. CASE run' = [run EXCEPT !.pc = "forget", !.phase = "confirmed", !.tc = "none"]
  <2>1. /\ run'.pc = "forget" /\ run'.tc = "none" /\ run'.queue = <<>> /\ run'.held = <<>>
        /\ run'.broken = "no" /\ run'.rx = run.rx /\ run'.pend = run.pend
        /\ run'.then = run.then /\ run'.ckpt = run.ckpt  BY <1>1, <1>2, <1>6 DEF Runs
  <2>2. Numbers'  BY <1>1, <2>1 DEF Line, Numbers
  <2>3. run'.pc \notin {"authorize", "open"} \cup Signing  BY <2>1, PcPlaces
  <2>. QED  BY <1>1, <1>2, <1>3, <1>4, <2>1, <2>2, <2>3, PlaceNames, Rests DEF Requesting
<1>. QED  BY <1>5, <1>6 DEF Confirmed

-----------------------------------------------------------------------------
(* Nothing but what is expected comes *)

LEMMA LineStarts == Init => Line
<1>. SUFFICES ASSUME Init  PROVE Line  OBVIOUS
<1>1. /\ store = NoOperation /\ body = 0 /\ run = NoRun /\ wire = Nothing /\ air = <<>>  BY DEF Init
<1>2. /\ run.tc = "none" /\ run.held = <<>> /\ run.queue = <<>>
      /\ run.broken = "no" /\ run.pc = "idle" /\ run.rx = NoCheckpoint /\ run.ckpt = NoCheckpoint
      /\ run.pend = NoCheckpoint /\ store.ckpt = NoCheckpoint  BY <1>1, NumbersFacts
<1>3. Coming = <<>> /\ Len(<<>>) = 0  BY <1>1, <1>2, ConcatEmptySeq, EmptySeq DEF Coming
<1>4. Heeds(run)
  <2>1. /\ "idle" \notin {"opening"} \cup Receiving \cup Stopped \cup Whole \cup Confirming \cup Signing
    BY DEF Receiving, Stopped, Whole, Confirming, Signing
  <2>2. Places(run)  BY <1>2, <2>1 DEF Places
  <2>3. Queued(run) /\ Counts(run)  BY <1>2, <1>3 DEF Queued, Counts
  <2>. QED  BY <1>2, <1>3, <2>2, <2>3 DEF Heeds
<1>5. Numbers /\ Stages  BY <1>1, <1>2, NumbersFacts DEF Numbers, Stages
<1>6. Asked /\ Based /\ Travels  BY <1>1, <1>2, <1>3, NoRequest DEF Asked, Based, Travels, Due, Requesting
<1>. QED  BY <1>2, <1>4, <1>5, <1>6 DEF Line

LEMMA LineStutters == Line /\ UNCHANGED vars => Line'
<1>. SUFFICES ASSUME Line, UNCHANGED vars  PROVE Line'  OBVIOUS
<1>1. UNCHANGED <<store, body, run, link, wire, air, dev>>  BY DEF vars, durable, radio
<1>2. Heeds(run)'  BY <1>1 DEF Line, Heeds, Places, Queued, Wanted, Counts
<1>3. Numbers' /\ Stages' /\ Asked' /\ Based'  BY <1>1 DEF Line, Numbers, Stages, Asked, Based, Coming
<1>4. Travels'  BY <1>1 DEF Line, Travels, Coming, Due, Replying
<1>. QED  BY <1>1, <1>2, <1>3, <1>4 DEF Line

-----------------------------------------------------------------------------
(* A transfer that resumes: its windows never follow what is acknowledged *)

\* The ends that a device sends which numbers anew: the first window's begins with 1,
\* a transfer of nothing ends with 0.
Anew == {f \in FrameSet : (f.k = "end" => f.seq = 1) /\ (f.k = "eof" => f.seq = 0)}

\* From the acceptance of RESUME to the first end, at which the run fails.
Resumed ==
    /\ dev.num # 0 /\ Numbered(store.ckpt) /\ run.rx.seq >= 1 /\ wire.k = "none"
    /\ run.pc \in {"opening", "replaying", "receive"}
    /\ air \in Seq(Anew) /\ run.held \in Seq(Anew) /\ run.queue \in Seq(Anew)
    /\ run.pc = "opening" =>
          \/ run.tc = "awaiting_control" /\ run.reply = NoFrame /\ air # <<>>
             /\ Head(air).k = "resume_accept"
          \/ run.tc = "control_pending" /\ run.reply.k = "resume_accept"

\* What a frame that is no end is.
LEMMA AnewFrame ==
  ASSUME NEW f \in FrameSet, f.k \notin {"end", "eof"}
  PROVE  f \in Anew
  BY DEF Anew

LEMMA AnewTail ==
  ASSUME NEW s \in Seq(Anew), s # <<>>
  PROVE  Tail(s) \in Seq(Anew) /\ Head(s) \in Anew
  OBVIOUS

\* The frames of a resumption.
LEMMA FramesAnew ==
  ASSUME NEW base \in 0 .. Units
  PROVE  Frames(base, base) \in Seq(Anew)
<1>1. CASE base = Units
  <2>. DEFINE m == [NoFrame EXCEPT !.k = "manifest"]
              e == [NoFrame EXCEPT !.k = "eof", !.seq = Units - base]
  <2>1. m \in Anew /\ e \in Anew
    <3>1. Units - base = 0  BY <1>1, ConstantTypes
    <3>. QED  BY <3>1, EmptyTypes DEF Anew, FrameSet, FrameKinds, NoFrame
  <2>. HIDE DEF m, e
  <2>2. <<m, e>> \in Seq(Anew)  BY <2>1
  <2>. QED  BY <1>1, <2>2 DEF Frames, ManifestFrames, m, e
<1>2. CASE base # Units
  <2>. DEFINE n == WindowEnd(base) - base
              data(i) == [NoFrame EXCEPT !.k = "data", !.seq = base + i - base]
              Data == [i \in 1 .. n |-> data(i)]
              end == [k |-> "end", seq |-> base + 1 - base, last |-> WindowEnd(base) - base,
                      off |-> WindowEnd(base)]
              p == [i \in 1 .. n |-> base + i - base]
  <2>1. n \in Nat /\ WindowEnd(base) \in 0 .. Units /\ base + 1 - base = 1  BY ConstantTypes DEF WindowEnd
  <2>2. end \in Anew  BY <2>1, ConstantTypes DEF Anew, FrameSet, FrameKinds
  <2>3. ASSUME NEW i \in 1 .. n  PROVE data(i) \in Anew
    <3>1. base + i - base \in Int  BY <2>1
    <3>2. ASSUME NEW j \in Int  PROVE [NoFrame EXCEPT !.k = "data", !.seq = j] \in Anew
      BY EmptyTypes DEF Anew, FrameSet, FrameKinds, NoFrame
    <3>. QED  BY <3>1, <3>2
  <2>4. p \in Seq(Int) /\ Len(p) = n /\ \A i \in 1 .. n : p[i] = base + i - base
    <3>. HIDE DEF n
    <3>. QED  BY <2>1
  <2>5. Frames(base, base) = Append([i \in 1 .. Len(p) |-> [NoFrame EXCEPT !.k = "data", !.seq = p[i]]], end)
    <3>1. Frames(base, base) = WindowFrames(base, base, p)  BY <1>2 DEF Frames
    <3>. QED  BY <3>1 DEF WindowFrames
  <2>6. [i \in 1 .. Len(p) |-> [NoFrame EXCEPT !.k = "data", !.seq = p[i]]] = Data
    <3>. HIDE DEF n, p
    <3>. QED  BY <2>4
  <2>. HIDE DEF data, end, n, p
  <2>7. Data \in Seq(Anew)  BY <2>1, <2>3
  <2>. HIDE DEF Data
  <2>8. Frames(base, base) = Append(Data, end)  BY <2>5, <2>6, Zenon
  <2>9. Append(Data, end) \in Seq(Anew)  BY <2>2, <2>7, AppendProperties
  <2>. QED  BY <2>8, <2>9
<1>. QED  BY <1>1, <1>2

\* Accepting a frame adds it to the queue, or empties the queue.
LEMMA AcceptAnew ==
  ASSUME NEW r \in Runs, r.queue \in Seq(Anew), NEW f \in Anew
  PROVE  Accept(r, f).queue \in Seq(Anew)
<1>1. Append(r.queue, f) \in Seq(Anew) /\ <<>> \in Seq(Anew)  BY AppendProperties
<1>. QED  BY <1>1 DEF Accept, Break, Runs

LEMMA DeviceAcceptsAgrees == IInv /\ IInv' /\ Line /\ DeviceAccepts => Resumed'
<1>. SUFFICES ASSUME IInv, IInv', Line, DeviceAccepts  PROVE Resumed'  OBVIOUS
<1>. DEFINE f == [NoFrame EXCEPT !.k = "resume_accept", !.off = wire.off]
            s == Frames(wire.off, wire.off)
<1>1. /\ wire.k = "resume" /\ wire' = Nothing /\ air' = <<f>> \o s /\ UNCHANGED <<store, body, run, link>>
      /\ dev' = [dev EXCEPT !.mode = "open", !.base = wire.off, !.num = wire.off, !.acked = wire.off]
  BY DEF DeviceAccepts, Answers, durable
<1>2. /\ wire.off = run.rx.off /\ run.tc = "awaiting_control" /\ run.rx # NoCheckpoint
      /\ Numbered(run.rx) /\ Numbered(store.ckpt) /\ Heeds(run) /\ run.pc = "opening"
  BY <1>1 DEF Line, Asked, Numbers, IInv, Asks
<1>3. run.rx.seq = run.rx.off /\ run.rx.off > 0 /\ run.rx.off \in 0 .. Units
  BY <1>2, LineFields DEF Numbered
<1>4. run.held = <<>> /\ run.queue = <<>> /\ run.reply = NoFrame  BY <1>2 DEF Heeds, Queued
<1>5. f \in FrameSet /\ f \in Anew /\ f.k = "resume_accept"
  BY <1>2, <1>3, EmptyTypes DEF Anew, FrameSet, FrameKinds, NoFrame
<1>6. s \in Seq(FrameSet) /\ s \in Seq(Anew)  BY <1>2, <1>3, FramesType, FramesAnew
<1>7. dev'.num = wire.off  BY <1>1, LineFields DEF Devices
<1>. HIDE DEF f, s
<1>8. air' # <<>> /\ Head(air') = f  BY <1>1, <1>5, <1>6, FirstThen
<1>9. air' \in Seq(Anew)
  <2>1. <<f>> \in Seq(Anew)  BY <1>5
  <2>. QED  BY <1>1, <1>6, <2>1, ConcatProperties
<1>10. <<>> \in Seq(Anew) /\ Nothing.k = "none"  BY DEF Nothing
<1>. QED  BY <1>1, <1>2, <1>3, <1>4, <1>5, <1>7, <1>8, <1>9, <1>10 DEF Resumed

LEMMA ResumedFields ==
  ASSUME IInv, Resumed
  PROVE  /\ run \in Runs /\ run.pc \in {"opening", "replaying", "receive"} /\ wire.k = "none"
         /\ air \in Seq(FrameSet) /\ run.held \in Seq(FrameSet) /\ run.queue \in Seq(FrameSet)
         /\ Numbered(store.ckpt) /\ dev \in Devices
         /\ run.pc \notin Attempted \cup Signing \cup Cleaning \cup Storing \cup Asking \cup {"idle"}
  BY LineFields DEF Resumed, Attempted, Signing, Cleaning, Storing, Asking

\* What the host does not do meanwhile.
LEMMA ResumedWaits ==
  IInv /\ Resumed => /\ ~(Provided \/ SaveOperation \/ Transferring \/ Truncate \/ Authorize)
                     /\ ~(SendBlob \/ CommitBlob \/ Committed \/ BlobSent \/ BlobTimesOut \/ Open)
                     /\ ~(OpenRejected \/ DeleteCheckpoint \/ TruncateAll)
                     /\ ~(SendRepair \/ Repairing \/ SaveCheckpoint \/ SendAck \/ Acked)
                     /\ ~(Evidence \/ Staged \/ Uploading \/ Put \/ SubmitManifest \/ Finalize)
                     /\ ~(Receipt \/ CloudCompleted \/ DeliverReceipt \/ SendConfirm \/ ConfirmWritten)
                     /\ ~(Confirmed \/ Forget \/ Reload \/ DropCheckpoint \/ DropBlob \/ DropOperation)
                     /\ ~(Sync \/ Resume \/ Replaced \/ Connect)
<1>. SUFFICES ASSUME IInv, Resumed
              PROVE  /\ ~(Provided \/ SaveOperation \/ Transferring \/ Truncate \/ Authorize)
                     /\ ~(SendBlob \/ CommitBlob \/ Committed \/ BlobSent \/ BlobTimesOut \/ Open)
                     /\ ~(OpenRejected \/ DeleteCheckpoint \/ TruncateAll)
                     /\ ~(SendRepair \/ Repairing \/ SaveCheckpoint \/ SendAck \/ Acked)
                     /\ ~(Evidence \/ Staged \/ Uploading \/ Put \/ SubmitManifest \/ Finalize)
                     /\ ~(Receipt \/ CloudCompleted \/ DeliverReceipt \/ SendConfirm \/ ConfirmWritten)
                     /\ ~(Confirmed \/ Forget \/ Reload \/ DropCheckpoint \/ DropBlob \/ DropOperation)
                     /\ ~(Sync \/ Resume \/ Replaced \/ Connect)
  OBVIOUS
<1>1. run.pc \in {"opening", "replaying", "receive"}  BY DEF Resumed
<1>2. ~(Provided \/ SaveOperation \/ Transferring \/ Truncate \/ Authorize)
  BY <1>1 DEF Provided, SaveOperation, Transferring, Truncate, Authorize, SavePhase, StartBlob
<1>3. ~(SendBlob \/ CommitBlob \/ Committed \/ BlobSent \/ BlobTimesOut \/ Open)
  BY <1>1 DEF SendBlob, CommitBlob, Committed, BlobSent, BlobTimesOut, Open
<1>4. ~(OpenRejected \/ DeleteCheckpoint \/ TruncateAll)
  <2>1. run.pc = "opening" => run.reply.k \notin {"resume_reject", "error"}  BY DEF Resumed, NoFrame
  <2>. QED  BY <1>1, <2>1 DEF OpenRejected, DeleteCheckpoint, TruncateAll
<1>5. ~(SendRepair \/ Repairing \/ SaveCheckpoint \/ SendAck \/ Acked)
  BY <1>1 DEF SendRepair, Repairing, SaveCheckpoint, SendAck, Acked
<1>6. ~(Evidence \/ Staged \/ Uploading \/ Put \/ SubmitManifest \/ Finalize)
  BY <1>1 DEF Evidence, Staged, Uploading, SavePhase, Put, SubmitManifest, Finalize
<1>7. ~(Receipt \/ CloudCompleted \/ DeliverReceipt \/ SendConfirm \/ ConfirmWritten)
  BY <1>1 DEF Receipt, CloudCompleted, SavePhase, DeliverReceipt, StartBlob, SendConfirm, ConfirmWritten
<1>8. ~(Confirmed \/ Forget \/ Reload \/ DropCheckpoint \/ DropBlob \/ DropOperation)
  BY <1>1 DEF Confirmed, Forget, Reload, DropCheckpoint, DropBlob, DropOperation
<1>9. ~(Sync \/ Resume \/ Replaced \/ Connect)  BY <1>1 DEF Sync, Resume, Replaced, Connect
<1>. QED  BY <1>2, <1>3, <1>4, <1>5, <1>6, <1>7, <1>8, <1>9

\* The run ends and leaves the checkpoint as it is.
LEMMA ResumedStops ==
  ASSUME IInv, IInv', Resumed, NEW e, run' = Failed(e), store' = store, wire' = Nothing,
         link' = "up" => air' = <<>>
  PROVE  Line'
<1>1. /\ run'.pc \in {"idle", "reload"} /\ run'.then = e /\ run'.tc = "none" /\ run'.held = <<>>
      /\ run'.queue = <<>> /\ run'.broken = "no" /\ run'.ckpt = NoCheckpoint
      /\ run'.rx = NoCheckpoint /\ run'.pend = NoCheckpoint  BY FailedRun
<1>2. Numbered(store'.ckpt)  BY DEF Resumed
<1>. QED  BY <1>1, <1>2, NoRequest, NumbersFacts, Ended

LEMMA ResumedFails ==
  ASSUME IInv, IInv', Resumed, NEW e, Fail(e), store' = store
  PROVE  Line'
  BY FailEnds DEF Resumed

\* The first window of the resumption does not follow, and the last number of a
\* transfer of nothing is not that of the checkpoint.
LEMMA ResumedEnds ==
  IInv /\ IInv' /\ Resumed /\ (WindowIncomplete \/ WindowStaged \/ FlushFails \/ ReceiveEof \/ PumpFails)
     => Line'
<1>. SUFFICES ASSUME IInv, IInv', Resumed,
                     WindowIncomplete \/ WindowStaged \/ FlushFails \/ ReceiveEof \/ PumpFails
              PROVE  Line'
  OBVIOUS
<1>. DEFINE f == Head(run.queue)
<1>1. run.rx.seq >= 1 /\ run.rx.seq \in Int /\ (run.queue # <<>> => f \in Anew)
  BY AnewTail, LineFields DEF Resumed, Checkpoints
<1>2. ~Follows(f) \/ f.k # "end" \/ run.queue = <<>>  BY <1>1 DEF Anew, Follows
<1>3. f.k = "eof" /\ run.queue # <<>> => run.rx.seq # f.seq  BY <1>1 DEF Anew
<1>4. CASE WindowIncomplete  BY <1>2, <1>4, ResumedFails DEF WindowIncomplete, Next1, durable
<1>5. CASE ReceiveEof  BY <1>3, <1>5, ResumedFails DEF ReceiveEof, Next1, durable
<1>6. CASE PumpFails  BY <1>6, ResumedFails DEF PumpFails, durable
<1>7. ~WindowStaged /\ ~FlushFails  BY <1>2 DEF WindowStaged, FlushFails, Next1
<1>. QED  BY <1>4, <1>5, <1>6, <1>7

\* The control is opened, and takes what was held.
LEMMA ResumedOpens ==
  IInv /\ IInv' /\ Resumed /\ (Opened \/ ReplayHeld) => Resumed'
<1>. SUFFICES ASSUME IInv, IInv', Resumed, Opened \/ ReplayHeld  PROVE Resumed'  OBVIOUS
<1>1. /\ run \in Runs /\ UNCHANGED <<store, wire, air, dev>>
  BY LineFields DEF Opened, ReplayHeld, durable, radio
<1>2. CASE Opened
  <2>1. run' = [run EXCEPT !.pc = "replaying", !.tc = FirstPhase]  BY <1>2 DEF Opened
  <2>2. /\ run'.pc = "replaying" /\ run'.rx = run.rx /\ run'.held = run.held
        /\ run'.queue = run.queue  BY <1>1, <2>1 DEF Runs
  <2>. QED  BY <1>1, <2>2 DEF Resumed
<1>3. CASE ReplayHeld /\ run.held = <<>>
  <2>1. run' = [run EXCEPT !.pc = "receive"]  BY <1>3 DEF ReplayHeld, Goto
  <2>2. /\ run'.pc = "receive" /\ run'.rx = run.rx /\ run'.held = run.held
        /\ run'.queue = run.queue  BY <1>1, <2>1 DEF Runs
  <2>. QED  BY <1>1, <2>2 DEF Resumed
<1>4. CASE ReplayHeld /\ run.held # <<>>
  <2>. DEFINE f == Head(run.held)
              x == Accept(run, f)
  <2>1. run' = [x EXCEPT !.held = Tail(@)] /\ run.pc = "replaying"  BY <1>4 DEF ReplayHeld
  <2>2. f \in Anew /\ f \in FrameSet /\ Tail(run.held) \in Seq(Anew)  BY <1>4, AnewTail DEF Resumed, Anew
  <2>3. x.queue \in Seq(Anew)  BY <1>1, <2>2, AcceptAnew DEF Resumed
  <2>4. x \in Runs /\ \E tc \in Expected, repair \in SUBSET Int, queue \in Seq(FrameSet), broken \in Breaks :
               x = [run EXCEPT !.tc = tc, !.repair = repair, !.queue = queue, !.broken = broken]
    BY <1>1, <2>2, AcceptType
  <2>5. x.pc = run.pc /\ x.rx = run.rx /\ x.held = run.held  BY <1>1, <2>4 DEF Runs
  <2>. HIDE DEF x, f
  <2>6. /\ run'.pc = "replaying" /\ run'.rx = run.rx /\ run'.held = Tail(run.held)
        /\ run'.queue = x.queue  BY <2>1, <2>4, <2>5 DEF Runs
  <2>. QED  BY <1>1, <2>2, <2>3, <2>6 DEF Resumed
<1>. QED  BY <1>2, <1>3, <1>4

\* The pump takes a packet or the manifest, or refuses a packet.
LEMMA ResumedTakes ==
  IInv /\ IInv' /\ Resumed /\ (ReceiveData \/ ReceiveManifest) => Line' \/ Resumed'
<1>. SUFFICES ASSUME IInv, IInv', Resumed, ReceiveData \/ ReceiveManifest  PROVE Line' \/ Resumed'  OBVIOUS
<1>1. run \in Runs /\ store' = store /\ run.pc = "receive" /\ Tail(run.queue) \in Seq(Anew)
  BY LineFields, AnewTail DEF ReceiveData, ReceiveManifest, Next1, durable, Resumed
<1>2. ASSUME UNCHANGED radio, NEW q,
             q \in {[run EXCEPT !.queue = Tail(@), !.pkts = @ \cup {Head(run.queue).seq}],
                    [run EXCEPT !.queue = Tail(@), !.man = TRUE]},
             run' = q
      PROVE  Resumed'
  <2>1. /\ run'.pc = "receive" /\ run'.rx = run.rx /\ run'.held = run.held
        /\ run'.queue = Tail(run.queue)  BY <1>1, <1>2 DEF Runs
  <2>. QED  BY <1>1, <1>2, <2>1 DEF Resumed, radio
<1>3. CASE ReceiveData /\ Fail("protocol")  BY <1>1, <1>3, ResumedFails
<1>4. CASE UNCHANGED radio /\ run' = [run EXCEPT !.queue = Tail(@), !.pkts = @ \cup {Head(run.queue).seq}]
  BY <1>2, <1>4
<1>5. CASE ReceiveManifest  BY <1>2, <1>5 DEF ReceiveManifest, Took
<1>. QED  BY <1>3, <1>4, <1>5 DEF ReceiveData, Took

\* A notification arrives, or is lost.
LEMMA ResumedHears ==
  IInv /\ IInv' /\ Resumed /\ (Deliver \/ DeliverResult \/ Lose) => Resumed'
<1>. SUFFICES ASSUME IInv, IInv', Resumed, Deliver \/ DeliverResult \/ Lose  PROVE Resumed'  OBVIOUS
<1>. DEFINE f == Head(air)
<1>1. /\ UNCHANGED <<store, wire, dev>> /\ air # <<>> /\ air' = Tail(air) /\ run \in Runs
  BY LineFields DEF Deliver, DeliverResult, Lose, durable
<1>2. f \in Anew /\ f \in FrameSet /\ Tail(air) \in Seq(Anew)  BY <1>1, AnewTail DEF Resumed, Anew
<1>3. CASE run' = run /\ f.k # "resume_accept"  BY <1>1, <1>2, <1>3 DEF Resumed
<1>4. CASE run' = [run EXCEPT !.tc = "control_pending", !.reply = f] /\ run.tc = "awaiting_control"
           /\ Deliver
  <2>. HIDE DEF f
  <2>1. /\ run'.pc = run.pc /\ run'.rx = run.rx /\ run'.held = run.held /\ run'.queue = run.queue
        /\ run'.tc = "control_pending" /\ run'.reply = f  BY <1>1, <1>4 DEF Runs
  <2>2. run.pc = "opening" => f.k = "resume_accept"  BY <1>4 DEF Resumed, f
  <2>. QED  BY <1>1, <1>2, <2>1, <2>2 DEF Resumed
<1>5. CASE run' = [run EXCEPT !.held = Append(@, f)] /\ run.tc # "awaiting_control"
  <2>1. Append(run.held, f) \in Seq(Anew)  BY <1>2, AppendProperties DEF Resumed
  <2>. HIDE DEF f
  <2>2. /\ run'.pc = run.pc /\ run'.rx = run.rx /\ run'.held = Append(run.held, f)
        /\ run'.queue = run.queue /\ run'.tc = run.tc /\ run'.reply = run.reply  BY <1>1, <1>5 DEF Runs
  <2>. QED  BY <1>1, <1>2, <1>5, <2>1, <2>2 DEF Resumed
<1>6. CASE run' = Accept(run, f) /\ run.pc \notin {"opening", "replaying"}
  <2>1. Accept(run, f).queue \in Seq(Anew)  BY <1>1, <1>2, AcceptAnew DEF Resumed
  <2>2. \E tc \in Expected, repair \in SUBSET Int, queue \in Seq(FrameSet), broken \in Breaks :
               Accept(run, f) = [run EXCEPT !.tc = tc, !.repair = repair, !.queue = queue, !.broken = broken]
    BY <1>1, <1>2, AcceptType
  <2>. HIDE DEF f
  <2>3. run'.pc = run.pc /\ run'.rx = run.rx /\ run'.held = run.held  BY <1>1, <1>6, <2>2 DEF Runs
  <2>. QED  BY <1>1, <1>2, <1>6, <2>1, <2>3 DEF Resumed
<1>7. CASE Deliver  BY <1>4, <1>5, <1>6, <1>7 DEF Deliver
<1>8. CASE DeliverResult
  <2>1. run' = run  BY <1>8, ResumedFields DEF DeliverResult
  <2>. QED  BY <1>3, <1>8, <2>1 DEF DeliverResult
<1>9. CASE Lose  BY <1>3, <1>9 DEF Lose
<1>. QED  BY <1>7, <1>8, <1>9

\* The device answers a document of an earlier write.
LEMMA ResumedResults ==
  IInv /\ IInv' /\ Resumed /\ (Device \/ DeviceRefuses) => Resumed'
<1>. SUFFICES ASSUME IInv, IInv', Resumed, Device \/ DeviceRefuses  PROVE Resumed'  OBVIOUS
<1>1. wire.k = "none" /\ dev \in Devices  BY ResumedFields
<1>2. DeviceVerifies \/ DeviceRefuses
  BY <1>1 DEF Device, DeviceStarts, DeviceAccepts, DeviceRejects, DeviceRepairs, DeviceAdvances,
              DeviceConfirms, DeviceBuffers, DeviceCommits, Answers
<1>3. /\ UNCHANGED <<store, run, wire>> /\ dev'.num = dev.num
      /\ \E k \in {"signed", "refused"} : Result(k)
  <2>1. dev'.num = dev.num  BY <1>1, <1>2 DEF DeviceVerifies, DeviceRefuses, Devices, Blobs
  <2>. QED  BY <1>2, <2>1 DEF DeviceVerifies, DeviceRefuses, durable
<1>4. PICK f : f \in FrameSet /\ f.k \in {"signed", "refused"} /\ air' = Append(air, f)
  <2>1. dev.signed.id \in Nat  BY <1>1 DEF Devices, Blobs
  <2>2. \A n \in Int, k \in {"signed", "refused"} :
           [NoFrame EXCEPT !.k = k, !.seq = n] \in FrameSet /\ [NoFrame EXCEPT !.k = k, !.seq = n].k = k
    <3>. SUFFICES ASSUME NEW n \in Int, NEW k \in {"signed", "refused"}
                  PROVE  /\ [NoFrame EXCEPT !.k = k, !.seq = n] \in FrameSet
                         /\ [NoFrame EXCEPT !.k = k, !.seq = n].k = k
      OBVIOUS
    <3>1. NoFrame \in FrameSet /\ k \in FrameKinds  BY EmptyTypes DEF FrameKinds
    <3>. HIDE DEF NoFrame
    <3>. QED  BY <3>1 DEF FrameSet
  <2>3. PICK k \in {"signed", "refused"} : Result(k)  BY <1>3
  <2>4. dev.signed.id \in Int  BY <2>1
  <2>. DEFINE g == [NoFrame EXCEPT !.k = k, !.seq = dev.signed.id]
  <2>5. g \in FrameSet /\ g.k = k  BY <2>2, <2>4, Zenon
  <2>6. air' = Append(air, g)  BY <2>3 DEF Result
  <2>. HIDE DEF g
  <2>. QED  BY <2>5, <2>6
<1>5. f \in Anew  BY <1>4, AnewFrame
<1>6. Append(air, f) \in Seq(Anew)  BY <1>5, AppendProperties DEF Resumed
<1>7. air # <<>> => Append(air, f) # <<>> /\ Head(Append(air, f)) = Head(air)
  BY <1>4, ResumedFields, TailOfAppend
<1>. QED  BY <1>3, <1>4, <1>6, <1>7 DEF Resumed

\* The run is interrupted.
LEMMA ResumedInterrupted ==
  IInv /\ IInv' /\ Resumed /\ (Cancel \/ Faults) => Line' \/ Resumed'
<1>. SUFFICES ASSUME IInv, IInv', Resumed, Cancel \/ Faults  PROVE Line' \/ Resumed'  OBVIOUS
<1>1. /\ run.pc \notin Attempted \cup Signing \cup Cleaning \cup Storing \cup Asking \cup {"idle"}
      /\ run.pc \in {"opening", "replaying", "receive"}  BY ResumedFields
<1>2. CASE Cancel  BY <1>2, ResumedFails DEF Cancel, durable
<1>3. CASE LinkDrops
  <2>1. run' = Failed("error") /\ wire' = Nothing /\ air' = <<>> /\ store' = store
    BY <1>1, <1>3 DEF LinkDrops, durable
  <2>. QED  BY <2>1, ResumedStops
<1>4. CASE ReloadPage
  <2>1. run' = NoRun /\ wire' = Nothing /\ air' = <<>> /\ Numbered(store'.ckpt)
    BY <1>4 DEF ReloadPage, durable, Resumed
  <2>. QED  BY <2>1, NoRequest, NumbersFacts, Ended
<1>5. CASE ReleaseFails
  <2>1. wire' = Nothing /\ store' = store /\ link' = "poisoned"  BY <1>5 DEF ReleaseFails, Poisons, durable
  <2>2. PICK error \in {"uncertain", "cancelled"} : run' = Failed(error)  BY <1>5 DEF ReleaseFails, Poisons
  <2>. QED  BY <2>1, <2>2, ResumedStops
<1>6. CASE Lose  BY <1>6, ResumedHears
<1>7. CASE DeviceRefuses  BY <1>7, ResumedResults
<1>8. CASE FlushFails  BY <1>8, ResumedEnds
<1>9. ~(StorageFails \/ CleanupFails \/ ConfirmUncertain \/ ProviderFails \/ BlobFails \/ BlobAbortFails)
  BY <1>1 DEF StorageFails, CleanupFails, ConfirmUncertain, ProviderFails, BlobFails, BlobAbortFails
<1>. QED  BY <1>2, <1>3, <1>4, <1>5, <1>6, <1>7, <1>8, <1>9 DEF Faults

LEMMA ResumedKeeps == IInv /\ IInv' /\ Resumed /\ [Next]_vars => Line' \/ Resumed'
<1>. SUFFICES ASSUME IInv, IInv', Resumed, [Next]_vars  PROVE Line' \/ Resumed'  OBVIOUS
<1>1. CASE Opened \/ ReplayHeld  BY <1>1, ResumedOpens
<1>2. CASE PumpFails \/ WindowIncomplete \/ WindowStaged \/ ReceiveEof  BY <1>2, ResumedEnds
<1>3. CASE ReceiveData \/ ReceiveManifest  BY <1>3, ResumedTakes
<1>4. CASE Deliver \/ DeliverResult  BY <1>4, ResumedHears
<1>5. CASE Device  BY <1>5, ResumedResults
<1>6. CASE Cancel \/ Faults  BY <1>6, ResumedInterrupted
<1>7. CASE UNCHANGED vars  BY <1>7 DEF vars, durable, radio, Resumed
<1>. QED  BY <1>1, <1>2, <1>3, <1>4, <1>5, <1>6, <1>7, ResumedWaits DEF Next, Host

-----------------------------------------------------------------------------
(* How a run ends, while host and device agree *)

Bad == {"protocol", "mismatch"}

\* What a run has ended with is told of a run that is over.
Over == run.then # "none" => run.pc \in Cleaning \cup {"idle"}

\* A run that ended with a disagreement had resumed a checkpoint.
Verdict == run.then \in Bad => dev.num # 0

\* Where a disagreement would show.
Quarrel == PumpFails \/ ReceiveData \/ WindowIncomplete \/ ReceiveEof

\* A step that tells of none, and leaves the numbers of the device.
Calm == /\ run'.then # "none" => run'.pc \in Cleaning \cup {"idle"}
        /\ run'.then \in Bad => run'.then = run.then
        /\ dev'.num = dev.num

LEMMA FailNumber ==
  ASSUME IInv, NEW e, Fail(e)
  PROVE  dev'.num = dev.num /\ run'.then = e /\ run'.pc \in {"idle", "reload"}
<1>1. run' = Failed(e) /\ \E blob \in {NoBlob, dev.signed} : dev' = [dev EXCEPT !.mode = "idle", !.signed = blob]
  BY DEF Fail
<1>2. dev'.num = dev.num  BY <1>1, LineFields DEF Devices
<1>. QED  BY <1>1, <1>2, FailedRun

LEMMA CalmFail ==
  ASSUME IInv, NEW e, e \notin Bad, Fail(e)
  PROVE  Calm
  BY FailNumber DEF Calm, Cleaning

LEMMA CalmEnd ==
  ASSUME NEW e, e \notin Bad \/ e = run.then, run' = Failed(e) \/ Settle(e), dev'.num = dev.num
  PROVE  Calm
<1>1. CASE run' = Failed(e)  BY <1>1, FailedRun DEF Calm, Cleaning
<1>2. CASE Settle(e)
  <2>1. run'.then = e /\ run'.pc = "idle"  BY <1>2 DEF Settle, NoRun
  <2>. QED  BY <2>1 DEF Calm
<1>. QED  BY <1>1, <1>2

\* The run goes on.
LEMMA CalmMove ==
  ASSUME Over, run.pc \notin Cleaning \cup {"idle"} \/ run'.pc \in Cleaning \cup {"idle"},
         run'.then = run.then, dev'.num = dev.num
  PROVE  Calm
  BY DEF Over, Calm, Bad

\* The run stays where it is.
LEMMA CalmStay ==
  ASSUME Over, run'.pc = run.pc, run'.then = run.then, dev'.num = dev.num
  PROVE  Calm
  BY DEF Over, Calm

LEMMA CalmGoto ==
  ASSUME IInv, Over, NEW pc, Goto(pc), run.pc \notin Cleaning \cup {"idle"} \/ pc \in Cleaning \cup {"idle"},
         dev'.num = dev.num
  PROVE  Calm
<1>1. run'.pc = pc /\ run'.then = run.then  BY LineFields DEF Goto, Runs
<1>. QED  BY <1>1, CalmMove

LEMMA CalmPhase ==
  ASSUME IInv, Over, NEW at, NEW phase, NEW pc, SavePhase(at, phase, pc), at \notin Cleaning \cup {"idle"}
  PROVE  Calm
<1>1. run.pc = at /\ run \in Runs  BY LineFields DEF SavePhase
<1>2. CASE Fail("refused")  BY <1>2, CalmFail DEF Bad
<1>3. CASE Goto(pc) /\ UNCHANGED radio  BY <1>1, <1>3, CalmGoto DEF radio
<1>4. CASE run' = [run EXCEPT !.pc = pc, !.phase = phase] /\ UNCHANGED radio
  <2>1. run'.then = run.then  BY <1>1, <1>4 DEF Runs
  <2>. QED  BY <1>1, <1>4, <2>1, CalmMove DEF radio
<1>. QED  BY <1>2, <1>3, <1>4 DEF SavePhase

LEMMA CalmPhases ==
  IInv /\ Over /\ (Transferring \/ Staged \/ Uploading \/ CloudCompleted) => Calm
  BY CalmPhase DEF Transferring, Staged, Uploading, CloudCompleted, Cleaning

\* Up to the transfer.
LEMMA CalmPrepares ==
  IInv /\ Over /\ (Provided \/ Replaced \/ SaveOperation \/ Truncate \/ DeleteCheckpoint \/ TruncateAll
                   \/ Sync \/ Resume \/ Cancel) => Calm
<1>. SUFFICES ASSUME IInv, Over, Provided \/ Replaced \/ SaveOperation \/ Truncate \/ DeleteCheckpoint
                     \/ TruncateAll \/ Sync \/ Resume \/ Cancel
              PROVE  Calm
  OBVIOUS
<1>1. run \in Runs  BY LineFields
<1>2. CASE Provided \/ Replaced \/ DeleteCheckpoint \/ TruncateAll
  <2>1. run.pc \notin Cleaning \cup {"idle"} /\ dev' = dev
    BY <1>2 DEF Provided, Replaced, DeleteCheckpoint, TruncateAll, Cleaning, radio
  <2>2. run'.then = run.then
    BY <1>1, <1>2 DEF Provided, Replaced, DeleteCheckpoint, TruncateAll, Goto, Runs
  <2>. QED  BY <2>1, <2>2, CalmMove
<1>3. CASE SaveOperation \/ Truncate
  <2>1. run.pc \notin Cleaning \cup {"idle"}  BY <1>3 DEF SaveOperation, Truncate, Cleaning
  <2>2. CASE Fail("refused") \/ Fail("integrity")  BY <2>2, CalmFail DEF Bad
  <2>3. CASE ~(Fail("refused") \/ Fail("integrity"))
    <3>1. dev' = dev /\ run'.then = run.then  BY <1>1, <1>3, <2>3 DEF SaveOperation, Truncate, radio, Runs
    <3>. QED  BY <2>1, <3>1, CalmMove
  <2>. QED  BY <2>2, <2>3
<1>4. CASE Sync
  <2>1. run'.then = "none" /\ dev' = dev  BY <1>4 DEF Sync, NoRun, radio
  <2>. QED  BY <2>1 DEF Calm, Bad
<1>5. CASE Resume
  <2>1. dev' = dev  BY <1>5 DEF Resume, radio
  <2>2. CASE Settle("unfit")  BY <2>1, <2>2, CalmEnd DEF Bad
  <2>3. CASE ~Settle("unfit")
    <3>1. CASE run' = [NoRun EXCEPT !.pc = "dropBlob", !.api = "resume", !.then = "ok"]
      <4>1. run'.then = "ok" /\ run'.pc = "dropBlob"  BY <3>1 DEF NoRun
      <4>. QED  BY <2>1, <4>1 DEF Calm, Bad, Cleaning
    <3>2. CASE run' = [NoRun EXCEPT !.pc = "provider", !.api = "resume", !.phase = store.phase,
                                    !.session = store.session, !.ckpt = store.ckpt,
                                    !.completed = store.phase = "cloud_completed"]
      <4>1. run'.then = "none"  BY <3>2 DEF NoRun
      <4>. QED  BY <2>1, <4>1 DEF Calm, Bad
    <3>. QED  BY <1>5, <2>3, <3>1, <3>2 DEF Resume
  <2>. QED  BY <2>2, <2>3
<1>6. CASE Cancel  BY <1>6, CalmFail DEF Cancel, Bad
<1>. QED  BY <1>2, <1>3, <1>4, <1>5, <1>6

\* The writer of documents.
LEMMA CalmWriter ==
  IInv /\ Over /\ (Authorize \/ DeliverReceipt \/ SendBlob \/ CommitBlob \/ Committed \/ DeliverResult
                   \/ BlobSent \/ BlobTimesOut) => Calm
<1>. SUFFICES ASSUME IInv, Over, Authorize \/ DeliverReceipt \/ SendBlob \/ CommitBlob \/ Committed
                     \/ DeliverResult \/ BlobSent \/ BlobTimesOut
              PROVE  Calm
  OBVIOUS
<1>1. run \in Runs  BY LineFields
<1>2. CASE Authorize \/ DeliverReceipt \/ SendBlob \/ CommitBlob \/ Committed
  <2>1. run.pc \notin Cleaning \cup {"idle"} /\ dev' = dev
    BY <1>2 DEF Authorize, DeliverReceipt, StartBlob, SendBlob, CommitBlob, Committed, Cleaning, radio
  <2>2. run'.then = run.then
    BY <1>1, <1>2 DEF Authorize, DeliverReceipt, StartBlob, SendBlob, CommitBlob, Committed, Goto, Runs
  <2>. QED  BY <2>1, <2>2, CalmMove
<1>3. CASE DeliverResult
  <2>1. dev' = dev /\ run'.pc = run.pc /\ run'.then = run.then  BY <1>1, <1>3 DEF DeliverResult, Runs
  <2>. QED  BY <2>1, CalmStay
<1>4. CASE BlobSent /\ ~Fail("rejected")
  <2>1. run.pc \notin Cleaning \cup {"idle"} /\ dev' = dev /\ run'.then = run.then
    BY <1>1, <1>4 DEF BlobSent, Cleaning, radio, Runs
  <2>. QED  BY <2>1, CalmMove
<1>5. CASE Fail("rejected") \/ Fail("timeout")  BY <1>5, CalmFail DEF Bad
<1>. QED  BY <1>2, <1>3, <1>4, <1>5 DEF BlobTimesOut

\* The transfer, as far as nothing in it can disagree.
LEMMA CalmTransfer ==
  IInv /\ Over /\ (Open \/ Opened \/ ReplayHeld \/ OpenRejected \/ WindowStaged \/ SendRepair \/ Repairing
                   \/ SaveCheckpoint \/ SendAck \/ Acked \/ ReceiveManifest \/ Deliver) => Calm
<1>. SUFFICES ASSUME IInv, Over, Open \/ Opened \/ ReplayHeld \/ OpenRejected \/ WindowStaged \/ SendRepair
                     \/ Repairing \/ SaveCheckpoint \/ SendAck \/ Acked \/ ReceiveManifest \/ Deliver
              PROVE  Calm
  OBVIOUS
<1>1. run \in Runs /\ run.held \in Seq(FrameSet) /\ air \in Seq(FrameSet)  BY LineFields
<1>2. CASE Open \/ Opened \/ WindowStaged \/ ReceiveManifest
  <2>1. run.pc \notin Cleaning \cup {"idle"} /\ dev' = dev
    BY <1>2 DEF Open, Opened, WindowStaged, ReceiveManifest, Next1, Cleaning, radio
  <2>2. run'.then = run.then
    <3>1. CASE Open \/ Opened  BY <1>1, <3>1 DEF Open, Opened, Runs
    <3>2. CASE WindowStaged \/ ReceiveManifest  BY <1>1, <3>2 DEF WindowStaged, ReceiveManifest, Took, Runs
    <3>. QED  BY <1>2, <3>1, <3>2
  <2>. QED  BY <2>1, <2>2, CalmMove
<1>3. CASE SendRepair \/ Repairing \/ SaveCheckpoint \/ SendAck \/ Acked
  <2>1. run.pc \notin Cleaning \cup {"idle"} /\ dev' = dev
    BY <1>3 DEF SendRepair, Repairing, SaveCheckpoint, SendAck, Acked, Cleaning, radio
  <2>2. run'.then = run.then
    <3>1. CASE SendRepair \/ Repairing  BY <1>1, <3>1 DEF SendRepair, Repairing, Goto, Runs
    <3>2. CASE SaveCheckpoint \/ Acked  BY <1>1, <3>2 DEF SaveCheckpoint, Acked, Runs
    <3>3. CASE SendAck  BY <1>1, <3>3 DEF SendAck, Runs
    <3>. QED  BY <1>3, <3>1, <3>2, <3>3
  <2>. QED  BY <2>1, <2>2, CalmMove
<1>4. CASE OpenRejected
  <2>1. CASE Fail("rejected") \/ Fail("identity")  BY <2>1, CalmFail DEF Bad
  <2>2. CASE ~(Fail("rejected") \/ Fail("identity"))
    <3>1. run.pc \notin Cleaning \cup {"idle"} /\ dev' = dev /\ run'.then = run.then
      BY <1>1, <1>4, <2>2 DEF OpenRejected, Cleaning, radio, Runs
    <3>. QED  BY <3>1, CalmMove
  <2>. QED  BY <2>1, <2>2
<1>5. ASSUME NEW f \in FrameSet
      PROVE  LET x == Accept(run, f) IN x.pc = run.pc /\ x.then = run.then /\ x \in Runs
  <2>. DEFINE x == Accept(run, f)
  <2>1. x \in Runs /\ \E tc \in Expected, repair \in SUBSET Int, queue \in Seq(FrameSet), broken \in Breaks :
               x = [run EXCEPT !.tc = tc, !.repair = repair, !.queue = queue, !.broken = broken]
    BY <1>1, AcceptType
  <2>. HIDE DEF x
  <2>2. PICK tc, repair, queue, broken :
               x = [run EXCEPT !.tc = tc, !.repair = repair, !.queue = queue, !.broken = broken]
    BY <2>1
  <2>3. x.pc = run.pc /\ x.then = run.then  BY <1>1, <2>2 DEF Runs
  <2>. QED  BY <2>1, <2>3 DEF x
<1>6. CASE ReplayHeld /\ run.held # <<>>
  <2>1. run' = [Accept(run, Head(run.held)) EXCEPT !.held = Tail(@)] /\ dev' = dev
    BY <1>6 DEF ReplayHeld, radio
  <2>2. Head(run.held) \in FrameSet  BY <1>1, <1>6
  <2>3. run'.pc = run.pc /\ run'.then = run.then  BY <1>5, <2>1, <2>2 DEF Runs
  <2>. QED  BY <2>1, <2>3, CalmStay
<1>7. CASE ReplayHeld /\ run.held = <<>>  BY <1>7, CalmGoto DEF ReplayHeld, radio, Cleaning
<1>8. CASE Deliver
  <2>1. Head(air) \in FrameSet /\ dev' = dev  BY <1>1, <1>8 DEF Deliver
  <2>2. run'.pc = run.pc /\ run'.then = run.then
    <3>1. CASE run' = Accept(run, Head(air))  BY <1>5, <2>1, <3>1
    <3>2. CASE run' # Accept(run, Head(air))  BY <1>1, <1>8, <3>2 DEF Deliver, Runs
    <3>. QED  BY <3>1, <3>2
  <2>. QED  BY <2>1, <2>2, CalmStay
<1>. QED  BY <1>2, <1>3, <1>4, <1>6, <1>7, <1>8

\* The service, the confirmation and the cleanups.
LEMMA CalmCompletes ==
  IInv /\ Over /\ (Evidence \/ Put \/ SubmitManifest \/ Finalize \/ Receipt \/ SendConfirm \/ ConfirmWritten
                   \/ Confirmed \/ Forget \/ Reload \/ DropCheckpoint \/ DropBlob \/ DropOperation) => Calm
<1>. SUFFICES ASSUME IInv, Over, Evidence \/ Put \/ SubmitManifest \/ Finalize \/ Receipt \/ SendConfirm
                     \/ ConfirmWritten \/ Confirmed \/ Forget \/ Reload \/ DropCheckpoint \/ DropBlob
                     \/ DropOperation
              PROVE  Calm
  OBVIOUS
<1>1. run \in Runs  BY LineFields
<1>2. CASE Evidence \/ Put \/ SubmitManifest \/ Finalize \/ Receipt \/ ConfirmWritten
  <2>1. run.pc \notin Cleaning \cup {"idle"} /\ dev' = dev
    BY <1>2 DEF Evidence, Put, SubmitManifest, Finalize, Receipt, ConfirmWritten, Cleaning, radio
  <2>2. PICK pc \in {"receipt", "staged", "manifest", "finalize", "cloud", "confirmed"} : Goto(pc)
    BY <1>2 DEF Evidence, Put, SubmitManifest, Finalize, Receipt, ConfirmWritten
  <2>. QED  BY <2>1, <2>2, CalmGoto
<1>3. CASE SendConfirm
  <2>1. run.pc \notin Cleaning \cup {"idle"} /\ dev' = dev /\ run'.then = run.then
    BY <1>1, <1>3 DEF SendConfirm, Cleaning, Runs
  <2>. QED  BY <2>1, CalmMove
<1>4. CASE Confirmed
  <2>1. dev' = dev /\ run.pc \notin Cleaning \cup {"idle"}  BY <1>4 DEF Confirmed, radio, Cleaning
  <2>2. CASE Settle("error")  BY <2>1, <2>2, CalmEnd DEF Bad
  <2>3. CASE ~Settle("error")
    <3>1. run'.then = run.then  BY <1>1, <1>4, <2>3 DEF Confirmed, Runs
    <3>. QED  BY <2>1, <3>1, CalmMove
  <2>. QED  BY <2>2, <2>3
<1>5. CASE Forget
  <2>1. dev' = dev /\ run'.then = "ok" /\ run'.pc = "dropBlob"  BY <1>1, <1>5 DEF Forget, radio, Runs
  <2>. QED  BY <2>1 DEF Calm, Bad, Cleaning
<1>6. CASE Reload \/ DropCheckpoint \/ DropBlob \/ DropOperation
  <2>1. dev' = dev /\ (Settle(run.then) \/ \E pc \in Cleaning : Goto(pc))
    BY <1>6 DEF Reload, DropCheckpoint, DropBlob, DropOperation, radio, Cleaning
  <2>. QED  BY <2>1, CalmEnd, CalmGoto
<1>. QED  BY <1>2, <1>3, <1>4, <1>5, <1>6

\* Faults, and a connection.
LEMMA CalmFaults ==
  IInv /\ Over /\ (Faults \/ Connect) => Calm
<1>. SUFFICES ASSUME IInv, Over, Faults \/ Connect  PROVE Calm  OBVIOUS
<1>1. run \in Runs /\ dev \in Devices /\ Disconnected.num = dev.num  BY LineFields DEF Disconnected, Devices
<1>2. CASE StorageFails \/ FlushFails \/ ProviderFails \/ BlobFails
  BY <1>2, CalmFail DEF StorageFails, FlushFails, ProviderFails, BlobFails, Bad
<1>3. CASE CleanupFails
  <2>1. dev' = dev /\ Settle(IF run.then = "ok" THEN "error" ELSE run.then)  BY <1>3 DEF CleanupFails, radio
  <2>. QED  BY <2>1, CalmEnd DEF Bad
<1>4. CASE ConfirmUncertain  BY <1>4, CalmEnd DEF ConfirmUncertain, Bad
<1>5. CASE BlobAbortFails \/ ReleaseFails
  <2>1. dev' = dev /\ \E error \in {"uncertain", "cancelled"} : run' = Failed(error)
    BY <1>5 DEF BlobAbortFails, ReleaseFails, Poisons
  <2>. QED  BY <2>1, CalmEnd DEF Bad
<1>6. CASE LinkDrops
  <2>1. CASE run' = Failed("error")  BY <1>1, <1>6, <2>1, CalmEnd DEF LinkDrops, Bad
  <2>2. CASE run' # Failed("error")
    <3>1. run'.pc = run.pc /\ run'.then = run.then  BY <1>1, <1>6, <2>2 DEF LinkDrops, Runs
    <3>. QED  BY <1>1, <1>6, <3>1, CalmStay DEF LinkDrops
  <2>. QED  BY <2>1, <2>2
<1>7. CASE ReloadPage
  <2>1. run'.then = "none" /\ dev'.num = dev.num  BY <1>1, <1>7 DEF ReloadPage, NoRun
  <2>. QED  BY <2>1 DEF Calm, Bad
<1>8. CASE Lose \/ DeviceRefuses \/ Connect
  <2>1. run' = run  BY <1>8 DEF Lose, DeviceRefuses, Connect, durable
  <2>2. dev' \in {dev, [dev EXCEPT !.signed = NoBlob], Disconnected}
    BY <1>8 DEF Lose, DeviceRefuses, Connect
  <2>3. dev'.num = dev.num  BY <1>1, <2>2 DEF Devices
  <2>. QED  BY <2>1, <2>3, CalmStay
<1>. QED  BY <1>2, <1>3, <1>4, <1>5, <1>6, <1>7, <1>8 DEF Faults

\* The device numbers anew when a transfer begins, and then a run is under way.
LEMMA DeviceCalm ==
  IInv /\ Over /\ Device => Calm \/ (run' = run /\ run.then = "none")
<1>. SUFFICES ASSUME IInv, Over, Device  PROVE Calm \/ (run' = run /\ run.then = "none")  OBVIOUS
<1>1. run' = run /\ dev \in Devices
  BY LineFields DEF Device, DeviceStarts, DeviceAccepts, DeviceRejects, DeviceRepairs, DeviceAdvances,
                    DeviceConfirms, DeviceBuffers, DeviceCommits, DeviceVerifies, durable
<1>2. CASE DeviceStarts \/ DeviceAccepts
  <2>1. run.pc = "opening"  BY <1>2 DEF DeviceStarts, DeviceAccepts, Answers, IInv, Asks
  <2>. QED  BY <1>1, <2>1 DEF Over, Cleaning
<1>3. CASE DeviceRejects \/ DeviceRepairs \/ DeviceBuffers
  BY <1>1, <1>3, CalmStay DEF DeviceRejects, DeviceRepairs, DeviceBuffers
<1>4. CASE DeviceAdvances \/ DeviceConfirms \/ DeviceCommits
  <2>1. dev'.num = dev.num  BY <1>1, <1>4 DEF DeviceAdvances, DeviceConfirms, DeviceCommits, Devices
  <2>. QED  BY <1>1, <2>1, CalmStay
<1>5. CASE DeviceVerifies
  <2>1. dev.signed.k \in {"auth", "receipt"}  BY <1>1, <1>5 DEF DeviceVerifies, Devices, Blobs
  <2>2. dev'.num = dev.num  BY <1>1, <1>5, <2>1 DEF DeviceVerifies, Devices
  <2>. QED  BY <1>1, <2>2, CalmStay
<1>. QED  BY <1>2, <1>3, <1>4, <1>5 DEF Device

LEMMA StepsCalm ==
  IInv /\ Over /\ [Next]_vars => Calm \/ Quarrel \/ (run' = run /\ run.then = "none")
<1>. SUFFICES ASSUME IInv, Over, [Next]_vars, ~Quarrel
              PROVE  Calm \/ (run' = run /\ run.then = "none")
  OBVIOUS
<1>1. CASE UNCHANGED vars  BY <1>1, CalmStay DEF vars, durable, radio
<1>2. CASE Host
  BY <1>2, CalmPhases, CalmPrepares, CalmWriter, CalmTransfer, CalmCompletes DEF Host, Quarrel
<1>. QED  BY <1>1, <1>2, CalmPrepares, CalmWriter, CalmTransfer, CalmFaults, DeviceCalm DEF Next

\* Where host and device agree the receiver finds nothing to refuse.
LEMMA LineQuiet ==
  IInv /\ Line /\ Quarrel => run'.then \notin Bad \/ run'.then = run.then
<1>. SUFFICES ASSUME IInv, Line, Quarrel  PROVE run'.then \notin Bad \/ run'.then = run.then  OBVIOUS
<1>. DEFINE f == Head(run.queue)
<1>1. run \in Runs /\ run.broken \in {"no", "lossy"}  BY LineFields DEF Line, Heeds
<1>2. CASE PumpFails
  <2>1. Fail("lossy")  BY <1>1, <1>2 DEF PumpFails
  <2>. QED  BY <2>1, FailNumber DEF Bad
<1>3. CASE ReceiveData
  <2>1. ~(run.miss # {} /\ f.seq \notin run.miss)  BY <1>3, DataWanted DEF ReceiveData
  <2>2. run' = [run EXCEPT !.queue = Tail(@), !.pkts = @ \cup {f.seq}]  BY <1>3, <2>1 DEF ReceiveData, Took
  <2>. QED  BY <1>1, <2>2 DEF Runs
<1>4. CASE WindowIncomplete
  <2>1. Follows(f)  BY <1>4, WindowEnds DEF WindowIncomplete
  <2>2. run' = [run EXCEPT !.queue = Tail(@), !.pc = "repair", !.miss = Missing(f)]
    BY <1>4, <2>1 DEF WindowIncomplete, Took
  <2>. QED  BY <1>1, <2>2 DEF Runs
<1>5. CASE ReceiveEof
  <2>1. body = Units /\ run.pkts = {} /\ run.rx.seq = f.seq  BY <1>5, EofEnds DEF ReceiveEof
  <2>2. Fail("integrity") \/ run' = [run EXCEPT !.queue = Tail(@), !.pc = "evidence"]
    BY <1>5, <2>1 DEF ReceiveEof, Took
  <2>3. CASE Fail("integrity")  BY <2>3, FailNumber DEF Bad
  <2>4. CASE run' = [run EXCEPT !.queue = Tail(@), !.pc = "evidence"]  BY <1>1, <2>4 DEF Runs
  <2>. QED  BY <2>2, <2>3, <2>4
<1>. QED  BY <1>2, <1>3, <1>4, <1>5 DEF Quarrel

\* In any transfer the receiver ends the run with what it refuses.
LEMMA QuarrelEnds ==
  ASSUME IInv, Over, Quarrel
  PROVE  Over' /\ dev'.num = dev.num
<1>1. run \in Runs /\ run.pc = "receive" /\ run.then = "none"
  BY LineFields DEF Quarrel, PumpFails, ReceiveData, WindowIncomplete, ReceiveEof, Next1, Over, Cleaning
<1>2. ASSUME NEW e, Fail(e)  PROVE Over' /\ dev'.num = dev.num  BY <1>2, FailNumber DEF Over, Cleaning
<1>3. CASE \A e \in Outcomes : ~Fail(e)
  <2>1. ~PumpFails  BY <1>1, <1>3, RunFields DEF PumpFails, Breaks, Outcomes
  <2>2. UNCHANGED radio /\ run'.then = run.then
    BY <1>1, <1>3, <2>1 DEF Quarrel, ReceiveData, WindowIncomplete, ReceiveEof, Took, Runs, Outcomes
  <2>. QED  BY <1>1, <2>2 DEF Over, radio
<1>. QED  BY <1>2, <1>3

LEMMA VerdictKeeps ==
  IInv /\ (Line \/ Resumed) /\ Over /\ Verdict /\ [Next]_vars => Over' /\ Verdict'
<1>. SUFFICES ASSUME IInv, Line \/ Resumed, Over, Verdict, [Next]_vars  PROVE Over' /\ Verdict'  OBVIOUS
<1>1. CASE Calm  BY <1>1 DEF Calm, Over, Verdict
<1>2. CASE run' = run /\ run.then = "none"  BY <1>2 DEF Over, Verdict, Bad
<1>3. CASE Quarrel /\ Line  BY <1>3, LineQuiet, QuarrelEnds DEF Verdict
<1>4. CASE Quarrel /\ Resumed  BY <1>4, QuarrelEnds DEF Verdict, Resumed
<1>. QED  BY <1>1, <1>2, <1>3, <1>4, StepsCalm


-----------------------------------------------------------------------------
(* All steps *)

\* A transfer that began with START stays agreed until a checkpoint is resumed.
LEMMA LineKeeps ==
  IInv /\ IInv' /\ Line /\ [Next]_vars => Line' \/ Resumed'
<1>. SUFFICES ASSUME IInv, IInv', Line, [Next]_vars  PROVE Line' \/ Resumed'  OBVIOUS
<1>1. CASE Authorize  BY <1>1, StartBlobAgrees DEF Authorize
<1>2. CASE DeliverReceipt  BY <1>2, StartBlobAgrees DEF DeliverReceipt
<1>3. CASE Provided \/ SaveOperation \/ Transferring \/ Truncate \/ Sync \/ Resume \/ Cancel \/ Replaced
  BY <1>3, ProvidedAgrees, SaveOperationAgrees, PhasesAgree, TruncateAgrees, SyncAgrees,
     ResumeAgrees, CancelAgrees, ReplacedAgrees
<1>4. CASE SendBlob \/ CommitBlob \/ Committed \/ BlobSent \/ BlobTimesOut \/ DeliverResult
  BY <1>4, WritesAgree, BlobSentAgrees, FaultsAgree, DeliverResultAgrees
<1>5. CASE Open \/ Opened \/ ReplayHeld \/ OpenRejected \/ DeleteCheckpoint \/ TruncateAll \/ PumpFails
  BY <1>5, OpenAgrees, OpenedAgrees, ReplayHeldAgrees, OpenRejectedAgrees, DeleteCheckpointAgrees,
     PumpFailsAgrees
<1>6. CASE ReceiveData \/ WindowIncomplete \/ WindowStaged \/ SendRepair \/ Repairing
           \/ SaveCheckpoint \/ SendAck \/ Acked \/ ReceiveManifest \/ ReceiveEof \/ Evidence
  BY <1>6, ReceiveDataAgrees, WindowIncompleteAgrees, WindowStagedAgrees, SendRepairAgrees,
     RepairingAgrees, SaveCheckpointAgrees, SendAckAgrees, AckedAgrees, ReceiveManifestAgrees,
     ReceiveEofAgrees, ServiceAgrees
<1>7. CASE Staged \/ Uploading \/ Put \/ SubmitManifest \/ Finalize \/ Receipt \/ CloudCompleted
  BY <1>7, PhasesAgree, ServiceAgrees
<1>8. CASE SendConfirm \/ ConfirmWritten \/ Confirmed \/ Forget
           \/ Reload \/ DropCheckpoint \/ DropBlob \/ DropOperation
  BY <1>8, SendConfirmAgrees, ConfirmWrittenAgrees, ConfirmedAgrees, ForgetAgrees, CleansAgree
<1>9. CASE Device
  BY <1>9, OpeningsAgree, DeviceAcceptsAgrees, DeviceRepairsAgrees, DeviceAdvancesAgrees, DeviceDocuments, ResultsAgree
     DEF Device
<1>10. CASE Faults
  BY <1>10, FaultsAgree, StopsAgree, LinkDropsAgrees, ReloadPageAgrees, DeliverResultAgrees,
     ResultsAgree DEF Faults
<1>11. CASE Deliver \/ Connect  BY <1>11, DeliverAgrees, ConnectAgrees
<1>12. CASE UNCHANGED vars  BY <1>12, LineStutters
<1>. QED  BY <1>1, <1>2, <1>3, <1>4, <1>5, <1>6, <1>7, <1>8, <1>9, <1>10, <1>11, <1>12 DEF Next, Host

-----------------------------------------------------------------------------
(* The theorems *)

LEMMA Starts == Init => IInv
<1>. SUFFICES ASSUME Init  PROVE IInv  OBVIOUS
<1>1. /\ store = NoOperation /\ body = 0 /\ run = NoRun /\ link = "up" /\ wire = Nothing
      /\ air = <<>> /\ NoRun.pc = "idle" /\ Nothing.k = "none"
      /\ dev = [holds |-> TRUE, mode |-> "idle", base |-> 0, num |-> 0, acked |-> 0,
                auth |-> 0, receipt |-> 0, signed |-> NoBlob]
      /\ cloud = [s \in Sessions |-> [body |-> 0, manifest |-> FALSE, completed |-> FALSE]]
      /\ left = [faults |-> MaxFaults, aborts |-> MaxAborts, lost |-> MaxLost, sessions |-> MaxSessions]
  BY DEF Init, NoRun, Nothing
<1>2. RunOK /\ WireOK  BY <1>1, EmptyTypes DEF RunOK, WireOK
<1>3. store \in Stores /\ store.phase = "absent"
  BY <1>1, EmptyTypes, ConstantTypes DEF NoOperation, Stores, StoredPhases
<1>4. dev \in Devices /\ dev.signed = NoBlob /\ dev.receipt = 0 /\ dev.holds
  BY <1>1, EmptyTypes, ConstantTypes DEF Devices
<1>5. cloud \in Clouds /\ left \in Lefts  BY <1>1, ConstantTypes DEF Clouds, Lefts
<1>6. TypeOK  BY <1>1, <1>2, <1>3, <1>4, <1>5, ConstantTypes DEF TypeOK, StoreOK, RadioOK, RestOK
<1>7. Fits /\ CheckpointBacked /\ Asks
  BY <1>1, <1>3 DEF Fits, CheckpointBacked, Asks, Working, Starting, Early
<1>8. Chain  BY <1>1 DEF Chain
<1>9. Receipts /\ Heard /\ Custody  BY <1>1, <1>4 DEF Receipts, Heard, Custody, Signing, NoBlob
<1>. QED  BY <1>6, <1>7, <1>8, <1>9 DEF IInv

LEMMA Stutters == IInv /\ UNCHANGED vars => IInv'
<1>. SUFFICES ASSUME IInv, UNCHANGED vars  PROVE IInv'  OBVIOUS
<1>1. UNCHANGED <<store, body, run, link, wire, air, dev, cloud, left>>  BY DEF vars, durable, radio
<1>2. TypeOK'  BY <1>1 DEF IInv, TypeOK, RunOK, StoreOK, WireOK, RadioOK, RestOK
<1>3. Fits' /\ Asks' /\ Chain' /\ Custody' /\ CheckpointBacked'
  BY <1>1 DEF IInv, Fits, Working, Starting, Asks, Chain, Completed, Custody, CheckpointBacked
<1>4. Receipts' /\ Heard'  BY <1>1 DEF IInv, Receipts, Heard, Completed, InAir
<1>. QED  BY <1>2, <1>3, <1>4 DEF IInv

LEMMA Keeps == IInv /\ [Next]_vars => IInv'
<1>. SUFFICES ASSUME IInv, [Next]_vars  PROVE IInv'  OBVIOUS
<1>1. CASE Authorize  BY <1>1, StartBlobKeeps DEF Authorize
<1>2. CASE DeliverReceipt  BY <1>2, StartBlobKeeps DEF DeliverReceipt
<1>3. CASE Provided \/ SaveOperation \/ Transferring \/ Truncate \/ Sync \/ Resume \/ Cancel \/ Replaced
  BY <1>3, ProvidedKeeps, SaveOperationKeeps, PhasesKeep, TruncateKeeps, SyncKeeps, ResumeKeeps,
     CancelKeeps, ReplacedKeeps
<1>4. CASE SendBlob \/ CommitBlob \/ Committed \/ BlobSent \/ BlobTimesOut \/ DeliverResult
  BY <1>4, SendBlobKeeps, CommitBlobKeeps, CommittedKeeps, BlobSentKeeps, FailuresKeep, DeliverResultKeeps
<1>5. CASE Open \/ Opened \/ ReplayHeld \/ OpenRejected \/ DeleteCheckpoint \/ TruncateAll \/ PumpFails
  BY <1>5, OpenKeeps, OpenedKeeps, ReplayHeldKeeps, OpenRejectedKeeps, DeleteCheckpointKeeps,
     TruncateAllKeeps, PumpFailsKeeps
<1>6. CASE ReceiveData \/ WindowIncomplete \/ WindowStaged \/ SendRepair \/ Repairing
           \/ SaveCheckpoint \/ SendAck \/ Acked \/ ReceiveManifest \/ ReceiveEof \/ Evidence
  BY <1>6, ReceiveDataKeeps, WindowIncompleteKeeps, WindowStagedKeeps, SendRepairKeeps,
     RepairingKeeps, SaveCheckpointKeeps, SendAckKeeps, AckedKeeps, ReceiveManifestKeeps,
     ReceiveEofKeeps, EvidenceKeeps
<1>7. CASE Staged \/ Uploading \/ Put \/ SubmitManifest \/ Finalize \/ Receipt \/ CloudCompleted
  BY <1>7, PhasesKeep, ServiceKeeps
<1>8. CASE SendConfirm \/ ConfirmWritten \/ Confirmed \/ Forget
           \/ Reload \/ DropCheckpoint \/ DropBlob \/ DropOperation
  BY <1>8, SendConfirmKeeps, ConfirmWrittenKeeps, ConfirmedKeeps, ForgetKeeps, CleansKeep
<1>9. CASE Device
  BY <1>9, DeviceTransfersKeep, DeviceConfirmsKeeps, DeviceBuffersKeeps, DeviceCommitsKeeps,
     DeviceVerifiesKeeps DEF Device
<1>10. CASE Faults
  BY <1>10, FailuresKeep, StopsFailing, FlushFailsKeeps, ProviderFailsKeeps, LinkDropsKeeps,
     LoseKeeps, DeviceRefusesKeeps DEF Faults
<1>11. CASE Deliver \/ Connect  BY <1>11, DeliverKeeps, ConnectKeeps
<1>12. CASE UNCHANGED vars  BY <1>12, Stutters
<1>. QED  BY <1>1, <1>2, <1>3, <1>4, <1>5, <1>6, <1>7, <1>8, <1>9, <1>10, <1>11, <1>12 DEF Next, Host

\* What each step of an operation has established: the run works on the stored
\* operation and its stored checkpoint, what is staged and uploaded is whole, a receipt
\* is of a completed session wherever it is, and the writer of a receipt hears only of
\* that receipt.
THEOREM Invariant == Spec => []IInv
  BY Starts, Keeps, PTL DEF Spec

\* The journal, the ciphertext, the run, the radio, the device and the service keep
\* their types: the queues hold frames, offsets stay within the recording, sessions are
\* among those the service opened.
THEOREM TypeInvariant == Spec => []TypeOK
<1>1. IInv => TypeOK  BY DEF IInv
<1>. QED  BY <1>1, Invariant, PTL

\* The device deletes a recording only when the service holds all of its ciphertext and
\* its manifest in a session it has completed, whatever fails, is lost or is replaced.
THEOREM CustodyHolds == Spec => []Custody
<1>1. IInv => Custody  BY DEF IInv
<1>. QED  BY <1>1, Invariant, PTL

\* A stored checkpoint is of the stored session and never ahead of the ciphertext that
\* survives a reload, over truncations, repairs, restarts and replaced sessions.
THEOREM CheckpointBackedHolds == Spec => []CheckpointBacked
<1>1. IInv => CheckpointBacked  BY DEF IInv
<1>. QED  BY <1>1, Invariant, PTL

\* In a transfer that begins with START host and device never disagree on what is sent
\* next: what comes is what the control expects, a window follows what is acknowledged,
\* and the whole is what was announced, with every order of the notifications and every
\* loss but that of a repair. A transfer that resumes a checkpoint does disagree, at its
\* first end, and its outcome is not carried over to the transfer that follows.
THEOREM FreshAgreesHolds == Spec => []FreshAgrees
<1>. DEFINE I == IInv /\ (Line \/ Resumed) /\ Over /\ Verdict
<1>1. Init => I
  <2>. SUFFICES ASSUME Init  PROVE I  OBVIOUS
  <2>1. run.then = "none"  BY DEF Init, NoRun
  <2>. QED  BY <2>1, Starts, LineStarts DEF Over, Verdict, Bad
<1>2. I /\ [Next]_vars => I'
  <2>. SUFFICES ASSUME I, [Next]_vars  PROVE I'  OBVIOUS
  <2>1. IInv'  BY Keeps
  <2>2. Line' \/ Resumed'  BY <2>1, LineKeeps, ResumedKeeps
  <2>3. Over' /\ Verdict'  BY VerdictKeeps
  <2>. QED  BY <2>1, <2>2, <2>3
<1>3. I => FreshAgrees
  <2>. SUFFICES ASSUME I, dev.num = 0  PROVE run.then \notin {"protocol", "mismatch"} /\ run.broken # "protocol"
    BY DEF FreshAgrees
  <2>1. Line /\ run.then \notin Bad  BY DEF Resumed, Verdict
  <2>. QED  BY <2>1 DEF Line, Heeds, Bad
<1>. HIDE DEF I
<1>. QED  BY <1>1, <1>2, <1>3, PTL DEF Spec

=============================================================================
