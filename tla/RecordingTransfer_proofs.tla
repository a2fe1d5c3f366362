---------------------- MODULE RecordingTransfer_proofs ----------------------
(***************************************************************************)
(* Proofs about RecordingTransfer for every recording, every modulus, every *)
(* bound and every set of faults: its type invariant; the custody of a     *)
(* plain recording with the refinement of RecordingCustody; the exactness  *)
(* of the checkpoint of any recording; the delivery of a plain one.        *)
(* The first part is about the handlers of RecordingReducer: the type of   *)
(* their answers, the phase and the effects a packet may lead to, and the  *)
(* point of the stream that the workflow counts.  Its statements about     *)
(* types and phases hold for any set P of packets the queue is filled from. *)
(***************************************************************************)
EXTENDS RecordingTransfer, SequenceTheorems, WellFoundedInduction, TLAPS

-----------------------------------------------------------------------------
(* Sets of integers. *)

\* The order of the naturals, as a relation.
Less == {ss \in Nat \X Nat : ss[1] < ss[2]}

\* A nonempty set of naturals has a least element.
LEMMA LeastNatural ==
  ASSUME NEW S, S \subseteq Nat, S # {}
  PROVE  \E x \in S : \A y \in S : x <= y
<1>1. IsWellFoundedOn(Less, Nat)
  BY NatLessThanWellFounded DEF OpToRel, Less
<1>2. PICK x \in S : \A y \in S : <<y, x>> \notin Less
  BY <1>1, WFMin
<1>3. \A a, b \in Nat : a < b => <<a, b>> \in Less
  BY DEF Less
<1>4. \A y \in S : ~ (y < x)
  BY <1>2, <1>3
<1>. QED  BY <1>4

\* Min of a nonempty set of naturals is its least element.
LEMMA MinNatural ==
  ASSUME NEW S, S \subseteq Nat, S # {}
  PROVE  Min(S) \in S /\ \A y \in S : Min(S) <= y
  BY LeastNatural DEF Min

\* Max of a nonempty bounded set of naturals is its greatest element.
LEMMA MaxNatural ==
  ASSUME NEW b \in Nat, NEW S, S \subseteq 0..b, S # {}
  PROVE  Max(S) \in S /\ \A y \in S : Max(S) >= y
<1>. DEFINE T == {b - x : x \in S}
<1>1. T \subseteq Nat
  <2>1. \A x \in 0..b : b - x \in Nat
    OBVIOUS
  <2>. QED  BY <2>1
<1>2. T # {}
  OBVIOUS
<1>3. PICK t \in T : \A u \in T : t <= u
  BY <1>1, <1>2, LeastNatural
<1>4. PICK x \in S : t = b - x
  BY <1>3
<1>5. ASSUME NEW y \in S PROVE x >= y
  <2>1. b - x <= b - y
    BY <1>3, <1>4
  <2>2. x \in Int /\ y \in Int
    OBVIOUS
  <2>. QED  BY <2>1, <2>2
<1>. QED  BY <1>5 DEF Max

-----------------------------------------------------------------------------
(* Sequences. *)

\* What is left of a queue after its first k packets.
LEMMA RestOfQueue ==
  ASSUME NEW P, NEW q \in Seq(P), NEW k \in 0..Len(q)
  PROVE  SubSeq(q, k + 1, Len(q)) \in Seq(P)
  BY SubSeqProperties, LenProperties

\* The units written by a batch.
LEMMA UnitsType ==
  ASSUME NEW n \in Int, NEW k \in Nat
  PROVE  [i \in 1..k |-> n + i - 1] \in Seq(Int)
  OBVIOUS
-----------------------------------------------------------------------------
(* Handlers. *)

\* Workflows whose queue holds packets of P, and the answers they give.
QueueOf(P)  == {w \in Workflows : w.queue \in Seq(P)}
Answers(P)  == [wf : QueueOf(P), out : SUBSET EffectKinds, rejected : BOOLEAN]

\* A sequence number is below the modulus.
LEMMA Seq16Type ==
  ASSUME NEW p \in Packets
  PROVE  Seq16(p) \in 0..(SeqMod - 1) /\ SeqMod - 1 \in Nat
  BY ReducerAssumption DEF Seq16, Packets

\* Step and Reject answer.
LEMMA StepType ==
  ASSUME NEW P, NEW w \in QueueOf(P), NEW out \in SUBSET EffectKinds
  PROVE  Step(w, out) \in Answers(P) /\ Reject(w) \in Answers(P)
  BY DEF Step, Reject, Answers

\* fail answers, and ends the workflow.
LEMMA FailType ==
  ASSUME NEW P, NEW w \in QueueOf(P), NEW out \in SUBSET EffectKinds
  PROVE  /\ Fail(w, out) \in Answers(P)
         /\ Fail(w, out).wf.phase = "Failed" /\ Fail(w, out).wf.enc = w.enc
         /\ Fail(w, out).out = out /\ ~ Fail(w, out).rejected
<1>. DEFINE v == [w EXCEPT !.phase = "Failed", !.shaTimer = FALSE, !.queue = <<>>]
<1>1. <<>> \in Seq(P) /\ <<>> \in Seq(Packets) /\ w \in Workflows
  BY DEF QueueOf
<1>2. v \in Workflows
  BY <1>1 DEF Workflows, Phases
<1>3. v.queue = <<>> /\ v.phase = "Failed" /\ v.enc = w.enc
  BY <1>1 DEF Workflows
<1>4. v \in QueueOf(P)
  BY <1>1, <1>2, <1>3 DEF QueueOf
<1>. QED  BY <1>3, <1>4, StepType DEF Fail, Step

\* fail_integrity answers likewise, with the cleanup of the sink.
LEMMA FailIntegrityType ==
  ASSUME NEW P, NEW w \in QueueOf(P)
  PROVE  /\ FailIntegrity(w) \in Answers(P)
         /\ FailIntegrity(w).wf.phase = "Failed" /\ FailIntegrity(w).wf.enc = w.enc
         /\ FailIntegrity(w).out = {"NACK", "Discard", "Delete"}
         /\ ~ FailIntegrity(w).rejected
  BY FailType DEF FailIntegrity, EffectKinds

\* A handler may move the workflow on with new values in any of its fields.
LEMMA AppendUnitsType ==
  ASSUME NEW P, NEW w \in QueueOf(P), NEW n \in Int, NEW units \in Seq(Int)
  PROVE  /\ AppendUnits(w, n, units) \in Answers(P)
         /\ AppendUnits(w, n, units).wf.phase = "Appending"
         /\ AppendUnits(w, n, units).wf.enc = w.enc
         /\ AppendUnits(w, n, units).out = {"Append"}
         /\ ~ AppendUnits(w, n, units).rejected
<1>. DEFINE v == [w EXCEPT !.phase = "Appending", !.pendSeq = n, !.pend = units]
<1>1. w \in Workflows /\ w.queue \in Seq(P)
  BY DEF QueueOf
<1>2. v \in Workflows /\ v.queue = w.queue /\ v.phase = "Appending" /\ v.enc = w.enc
  BY <1>1 DEF Workflows, Phases
<1>3. v \in QueueOf(P)
  BY <1>1, <1>2 DEF QueueOf
<1>. QED  BY <1>2, <1>3, StepType DEF AppendUnits, Step, EffectKinds

\* A queue that loses its first k packets.
LEMMA ShortenType ==
  ASSUME NEW P, NEW w \in QueueOf(P), P \subseteq Packets, NEW k \in 0..Len(w.queue)
  PROVE  LET v == [w EXCEPT !.queue = SubSeq(w.queue, k + 1, Len(w.queue))]
         IN v \in QueueOf(P) /\ v.phase = w.phase /\ v.enc = w.enc
<1>. DEFINE rest == SubSeq(w.queue, k + 1, Len(w.queue))
<1>1. w \in Workflows /\ w.queue \in Seq(P) /\ w.queue \in Seq(Packets)
  BY DEF QueueOf, Workflows
<1>2. rest \in Seq(P) /\ rest \in Seq(Packets)
  BY <1>1, RestOfQueue
<1>3. [w EXCEPT !.queue = rest] \in Workflows
  BY <1>1, <1>2 DEF Workflows
<1>. QED  BY <1>1, <1>2, <1>3 DEF QueueOf, Workflows

\* append_legacy_batch takes a prefix of the queue and asks for one append.
LEMMA AppendBatchType ==
  ASSUME NEW P, NEW w \in QueueOf(P), P \subseteq Packets, NEW p \in Packets
  PROVE  /\ AppendBatch(w, p) \in Answers(P)
         /\ AppendBatch(w, p).wf.phase = "Appending" /\ AppendBatch(w, p).wf.enc = w.enc
         /\ AppendBatch(w, p).out = {"Append"} /\ ~ AppendBatch(w, p).rejected
<1>. DEFINE q == w.queue
            Top(j) == Max({Seq16(p)} \cup {Seq16(q[i]) : i \in 1..j})
            Joins(i) == /\ q[i].t = "Data"
                        /\ Seq16(q[i]) <= Top(i - 1) + 1
                        /\ Seq16(q[i]) > Top(i - 1) =>
                             Top(i - 1) - Seq16(p) + 2 <= BatchCap
            fits  == {j \in 0..Len(q) : \A i \in 1..j : Joins(i)}
            taken == Max(fits)
            size  == Top(taken) - Seq16(p) + 1
            units == [i \in 1..size |-> p.n + i - 1]
            v == [w EXCEPT !.queue = SubSeq(q, taken + 1, Len(q))]
<1>1. q \in Seq(Packets) /\ Len(q) \in Nat
  BY DEF QueueOf, Workflows
<1>2. taken \in 0..Len(q)
  <2>1. fits \subseteq 0..Len(q) /\ 0 \in fits
    BY <1>1
  <2>. HIDE DEF fits
  <2>. QED  BY <2>1, <1>1, MaxNatural
<1>3. Top(taken) \in Nat /\ Top(taken) >= Seq16(p) /\ Seq16(p) \in Nat
  <2>. DEFINE S == {Seq16(p)} \cup {Seq16(q[i]) : i \in 1..taken}
  <2>. HIDE DEF taken
  <2>1. \A i \in 1..taken : q[i] \in Packets
    BY <1>1, <1>2, LenProperties
  <2>2. S \subseteq 0..(SeqMod - 1) /\ SeqMod - 1 \in Nat /\ Seq16(p) \in S
    BY <2>1, Seq16Type
  <2>3. Max(S) \in S /\ Max(S) >= Seq16(p)
    <3>. HIDE DEF S
    <3>. QED  BY <2>2, MaxNatural
  <2>4. Top(taken) = Max(S)
    OBVIOUS
  <2>. HIDE DEF S, Top
  <2>5. \A x \in S : x \in Nat
    BY <2>2
  <2>6. Max(S) \in Nat /\ Seq16(p) \in Nat
    BY <2>2, <2>3, <2>5
  <2>. QED  BY <2>3, <2>4, <2>6
<1>4. size \in Nat /\ p.n \in Int
  BY <1>3 DEF Packets
<1>5. units \in Seq(Int)
  <2>. HIDE DEF size
  <2>. QED  BY <1>4, UnitsType
<1>6. v \in QueueOf(P) /\ v.enc = w.enc
  <2>. HIDE DEF taken
  <2>. QED  BY <1>2, ShortenType
<1>7. AppendBatch(w, p) = AppendUnits(v, Top(taken), units)
  BY DEF AppendBatch
<1>8. \A u \in QueueOf(P), n \in Int, us \in Seq(Int) :
        /\ AppendUnits(u, n, us) \in Answers(P)
        /\ AppendUnits(u, n, us).wf.phase = "Appending"
        /\ AppendUnits(u, n, us).wf.enc = u.enc
        /\ AppendUnits(u, n, us).out = {"Append"}
        /\ ~ AppendUnits(u, n, us).rejected
  BY AppendUnitsType
<1>. HIDE DEF v, Top, taken, units
<1>. QED  BY <1>3, <1>5, <1>6, <1>7, <1>8

\* Absorbing quiet packets changes neither the phase nor, without an E2E
\* header, the kind of the recording.
LEMMA AbsorbType ==
  ASSUME NEW P, NEW w \in QueueOf(P), P \subseteq Packets, NEW k \in 0..Len(w.queue)
  PROVE  /\ Absorb(w, k) \in QueueOf(P) /\ Absorb(w, k).phase = w.phase
         /\ Absorb(w, k).queue = SubSeq(w.queue, k + 1, Len(w.queue))
         /\ (\A p \in P : p.t # "E2eStart") => Absorb(w, k).enc = w.enc
<1>. DEFINE q == w.queue
            rest == SubSeq(q, k + 1, Len(q))
            Has(t) == \E i \in 1..k : q[i].t = t
            sha1 == w.sha \/ Has("Sha256")
            enc1 == IF Has("E2eStart") THEN "yes" ELSE w.enc
            v == [w EXCEPT !.sha = sha1, !.enc = enc1, !.queue = rest]
<1>1. w \in Workflows /\ q \in Seq(P) /\ q \in Seq(Packets) /\ Len(q) \in Nat
  BY DEF QueueOf, Workflows
<1>2. rest \in Seq(P) /\ rest \in Seq(Packets)
  BY <1>1, RestOfQueue
<1>3. sha1 \in BOOLEAN /\ enc1 \in {"unknown", "no", "yes"}
  BY <1>1 DEF Workflows
<1>4. (\A p \in P : p.t # "E2eStart") => enc1 = w.enc
  BY <1>1, LenProperties
<1>5. Absorb(w, k) = v
  BY DEF Absorb
<1>. HIDE DEF sha1, enc1, rest, q
<1>6. v \in Workflows /\ v.queue = rest /\ v.phase = w.phase /\ v.enc = enc1
  BY <1>1, <1>2, <1>3 DEF Workflows
<1>. QED  BY <1>2, <1>4, <1>5, <1>6 DEF QueueOf, rest, q

\* finalize answers Finalizing with the verification of the sink, fails on a
\* malformed packet, or is refused in phase Finalizing.
LEMMA FinalizeSinkType ==
  ASSUME NEW P, NEW w \in QueueOf(P), P \subseteq Packets
  PROVE  LET r == FinalizeSink(w)
         IN /\ r \in Answers(P) /\ r.wf.enc = w.enc
            /\ IF r.rejected THEN r.wf.phase = "Finalizing"
               ELSE \/ r.wf.phase = "Finalizing" /\ r.out = {"Finalize"}
                    \/ r.wf.phase = "Failed" /\ r.out = {}
<1>. DEFINE q   == w.queue
            odd == {i \in 1..Len(q) : q[i].t \notin AfterEofTypes}
            end == IF odd = {} THEN Len(q) ELSE Min(odd) - 1
            sha1 == w.sha \/ \E i \in 1..end : q[i].t = "Sha256"
            s   == [w EXCEPT !.phase = "Finalizing", !.shaTimer = TRUE, !.queue = <<>>,
                             !.sha = sha1]
<1>1. w \in Workflows /\ <<>> \in Seq(P) /\ <<>> \in Seq(Packets)
  BY DEF QueueOf, Workflows
<1>2. sha1 \in BOOLEAN
  BY <1>1 DEF Workflows
<1>3. FinalizeSink(w) \in {Step(s, {"Finalize"}), Fail(s, {}), Reject(s)}
  <2>. HIDE DEF sha1
  <2>. QED  BY DEF FinalizeSink, sha1
<1>. HIDE DEF sha1
<1>4. /\ s \in Workflows /\ s.queue = <<>>
      /\ s.phase = "Finalizing" /\ s.enc = w.enc
  BY <1>1, <1>2 DEF Workflows, Phases
<1>5. s \in QueueOf(P)
  BY <1>1, <1>4 DEF QueueOf
<1>. HIDE DEF s
<1>6. {"Finalize"} \in SUBSET EffectKinds /\ {} \in SUBSET EffectKinds
  BY DEF EffectKinds
<1>7. CASE FinalizeSink(w) = Step(s, {"Finalize"})
  BY <1>4, <1>5, <1>6, <1>7, StepType DEF Step
<1>8. CASE FinalizeSink(w) = Fail(s, {})
  <2>1. /\ Fail(s, {}) \in Answers(P) /\ Fail(s, {}).wf.phase = "Failed"
        /\ Fail(s, {}).wf.enc = s.enc /\ Fail(s, {}).out = {}
        /\ ~ Fail(s, {}).rejected
    BY <1>5, <1>6, FailType
  <2>. QED  BY <1>4, <1>8, <2>1
<1>9. CASE FinalizeSink(w) = Reject(s)
  BY <1>4, <1>5, <1>6, <1>9, StepType DEF Reject
<1>. QED  BY <1>3, <1>7, <1>8, <1>9

\* What a packet may lead to; the checkpoint of an append comes on top.
Requests(r) == r.out \ {"Save"}
Outcome(r) ==
  IF r.rejected THEN r.wf.phase = "Finalizing"
  ELSE \/ r.wf.phase = "Transferring" /\ Requests(r) = {}
       \/ r.wf.phase = "Appending" /\ Requests(r) = {"Append"}
       \/ r.wf.phase = "Finalizing" /\ Requests(r) = {"Finalize"}
       \/ r.wf.phase = "Failed" /\ Requests(r) \subseteq {"NACK", "Discard", "Delete"}

\* The ends of a transfer are outcomes.
LEMMA FailOutcome ==
  ASSUME NEW P, NEW w \in QueueOf(P)
  PROVE  /\ Fail(w, {}) \in Answers(P) /\ FailIntegrity(w) \in Answers(P)
         /\ Outcome(Fail(w, {})) /\ Outcome(FailIntegrity(w))
         /\ Fail(w, {}).wf.enc = w.enc /\ FailIntegrity(w).wf.enc = w.enc
<1>1. {} \in SUBSET EffectKinds
  OBVIOUS
<1>2. /\ Fail(w, {}) \in Answers(P) /\ Fail(w, {}).wf.phase = "Failed"
      /\ Fail(w, {}).wf.enc = w.enc /\ Fail(w, {}).out = {}
      /\ ~ Fail(w, {}).rejected
  BY <1>1, FailType
<1>3. /\ FailIntegrity(w) \in Answers(P) /\ FailIntegrity(w).wf.phase = "Failed"
      /\ FailIntegrity(w).out = {"NACK", "Discard", "Delete"}
      /\ ~ FailIntegrity(w).rejected /\ FailIntegrity(w).wf.enc = w.enc
  BY FailIntegrityType
<1>. QED  BY <1>2, <1>3 DEF Outcome, Requests

\* Marking the kind of the recording keeps the queue.
LEMMA KindType ==
  ASSUME NEW P, NEW w \in QueueOf(P), NEW e \in {"unknown", "no", "yes"}
  PROVE  LET v == [w EXCEPT !.enc = e]
         IN v \in QueueOf(P) /\ v.enc = e /\ v.phase = w.phase
  BY DEF QueueOf, Workflows

\* Every packet that leaves phase Transferring leads to an outcome, and a plain
\* packet leaves a plain recording plain.
LEMMA TakePacketType ==
  ASSUME NEW P, NEW w \in QueueOf(P), P \subseteq Packets, NEW p \in P
  PROVE  /\ TakePacket(w, p) \in Answers(P) /\ Outcome(TakePacket(w, p))
         /\ w.enc # "yes" /\ p.t \notin RelayTypes => TakePacket(w, p).wf.enc # "yes"
<1>. DEFINE r == TakePacket(w, p)
            plain == [w EXCEPT !.enc = "no"]
            relay == [w EXCEPT !.enc = "yes"]
            Good(a) == /\ a \in Answers(P) /\ Outcome(a)
                       /\ w.enc # "yes" /\ p.t \notin RelayTypes => a.wf.enc # "yes"
<1>1. p \in Packets /\ p.n \in Int /\ <<p.n>> \in Seq(Int) /\ Seq16(p) \in Int
  BY Seq16Type DEF Packets
<1>2. plain \in QueueOf(P) /\ plain.enc = "no" /\ relay \in QueueOf(P) /\ relay.enc = "yes"
  BY KindType
<1>. HIDE DEF plain, relay
<1>3. Good(Fail(w, {})) /\ Good(FailIntegrity(w))
  BY FailOutcome
<1>4. Good(AppendBatch(plain, p))
  <2>1. /\ AppendBatch(plain, p) \in Answers(P)
        /\ AppendBatch(plain, p).wf.phase = "Appending"
        /\ AppendBatch(plain, p).wf.enc = "no"
        /\ AppendBatch(plain, p).out = {"Append"}
        /\ ~ AppendBatch(plain, p).rejected
    BY <1>1, <1>2, AppendBatchType
  <2>. QED  BY <2>1 DEF Outcome, Requests
<1>5. Good(FinalizeSink(plain)) /\ (p.t \in RelayTypes => Good(FinalizeSink(w)))
  <2>1. ASSUME NEW v \in QueueOf(P)
        PROVE  /\ FinalizeSink(v) \in Answers(P) /\ Outcome(FinalizeSink(v))
               /\ FinalizeSink(v).wf.enc = v.enc
    BY FinalizeSinkType DEF Outcome, Requests
  <2>. QED  BY <1>2, <2>1
<1>6. \A u \in QueueOf(P), n \in Int, us \in Seq(Int) :
        p.t \in RelayTypes => Good(AppendUnits(u, n, us))
  <2>1. \A u \in QueueOf(P), n \in Int, us \in Seq(Int) :
          /\ AppendUnits(u, n, us) \in Answers(P)
          /\ AppendUnits(u, n, us).wf.phase = "Appending"
          /\ AppendUnits(u, n, us).out = {"Append"}
          /\ ~ AppendUnits(u, n, us).rejected
    BY AppendUnitsType
  <2>. QED  BY <2>1 DEF Outcome, Requests
<1>7. None \in Int /\ <<Header>> \in Seq(Int)
  BY DEF None, Header
<1>8. \/ r \in {Fail(w, {}), FailIntegrity(w), AppendBatch(plain, p), FinalizeSink(plain)}
      \/ /\ p.t \in RelayTypes
         /\ r \in {AppendUnits(relay, None, <<Header>>), FinalizeSink(w),
                   AppendUnits(w, Seq16(p), <<p.n>>)}
  BY DEF TakePacket, RelayTypes, plain, relay
<1>. HIDE DEF Good, r
<1>9. Good(r)
  BY <1>1, <1>2, <1>3, <1>4, <1>5, <1>6, <1>7, <1>8
<1>. QED  BY <1>9 DEF Good, r

\* drain_packets leads to an outcome whatever the queue holds.
LEMMA DrainType ==
  ASSUME NEW P, NEW w \in QueueOf(P), P \subseteq Packets, w.phase = "Transferring"
  PROVE  /\ Drain(w) \in Answers(P) /\ Outcome(Drain(w))
         /\ w.enc # "yes" /\ (\A p \in P : p.t \notin RelayTypes) => Drain(w).wf.enc # "yes"
<1>. DEFINE q    == w.queue
            loud == {k \in 1..Len(q) : ~ Quiet(Absorb(w, k - 1), q[k])}
            k    == Min(loud)
            v    == [Absorb(w, k - 1) EXCEPT !.queue = SubSeq(q, k + 1, Len(q))]
<1>1. w \in Workflows /\ q \in Seq(P) /\ Len(q) \in Nat
  BY DEF QueueOf, Workflows
<1>2. CASE loud = {}
  <2>. DEFINE a == Absorb(w, Len(q))
  <2>1. Len(q) \in 0..Len(w.queue)
    BY <1>1
  <2>2. /\ a \in QueueOf(P) /\ a.phase = w.phase
        /\ (\A p \in P : p.t # "E2eStart") => a.enc = w.enc
    BY <2>1, AbsorbType
  <2>3. Drain(w) = Step(a, {})
    BY <1>2 DEF Drain
  <2>4. {} \in SUBSET EffectKinds
    OBVIOUS
  <2>. HIDE DEF a
  <2>5. Step(a, {}) \in Answers(P)
    BY <2>2, <2>4, StepType
  <2>. QED  BY <2>2, <2>3, <2>5 DEF Step, Outcome, Requests, RelayTypes
<1>3. CASE loud # {}
  <2>1. k \in 1..Len(q)
    <3>1. loud \subseteq Nat /\ loud \subseteq 1..Len(q)
      BY <1>1
    <3>. HIDE DEF loud
    <3>. QED  BY <1>3, <3>1, MinNatural
  <2>2. Drain(w) = TakePacket(v, q[k])
    BY <1>3 DEF Drain
  <2>. HIDE DEF k
  <2>3. k - 1 \in 0..Len(w.queue) /\ q[k] \in P
    BY <1>1, <2>1, LenProperties
  <2>4. /\ Absorb(w, k - 1) \in QueueOf(P)
        /\ (\A p \in P : p.t # "E2eStart") => Absorb(w, k - 1).enc = w.enc
    BY <2>3, AbsorbType
  <2>5. SubSeq(q, k + 1, Len(q)) \in Seq(P) /\ SubSeq(q, k + 1, Len(q)) \in Seq(Packets)
    <3>1. q \in Seq(Packets)
      BY <1>1 DEF Workflows
    <3>2. k \in 0..Len(q)
      BY <2>1
    <3>. QED  BY <1>1, <3>1, <3>2, RestOfQueue
  <2>6. v \in QueueOf(P) /\ v.enc = Absorb(w, k - 1).enc
    <3>. DEFINE u    == Absorb(w, k - 1)
                rest == SubSeq(q, k + 1, Len(q))
    <3>. HIDE DEF u, rest
    <3>1. [u EXCEPT !.queue = rest] \in QueueOf(P) /\ [u EXCEPT !.queue = rest].enc = u.enc
      BY <2>4, <2>5 DEF QueueOf, Workflows, u, rest
    <3>. QED  BY <3>1 DEF u, rest
  <2>. HIDE DEF v
  <2>7. /\ TakePacket(v, q[k]) \in Answers(P) /\ Outcome(TakePacket(v, q[k]))
        /\ v.enc # "yes" /\ q[k].t \notin RelayTypes => TakePacket(v, q[k]).wf.enc # "yes"
    BY <2>3, <2>6, TakePacketType
  <2>. QED  BY <2>2, <2>3, <2>4, <2>6, <2>7 DEF RelayTypes
<1>. QED  BY <1>2, <1>3

-----------------------------------------------------------------------------
(* One lemma per handler.  Moved(P, w, r, phase, out) says that r moves w to *)
(* the phase with the effects out and keeps its queue in P and its kind.     *)

Moved(P, w, r, phase, out) ==
  /\ r \in Answers(P) /\ ~ r.rejected
  /\ r.wf.phase = phase /\ r.wf.enc = w.enc /\ r.out = out

\* A step to a workflow with the same kind moves there.
LEMMA MovedStep ==
  ASSUME NEW P, NEW w, NEW v \in QueueOf(P), NEW phase, NEW out \in SUBSET EffectKinds,
         v.phase = phase, v.enc = w.enc
  PROVE  Moved(P, w, Step(v, out), phase, out)
<1>1. Step(v, out) \in Answers(P)
  BY StepType
<1>. QED  BY <1>1 DEF Step, Moved

\* CheckpointLoaded takes over the units and the sequence of the checkpoint.
LEMMA CheckpointLoadedType ==
  ASSUME NEW P, NEW w \in QueueOf(P), NEW c \in [units : Nat, last : Int]
  PROVE  Moved(P, w, CheckpointLoaded(w, c), "TruncatingSink", {"Truncate"})
<1>. DEFINE v == [w EXCEPT !.phase = "TruncatingSink", !.completed = c.units, !.last = c.last]
<1>1. w \in Workflows /\ w.queue \in Seq(P)
  BY DEF QueueOf
<1>2. v \in Workflows /\ v.queue = w.queue /\ v.phase = "TruncatingSink" /\ v.enc = w.enc
  BY <1>1 DEF Workflows, Phases
<1>3. v \in QueueOf(P) /\ {"Truncate"} \in SUBSET EffectKinds
  BY <1>1, <1>2 DEF QueueOf, EffectKinds
<1>4. CheckpointLoaded(w, c) = Step(v, {"Truncate"})
  BY DEF CheckpointLoaded
<1>. HIDE DEF v
<1>. QED  BY <1>2, <1>3, <1>4, MovedStep

\* Moving to a phase alone keeps the queue and the kind.
LEMMA PhaseType ==
  ASSUME NEW P, NEW w \in QueueOf(P), NEW phase \in Phases
  PROVE  LET v == [w EXCEPT !.phase = phase]
         IN v \in QueueOf(P) /\ v.phase = phase /\ v.enc = w.enc
  BY DEF QueueOf, Workflows

\* RecordingSinkTruncated, Subscribed and the write callbacks move straight on.
LEMMA PhaseMoves ==
  ASSUME NEW P, NEW w \in QueueOf(P)
  PROVE  /\ Moved(P, w, SinkTruncated(w), "Subscribing", {"Subscribe"})
         /\ Moved(P, w, Subscribed(w), "Starting", {"START"})
<1>1. /\ "Subscribing" \in Phases /\ "Starting" \in Phases
      /\ {"Subscribe"} \in SUBSET EffectKinds /\ {"START"} \in SUBSET EffectKinds
  BY DEF Phases, EffectKinds
<1>2. Moved(P, w, SinkTruncated(w), "Subscribing", {"Subscribe"})
  <2>. DEFINE v == [w EXCEPT !.phase = "Subscribing"]
  <2>1. v \in QueueOf(P) /\ v.phase = "Subscribing" /\ v.enc = w.enc
    BY <1>1, PhaseType
  <2>2. SinkTruncated(w) = Step(v, {"Subscribe"})
    BY DEF SinkTruncated
  <2>. HIDE DEF v
  <2>. QED  BY <1>1, <2>1, <2>2, MovedStep
<1>3. Moved(P, w, Subscribed(w), "Starting", {"START"})
  <2>. DEFINE v == [w EXCEPT !.phase = "Starting"]
  <2>1. v \in QueueOf(P) /\ v.phase = "Starting" /\ v.enc = w.enc
    BY <1>1, PhaseType
  <2>2. Subscribed(w) = Step(v, {"START"})
    BY DEF Subscribed
  <2>. HIDE DEF v
  <2>. QED  BY <1>1, <2>1, <2>2, MovedStep
<1>. QED  BY <1>2, <1>3

\* START written: the queue is drained in phase Transferring.
LEMMA StartWrittenType ==
  ASSUME NEW P, NEW w \in QueueOf(P), P \subseteq Packets
  PROVE  /\ StartWritten(w) \in Answers(P) /\ Outcome(StartWritten(w))
         /\ w.enc # "yes" /\ (\A p \in P : p.t \notin RelayTypes) =>
              StartWritten(w).wf.enc # "yes"
<1>. DEFINE v == [w EXCEPT !.phase = "Transferring"]
<1>1. v \in QueueOf(P) /\ v.phase = "Transferring" /\ v.enc = w.enc
  BY ZenonT(60), PhaseType DEF Phases
<1>2. StartWritten(w) = Drain(v)
  BY DEF StartWritten
<1>. HIDE DEF v
<1>3. /\ Drain(v) \in Answers(P) /\ Outcome(Drain(v))
      /\ v.enc # "yes" /\ (\A p \in P : p.t \notin RelayTypes) => Drain(v).wf.enc # "yes"
  BY <1>1, DrainType
<1>. QED  BY <1>1, <1>2, <1>3

\* Completed, with the checkpoint deleted.
LEMMA CompleteType ==
  ASSUME NEW P, NEW w \in QueueOf(P)
  PROVE  Moved(P, w, Complete(w), "Completed", {"Delete"})
<1>. DEFINE v == [w EXCEPT !.phase = "Completed", !.queue = <<>>]
<1>1. w \in Workflows /\ <<>> \in Seq(P) /\ <<>> \in Seq(Packets)
  BY DEF QueueOf
<1>2. v \in Workflows /\ v.queue = <<>> /\ v.phase = "Completed" /\ v.enc = w.enc
  BY <1>1 DEF Workflows, Phases
<1>3. v \in QueueOf(P) /\ {"Delete"} \in SUBSET EffectKinds
  BY <1>1, <1>2 DEF QueueOf, EffectKinds
<1>4. Complete(w) = Step(v, {"Delete"})
  BY DEF Complete
<1>. HIDE DEF v
<1>. QED  BY <1>2, <1>3, <1>4, MovedStep

\* acknowledge asks for the ACK and ends the grace period.
LEMMA AcknowledgeType ==
  ASSUME NEW P, NEW w \in QueueOf(P)
  PROVE  Moved(P, w, Acknowledge(w), "Acknowledging", {"ACK"})
<1>. DEFINE v == [w EXCEPT !.phase = "Acknowledging", !.shaTimer = FALSE]
<1>1. w \in Workflows /\ w.queue \in Seq(P)
  BY DEF QueueOf
<1>2. v \in Workflows /\ v.queue = w.queue /\ v.phase = "Acknowledging" /\ v.enc = w.enc
  BY <1>1 DEF Workflows, Phases
<1>3. v \in QueueOf(P) /\ {"ACK"} \in SUBSET EffectKinds
  BY <1>1, <1>2 DEF QueueOf, EffectKinds
<1>4. Acknowledge(w) = Step(v, {"ACK"})
  BY DEF Acknowledge
<1>. HIDE DEF v
<1>. QED  BY <1>2, <1>3, <1>4, MovedStep

\* Whatever else a handler records of w, acknowledging it acknowledges w.
LEMMA AcknowledgeLike ==
  ASSUME NEW P, NEW w, NEW v \in QueueOf(P), v.enc = w.enc
  PROVE  Moved(P, w, Acknowledge(v), "Acknowledging", {"ACK"})
  BY AcknowledgeType DEF Moved

\* RecordingSinkFinalized is acknowledged, or waits for the digest.
LEMMA SinkFinalizedType ==
  ASSUME NEW P, NEW w \in QueueOf(P), NEW stored \in Nat
  PROVE  \/ Moved(P, w, SinkFinalized(w, stored), "Acknowledging", {"ACK"})
         \/ Moved(P, w, SinkFinalized(w, stored), "WaitingForSha", {})
<1>. DEFINE s == [w EXCEPT !.completed = stored]
            v == [s EXCEPT !.phase = "WaitingForSha"]
<1>1. s \in QueueOf(P) /\ s.enc = w.enc
  BY DEF QueueOf, Workflows
<1>2. SinkFinalized(w, stored) = Acknowledge(s) \/ SinkFinalized(w, stored) = Step(v, {})
  <2>1. SinkFinalized(w, stored) =
          IF w.sha \/ w.shaElapsed THEN Acknowledge(s) ELSE Step(v, {})
    BY Zenon DEF SinkFinalized
  <2>. QED  BY <2>1, Zenon
<1>. HIDE DEF s
<1>3. v \in QueueOf(P) /\ v.phase = "WaitingForSha" /\ v.enc = w.enc
  <2>1. "WaitingForSha" \in Phases
    BY DEF Phases
  <2>2. v \in QueueOf(P) /\ v.phase = "WaitingForSha" /\ v.enc = s.enc
    BY <1>1, <2>1, PhaseType
  <2>. HIDE DEF v
  <2>. QED  BY <1>1, <2>2
<1>4. {} \in SUBSET EffectKinds
  OBVIOUS
<1>. HIDE DEF v
<1>5. Moved(P, w, Acknowledge(s), "Acknowledging", {"ACK"})
  BY <1>1, AcknowledgeLike
<1>6. Moved(P, w, Step(v, {}), "WaitingForSha", {})
  BY <1>3, <1>4, MovedStep
<1>. QED  BY <1>2, <1>5, <1>6

\* ACK written: CONFIRM only if the command asks for it.
LEMMA AckWrittenType ==
  ASSUME NEW P, NEW w \in QueueOf(P)
  PROVE  \/ /\ ConfirmOnCompletion
            /\ Moved(P, w, AckWritten(w), "Confirming", {"CONFIRM"})
         \/ Moved(P, w, AckWritten(w), "Completed", {"Delete"})
<1>. DEFINE v == [w EXCEPT !.phase = "Confirming"]
<1>1. v \in QueueOf(P) /\ v.phase = "Confirming" /\ v.enc = w.enc
  BY ZenonT(60), PhaseType DEF Phases
<1>2. {"CONFIRM"} \in SUBSET EffectKinds
  BY DEF EffectKinds
<1>3. AckWritten(w) = IF ConfirmOnCompletion THEN Step(v, {"CONFIRM"}) ELSE Complete(w)
  BY DEF AckWritten
<1>. HIDE DEF v
<1>4. Moved(P, w, Step(v, {"CONFIRM"}), "Confirming", {"CONFIRM"})
  BY <1>1, <1>2, MovedStep
<1>. QED  BY <1>3, <1>4, CompleteType

\* The grace timer acknowledges, is remembered, or is refused.
LEMMA TimerFiredType ==
  ASSUME NEW P, NEW w \in QueueOf(P)
  PROVE  \/ /\ w.phase = "WaitingForSha"
            /\ Moved(P, w, TimerFired(w), "Acknowledging", {"ACK"})
         \/ Moved(P, w, TimerFired(w), w.phase, {})
         \/ TimerFired(w) = Reject(w)
<1>. DEFINE s == [w EXCEPT !.shaTimer = FALSE, !.shaElapsed = TRUE]
<1>1. s \in QueueOf(P) /\ s.enc = w.enc /\ s.phase = w.phase
  BY DEF QueueOf, Workflows
<1>2. \/ w.phase = "WaitingForSha" /\ TimerFired(w) = Acknowledge(s)
      \/ TimerFired(w) = Step(s, {})
      \/ TimerFired(w) = Reject(w)
  <2>1. TimerFired(w) = CASE w.phase = "WaitingForSha" -> Acknowledge(s)
                          [] w.phase = "Finalizing"    -> Step(s, {})
                          [] OTHER                     -> Reject(w)
    BY Zenon DEF TimerFired
  <2>. HIDE DEF s
  <2>. QED  BY <2>1
<1>. HIDE DEF s
<1>3. Moved(P, w, Acknowledge(s), "Acknowledging", {"ACK"})
  BY <1>1, AcknowledgeLike
<1>4. Moved(P, w, Step(s, {}), w.phase, {})
  BY <1>1, MovedStep
<1>. QED  BY <1>2, <1>3, <1>4

\* RecordingSinkAppendCompleted leads to an outcome of the queue.
LEMMA AppendCompletedType ==
  ASSUME NEW P, NEW w \in QueueOf(P), P \subseteq Packets, NEW stored \in Nat
  PROVE  LET r == AppendCompleted(w, stored)
         IN /\ r \in Answers(P) /\ Outcome(r)
            /\ w.enc # "yes" /\ (\A p \in P : p.t \notin RelayTypes) => r.wf.enc # "yes"
<1>. DEFINE last1 == IF w.pendSeq = None THEN w.last ELSE w.pendSeq
            s == [w EXCEPT !.phase = "Transferring", !.completed = stored,
                           !.pendSeq = None, !.pend = <<>>, !.last = last1]
            r == Drain(s)
            a == [r EXCEPT !.out = r.out \cup {"Save"}]
            Good(x) == /\ x \in Answers(P) /\ Outcome(x)
                       /\ w.enc # "yes" /\ (\A p \in P : p.t \notin RelayTypes) =>
                            x.wf.enc # "yes"
<1>1. w \in Workflows /\ w.queue \in Seq(P) /\ last1 \in Int /\ None \in Int
  BY DEF QueueOf, Workflows, None
<1>2. \/ AppendCompleted(w, stored) = Fail(w, {})
      \/ AppendCompleted(w, stored) = r
      \/ AppendCompleted(w, stored) = a
  <2>1. AppendCompleted(w, stored) =
          IF stored < w.completed + Len(w.pend) THEN Fail(w, {})
          ELSE IF r.rejected THEN r ELSE a
    BY Zenon DEF AppendCompleted
  <2>. QED  BY <2>1, Zenon
<1>. HIDE DEF last1
<1>3. s \in Workflows /\ s.queue = w.queue /\ s.phase = "Transferring" /\ s.enc = w.enc
  <2>1. <<>> \in Seq(Int) /\ "Transferring" \in Phases
    BY DEF Phases
  <2>. QED  BY <1>1, <2>1 DEF Workflows
<1>4. s \in QueueOf(P)
  BY <1>1, <1>3 DEF QueueOf
<1>. HIDE DEF s
<1>5. Good(r)
  BY <1>3, <1>4, DrainType
<1>. HIDE DEF r
<1>6. r \in Answers(P) /\ {"Save"} \subseteq EffectKinds
  BY <1>5 DEF EffectKinds
<1>7. a \in Answers(P) /\ a.wf = r.wf /\ a.rejected = r.rejected /\ Requests(a) = Requests(r)
  BY <1>6 DEF Answers, Requests
<1>8. Good(a)
  <2>. HIDE DEF a
  <2>. QED  BY <1>5, <1>7 DEF Outcome
<1>9. Good(Fail(w, {}))
  BY FailOutcome
<1>. HIDE DEF Good, a
<1>10. Good(AppendCompleted(w, stored))
  BY <1>2, <1>5, <1>8, <1>9
<1>. QED  BY <1>10 DEF Good

\* A packet after EOF is absorbed, refused, ends the grace period or the workflow.
LEMMA AfterEofType ==
  ASSUME NEW P, NEW w \in QueueOf(P), NEW p
  PROVE  LET r == AfterEof(w, p)
         IN \/ Moved(P, w, r, w.phase, {})
            \/ r = Reject(w)
            \/ Moved(P, w, r, "Failed", {})
            \/ w.phase = "WaitingForSha" /\ Moved(P, w, r, "Acknowledging", {"ACK"})
<1>. DEFINE s == [w EXCEPT !.sha = TRUE]
<1>1. s \in QueueOf(P) /\ s.enc = w.enc /\ s.phase = w.phase
  BY DEF QueueOf, Workflows
<1>2. {} \in SUBSET EffectKinds
  OBVIOUS
<1>3. \/ w.phase = "WaitingForSha" /\ AfterEof(w, p) = Acknowledge(s)
      \/ AfterEof(w, p) = Step(s, {})
      \/ AfterEof(w, p) = Step(w, {})
      \/ AfterEof(w, p) = Fail(w, {})
      \/ AfterEof(w, p) = Reject(w)
  <2>1. AfterEof(w, p) = CASE p.t = "Sha256" ->
                                IF w.phase = "WaitingForSha" THEN Acknowledge(s)
                                ELSE Step(s, {})
                           [] p.t \in {"Eof", "EncryptedEof"} -> Step(w, {})
                           [] p.t = "Malformed" -> Fail(w, {})
                           [] OTHER -> Reject(w)
    BY <1>1, Zenon DEF AfterEof
  <2>. HIDE DEF s
  <2>. QED  BY <2>1
<1>. HIDE DEF s
<1>4. Moved(P, w, Acknowledge(s), "Acknowledging", {"ACK"})
  BY <1>1, AcknowledgeLike
<1>5. Moved(P, w, Step(s, {}), w.phase, {}) /\ Moved(P, w, Step(w, {}), w.phase, {})
  BY <1>1, <1>2, MovedStep
<1>6. Moved(P, w, Fail(w, {}), "Failed", {})
  BY <1>2, FailType DEF Moved
<1>. QED  BY <1>3, <1>4, <1>5, <1>6

\* A packet that must wait is queued, or fails the transfer when the queue is full.
LEMMA EnqueueType ==
  ASSUME NEW P, NEW w \in QueueOf(P), P \subseteq Packets, NEW p \in P
  PROVE  \/ Moved(P, w, Enqueue(w, p), w.phase, {})
         \/ Moved(P, w, Enqueue(w, p), "Failed", {"NACK", "Discard", "Delete"})
<1>. DEFINE v == [w EXCEPT !.queue = Append(w.queue, p)]
<1>1. w \in Workflows /\ w.queue \in Seq(P) /\ w.queue \in Seq(Packets) /\ p \in Packets
  BY DEF QueueOf, Workflows
<1>2. Append(w.queue, p) \in Seq(P) /\ Append(w.queue, p) \in Seq(Packets)
  BY <1>1, AppendProperties
<1>3. v \in QueueOf(P) /\ v.phase = w.phase /\ v.enc = w.enc
  BY <1>1, <1>2 DEF QueueOf, Workflows
<1>4. Enqueue(w, p) = FailIntegrity(w) \/ Enqueue(w, p) = Step(v, {})
  BY Zenon DEF Enqueue
<1>. HIDE DEF v
<1>5. Moved(P, w, Step(v, {}), w.phase, {})
  BY <1>3, MovedStep
<1>6. Moved(P, w, FailIntegrity(w), "Failed", {"NACK", "Discard", "Delete"})
  BY FailIntegrityType DEF Moved
<1>. QED  BY <1>4, <1>5, <1>6

\* A notification, in any phase.
LEMMA NotificationType ==
  ASSUME NEW P, NEW w \in QueueOf(P), P \subseteq Packets, NEW p \in P
  PROVE  LET r == Notification(w, p)
         IN \/ Moved(P, w, r, w.phase, {})
            \/ r = Reject(w)
            \/ /\ w.phase \in {"Starting", "Appending", "Finalizing", "WaitingForSha"}
               /\ \E out \in SUBSET {"NACK", "Discard", "Delete"} :
                    Moved(P, w, r, "Failed", out)
            \/ w.phase = "WaitingForSha" /\ Moved(P, w, r, "Acknowledging", {"ACK"})
            \/ /\ w.phase = "Transferring" /\ r \in Answers(P) /\ Outcome(r)
               /\ w.enc # "yes" /\ (\A x \in P : x.t \notin RelayTypes) => r.wf.enc # "yes"
<1>. DEFINE v == [w EXCEPT !.queue = <<p>>]
<1>1. w \in Workflows /\ p \in Packets
  BY DEF QueueOf
<1>2. <<p>> \in Seq(P) /\ <<p>> \in Seq(Packets)
  BY <1>1
<1>3. v \in QueueOf(P) /\ v.phase = w.phase /\ v.enc = w.enc
  BY <1>1, <1>2 DEF QueueOf, Workflows
<1>4. \/ /\ w.phase \in {"Starting", "Appending"}
         /\ Notification(w, p) = Enqueue(w, p)
      \/ w.phase = "Transferring" /\ Notification(w, p) = Drain(v)
      \/ /\ w.phase \in {"Finalizing", "WaitingForSha"}
         /\ Notification(w, p) = AfterEof(w, p)
      \/ Notification(w, p) = Reject(w)
  <2>1. Notification(w, p) =
          CASE w.phase \in {"Starting", "Appending"} -> Enqueue(w, p)
            [] w.phase = "Transferring" -> Drain(v)
            [] w.phase \in {"Finalizing", "WaitingForSha"} -> AfterEof(w, p)
            [] OTHER -> Reject(w)
    BY Zenon DEF Notification
  <2>. HIDE DEF v
  <2>. QED  BY <2>1
<1>. HIDE DEF v
<1>5. {} \in SUBSET {"NACK", "Discard", "Delete"}
      /\ {"NACK", "Discard", "Delete"} \in SUBSET {"NACK", "Discard", "Delete"}
  OBVIOUS
<1>6. CASE w.phase \in {"Starting", "Appending"} /\ Notification(w, p) = Enqueue(w, p)
  BY <1>5, <1>6, EnqueueType
<1>7. CASE w.phase = "Transferring" /\ Notification(w, p) = Drain(v)
  <2>1. /\ Drain(v) \in Answers(P) /\ Outcome(Drain(v))
        /\ v.enc # "yes" /\ (\A x \in P : x.t \notin RelayTypes) => Drain(v).wf.enc # "yes"
    BY <1>3, <1>7, DrainType
  <2>. QED  BY <1>3, <1>7, <2>1
<1>8. CASE w.phase \in {"Finalizing", "WaitingForSha"} /\ Notification(w, p) = AfterEof(w, p)
  BY <1>5, <1>8, AfterEofType
<1>. QED  BY <1>4, <1>6, <1>7, <1>8

-----------------------------------------------------------------------------
(* The point of the stream that a workflow has reached: its units and the     *)
(* sequence of its last packet.                                               *)

\* The packets of the stream of one recording, and those that need no order.
Streamed ==
  {p \in Packets : p.t \in (IF Relay THEN RelayTypes ELSE PlainTypes) \cup SharedTypes}

\* The units are the packets up to the last one and, once it is there, the header.
Point(units, last) ==
  /\ last \in None..(SeqMod - 1)
  /\ units = last + 1 + (IF Relay /\ units > 0 THEN 1 ELSE 0)

SamePoint(v, w) == v.completed = w.completed /\ v.last = w.last

\* The header of a relayed recording was appended.
Headed(w) == w.enc = "yes" => Relay /\ w.completed > 0

\* The phases that come before the last packet.
Filling == {"LoadingCheckpoint", "TruncatingSink", "Subscribing", "Starting",
            "Transferring", "Appending"}

\* The workflow is at a point, and an append under way reaches the next one.
Counted(w) ==
  /\ Point(w.completed, w.last)
  /\ w.phase = "LoadingCheckpoint" => w.enc # "yes"
  /\ IF w.phase # "Appending" THEN Headed(w)
     ELSE /\ w.enc = "yes" => Relay
          /\ Len(w.pend) > 0
          /\ Point(w.completed + Len(w.pend), IF w.pendSeq = None THEN w.last ELSE w.pendSeq)

LEMMA StreamedPackets == Streamed \subseteq Packets
  BY DEF Streamed

\* A packet that is expected, and does not repeat one, has the sequence after the
\* last one: the number does not wrap, as it then repeats one.
LEMMA ExpectedFollows ==
  ASSUME NEW w, w.last \in None..(SeqMod - 1), NEW p \in Packets,
         Seq16(p) = Expected(w), ~ Stale(w, p)
  PROVE  Seq16(p) = w.last + 1 /\ Seq16(p) \in 0..(SeqMod - 1)
<1>1. Seq16(p) \in 0..(SeqMod - 1) /\ SeqMod - 1 \in Nat
  BY Seq16Type
<1>2. CASE w.last = None
  BY <1>1, <1>2 DEF Expected, None
<1>3. CASE w.last # None
  <2>1. w.last \in 0..(SeqMod - 1) /\ Seq16(p) > w.last /\ Seq16(p) = (w.last + 1) % SeqMod
    BY <1>1, <1>3, ReducerAssumption DEF Stale, Expected, None
  <2>2. w.last + 1 < SeqMod
    BY <1>1, <2>1, ReducerAssumption
  <2>3. \A l \in 0..(SeqMod - 1) : l + 1 < SeqMod => (l + 1) % SeqMod = l + 1
    BY ReducerAssumption
  <2>. QED  BY <1>1, <2>1, <2>2, <2>3
<1>. QED  BY <1>2, <1>3

\* The end of a workflow leaves it where it is.
LEMMA FailPoint ==
  ASSUME NEW w \in Workflows, NEW out
  PROVE  SamePoint(Fail(w, out).wf, w) /\ Fail(w, out).wf.phase = "Failed" /\ Fail(w, out).out = out
BY DEF Fail, Step, SamePoint, Workflows

LEMMA FinalizeSinkPoint ==
  ASSUME NEW w \in Workflows
  PROVE  SamePoint(FinalizeSink(w).wf, w) /\ FinalizeSink(w).wf.phase \in {"Finalizing", "Failed"}
<1>. DEFINE q   == w.queue
            odd == {i \in 1..Len(q) : q[i].t \notin AfterEofTypes}
            end == IF odd = {} THEN Len(q) ELSE Min(odd) - 1
            sha1 == w.sha \/ \E i \in 1..end : q[i].t = "Sha256"
            s   == [w EXCEPT !.phase = "Finalizing", !.shaTimer = TRUE, !.queue = <<>>,
                             !.sha = sha1]
<1>1. FinalizeSink(w) \in {Step(s, {"Finalize"}), Fail(s, {}), Reject(s)}
  <2>. HIDE DEF sha1
  <2>. QED  BY DEF FinalizeSink, sha1
<1>. HIDE DEF sha1
<1>2. SamePoint(s, w) /\ s.phase = "Finalizing"
  BY DEF SamePoint, Workflows
<1>3. SamePoint(Fail(s, {}).wf, s) /\ Fail(s, {}).wf.phase = "Failed"
  BY DEF Fail, Step, SamePoint, Workflows
<1>. HIDE DEF s
<1>. QED  BY <1>1, <1>2, <1>3 DEF Step, Reject, SamePoint

\* The packets a workflow absorbs leave it where it is.  A header among them
\* repeats one.
LEMMA AbsorbPoint ==
  ASSUME NEW w \in QueueOf(Streamed), Headed(w), NEW k \in 0..Len(w.queue),
         \A i \in 1..k : Quiet(Absorb(w, i - 1), w.queue[i])
  PROVE  SamePoint(Absorb(w, k), w) /\ Headed(Absorb(w, k))
<1>. DEFINE q == w.queue
            Heads == {i \in 1..k : q[i].t = "E2eStart"}
<1>1. w \in Workflows /\ q \in Seq(Streamed) /\ Len(q) \in Nat
  BY DEF QueueOf, Workflows
<1>2. \A i \in 0..k : /\ SamePoint(Absorb(w, i), w)
                      /\ Absorb(w, i).enc = (IF \E j \in 1..i : q[j].t = "E2eStart" THEN "yes" ELSE w.enc)
  BY <1>1 DEF Absorb, SamePoint, Workflows
<1>3. CASE Heads = {}
  <2>1. k \in 0..k /\ ~ \E j \in 1..k : q[j].t = "E2eStart"
    BY <1>1, <1>3
  <2>2. Absorb(w, k).enc = w.enc /\ SamePoint(Absorb(w, k), w)
    <3>. HIDE DEF q, Heads
    <3>. QED  BY <1>2, <2>1
  <2>. QED  BY <2>2 DEF Headed, SamePoint
<1>4. CASE Heads # {}
  <2>1. PICK m \in Heads : \A i \in Heads : m <= i
    <3>1. Heads \subseteq Nat
      OBVIOUS
    <3>. HIDE DEF Heads
    <3>. QED  BY <1>4, <3>1, LeastNatural
  <2>2. m - 1 \in 0..k /\ ~ \E j \in 1..(m - 1) : q[j].t = "E2eStart"
    <3>1. \A j \in 1..(m - 1) : j \in 1..k /\ ~ (m <= j)
      BY <1>1
    <3>. QED  BY <2>1, <3>1
  <2>3. Absorb(w, m - 1).enc = w.enc /\ SamePoint(Absorb(w, m - 1), w)
    BY <1>2, <2>2
  <2>4. Quiet(Absorb(w, m - 1), q[m]) /\ q[m].t = "E2eStart"
    BY <2>1
  <2>5. w.enc = "yes" \/ w.completed > 0
    BY <2>3, <2>4 DEF Quiet, SamePoint
  <2>6. Relay
    <3>1. q[m] \in Streamed
      BY <1>1, <2>1, LenProperties
    <3>. QED  BY <2>4, <3>1 DEF Streamed, PlainTypes, SharedTypes
  <2>. QED  BY <1>2, <2>5, <2>6 DEF Headed, SamePoint
<1>. QED  BY <1>3, <1>4

\* An append reaches the point it asks for.
LEMMA AppendUnitsCounted ==
  ASSUME NEW w \in Workflows, NEW n \in Int, NEW units \in Seq(Int),
         Point(w.completed, w.last), w.enc = "yes" => Relay, Len(units) > 0,
         Point(w.completed + Len(units), IF n = None THEN w.last ELSE n)
  PROVE  LET r == AppendUnits(w, n, units)
         IN SamePoint(r.wf, w) /\ Counted(r.wf)
<1>. DEFINE v == AppendUnits(w, n, units).wf
<1>1. /\ SamePoint(v, w) /\ v.enc = w.enc /\ v.phase = "Appending"
      /\ v.pend = units /\ v.pendSeq = n
  BY DEF AppendUnits, Step, SamePoint, Workflows
<1>. HIDE DEF v
<1>2. SamePoint(v, w) /\ Counted(v)
  BY <1>1 DEF Counted, SamePoint
<1>. QED  BY <1>2 DEF v

\* A batch of plain packets is as long as the sequences it covers.
LEMMA AppendBatchCounted ==
  ASSUME ~ Relay, NEW w \in QueueOf(Streamed), Point(w.completed, w.last),
         w.enc = "no", NEW p \in Streamed, p.t = "Data", Seq16(p) = w.last + 1
  PROVE  SamePoint(AppendBatch(w, p).wf, w) /\ Counted(AppendBatch(w, p).wf)
<1>. DEFINE q == w.queue
            Top(j) == Max({Seq16(p)} \cup {Seq16(q[i]) : i \in 1..j})
            Joins(i) == /\ q[i].t = "Data"
                        /\ Seq16(q[i]) <= Top(i - 1) + 1
                        /\ Seq16(q[i]) > Top(i - 1) =>
                             Top(i - 1) - Seq16(p) + 2 <= BatchCap
            fits  == {j \in 0..Len(q) : \A i \in 1..j : Joins(i)}
            taken == Max(fits)
            size  == Top(taken) - Seq16(p) + 1
            units == [i \in 1..size |-> p.n + i - 1]
            v == [w EXCEPT !.queue = SubSeq(q, taken + 1, Len(q))]
<1>1. /\ w \in Workflows /\ q \in Seq(Streamed) /\ q \in Seq(Packets) /\ Len(q) \in Nat
      /\ SeqMod - 1 \in Nat
  BY ReducerAssumption DEF QueueOf, Workflows
<1>2. taken \in 0..Len(q) /\ \A i \in 1..taken : q[i].t = "Data"
  <2>1. fits \subseteq 0..Len(q) /\ 0 \in fits
    BY <1>1
  <2>2. taken \in fits
    <3>. HIDE DEF fits
    <3>. QED  BY <2>1, <1>1, MaxNatural
  <2>. HIDE DEF taken, Top
  <2>. QED  BY <2>2
<1>3. p \in Packets /\ Seq16(p) \in 0..(SeqMod - 1)
  BY StreamedPackets, Seq16Type
<1>4. Top(taken) \in 0..(SeqMod - 1) /\ Top(taken) >= Seq16(p)
  <2>. DEFINE S == {Seq16(p)} \cup {Seq16(q[i]) : i \in 1..taken}
  <2>. HIDE DEF taken
  <2>1. \A i \in 1..taken : q[i] \in Streamed /\ q[i].t = "Data"
    BY <1>1, <1>2, LenProperties
  <2>2. \A i \in 1..taken : Seq16(q[i]) \in 0..(SeqMod - 1)
    BY <2>1, StreamedPackets, Seq16Type
  <2>3. S \subseteq 0..(SeqMod - 1) /\ Seq16(p) \in S
    BY <1>3, <2>2
  <2>4. Top(taken) = Max(S)
    OBVIOUS
  <2>. HIDE DEF S, Top
  <2>5. Max(S) \in S /\ Max(S) >= Seq16(p)
    BY <1>1, <2>3, MaxNatural
  <2>. QED  BY <1>3, <2>3, <2>4, <2>5
<1>5. size = Top(taken) - Seq16(p) + 1 /\ size \in Nat /\ size > 0
  <2>. HIDE DEF Top, taken
  <2>. QED  BY <1>1, <1>3, <1>4
<1>6. units \in Seq(Int) /\ Len(units) = size
  <2>1. \A k \in Nat, n \in Int : Len([i \in 1..k |-> n + i - 1]) = k
    OBVIOUS
  <2>2. p.n \in Int
    BY <1>3 DEF Packets
  <2>. HIDE DEF size
  <2>. QED  BY <1>5, <2>1, <2>2, UnitsType
<1>7. v \in Workflows /\ SamePoint(v, w) /\ v.enc = "no"
  <2>. HIDE DEF taken
  <2>1. v \in QueueOf(Streamed) /\ v.enc = w.enc
    BY <1>2, StreamedPackets, ShortenType
  <2>2. SamePoint(v, w)
    BY <1>1 DEF SamePoint, Workflows
  <2>. QED  BY <2>1, <2>2 DEF QueueOf
<1>8. AppendBatch(w, p) = AppendUnits(v, Top(taken), units)
  BY DEF AppendBatch
<1>. HIDE DEF v, Top, taken, units, size
<1>9. Point(v.completed, v.last)
  BY <1>7 DEF SamePoint
<1>10. Top(taken) \in Int /\ Top(taken) # None
  BY <1>1, <1>4 DEF None
<1>11. Point(v.completed + Len(units), Top(taken))
  <2>1. w.completed = Seq16(p)
    BY <1>3 DEF Point
  <2>2. v.completed + Len(units) = Top(taken) + 1
    BY <1>1, <1>3, <1>4, <1>5, <1>6, <1>7, <2>1 DEF SamePoint
  <2>3. Top(taken) \in None..(SeqMod - 1)
    BY <1>1, <1>4 DEF None
  <2>. QED  BY <2>2, <2>3 DEF Point
<1>12. SamePoint(AppendUnits(v, Top(taken), units).wf, v) /\ Counted(AppendUnits(v, Top(taken), units).wf)
  BY <1>5, <1>6, <1>7, <1>9, <1>10, <1>11, AppendUnitsCounted
<1>. QED  BY <1>7, <1>8, <1>12 DEF SamePoint

\* The answer r leaves the workflow w where it is, and an append that it starts
\* reaches the next point.
Stays(r, w) == SamePoint(r.wf, w) /\ (r.wf.phase \in Filling => Counted(r.wf))

\* A packet that leaves phase Transferring.
LEMMA TakePacketCounted ==
  ASSUME NEW w \in QueueOf(Streamed), w.phase = "Transferring", Counted(w),
         NEW p \in Streamed, ~ Quiet(w, p)
  PROVE  Stays(TakePacket(w, p), w)
<1>. DEFINE plain == [w EXCEPT !.enc = "no"]
            relay == [w EXCEPT !.enc = "yes"]
<1>1. /\ w \in Workflows /\ Point(w.completed, w.last) /\ Headed(w)
      /\ w.last \in None..(SeqMod - 1) /\ w.completed \in Nat
  BY DEF QueueOf, Workflows, Counted, Point
<1>2. /\ plain \in QueueOf(Streamed) /\ plain.enc = "no" /\ SamePoint(plain, w) /\ plain \in Workflows
      /\ relay \in QueueOf(Streamed) /\ relay.enc = "yes" /\ SamePoint(relay, w) /\ relay \in Workflows
  <2>1. SamePoint(plain, w) /\ SamePoint(relay, w)
    BY <1>1 DEF SamePoint, Workflows
  <2>. QED  BY <2>1, KindType DEF QueueOf
<1>. HIDE DEF plain, relay
<1>3. Stays(Fail(w, {}), w) /\ Stays(FailIntegrity(w), w)
  BY <1>1, FailPoint DEF FailIntegrity, Filling, Stays
<1>4. Stays(FinalizeSink(plain), w) /\ Stays(FinalizeSink(w), w)
  BY <1>1, <1>2, FinalizeSinkPoint DEF Filling, SamePoint, Stays
<1>5. CASE p.t = "Data" /\ TakePacket(w, p) = AppendBatch(plain, p) /\ Seq16(p) = Expected(w)
  <2>1. ~ Relay /\ ~ Stale(w, p)
    BY <1>5 DEF Streamed, RelayTypes, SharedTypes, Quiet
  <2>2. Seq16(p) = w.last + 1
    BY <1>1, <1>5, <2>1, StreamedPackets, ExpectedFollows
  <2>3. Point(plain.completed, plain.last) /\ Seq16(p) = plain.last + 1
    BY <1>1, <1>2, <2>2 DEF SamePoint
  <2>. QED  BY <1>2, <1>5, <2>1, <2>3, AppendBatchCounted DEF SamePoint, Stays
<1>6. CASE /\ p.t = "E2eStart" /\ w.enc # "no"
           /\ TakePacket(w, p) = AppendUnits(relay, None, <<Header>>)
  <2>1. Relay /\ ~ (w.completed > 0)
    BY <1>1, <1>6 DEF Streamed, PlainTypes, SharedTypes, Quiet, Workflows
  <2>2. w.completed = 0 /\ w.last = None
    BY <1>1, <2>1 DEF Point, None
  <2>. DEFINE us == <<Header>>
  <2>3. us \in Seq(Int) /\ Len(us) = 1 /\ None \in Int
    BY DEF Header, None
  <2>4. SeqMod - 1 \in Nat
    BY ReducerAssumption
  <2>5. Point(relay.completed, relay.last) /\ Point(relay.completed + 1, relay.last)
    BY <1>1, <1>2, <2>1, <2>2, <2>4 DEF SamePoint, Point, None
  <2>. HIDE DEF us
  <2>6. Len(us) > 0 /\ Point(relay.completed + Len(us), IF None = None THEN relay.last ELSE None)
    BY <2>3, <2>5
  <2>7. /\ SamePoint(AppendUnits(relay, None, us).wf, relay)
        /\ Counted(AppendUnits(relay, None, us).wf)
    BY <1>2, <2>1, <2>3, <2>5, <2>6, AppendUnitsCounted
  <2>. QED  BY <1>2, <1>6, <2>7 DEF SamePoint, Stays, us
<1>7. CASE /\ p.t = "EncryptedData" /\ w.enc = "yes" /\ Seq16(p) = Expected(w)
           /\ TakePacket(w, p) = AppendUnits(w, Seq16(p), <<p.n>>)
  <2>1. Relay /\ ~ Stale(w, p) /\ w.completed > 0
    BY <1>1, <1>7 DEF Headed, Quiet
  <2>2. /\ Seq16(p) = w.last + 1 /\ Seq16(p) \in 0..(SeqMod - 1) /\ p.n \in Int
    BY <1>1, <1>7, <2>1, StreamedPackets, ExpectedFollows DEF Packets
  <2>. DEFINE us == <<p.n>>
              s  == Seq16(p)
  <2>3. s \in Int /\ us \in Seq(Int) /\ Len(us) = 1 /\ s # None
    BY <2>2 DEF None
  <2>4. Point(w.completed + 1, s)
    BY <1>1, <2>1, <2>2 DEF Point, None
  <2>. HIDE DEF us, s
  <2>5. Len(us) > 0 /\ Point(w.completed + Len(us), IF s = None THEN w.last ELSE s)
    BY <2>3, <2>4
  <2>6. SamePoint(AppendUnits(w, s, us).wf, w) /\ Counted(AppendUnits(w, s, us).wf)
    BY <1>1, <2>1, <2>3, <2>5, AppendUnitsCounted
  <2>. QED  BY <1>7, <2>6 DEF Stays, us, s
<1>8. \/ TakePacket(w, p) \in {Fail(w, {}), FailIntegrity(w), FinalizeSink(plain), FinalizeSink(w)}
      \/ p.t = "Data" /\ TakePacket(w, p) = AppendBatch(plain, p) /\ Seq16(p) = Expected(w)
      \/ /\ p.t = "E2eStart" /\ w.enc # "no"
         /\ TakePacket(w, p) = AppendUnits(relay, None, <<Header>>)
      \/ /\ p.t = "EncryptedData" /\ w.enc = "yes" /\ Seq16(p) = Expected(w)
         /\ TakePacket(w, p) = AppendUnits(w, Seq16(p), <<p.n>>)
  BY DEF TakePacket, plain, relay
<1>. QED  BY <1>3, <1>4, <1>5, <1>6, <1>7, <1>8

\* So does the queue that START or an append left.
LEMMA DrainCounted ==
  ASSUME NEW w \in QueueOf(Streamed), w.phase = "Transferring", Counted(w)
  PROVE  Stays(Drain(w), w)
<1>. DEFINE q    == w.queue
            loud == {k \in 1..Len(q) : ~ Quiet(Absorb(w, k - 1), q[k])}
            k    == Min(loud)
            rest == SubSeq(q, k + 1, Len(q))
            v    == [Absorb(w, k - 1) EXCEPT !.queue = rest]
<1>1. w \in Workflows /\ q \in Seq(Streamed) /\ Len(q) \in Nat
  BY DEF QueueOf, Workflows
<1>2. Headed(w) /\ Point(w.completed, w.last)
  BY DEF Counted
<1>3. CASE loud = {}
  <2>. DEFINE a == Absorb(w, Len(q))
  <2>1. Len(q) \in 0..Len(w.queue) /\ \A i \in 1..Len(q) : Quiet(Absorb(w, i - 1), q[i])
    BY <1>1, <1>3
  <2>2. SamePoint(a, w) /\ Headed(a)
    BY <1>2, <2>1, AbsorbPoint
  <2>3. a.phase = "Transferring"
    BY <2>1, StreamedPackets, AbsorbType
  <2>4. Drain(w) = Step(a, {})
    BY <1>3 DEF Drain
  <2>. HIDE DEF a
  <2>. QED  BY <1>2, <2>2, <2>3, <2>4 DEF Step, Stays, SamePoint, Counted
<1>4. CASE loud # {}
  <2>1. k \in loud /\ \A i \in loud : k <= i
    <3>1. loud \subseteq Nat
      BY <1>1
    <3>. HIDE DEF loud
    <3>. QED  BY <1>4, <3>1, MinNatural
  <2>2. k \in 1..Len(q) /\ ~ Quiet(Absorb(w, k - 1), q[k])
    BY <2>1
  <2>3. \A i \in 1..(k - 1) : Quiet(Absorb(w, i - 1), q[i])
    <3>1. ASSUME NEW i \in 1..(k - 1) PROVE Quiet(Absorb(w, i - 1), q[i])
      <4>1. i \in 1..Len(q) /\ ~ (k <= i)
        BY <1>1, <2>2
      <4>2. i \notin loud
        BY <2>1, <4>1
      <4>. QED  BY <4>1, <4>2
    <3>. QED  BY <3>1
  <2>4. Drain(w) = TakePacket(v, q[k])
    BY <1>4 DEF Drain
  <2>. HIDE DEF k, loud
  <2>5. k - 1 \in 0..Len(w.queue) /\ k \in 0..Len(q) /\ q[k] \in Streamed
    BY <1>1, <2>2, LenProperties
  <2>. DEFINE u == Absorb(w, k - 1)
  <2>6. SamePoint(u, w) /\ Headed(u) /\ u \in QueueOf(Streamed) /\ u.phase = "Transferring"
    BY <1>2, <2>3, <2>5, AbsorbPoint, AbsorbType, StreamedPackets
  <2>7. rest \in Seq(Streamed) /\ rest \in Seq(Packets)
    <3>1. q \in Seq(Packets)
      BY <1>1 DEF Workflows
    <3>. QED  BY <1>1, <2>5, <3>1, RestOfQueue
  <2>8. ~ Quiet(u, q[k])
    BY <2>2
  <2>. HIDE DEF u, rest
  <2>9. /\ v \in QueueOf(Streamed) /\ SamePoint(v, u) /\ v.enc = u.enc
        /\ v.phase = "Transferring"
    BY <2>6, <2>7 DEF QueueOf, Workflows, SamePoint, u
  <2>10. v = [u EXCEPT !.queue = rest]
    BY DEF u
  <2>. HIDE DEF v
  <2>11. Counted(v) /\ SamePoint(v, w)
    BY <1>2, <2>6, <2>9 DEF Counted, Headed, SamePoint
  <2>12. ~ Quiet(v, q[k])
    BY <2>8, <2>9 DEF Quiet, Stale, SamePoint
  <2>13. Stays(TakePacket(v, q[k]), v)
    BY <2>5, <2>9, <2>11, <2>12, TakePacketCounted
  <2>. QED  BY <2>4, <2>11, <2>13 DEF Stays, SamePoint
<1>. QED  BY <1>3, <1>4

\* An answer after which a running workflow is at a point, and so is the checkpoint
\* that it asks for.
Counts(r) ==
  /\ r.wf.phase \in Filling => Counted(r.wf)
  /\ ~ r.rejected /\ "Save" \in r.out => Point(r.wf.completed, r.wf.last)

LEMMA StaysCounts ==
  ASSUME NEW w, Point(w.completed, w.last), NEW r, Stays(r, w)
  PROVE  Counts(r) /\ r.wf.completed = w.completed
  BY DEF Stays, Counts, SamePoint

\* START was written.
LEMMA StartWrittenCounts ==
  ASSUME NEW w \in QueueOf(Streamed), w.phase = "Starting", Counted(w)
  PROVE  Counts(StartWritten(w)) /\ StartWritten(w).wf.completed = w.completed
<1>. DEFINE v == [w EXCEPT !.phase = "Transferring"]
<1>1. v \in QueueOf(Streamed) /\ v.phase = "Transferring" /\ v.enc = w.enc
  BY ZenonT(60), PhaseType DEF Phases
<1>2. SamePoint(v, w) /\ StartWritten(w) = Drain(v)
  BY DEF StartWritten, SamePoint, QueueOf, Workflows
<1>. HIDE DEF v
<1>3. Counted(v) /\ Point(v.completed, v.last)
  BY <1>1, <1>2 DEF Counted, Headed, SamePoint
<1>. QED  BY <1>1, <1>2, <1>3, DrainCounted, StaysCounts DEF SamePoint

\* The append reached the next point.
LEMMA AppendCompletedCounts ==
  ASSUME NEW w \in QueueOf(Streamed), w.phase = "Appending", Counted(w),
         NEW stored \in Nat, stored >= w.completed + Len(w.pend) => stored = w.completed + Len(w.pend)
  PROVE  LET r == AppendCompleted(w, stored)
         IN Counts(r) /\ (r.wf.phase \in Filling => r.wf.completed = stored)
<1>. DEFINE last1 == IF w.pendSeq = None THEN w.last ELSE w.pendSeq
            s == [w EXCEPT !.phase = "Transferring", !.completed = stored,
                           !.pendSeq = None, !.pend = <<>>, !.last = last1]
            r == Drain(s)
            a == [r EXCEPT !.out = r.out \cup {"Save"}]
            Good(x) == Counts(x) /\ (x.wf.phase \in Filling => x.wf.completed = stored)
<1>1. /\ w \in Workflows /\ w.queue \in Seq(Streamed) /\ last1 \in Int /\ None \in Int
      /\ w.completed \in Nat /\ Len(w.pend) \in Nat
  BY DEF QueueOf, Workflows, None
<1>2. \/ AppendCompleted(w, stored) = Fail(w, {})
      \/ /\ stored >= w.completed + Len(w.pend)
         /\ AppendCompleted(w, stored) \in {r, a}
  <2>1. AppendCompleted(w, stored) =
          IF stored < w.completed + Len(w.pend) THEN Fail(w, {})
          ELSE IF r.rejected THEN r ELSE a
    BY Zenon DEF AppendCompleted
  <2>. HIDE DEF r, a
  <2>. QED  BY <1>1, <2>1
<1>3. Good(Fail(w, {}))
  BY <1>1, FailPoint DEF Counts, Filling
<1>4. ASSUME stored >= w.completed + Len(w.pend) PROVE Good(r) /\ Good(a)
  <2>1. /\ stored = w.completed + Len(w.pend) /\ Len(w.pend) > 0 /\ Point(stored, last1)
        /\ w.enc = "yes" => Relay
    BY <1>4 DEF Counted
  <2>. HIDE DEF last1
  <2>2. /\ s \in Workflows /\ s.queue = w.queue /\ s.phase = "Transferring" /\ s.enc = w.enc
        /\ s.completed = stored /\ s.last = last1
    <3>1. <<>> \in Seq(Int) /\ "Transferring" \in Phases
      BY DEF Phases
    <3>. QED  BY <1>1, <3>1 DEF Workflows
  <2>. HIDE DEF s
  <2>3. s \in QueueOf(Streamed)
    BY <1>1, <2>2 DEF QueueOf
  <2>4. Counted(s)
    BY <1>1, <2>1, <2>2 DEF Counted, Headed
  <2>5. Stays(r, s)
    BY <2>2, <2>3, <2>4, DrainCounted
  <2>6. r \in Answers(Streamed)
    BY <2>2, <2>3, StreamedPackets, DrainType
  <2>. HIDE DEF r
  <2>7. a.wf = r.wf /\ a.rejected = r.rejected
    BY <2>6 DEF Answers
  <2>8. r.wf.completed = stored /\ Point(r.wf.completed, r.wf.last)
        /\ (r.wf.phase \in Filling => Counted(r.wf))
    BY <2>1, <2>2, <2>5 DEF Stays, SamePoint
  <2>. HIDE DEF a
  <2>. QED  BY <2>7, <2>8 DEF Counts
<1>. HIDE DEF r, a, Good
<1>5. Good(AppendCompleted(w, stored))
  BY <1>2, <1>3, <1>4
<1>. QED  BY <1>5 DEF Good

\* A handler that moves the workflow past the last packet.
LEMMA MovedCounts ==
  ASSUME NEW P, NEW w, NEW r, NEW phase, NEW out, Moved(P, w, r, phase, out),
         phase \notin Filling, "Save" \notin out
  PROVE  Counts(r) /\ r.wf.phase \notin Filling
  BY DEF Moved, Counts

\* A notification.
LEMMA NotificationCounts ==
  ASSUME NEW w \in QueueOf(Streamed), w.phase \in Filling => Counted(w),
         NEW p \in Streamed
  PROVE  LET r == Notification(w, p)
         IN Counts(r) /\ (r.wf.phase \in Filling => r.wf.completed = w.completed)
<1>. DEFINE r == Notification(w, p)
            v == [w EXCEPT !.queue = Append(w.queue, p)]
            u == [w EXCEPT !.queue = <<p>>]
            Good(x) == Counts(x) /\ (x.wf.phase \in Filling => x.wf.completed = w.completed)
<1>1. w \in Workflows /\ p \in Packets /\ w.queue \in Seq(Streamed) /\ w.queue \in Seq(Packets)
  BY StreamedPackets DEF QueueOf, Workflows
<1>2. <<p>> \in Seq(Streamed) /\ <<p>> \in Seq(Packets)
  BY <1>1
<1>3. \/ w.phase \in {"Starting", "Appending"} /\ r \in {FailIntegrity(w), Step(v, {})}
      \/ w.phase = "Transferring" /\ r = Drain(u)
      \/ w.phase \in {"Finalizing", "WaitingForSha"} /\ r = AfterEof(w, p)
      \/ r = Reject(w)
  BY DEF Notification, Enqueue
<1>. HIDE DEF r
<1>4. ASSUME w.phase \in {"Starting", "Appending"} /\ r \in {FailIntegrity(w), Step(v, {})}
      PROVE  Good(r)
  <2>1. Counted(w)
    BY <1>4 DEF Filling
  <2>2. /\ SamePoint(v, w) /\ v.phase = w.phase /\ v.enc = w.enc /\ v.pend = w.pend
        /\ v.pendSeq = w.pendSeq
    BY <1>1 DEF SamePoint, Workflows
  <2>. HIDE DEF v
  <2>3. Counted(v)
    BY <2>1, <2>2 DEF Counted, Headed, SamePoint
  <2>4. FailIntegrity(w).wf.phase = "Failed" /\ "Save" \notin FailIntegrity(w).out
    BY FailIntegrityType
  <2>. QED  BY <1>4, <2>2, <2>3, <2>4 DEF Counts, Step, Filling, SamePoint
<1>5. ASSUME w.phase = "Transferring" /\ r = Drain(u)
      PROVE  Good(r)
  <2>1. /\ u \in QueueOf(Streamed) /\ SamePoint(u, w) /\ u.phase = w.phase /\ u.enc = w.enc
    BY <1>1, <1>2 DEF SamePoint, QueueOf, Workflows
  <2>. HIDE DEF u
  <2>2. Counted(w)
    BY <1>5 DEF Filling
  <2>3. Counted(u) /\ Point(u.completed, u.last)
    BY <1>5, <2>1, <2>2 DEF Counted, Headed, SamePoint
  <2>. QED  BY <1>5, <2>1, <2>3, DrainCounted, StaysCounts DEF SamePoint
<1>6. ASSUME w.phase \in {"Finalizing", "WaitingForSha"} /\ r = AfterEof(w, p)
      PROVE  Good(r)
  <2>1. \/ Moved(Streamed, w, r, w.phase, {})
        \/ r = Reject(w)
        \/ Moved(Streamed, w, r, "Failed", {})
        \/ Moved(Streamed, w, r, "Acknowledging", {"ACK"})
    BY <1>6, AfterEofType
  <2>. QED  BY <1>6, <2>1 DEF Counts, Moved, Reject, Filling
<1>7. ASSUME r = Reject(w)
      PROVE  Good(r)
  BY <1>7 DEF Counts, Reject
<1>. HIDE DEF Good, u, v
<1>8. Good(r)
  BY <1>3, <1>4, <1>5, <1>6, <1>7
<1>. QED  BY <1>8 DEF r, Good

\* The checkpoint is a point, and the workflow stays there until it transfers.
LEMMA BeforeTransferCounts ==
  ASSUME NEW w \in QueueOf(Streamed), Counted(w), w.phase # "Appending"
  PROVE  /\ \A c \in [units : Nat, last : Int] :
              Point(c.units, c.last) /\ w.phase = "LoadingCheckpoint" => Counts(CheckpointLoaded(w, c))
         /\ Counts(SinkTruncated(w)) /\ SinkTruncated(w).wf.completed = w.completed
         /\ Counts(Subscribed(w)) /\ Subscribed(w).wf.completed = w.completed
<1>1. w \in Workflows
  BY DEF QueueOf
<1>2. ASSUME NEW c \in [units : Nat, last : Int], Point(c.units, c.last), w.phase = "LoadingCheckpoint"
      PROVE  Counts(CheckpointLoaded(w, c))
  <2>. DEFINE v == [w EXCEPT !.phase = "TruncatingSink", !.completed = c.units, !.last = c.last]
  <2>1. /\ v.phase = "TruncatingSink" /\ v.completed = c.units /\ v.last = c.last
        /\ v.enc = w.enc
    BY <1>1 DEF Workflows
  <2>2. CheckpointLoaded(w, c) = Step(v, {"Truncate"})
    BY DEF CheckpointLoaded
  <2>. HIDE DEF v
  <2>3. Counted(v)
    BY <1>2, <2>1 DEF Counted, Headed
  <2>. QED  BY <2>2, <2>3 DEF Counts, Step
<1>3. ASSUME NEW phase \in {"Subscribing", "Starting"}, NEW out, "Save" \notin out
      PROVE  LET r == Step([w EXCEPT !.phase = phase], out)
             IN Counts(r) /\ r.wf.completed = w.completed
  <2>. DEFINE v == [w EXCEPT !.phase = phase]
  <2>1. SamePoint(v, w) /\ v.phase = phase /\ v.enc = w.enc
    BY <1>1 DEF Workflows, SamePoint
  <2>. HIDE DEF v
  <2>2. Counted(v)
    BY <1>3, <2>1 DEF Counted, Headed, SamePoint
  <2>3. Counts(Step(v, out)) /\ Step(v, out).wf.completed = w.completed
    BY <1>3, <2>1, <2>2 DEF Counts, Step, SamePoint
  <2>. QED  BY <2>3 DEF v
<1>. QED  BY <1>2, <1>3 DEF SinkTruncated, Subscribed

-----------------------------------------------------------------------------
(* The stream, the file and the checkpoint. *)

\* The stream of the device is a nonempty sequence of the packets of its kind,
\* plain packets for a plain recording.
LEMMA StreamType ==
  /\ Stream \in Seq(Streamed) /\ Stream \in Seq(Packets) /\ Len(Stream) \in Nat \ {0}
  /\ ~ Relay => Stream \in Seq(PlainPackets)
<1>. DEFINE P == Streamed
            kinds == (IF Relay THEN RelayTypes ELSE PlainTypes) \cup SharedTypes
            d == IF Relay THEN "EncryptedData" ELSE "Data"
            e == IF Relay THEN "EncryptedEof" ELSE "Eof"
            head == IF Relay THEN <<[t |-> "E2eStart", n |-> Header]>> ELSE <<>>
            body == [i \in 1..N |-> [t |-> d, n |-> i - 1]]
            tail == <<[t |-> e, n |-> N - 1], [t |-> "Sha256", n |-> 0]>>
<1>1. N \in Nat /\ Header \in Int
  BY ReducerAssumption DEF Header
<1>2. kinds \subseteq PacketTypes
  BY DEF PacketTypes
<1>3. \A x \in kinds, n \in Int : [t |-> x, n |-> n] \in P
  BY <1>2 DEF Packets, Streamed
<1>4. /\ d \in kinds /\ e \in kinds /\ "Sha256" \in kinds
      /\ Relay => "E2eStart" \in kinds
  BY DEF PlainTypes, RelayTypes, SharedTypes
<1>5. \A n \in Int : /\ [t |-> d, n |-> n] \in P /\ [t |-> e, n |-> n] \in P
                     /\ [t |-> "Sha256", n |-> n] \in P
                     /\ Relay => [t |-> "E2eStart", n |-> n] \in P
  <2>. HIDE DEF d, e, kinds, P
  <2>. QED  BY <1>3, <1>4
<1>6. Stream = (head \o body) \o tail
  BY Zenon DEF Stream
<1>7. P \subseteq Packets /\ (~ Relay => P \subseteq PlainPackets)
  BY DEF Streamed, PlainPackets, Packets
<1>. HIDE DEF P, d, e, kinds
<1>8. head \in Seq(P) /\ Len(head) \in Nat
  <2>. DEFINE x == [t |-> "E2eStart", n |-> Header]
  <2>1. Relay => x \in P
    BY <1>1, <1>5
  <2>. HIDE DEF x
  <2>2. (IF Relay THEN <<x>> ELSE <<>>) \in Seq(P)
    BY <2>1
  <2>. HIDE DEF head
  <2>3. head \in Seq(P)
    BY <2>2, Zenon DEF head, x
  <2>. QED  BY <2>3
<1>9. body \in Seq(P) /\ Len(body) = N
  <2>1. \A i \in 1..N : [t |-> d, n |-> i - 1] \in P
    <3>. TAKE i \in 1..N
    <3>1. i - 1 \in Int
      BY <1>1
    <3>. QED  BY <1>5, <3>1
  <2>. DEFINE f(i) == [t |-> d, n |-> i - 1]
  <2>2. \A i \in 1..N : f(i) \in P
    BY <2>1
  <2>. HIDE DEF f
  <2>3. [i \in 1..N |-> f(i)] \in Seq(P) /\ Len([i \in 1..N |-> f(i)]) = N
    BY <1>1, <2>2
  <2>. QED  BY <2>3 DEF f
<1>10. tail \in Seq(P) /\ Len(tail) = 2
  <2>. DEFINE x == [t |-> e, n |-> N - 1]
              y == [t |-> "Sha256", n |-> 0]
  <2>1. x \in P /\ y \in P
    <3>1. N - 1 \in Int /\ 0 \in Int
      BY <1>1
    <3>. QED  BY <1>5, <3>1
  <2>. HIDE DEF x, y
  <2>2. <<x, y>> \in Seq(P) /\ Len(<<x, y>>) = 2
    BY <2>1, SMTT(30)
  <2>. QED  BY <2>2 DEF x, y
<1>. HIDE DEF head, body, tail
<1>11. head \o body \in Seq(P) /\ Len(head \o body) = Len(head) + N
  BY <1>8, <1>9, ConcatProperties
<1>12. Stream \in Seq(P) /\ Len(Stream) = Len(head) + N + 2
  <2>1. /\ (head \o body) \o tail \in Seq(P)
        /\ Len((head \o body) \o tail) = Len(head \o body) + Len(tail)
    BY <1>10, <1>11, ConcatProperties, Zenon
  <2>. QED  BY <1>6, <1>10, <1>11, <2>1
<1>13. Stream \in Seq(Packets) /\ (~ Relay => Stream \in Seq(PlainPackets))
  BY <1>7, <1>12
<1>. QED  BY <1>1, <1>8, <1>12, <1>13 DEF P

\* The packets the workflow receives are packets.
LEMMA PlainType == PlainPackets \subseteq Packets /\ QueueOf(Packets) = Workflows
  BY DEF PlainPackets, Packets, PacketTypes, QueueOf, Workflows

\* A file cut or padded is a file.
LEMMA CutType ==
  ASSUME file \in Seq(Int), NEW units \in Nat
  PROVE  Cut(units) \in Seq(Int)
<1>1. CASE units <= Len(file)
  <2>1. units \in 0..Len(file)
    BY <1>1
  <2>2. SubSeq(file, 1, units) \in Seq(Int)
    BY <2>1, SubSeqProperties
  <2>. QED  BY <1>1, <2>2 DEF Cut
<1>2. CASE ~ (units <= Len(file))
  <2>1. units - Len(file) \in Nat
    BY <1>2
  <2>2. [i \in 1..(units - Len(file)) |-> Hole] \in Seq(Int)
    BY <2>1 DEF Hole
  <2>3. file \o [i \in 1..(units - Len(file)) |-> Hole] \in Seq(Int)
    BY <2>2, ConcatProperties
  <2>. QED  BY <1>2, <2>3 DEF Cut
<1>. QED  BY <1>1, <1>2

-----------------------------------------------------------------------------
(* What an answer of the core does to the host. *)

Saves    == [units : Nat, last : Int, late : BOOLEAN]
HostType ==
  /\ status \in Statuses /\ wf \in Workflows
  /\ ops \subseteq EffectKinds \ {"Save"} /\ saves \subseteq Saves
  /\ timer \in BOOLEAN

\* The answers of the core keep the type of the host and add to its effects.
LEMMA DispatchType ==
  ASSUME HostType, NEW rest \in SUBSET ops, NEW r \in Answers(Packets),
         Dispatch(r, rest)
  PROVE  HostType' /\ rest \subseteq ops'
<1>1. r.wf \in Workflows /\ r.out \in SUBSET EffectKinds
  BY PlainType DEF Answers
<1>2. CASE Accept(r, rest)
  <2>1. CheckpointOf(r.wf) \in Saves
    BY <1>1 DEF CheckpointOf, Saves, Workflows
  <2>2. StatusOf(r.wf) \in Statuses /\ r.wf.shaTimer \in BOOLEAN
    BY <1>1 DEF StatusOf, Statuses, Workflows
  <2>. QED  BY <1>1, <1>2, <2>1, <2>2 DEF Accept, HostType
<1>3. CASE Refused(r.wf, rest)
  <2>1. CancelEffects \subseteq EffectKinds \ {"Save"}
    BY DEF CancelEffects, EffectKinds
  <2>. QED  BY <1>1, <1>3, <2>1 DEF Refused, Cancelling, HostType, Statuses
<1>. QED  BY <1>2, <1>3 DEF Dispatch

\* The same for the result of an effect.
LEMMA SettleType ==
  ASSUME HostType, NEW op, NEW r \in Answers(Packets), Settle(op, r)
  PROVE  HostType' /\ ops \ {op} \subseteq ops'
<1>1. CASE Running
  BY <1>1, DispatchType DEF Settle
<1>2. CASE ~ Running
  BY <1>2 DEF Settle, HostType
<1>. QED  BY <1>1, <1>2

\* An effect that the host settles without a word to the core.
LEMMA DropType ==
  ASSUME HostType, NEW op, ops' = ops \ {op}, UNCHANGED <<status, wf, saves, timer>>
  PROVE  HostType' /\ ops \ {op} \subseteq ops'
  BY DEF HostType

-----------------------------------------------------------------------------
(* The type invariant. *)

\* Handlers without a packet answer in type.
LEMMA HandlersType ==
  ASSUME NEW w \in Workflows
  PROVE  /\ SinkTruncated(w) \in Answers(Packets) /\ Subscribed(w) \in Answers(Packets)
         /\ StartWritten(w) \in Answers(Packets) /\ AckWritten(w) \in Answers(Packets)
         /\ ConfirmWritten(w) \in Answers(Packets) /\ TimerFired(w) \in Answers(Packets)
         /\ Fail(w, {}) \in Answers(Packets) /\ FailIntegrity(w) \in Answers(Packets)
         /\ Step(w, {}) \in Answers(Packets)
         /\ \A c \in Checkpoints : CheckpointLoaded(w, c) \in Answers(Packets)
         /\ \A n \in Nat : /\ AppendCompleted(w, n) \in Answers(Packets)
                           /\ SinkFinalized(w, n) \in Answers(Packets)
         /\ \A p \in Packets : Notification(w, p) \in Answers(Packets)
<1>1. w \in QueueOf(Packets) /\ Packets \subseteq Packets /\ {} \in SUBSET EffectKinds
  BY PlainType
<1>2. SinkTruncated(w) \in Answers(Packets) /\ Subscribed(w) \in Answers(Packets)
  BY <1>1, PhaseMoves DEF Moved
<1>3. StartWritten(w) \in Answers(Packets)
  BY <1>1, StartWrittenType
<1>4. AckWritten(w) \in Answers(Packets) /\ ConfirmWritten(w) \in Answers(Packets)
  BY <1>1, AckWrittenType, CompleteType DEF Moved, ConfirmWritten
<1>5. Reject(w) \in Answers(Packets) /\ Step(w, {}) \in Answers(Packets)
  BY <1>1, StepType
<1>6. TimerFired(w) \in Answers(Packets)
  BY <1>1, <1>5, TimerFiredType DEF Moved
<1>7. Fail(w, {}) \in Answers(Packets) /\ FailIntegrity(w) \in Answers(Packets)
  BY <1>1, FailType, FailIntegrityType
<1>8. \A c \in Checkpoints : CheckpointLoaded(w, c) \in Answers(Packets)
  BY <1>1, CheckpointLoadedType DEF Moved, Checkpoints
<1>9. \A n \in Nat : AppendCompleted(w, n) \in Answers(Packets)
  BY <1>1, AppendCompletedType
<1>10. \A n \in Nat : SinkFinalized(w, n) \in Answers(Packets)
  BY <1>1, SinkFinalizedType DEF Moved
<1>11. \A p \in Packets : Notification(w, p) \in Answers(Packets)
  BY <1>1, <1>5, NotificationType DEF Moved
<1>. QED  BY <1>2, <1>3, <1>4, <1>5, <1>6, <1>7, <1>8, <1>9, <1>10, <1>11

\* The parts of TypeOK that only the environment changes.
PlaceType ==
  /\ stuck \in BOOLEAN /\ file \in Seq(Int) /\ journal \in Checkpoints
  /\ devHas \in BOOLEAN /\ devPos \in 0..Len(Stream) /\ link \in BOOLEAN
  /\ runs \in 0..MaxRuns /\ faults \in 0..MaxFaults
RepliesType == replies \subseteq Writes \cap ops

LEMMA TypeParts == TypeOK <=> HostType /\ PlaceType /\ RepliesType
  BY DEF TypeOK, HostType, PlaceType, RepliesType, Saves

\* Every variable has its type: the workflow, whatever it receives, is a workflow
\* of the code, the host asks for effects the core knows, and a write that the
\* device executed is one the host still waits for.
THEOREM TypeInvariant == Spec => []TypeOK
<1>1. Init => TypeOK
  <2>1. NewWorkflow \in Workflows
    BY DEF NewWorkflow, Workflows, Phases, None
  <2>2. NoCheckpoint \in Checkpoints
    BY DEF NoCheckpoint, Checkpoints, None
  <2>3. 0 \in 0..MaxRuns /\ 0 \in 0..MaxFaults /\ 0 \in 0..Len(Stream)
    BY StreamType, HostAssumption
  <2>4. <<>> \in Seq(Int)
    OBVIOUS
  <2>. QED  BY <2>1, <2>2, <2>3, <2>4 DEF Init, TypeOK, Statuses
<1>2. TypeOK /\ [Next]_vars => TypeOK'
  <2>. SUFFICES ASSUME TypeOK, [Next]_vars PROVE TypeOK'
    OBVIOUS
  <2>. USE DEF durable, device, bounds
  <2>1. HostType /\ PlaceType /\ RepliesType /\ wf \in Workflows
    BY TypeParts DEF HostType
  <2>2. (HostType /\ PlaceType /\ RepliesType)' => TypeOK'
    BY DEF TypeOK, HostType, PlaceType, RepliesType, Saves
  <2>3. CASE Start
    <3>1. NewWorkflow \in Workflows /\ "Load" \in EffectKinds \ {"Save"}
      BY DEF NewWorkflow, Workflows, Phases, None, EffectKinds
    <3>2. runs' \in 0..MaxRuns
      BY <2>1, <2>3, HostAssumption DEF PlaceType, Start
    <3>. QED  BY <2>1, <2>2, <2>3, <3>1, <3>2
              DEF Start, HostType, PlaceType, RepliesType, Statuses
  <2>4. CASE Cancel
    <3>1. [wf EXCEPT !.shaTimer = FALSE, !.queue = <<>>] \in Workflows
      <4>1. <<>> \in Seq(Packets)
        OBVIOUS
      <4>. QED  BY <2>1, <4>1 DEF Workflows
    <3>2. CancelEffects \subseteq EffectKinds \ {"Save"}
      BY DEF CancelEffects, EffectKinds
    <3>. QED  BY <2>1, <2>2, <2>4, <3>1, <3>2
              DEF Cancel, Cancelling, HostType, PlaceType, RepliesType, Statuses
  <2>5. CASE LoadCheckpoint
    <3>1. Settle("Load", CheckpointLoaded(wf, journal))
      BY <2>5 DEF LoadCheckpoint
    <3>2. HostType' /\ ops \ {"Load"} \subseteq ops'
      BY <2>1, <3>1, SettleType, HandlersType DEF PlaceType
    <3>. QED  BY <2>1, <2>2, <2>5, <3>2
              DEF LoadCheckpoint, PlaceType, RepliesType, Writes, BleOps
  <2>6. CASE DeleteCheckpoint
    <3>1. HostType' /\ ops \ {"Delete"} \subseteq ops'
      BY <2>1, <2>6, DropType DEF DeleteCheckpoint
    <3>2. NoCheckpoint \in Checkpoints
      BY DEF NoCheckpoint, Checkpoints, None
    <3>. QED  BY <2>1, <2>2, <2>6, <3>1, <3>2
              DEF DeleteCheckpoint, PlaceType, RepliesType, Writes, BleOps
  <2>7. CASE TruncateSink
    <3>1. Settle("Truncate", SinkTruncated(wf))
      BY <2>7 DEF TruncateSink
    <3>2. HostType' /\ ops \ {"Truncate"} \subseteq ops'
      BY <2>1, <3>1, SettleType, HandlersType
    <3>3. Cut(wf.completed) \in Seq(Int)
      BY <2>1, CutType DEF PlaceType, Workflows
    <3>. QED  BY <2>1, <2>2, <2>7, <3>2, <3>3
              DEF TruncateSink, PlaceType, RepliesType, Writes, BleOps
  <2>8. CASE AppendSink
    <3>1. file' \in Seq(Int)
      <4>1. wf.pend \in Seq(Int) /\ file \in Seq(Int)
        BY <2>1 DEF Workflows, PlaceType
      <4>2. file \o wf.pend \in Seq(Int)
        BY <4>1, ConcatProperties
      <4>. QED  BY <2>8, <4>1, <4>2 DEF AppendSink
    <3>2. PICK r \in Answers(Packets) : Settle("Append", r)
      <4>1. Len(file') \in Nat
        BY <3>1
      <4>2. AppendCompleted(wf, Len(file')) \in Answers(Packets)
            /\ Fail(wf, {}) \in Answers(Packets)
        BY <2>1, <4>1, HandlersType
      <4>. QED  BY <2>8, <4>2, Zenon DEF AppendSink
    <3>3. HostType' /\ ops \ {"Append"} \subseteq ops'
      BY <2>1, <3>2, SettleType
    <3>. QED  BY <2>1, <2>2, <2>8, <3>1, <3>3
              DEF AppendSink, PlaceType, RepliesType, Writes, BleOps
  <2>9. CASE FinalizeFile
    <3>1. PICK r \in Answers(Packets) : Settle("Finalize", r)
      <4>1. Len(file) \in Nat
        BY <2>1 DEF PlaceType
      <4>2. /\ FailIntegrity(wf) \in Answers(Packets) /\ Fail(wf, {}) \in Answers(Packets)
            /\ SinkFinalized(wf, Len(file)) \in Answers(Packets)
        BY <2>1, <4>1, HandlersType
      <4>. QED  BY <2>9, <4>2 DEF FinalizeFile
    <3>2. HostType' /\ ops \ {"Finalize"} \subseteq ops'
      BY <2>1, <3>1, SettleType
    <3>. QED  BY <2>1, <2>2, <2>9, <3>2
              DEF FinalizeFile, PlaceType, RepliesType, Writes, BleOps
  <2>10. CASE DiscardSink
    <3>1. HostType' /\ ops \ {"Discard"} \subseteq ops'
      BY <2>1, <2>10, DropType DEF DiscardSink
    <3>. QED  BY <2>1, <2>2, <2>10, <3>1
              DEF DiscardSink, PlaceType, RepliesType, Writes, BleOps
  <2>11. CASE TimerFires
    <3>1. HostType' /\ ops \subseteq ops'
      BY <2>1, <2>11, DispatchType, HandlersType DEF TimerFires
    <3>. QED  BY <2>1, <2>2, <2>11, <3>1 DEF TimerFires, PlaceType, RepliesType
  <2>12. CASE Subscribe
    <3>1. Settle("Subscribe", Subscribed(wf))
      BY <2>12 DEF Subscribe
    <3>2. HostType' /\ ops \ {"Subscribe"} \subseteq ops'
      BY <2>1, <3>1, SettleType, HandlersType
    <3>. QED  BY <2>1, <2>2, <2>12, <3>2
              DEF Subscribe, PlaceType, RepliesType, Writes, BleOps
  <2>13. ASSUME NEW s \in saves, SaveCheckpoint(s) PROVE TypeOK'
    <3>1. [units |-> s.units, last |-> s.last] \in Checkpoints
      BY <2>1 DEF HostType, Saves, Checkpoints
    <3>. QED  BY <2>1, <2>2, <2>13, <3>1
              DEF SaveCheckpoint, HostType, PlaceType, RepliesType
  <2>14. ASSUME NEW op \in Writes, DeviceExecutes(op) PROVE TypeOK'
    <3>1. devPos' \in 0..Len(Stream)
      BY <2>14, StreamType DEF DeviceExecutes
    <3>. QED  BY <2>1, <2>2, <2>14, <3>1
              DEF DeviceExecutes, MayRun, HostType, PlaceType, RepliesType
  <2>15. ASSUME NEW op \in Writes, WriteCallback(op) PROVE TypeOK'
    <3>1. HostType' /\ ops \ {op} \subseteq ops'
      <4>1. WriteCompleted(op) \in Answers(Packets)
        BY <2>1, HandlersType DEF WriteCompleted
      <4>2. CASE op \in {"START", "ACK", "CONFIRM"}
        BY <2>1, <2>15, <4>1, <4>2, SettleType DEF WriteCallback
      <4>3. CASE op \notin {"START", "ACK", "CONFIRM"}
        BY <2>1, <2>15, <4>3, DropType DEF WriteCallback
      <4>. QED  BY <4>2, <4>3
    <3>. QED  BY <2>1, <2>2, <2>15, <3>1 DEF WriteCallback, PlaceType, RepliesType
  <2>16. ASSUME NEW op \in EffectKinds, Failing(op)
         PROVE  /\ HostType' /\ RepliesType' /\ stuck' \in BOOLEAN
                /\ UNCHANGED <<journal, device>>
    <3>1. HostType' /\ ops \ {op} \subseteq ops'
      <4>1. CASE Running /\ op \notin CleanupOps
        BY <2>1, <2>16, <4>1, DispatchType, HandlersType DEF Failing
      <4>2. CASE ~ (Running /\ op \notin CleanupOps)
        BY <2>1, <2>16, <4>2, DropType DEF Failing
      <4>. QED  BY <4>1, <4>2
    <3>2. stuck' \in BOOLEAN
      BY <2>1, <2>16 DEF Failing, PlaceType
    <3>. QED  BY <2>1, <2>16, <3>1, <3>2 DEF Failing, RepliesType
  <2>17. ASSUME NEW op \in BleOps, LinkFails(op) PROVE TypeOK'
    <3>1. op \in EffectKinds /\ Failing(op) /\ UNCHANGED <<file, bounds>>
      BY <2>17 DEF LinkFails, BleOps, EffectKinds
    <3>. QED  BY <2>1, <2>2, <2>16, <3>1 DEF PlaceType
  <2>18. faults \in Nat /\ \A kind : Fault(kind) => UNCHANGED runs /\ faults' \in 0..MaxFaults
    BY <2>1, HostAssumption DEF Fault, PlaceType
  <2>19. ASSUME NEW p \in Packets, Receive(p) PROVE HostType' /\ ops \subseteq ops'
    <3>1. CASE Listening
      BY <2>1, <2>19, <3>1, DispatchType, HandlersType DEF Receive
    <3>2. CASE ~ Listening
      BY <2>1, <2>19, <3>2 DEF Receive, HostType
    <3>. QED  BY <3>1, <3>2
  <2>20. devPos \in 0..Len(Stream) /\ Len(Stream) \in Nat /\ NextPos \in 0..Len(Stream)
    BY <2>1, StreamType DEF PlaceType, NextPos
  <2>21. \A i \in 1..Len(Stream) : Stream[i] \in Packets
    BY StreamType, LenProperties
  <2>22. CASE DeviceSends
    <3>1. Receive(Stream[devPos]) /\ devPos \in 1..Len(Stream)
      BY <2>20, <2>22 DEF DeviceSends
    <3>2. HostType' /\ ops \subseteq ops'
      BY <2>19, <2>21, <3>1
    <3>. QED  BY <2>1, <2>2, <2>20, <2>22, <3>2 DEF DeviceSends, PlaceType, RepliesType
  <2>23. CASE DeviceStops
    BY <2>1, <2>2, <2>20, <2>23 DEF DeviceStops, host, HostType, PlaceType, RepliesType
  <2>24. CASE LosePacket
    BY <2>1, <2>2, <2>18, <2>20, <2>24
       DEF LosePacket, host, HostType, PlaceType, RepliesType
  <2>25. CASE DuplicatePacket
    <3>1. Receive(Stream[devPos - 1]) /\ devPos - 1 \in 1..Len(Stream)
      BY <2>20, <2>25 DEF DuplicatePacket
    <3>2. HostType' /\ ops \subseteq ops'
      BY <2>19, <2>21, <3>1
    <3>. QED  BY <2>1, <2>2, <2>18, <2>25, <3>2 DEF DuplicatePacket, PlaceType, RepliesType
  <2>26. CASE StrayPacket
    <3>1. HostType' /\ ops \subseteq ops'
      BY <2>19, <2>26, HostAssumption DEF StrayPacket
    <3>. QED  BY <2>1, <2>2, <2>18, <2>26, <3>1 DEF StrayPacket, PlaceType, RepliesType
  <2>27. ASSUME NEW op \in EffectKinds, EffectFails(op) PROVE TypeOK'
    <3>1. wf.pend \in Seq(Int) /\ file \in Seq(Int)
      BY <2>1 DEF Workflows, PlaceType
    <3>2. file \o wf.pend \in Seq(Int)
      BY <3>1, ConcatProperties
    <3>3. file' \in Seq(Int)
      BY <2>27, <3>1, <3>2 DEF EffectFails
    <3>. QED  BY <2>1, <2>2, <2>16, <2>18, <2>27, <3>3 DEF EffectFails, PlaceType
  <2>28. ASSUME NEW s \in saves, SaveFails(s) PROVE TypeOK'
    <3>1. Fail(wf, {}).wf \in Workflows
      BY <2>1, PlainType, HandlersType DEF Answers
    <3>2. stuck' \in BOOLEAN
      BY <2>1, <2>28 DEF SaveFails, PlaceType
    <3>. QED  BY <2>1, <2>2, <2>18, <2>28, <3>1, <3>2
              DEF SaveFails, HostType, PlaceType, RepliesType, Statuses
  <2>29. CASE Disconnect
    <3>. DEFINE rest == ops \ (BleOps \ CleanupOps)
    <3>1. \/ Dispatch(Fail(wf, {}), rest)
          \/ Cancelling(wf, ops)
          \/ ops' \subseteq ops /\ UNCHANGED <<status, wf, saves, timer>>
      BY <2>29 DEF Disconnect
    <3>2. ASSUME Dispatch(Fail(wf, {}), rest) PROVE HostType'
      BY <2>1, <3>2, DispatchType, HandlersType
    <3>3. CancelEffects \subseteq EffectKinds \ {"Save"}
      BY DEF CancelEffects, EffectKinds
    <3>4. HostType'
      <4>1. CASE Cancelling(wf, ops)
        BY <2>1, <3>3, <4>1 DEF HostType, Cancelling, Statuses
      <4>2. CASE ops' \subseteq ops /\ UNCHANGED <<status, wf, saves, timer>>
        BY <2>1, <4>2 DEF HostType
      <4>. QED  BY <3>1, <3>2, <4>1, <4>2
    <3>5. /\ Fault("disconnect") /\ link' = FALSE /\ devPos' = 0 /\ replies' = {}
          /\ UNCHANGED <<stuck, file, journal, devHas>>
      BY <2>29, Zenon DEF Disconnect
    <3>6. 0 \in 0..Len(Stream)
      BY <2>20
    <3>. QED  BY <2>1, <2>2, <2>18, <3>4, <3>5, <3>6 DEF PlaceType, RepliesType
  <2>30. CASE Reconnect
    BY <2>1, <2>2, <2>30 DEF Reconnect, host, HostType, PlaceType, RepliesType
  <2>31. CASE Crash
    <3>1. NewWorkflow \in Workflows
      BY DEF NewWorkflow, Workflows, Phases, None
    <3>2. HostType' /\ RepliesType'
      BY <2>31, <3>1 DEF Crash, HostType, RepliesType, Statuses
    <3>3. 0 \in 0..Len(Stream)
      BY <2>20
    <3>. QED  BY <2>1, <2>2, <2>18, <2>31, <3>2, <3>3 DEF Crash, PlaceType
  <2>32. CASE OtherWorkflow
    <3>1. NoCheckpoint \in Checkpoints
      BY DEF NoCheckpoint, Checkpoints, None
    <3>. QED  BY <2>1, <2>2, <2>18, <2>32, <3>1
              DEF OtherWorkflow, host, HostType, PlaceType, RepliesType
  <2>33. CASE UNCHANGED vars
    BY <2>1, <2>2, <2>33 DEF vars, host, HostType, PlaceType, RepliesType
  <2>34. CASE HostStep
    BY <2>5, <2>6, <2>7, <2>8, <2>9, <2>10, <2>11, <2>12, <2>13, <2>14, <2>15, <2>17,
       <2>34 DEF HostStep
  <2>35. CASE FaultStep
    BY <2>24, <2>25, <2>26, <2>27, <2>28, <2>29, <2>31, <2>32, <2>35 DEF FaultStep
  <2>. QED  BY <2>3, <2>4, <2>22, <2>23, <2>30, <2>33, <2>34, <2>35 DEF Next
<1>. QED  BY <1>1, <1>2, PTL DEF Spec

-----------------------------------------------------------------------------
(* The custody of a plain recording. *)

\* The transfers for which custody is proved: the device streams no relayed
\* packets, and the application does not cancel once the device is confirmed.
PlainTransfer ==
  /\ ~ Relay /\ Strays \subseteq PlainPackets
  /\ "Confirming" \notin CancelPhases

Ends    == {"Completed", "Failed"}
Aborts  == {"NACK", "ABORT"}

\* An answer that keeps CustodyInv when the host takes it over rest.
Fits(r, rest) ==
  /\ r \in Answers(PlainPackets) /\ r.wf.enc # "yes"
  /\ IF r.wf.phase \in Ends
     THEN ~ r.rejected /\ r.out \subseteq {"NACK", "Discard", "Delete", "Save"}
          /\ "CONFIRM" \notin rest
     ELSE /\ rest \subseteq OpsOf(r.wf.phase) \cup Aborts
          /\ ~ r.rejected => Requests(r) \subseteq OpsOf(r.wf.phase)
  /\ r.wf.phase = "Confirming" => ConfirmOnCompletion
  /\ r.wf.phase \in Verified =>
       /\ file' = Full /\ (Host = "apple" => saves = {})
       /\ r.rejected \/ "Save" \notin r.out
  /\ ~ devHas =>
       /\ r.wf.phase \in Ends \cup {"Confirming"}
       /\ r.rejected \/ "Discard" \notin r.out

\* No phase waits for a cleanup, and CONFIRM is only asked for in Confirming.
LEMMA OpsOfPhase ==
  ASSUME NEW phase
  PROVE  /\ OpsOf(phase) \cap (CleanupOps \cup {"Save"}) = {}
         /\ \A x \in OpsOf(phase) : OpsOf(phase) = {x}
         /\ "CONFIRM" \in OpsOf(phase) <=> phase = "Confirming"
         /\ "Finalize" \in OpsOf(phase) <=> phase = "Finalizing"
         /\ "ACK" \in OpsOf(phase) <=> phase = "Acknowledging"
         /\ "Load" \in OpsOf(phase) <=> phase = "LoadingCheckpoint"
         /\ "Truncate" \in OpsOf(phase) <=> phase = "TruncatingSink"
         /\ "Subscribe" \in OpsOf(phase) <=> phase = "Subscribing"
         /\ "START" \in OpsOf(phase) <=> phase = "Starting"
         /\ "Append" \in OpsOf(phase) <=> phase = "Appending"
         /\ phase \in Ends \cup {"Transferring", "WaitingForSha"} => OpsOf(phase) = {}
         /\ phase = "Confirming" => OpsOf(phase) = {"CONFIRM"}
         /\ phase = "TruncatingSink" => OpsOf(phase) = {"Truncate"}
         /\ phase = "Subscribing" => OpsOf(phase) = {"Subscribe"}
         /\ phase = "Starting" => OpsOf(phase) = {"START"}
         /\ phase = "LoadingCheckpoint" => OpsOf(phase) = {"Load"}
         /\ phase = "Appending" => OpsOf(phase) = {"Append"}
         /\ phase = "Finalizing" => OpsOf(phase) = {"Finalize"}
         /\ phase = "Acknowledging" => OpsOf(phase) = {"ACK"}
  BY DEF OpsOf, CleanupOps, Ends

\* A running workflow waits for one effect at a time, besides the aborts that an
\* earlier workflow left behind.
LEMMA OneAtATime ==
  ASSUME OpsFollowPhase, Running, NEW op \in ops, op \notin Aborts
  PROVE  /\ OpsOf(wf.phase) = {op} /\ op \notin CleanupOps
         /\ ops \ {op} \subseteq Aborts
<1>1. op \in OpsOf(wf.phase)
  BY DEF OpsFollowPhase, Aborts
<1>. QED  BY <1>1, OpsOfPhase DEF OpsFollowPhase, Aborts

\* Taking a fitting answer keeps CustodyInv.
LEMMA DispatchCustody ==
  ASSUME TypeOK, CustodyInv, Running, NEW rest \in SUBSET ops, NEW r, Fits(r, rest),
         Dispatch(r, rest), UNCHANGED devHas, ~ devHas => file' = file
  PROVE  CustodyInv'
<1>1. r.wf \in Workflows /\ r.wf.queue \in Seq(PlainPackets) /\ r.wf.enc # "yes"
  BY DEF Fits, Answers, QueueOf
<1>2. Plain(r.wf) /\ wf' = r.wf
  BY <1>1 DEF Plain, Dispatch, Accept, Refused, Cancelling
<1>3. Host = "js" => devHas /\ "CONFIRM" \notin ops
  BY HostAssumption DEF CustodyInv, PhaseFollowsStatus
<1>4. "CONFIRM" \in ops => wf.phase = "Confirming"
  BY DEF CustodyInv, ConfirmIsRunning
<1>5. CASE ~ r.rejected /\ r.wf.phase \in Ends
  <2>1. status' \in Ends /\ ops' = rest \cup Requests(r)
    BY <1>5 DEF Dispatch, Accept, StatusOf, Ends, Requests
  <2>2. "CONFIRM" \notin ops' /\ ~ Running'
    BY <1>5, <2>1 DEF Fits, Requests, Ends, Running
  <2>3. ~ devHas => ops' \cap {"Load", "Truncate", "Append", "Finalize", "Discard"} = {}
    BY <1>5, <2>1 DEF Fits, Requests, CustodyInv, ReleasedIsFinal
  <2>. QED  BY <1>2, <1>5, <2>2, <2>3
            DEF CustodyInv, OpsFollowPhase, PhaseFollowsStatus, VerifiedIsWhole,
                ConfirmIsRunning, ReleasedIsFinal, Ends
<1>6. CASE r.wf.phase \notin Ends /\ (r.rejected => Host = "apple")
  <2>1. /\ Running' /\ rest \subseteq ops'
        /\ ops' \subseteq rest \cup (IF r.rejected THEN {} ELSE Requests(r))
        /\ saves' = saves \cup IF ~ r.rejected /\ "Save" \in r.out
                               THEN {CheckpointOf(r.wf)} ELSE {}
    <3>1. CASE r.rejected
      BY <1>6, <3>1, HostAssumption DEF Dispatch, Refused, Running
    <3>2. CASE ~ r.rejected
      BY <1>6, <3>2 DEF Dispatch, Accept, StatusOf, Ends, Running, Requests
    <3>. QED  BY <3>1, <3>2
  <2>2. ops' \subseteq OpsOf(r.wf.phase) \cup Aborts
    BY <1>6, <2>1 DEF Fits
  <2>3. "CONFIRM" \in ops' => r.wf.phase = "Confirming"
    BY <2>2, OpsOfPhase DEF Aborts
  <2>4. r.wf.phase \in Verified => file' = Full /\ (Host = "apple" => saves' = {})
    BY <2>1 DEF Fits
  <2>5. ~ devHas => /\ r.wf.phase = "Confirming" /\ file' = Full
                    /\ ops' \cap {"Load", "Truncate", "Append", "Finalize", "Discard"} = {}
    <3>1. ~ devHas => r.wf.phase = "Confirming" /\ file = Full
      BY <1>6 DEF Fits, CustodyInv, ReleasedIsFinal
    <3>. QED  BY <2>2, <3>1, OpsOfPhase DEF Aborts
  <2>6. OpsFollowPhase' /\ ConfirmIsRunning' /\ VerifiedIsWhole' /\ ReleasedIsFinal'
    BY <1>2, <2>1, <2>2, <2>3, <2>4, <2>5
       DEF OpsFollowPhase, ConfirmIsRunning, VerifiedIsWhole, ReleasedIsFinal, Aborts
  <2>7. PhaseFollowsStatus'
    BY <1>2, <1>6, <2>3 DEF PhaseFollowsStatus, CustodyInv, Fits, Ends
  <2>. QED  BY <1>2, <2>6, <2>7 DEF CustodyInv
<1>7. CASE r.rejected /\ Host = "js"
  <2>1. status' = "Cancelled" /\ ops' = rest \cup CancelEffects
    BY <1>7 DEF Dispatch, Refused, Cancelling
  <2>2. "CONFIRM" \notin ops' /\ ~ Running'
    BY <1>3, <1>7, <2>1 DEF CancelEffects, Running
  <2>. QED  BY <1>2, <1>3, <1>7, <2>2
            DEF CustodyInv, OpsFollowPhase, PhaseFollowsStatus, VerifiedIsWhole,
                ConfirmIsRunning, ReleasedIsFinal, Ends, Fits
<1>8. r.rejected => r.wf.phase \notin Ends
  BY DEF Fits
<1>. QED  BY <1>5, <1>6, <1>7, <1>8, HostAssumption

\* The workflow of a plain recording is a workflow whose queue is plain.
LEMMA PlainQueue ==
  ASSUME TypeOK, CustodyInv
  PROVE  /\ wf \in QueueOf(PlainPackets) /\ wf.enc # "yes"
         /\ wf \in Workflows /\ PlainPackets \subseteq Packets
         /\ \A p \in PlainPackets : p.t \notin RelayTypes
  BY PlainType DEF TypeOK, CustodyInv, Plain, QueueOf, PlainPackets, PlainTypes,
                   SharedTypes, RelayTypes

\* A handler that moves the workflow on, with nothing else outstanding, fits.
LEMMA MovedFits ==
  ASSUME TypeOK, CustodyInv, NEW rest, rest \subseteq OpsOf(wf.phase) \cup Aborts,
         NEW r, NEW phase, NEW out, Moved(PlainPackets, wf, r, phase, out),
         "CONFIRM" \notin rest \/ phase \notin Ends,
         \/ phase \in Ends /\ out \subseteq {"NACK", "Discard", "Delete"}
         \/ phase \notin Ends /\ out = OpsOf(phase) /\ rest \subseteq Aborts
         \/ phase \notin Ends /\ out = {} /\ phase = wf.phase,
         phase = "Confirming" => ConfirmOnCompletion,
         phase \in Verified => file' = Full /\ (Host = "apple" => saves = {}),
         ~ devHas => phase \in Ends \cup {"Confirming"} /\ "Discard" \notin out
  PROVE  Fits(r, rest)
<1>1. r.wf.enc # "yes" /\ r \in Answers(PlainPackets)
  BY PlainQueue DEF Moved
<1>2. out = OpsOf(phase) => "Save" \notin out
  BY OpsOfPhase
<1>. QED  BY <1>1, <1>2 DEF Fits, Moved, Requests

\* The outcome of a packet or of an append fits, with nothing else outstanding.
LEMMA OutcomeFits ==
  ASSUME NEW r \in Answers(PlainPackets), Outcome(r), r.wf.enc # "yes",
         NEW rest, rest \subseteq Aborts, devHas
  PROVE  Fits(r, rest)
<1>1. r.out \subseteq EffectKinds /\ r.rejected \in BOOLEAN
  BY DEF Answers
<1>2. r.wf.phase \in {"Transferring", "Appending", "Finalizing", "Failed"}
  BY <1>1 DEF Outcome
<1>. QED  BY <1>1, <1>2, OpsOfPhase DEF Fits, Outcome, Requests, Verified, Ends, Aborts

\* A refused event fits where the workflow stands.
LEMMA RejectFits ==
  ASSUME TypeOK, CustodyInv, Running, UNCHANGED file
  PROVE  Fits(Reject(wf), ops)
<1>1. Reject(wf) \in Answers(PlainPackets)
  BY PlainQueue, StepType
<1>2. wf.phase \notin Ends /\ wf.enc # "yes"
  BY DEF CustodyInv, PhaseFollowsStatus, Plain, Ends
<1>. QED  BY <1>1, <1>2 DEF Fits, Reject, CustodyInv, OpsFollowPhase, PhaseFollowsStatus,
                            VerifiedIsWhole, ReleasedIsFinal, Aborts

\* Failing a workflow that no longer waits to release its recording fits.
LEMMA FailFits ==
  ASSUME TypeOK, CustodyInv, NEW rest, rest \subseteq OpsOf(wf.phase) \cup Aborts,
         "CONFIRM" \notin rest
  PROVE  Fits(Fail(wf, {}), rest)
<1>1. Moved(PlainPackets, wf, Fail(wf, {}), "Failed", {})
  BY PlainQueue, FailType DEF Moved
<1>2. "Failed" \in Ends /\ "Failed" \notin Verified /\ "Failed" # "Confirming"
      /\ "Discard" \notin {}
  BY DEF Ends, Verified
<1>. QED  BY <1>1, <1>2, MovedFits

\* A notification of the device fits.
LEMMA NotificationFits ==
  ASSUME TypeOK, CustodyInv, Running, UNCHANGED file, NEW p \in PlainPackets
  PROVE  Fits(Notification(wf, p), ops)
<1>. DEFINE r == Notification(wf, p)
<1>1. /\ wf.phase \notin Ends /\ ops \subseteq OpsOf(wf.phase) \cup Aborts
      /\ wf.phase = "Confirming" => ConfirmOnCompletion
      /\ wf.phase \in Verified => file' = Full /\ (Host = "apple" => saves = {})
      /\ ~ devHas => wf.phase = "Confirming"
      /\ "CONFIRM" \in ops => wf.phase = "Confirming"
  BY DEF CustodyInv, OpsFollowPhase, PhaseFollowsStatus, VerifiedIsWhole,
         ConfirmIsRunning, ReleasedIsFinal, Ends, Aborts
<1>2. \/ Moved(PlainPackets, wf, r, wf.phase, {})
      \/ r = Reject(wf)
      \/ /\ wf.phase \in {"Starting", "Appending", "Finalizing", "WaitingForSha"}
         /\ \E out \in SUBSET {"NACK", "Discard", "Delete"} :
              Moved(PlainPackets, wf, r, "Failed", out)
      \/ /\ wf.phase = "WaitingForSha"
         /\ Moved(PlainPackets, wf, r, "Acknowledging", {"ACK"})
      \/ /\ wf.phase = "Transferring" /\ r \in Answers(PlainPackets) /\ Outcome(r)
         /\ r.wf.enc # "yes"
  BY PlainQueue, NotificationType
<1>. HIDE DEF r
<1>3. Fits(r, ops)
  <2>1. CASE Moved(PlainPackets, wf, r, wf.phase, {})
    <3>1. "Discard" \notin {}
      OBVIOUS
    <3>. QED  BY <1>1, <2>1, <3>1, MovedFits
  <2>2. CASE r = Reject(wf)
    BY <2>2, RejectFits
  <2>3. ASSUME wf.phase \in {"Starting", "Appending", "Finalizing", "WaitingForSha"},
               NEW out \in SUBSET {"NACK", "Discard", "Delete"},
               Moved(PlainPackets, wf, r, "Failed", out)
        PROVE  Fits(r, ops)
    <3>1. /\ "Failed" \in Ends /\ "Failed" \notin Verified /\ "Failed" # "Confirming"
          /\ devHas /\ "CONFIRM" \notin ops
      BY <1>1, <2>3 DEF Ends, Verified
    <3>. QED  BY <1>1, <2>3, <3>1, MovedFits
  <2>4. CASE wf.phase = "WaitingForSha" /\ Moved(PlainPackets, wf, r, "Acknowledging", {"ACK"})
    <3>1. /\ "Acknowledging" \notin Ends /\ "Acknowledging" # "Confirming" /\ devHas
          /\ {"ACK"} = OpsOf("Acknowledging") /\ ops \subseteq Aborts
          /\ file' = Full /\ (Host = "apple" => saves = {})
      BY <1>1, <2>4, OpsOfPhase DEF Ends, Verified
    <3>. QED  BY <1>1, <2>4, <3>1, MovedFits
  <2>5. CASE /\ wf.phase = "Transferring" /\ r \in Answers(PlainPackets) /\ Outcome(r)
             /\ r.wf.enc # "yes"
    <3>1. ops \subseteq Aborts /\ devHas
      BY <1>1, <2>5, OpsOfPhase
    <3>. QED  BY <2>5, <3>1, OutcomeFits
  <2>. QED  BY <1>2, <2>1, <2>2, <2>3, <2>4, <2>5
<1>. QED  BY <1>3 DEF r

\* So does the grace timer.
LEMMA TimerFits ==
  ASSUME TypeOK, CustodyInv, Running, UNCHANGED file
  PROVE  Fits(TimerFired(wf), ops)
<1>. DEFINE r == TimerFired(wf)
<1>1. /\ wf.phase \notin Ends /\ ops \subseteq OpsOf(wf.phase) \cup Aborts
      /\ wf.phase = "Confirming" => ConfirmOnCompletion
      /\ wf.phase \in Verified => file' = Full /\ (Host = "apple" => saves = {})
      /\ ~ devHas => wf.phase = "Confirming"
  BY DEF CustodyInv, OpsFollowPhase, PhaseFollowsStatus, VerifiedIsWhole,
         ReleasedIsFinal, Ends, Aborts
<1>2. \/ /\ wf.phase = "WaitingForSha"
         /\ Moved(PlainPackets, wf, r, "Acknowledging", {"ACK"})
      \/ Moved(PlainPackets, wf, r, wf.phase, {})
      \/ r = Reject(wf)
  BY PlainQueue, TimerFiredType
<1>. HIDE DEF r
<1>3. Fits(r, ops)
  <2>1. CASE Moved(PlainPackets, wf, r, wf.phase, {})
    <3>1. "Discard" \notin {}
      OBVIOUS
    <3>. QED  BY <1>1, <2>1, <3>1, MovedFits
  <2>2. CASE wf.phase = "WaitingForSha" /\ Moved(PlainPackets, wf, r, "Acknowledging", {"ACK"})
    <3>1. /\ "Acknowledging" \notin Ends /\ "Acknowledging" # "Confirming" /\ devHas
          /\ {"ACK"} = OpsOf("Acknowledging") /\ ops \subseteq Aborts
          /\ file' = Full /\ (Host = "apple" => saves = {})
      BY <1>1, <2>2, OpsOfPhase DEF Ends, Verified
    <3>. QED  BY <1>1, <2>2, <3>1, MovedFits
  <2>. QED  BY <1>2, <2>1, <2>2, RejectFits
<1>. QED  BY <1>3 DEF r

\* Settling an effect keeps CustodyInv if the answer of a running workflow fits.
LEMMA SettleCustody ==
  ASSUME TypeOK, CustodyInv, NEW op \in ops, NEW r, Settle(op, r), UNCHANGED devHas,
         ~ devHas => file' = file, Running => Fits(r, ops \ {op})
  PROVE  CustodyInv'
<1>1. CASE Running
  BY <1>1, DispatchCustody DEF Settle
<1>2. CASE ~ Running
  <2>1. ops' \subseteq ops /\ UNCHANGED <<status, wf, saves>> /\ ~ Running'
    BY <1>2 DEF Settle, Running
  <2>. QED  BY <1>2, <2>1
            DEF CustodyInv, OpsFollowPhase, PhaseFollowsStatus, Plain, VerifiedIsWhole,
                ConfirmIsRunning, ReleasedIsFinal
<1>. QED  BY <1>1, <1>2

\* Dropping effects keeps CustodyInv while the file stays, or no workflow runs
\* and the device still has the recording.
LEMMA DropCustody ==
  ASSUME CustodyInv, ops' \subseteq ops, saves' \subseteq saves,
         UNCHANGED <<status, wf, devHas>>, file' = file \/ (devHas /\ ~ Running)
  PROVE  CustodyInv'
  BY DEF CustodyInv, OpsFollowPhase, PhaseFollowsStatus, Plain, VerifiedIsWhole,
         ConfirmIsRunning, ReleasedIsFinal, Running

\* Ending a workflow that no longer waits to release its recording, with some
\* cleanup, keeps CustodyInv.
LEMMA EndCustody ==
  ASSUME CustodyInv, status' # "Running", Plain(wf'), wf'.phase # "Confirming",
         UNCHANGED <<devHas, file>>, "CONFIRM" \notin ops',
         ~ devHas => ops' \cap {"Load", "Truncate", "Append", "Finalize", "Discard"} = {}
  PROVE  CustodyInv'
  BY DEF CustodyInv, OpsFollowPhase, PhaseFollowsStatus, VerifiedIsWhole,
         ConfirmIsRunning, ReleasedIsFinal, Running

\* What a running workflow waits for tells its phase.
LEMMA WaitingFor ==
  ASSUME TypeOK, CustodyInv, Running, NEW op \in ops, op \notin Aborts
  PROVE  /\ ops \ {op} \subseteq Aborts /\ OpsOf(wf.phase) = {op}
         /\ op \notin CleanupOps
         /\ op = "CONFIRM" <=> wf.phase = "Confirming"
         /\ op = "Finalize" <=> wf.phase = "Finalizing"
         /\ op = "ACK" <=> wf.phase = "Acknowledging"
         /\ op # "CONFIRM" => devHas
<1>1. OpsOf(wf.phase) = {op} /\ op \notin CleanupOps /\ ops \ {op} \subseteq Aborts
  BY OneAtATime DEF CustodyInv
<1>2. op # "CONFIRM" => devHas
  BY <1>1, OpsOfPhase DEF CustodyInv, ReleasedIsFinal
<1>. QED  BY <1>1, <1>2, OpsOfPhase

\* An effect of the file or of the start of a transfer is only outstanding while
\* the device has the recording.
LEMMA DeviceHas ==
  ASSUME TypeOK, CustodyInv, NEW op \in ops,
         op \in {"Load", "Truncate", "Append", "Finalize", "Discard"}
  PROVE  devHas
  BY DEF CustodyInv, ReleasedIsFinal

\* Every step keeps CustodyInv.
LEMMA CustodyStep ==
  ASSUME PlainTransfer, TypeOK, CustodyInv, [Next]_vars
  PROVE  CustodyInv'
<1>. USE DEF durable, device, bounds
<1>1. wf \in QueueOf(PlainPackets) /\ wf.enc # "yes" /\ wf \in Workflows
      /\ PlainPackets \subseteq Packets
      /\ \A p \in PlainPackets : p.t \notin RelayTypes
  BY PlainQueue
<1>2. Host = "js" => devHas /\ "CONFIRM" \notin ops /\ wf.phase # "Confirming"
  BY HostAssumption DEF CustodyInv, PhaseFollowsStatus
<1>3. Plain(wf) /\ ("CONFIRM" \in ops => Running /\ wf.phase = "Confirming")
  BY DEF CustodyInv, ConfirmIsRunning
<1>4. CASE Start
  <2>1. Plain(NewWorkflow) /\ NewWorkflow.phase = "LoadingCheckpoint"
    BY DEF NewWorkflow, Plain
  <2>2. /\ devHas /\ ops \subseteq {"NACK", "ABORT"} /\ ops' = ops \cup {"Load"}
        /\ wf' = NewWorkflow /\ UNCHANGED <<devHas, file>>
    BY <1>4 DEF Start, OwnerFree
  <2>. QED  BY <2>1, <2>2, OpsOfPhase
            DEF CustodyInv, OpsFollowPhase, PhaseFollowsStatus, VerifiedIsWhole,
                ConfirmIsRunning, ReleasedIsFinal, Ends, Verified
<1>5. CASE Cancel
  <2>. DEFINE w == [wf EXCEPT !.shaTimer = FALSE, !.queue = <<>>]
  <2>1. Running /\ wf.phase # "Confirming" /\ Cancelling(w, ops)
        /\ UNCHANGED <<devHas, file>>
    BY <1>5 DEF Cancel, PlainTransfer
  <2>2. Plain(w) /\ w.phase = wf.phase
    <3>1. <<>> \in Seq(PlainPackets)
      OBVIOUS
    <3>. QED  BY <1>1, <3>1 DEF Plain, Workflows
  <2>. HIDE DEF w
  <2>3. devHas
    BY <2>1 DEF CustodyInv, ReleasedIsFinal
  <2>4. status' = "Cancelled" /\ wf' = w /\ ops' = ops \cup CancelEffects
    BY <2>1 DEF Cancelling
  <2>. QED  BY <1>3, <2>1, <2>2, <2>3, <2>4, EndCustody DEF CancelEffects
<1>6. CASE LoadCheckpoint
  <2>1. "Load" \in ops /\ Settle("Load", CheckpointLoaded(wf, journal))
        /\ UNCHANGED <<devHas, file>>
    BY <1>6 DEF LoadCheckpoint, MayRun
  <2>2. ASSUME Running PROVE Fits(CheckpointLoaded(wf, journal), ops \ {"Load"})
    <3>1. ops \ {"Load"} \subseteq Aborts /\ devHas
      BY <2>1, <2>2, WaitingFor DEF Aborts
    <3>2. Moved(PlainPackets, wf, CheckpointLoaded(wf, journal), "TruncatingSink",
                {"Truncate"})
      BY <1>1, CheckpointLoadedType DEF TypeOK, Checkpoints
    <3>3. /\ "TruncatingSink" \notin Ends /\ "TruncatingSink" \notin Verified
          /\ "TruncatingSink" # "Confirming" /\ OpsOf("TruncatingSink") = {"Truncate"}
      BY OpsOfPhase DEF Ends, Verified
    <3>. QED  BY <3>1, <3>2, <3>3, MovedFits
  <2>. QED  BY <2>1, <2>2, SettleCustody
<1>7. CASE DeleteCheckpoint
  BY <1>7, DropCustody DEF DeleteCheckpoint
<1>8. CASE TruncateSink
  <2>1. "Truncate" \in ops /\ Settle("Truncate", SinkTruncated(wf)) /\ UNCHANGED devHas
    BY <1>8 DEF TruncateSink, MayRun
  <2>2. devHas
    BY <2>1, DeviceHas
  <2>3. ASSUME Running PROVE Fits(SinkTruncated(wf), ops \ {"Truncate"})
    <3>1. ops \ {"Truncate"} \subseteq Aborts
      BY <2>1, <2>3, WaitingFor DEF Aborts
    <3>2. Moved(PlainPackets, wf, SinkTruncated(wf), "Subscribing", {"Subscribe"})
      BY <1>1, PhaseMoves
    <3>3. /\ "Subscribing" \notin Ends /\ "Subscribing" \notin Verified
          /\ "Subscribing" # "Confirming" /\ OpsOf("Subscribing") = {"Subscribe"}
      BY OpsOfPhase DEF Ends, Verified
    <3>. QED  BY <2>2, <3>1, <3>2, <3>3, MovedFits
  <2>. QED  BY <2>1, <2>2, <2>3, SettleCustody
<1>9. CASE AppendSink
  <2>1. "Append" \in ops /\ UNCHANGED devHas
    BY <1>9 DEF AppendSink, MayRun
  <2>2. devHas
    BY <2>1, DeviceHas
  <2>3. Running => ops \ {"Append"} \subseteq Aborts
    BY <2>1, WaitingFor DEF Aborts
  <2>4. CASE Settle("Append", Fail(wf, {}))
    <3>1. ASSUME Running PROVE Fits(Fail(wf, {}), ops \ {"Append"})
      BY <2>3, <3>1, FailFits DEF Aborts
    <3>. QED  BY <2>1, <2>2, <2>4, <3>1, SettleCustody
  <2>5. CASE file' = file \o wf.pend /\ Settle("Append", AppendCompleted(wf, Len(file')))
    <3>1. ASSUME Running PROVE Fits(AppendCompleted(wf, Len(file')), ops \ {"Append"})
      <4>1. Len(file') \in Nat
        BY <1>1, <2>5, ConcatProperties DEF TypeOK, Workflows
      <4>2. /\ AppendCompleted(wf, Len(file')) \in Answers(PlainPackets)
            /\ Outcome(AppendCompleted(wf, Len(file')))
            /\ AppendCompleted(wf, Len(file')).wf.enc # "yes"
        BY <1>1, <4>1, AppendCompletedType
      <4>. QED  BY <2>2, <2>3, <3>1, <4>2, OutcomeFits
    <3>. QED  BY <2>1, <2>2, <2>5, <3>1, SettleCustody
  <2>. QED  BY <1>9, <2>4, <2>5 DEF AppendSink
<1>10. CASE FinalizeFile
  <2>1. /\ "Finalize" \in ops /\ UNCHANGED <<devHas, file>>
        /\ Host = "apple" => saves = {}
    <3>1. MayRun("Finalize") /\ UNCHANGED <<devHas, file>>
      BY <1>10 DEF FinalizeFile
    <3>2. AppleMayRun("Finalize") => saves = {}
      BY DEF AppleMayRun, SinkOps, BleOps
    <3>. QED  BY <3>1, <3>2, HostAssumption DEF MayRun
  <2>2. devHas
    BY <2>1, DeviceHas
  <2>3. Running => ops \ {"Finalize"} \subseteq Aborts
    BY <2>1, WaitingFor DEF Aborts
  <2>4. CASE Settle("Finalize", FailIntegrity(wf))
    <3>1. ASSUME Running PROVE Fits(FailIntegrity(wf), ops \ {"Finalize"})
      <4>1. Moved(PlainPackets, wf, FailIntegrity(wf), "Failed", {"NACK", "Discard", "Delete"})
        BY <1>1, FailIntegrityType DEF Moved
      <4>2. /\ "Failed" \in Ends /\ "Failed" \notin Verified /\ "Failed" # "Confirming"
            /\ "CONFIRM" \notin ops \ {"Finalize"}
            /\ ops \ {"Finalize"} \subseteq OpsOf(wf.phase) \cup Aborts
        BY <2>3, <3>1 DEF Ends, Verified, Aborts
      <4>. QED  BY <2>2, <4>1, <4>2, MovedFits
    <3>. QED  BY <2>1, <2>4, <3>1, SettleCustody
  <2>5. CASE Settle("Finalize", Fail(wf, {}))
    <3>1. ASSUME Running PROVE Fits(Fail(wf, {}), ops \ {"Finalize"})
      BY <2>3, <3>1, FailFits DEF Aborts
    <3>. QED  BY <2>1, <2>5, <3>1, SettleCustody
  <2>6. CASE file = Full /\ Settle("Finalize", SinkFinalized(wf, Len(file)))
    <3>. DEFINE r == SinkFinalized(wf, Len(file))
    <3>1. ASSUME Running PROVE Fits(r, ops \ {"Finalize"})
      <4>1. \/ Moved(PlainPackets, wf, r, "Acknowledging", {"ACK"})
            \/ Moved(PlainPackets, wf, r, "WaitingForSha", {})
        BY <1>1, SinkFinalizedType DEF TypeOK
      <4>2. /\ "Acknowledging" \notin Ends /\ "Acknowledging" # "Confirming"
            /\ "WaitingForSha" \notin Ends /\ "WaitingForSha" # "Confirming"
            /\ OpsOf("Acknowledging") = {"ACK"} /\ OpsOf("WaitingForSha") = {}
            /\ file' = Full /\ (Host = "apple" => saves = {})
        BY <2>1, <2>6, OpsOfPhase DEF Ends
      <4>. HIDE DEF r
      <4>. QED  BY <2>2, <2>3, <3>1, <4>1, <4>2, MovedFits
    <3>. QED  BY <2>1, <2>6, <3>1, SettleCustody
  <2>. QED  BY <1>1, <1>10, <2>4, <2>5, <2>6 DEF FinalizeFile, IntegrityFails
<1>11. CASE DiscardSink
  <2>1. "Discard" \in ops
    BY <1>11 DEF DiscardSink, MayRun
  <2>2. ~ Running
    BY <2>1, WaitingFor DEF Aborts, CleanupOps
  <2>. QED  BY <1>11, <2>1, <2>2, DeviceHas, DropCustody DEF DiscardSink
<1>12. CASE TimerFires
  <2>1. Running /\ Dispatch(TimerFired(wf), ops) /\ UNCHANGED <<devHas, file>>
    BY <1>12 DEF TimerFires
  <2>2. Fits(TimerFired(wf), ops)
    BY <2>1, TimerFits
  <2>. QED  BY <2>1, <2>2, DispatchCustody
<1>13. CASE Subscribe
  <2>1. "Subscribe" \in ops /\ Settle("Subscribe", Subscribed(wf))
        /\ UNCHANGED <<devHas, file>>
    BY <1>13 DEF Subscribe, MayRun
  <2>2. ASSUME Running PROVE Fits(Subscribed(wf), ops \ {"Subscribe"})
    <3>1. ops \ {"Subscribe"} \subseteq Aborts /\ devHas
      BY <2>1, <2>2, WaitingFor DEF Aborts
    <3>2. Moved(PlainPackets, wf, Subscribed(wf), "Starting", {"START"})
      BY <1>1, PhaseMoves
    <3>3. /\ "Starting" \notin Ends /\ "Starting" \notin Verified
          /\ "Starting" # "Confirming" /\ OpsOf("Starting") = {"START"}
      BY OpsOfPhase DEF Ends, Verified
    <3>. QED  BY <3>1, <3>2, <3>3, MovedFits
  <2>. QED  BY <2>1, <2>2, SettleCustody
<1>14. ASSUME NEW s \in saves, SaveCheckpoint(s) PROVE CustodyInv'
  BY <1>14, DropCustody DEF SaveCheckpoint
<1>15. ASSUME NEW op \in Writes, DeviceExecutes(op) PROVE CustodyInv'
  <2>1. /\ op \in ops /\ UNCHANGED <<status, wf, ops, saves, file>>
        /\ devHas' = (devHas /\ op # "CONFIRM")
    BY <1>15 DEF DeviceExecutes, MayRun
  <2>2. CASE op # "CONFIRM"
    BY <2>1, <2>2, DropCustody DEF TypeOK
  <2>3. CASE op = "CONFIRM"
    <3>1. Running /\ wf.phase = "Confirming" /\ file = Full /\ ConfirmOnCompletion
      BY <1>3, <2>1, <2>3 DEF CustodyInv, VerifiedIsWhole, Verified, PhaseFollowsStatus
    <3>2. ops \subseteq {"CONFIRM", "NACK", "ABORT"}
      BY <3>1, OpsOfPhase DEF CustodyInv, OpsFollowPhase
    <3>. QED  BY <2>1, <2>3, <3>1, <3>2
              DEF CustodyInv, OpsFollowPhase, PhaseFollowsStatus, Plain, VerifiedIsWhole,
                  ConfirmIsRunning, ReleasedIsFinal, Running
  <2>. QED  BY <2>2, <2>3
<1>16. ASSUME NEW op \in Writes, WriteCallback(op) PROVE CustodyInv'
  <2>1. op \in ops /\ UNCHANGED <<devHas, file>>
    BY <1>16 DEF WriteCallback, TypeOK
  <2>2. CASE op \notin {"START", "ACK", "CONFIRM"}
    BY <1>16, <2>1, <2>2, DropCustody DEF WriteCallback
  <2>3. CASE op \in {"START", "ACK", "CONFIRM"}
    <3>1. Settle(op, WriteCompleted(op))
      BY <1>16, <2>3 DEF WriteCallback
    <3>2. ASSUME Running PROVE Fits(WriteCompleted(op), ops \ {op})
      <4>1. /\ ops \ {op} \subseteq Aborts /\ OpsOf(wf.phase) = {op}
            /\ op # "CONFIRM" => devHas
        BY <2>1, <2>3, <3>2, WaitingFor DEF Aborts
      <4>2. CASE op = "START"
        <5>1. /\ StartWritten(wf) \in Answers(PlainPackets) /\ Outcome(StartWritten(wf))
              /\ StartWritten(wf).wf.enc # "yes"
          BY <1>1, StartWrittenType
        <5>. QED  BY <4>1, <4>2, <5>1, OutcomeFits DEF WriteCompleted
      <4>3. CASE op = "ACK"
        <5>. DEFINE r == AckWritten(wf)
        <5>1. \/ ConfirmOnCompletion /\ Moved(PlainPackets, wf, r, "Confirming", {"CONFIRM"})
              \/ Moved(PlainPackets, wf, r, "Completed", {"Delete"})
          BY <1>1, AckWrittenType
        <5>2. wf.phase = "Acknowledging"
          BY <2>1, <3>2, <4>3, WaitingFor DEF Aborts
        <5>3. file' = Full /\ (Host = "apple" => saves = {})
          BY <2>1, <3>2, <5>2 DEF CustodyInv, VerifiedIsWhole, Verified
        <5>4. /\ "Confirming" \notin Ends /\ "Completed" \in Ends
              /\ "Completed" # "Confirming" /\ "Completed" \notin Verified
              /\ OpsOf("Confirming") = {"CONFIRM"} /\ "CONFIRM" \notin ops \ {op} /\ devHas
          BY <4>1, <4>3, OpsOfPhase DEF Ends, Verified, Aborts
        <5>. HIDE DEF r
        <5>5. Fits(r, ops \ {op})
          BY <4>1, <5>1, <5>3, <5>4, MovedFits
        <5>6. WriteCompleted(op) = r
          BY <4>3 DEF WriteCompleted, r
        <5>. QED  BY <5>5, <5>6
      <4>4. CASE op = "CONFIRM"
        <5>1. Moved(PlainPackets, wf, ConfirmWritten(wf), "Completed", {"Delete"})
          BY <1>1, CompleteType DEF ConfirmWritten
        <5>2. /\ "Completed" \in Ends /\ "Completed" # "Confirming"
              /\ "Completed" \notin Verified /\ "CONFIRM" \notin ops \ {op}
          BY <4>4 DEF Ends, Verified
        <5>3. Fits(ConfirmWritten(wf), ops \ {op})
          BY <4>1, <5>1, <5>2, MovedFits
        <5>4. WriteCompleted(op) = ConfirmWritten(wf)
          BY <4>4 DEF WriteCompleted
        <5>. QED  BY <5>3, <5>4
      <4>. QED  BY <2>3, <4>2, <4>3, <4>4
    <3>. QED  BY <2>1, <3>1, <3>2, SettleCustody
  <2>. QED  BY <2>2, <2>3
<1>17. ASSUME NEW op, Failing(op), file' = file \/ op = "Append", UNCHANGED devHas
       PROVE  CustodyInv'
  <2>1. op \in ops
    BY <1>17 DEF Failing, MayRun
  <2>2. ~ devHas => file' = file
    BY <1>17, <2>1, DeviceHas
  <2>3. CASE Running /\ op \notin CleanupOps
    <3>1. Dispatch(Fail(wf, {}), ops \ {op})
      BY <1>17, <2>3 DEF Failing
    <3>2. ops \ {op} \subseteq Aborts
      BY <2>1, <2>3, WaitingFor DEF Aborts, CleanupOps
    <3>3. Fits(Fail(wf, {}), ops \ {op})
      BY <3>2, FailFits DEF Aborts
    <3>. QED  BY <1>17, <2>2, <2>3, <3>1, <3>3, DispatchCustody
  <2>4. CASE ~ (Running /\ op \notin CleanupOps)
    <3>1. ops' = ops \ {op} /\ UNCHANGED <<status, wf, saves>>
      BY <1>17, <2>4 DEF Failing
    <3>2. file' = file \/ (devHas /\ ~ Running)
      BY <1>17, <2>1, <2>4, DeviceHas DEF CleanupOps
    <3>. QED  BY <1>17, <3>1, <3>2, DropCustody
  <2>. QED  BY <2>3, <2>4
<1>18. ASSUME NEW op \in BleOps, LinkFails(op) PROVE CustodyInv'
  <2>1. Failing(op) /\ file' = file /\ UNCHANGED devHas
    BY <1>18 DEF LinkFails, Failing
  <2>. QED  BY <1>17, <2>1
<1>19. ASSUME NEW op \in EffectKinds, EffectFails(op) PROVE CustodyInv'
  <2>1. Failing(op) /\ (file' = file \/ op = "Append") /\ UNCHANGED devHas
    BY <1>19 DEF EffectFails, Failing
  <2>. QED  BY <1>17, <2>1
<1>20. ASSUME NEW p \in PlainPackets, Receive(p), UNCHANGED <<devHas, file>>
       PROVE  CustodyInv'
  <2>1. CASE Listening
    <3>1. Running /\ Dispatch(Notification(wf, p), ops)
      BY <1>20, <2>1 DEF Receive, Listening
    <3>2. Fits(Notification(wf, p), ops)
      BY <1>20, <3>1, NotificationFits
    <3>. QED  BY <1>20, <3>1, <3>2, DispatchCustody
  <2>2. CASE ~ Listening
    BY <1>20, <2>2, DropCustody DEF Receive
  <2>. QED  BY <2>1, <2>2
<1>21. \A i \in 1..Len(Stream) : Stream[i] \in PlainPackets
  BY StreamType, LenProperties DEF PlainTransfer
<1>22. devPos \in 0..Len(Stream) /\ Len(Stream) \in Nat
  BY StreamType DEF TypeOK
<1>23. CASE DeviceSends
  <2>1. Receive(Stream[devPos]) /\ devPos \in 1..Len(Stream) /\ UNCHANGED <<devHas, file>>
    BY <1>22, <1>23 DEF DeviceSends
  <2>. QED  BY <1>20, <1>21, <2>1
<1>24. CASE DeviceStops \/ LosePacket \/ Reconnect
  BY <1>24, DropCustody DEF DeviceStops, LosePacket, Reconnect, host
<1>25. CASE DuplicatePacket
  <2>1. /\ Receive(Stream[devPos - 1]) /\ devPos - 1 \in 1..Len(Stream)
        /\ UNCHANGED <<devHas, file>>
    BY <1>22, <1>25 DEF DuplicatePacket
  <2>. QED  BY <1>20, <1>21, <2>1
<1>26. CASE StrayPacket
  <2>1. PICK p \in Strays : Receive(p)
    BY <1>26 DEF StrayPacket
  <2>. QED  BY <1>20, <1>26, <2>1 DEF StrayPacket, PlainTransfer
<1>27. ASSUME NEW s \in saves, SaveFails(s) PROVE CustodyInv'
  <2>1. UNCHANGED <<ops, devHas, file>> /\ saves' \subseteq saves
    BY <1>27 DEF SaveFails
  <2>2. CASE Running
    <3>1. wf' = Fail(wf, {}).wf /\ status' = "Failed"
      BY <1>27, <2>2 DEF SaveFails
    <3>2. wf'.phase = "Failed" /\ Plain(wf')
      <4>1. /\ Fail(wf, {}) \in Answers(PlainPackets)
            /\ Fail(wf, {}).wf.phase = "Failed" /\ Fail(wf, {}).wf.enc = wf.enc
        BY <1>1, FailType
      <4>. QED  BY <1>1, <3>1, <4>1 DEF Plain, Answers, QueueOf
    <3>3. "CONFIRM" \notin ops
      BY <1>2, <1>3, <1>27, HostAssumption DEF CustodyInv, VerifiedIsWhole, Verified
    <3>4. ~ devHas => ops \cap {"Load", "Truncate", "Append", "Finalize", "Discard"} = {}
      BY DEF CustodyInv, ReleasedIsFinal
    <3>. QED  BY <2>1, <3>1, <3>2, <3>3, <3>4, EndCustody
  <2>3. CASE ~ Running
    BY <1>27, <2>1, <2>3, DropCustody DEF SaveFails
  <2>. QED  BY <2>2, <2>3
<1>28. CASE Disconnect
  <2>. DEFINE rest == ops \ (BleOps \ CleanupOps)
  <2>1. /\ UNCHANGED <<devHas, file>>
        /\ \/ Running /\ Dispatch(Fail(wf, {}), rest)
           \/ Host = "js" /\ Cancelling(wf, ops)
           \/ ops' \subseteq ops /\ UNCHANGED <<status, wf, saves>>
    BY <1>28 DEF Disconnect
  <2>2. ASSUME Running, Dispatch(Fail(wf, {}), rest) PROVE CustodyInv'
    <3>1. /\ rest \subseteq ops /\ "CONFIRM" \notin rest
          /\ rest \subseteq OpsOf(wf.phase) \cup Aborts
      BY <2>2 DEF BleOps, CleanupOps, CustodyInv, OpsFollowPhase, Aborts
    <3>. HIDE DEF rest
    <3>2. Fits(Fail(wf, {}), rest)
      BY <3>1, FailFits
    <3>. QED  BY <2>1, <2>2, <3>1, <3>2, DispatchCustody
  <2>3. ASSUME Host = "js", Cancelling(wf, ops) PROVE CustodyInv'
    <3>1. status' = "Cancelled" /\ wf' = wf /\ ops' = ops \cup CancelEffects
      BY <2>3 DEF Cancelling
    <3>. QED  BY <1>2, <1>3, <2>1, <2>3, <3>1, EndCustody DEF CancelEffects
  <2>4. ASSUME ops' \subseteq ops, UNCHANGED <<status, wf, saves>> PROVE CustodyInv'
    BY <2>1, <2>4, DropCustody
  <2>. QED  BY <2>1, <2>2, <2>3, <2>4
<1>29. CASE Crash
  <2>1. Plain(NewWorkflow) /\ NewWorkflow.phase = "LoadingCheckpoint"
    BY DEF NewWorkflow, Plain
  <2>. QED  BY <1>29, <2>1, EndCustody DEF Crash
<1>30. CASE OtherWorkflow
  BY <1>30, DropCustody DEF OtherWorkflow, host
<1>31. CASE UNCHANGED vars
  BY <1>31, DropCustody DEF vars, host
<1>32. CASE HostStep
  BY <1>6, <1>7, <1>8, <1>9, <1>10, <1>11, <1>12, <1>13, <1>14, <1>15, <1>16, <1>18,
     <1>32 DEF HostStep
<1>33. CASE FaultStep
  BY <1>24, <1>25, <1>26, <1>19, <1>27, <1>28, <1>29, <1>30, <1>33 DEF FaultStep
<1>. QED  BY <1>4, <1>5, <1>23, <1>24, <1>31, <1>32, <1>33 DEF Next

\* The initial state satisfies CustodyInv.
LEMMA CustodyInit == Init => CustodyInv
<1>1. Plain(NewWorkflow) /\ NewWorkflow.phase = "LoadingCheckpoint"
  BY DEF NewWorkflow, Plain
<1>. QED  BY <1>1 DEF Init, CustodyInv, OpsFollowPhase, PhaseFollowsStatus, VerifiedIsWhole,
                      ConfirmIsRunning, ReleasedIsFinal, Running

\* CustodyInv holds in every state of a plain transfer.
THEOREM CustodyInvariant == ASSUME PlainTransfer PROVE Spec => []CustodyInv
<1>1. TypeOK /\ CustodyInv /\ [Next]_vars => CustodyInv'
  BY CustodyStep
<1>. QED  BY <1>1, CustodyInit, TypeInvariant, PTL DEF Spec

\* The device releases a plain recording only to a host that holds all of it,
\* whatever packets, effects, links and processes fail, on both hosts.
THEOREM CustodyHolds == ASSUME PlainTransfer PROVE Spec => []Custody
<1>1. CustodyInv => Custody
  BY DEF CustodyInv, ReleasedIsFinal, Custody
<1>. QED  BY <1>1, CustodyInvariant, PTL

\* Only CONFIRM, executed by the device, changes what the device has.
LEMMA OnlyConfirmReleases ==
  ASSUME TypeOK, [Next]_vars, devHas' # devHas
  PROVE  devHas /\ devHas' = FALSE /\ UNCHANGED file
<1>. USE DEF durable, device, bounds
<1>1. ASSUME NEW op, Failing(op) PROVE devHas' = devHas
  BY <1>1 DEF Failing
<1>2. ASSUME NEW op \in Writes, DeviceExecutes(op)
      PROVE  devHas /\ devHas' = FALSE /\ UNCHANGED file
  BY <1>2 DEF DeviceExecutes, TypeOK
<1>3. ASSUME HostStep PROVE devHas /\ devHas' = FALSE /\ UNCHANGED file
  <2>1. (LoadCheckpoint \/ DeleteCheckpoint \/ TruncateSink \/ AppendSink
         \/ FinalizeFile \/ DiscardSink \/ TimerFires \/ Subscribe)
        => devHas' = devHas
    BY DEF LoadCheckpoint, DeleteCheckpoint, TruncateSink, AppendSink, FinalizeFile,
           DiscardSink, TimerFires, Subscribe
  <2>2. \A s \in saves : SaveCheckpoint(s) => devHas' = devHas
    BY DEF SaveCheckpoint
  <2>3. \A op \in Writes : WriteCallback(op) => devHas' = devHas
    BY DEF WriteCallback
  <2>4. \A op \in BleOps : LinkFails(op) => devHas' = devHas
    BY <1>1 DEF LinkFails
  <2>. QED  BY <1>2, <1>3, <2>1, <2>2, <2>3, <2>4 DEF HostStep
<1>4. ASSUME FaultStep PROVE devHas' = devHas
  <2>1. (LosePacket \/ DuplicatePacket \/ StrayPacket \/ Disconnect \/ Crash
         \/ OtherWorkflow) => devHas' = devHas
    BY DEF LosePacket, DuplicatePacket, StrayPacket, Disconnect, Crash, OtherWorkflow
  <2>2. \A op \in EffectKinds : EffectFails(op) => devHas' = devHas
    BY <1>1 DEF EffectFails
  <2>3. \A s \in saves : SaveFails(s) => devHas' = devHas
    BY DEF SaveFails
  <2>. QED  BY <1>4, <2>1, <2>2, <2>3 DEF FaultStep
<1>5. (Start \/ Cancel \/ DeviceSends \/ DeviceStops \/ Reconnect \/ UNCHANGED vars)
      => devHas' = devHas
  BY DEF Start, Cancel, DeviceSends, DeviceStops, Reconnect, vars
<1>. QED  BY <1>3, <1>4, <1>5 DEF Next

\* A plain transfer implements RecordingCustody: it rewrites the copy of the host
\* while the device has the recording, releases the device's copy only when the
\* host holds all of it, and from then on leaves the host's copy alone.
THEOREM CustodyRefinement == ASSUME PlainTransfer PROVE Spec => KeepsCustody
<1>1. Init => Promise!Init
  <2>1. Full # <<>>
    <3>1. Full = [i \in 1..N |-> i - 1] /\ N \in Nat \ {0}
      BY ReducerAssumption DEF Full, PlainTransfer
    <3>2. Len([i \in 1..N |-> i - 1]) = N
      BY <3>1
    <3>. QED  BY <3>1, <3>2
  <2>. QED  BY <2>1 DEF Init, Promise!Init
<1>2. TypeOK /\ CustodyInv /\ CustodyInv' /\ [Next]_vars
      => [Promise!Next]_(Promise!custody)
  <2>. SUFFICES ASSUME TypeOK, CustodyInv, CustodyInv', [Next]_vars
                PROVE  Promise!Next \/ UNCHANGED <<devHas, file>>
    BY DEF Promise!custody
  <2>1. (~ devHas => file = Full) /\ (~ devHas' => file' = Full) /\ devHas \in BOOLEAN
    BY DEF CustodyInv, ReleasedIsFinal, TypeOK
  <2>2. CASE devHas' = devHas
    BY <2>1, <2>2 DEF Promise!Next, Promise!Rewrite
  <2>3. CASE devHas' # devHas
    <3>1. devHas /\ devHas' = FALSE /\ UNCHANGED file
      BY <2>3, OnlyConfirmReleases
    <3>. QED  BY <2>1, <3>1 DEF Promise!Next, Promise!Release
  <2>. QED  BY <2>2, <2>3
<1>. QED  BY <1>1, <1>2, TypeInvariant, CustodyInvariant, PTL
          DEF Spec, KeepsCustody, Promise!Spec

-----------------------------------------------------------------------------
(* The checkpoint of a recording, plain or relayed.  CountInv: the checkpoint, *)
(* the saves under way and the workflow are each at a point of the stream, and *)
(* the file of an apple host has the units that the workflow counts.           *)

\* The phases in which the file has been cut to the units of the workflow.
CutPhases == Filling \ {"LoadingCheckpoint", "TruncatingSink"}

CountInv ==
  /\ OpsFollowPhase
  /\ Point(journal.units, journal.last)
  /\ \A s \in saves : Point(s.units, s.last)
  /\ Running =>
       /\ wf.queue \in Seq(Streamed)
       /\ wf.phase \in Filling => Counted(wf)
       /\ Host = "apple" /\ wf.phase \in CutPhases => Len(file) = wf.completed

\* An answer that keeps CountInv when the host takes it over rest.
Suits(r, rest) ==
  /\ r \in Answers(Streamed) /\ Counts(r)
  /\ r.rejected \/ r.wf.phase \notin Ends => rest \subseteq OpsOf(r.wf.phase) \cup Aborts
  /\ ~ r.rejected /\ r.wf.phase \notin Ends => Requests(r) \subseteq OpsOf(r.wf.phase)
  /\ Host = "apple" /\ r.wf.phase \in CutPhases => Len(file') = r.wf.completed

\* The workflow of a running transfer, and its queue.
LEMMA StreamedQueue ==
  ASSUME TypeOK, CountInv, Running
  PROVE  wf \in QueueOf(Streamed) /\ wf \in Workflows
  BY DEF TypeOK, CountInv, QueueOf

\* Taking such an answer keeps CountInv.
LEMMA DispatchCounts ==
  ASSUME CountInv, Running, NEW rest, NEW r, Suits(r, rest), Dispatch(r, rest),
         UNCHANGED journal
  PROVE  CountInv'
<1>1. wf' = r.wf /\ r.wf.queue \in Seq(Streamed)
  BY DEF Dispatch, Accept, Refused, Cancelling, Suits, Answers, QueueOf
<1>2. /\ r.wf.phase \in Filling => Counted(r.wf)
      /\ ~ r.rejected /\ "Save" \in r.out => Point(r.wf.completed, r.wf.last)
      /\ Host = "apple" /\ r.wf.phase \in CutPhases => Len(file') = r.wf.completed
  BY DEF Suits, Counts
<1>3. CASE ~ r.rejected
  <2>1. /\ status' = StatusOf(r.wf) /\ ops' = rest \cup Requests(r)
        /\ saves' = saves \cup IF "Save" \in r.out THEN {CheckpointOf(r.wf)} ELSE {}
    BY <1>3 DEF Dispatch, Accept, Requests
  <2>2. \A s \in saves' : Point(s.units, s.last)
    BY <1>2, <1>3, <2>1 DEF CountInv, CheckpointOf
  <2>3. Running' => ops' \subseteq OpsOf(r.wf.phase) \cup Aborts
    BY <1>3, <2>1 DEF Suits, Running, StatusOf, Ends
  <2>. QED  BY <1>1, <1>2, <2>2, <2>3 DEF CountInv, OpsFollowPhase, Aborts
<1>4. CASE r.rejected
  <2>1. (ops' = rest \/ status' = "Cancelled") /\ UNCHANGED saves
    BY <1>4 DEF Dispatch, Refused, Cancelling
  <2>2. Running' => ops' \subseteq OpsOf(r.wf.phase) \cup Aborts
    BY <1>4, <2>1 DEF Suits, Running
  <2>. QED  BY <1>1, <1>2, <2>1, <2>2 DEF CountInv, OpsFollowPhase, Aborts
<1>. QED  BY <1>3, <1>4

\* A step that leaves a running workflow and its file alone, and the checkpoint at
\* a point, keeps CountInv.
LEMMA DropCounts ==
  ASSUME CountInv, ops' \subseteq ops, saves' \subseteq saves, UNCHANGED <<status, wf>>,
         Running => Len(file') = Len(file), Point(journal'.units, journal'.last)
  PROVE  CountInv'
  BY DEF CountInv, OpsFollowPhase, Running

\* So does a step after which no workflow runs.
LEMMA EndCounts ==
  ASSUME CountInv, status' # "Running", saves' \subseteq saves, UNCHANGED journal
  PROVE  CountInv'
  BY DEF CountInv, OpsFollowPhase, Running

\* Settling an effect keeps CountInv if the answer of a running workflow suits.
LEMMA SettleCounts ==
  ASSUME CountInv, NEW op \in ops, NEW r, Settle(op, r), UNCHANGED journal,
         Running => Suits(r, ops \ {op})
  PROVE  CountInv'
<1>1. CASE Running
  BY <1>1, DispatchCounts DEF Settle
<1>2. CASE ~ Running
  <2>1. ops' \subseteq ops /\ UNCHANGED <<status, wf, saves>>
    BY <1>2 DEF Settle
  <2>. QED  BY <1>2, <2>1, DropCounts DEF CountInv
<1>. QED  BY <1>1, <1>2

\* A handler that moves the workflow on, with nothing else outstanding, suits.
LEMMA MovedSuits ==
  ASSUME NEW rest, rest \subseteq Aborts,
         NEW w, NEW r, NEW phase, NEW out, Moved(Streamed, w, r, phase, out), Counts(r),
         phase \in Ends \/ out \ {"Save"} \subseteq OpsOf(phase),
         Host = "apple" /\ phase \in CutPhases => Len(file') = r.wf.completed
  PROVE  Suits(r, rest)
  BY DEF Suits, Moved, Requests

\* So does one that ends the workflow or leaves it past the last packet.
LEMMA LateSuits ==
  ASSUME NEW rest, NEW w, NEW r, NEW phase, NEW out, Moved(Streamed, w, r, phase, out),
         phase \notin Filling, "Save" \notin out,
         \/ phase \in Ends
         \/ rest \subseteq Aborts /\ out \subseteq OpsOf(phase)
         \/ rest \subseteq OpsOf(phase) \cup Aborts /\ out = {}
  PROVE  Suits(r, rest)
<1>1. Counts(r) /\ r.wf.phase \notin Filling
  BY MovedCounts
<1>. QED  BY <1>1 DEF Suits, Moved, Requests, CutPhases

\* Failing a workflow suits.
LEMMA FailSuits ==
  ASSUME TypeOK, CountInv, Running, NEW rest
  PROVE  Suits(Fail(wf, {}), rest)
<1>1. Moved(Streamed, wf, Fail(wf, {}), "Failed", {})
  BY StreamedQueue, FailType DEF Moved
<1>2. "Failed" \in Ends /\ "Failed" \notin Filling /\ "Save" \notin {}
  BY DEF Ends, Filling
<1>. QED  BY <1>1, <1>2, LateSuits

\* A refused event suits where the workflow stands.
LEMMA RejectSuits ==
  ASSUME TypeOK, CountInv, Running, UNCHANGED file
  PROVE  Suits(Reject(wf), ops)
<1>1. Reject(wf) \in Answers(Streamed)
  BY StreamedQueue, StepType
<1>. QED  BY <1>1 DEF Suits, Reject, Counts, CountInv, OpsFollowPhase, Aborts

\* The outcome of a packet or of an append suits, with nothing else outstanding.
LEMMA OutcomeSuits ==
  ASSUME NEW r \in Answers(Streamed), Outcome(r), Counts(r),
         NEW rest, rest \subseteq Aborts,
         Host = "apple" /\ r.wf.phase \in Filling => Len(file') = r.wf.completed
  PROVE  Suits(r, rest)
<1>1. r.rejected \/ r.wf.phase \in Ends \/ Requests(r) \subseteq OpsOf(r.wf.phase)
  BY OpsOfPhase DEF Outcome, Ends
<1>. QED  BY <1>1 DEF Suits, CutPhases

\* A notification of the device suits.
LEMMA NotificationSuits ==
  ASSUME TypeOK, CountInv, Running, UNCHANGED file, NEW p \in Streamed
  PROVE  Suits(Notification(wf, p), ops)
<1>. DEFINE r == Notification(wf, p)
<1>1. wf \in QueueOf(Streamed) /\ wf \in Workflows /\ (wf.phase \in Filling => Counted(wf))
  BY StreamedQueue DEF CountInv
<1>2. Counts(r) /\ (r.wf.phase \in Filling => r.wf.completed = wf.completed)
  BY <1>1, NotificationCounts
<1>3. \/ Moved(Streamed, wf, r, wf.phase, {})
      \/ r = Reject(wf)
      \/ /\ wf.phase \in {"Starting", "Appending", "Finalizing", "WaitingForSha"}
         /\ \E out \in SUBSET {"NACK", "Discard", "Delete"} :
              Moved(Streamed, wf, r, "Failed", out)
      \/ /\ wf.phase = "WaitingForSha"
         /\ Moved(Streamed, wf, r, "Acknowledging", {"ACK"})
      \/ /\ wf.phase = "Transferring" /\ r \in Answers(Streamed) /\ Outcome(r)
  BY <1>1, StreamedPackets, NotificationType
<1>4. /\ ops \subseteq OpsOf(wf.phase) \cup Aborts
      /\ Host = "apple" /\ wf.phase \in CutPhases => Len(file') = wf.completed
  BY DEF CountInv, OpsFollowPhase, Aborts
<1>. HIDE DEF r
<1>5. Suits(r, ops)
  <2>1. CASE Moved(Streamed, wf, r, wf.phase, {})
    BY <1>2, <1>4, <2>1 DEF Suits, Moved, Requests, CutPhases
  <2>2. CASE r = Reject(wf)
    BY <2>2, RejectSuits
  <2>3. ASSUME NEW out \in SUBSET {"NACK", "Discard", "Delete"},
               Moved(Streamed, wf, r, "Failed", out)
        PROVE  Suits(r, ops)
    <3>1. "Failed" \in Ends /\ "Failed" \notin Filling /\ "Save" \notin out
      BY DEF Ends, Filling
    <3>. QED  BY <2>3, <3>1, LateSuits
  <2>4. CASE wf.phase = "WaitingForSha" /\ Moved(Streamed, wf, r, "Acknowledging", {"ACK"})
    <3>1. /\ "Acknowledging" \notin Filling /\ {"ACK"} \subseteq OpsOf("Acknowledging")
          /\ ops \subseteq Aborts /\ "Save" \notin {"ACK"}
      BY <1>4, <2>4, OpsOfPhase DEF Filling
    <3>. QED  BY <2>4, <3>1, LateSuits
  <2>5. CASE wf.phase = "Transferring" /\ r \in Answers(Streamed) /\ Outcome(r)
    <3>1. ops \subseteq Aborts /\ wf.phase \in CutPhases
      BY <1>4, <2>5, OpsOfPhase DEF CutPhases, Filling
    <3>. QED  BY <1>2, <1>4, <2>5, <3>1, OutcomeSuits
  <2>. QED  BY <1>3, <2>1, <2>2, <2>3, <2>4, <2>5
<1>. QED  BY <1>5 DEF r

\* So does the grace timer.
LEMMA TimerSuits ==
  ASSUME TypeOK, CountInv, Running, UNCHANGED file
  PROVE  Suits(TimerFired(wf), ops)
<1>. DEFINE r == TimerFired(wf)
<1>1. wf \in QueueOf(Streamed) /\ ops \subseteq OpsOf(wf.phase) \cup Aborts
  BY StreamedQueue DEF CountInv, OpsFollowPhase, Aborts
<1>2. \/ wf.phase = "WaitingForSha" /\ Moved(Streamed, wf, r, "Acknowledging", {"ACK"})
      \/ Moved(Streamed, wf, r, wf.phase, {})
      \/ r = Reject(wf)
  BY <1>1, TimerFiredType
<1>3. wf.phase \in {"WaitingForSha", "Finalizing"} \/ r = Reject(wf)
  BY DEF TimerFired
<1>4. {"WaitingForSha", "Finalizing", "Acknowledging"} \cap Filling = {}
  BY DEF Filling
<1>. HIDE DEF r
<1>5. CASE r = Reject(wf)
  BY <1>5, RejectSuits DEF r
<1>6. CASE wf.phase = "WaitingForSha" /\ Moved(Streamed, wf, r, "Acknowledging", {"ACK"})
  <2>1. ops \subseteq Aborts /\ {"ACK"} \subseteq OpsOf("Acknowledging") /\ "Save" \notin {"ACK"}
    BY <1>1, <1>6, OpsOfPhase
  <2>. QED  BY <1>4, <1>6, <2>1, LateSuits DEF r
<1>7. CASE wf.phase \in {"WaitingForSha", "Finalizing"} /\ Moved(Streamed, wf, r, wf.phase, {})
  <2>1. "Save" \notin {}
    OBVIOUS
  <2>. QED  BY <1>1, <1>4, <1>7, <2>1, LateSuits DEF r
<1>. QED  BY <1>2, <1>3, <1>5, <1>6, <1>7

\* A cut on apple leaves as many units as it is asked for.
LEMMA CutLength ==
  ASSUME file \in Seq(Int), TruncateExtends, NEW units \in Nat
  PROVE  Len(Cut(units)) = units
<1>1. CASE units <= Len(file)
  <2>1. units \in 0..Len(file)
    BY <1>1
  <2>2. Len(SubSeq(file, 1, units)) = units
    BY <2>1, SubSeqProperties
  <2>. QED  BY <1>1, <2>2 DEF Cut
<1>2. CASE ~ (units <= Len(file))
  <2>. DEFINE pad == [i \in 1..(units - Len(file)) |-> Hole]
  <2>1. units - Len(file) \in Nat
    BY <1>2
  <2>2. pad \in Seq(Int) /\ Len(pad) = units - Len(file)
    BY <2>1 DEF Hole
  <2>. HIDE DEF pad
  <2>3. Len(file \o pad) = units
    BY <2>2, ConcatProperties
  <2>. QED  BY <1>2, <2>3 DEF Cut, pad
<1>. QED  BY <1>1, <1>2

\* Every step keeps CountInv.
LEMMA CountStep ==
  ASSUME Strays \subseteq Streamed, TypeOK, CountInv, [Next]_vars
  PROVE  CountInv'
<1>. USE DEF durable, device, bounds
<1>1. Running => wf \in QueueOf(Streamed) /\ wf \in Workflows
  BY StreamedQueue
<1>2. /\ Point(journal.units, journal.last) /\ \A s \in saves : Point(s.units, s.last)
      /\ Point(NoCheckpoint.units, NoCheckpoint.last)
  BY ReducerAssumption DEF CountInv, Point, NoCheckpoint, None
<1>3. ASSUME Running, NEW op \in ops, op \notin Aborts
      PROVE  /\ OpsOf(wf.phase) = {op} /\ op \notin CleanupOps /\ ops \ {op} \subseteq Aborts
             /\ wf.phase \in Filling => Counted(wf)
             /\ Host = "apple" /\ wf.phase \in CutPhases => Len(file) = wf.completed
  BY <1>3, OneAtATime DEF CountInv
<1>4. CASE Start
  <2>1. /\ ops \subseteq Aborts /\ ops' = ops \cup {"Load"} /\ wf' = NewWorkflow
        /\ UNCHANGED <<saves, journal>>
    BY <1>4 DEF Start, OwnerFree, Aborts
  <2>2. Counted(NewWorkflow) /\ NewWorkflow.queue \in Seq(Streamed)
        /\ NewWorkflow.phase = "LoadingCheckpoint"
    BY ReducerAssumption DEF NewWorkflow, Counted, Headed, Point, None
  <2>. QED  BY <1>2, <2>1, <2>2, OpsOfPhase DEF CountInv, OpsFollowPhase, Aborts, CutPhases
<1>5. CASE Cancel
  BY <1>5, EndCounts DEF Cancel, Cancelling
<1>6. CASE LoadCheckpoint
  <2>1. "Load" \in ops /\ Settle("Load", CheckpointLoaded(wf, journal)) /\ UNCHANGED journal
    BY <1>6 DEF LoadCheckpoint, MayRun
  <2>2. ASSUME Running PROVE Suits(CheckpointLoaded(wf, journal), ops \ {"Load"})
    <3>1. /\ ops \ {"Load"} \subseteq Aborts /\ wf.phase = "LoadingCheckpoint"
          /\ wf.phase \in Filling => Counted(wf)
      BY <1>3, <2>1, <2>2, OpsOfPhase DEF Aborts
    <3>2. Moved(Streamed, wf, CheckpointLoaded(wf, journal), "TruncatingSink", {"Truncate"})
      BY <1>1, <2>2, CheckpointLoadedType DEF TypeOK, Checkpoints
    <3>3. Counts(CheckpointLoaded(wf, journal))
      BY <1>1, <1>2, <2>2, <3>1, BeforeTransferCounts DEF TypeOK, Checkpoints, Filling
    <3>4. OpsOf("TruncatingSink") = {"Truncate"} /\ "TruncatingSink" \notin CutPhases
      BY OpsOfPhase DEF CutPhases
    <3>. QED  BY <3>1, <3>2, <3>3, <3>4, MovedSuits
  <2>. QED  BY <2>1, <2>2, SettleCounts
<1>7. CASE DeleteCheckpoint
  BY <1>2, <1>7, DropCounts DEF DeleteCheckpoint
<1>8. CASE TruncateSink
  <2>1. /\ "Truncate" \in ops /\ Settle("Truncate", SinkTruncated(wf)) /\ UNCHANGED journal
        /\ file' = Cut(wf.completed)
    BY <1>8 DEF TruncateSink, MayRun
  <2>2. ASSUME Running PROVE Suits(SinkTruncated(wf), ops \ {"Truncate"})
    <3>1. /\ ops \ {"Truncate"} \subseteq Aborts /\ wf.phase = "TruncatingSink"
          /\ wf.phase \in Filling => Counted(wf)
      BY <1>3, <2>1, <2>2, OpsOfPhase DEF Aborts
    <3>2. Moved(Streamed, wf, SinkTruncated(wf), "Subscribing", {"Subscribe"})
      BY <1>1, <2>2, PhaseMoves
    <3>3. Counts(SinkTruncated(wf)) /\ SinkTruncated(wf).wf.completed = wf.completed
      BY <1>1, <2>2, <3>1, BeforeTransferCounts DEF Filling
    <3>4. Host = "apple" => Len(file') = wf.completed
      BY <1>1, <2>1, <2>2, CutLength, HostAssumption DEF TypeOK, Workflows
    <3>5. OpsOf("Subscribing") = {"Subscribe"}
      BY OpsOfPhase
    <3>. QED  BY <3>1, <3>2, <3>3, <3>4, <3>5, MovedSuits
  <2>. QED  BY <2>1, <2>2, SettleCounts
<1>9. CASE AppendSink
  <2>1. "Append" \in ops /\ UNCHANGED journal
    BY <1>9 DEF AppendSink, MayRun
  <2>2. CASE Settle("Append", Fail(wf, {}))
    BY <2>1, <2>2, FailSuits, SettleCounts
  <2>3. CASE /\ AtOffset /\ file' = file \o wf.pend
             /\ Settle("Append", AppendCompleted(wf, Len(file')))
    <3>. DEFINE r == AppendCompleted(wf, Len(file'))
    <3>1. ASSUME Running PROVE Suits(r, ops \ {"Append"})
      <4>1. /\ ops \ {"Append"} \subseteq Aborts /\ wf.phase = "Appending" /\ Counted(wf)
            /\ Len(file) = wf.completed
        <5>1. wf.phase = "Appending" /\ wf.phase \in CutPhases /\ wf.phase \in Filling
          BY <1>3, <2>1, <3>1, OpsOfPhase DEF Aborts, CutPhases, Filling
        <5>. QED  BY <1>3, <2>1, <2>3, <3>1, <5>1, HostAssumption DEF Aborts, AtOffset
      <4>2. Len(file') = wf.completed + Len(wf.pend) /\ Len(file') \in Nat
        <5>1. file \in Seq(Int) /\ wf.pend \in Seq(Int)
          BY DEF TypeOK, Workflows
        <5>2. Len(file \o wf.pend) = Len(file) + Len(wf.pend)
          BY <5>1, ConcatProperties
        <5>. QED  BY <2>3, <4>1, <5>1, <5>2
      <4>3. Counts(r) /\ (r.wf.phase \in Filling => r.wf.completed = Len(file'))
        BY <1>1, <3>1, <4>1, <4>2, AppendCompletedCounts
      <4>4. r \in Answers(Streamed) /\ Outcome(r)
        BY <1>1, <3>1, <4>2, StreamedPackets, AppendCompletedType
      <4>. HIDE DEF r
      <4>. QED  BY <4>1, <4>3, <4>4, OutcomeSuits
    <3>. QED  BY <2>1, <2>3, <3>1, SettleCounts
  <2>. QED  BY <1>9, <2>2, <2>3 DEF AppendSink
<1>10. CASE FinalizeFile
  <2>1. "Finalize" \in ops /\ UNCHANGED <<journal, file>>
    BY <1>10 DEF FinalizeFile, MayRun
  <2>2. Running => ops \ {"Finalize"} \subseteq Aborts
    BY <1>3, <2>1 DEF Aborts
  <2>3. CASE Settle("Finalize", FailIntegrity(wf))
    <3>1. ASSUME Running PROVE Suits(FailIntegrity(wf), ops \ {"Finalize"})
      <4>1. Moved(Streamed, wf, FailIntegrity(wf), "Failed", {"NACK", "Discard", "Delete"})
        BY <1>1, <3>1, FailIntegrityType DEF Moved
      <4>2. /\ "Failed" \in Ends /\ "Failed" \notin Filling
            /\ "Save" \notin {"NACK", "Discard", "Delete"}
        BY DEF Ends, Filling
      <4>. QED  BY <4>1, <4>2, LateSuits
    <3>. QED  BY <2>1, <2>3, <3>1, SettleCounts
  <2>4. CASE Settle("Finalize", Fail(wf, {}))
    BY <2>1, <2>4, FailSuits, SettleCounts
  <2>5. CASE Settle("Finalize", SinkFinalized(wf, Len(file)))
    <3>. DEFINE r == SinkFinalized(wf, Len(file))
    <3>1. ASSUME Running PROVE Suits(r, ops \ {"Finalize"})
      <4>1. \/ Moved(Streamed, wf, r, "Acknowledging", {"ACK"})
            \/ Moved(Streamed, wf, r, "WaitingForSha", {})
        BY <1>1, <3>1, SinkFinalizedType DEF TypeOK
      <4>2. /\ {"Acknowledging", "WaitingForSha"} \cap Filling = {}
            /\ "Save" \notin {"ACK"} /\ "Save" \notin {} /\ {} \subseteq OpsOf("WaitingForSha")
            /\ {"ACK"} \subseteq OpsOf("Acknowledging")
        BY OpsOfPhase DEF Filling
      <4>. HIDE DEF r
      <4>. QED  BY <2>2, <3>1, <4>1, <4>2, LateSuits
    <3>. QED  BY <2>1, <2>5, <3>1, SettleCounts
  <2>. QED  BY <1>10, <2>3, <2>4, <2>5 DEF FinalizeFile
<1>11. CASE DiscardSink
  <2>1. "Discard" \in ops /\ "Discard" \in CleanupOps /\ "Discard" \notin Aborts
    BY <1>11 DEF DiscardSink, MayRun, CleanupOps, Aborts
  <2>2. ~ Running
    BY <1>3, <2>1
  <2>. QED  BY <1>2, <1>11, <2>2, DropCounts DEF DiscardSink
<1>12. CASE TimerFires
  <2>1. Running /\ Dispatch(TimerFired(wf), ops) /\ UNCHANGED <<journal, file>>
    BY <1>12 DEF TimerFires
  <2>. QED  BY <2>1, TimerSuits, DispatchCounts
<1>13. CASE Subscribe
  <2>1. "Subscribe" \in ops /\ Settle("Subscribe", Subscribed(wf)) /\ UNCHANGED <<journal, file>>
    BY <1>13 DEF Subscribe, MayRun
  <2>2. ASSUME Running PROVE Suits(Subscribed(wf), ops \ {"Subscribe"})
    <3>1. wf.phase = "Subscribing"
      BY <1>3, <2>1, <2>2, OpsOfPhase DEF Aborts
    <3>2. /\ ops \ {"Subscribe"} \subseteq Aborts /\ Counted(wf)
          /\ Host = "apple" => Len(file') = wf.completed
      BY <1>3, <2>1, <2>2, <3>1 DEF Aborts, Filling, CutPhases
    <3>3. Moved(Streamed, wf, Subscribed(wf), "Starting", {"START"})
      BY <1>1, <2>2, PhaseMoves
    <3>4. Counts(Subscribed(wf)) /\ Subscribed(wf).wf.completed = wf.completed
      BY <1>1, <2>2, <3>1, <3>2, BeforeTransferCounts
    <3>5. OpsOf("Starting") = {"START"}
      BY OpsOfPhase
    <3>. QED  BY <3>2, <3>3, <3>4, <3>5, MovedSuits
  <2>. QED  BY <2>1, <2>2, SettleCounts
<1>14. ASSUME NEW s \in saves, SaveCheckpoint(s) PROVE CountInv'
  <2>1. journal' = [units |-> s.units, last |-> s.last] /\ Point(s.units, s.last)
    BY <1>2, <1>14 DEF SaveCheckpoint
  <2>. QED  BY <1>14, <2>1, DropCounts DEF SaveCheckpoint
<1>15. ASSUME NEW op \in Writes, DeviceExecutes(op) PROVE CountInv'
  BY <1>2, <1>15, DropCounts DEF DeviceExecutes
<1>16. ASSUME NEW op \in Writes, WriteCallback(op) PROVE CountInv'
  <2>1. op \in ops /\ UNCHANGED <<journal, file>>
    BY <1>16 DEF WriteCallback, TypeOK
  <2>2. CASE op \notin {"START", "ACK", "CONFIRM"}
    BY <1>2, <1>16, <2>1, <2>2, DropCounts DEF WriteCallback
  <2>3. CASE op \in {"START", "ACK", "CONFIRM"}
    <3>1. Settle(op, WriteCompleted(op))
      BY <1>16, <2>3 DEF WriteCallback
    <3>2. ASSUME Running PROVE Suits(WriteCompleted(op), ops \ {op})
      <4>1. ops \ {op} \subseteq Aborts
        BY <1>3, <2>1, <2>3, <3>2 DEF Aborts
      <4>2. CASE op = "START"
        <5>. DEFINE r == StartWritten(wf)
        <5>1. wf.phase = "Starting"
          BY <1>3, <2>1, <3>2, <4>2, OpsOfPhase DEF Aborts
        <5>2. /\ wf.phase \in Filling /\ wf.phase \in CutPhases
          BY <5>1 DEF Filling, CutPhases
        <5>3. Counted(wf) /\ (Host = "apple" => Len(file') = wf.completed)
          BY <2>1, <3>2, <5>2 DEF CountInv
        <5>4. Counts(r) /\ r.wf.completed = wf.completed
          BY <1>1, <3>2, <5>1, <5>3, StartWrittenCounts
        <5>5. r \in Answers(Streamed) /\ Outcome(r)
          BY <1>1, <3>2, StreamedPackets, StartWrittenType
        <5>. HIDE DEF r
        <5>6. Suits(r, ops \ {op})
          BY <4>1, <5>3, <5>4, <5>5, OutcomeSuits
        <5>7. WriteCompleted(op) = r
          BY <4>2 DEF WriteCompleted, r
        <5>. QED  BY <5>6, <5>7
      <4>3. CASE op \in {"ACK", "CONFIRM"}
        <5>. DEFINE r == WriteCompleted(op)
        <5>1. \/ Moved(Streamed, wf, r, "Confirming", {"CONFIRM"})
              \/ Moved(Streamed, wf, r, "Completed", {"Delete"})
          BY <1>1, <3>2, <4>3, AckWrittenType, CompleteType DEF WriteCompleted, ConfirmWritten
        <5>2. /\ {"Confirming", "Completed"} \cap Filling = {} /\ "Completed" \in Ends
              /\ "Save" \notin {"CONFIRM"} /\ "Save" \notin {"Delete"}
              /\ {"CONFIRM"} \subseteq OpsOf("Confirming")
          BY OpsOfPhase DEF Filling, Ends
        <5>. HIDE DEF r
        <5>3. Suits(r, ops \ {op})
          BY <4>1, <5>1, <5>2, LateSuits
        <5>. QED  BY <5>3 DEF r
      <4>. QED  BY <2>3, <4>2, <4>3
    <3>. QED  BY <2>1, <3>1, <3>2, SettleCounts
  <2>. QED  BY <2>2, <2>3
<1>17. ASSUME NEW op, Failing(op), file' = file \/ op = "Append" PROVE CountInv'
  <2>1. op \in ops /\ UNCHANGED journal
    BY <1>17 DEF Failing, MayRun
  <2>2. CASE Running /\ op \notin CleanupOps
    <3>1. Dispatch(Fail(wf, {}), ops \ {op})
      BY <1>17, <2>2 DEF Failing
    <3>. QED  BY <2>1, <2>2, <3>1, FailSuits, DispatchCounts
  <2>3. CASE ~ (Running /\ op \notin CleanupOps)
    <3>1. ops' = ops \ {op} /\ UNCHANGED <<status, wf, saves>>
      BY <1>17, <2>3 DEF Failing
    <3>2. Running => file' = file
      BY <1>17, <2>3 DEF CleanupOps
    <3>. QED  BY <1>2, <2>1, <3>1, <3>2, DropCounts
  <2>. QED  BY <2>2, <2>3
<1>18. ASSUME NEW op \in BleOps, LinkFails(op) PROVE CountInv'
  BY <1>17, <1>18 DEF LinkFails
<1>19. ASSUME NEW op \in EffectKinds, EffectFails(op) PROVE CountInv'
  BY <1>17, <1>19 DEF EffectFails
<1>20. ASSUME NEW p \in Streamed, Receive(p), UNCHANGED <<journal, file>> PROVE CountInv'
  <2>1. CASE Listening
    <3>1. Running /\ Dispatch(Notification(wf, p), ops)
      BY <1>20, <2>1 DEF Receive, Listening
    <3>. QED  BY <1>20, <3>1, NotificationSuits, DispatchCounts
  <2>2. CASE ~ Listening
    BY <1>2, <1>20, <2>2, DropCounts DEF Receive
  <2>. QED  BY <2>1, <2>2
<1>21. \A i \in 1..Len(Stream) : Stream[i] \in Streamed
  BY StreamType, LenProperties
<1>22. devPos \in 0..Len(Stream) /\ Len(Stream) \in Nat
  BY StreamType DEF TypeOK
<1>23. CASE DeviceSends
  <2>1. Receive(Stream[devPos]) /\ devPos \in 1..Len(Stream) /\ UNCHANGED <<journal, file>>
    BY <1>22, <1>23 DEF DeviceSends
  <2>. QED  BY <1>20, <1>21, <2>1
<1>24. CASE DeviceStops \/ LosePacket \/ Reconnect
  BY <1>2, <1>24, DropCounts DEF DeviceStops, LosePacket, Reconnect, host
<1>25. CASE DuplicatePacket
  <2>1. /\ Receive(Stream[devPos - 1]) /\ devPos - 1 \in 1..Len(Stream)
        /\ UNCHANGED <<journal, file>>
    BY <1>22, <1>25 DEF DuplicatePacket
  <2>. QED  BY <1>20, <1>21, <2>1
<1>26. CASE StrayPacket
  <2>1. PICK p \in Strays : Receive(p)
    BY <1>26 DEF StrayPacket
  <2>. QED  BY <1>20, <1>26, <2>1 DEF StrayPacket
<1>27. ASSUME NEW s \in saves, SaveFails(s) PROVE CountInv'
  <2>1. UNCHANGED <<ops, journal, file>> /\ saves' \subseteq saves
    BY <1>27 DEF SaveFails
  <2>2. CASE Running
    BY <1>27, <2>1, <2>2, EndCounts DEF SaveFails
  <2>3. CASE ~ Running
    BY <1>2, <1>27, <2>1, <2>3, DropCounts DEF SaveFails
  <2>. QED  BY <2>2, <2>3
<1>28. CASE Disconnect
  <2>. DEFINE rest == ops \ (BleOps \ CleanupOps)
  <2>1. /\ UNCHANGED <<journal, file>>
        /\ \/ Running /\ Dispatch(Fail(wf, {}), rest)
           \/ Cancelling(wf, ops)
           \/ ops' \subseteq ops /\ UNCHANGED <<status, wf, saves>>
    BY <1>28 DEF Disconnect
  <2>2. CASE Running /\ Dispatch(Fail(wf, {}), rest)
    <3>. HIDE DEF rest
    <3>. QED  BY <2>1, <2>2, FailSuits, DispatchCounts
  <2>3. CASE Cancelling(wf, ops)
    BY <2>1, <2>3, EndCounts DEF Cancelling
  <2>4. CASE ops' \subseteq ops /\ UNCHANGED <<status, wf, saves>>
    BY <1>2, <2>1, <2>4, DropCounts
  <2>. QED  BY <2>1, <2>2, <2>3, <2>4
<1>29. CASE Crash
  BY <1>29, EndCounts DEF Crash
<1>30. CASE OtherWorkflow
  BY <1>2, <1>30, DropCounts DEF OtherWorkflow, host
<1>31. CASE UNCHANGED vars
  BY <1>2, <1>31, DropCounts DEF vars, host
<1>32. CASE HostStep
  BY <1>6, <1>7, <1>8, <1>9, <1>10, <1>11, <1>12, <1>13, <1>14, <1>15, <1>16, <1>18,
     <1>32 DEF HostStep
<1>33. CASE FaultStep
  BY <1>24, <1>25, <1>26, <1>19, <1>27, <1>28, <1>29, <1>30, <1>33 DEF FaultStep
<1>. QED  BY <1>4, <1>5, <1>23, <1>24, <1>31, <1>32, <1>33 DEF Next

\* CountInv holds in every state: of the device only the kind of its packets is
\* assumed, neither their order nor their number.
THEOREM CountInvariant == ASSUME Strays \subseteq Streamed PROVE Spec => []CountInv
<1>1. Init => CountInv
  BY ReducerAssumption DEF Init, CountInv, OpsFollowPhase, Running, Point, NoCheckpoint, None
<1>2. TypeOK /\ CountInv /\ [Next]_vars => CountInv'
  BY CountStep
<1>. QED  BY <1>1, <1>2, TypeInvariant, PTL DEF Spec

\* The units and the sequence of the checkpoint are one point of the stream, on
\* both hosts, for every number of packets, modulus, queue and batch, whatever
\* packets are lost, repeated or out of order and whatever fails between an append
\* and its save.
THEOREM CheckpointExactHolds ==
  ASSUME Strays \subseteq Streamed PROVE Spec => []CheckpointExact
<1>1. CountInv => CheckpointExact
  BY DEF CountInv, Point, CheckpointExact
<1>. QED  BY <1>1, CountInvariant, PTL

-----------------------------------------------------------------------------
(* What a completed plain transfer leaves. *)

\* The effects that read or write the file, the checkpoint's load included.
FileOps == SinkOps \cup {"Load", "Discard"}

\* A completed transfer has the whole file, and no effect is outstanding that
\* would touch it.
DeliveredInv == status = "Completed" => file = Full /\ ops \cap FileOps = {}

\* An answer that does not complete the workflow leaves nothing to show.
LEMMA DispatchUnfinished ==
  ASSUME Running, NEW rest, NEW r, Dispatch(r, rest), r.wf.phase # "Completed"
  PROVE  DeliveredInv'
  BY DEF Dispatch, Accept, Refused, Cancelling, StatusOf, Running, DeliveredInv

\* The effects of the file settle before a transfer completes.
LEMMA SettleDelivered ==
  ASSUME DeliveredInv, NEW op \in ops, NEW r, Settle(op, r),
         Running => r.wf.phase # "Completed", file' = file \/ op \in FileOps
  PROVE  DeliveredInv'
<1>1. CASE Running
  BY <1>1, DispatchUnfinished DEF Settle
<1>2. CASE ~ Running
  BY <1>2 DEF Settle, DeliveredInv
<1>. QED  BY <1>1, <1>2

\* A step that takes no answer.
LEMMA DropDelivered ==
  ASSUME DeliveredInv, status' \in {status, "Idle", "Running", "Failed", "Cancelled"},
         status' = "Completed" => ops' \subseteq ops /\ file' = file
  PROVE  DeliveredInv'
  BY DEF DeliveredInv

\* The last write of a transfer completes it over a verified file.
LEMMA CompletionDelivers ==
  ASSUME Running, file' = Full, NEW rest, rest \subseteq Aborts,
         NEW r, ~ r.rejected, r.out \in {{"CONFIRM"}, {"Delete"}}, Dispatch(r, rest)
  PROVE  DeliveredInv'
<1>1. ops' = rest \cup (r.out \ {"Save"})
  BY DEF Dispatch, Accept
<1>2. (Aborts \cup {"CONFIRM", "Delete"}) \cap FileOps = {}
  BY DEF Aborts, FileOps, SinkOps
<1>. QED  BY <1>1, <1>2 DEF DeliveredInv

\* Every step keeps DeliveredInv.
LEMMA DeliveredStep ==
  ASSUME PlainTransfer, TypeOK, CustodyInv, DeliveredInv, [Next]_vars
  PROVE  DeliveredInv'
<1>. USE DEF durable, device, bounds
<1>1. wf \in QueueOf(PlainPackets) /\ wf \in Workflows /\ PlainPackets \subseteq Packets
  BY PlainQueue
<1>2. Running => wf.phase # "Completed"
  BY DEF CustodyInv, PhaseFollowsStatus
<1>3. Fail(wf, {}).wf.phase # "Completed" /\ FailIntegrity(wf).wf.phase # "Completed"
  <2>1. {} \in SUBSET EffectKinds
    OBVIOUS
  <2>. QED  BY <1>1, <2>1, FailType, FailIntegrityType
<1>4. CASE Start \/ Cancel \/ DeviceStops \/ Reconnect \/ LosePacket \/ Crash \/ OtherWorkflow
           \/ UNCHANGED vars
  BY <1>4, DropDelivered
     DEF Start, Cancel, Cancelling, DeviceStops, Reconnect, LosePacket, Crash, OtherWorkflow,
         vars, host
<1>5. CASE LoadCheckpoint
  <2>1. "Load" \in ops /\ Settle("Load", CheckpointLoaded(wf, journal)) /\ UNCHANGED file
    BY <1>5 DEF LoadCheckpoint, MayRun
  <2>2. CheckpointLoaded(wf, journal).wf.phase = "TruncatingSink"
    BY <1>1, CheckpointLoadedType DEF TypeOK, Checkpoints, Moved
  <2>. QED  BY <2>1, <2>2, SettleDelivered
<1>6. CASE TruncateSink
  <2>1. "Truncate" \in ops /\ Settle("Truncate", SinkTruncated(wf)) /\ "Truncate" \in FileOps
    BY <1>6 DEF TruncateSink, MayRun, FileOps, SinkOps
  <2>2. SinkTruncated(wf).wf.phase = "Subscribing"
    BY <1>1, PhaseMoves DEF Moved
  <2>. QED  BY <2>1, <2>2, SettleDelivered
<1>7. CASE AppendSink
  <2>1. "Append" \in ops /\ "Append" \in FileOps
    BY <1>7 DEF AppendSink, MayRun, FileOps, SinkOps
  <2>2. CASE Settle("Append", Fail(wf, {}))
    BY <1>3, <2>1, <2>2, SettleDelivered
  <2>3. CASE file' = file \o wf.pend /\ Settle("Append", AppendCompleted(wf, Len(file')))
    <3>. DEFINE r == AppendCompleted(wf, Len(file'))
    <3>1. Len(file') \in Nat
      <4>1. file \in Seq(Int) /\ wf.pend \in Seq(Int)
        BY DEF TypeOK, Workflows
      <4>. QED  BY <2>3, <4>1, ConcatProperties
    <3>2. r \in Answers(PlainPackets) /\ Outcome(r)
      BY <1>1, <3>1, AppendCompletedType
    <3>. HIDE DEF r
    <3>3. r.wf.phase # "Completed"
      BY <3>2 DEF Outcome
    <3>. QED  BY <2>1, <2>3, <3>3, SettleDelivered DEF r
  <2>. QED  BY <1>7, <2>2, <2>3 DEF AppendSink
<1>8. CASE FinalizeFile
  <2>1. "Finalize" \in ops /\ UNCHANGED file
    BY <1>8 DEF FinalizeFile, MayRun
  <2>2. SinkFinalized(wf, Len(file)).wf.phase \in {"Acknowledging", "WaitingForSha"}
    BY <1>1, SinkFinalizedType DEF TypeOK, Moved
  <2>3. PICK r \in {FailIntegrity(wf), Fail(wf, {}), SinkFinalized(wf, Len(file))} :
          Settle("Finalize", r)
    BY <1>8 DEF FinalizeFile
  <2>4. r.wf.phase # "Completed"
    BY <1>3, <2>2, <2>3
  <2>. QED  BY <2>1, <2>3, <2>4, SettleDelivered
<1>9. CASE DiscardSink
  <2>1. "Discard" \in ops /\ "Discard" \in FileOps
    BY <1>9 DEF DiscardSink, MayRun, FileOps
  <2>. QED  BY <1>9, <2>1 DEF DiscardSink, DeliveredInv
<1>10. CASE TimerFires
  <2>1. Running /\ Dispatch(TimerFired(wf), ops)
    BY <1>10 DEF TimerFires
  <2>2. TimerFired(wf).wf.phase \in {"Acknowledging", wf.phase}
    BY <1>1, TimerFiredType DEF Moved, Reject
  <2>. QED  BY <1>2, <2>1, <2>2, DispatchUnfinished
<1>11. CASE Subscribe
  <2>1. "Subscribe" \in ops /\ Settle("Subscribe", Subscribed(wf)) /\ UNCHANGED file
    BY <1>11 DEF Subscribe, MayRun
  <2>2. Subscribed(wf).wf.phase = "Starting"
    BY <1>1, PhaseMoves DEF Moved
  <2>. QED  BY <2>1, <2>2, SettleDelivered
<1>12. /\ DeleteCheckpoint => DeliveredInv'
       /\ \A s \in saves : SaveCheckpoint(s) => DeliveredInv'
       /\ \A op \in Writes : DeviceExecutes(op) => DeliveredInv'
  BY DropDelivered DEF DeleteCheckpoint, SaveCheckpoint, DeviceExecutes
<1>13. ASSUME NEW op \in Writes, WriteCallback(op) PROVE DeliveredInv'
  <2>1. op \in ops /\ UNCHANGED file
    BY <1>13 DEF WriteCallback, TypeOK
  <2>2. CASE op \notin {"START", "ACK", "CONFIRM"}
    BY <1>13, <2>1, <2>2, DropDelivered DEF WriteCallback
  <2>3. CASE op \in {"START", "ACK", "CONFIRM"}
    <3>1. Settle(op, WriteCompleted(op))
      BY <1>13, <2>3 DEF WriteCallback
    <3>2. CASE op = "START"
      <4>1. WriteCompleted(op) = StartWritten(wf) /\ Outcome(StartWritten(wf))
        BY <1>1, <3>2, StartWrittenType DEF WriteCompleted
      <4>2. StartWritten(wf).wf.phase # "Completed"
        BY <4>1 DEF Outcome
      <4>. QED  BY <2>1, <3>1, <4>1, <4>2, SettleDelivered
    <3>3. CASE op \in {"ACK", "CONFIRM"} /\ Running
      <4>. DEFINE r == WriteCompleted(op)
      <4>1. \/ Moved(PlainPackets, wf, r, "Confirming", {"CONFIRM"})
            \/ Moved(PlainPackets, wf, r, "Completed", {"Delete"})
        BY <1>1, <3>3, AckWrittenType, CompleteType DEF WriteCompleted, ConfirmWritten
      <4>2. /\ ops \ {op} \subseteq Aborts /\ wf.phase \in Verified
        BY <2>1, <3>3, WaitingFor DEF Aborts, Verified
      <4>3. file' = Full
        BY <2>1, <3>3, <4>2 DEF CustodyInv, VerifiedIsWhole
      <4>4. Dispatch(r, ops \ {op})
        BY <3>1, <3>3 DEF Settle
      <4>. HIDE DEF r
      <4>. QED  BY <3>3, <4>1, <4>2, <4>3, <4>4, CompletionDelivers DEF Moved
    <3>4. CASE ~ Running
      BY <2>1, <3>1, <3>4, SettleDelivered
    <3>. QED  BY <2>3, <3>2, <3>3, <3>4
  <2>. QED  BY <2>2, <2>3
<1>14. ASSUME NEW op, Failing(op), file' = file \/ op = "Append" PROVE DeliveredInv'
  <2>1. op \in ops
    BY <1>14 DEF Failing, MayRun
  <2>2. CASE Running /\ op \notin CleanupOps
    BY <1>3, <1>14, <2>2, DispatchUnfinished DEF Failing
  <2>3. CASE ~ (Running /\ op \notin CleanupOps)
    BY <1>14, <2>1, <2>3 DEF Failing, DeliveredInv, FileOps, SinkOps, CleanupOps
  <2>. QED  BY <2>2, <2>3
<1>15. ASSUME NEW op \in BleOps, LinkFails(op) PROVE DeliveredInv'
  BY <1>14, <1>15 DEF LinkFails
<1>16. ASSUME NEW op \in EffectKinds, EffectFails(op) PROVE DeliveredInv'
  BY <1>14, <1>16 DEF EffectFails
<1>17. ASSUME NEW p \in PlainPackets, Receive(p), UNCHANGED file PROVE DeliveredInv'
  <2>1. CASE Listening
    <3>. DEFINE r == Notification(wf, p)
    <3>1. Running /\ Dispatch(r, ops)
      BY <1>17, <2>1 DEF Receive, Listening
    <3>2. \/ r.wf.phase \in {wf.phase, "Failed", "Acknowledging"}
          \/ Outcome(r)
      BY <1>1, NotificationType DEF Moved, Reject
    <3>. HIDE DEF r
    <3>3. r.wf.phase # "Completed"
      BY <1>2, <3>1, <3>2 DEF Outcome
    <3>. QED  BY <3>1, <3>3, DispatchUnfinished
  <2>2. CASE ~ Listening
    BY <1>17, <2>2, DropDelivered DEF Receive
  <2>. QED  BY <2>1, <2>2
<1>18. \A i \in 1..Len(Stream) : Stream[i] \in PlainPackets
  BY StreamType, LenProperties DEF PlainTransfer
<1>19. devPos \in 0..Len(Stream) /\ Len(Stream) \in Nat
  BY StreamType DEF TypeOK
<1>20. CASE DeviceSends
  <2>1. Receive(Stream[devPos]) /\ devPos \in 1..Len(Stream) /\ UNCHANGED file
    BY <1>19, <1>20 DEF DeviceSends
  <2>. QED  BY <1>17, <1>18, <2>1
<1>21. CASE DuplicatePacket
  <2>1. Receive(Stream[devPos - 1]) /\ devPos - 1 \in 1..Len(Stream) /\ UNCHANGED file
    BY <1>19, <1>21 DEF DuplicatePacket
  <2>. QED  BY <1>17, <1>18, <2>1
<1>22. CASE StrayPacket
  <2>1. PICK p \in Strays : Receive(p)
    BY <1>22 DEF StrayPacket
  <2>. QED  BY <1>17, <1>22, <2>1 DEF StrayPacket, PlainTransfer
<1>23. ASSUME NEW s \in saves, SaveFails(s) PROVE DeliveredInv'
  BY <1>23, DropDelivered DEF SaveFails
<1>24. CASE Disconnect
  <2>. DEFINE rest == ops \ (BleOps \ CleanupOps)
  <2>1. \/ Running /\ Dispatch(Fail(wf, {}), rest)
        \/ Cancelling(wf, ops)
        \/ ops' \subseteq ops /\ UNCHANGED <<status, file>>
    BY <1>24 DEF Disconnect
  <2>2. CASE Running /\ Dispatch(Fail(wf, {}), rest)
    <3>. HIDE DEF rest
    <3>. QED  BY <1>3, <2>2, DispatchUnfinished
  <2>3. CASE Cancelling(wf, ops)
    BY <2>3, DropDelivered DEF Cancelling
  <2>4. CASE ops' \subseteq ops /\ UNCHANGED <<status, file>>
    BY <2>4, DropDelivered
  <2>. QED  BY <2>1, <2>2, <2>3, <2>4
<1>25. CASE HostStep
  BY <1>5, <1>6, <1>7, <1>8, <1>9, <1>10, <1>11, <1>12, <1>13, <1>15, <1>25 DEF HostStep
<1>26. CASE FaultStep
  BY <1>4, <1>16, <1>21, <1>22, <1>23, <1>24, <1>26 DEF FaultStep
<1>. QED  BY <1>4, <1>20, <1>25, <1>26 DEF Next

\* A plain transfer that is reported as completed leaves the whole recording in
\* the file, and nothing outstanding that could still change it.
THEOREM DeliveredWholeHolds == ASSUME PlainTransfer PROVE Spec => []DeliveredWhole
<1>1. Init => DeliveredInv
  BY DEF Init, DeliveredInv
<1>2. TypeOK /\ CustodyInv /\ DeliveredInv /\ [Next]_vars => DeliveredInv'
  BY DeliveredStep
<1>3. DeliveredInv => DeliveredWhole
  BY DEF DeliveredInv, DeliveredWhole
<1>. QED  BY <1>1, <1>2, <1>3, TypeInvariant, CustodyInvariant, PTL DEF Spec
=============================================================================
