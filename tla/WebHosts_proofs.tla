---------------------------- MODULE WebHosts_proofs ----------------------------
(***************************************************************************)
(* Proofs about the browser's side: the workflow runtime and the manager   *)
(* of recordings that runs on it.                                          *)
(*                                                                         *)
(* WebRuntime, for every number of operations and of events: an owner is   *)
(* released clean, a confirmed recording is never reported as cancelled,   *)
(* and the outcome of an operation is what its engine says.                *)
(*                                                                         *)
(* WebRecordings, for every set of operations, every length of the         *)
(* recording, every number of faults and of cancellations: what a journal  *)
(* claims is there, and the device deletes the recording only when the     *)
(* service has all of it.  These theorems assume ~StaleCancel: the         *)
(* application does not start an operation anew while its cancellation of  *)
(* the same operation still deletes.                                       *)
(***************************************************************************)
EXTENDS WebRuntime, WebRecordings, SequenceTheorems, TLAPS

-----------------------------------------------------------------------------
(* Types *)

Kinds     == {"none", "direct", "workflow"}
Places    == {"idle", "run", "exec", "late", "unsubscribe", "finishing", "failing"}
Pendings  == Awaited \cup {"lateLink", "discard", "remove"}
Threads   == {"off", "waiting", "cleanup", "inline"}
Cleanups  == {"off", "hosts", "subs", "removing", "done"}
Confirms  == {"no", "attempted", "uncertain", "done"}
Gens      == {-1, 0, 1}

OwnerType ==
  [kind : Kinds, gen : {0, 1}, terminal : BOOLEAN, cancelling : BOOLEAN,
   completing : BOOLEAN, failure : BOOLEAN, completionFailure : BOOLEAN,
   evidence : Gens, queue : Seq(Effects), inline : Seq(Effects),
   at : [Executors -> Places], cur : [Executors -> Effects \cup {"none"}],
   pending : SUBSET Pendings, timer : Gens, sub : BOOLEAN,
   clean : Cleanups, cleanFailed : BOOLEAN,
   thread : Threads, byFailure : BOOLEAN, fin : {"off", "failure", "cancelled"},
   success : {"off", "handoff", "settling", "done"},
   confirm : Confirms, aborted : BOOLEAN]

CoreStatuses == {"idle", "running", "completed", "failed", "cancelled"}

RuntimeTypeOK ==
  /\ owner \in {0} \cup Operations /\ next \in 0..MaxOps
  /\ op \in OwnerType
  /\ DOMAIN result = Operations
  /\ core.status \in CoreStatuses
  /\ ble \in [link : BOOLEAN, connected : BOOLEAN, poisoned : BOOLEAN]
  /\ destroyed \in BOOLEAN

-----------------------------------------------------------------------------
(* The invariant.  s is the status of the engine, on whether the device is     *)
(* connected.                                                                  *)

Has(q, e)   == \E i \in 1..Len(q) : q[i] = e
Asks(o, e)  == Has(o.queue, e) \/ Has(o.inline, e)
Runs(o, k)  == \E e \in Executors : o.at[e] = "exec" /\ o.cur[e] = k
Busy(o)     == \E e \in Executors : o.at[e] = "exec"

\* How far an ending has come.
Paths(o) ==
  /\ ~ o.cancelling => o.gen = 0 /\ o.thread \in {"off", "waiting"} /\ o.inline = <<>>
  /\ o.cancelling => o.gen = 1 /\ o.thread # "off"
  /\ ~ o.cancelling => o.timer # 1 /\ o.at["inline"] = "idle"
  /\ o.fin # "off" => o.terminal
  /\ o.success = "settling" => o.terminal
  /\ o.clean # "off" => o.cancelling \/ o.terminal
  /\ o.clean = "done" => ~ o.sub

\* A cancelled generation subscribes to nothing, and asks the engine for nothing
\* before it cancels it, unless the link was lost.
Quiet(o, s, on) ==
  o.cancelling /\ ~ o.terminal =>
    /\ ~ Runs(o, "subscribe")
    /\ on => ~ Asks(o, "subscribe")
    /\ on /\ s = "running" =>
         o.queue = <<>> /\ o.inline = <<>> /\ ~ Busy(o) /\ o.timer # 1

\* Who waits for a confirmation, and what it has reached.
OwnerClaims(o) ==
  /\ o.cancelling => o.confirm \in {"no", "done"}
  /\ o.confirm = "attempted" /\ ~ o.terminal => "confirm" \in o.pending
  /\ "confirm" \in o.pending /\ ~ o.terminal /\ ~ o.cancelling =>
       o.at["pump"] = "exec" /\ o.cur["pump"] = "confirm"

Confirmation(o, s) ==
  OwnerClaims(o) /\ (o.confirm = "done" /\ ~ o.terminal => s \in {"completed", "failed"})

\* What the owner says of the engine.
Evidence(o, s) ==
  /\ s # "idle"
  /\ Asks(o, "cancelled") => s = "cancelled"
  /\ s = "cancelled" /\ ~ o.terminal => o.cancelling /\ o.confirm = "no"
  /\ o.fin = "cancelled" => s = "cancelled" /\ o.cancelling /\ o.confirm = "no"
  /\ Asks(o, "completed") \/ o.evidence # -1 \/ o.success # "off" => s = "completed"

Sound(o, s, on) ==
  /\ o \in OwnerType /\ o.kind = "workflow" /\ s \in CoreStatuses
  /\ Paths(o) /\ Quiet(o, s, on) /\ Confirmation(o, s) /\ Evidence(o, s)

\* The link is the one connectedDevice names, or is being taken down.
Linked ==
  /\ owner # 0 /\ op.kind = "direct" =>
       ~ op.sub /\ (ble.link => ble.connected \/ "disconnect" \in op.pending)
  /\ Workflow => (ble.link => ble.connected \/ "lateLink" \in op.pending)

\* Of the engine itself.
CoreOK == core \in [status : CoreStatuses, left : Nat]

RuntimeInv ==
  /\ RuntimeTypeOK
  /\ owner # 0 => op.kind \in {"direct", "workflow"}
  /\ ReleasedClean /\ Linked
  /\ Workflow => Sound(op, core.status, ble.connected)


-----------------------------------------------------------------------------
(* Queues of effects, and the effects an executor runs *)

\* An effect of a tail, or of a concatenation, is one of the parts.
LEMMA QueueFacts ==
    ASSUME NEW q \in Seq(Effects), NEW r \in Seq(Effects), NEW e
    PROVE  /\ ~ Has(<<>>, e)
           /\ q # <<>> => /\ Tail(q) \in Seq(Effects) /\ Head(q) \in Effects
                          /\ Has(q, Head(q))
                          /\ Has(Tail(q), e) => Has(q, e)
           /\ q \o r \in Seq(Effects)
           /\ Has(q \o r, e) => Has(q, e) \/ Has(r, e)
  <1>1. ~ Has(<<>>, e)
    BY DEF Has
  <1>2. ASSUME q # <<>>
        PROVE  /\ Tail(q) \in Seq(Effects) /\ Head(q) \in Effects
               /\ Has(q, Head(q))
               /\ Has(Tail(q), e) => Has(q, e)
    <2>1. /\ Len(q) \in Nat \ {0} /\ Tail(q) \in Seq(Effects) /\ Head(q) \in Effects
          /\ Head(q) = q[1] /\ Len(Tail(q)) = Len(q) - 1
          /\ \A i \in 1..Len(Tail(q)) : Tail(q)[i] = q[i + 1]
      BY <1>2
    <2>2. Has(q, Head(q))
      BY <2>1 DEF Has
    <2>3. ASSUME Has(Tail(q), e) PROVE Has(q, e)
      <3>1. PICK i \in 1..Len(Tail(q)) : Tail(q)[i] = e
        BY <2>3 DEF Has
      <3>2. i + 1 \in 1..Len(q) /\ q[i + 1] = e
        BY <2>1, <3>1
      <3> QED  BY <3>2 DEF Has
    <2> QED  BY <2>1, <2>2, <2>3
  <1>3. q \o r \in Seq(Effects)
    BY ConcatProperties
  <1>4. ASSUME Has(q \o r, e) PROVE Has(q, e) \/ Has(r, e)
    <2>1. /\ Len(q) \in Nat /\ Len(r) \in Nat /\ Len(q \o r) = Len(q) + Len(r)
          /\ \A i \in 1..(Len(q) + Len(r)) :
                (q \o r)[i] = IF i <= Len(q) THEN q[i] ELSE r[i - Len(q)]
      BY ConcatProperties
    <2>2. PICK i \in 1..Len(q \o r) : (q \o r)[i] = e
      BY <1>4 DEF Has
    <2>3. CASE i <= Len(q)
      BY <2>1, <2>2, <2>3 DEF Has
    <2>4. CASE ~ (i <= Len(q))
      <3>1. i - Len(q) \in 1..Len(r) /\ r[i - Len(q)] = e
        BY <2>1, <2>2, <2>4
      <3> QED  BY <3>1 DEF Has
    <2> QED  BY <2>3, <2>4
  <1>5. Has(q \o r, e) => Has(q, e) \/ Has(r, e)
    BY <1>4
  <1> QED  BY <1>1, <1>2, <1>3, <1>5

\* An abort moves executors out of their awaits and changes nothing else.
LEMMA AbortFacts ==
    ASSUME NEW o \in OwnerType, NEW gens
    PROVE  /\ AbortAwaits(o, gens) \in OwnerType
           /\ AbortAwaits(o, gens) = [o EXCEPT !.at = AbortAwaits(o, gens).at]
           /\ \A e \in Executors :
                /\ o.at[e] # "exec" => AbortAwaits(o, gens).at[e] = o.at[e]
                /\ AbortAwaits(o, gens).at[e] = "exec" => o.at[e] = "exec" /\ o.gen \notin gens
  <1> DEFINE at == [e \in Executors |-> IF o.at[e] = "exec" /\ o.gen \in gens
                      THEN IF o.cur[e] = "connect" THEN "late" ELSE "run"
                      ELSE o.at[e]]
  <1>1. o.at \in [Executors -> Places]
    BY DEF OwnerType
  <1>2. at \in [Executors -> Places]
    BY <1>1 DEF Places
  <1>3. AbortAwaits(o, gens) = [o EXCEPT !.at = at]
    BY DEF AbortAwaits
  <1>4. \A e \in Executors :
           /\ o.at[e] # "exec" => at[e] = o.at[e]
           /\ at[e] = "exec" => o.at[e] = "exec" /\ o.gen \notin gens
    OBVIOUS
  <1> HIDE DEF at
  <1>5. [o EXCEPT !.at = at] \in OwnerType /\ [o EXCEPT !.at = at].at = at
    BY <1>2 DEF OwnerType
  <1> QED  BY <1>3, <1>4, <1>5

\* An executor may go to any place but an await, when it does not await a
\* confirmation and the inline one only under a cancellation.
LEMMA PlaceSound ==
    ASSUME NEW o, NEW s, NEW on, Sound(o, s, on), NEW e \in Executors, NEW w \in Places \ {"exec"},
           e = "inline" => o.cancelling \/ w = "idle",
           e = "pump" /\ "confirm" \in o.pending => o.cancelling \/ o.terminal
    PROVE  Sound([o EXCEPT !.at[e] = w], s, on) /\ [o EXCEPT !.at[e] = w].pending = o.pending
  <1> DEFINE at == [o.at EXCEPT ![e] = w]
             p  == [o EXCEPT !.at = at]
  <1>1. o \in OwnerType /\ o.at \in [Executors -> Places]
    BY DEF Sound, OwnerType
  <1>2. at \in [Executors -> Places] /\ at[e] = w /\ \A f \in Executors \ {e} : at[f] = o.at[f]
    BY <1>1
  <1>3. [o EXCEPT !.at[e] = w] = p
    BY <1>1 DEF OwnerType
  <1> HIDE DEF at
  <1>4. /\ p \in OwnerType
        /\ p.kind = o.kind /\ p.gen = o.gen /\ p.terminal = o.terminal
        /\ p.cancelling = o.cancelling /\ p.evidence = o.evidence /\ p.queue = o.queue
        /\ p.inline = o.inline /\ p.at = at /\ p.cur = o.cur
        /\ p.pending = o.pending /\ p.timer = o.timer /\ p.sub = o.sub /\ p.clean = o.clean
        /\ p.thread = o.thread /\ p.fin = o.fin /\ p.success = o.success
        /\ p.confirm = o.confirm
    BY <1>1, <1>2 DEF OwnerType
  <1> HIDE DEF p
  <1>5. Paths(p)
    BY <1>2, <1>4 DEF Sound, Paths, Executors
  <1>6. Quiet(p, s, on)
    BY <1>2, <1>4 DEF Sound, Quiet, Asks, Runs, Busy
  <1>7. Confirmation(p, s) /\ Evidence(p, s)
    BY <1>2, <1>4 DEF Sound, Confirmation, OwnerClaims, Evidence, Asks, Executors
  <1> QED  BY <1>3, <1>4, <1>5, <1>6, <1>7 DEF Sound

-----------------------------------------------------------------------------
(* The paths to an end keep an owner sound *)

\* A failure ends the owner, whatever its state.
LEMMA FinishFailureSound ==
    ASSUME NEW o, NEW s, NEW on, Sound(o, s, on)
    PROVE  Sound(FinishFailure(o), s, on) /\ FinishFailure(o).pending = o.pending
  <1>1. CASE o.terminal
    BY <1>1 DEF FinishFailure
  <1>2. CASE ~ o.terminal
    <2> DEFINE b == [o EXCEPT !.terminal = TRUE, !.queue = <<>>, !.fin = "failure"]
               p == AbortAwaits(b, {0, 1})
    <2>1. o \in OwnerType
      BY DEF Sound
    <2>2. b \in OwnerType
      <3>1. TRUE \in BOOLEAN /\ <<>> \in Seq(Effects)
        OBVIOUS
      <3> QED  BY <2>1, <3>1 DEF OwnerType
    <2>10. b = [o EXCEPT !.terminal = TRUE, !.queue = <<>>, !.fin = "failure"]
      OBVIOUS
    <2> HIDE DEF b
    <2>3. p \in OwnerType /\ p = [b EXCEPT !.at = p.at]
          /\ \A e \in Executors : b.at[e] # "exec" => p.at[e] = b.at[e]
      BY <2>2, AbortFacts
    <2> HIDE DEF p
    <2>4. p = [o EXCEPT !.terminal = TRUE, !.queue = <<>>, !.fin = "failure", !.at = p.at]
          /\ \A e \in Executors : o.at[e] # "exec" => p.at[e] = o.at[e]
      BY <2>1, <2>3, <2>10 DEF OwnerType
    <2>5. /\ p.kind = o.kind /\ p.gen = o.gen /\ p.terminal /\ p.cancelling = o.cancelling
          /\ p.evidence = o.evidence /\ p.queue = <<>> /\ p.inline = o.inline
          /\ p.pending = o.pending /\ p.timer = o.timer /\ p.sub = o.sub /\ p.clean = o.clean
          /\ p.thread = o.thread /\ p.fin = "failure" /\ p.success = o.success
          /\ p.confirm = o.confirm
      BY <2>1, <2>4 DEF OwnerType
    <2>6. Paths(p)
      BY <2>4, <2>5 DEF Sound, Paths, Executors
    <2>7. Quiet(p, s, on) /\ Confirmation(p, s)
      BY <2>5 DEF Sound, Quiet, Confirmation, OwnerClaims
    <2>8. Evidence(p, s)
      BY <2>5, QueueFacts DEF Sound, Evidence, Asks, Has
    <2>9. FinishFailure(o) = p
      BY <1>2 DEF FinishFailure, p, b
    <2> QED  BY <2>3, <2>5, <2>6, <2>7, <2>8, <2>9 DEF Sound
  <1> QED  BY <1>1, <1>2 DEF Sound, OwnerType

\* The owner ends as cancelled only once its engine was cancelled.
LEMMA FinishCancelledSound ==
    ASSUME NEW o, NEW s, NEW on, Sound(o, s, on), s = "cancelled" \/ o.terminal
    PROVE  Sound(FinishCancelled(o), s, on) /\ FinishCancelled(o).pending = o.pending
  <1>1. CASE o.terminal
    BY <1>1 DEF FinishCancelled
  <1>2. CASE ~ o.terminal
    <2> DEFINE b == [o EXCEPT !.terminal = TRUE, !.queue = <<>>, !.fin = "cancelled"]
               p == AbortAwaits(b, {1})
    <2>1. o \in OwnerType
      BY DEF Sound
    <2>2. b \in OwnerType
      <3>1. TRUE \in BOOLEAN /\ <<>> \in Seq(Effects)
        OBVIOUS
      <3> QED  BY <2>1, <3>1 DEF OwnerType
    <2>10. b = [o EXCEPT !.terminal = TRUE, !.queue = <<>>, !.fin = "cancelled"]
      OBVIOUS
    <2> HIDE DEF b
    <2>3. p \in OwnerType /\ p = [b EXCEPT !.at = p.at]
          /\ \A e \in Executors : b.at[e] # "exec" => p.at[e] = b.at[e]
      BY <2>2, AbortFacts
    <2> HIDE DEF p
    <2>4. p = [o EXCEPT !.terminal = TRUE, !.queue = <<>>, !.fin = "cancelled", !.at = p.at]
          /\ \A e \in Executors : o.at[e] # "exec" => p.at[e] = o.at[e]
      BY <2>1, <2>3, <2>10 DEF OwnerType
    <2>5. /\ p.kind = o.kind /\ p.gen = o.gen /\ p.terminal /\ p.cancelling = o.cancelling
          /\ p.evidence = o.evidence /\ p.queue = <<>> /\ p.inline = o.inline
          /\ p.pending = o.pending /\ p.timer = o.timer /\ p.sub = o.sub /\ p.clean = o.clean
          /\ p.thread = o.thread /\ p.fin = "cancelled" /\ p.success = o.success
          /\ p.confirm = o.confirm
      BY <2>1, <2>4 DEF OwnerType
    <2>6. Paths(p)
      BY <2>4, <2>5 DEF Sound, Paths, Executors
    <2>7. Quiet(p, s, on) /\ Confirmation(p, s)
      BY <2>5 DEF Sound, Quiet, Confirmation, OwnerClaims
    <2>8. Evidence(p, s)
      BY <1>2, <2>5, QueueFacts DEF Sound, Evidence, Asks, Has
    <2>9. FinishCancelled(o) = p
      BY <1>2 DEF FinishCancelled, p, b
    <2> QED  BY <2>3, <2>5, <2>6, <2>7, <2>8, <2>9 DEF Sound
  <1> QED  BY <1>1, <1>2 DEF Sound, OwnerType

\* A success is claimed only when the engine has completed.
LEMMA FinishSuccessSound ==
    ASSUME NEW o, NEW s, NEW on, NEW err \in BOOLEAN, Sound(o, s, on), s = "completed"
    PROVE  Sound(FinishSuccess(o, err), s, on) /\ FinishSuccess(o, err).pending = o.pending
  <1> DEFINE p == [o EXCEPT !.completionFailure = @ \/ err]
             r == [p EXCEPT !.completing = TRUE, !.success = "handoff"]
  <1>1. o \in OwnerType
    BY DEF Sound
  <1>2. /\ p \in OwnerType
        /\ p.kind = o.kind /\ p.gen = o.gen /\ p.terminal = o.terminal
        /\ p.cancelling = o.cancelling /\ p.evidence = o.evidence /\ p.queue = o.queue
        /\ p.inline = o.inline /\ p.at = o.at /\ p.cur = o.cur
        /\ p.pending = o.pending /\ p.timer = o.timer /\ p.sub = o.sub /\ p.clean = o.clean
        /\ p.thread = o.thread /\ p.fin = o.fin /\ p.success = o.success
        /\ p.confirm = o.confirm
    BY <1>1 DEF OwnerType
  <1> HIDE DEF p
  <1>3. Sound(p, s, on)
    BY <1>2 DEF Sound, Paths, Quiet, Confirmation, OwnerClaims, Evidence, Asks, Runs, Busy
  <1>4. /\ r \in OwnerType
        /\ r.kind = o.kind /\ r.gen = o.gen /\ r.terminal = o.terminal
        /\ r.cancelling = o.cancelling /\ r.evidence = o.evidence /\ r.queue = o.queue
        /\ r.inline = o.inline /\ r.at = o.at /\ r.cur = o.cur
        /\ r.pending = o.pending /\ r.timer = o.timer /\ r.sub = o.sub /\ r.clean = o.clean
        /\ r.thread = o.thread /\ r.fin = o.fin /\ r.success = "handoff"
        /\ r.confirm = o.confirm
    BY <1>2 DEF OwnerType
  <1> HIDE DEF r
  <1>5. Sound(r, s, on)
    BY <1>4 DEF Sound, Paths, Quiet, Confirmation, OwnerClaims, Evidence, Asks, Runs, Busy
  <1>6. FinishSuccess(o, err) \in {p, FinishFailure(p), r}
    BY DEF FinishSuccess, p, r
  <1> QED  BY <1>2, <1>3, <1>4, <1>5, <1>6, FinishFailureSound

\* A cancellation that begins leaves nothing of the operation under way, and it
\* does not begin over a confirmation that was sent.
LEMMA EnterCancellationSound ==
    ASSUME NEW o, NEW s, NEW on, Sound(o, s, on), ~ o.terminal
    PROVE  Sound(EnterCancellation(o), s, on) /\ EnterCancellation(o).pending = o.pending
  <1>1. CASE o.thread # "off"
    BY <1>1 DEF EnterCancellation
  <1>2. CASE o.thread = "off"
    <2> DEFINE c == [o EXCEPT !.byFailure = o.failure, !.thread = "waiting"]
               a == AbortAwaits(c, {0})
               p == [[a EXCEPT !.cancelling = TRUE, !.gen = c.gen + 1, !.queue = <<>>]
                        EXCEPT !.thread = "cleanup"]
    <2>1. o \in OwnerType /\ ~ o.cancelling /\ o.gen = 0 /\ o.inline = <<>>
          /\ o.at["inline"] = "idle" /\ o.timer # 1
      BY <1>2 DEF Sound, Paths
    <2>9. o.failure \in BOOLEAN /\ "waiting" \in Threads
      BY <2>1 DEF OwnerType, Threads
    <2>2. /\ c \in OwnerType
          /\ c.kind = o.kind /\ c.gen = o.gen /\ c.terminal = o.terminal
          /\ c.cancelling = o.cancelling /\ c.evidence = o.evidence /\ c.queue = o.queue
          /\ c.inline = o.inline /\ c.at = o.at /\ c.cur = o.cur
          /\ c.pending = o.pending /\ c.timer = o.timer /\ c.sub = o.sub /\ c.clean = o.clean
          /\ c.thread = "waiting" /\ c.fin = o.fin /\ c.success = o.success
          /\ c.confirm = o.confirm
      BY <2>1, <2>9 DEF OwnerType
    <2>3. EnterCancellation(o) \in {c, FinishFailure(c)}
          \/ (EnterCancellation(o) = p /\ o.confirm \notin {"attempted", "uncertain"})
      BY <1>2 DEF EnterCancellation, BeginCancellation
    <2> HIDE DEF c
    <2>4. Sound(c, s, on)
      BY <2>1, <2>2 DEF Sound, Paths, Quiet, Confirmation, OwnerClaims, Evidence, Asks, Runs, Busy
    <2>5. ASSUME o.confirm \notin {"attempted", "uncertain"} PROVE Sound(p, s, on) /\ p.pending = o.pending
      <3>1. a \in OwnerType /\ a = [c EXCEPT !.at = a.at]
            /\ \A e \in Executors : /\ c.at[e] # "exec" => a.at[e] = c.at[e]
                                    /\ a.at[e] # "exec"
        BY <2>1, <2>2, AbortFacts
      <3> HIDE DEF a
      <3>2. /\ a.kind = o.kind /\ a.gen = 0 /\ a.terminal = o.terminal
            /\ a.cancelling = o.cancelling /\ a.evidence = o.evidence /\ a.queue = o.queue
            /\ a.inline = <<>> /\ a.cur = o.cur
            /\ a.pending = o.pending /\ a.timer = o.timer /\ a.sub = o.sub /\ a.clean = o.clean
            /\ a.thread = "waiting" /\ a.fin = o.fin /\ a.success = o.success
            /\ a.confirm = o.confirm
        BY <2>1, <2>2, <3>1 DEF OwnerType
      <3>3. p = [a EXCEPT !.cancelling = TRUE, !.gen = 1, !.queue = <<>>, !.thread = "cleanup"]
        BY <2>1, <2>2
      <3>9. /\ TRUE \in BOOLEAN /\ 1 \in {0, 1} /\ <<>> \in Seq(Effects)
            /\ "cleanup" \in Threads
        BY DEF Threads
      <3> HIDE DEF p
      <3>4. /\ p \in OwnerType
            /\ p.kind = o.kind /\ p.gen = 1 /\ p.terminal = o.terminal
            /\ p.cancelling = TRUE /\ p.evidence = o.evidence /\ p.queue = <<>>
            /\ p.inline = <<>> /\ p.at = a.at /\ p.cur = o.cur
            /\ p.pending = o.pending /\ p.timer = o.timer /\ p.sub = o.sub /\ p.clean = o.clean
            /\ p.thread = "cleanup" /\ p.fin = o.fin /\ p.success = o.success
            /\ p.confirm = o.confirm
        BY ZenonT(60), <3>1, <3>2, <3>3, <3>9 DEF OwnerType
      <3>5. Paths(p)
        BY <2>1, <2>2, <3>1, <3>4 DEF Sound, Paths, Executors
      <3>6. Quiet(p, s, on)
        BY <2>1, <3>1, <3>4, QueueFacts DEF Sound, Quiet, Asks, Runs, Busy, Has
      <3>7. Confirmation(p, s)
        <4>1. o.confirm \in Confirms
          BY <2>1 DEF OwnerType
        <4> QED  BY <2>5, <3>4, <4>1 DEF Sound, Confirmation, OwnerClaims, Confirms
      <3>8. Evidence(p, s)
        BY <2>1, <3>4, QueueFacts DEF Sound, Evidence, Asks, Has
      <3> QED  BY <3>4, <3>5, <3>6, <3>7, <3>8 DEF Sound
    <2>6. Sound(FinishFailure(c), s, on) /\ FinishFailure(c).pending = o.pending
      BY <2>2, <2>4, FinishFailureSound
    <2> DEFINE G(x) == Sound(x, s, on) /\ x.pending = o.pending
    <2>7. G(c) /\ G(FinishFailure(c)) /\ (o.confirm \notin {"attempted", "uncertain"} => G(p))
      BY <2>2, <2>4, <2>5, <2>6
    <2> HIDE DEF p, G
    <2>8. G(EnterCancellation(o))
      BY <2>3, <2>7
    <2> QED  BY <2>8 DEF G
  <1> QED  BY <1>1, <1>2

\* What a failure does, by where the owner is.
LEMMA FailOwnerSound ==
    ASSUME NEW o, NEW s, NEW on, Sound(o, s, on)
    PROVE  Sound(FailOwner(o), s, on) /\ FailOwner(o).pending = o.pending
  <1> DEFINE f == [o EXCEPT !.failure = TRUE]
  <1>1. o \in OwnerType
    BY DEF Sound
  <1>2. /\ f \in OwnerType
        /\ f.kind = o.kind /\ f.gen = o.gen /\ f.terminal = o.terminal
        /\ f.cancelling = o.cancelling /\ f.evidence = o.evidence /\ f.queue = o.queue
        /\ f.inline = o.inline /\ f.at = o.at /\ f.cur = o.cur
        /\ f.pending = o.pending /\ f.timer = o.timer /\ f.sub = o.sub /\ f.clean = o.clean
        /\ f.thread = o.thread /\ f.fin = o.fin /\ f.success = o.success
        /\ f.confirm = o.confirm
    BY <1>1 DEF OwnerType
  <1>3. \/ FailOwner(o) = o
        \/ FailOwner(o) = FinishSuccess(o, TRUE) /\ HasCompletionEvidence(o)
        \/ FailOwner(o) = FinishFailure(f)
        \/ FailOwner(o) = EnterCancellation(f) /\ ~ o.terminal
    BY DEF FailOwner
  <1> HIDE DEF f
  <1>4. Sound(f, s, on)
    BY <1>2 DEF Sound, Paths, Quiet, Confirmation, OwnerClaims, Evidence, Asks, Runs, Busy
  <1>5. HasCompletionEvidence(o) => s = "completed"
    BY <1>1 DEF HasCompletionEvidence, Sound, Evidence, OwnerType
  <1>6. CASE FailOwner(o) = o
    BY <1>6
  <1>7. CASE FailOwner(o) = FinishSuccess(o, TRUE) /\ HasCompletionEvidence(o)
    BY <1>5, <1>7, FinishSuccessSound
  <1>8. CASE FailOwner(o) = FinishFailure(f)
    BY <1>2, <1>4, <1>8, FinishFailureSound
  <1>9. CASE FailOwner(o) = EnterCancellation(f) /\ ~ o.terminal
    BY <1>2, <1>4, <1>9, EnterCancellationSound
  <1> QED  BY <1>3, <1>6, <1>7, <1>8, <1>9

\* Effects the engine asked for are queued for the executor that is to run them.
LEMMA EnqueueSound ==
    ASSUME NEW o, NEW s, NEW on, Sound(o, s, on), NEW q \in Seq(Effects),
           ~ (o.cancelling /\ on /\ s = "running"),
           o.cancelling /\ on => ~ Has(q, "subscribe"),
           Has(q, "cancelled") => s = "cancelled", Has(q, "completed") => s = "completed"
    PROVE  Sound(EnqueueEffects(o, q), s, on) /\ EnqueueEffects(o, q).pending = o.pending
  <1>1. o \in OwnerType /\ o.queue \in Seq(Effects) /\ o.inline \in Seq(Effects)
        /\ o.at \in [Executors -> Places]
    BY DEF Sound, OwnerType
  <1>2. CASE o.terminal
    BY <1>2 DEF EnqueueEffects
  <1>3. CASE ~ o.terminal /\ o.thread = "inline"
    <2> DEFINE p == [o EXCEPT !.inline = @ \o q]
    <2>1. p = [o EXCEPT !.inline = o.inline \o q] /\ o.inline \o q \in Seq(Effects)
      BY <1>1, QueueFacts
    <2> HIDE DEF p
    <2>2. /\ p \in OwnerType
          /\ p.kind = o.kind /\ p.gen = o.gen /\ p.terminal = o.terminal
          /\ p.cancelling = o.cancelling /\ p.evidence = o.evidence /\ p.queue = o.queue
          /\ p.inline = o.inline \o q /\ p.at = o.at /\ p.cur = o.cur
          /\ p.pending = o.pending /\ p.timer = o.timer /\ p.sub = o.sub /\ p.clean = o.clean
          /\ p.thread = o.thread /\ p.fin = o.fin /\ p.success = o.success
          /\ p.confirm = o.confirm
      BY <1>1, <2>1 DEF OwnerType
    <2>3. \A e : Asks(p, e) => Asks(o, e) \/ Has(q, e)
      BY <1>1, <2>2, QueueFacts DEF Asks
    <2>4. Paths(p) /\ Quiet(p, s, on)
      BY <1>3, <2>2, <2>3 DEF Sound, Paths, Quiet, Runs, Busy
    <2>5. Confirmation(p, s) /\ Evidence(p, s)
      BY <2>2, <2>3 DEF Sound, Confirmation, OwnerClaims, Evidence
    <2>6. EnqueueEffects(o, q) = p
      BY <1>3 DEF EnqueueEffects, p
    <2> QED  BY <2>2, <2>4, <2>5, <2>6 DEF Sound
  <1>4. CASE ~ o.terminal /\ o.thread # "inline"
    <2> DEFINE p == [o EXCEPT !.queue = @ \o q]
               r == [p EXCEPT !.at["pump"] = "run"]
    <2>1. p = [o EXCEPT !.queue = o.queue \o q] /\ o.queue \o q \in Seq(Effects)
      BY <1>1, QueueFacts
    <2> HIDE DEF p
    <2>2. /\ p \in OwnerType
          /\ p.kind = o.kind /\ p.gen = o.gen /\ p.terminal = o.terminal
          /\ p.cancelling = o.cancelling /\ p.evidence = o.evidence /\ p.queue = o.queue \o q
          /\ p.inline = o.inline /\ p.at = o.at /\ p.cur = o.cur
          /\ p.pending = o.pending /\ p.timer = o.timer /\ p.sub = o.sub /\ p.clean = o.clean
          /\ p.thread = o.thread /\ p.fin = o.fin /\ p.success = o.success
          /\ p.confirm = o.confirm
      BY <1>1, <2>1 DEF OwnerType
    <2>3. \A e : Asks(p, e) => Asks(o, e) \/ Has(q, e)
      BY <1>1, <2>2, QueueFacts DEF Asks
    <2>4. Paths(p) /\ Quiet(p, s, on)
      BY <1>4, <2>2, <2>3 DEF Sound, Paths, Quiet, Runs, Busy
    <2>5. Confirmation(p, s) /\ Evidence(p, s)
      BY <2>2, <2>3 DEF Sound, Confirmation, OwnerClaims, Evidence
    <2>6. Sound(p, s, on)
      BY <2>2, <2>4, <2>5 DEF Sound
    <2>7. ASSUME p.at["pump"] = "idle" PROVE Sound(r, s, on) /\ r.pending = o.pending
      <3>1. "confirm" \in p.pending => p.cancelling \/ p.terminal
        BY <2>6, <2>7 DEF Sound, Confirmation, OwnerClaims
      <3>2. "run" \in Places \ {"exec"} /\ "pump" \in Executors
        BY DEF Places, Executors
      <3> QED  BY <2>6, <2>2, <3>1, <3>2, PlaceSound
    <2>8. EnqueueEffects(o, q) \in {p, r} /\ (EnqueueEffects(o, q) = r => p.at["pump"] = "idle" \/ p = r)
      BY <1>4 DEF EnqueueEffects, EnsurePump, p
    <2> QED  BY <2>2, <2>6, <2>7, <2>8
  <1> QED  BY <1>2, <1>3, <1>4

-----------------------------------------------------------------------------
(* What the engine answers, and what is done with it *)

\* A queue of one effect has that effect.
LEMMA OneEffect ==
    ASSUME NEW a, NEW e, Has(<<a>>, e)
    PROVE  e = a
  BY DEF Has

\* An engine that has ended asks for nothing; one that runs does not say it was
\* cancelled, and says it completed only by completing.
LEMMA MoveFacts ==
    ASSUME core.status \in CoreStatuses, NEW o, NEW m \in CoreMoves(o)
    PROVE  /\ m.effects \in Seq(Effects)
           /\ ~ Has(m.effects, "cancelled")
           /\ Has(m.effects, "completed") => m.status = "completed"
           /\ core.status # "running" => m.status = core.status /\ m.effects = <<>>
           /\ core.status = "running" =>
                /\ m.status \in {"running", "completed", "failed", "throws"}
                /\ o.confirm = "done" => m.status = "completed"
  <1> DEFINE Good(x) ==
        /\ x.effects \in Seq(Effects)
        /\ ~ Has(x.effects, "cancelled")
        /\ Has(x.effects, "completed") => x.status = "completed"
  <1>1. \A q \in {<<"unsubscribe", "completed">>, <<"completed">>, <<"host", "completed">>} :
           q \in Seq(Effects) /\ ~ Has(q, "cancelled")
    <2>1. /\ <<"unsubscribe", "completed">> \in Seq(Effects) /\ <<"completed">> \in Seq(Effects)
          /\ <<"host", "completed">> \in Seq(Effects)
      BY DEF Effects, Awaited
    <2>2. ~ Has(<<"unsubscribe", "completed">>, "cancelled")
      BY DEF Has
    <2>3. ~ Has(<<"completed">>, "cancelled")
      BY DEF Has
    <2>4. ~ Has(<<"host", "completed">>, "cancelled")
      BY DEF Has
    <2> QED  BY <2>1, <2>2, <2>3, <2>4
  <1>2. ASSUME NEW x \in CompletedMoves(o) PROVE Good(x) /\ x.status = "completed"
    <2>1. PICK q \in {<<"unsubscribe", "completed">>, <<"completed">>, <<"host", "completed">>} :
             x = [status |-> "completed", effects |-> q]
      BY DEF CompletedMoves
    <2> QED  BY <1>1, <2>1
  <1>3. ASSUME NEW x \in {[status |-> "failed", effects |-> q] : q \in {<<"failed">>, <<"host", "failed">>}}
        PROVE  Good(x) /\ x.status = "failed"
    <2>1. /\ <<"failed">> \in Seq(Effects) /\ <<"host", "failed">> \in Seq(Effects)
      BY DEF Effects, Awaited
    <2>2. ~ Has(<<"failed">>, "cancelled") /\ ~ Has(<<"failed">>, "completed")
      BY DEF Has
    <2>4. ~ Has(<<"host", "failed">>, "cancelled") /\ ~ Has(<<"host", "failed">>, "completed")
      BY DEF Has
    <2>3. PICK q \in {<<"failed">>, <<"host", "failed">>} : x = [status |-> "failed", effects |-> q]
      OBVIOUS
    <2> QED  BY <2>1, <2>2, <2>3, <2>4
  <1>4. ASSUME NEW t \in {"running", "throws", "idle", "completed", "failed", "cancelled"}
        PROVE  Good([status |-> t, effects |-> <<>>])
    <2>1. <<>> \in Seq(Effects)
      OBVIOUS
    <2> QED  BY <2>1, QueueFacts
  <1>5. ASSUME NEW k \in Menu
        PROVE  Good([status |-> "running", effects |-> <<k>>])
    <2>1. k \in Effects /\ k # "cancelled" /\ k # "completed"
      BY DEF Menu, Effects, Awaited
    <2>2. <<k>> \in Seq(Effects) /\ ~ Has(<<k>>, "cancelled") /\ ~ Has(<<k>>, "completed")
      BY <2>1, OneEffect
    <2> QED  BY <2>2
  <1>6. CASE core.status # "running"
    <2>1. m = [status |-> core.status, effects |-> <<>>]
      BY <1>6 DEF CoreMoves
    <2>2. Good(m)
      BY <1>4, <2>1 DEF CoreStatuses
    <2> QED  BY <1>6, <2>1, <2>2
  <1>7. CASE core.status = "running" /\ o.confirm = "done"
    BY <1>2, <1>7 DEF CoreMoves
  <1>8. CASE core.status = "running" /\ o.confirm # "done"
    <2>1. \/ m = [status |-> "running", effects |-> <<>>]
          \/ \E k \in Menu : m = [status |-> "running", effects |-> <<k>>]
          \/ m \in CompletedMoves(o)
          \/ m \in {[status |-> "failed", effects |-> q] : q \in {<<"failed">>, <<"host", "failed">>}}
          \/ m = [status |-> "throws", effects |-> <<>>]
      <3>1. m \in {[status |-> "running", effects |-> q] :
                     q \in IF core.left > 0 THEN {<<>>} \cup {<<e>> : e \in Menu} ELSE {<<>>}}
             \/ m \in CompletedMoves(o)
             \/ m \in {[status |-> "failed", effects |-> q] : q \in {<<"failed">>, <<"host", "failed">>}}
             \/ m = [status |-> "throws", effects |-> <<>>]
        BY <1>8 DEF CoreMoves
      <3> HIDE DEF Good
      <3> QED  BY <3>1
    <2>2. Good(m) /\ m.status \in {"running", "completed", "failed", "throws"}
      <3> HIDE DEF Good
      <3>1. CASE m = [status |-> "running", effects |-> <<>>]
        BY <1>4, <3>1
      <3>2. CASE \E k \in Menu : m = [status |-> "running", effects |-> <<k>>]
        BY <1>5, <3>2
      <3>3. CASE m \in CompletedMoves(o)
        BY <1>2, <3>3
      <3>4. CASE m \in {[status |-> "failed", effects |-> q] : q \in {<<"failed">>, <<"host", "failed">>}}
        BY <1>3, <3>4
      <3>5. CASE m = [status |-> "throws", effects |-> <<>>]
        BY <1>4, <3>5
      <3> QED  BY <2>1, <3>1, <3>2, <3>3, <3>4, <3>5
    <2> QED  BY <1>8, <2>2
  <1> QED  BY <1>6, <1>7, <1>8

\* What an owner needs to dispatch an event: it may have just learned that its
\* recording is confirmed, of which the engine is to hear.
Ready(o, on) ==
  /\ o \in OwnerType /\ o.kind = "workflow" /\ core.status \in CoreStatuses
  /\ Paths(o) /\ Quiet(o, core.status, on) /\ OwnerClaims(o) /\ Evidence(o, core.status)
  /\ ~ o.terminal => ~ (o.cancelling /\ on /\ core.status = "running")

\* Who dispatches: an executor that does not go on to await a confirmation.
Dispatches(o, e) ==
  /\ e = "inline" => o.cancelling
  /\ e = "pump" /\ "confirm" \in o.pending => o.cancelling \/ o.terminal

\* The status of the engine after its move.
After(m) == IF m.status = "throws" THEN core.status ELSE m.status

\* The engine's move, and what follows it in the same call.
LEMMA DispatchedSound ==
    ASSUME NEW o, NEW on, Ready(o, on), ~ o.terminal, NEW m \in CoreMoves(o),
           NEW e \in Executors \cup {"none"}, Dispatches(o, e)
    PROVE  /\ Sound(Dispatched(o, m, e), After(m), on)
           /\ Dispatched(o, m, e).pending = o.pending
           /\ After(m) \in CoreStatuses
  <1> DEFINE s == core.status
             v == IF m.status = "completed" /\ s = "running" THEN [o EXCEPT !.evidence = o.gen] ELSE o
             r == IF e = "none" THEN v ELSE [v EXCEPT !.at[e] = "run"]
             f == [r EXCEPT !.at[e] = "failing"]
  <1>1. /\ m.effects \in Seq(Effects)
        /\ ~ Has(m.effects, "cancelled")
        /\ Has(m.effects, "completed") => m.status = "completed"
        /\ s # "running" => m.status = s /\ m.effects = <<>>
        /\ s = "running" => /\ m.status \in {"running", "completed", "failed", "throws"}
                            /\ o.confirm = "done" => m.status = "completed"
    BY MoveFacts DEF Ready
  <1>2. o \in OwnerType /\ o.gen \in {0, 1} /\ s \in CoreStatuses
    BY DEF Ready, OwnerType
  <1>3. s # "idle" /\ After(m) \in CoreStatuses /\ After(m) # "idle"
        /\ (s # "running" => After(m) = s)
        /\ (s = "running" => After(m) \in {"running", "completed", "failed"})
    BY <1>1, <1>2 DEF Ready, Evidence, After, CoreStatuses
  <1>4. Sound(v, After(m), on) /\ v.pending = o.pending /\ v.cancelling = o.cancelling
        /\ v.terminal = o.terminal
    <2>1. /\ v \in OwnerType
          /\ v.kind = o.kind /\ v.gen = o.gen /\ v.terminal = o.terminal
          /\ v.cancelling = o.cancelling /\ v.queue = o.queue
          /\ v.inline = o.inline /\ v.at = o.at /\ v.cur = o.cur
          /\ v.pending = o.pending /\ v.timer = o.timer /\ v.sub = o.sub /\ v.clean = o.clean
          /\ v.thread = o.thread /\ v.fin = o.fin /\ v.success = o.success
          /\ v.confirm = o.confirm
      <3>1. o.gen \in Gens
        BY <1>2 DEF Gens
      <3>2. v = [o EXCEPT !.evidence = o.gen] \/ v = o
        OBVIOUS
      <3> HIDE DEF v
      <3> QED  BY SMTT(60), <1>2, <3>1, <3>2 DEF OwnerType
    <2>2. v.evidence = o.evidence \/ (m.status = "completed" /\ s = "running")
      OBVIOUS
    <2> HIDE DEF v
    <2>3. Paths(v)
      BY <2>1 DEF Ready, Paths
    <2>4. Quiet(v, After(m), on)
      BY <1>3, <2>1 DEF Ready, Quiet, Asks, Runs, Busy
    <2>5. Confirmation(v, After(m))
      <3>1. o.confirm = "done" => After(m) \in {"completed", "failed"}
        BY <1>1, <1>3 DEF Ready, Evidence, After, CoreStatuses
      <3> QED  BY <2>1, <3>1 DEF Ready, Confirmation, OwnerClaims
    <2>6. Evidence(v, After(m))
      <3>1. s = "completed" => After(m) = "completed"
        BY <1>3
      <3>2. m.status = "completed" => After(m) = "completed"
        BY DEF After
      <3>3. (After(m) = "cancelled") = (s = "cancelled")
        BY <1>3
      <3> QED  BY <1>3, <2>1, <2>2, <3>1, <3>2, <3>3 DEF Ready, Evidence, Asks
    <2> QED  BY <1>3, <2>1, <2>3, <2>4, <2>5, <2>6 DEF Ready, Sound
  <1>5. "run" \in Places \ {"exec"} /\ "failing" \in Places \ {"exec"}
    BY DEF Places
  <1> HIDE DEF v
  <1>6. Sound(r, After(m), on) /\ r.pending = o.pending /\ r.cancelling = o.cancelling
        /\ r.terminal = o.terminal
    <2>1. CASE e = "none"
      BY <1>4, <2>1
    <2>2. CASE e # "none"
      <3>1. [v EXCEPT !.at[e] = "run"].cancelling = v.cancelling
            /\ [v EXCEPT !.at[e] = "run"].terminal = v.terminal
        BY <1>4 DEF Sound, OwnerType
      <3>2. Sound([v EXCEPT !.at[e] = "run"], After(m), on)
            /\ [v EXCEPT !.at[e] = "run"].pending = v.pending
        BY <1>4, <1>5, <2>2, PlaceSound DEF Dispatches
      <3> QED  BY <1>4, <2>2, <3>1, <3>2
    <2> QED  BY <2>1, <2>2
  <1> HIDE DEF r
  <1>7. ASSUME m.status # "throws"
        PROVE  /\ Sound(EnqueueEffects(r, m.effects), After(m), on)
               /\ EnqueueEffects(r, m.effects).pending = o.pending
    <2>1. ~ (r.cancelling /\ on /\ After(m) = "running")
      BY <1>3, <1>6 DEF Ready
    <2>2. r.cancelling /\ on => ~ Has(m.effects, "subscribe")
      BY <1>1, <1>6, QueueFacts DEF Ready, Has
    <2>3. Has(m.effects, "completed") => After(m) = "completed"
      BY <1>1, <1>7 DEF After
    <2> QED  BY <1>1, <1>6, <2>1, <2>2, <2>3, EnqueueSound
  <1>8. ASSUME e = "pump"
        PROVE  Sound(FailOwner(f), After(m), on) /\ FailOwner(f).pending = o.pending
    <2>1. Sound(f, After(m), on) /\ f.pending = o.pending
      BY <1>5, <1>6, <1>8, PlaceSound DEF Dispatches
    <2> HIDE DEF f
    <2> QED  BY <2>1, FailOwnerSound
  <1>9. Sound(FailOwner(r), After(m), on) /\ FailOwner(r).pending = o.pending
    BY <1>6, FailOwnerSound
  <1>10. Dispatched(o, m, e) =
           IF m.status # "throws" THEN EnqueueEffects(r, m.effects)
           ELSE IF e = "inline" THEN r ELSE IF e = "pump" THEN FailOwner(f) ELSE FailOwner(r)
    BY DEF Dispatched, r, v
  <1> HIDE DEF f
  <1> QED  BY <1>3, <1>6, <1>7, <1>8, <1>9, <1>10

\* What any dispatch leaves.
LEMMA DispatchSound ==
    ASSUME NEW o, NEW on, Ready(o, on), NEW e \in Executors \cup {"none"}, Dispatches(o, e),
           Dispatch(o, e)
    PROVE  /\ Sound(op', core'.status, on) /\ op'.pending = o.pending
           /\ core'.status \in CoreStatuses
  <1>1. CASE o.terminal
    <2>1. Sound(o, core.status, on)
      BY <1>1 DEF Ready, Sound, Confirmation
    <2>2. core' = core /\ op' = IF e = "none" THEN o ELSE [o EXCEPT !.at[e] = "run"]
      BY <1>1 DEF Dispatch
    <2>3. "run" \in Places \ {"exec"}
      BY DEF Places
    <2>4. CASE e = "none"
      BY <2>1, <2>2, <2>4 DEF Sound
    <2>5. CASE e # "none"
      <3>1. Sound([o EXCEPT !.at[e] = "run"], core.status, on)
            /\ [o EXCEPT !.at[e] = "run"].pending = o.pending
        BY <1>1, <2>1, <2>3, <2>5, PlaceSound DEF Dispatches
      <3> QED  BY <2>1, <2>2, <2>5, <3>1 DEF Sound
    <2> QED  BY <2>4, <2>5
  <1>2. CASE ~ o.terminal
    <2>1. PICK m \in CoreMoves(o) : op' = Dispatched(o, m, e) /\ CoreAfter(m)
      BY <1>2 DEF Dispatch
    <2>2. core'.status = After(m)
      BY <2>1 DEF CoreAfter, After
    <2> QED  BY <1>2, <2>1, <2>2, DispatchedSound
  <1> QED  BY <1>1, <1>2

\* A sound owner may dispatch, unless its engine waits to be cancelled.
LEMMA SoundReady ==
    ASSUME NEW o, NEW on, Sound(o, core.status, on),
           o.terminal \/ ~ (o.cancelling /\ on /\ core.status = "running")
    PROVE  Ready(o, on)
  BY DEF Sound, Ready, Confirmation

\* An executor of a sound owner that is not in an await awaits no confirmation.
LEMMA RunningDispatches ==
    ASSUME NEW o, NEW s, NEW on, Sound(o, s, on), NEW e \in Executors,
           e = "inline" => o.cancelling,
           e = "pump" => o.at["pump"] # "exec" \/ o.cur["pump"] # "confirm"
    PROVE  Dispatches(o, e)
  BY DEF Sound, Confirmation, OwnerClaims, Dispatches

\* An effect begins, or is answered at once.
LEMMA ExecuteSound ==
    ASSUME NEW o, NEW e \in Executors, NEW eff \in Effects,
           Sound(o, core.status, ble.connected), ~ o.terminal, o.at[e] = "run",
           e = "inline" => o.cancelling,
           ~ (o.cancelling /\ ble.connected /\ core.status = "running"),
           o.cancelling /\ ble.connected => eff # "subscribe",
           eff = "cancelled" => core.status = "cancelled",
           eff = "completed" => core.status = "completed",
           Execute(o, e, eff)
    PROVE  /\ Sound(op', core'.status, ble.connected)
           /\ o.pending \subseteq op'.pending
           /\ core'.status \in CoreStatuses
  <1> DEFINE s == core.status
             on == ble.connected
  <1>1. /\ o \in OwnerType /\ o.at \in [Executors -> Places] /\ s \in CoreStatuses
        /\ o.cur \in [Executors -> Effects \cup {"none"}] /\ o.gen \in {0, 1}
        /\ o.pending \in SUBSET Pendings
    BY DEF Sound, OwnerType
  <1>2. Dispatches(o, e)
    BY RunningDispatches
  <1>3. {"run", "finishing", "failing", "unsubscribe"} \subseteq Places \ {"exec"}
    BY DEF Places
  <1>4. ASSUME NEW w \in {"run", "finishing", "failing", "unsubscribe"}
        PROVE  LET p == [o EXCEPT !.at[e] = w] IN
                 /\ Sound(p, s, on) /\ p.pending = o.pending
                 /\ p.terminal = o.terminal /\ p.cancelling = o.cancelling
    <2>1. Sound([o EXCEPT !.at[e] = w], s, on) /\ [o EXCEPT !.at[e] = w].pending = o.pending
      BY <1>2, <1>3, PlaceSound DEF Dispatches
    <2> QED  BY <1>1, <2>1 DEF OwnerType
  <1>5. CASE Dispatch([o EXCEPT !.at[e] = "run"], e)
    <2> DEFINE p == [o EXCEPT !.at[e] = "run"]
    <2>1. Sound(p, s, on) /\ p.pending = o.pending /\ p.terminal = o.terminal
          /\ p.cancelling = o.cancelling
      BY <1>4
    <2>2. Dispatch(p, e)
      BY <1>5
    <2> HIDE DEF p
    <2>3. Ready(p, on) /\ Dispatches(p, e)
      BY <1>2, <2>1, SoundReady DEF Dispatches
    <2> QED  BY <2>1, <2>2, <2>3, DispatchSound
  <1>6. CASE /\ eff \in Awaited
             /\ op' = [o EXCEPT !.at[e] = "exec", !.cur[e] = eff, !.pending = @ \cup {eff}]
             /\ core' = core /\ (eff = "subscribe" => ble.connected)
    <2> DEFINE at  == [o.at EXCEPT ![e] = "exec"]
               cur == [o.cur EXCEPT ![e] = eff]
               pending == o.pending \cup {eff}
    <2>1. /\ at \in [Executors -> Places] /\ at[e] = "exec" /\ \A f \in Executors \ {e} : at[f] = o.at[f]
          /\ cur \in [Executors -> Effects \cup {"none"}] /\ cur[e] = eff
          /\ \A f \in Executors \ {e} : cur[f] = o.cur[f]
          /\ pending \in SUBSET Pendings
      BY <1>1, <1>6 DEF Places, Pendings
    <2>2. op' = [o EXCEPT !.at = at, !.cur = cur, !.pending = pending]
      BY <1>1, <1>6 DEF OwnerType
    <2>9. "confirm" \in pending => "confirm" \in o.pending \/ eff = "confirm"
      OBVIOUS
    <2>8. o.pending \subseteq pending
      OBVIOUS
    <2> HIDE DEF at, cur, pending
    <2>3. /\ op' \in OwnerType
          /\ op'.kind = o.kind /\ op'.gen = o.gen /\ op'.terminal = o.terminal
          /\ op'.cancelling = o.cancelling /\ op'.evidence = o.evidence /\ op'.queue = o.queue
          /\ op'.inline = o.inline /\ op'.at = at /\ op'.cur = cur
          /\ op'.pending = pending /\ op'.timer = o.timer /\ op'.sub = o.sub /\ op'.clean = o.clean
          /\ op'.thread = o.thread /\ op'.fin = o.fin /\ op'.success = o.success
          /\ op'.confirm = o.confirm
      BY <1>1, <2>1, <2>2 DEF OwnerType
    <2>4. Paths(op')
      BY <2>1, <2>3 DEF Sound, Paths, Executors
    <2>5. Quiet(op', s, on)
      BY <1>6, <2>1, <2>3 DEF Sound, Quiet, Asks, Runs, Executors
    <2>6. Confirmation(op', s)
      BY <1>2, <2>1, <2>3, <2>8, <2>9 DEF Sound, Confirmation, OwnerClaims, Executors, Dispatches
    <2>7. Evidence(op', s)
      BY <2>3 DEF Sound, Evidence, Asks
    <2> QED  BY <1>1, <1>6, <2>3, <2>4, <2>5, <2>6, <2>7, <2>8 DEF Sound
  <1>7. CASE /\ eff = "unsubscribe" /\ core' = core
             /\ op' = [o EXCEPT !.at[e] = "unsubscribe", !.pending = @ \cup {"remove"}]
    <2> DEFINE p == [o EXCEPT !.at[e] = "unsubscribe"]
               pending == o.pending \cup {"remove"}
    <2>1. Sound(p, s, on) /\ p.pending = o.pending
      BY <1>4
    <2>2. op' = [p EXCEPT !.pending = pending]
      BY <1>1, <1>7 DEF OwnerType
    <2>3. pending \in SUBSET Pendings /\ o.pending \subseteq pending
          /\ ("confirm" \in pending => "confirm" \in o.pending)
      BY <1>1 DEF Pendings
    <2>4. p \in OwnerType
      BY <2>1 DEF Sound
    <2> HIDE DEF p, pending
    <2>5. /\ op' \in OwnerType
          /\ op'.kind = p.kind /\ op'.gen = p.gen /\ op'.terminal = p.terminal
          /\ op'.cancelling = p.cancelling /\ op'.evidence = p.evidence /\ op'.queue = p.queue
          /\ op'.inline = p.inline /\ op'.at = p.at /\ op'.cur = p.cur
          /\ op'.pending = pending /\ op'.timer = p.timer /\ op'.sub = p.sub /\ op'.clean = p.clean
          /\ op'.thread = p.thread /\ op'.fin = p.fin /\ op'.success = p.success
          /\ op'.confirm = p.confirm
      BY <2>2, <2>3, <2>4 DEF OwnerType
    <2>6. Sound(op', s, on)
      BY <2>1, <2>3, <2>5
         DEF Sound, Paths, Quiet, Confirmation, OwnerClaims, Evidence, Asks, Runs, Busy
    <2> QED  BY <1>1, <1>7, <2>3, <2>5, <2>6
  <1>8. CASE op' = o /\ core' = core
    BY <1>1, <1>8
  <1>9. CASE op' = [o EXCEPT !.timer = o.gen] /\ core' = core
    <2>1. /\ op' \in OwnerType
          /\ op'.kind = o.kind /\ op'.gen = o.gen /\ op'.terminal = o.terminal
          /\ op'.cancelling = o.cancelling /\ op'.evidence = o.evidence /\ op'.queue = o.queue
          /\ op'.inline = o.inline /\ op'.at = o.at /\ op'.cur = o.cur
          /\ op'.pending = o.pending /\ op'.timer = o.gen /\ op'.sub = o.sub /\ op'.clean = o.clean
          /\ op'.thread = o.thread /\ op'.fin = o.fin /\ op'.success = o.success
          /\ op'.confirm = o.confirm
      <3>1. o.gen \in Gens
        BY <1>1 DEF Gens
      <3> QED  BY <1>1, <1>9, <3>1 DEF OwnerType
    <2>2. Sound(op', s, on)
      BY <2>1 DEF Sound, Paths, Quiet, Confirmation, OwnerClaims, Evidence, Asks, Runs, Busy
    <2> QED  BY <1>1, <1>9, <2>1, <2>2
  <1>10. CASE /\ eff = "completed" /\ core' = core
              /\ op' = FinishSuccess([o EXCEPT !.at[e] = "finishing"], FALSE)
    <2> DEFINE p == [o EXCEPT !.at[e] = "finishing"]
    <2>1. Sound(p, s, on) /\ p.pending = o.pending
      BY <1>4
    <2>2. op' = FinishSuccess(p, FALSE)
      BY <1>10
    <2> HIDE DEF p
    <2> QED  BY <1>1, <1>10, <2>1, <2>2, FinishSuccessSound
  <1>11. CASE /\ eff = "cancelled" /\ core' = core
              /\ op' = FinishCancelled([o EXCEPT !.at[e] = "finishing"])
    <2> DEFINE p == [o EXCEPT !.at[e] = "finishing"]
    <2>1. Sound(p, s, on) /\ p.pending = o.pending
      BY <1>4
    <2>2. op' = FinishCancelled(p)
      BY <1>11
    <2> HIDE DEF p
    <2> QED  BY <1>1, <1>11, <2>1, <2>2, FinishCancelledSound
  <1>12. CASE /\ eff = "failed" /\ core' = core
              /\ op' = FinishFailure([o EXCEPT !.failure = TRUE, !.at[e] = "finishing"])
    <2> DEFINE p == [o EXCEPT !.at[e] = "finishing"]
               f == [p EXCEPT !.failure = TRUE]
    <2>1. Sound(p, s, on) /\ p.pending = o.pending
      BY <1>4
    <2>2. op' = FinishFailure(f)
      <3>1. f = [o EXCEPT !.failure = TRUE, !.at[e] = "finishing"]
        BY <1>1 DEF OwnerType
      <3> QED  BY <1>12, <3>1
    <2> HIDE DEF p
    <2>3. /\ f \in OwnerType
          /\ f.kind = p.kind /\ f.gen = p.gen /\ f.terminal = p.terminal
          /\ f.cancelling = p.cancelling /\ f.evidence = p.evidence /\ f.queue = p.queue
          /\ f.inline = p.inline /\ f.at = p.at /\ f.cur = p.cur
          /\ f.pending = p.pending /\ f.timer = p.timer /\ f.sub = p.sub /\ f.clean = p.clean
          /\ f.thread = p.thread /\ f.fin = p.fin /\ f.success = p.success
          /\ f.confirm = p.confirm
      BY <2>1 DEF Sound, OwnerType
    <2> HIDE DEF f
    <2>4. Sound(f, s, on)
      BY <2>1, <2>3 DEF Sound, Paths, Quiet, Confirmation, OwnerClaims, Evidence, Asks, Runs, Busy
    <2> QED  BY <1>1, <1>12, <2>1, <2>2, <2>3, <2>4, FinishFailureSound
  <1>13. CASE /\ eff = "failed" /\ core' = core
              /\ op' = FailOwner([o EXCEPT !.at[e] = "failing"])
    <2> DEFINE p == [o EXCEPT !.at[e] = "failing"]
    <2>1. Sound(p, s, on) /\ p.pending = o.pending
      BY <1>4
    <2>2. op' = FailOwner(p)
      BY <1>13
    <2> HIDE DEF p
    <2> QED  BY <1>1, <1>13, <2>1, <2>2, FailOwnerSound
  <1>14. CASE eff \in Awaited
    <2>1. \/ Dispatch([o EXCEPT !.at[e] = "run"], e)
          \/ /\ op' = [o EXCEPT !.at[e] = "exec", !.cur[e] = eff, !.pending = @ \cup {eff}]
             /\ core' = core /\ (eff = "subscribe" => ble.connected)
      <3> HIDE DEF Dispatch
      <3> QED  BY <1>14 DEF Execute, Awaited
    <2> QED  BY <1>5, <1>6, <1>14, <2>1
  <1>15. CASE eff = "unsubscribe"
    BY <1>7, <1>8, <1>15 DEF Execute, Awaited
  <1>16. CASE eff = "timer"
    BY <1>9, <1>16 DEF Execute, Awaited
  <1>17. CASE eff = "completed"
    BY <1>10, <1>17 DEF Execute, Awaited
  <1>18. CASE eff = "cancelled"
    BY <1>11, <1>18 DEF Execute, Awaited
  <1>19. CASE eff = "failed"
    BY <1>12, <1>13, <1>19 DEF Execute, Awaited
  <1> QED  BY <1>14, <1>15, <1>16, <1>17, <1>18, <1>19 DEF Effects

-----------------------------------------------------------------------------
(* The promises of the platform *)

Moved(o, at, P) == [o EXCEPT !.at = at, !.pending = P]

\* Executors leave awaits that are not a confirmation, and promises settle.
LEMMA MovedSound ==
    ASSUME NEW o, NEW s, NEW on, Sound(o, s, on), NEW at \in [Executors -> Places],
           NEW P \in SUBSET Pendings, "confirm" \in P <=> "confirm" \in o.pending,
           \A e \in Executors : \/ at[e] = o.at[e]
                                \/ /\ at[e] \notin {"exec", "idle"} /\ o.at[e] # "idle"
                                   /\ o.at[e] = "exec" => o.cur[e] # "confirm"
    PROVE  LET p == Moved(o, at, P) IN
             /\ Sound(p, s, on) /\ p.pending = P /\ p.at = at /\ p.cur = o.cur
             /\ p.terminal = o.terminal /\ p.cancelling = o.cancelling /\ p.confirm = o.confirm
             /\ p.clean = o.clean /\ p.timer = o.timer /\ p.sub = o.sub
  <1> DEFINE p == Moved(o, at, P)
  <1>1. o \in OwnerType
    BY DEF Sound
  <1>2. /\ p \in OwnerType
        /\ p.kind = o.kind /\ p.gen = o.gen /\ p.terminal = o.terminal
        /\ p.cancelling = o.cancelling /\ p.evidence = o.evidence /\ p.queue = o.queue
        /\ p.inline = o.inline /\ p.at = at /\ p.cur = o.cur
        /\ p.pending = P /\ p.timer = o.timer /\ p.sub = o.sub /\ p.clean = o.clean
        /\ p.thread = o.thread /\ p.fin = o.fin /\ p.success = o.success
        /\ p.confirm = o.confirm
    BY <1>1 DEF OwnerType, Moved
  <1> HIDE DEF p
  <1>3. Paths(p)
    BY <1>2 DEF Sound, Paths, Executors
  <1>4. Quiet(p, s, on)
    BY <1>2 DEF Sound, Quiet, Asks, Runs, Busy
  <1>5. Confirmation(p, s)
    BY <1>2 DEF Sound, Confirmation, OwnerClaims, Executors
  <1>6. Evidence(p, s)
    BY <1>2 DEF Sound, Evidence, Asks
  <1>7. Sound(p, s, on)
    BY <1>2, <1>3, <1>4, <1>5, <1>6 DEF Sound
  <1> QED  BY <1>2, <1>7 DEF p

\* One promise settles that is not a confirmation.
LEMMA SettledSound ==
    ASSUME NEW k, Sound(op, core.status, ble.connected), k # "confirm"
    PROVE  /\ Sound(Settled(k), core.status, ble.connected)
           /\ Settled(k) = [op EXCEPT !.pending = op.pending \ {k}]
           /\ Settled(k).pending = op.pending \ {k} /\ Settled(k).at = op.at
           /\ Settled(k).cur = op.cur /\ Settled(k).terminal = op.terminal
           /\ Settled(k).cancelling = op.cancelling /\ Settled(k).clean = op.clean
  <1> DEFINE P == op.pending \ {k}
  <1>1. op \in OwnerType /\ op.at \in [Executors -> Places] /\ op.pending \in SUBSET Pendings
    BY DEF Sound, OwnerType
  <1>2. P \in SUBSET Pendings /\ ("confirm" \in P <=> "confirm" \in op.pending)
    BY <1>1
  <1>3. Settled(k) = [op EXCEPT !.pending = P]
    BY DEF Settled
  <1> HIDE DEF P
  <1>4. [op EXCEPT !.pending = P] = Moved(op, op.at, P)
    BY <1>1 DEF OwnerType, Moved
  <1> DEFINE at == op.at
  <1>5. at \in [Executors -> Places] /\ \A e \in Executors : at[e] = op.at[e]
    BY <1>1
  <1>6. at = op.at
    OBVIOUS
  <1> HIDE DEF at
  <1>7. LET p == Moved(op, at, P) IN
          /\ Sound(p, core.status, ble.connected) /\ p.pending = P /\ p.at = at /\ p.cur = op.cur
          /\ p.terminal = op.terminal /\ p.cancelling = op.cancelling /\ p.confirm = op.confirm
          /\ p.clean = op.clean /\ p.timer = op.timer /\ p.sub = op.sub
    BY <1>2, <1>5, MovedSound
  <1> QED  BY <1>3, <1>4, <1>6, <1>7 DEF P

\* The link may be lost at any time, and come up only before a cancellation.
LEMMA LinkSound ==
    ASSUME NEW o, NEW s, NEW on, Sound(o, s, on), NEW up, up => on \/ ~ o.cancelling
    PROVE  Sound(o, s, up)
  BY DEF Sound, Quiet

\* An owner with an effect under way does not wait for its engine to be cancelled.
LEMMA AwaitingReady ==
    ASSUME Sound(op, core.status, ble.connected), NEW k, NEW e \in Awaiting(k),
           NEW o, NEW up, Sound(o, core.status, up), o.cancelling = op.cancelling, o.terminal = op.terminal,
           o.at = op.at, o.cur = op.cur, up => ble.connected \/ ~ op.cancelling,
           k = "confirm" => "confirm" \notin o.pending
    PROVE  Ready(o, up) /\ e \in Executors /\ Dispatches(o, e)
  <1>1. e \in Executors /\ op.at[e] = "exec" /\ op.cur[e] = k
    BY DEF Awaiting
  <1>2. Busy(op)
    BY <1>1 DEF Busy
  <1>3. o.terminal \/ ~ (o.cancelling /\ up /\ core.status = "running")
    BY <1>2 DEF Sound, Quiet
  <1>4. e = "inline" => o.cancelling
    BY <1>1 DEF Sound, Paths
  <1>5. Dispatches(o, e)
    BY <1>1, <1>4 DEF Sound, Confirmation, OwnerClaims, Dispatches
  <1> QED  BY <1>1, <1>3, <1>5, SoundReady

\* What the platform answers reaches the engine, when its effect still waits.
LEMMA AnswerSound ==
    ASSUME Sound(op, core.status, ble.connected), NEW k, NEW o, NEW up, Sound(o, core.status, up),
           o.cancelling = op.cancelling, o.terminal = op.terminal,
           o.at = op.at, o.cur = op.cur, up => ble.connected \/ ~ op.cancelling,
           k = "confirm" => "confirm" \notin o.pending,
           Answer(o, k)
    PROVE  /\ Sound(op', core'.status, up) /\ op'.pending = o.pending
           /\ core'.status \in CoreStatuses
  <1>1. CASE Awaiting(k) = {}
    BY <1>1 DEF Answer, Sound
  <1>2. CASE Awaiting(k) # {}
    <2>1. PICK e \in Awaiting(k) : Dispatch(o, e)
      BY <1>2 DEF Answer
    <2>2. Ready(o, up) /\ e \in Executors /\ Dispatches(o, e)
      BY AwaitingReady
    <2> QED  BY <2>1, <2>2, DispatchSound
  <1> QED  BY <1>1, <1>2

\* An error of a host fails the owner, or is collected by the inline executor.
LEMMA HostFailsSound ==
    ASSUME Sound(op, core.status, ble.connected), NEW k, NEW o, Sound(o, core.status, ble.connected),
           o.cancelling = op.cancelling, o.terminal = op.terminal,
           o.at = op.at, o.cur = op.cur, k = "confirm" => "confirm" \notin o.pending,
           HostFailsFrom(o, k)
    PROVE  /\ Sound(op', core'.status, ble.connected) /\ op'.pending = o.pending
           /\ core'.status \in CoreStatuses
  <1> DEFINE s == core.status
             on == ble.connected
             f == [o EXCEPT !.at["pump"] = "failing"]
             i == [o EXCEPT !.at["inline"] = "run"]
  <1>1. core' = core /\ s \in CoreStatuses /\ {"failing", "run"} \subseteq Places \ {"exec"}
    BY DEF HostFailsFrom, Sound, Places
  <1>2. CASE "pump" \in Awaiting(k)
    <2>1. Dispatches(o, "pump")
      BY <1>2, AwaitingReady
    <2>2. Sound(f, s, on) /\ f.pending = o.pending
      BY <1>1, <2>1, PlaceSound DEF Dispatches, Executors
    <2>3. op' = FailOwner(f)
      BY <1>2 DEF HostFailsFrom
    <2> HIDE DEF f
    <2> QED  BY <1>1, <2>2, <2>3, FailOwnerSound
  <1>3. CASE "pump" \notin Awaiting(k) /\ "inline" \in Awaiting(k)
    <2>1. Dispatches(o, "inline")
      BY <1>3, AwaitingReady
    <2>2. Sound(i, s, on) /\ i.pending = o.pending
      BY <1>1, <2>1, PlaceSound DEF Dispatches, Executors
    <2>3. op' = i
      BY <1>3 DEF HostFailsFrom
    <2> QED  BY <1>1, <2>2, <2>3
  <1>4. CASE "pump" \notin Awaiting(k) /\ "inline" \notin Awaiting(k)
    BY <1>1, <1>4 DEF HostFailsFrom
  <1> QED  BY <1>2, <1>3, <1>4

\* A step of a workflow that keeps its owner sound and its link named.
LEMMA WorkflowStep ==
    ASSUME RuntimeInv, Workflow, owner' = owner, next' = next, result' = result, destroyed' \in BOOLEAN,
           ble' \in [link : BOOLEAN, connected : BOOLEAN, poisoned : BOOLEAN],
           Sound(op', core'.status, ble'.connected),
           ble'.link => ble'.connected \/ "lateLink" \in op'.pending
    PROVE  RuntimeInv'
  BY DEF RuntimeInv, RuntimeTypeOK, Workflow, ReleasedClean, Linked, Sound

\* The same, of a step that leaves the link alone.
LEMMA LinkedStep ==
    ASSUME RuntimeInv, Workflow, owner' = owner, next' = next, result' = result, destroyed' \in BOOLEAN,
           ble' = ble, Sound(op', core'.status, ble.connected),
           "lateLink" \in op.pending => "lateLink" \in op'.pending
    PROVE  RuntimeInv'
  <1>1. /\ ble' \in [link : BOOLEAN, connected : BOOLEAN, poisoned : BOOLEAN]
        /\ Sound(op', core'.status, ble'.connected)
        /\ ble'.link => ble'.connected \/ "lateLink" \in op'.pending
    BY DEF RuntimeInv, RuntimeTypeOK, Linked
  <1> QED  BY <1>1, WorkflowStep

\* What every step of a workflow may use.
LEMMA WorkflowFacts ==
    ASSUME RuntimeInv, Workflow
    PROVE  /\ Sound(op, core.status, ble.connected)
           /\ op \in OwnerType /\ op.at \in [Executors -> Places] /\ op.pending \in SUBSET Pendings
           /\ core.status \in CoreStatuses /\ destroyed \in BOOLEAN
           /\ ble \in [link : BOOLEAN, connected : BOOLEAN, poisoned : BOOLEAN]
           /\ ble.link => ble.connected \/ "lateLink" \in op.pending
  BY DEF RuntimeInv, RuntimeTypeOK, Linked, Sound, OwnerType

\* A connection comes up in time, comes up late and is taken down, or fails.
LEMMA ConnectSettlesStep == ASSUME RuntimeInv, ConnectSettles PROVE RuntimeInv'
  <1> DEFINE s == core.status
             o == Settled("connect")
  <1>1. Workflow /\ owner' = owner /\ next' = next /\ result' = result /\ destroyed' = destroyed
        /\ "connect" \in op.pending
    BY DEF ConnectSettles
  <1>2. /\ Sound(op, s, ble.connected)
        /\ op \in OwnerType /\ op.at \in [Executors -> Places] /\ op.pending \in SUBSET Pendings
        /\ s \in CoreStatuses /\ destroyed \in BOOLEAN
        /\ ble \in [link : BOOLEAN, connected : BOOLEAN, poisoned : BOOLEAN]
        /\ ble.link => ble.connected \/ "lateLink" \in op.pending
    BY <1>1, WorkflowFacts
  <1>3. /\ Sound(o, s, ble.connected) /\ o = [op EXCEPT !.pending = op.pending \ {"connect"}]
        /\ o.pending = op.pending \ {"connect"}
        /\ o.at = op.at /\ o.cur = op.cur /\ o.terminal = op.terminal
        /\ o.cancelling = op.cancelling
    BY <1>2, SettledSound
  <1>4. CASE /\ Awaiting("connect") # {} /\ ~op.cancelling /\ ~op.terminal
             /\ ble' = [ble EXCEPT !.link = TRUE, !.connected = TRUE]
             /\ Answer(Settled("connect"), "connect")
    <2>1. Sound(o, s, TRUE)
      BY <1>3, <1>4, LinkSound
    <2>2. Sound(op', core'.status, TRUE)
      <3>1. Answer(o, "connect") /\ ~ op.cancelling
        BY <1>4
      <3> HIDE DEF o
      <3> QED  BY <1>2, <1>3, <2>1, <3>1, AnswerSound
    <2>3. ble' \in [link : BOOLEAN, connected : BOOLEAN, poisoned : BOOLEAN] /\ ble'.connected = TRUE
      BY <1>2, <1>4
    <2> QED  BY <1>1, <1>2, <2>2, <2>3, WorkflowStep
  <1>5. CASE /\ ble' = [ble EXCEPT !.link = TRUE]
             /\ op' = [Settled("connect") EXCEPT !.pending = @ \cup {"lateLink"},
                          !.at = [e \in Executors |-> IF e \in Awaiting("connect") THEN "late"
                                                      ELSE op.at[e]]]
             /\ core' = core
    <2> DEFINE at == [e \in Executors |-> IF e \in Awaiting("connect") THEN "late" ELSE op.at[e]]
               P  == (op.pending \ {"connect"}) \cup {"lateLink"}
    <2>1. at \in [Executors -> Places]
          /\ \A e \in Executors : \/ at[e] = op.at[e]
                                  \/ /\ at[e] \notin {"exec", "idle"} /\ op.at[e] # "idle"
                                     /\ op.at[e] = "exec" => op.cur[e] # "confirm"
      BY <1>2 DEF Awaiting, Places
    <2>2. P \in SUBSET Pendings /\ ("confirm" \in P <=> "confirm" \in op.pending) /\ "lateLink" \in P
      BY <1>2 DEF Pendings
    <2>3. op' = Moved(op, at, P)
      BY <1>2, <1>3, <1>5 DEF Moved, OwnerType
    <2> HIDE DEF at, P
    <2>4. Sound(op', s, ble.connected) /\ op'.pending = P
      BY <1>2, <2>1, <2>2, <2>3, MovedSound
    <2>5. /\ ble' \in [link : BOOLEAN, connected : BOOLEAN, poisoned : BOOLEAN]
          /\ ble'.connected = ble.connected
      BY <1>2, <1>5
    <2> QED  BY <1>1, <1>2, <1>5, <2>2, <2>4, <2>5, WorkflowStep
  <1>6. CASE ble' = ble /\ Answer(Settled("connect"), "connect")
    <2>1. Answer(o, "connect")
      BY <1>6
    <2> HIDE DEF o
    <2>2. Sound(op', core'.status, ble.connected) /\ op'.pending = o.pending
      BY <1>2, <1>3, <2>1, AnswerSound
    <2> QED  BY <1>1, <1>2, <1>3, <1>6, <2>2, LinkedStep
  <1>7. CASE /\ ble' = ble /\ core' = core
             /\ op' = [Settled("connect") EXCEPT
                        !.at = [e \in Executors |-> IF op.at[e] = "late" THEN "run" ELSE op.at[e]]]
    <2> DEFINE at == [e \in Executors |-> IF op.at[e] = "late" THEN "run" ELSE op.at[e]]
               P  == op.pending \ {"connect"}
    <2>1. at \in [Executors -> Places]
          /\ \A e \in Executors : \/ at[e] = op.at[e]
                                  \/ /\ at[e] \notin {"exec", "idle"} /\ op.at[e] # "idle"
                                     /\ op.at[e] = "exec" => op.cur[e] # "confirm"
      BY <1>2 DEF Places
    <2>2. P \in SUBSET Pendings /\ ("confirm" \in P <=> "confirm" \in op.pending)
          /\ ("lateLink" \in op.pending => "lateLink" \in P)
      BY <1>2
    <2>3. op' = Moved(op, at, P)
      BY <1>2, <1>3, <1>7 DEF Moved, OwnerType
    <2> HIDE DEF at, P
    <2>4. Sound(op', s, ble.connected) /\ op'.pending = P
      BY <1>2, <2>1, <2>2, <2>3, MovedSound
    <2> QED  BY <1>1, <1>2, <1>7, <2>2, <2>4, LinkedStep
  <1> QED  BY <1>4, <1>5, <1>6, <1>7 DEF ConnectSettles

\* A link that came up late is down again.
LEMMA LateLinkSettlesStep == ASSUME RuntimeInv, LateLinkSettles PROVE RuntimeInv'
  <1> DEFINE s == core.status
             at == [e \in Executors |-> IF op.at[e] = "late" THEN "run" ELSE op.at[e]]
             P  == op.pending \ {"lateLink"}
  <1>1. Workflow /\ owner' = owner /\ next' = next /\ result' = result /\ destroyed' = destroyed
        /\ core' = core
    BY DEF LateLinkSettles
  <1>2. /\ Sound(op, s, ble.connected)
        /\ op \in OwnerType /\ op.at \in [Executors -> Places] /\ op.pending \in SUBSET Pendings
        /\ s \in CoreStatuses /\ destroyed \in BOOLEAN
        /\ ble \in [link : BOOLEAN, connected : BOOLEAN, poisoned : BOOLEAN]
    BY <1>1, WorkflowFacts
  <1>3. at \in [Executors -> Places]
        /\ \A e \in Executors : \/ at[e] = op.at[e]
                                \/ /\ at[e] \notin {"exec", "idle"} /\ op.at[e] # "idle"
                                   /\ op.at[e] = "exec" => op.cur[e] # "confirm"
    BY <1>2 DEF Places
  <1>4. P \in SUBSET Pendings /\ ("confirm" \in P <=> "confirm" \in op.pending)
    BY <1>2
  <1>5. op' = Moved(op, at, P)
    BY <1>2 DEF LateLinkSettles, Settled, Moved, OwnerType
  <1>6. /\ ble' \in [link : BOOLEAN, connected : BOOLEAN, poisoned : BOOLEAN]
        /\ ble'.connected = ble.connected /\ ~ ble'.link
    BY <1>2 DEF LateLinkSettles
  <1> HIDE DEF at, P
  <1>7. Sound(op', s, ble.connected)
    BY <1>2, <1>3, <1>4, <1>5, MovedSound
  <1> QED  BY <1>1, <1>2, <1>6, <1>7, WorkflowStep

\* A read or a write is answered.
LEMMA GattSettlesStep == ASSUME RuntimeInv, GattSettles PROVE RuntimeInv'
  <1>1. Workflow /\ owner' = owner /\ next' = next /\ result' = result /\ destroyed' = destroyed
        /\ ble' = ble
    BY DEF GattSettles
  <1>2. Sound(op, core.status, ble.connected) /\ destroyed \in BOOLEAN
    BY <1>1, WorkflowFacts
  <1>3. PICK k \in {"gatt", "write"} : Answer(Settled(k), k)
    BY DEF GattSettles
  <1> DEFINE o == Settled(k)
  <1>4. /\ Sound(o, core.status, ble.connected) /\ o.pending = op.pending \ {k}
        /\ o.at = op.at /\ o.cur = op.cur /\ o.terminal = op.terminal
        /\ o.cancelling = op.cancelling
    BY <1>2, SettledSound
  <1>5. Answer(o, k)
    BY <1>3
  <1> HIDE DEF o
  <1>6. Sound(op', core'.status, ble.connected) /\ op'.pending = o.pending
    BY <1>2, <1>4, <1>5, AnswerSound
  <1> QED  BY <1>1, <1>2, <1>4, <1>6, LinkedStep

\* The link is taken down, or the disconnection fails.
LEMMA DisconnectSettlesStep == ASSUME RuntimeInv, DisconnectSettles PROVE RuntimeInv'
  <1> DEFINE o == Settled("disconnect")
  <1>1. Workflow /\ owner' = owner /\ next' = next /\ result' = result /\ destroyed' = destroyed
    BY DEF DisconnectSettles
  <1>2. Sound(op, core.status, ble.connected) /\ destroyed \in BOOLEAN
        /\ ble \in [link : BOOLEAN, connected : BOOLEAN, poisoned : BOOLEAN]
    BY <1>1, WorkflowFacts
  <1>4. /\ Sound(o, core.status, ble.connected) /\ o.pending = op.pending \ {"disconnect"}
        /\ o.at = op.at /\ o.cur = op.cur /\ o.terminal = op.terminal
        /\ o.cancelling = op.cancelling
    BY <1>2, SettledSound
  <1>5. Answer(o, "disconnect")
    BY DEF DisconnectSettles
  <1>6. ble' = ble \/ ble' = [ble EXCEPT !.link = FALSE, !.connected = FALSE]
    BY DEF DisconnectSettles
  <1> HIDE DEF o
  <1>7. CASE ble' = ble
    <2>1. Sound(op', core'.status, ble.connected) /\ op'.pending = o.pending
      BY <1>2, <1>4, <1>5, AnswerSound
    <2> QED  BY <1>1, <1>2, <1>4, <1>7, <2>1, LinkedStep
  <1>8. CASE ble' = [ble EXCEPT !.link = FALSE, !.connected = FALSE]
    <2>1. Sound(o, core.status, FALSE)
      BY <1>4, LinkSound
    <2>2. Sound(op', core'.status, FALSE)
      BY <1>2, <1>4, <1>5, <2>1, AnswerSound
    <2>3. /\ ble' \in [link : BOOLEAN, connected : BOOLEAN, poisoned : BOOLEAN]
          /\ ble'.connected = FALSE /\ ~ ble'.link
      BY <1>2, <1>8
    <2> QED  BY <1>1, <1>2, <2>2, <2>3, WorkflowStep
  <1> QED  BY <1>6, <1>7, <1>8

\* A subscription is set up in time; it is discarded when it comes late, so that an
\* owner that was cleaned up gets no subscription.
LEMMA SubscribeSettlesStep == ASSUME RuntimeInv, SubscribeSettles PROVE RuntimeInv'
  <1> DEFINE s == core.status
             on == ble.connected
             o == Settled("subscribe")
             u == [o EXCEPT !.sub = TRUE]
  <1>1. Workflow /\ owner' = owner /\ next' = next /\ result' = result /\ destroyed' = destroyed
        /\ ble' = ble
    BY DEF SubscribeSettles
  <1>2. /\ Sound(op, s, on) /\ op \in OwnerType /\ op.at \in [Executors -> Places]
        /\ op.pending \in SUBSET Pendings /\ destroyed \in BOOLEAN
    BY <1>1, WorkflowFacts
  <1>3. /\ Sound(o, s, on) /\ o = [op EXCEPT !.pending = op.pending \ {"subscribe"}]
        /\ o.pending = op.pending \ {"subscribe"}
        /\ o.at = op.at /\ o.cur = op.cur /\ o.terminal = op.terminal
        /\ o.cancelling = op.cancelling /\ o.clean = op.clean
    BY <1>2, SettledSound
  <1>4. CASE Answer(Settled("subscribe"), "subscribe")
    <2>1. Answer(o, "subscribe") /\ Sound(o, s, on) /\ o.pending = op.pending \ {"subscribe"}
          /\ o.at = op.at /\ o.cur = op.cur /\ o.terminal = op.terminal
          /\ o.cancelling = op.cancelling
      BY <1>3, <1>4
    <2> HIDE DEF o
    <2>2. Sound(op', core'.status, on) /\ op'.pending = o.pending
      BY <1>2, <2>1, AnswerSound
    <2> QED  BY <1>1, <1>2, <2>1, <2>2, LinkedStep
  <1>5. CASE /\ core' = core
             /\ op' = [Settled("subscribe") EXCEPT !.pending = @ \cup {"discard"},
                           !.at = [e \in Executors |-> IF e \in Awaiting("subscribe") THEN "run"
                                                       ELSE op.at[e]]]
    <2> DEFINE at == [e \in Executors |-> IF e \in Awaiting("subscribe") THEN "run" ELSE op.at[e]]
               P  == (op.pending \ {"subscribe"}) \cup {"discard"}
    <2>1. at \in [Executors -> Places]
          /\ \A e \in Executors : \/ at[e] = op.at[e]
                                  \/ /\ at[e] \notin {"exec", "idle"} /\ op.at[e] # "idle"
                                     /\ op.at[e] = "exec" => op.cur[e] # "confirm"
      BY <1>2 DEF Awaiting, Places
    <2>2. P \in SUBSET Pendings /\ ("confirm" \in P <=> "confirm" \in op.pending)
          /\ ("lateLink" \in op.pending => "lateLink" \in P)
      BY <1>2 DEF Pendings
    <2>3. op' = Moved(op, at, P)
      BY <1>2, <1>3, <1>5 DEF Moved, OwnerType
    <2> HIDE DEF at, P
    <2>4. Sound(op', s, on) /\ op'.pending = P
      BY <1>2, <2>1, <2>2, <2>3, MovedSound
    <2> QED  BY <1>1, <1>2, <1>5, <2>2, <2>4, LinkedStep
  <1>6. CASE /\ Awaiting("subscribe") # {} /\ ~ op.terminal
             /\ Answer(u, "subscribe")
    <2>1. Runs(op, "subscribe")
      BY <1>6 DEF Awaiting, Runs
    <2>2. ~ op.cancelling /\ op.clean = "off"
      BY <1>2, <1>6, <2>1 DEF Sound, Quiet, Paths
    <2>3. Answer(u, "subscribe") /\ o \in OwnerType
      BY <1>3, <1>6 DEF Sound
    <2> HIDE DEF o
    <2>4. /\ u \in OwnerType
          /\ u.kind = o.kind /\ u.gen = o.gen /\ u.terminal = o.terminal
          /\ u.cancelling = o.cancelling /\ u.evidence = o.evidence /\ u.queue = o.queue
          /\ u.inline = o.inline /\ u.at = o.at /\ u.cur = o.cur
          /\ u.pending = o.pending /\ u.timer = o.timer /\ u.clean = o.clean
          /\ u.thread = o.thread /\ u.fin = o.fin /\ u.success = o.success
          /\ u.confirm = o.confirm
      BY <2>3 DEF OwnerType
    <2> HIDE DEF u
    <2>5. Sound(u, s, on)
      BY <1>3, <2>2, <2>4
         DEF Sound, Paths, Quiet, Confirmation, OwnerClaims, Evidence, Asks, Runs, Busy
    <2>6. Sound(op', core'.status, on) /\ op'.pending = u.pending
      BY <1>2, <1>3, <2>3, <2>4, <2>5, AnswerSound
    <2> QED  BY <1>1, <1>2, <1>3, <2>4, <2>6, LinkedStep
  <1> QED  BY <1>4, <1>5, <1>6 DEF SubscribeSettles

\* A subscription that came late is removed.
LEMMA DiscardSettlesStep == ASSUME RuntimeInv, DiscardSettles PROVE RuntimeInv'
  <1>1. Workflow /\ owner' = owner /\ next' = next /\ result' = result /\ destroyed' = destroyed
        /\ ble' = ble /\ core' = core /\ op' = Settled("discard")
    BY DEF DiscardSettles
  <1>2. Sound(op, core.status, ble.connected) /\ destroyed \in BOOLEAN
    BY <1>1, WorkflowFacts
  <1>3. Sound(op', core.status, ble.connected) /\ op'.pending = op.pending \ {"discard"}
    BY <1>1, <1>2, SettledSound
  <1> QED  BY <1>1, <1>2, <1>3, LinkedStep

\* The removal of the subscription settles for the effect that asked for it and
\* for the cleanup.
LEMMA RemoveSettlesStep == ASSUME RuntimeInv, RemoveSettles PROVE RuntimeInv'
  <1> DEFINE s == core.status
             on == ble.connected
             at == [e \in Executors |-> IF op.at[e] = "unsubscribe" THEN "run" ELSE op.at[e]]
             P  == op.pending \ {"remove"}
             o  == Moved(op, at, P)
             clean == IF op.clean = "removing" THEN "done" ELSE op.clean
             timer == IF op.clean = "removing" THEN -1 ELSE op.timer
  <1>1. Workflow /\ owner' = owner /\ next' = next /\ result' = result /\ destroyed' = destroyed
        /\ ble' = ble /\ core' = core
    BY DEF RemoveSettles
  <1>2. /\ Sound(op, s, on) /\ op \in OwnerType /\ op.at \in [Executors -> Places]
        /\ op.pending \in SUBSET Pendings /\ destroyed \in BOOLEAN
    BY <1>1, WorkflowFacts
  <1>3. at \in [Executors -> Places]
        /\ \A e \in Executors : \/ at[e] = op.at[e]
                                \/ /\ at[e] \notin {"exec", "idle"} /\ op.at[e] # "idle"
                                   /\ op.at[e] = "exec" => op.cur[e] # "confirm"
    BY <1>2 DEF Places
  <1>4. P \in SUBSET Pendings /\ ("confirm" \in P <=> "confirm" \in op.pending)
        /\ ("lateLink" \in op.pending => "lateLink" \in P)
    BY <1>2
  <1>5. PICK ok \in BOOLEAN :
          LET r == [Settled("remove") EXCEPT !.sub = FALSE,
                     !.clean = IF @ = "removing" THEN "done" ELSE @,
                     !.timer = IF op.clean = "removing" THEN -1 ELSE @,
                     !.cleanFailed = @ \/ (op.clean = "removing" /\ ~ok)]
              p == [r EXCEPT !.at = [e \in Executors |-> IF op.at[e] = "unsubscribe" THEN "run"
                                                         ELSE op.at[e]]]
          IN op' = IF ok \/ op.at["pump"] # "unsubscribe" THEN p
                   ELSE FailOwner([p EXCEPT !.at["pump"] = "failing"])
    BY DEF RemoveSettles
  <1> DEFINE cf == op.cleanFailed \/ (op.clean = "removing" /\ ~ok)
             p  == [o EXCEPT !.sub = FALSE, !.clean = clean, !.timer = timer, !.cleanFailed = cf]
             f  == [p EXCEPT !.at["pump"] = "failing"]
  <1>6. \/ op' = p
        \/ op' = FailOwner(f) /\ op.at["pump"] = "unsubscribe"
    <2>1. p = [[Settled("remove") EXCEPT !.sub = FALSE,
                     !.clean = IF @ = "removing" THEN "done" ELSE @,
                     !.timer = IF op.clean = "removing" THEN -1 ELSE @,
                     !.cleanFailed = @ \/ (op.clean = "removing" /\ ~ok)]
                EXCEPT !.at = [e \in Executors |-> IF op.at[e] = "unsubscribe" THEN "run"
                                                   ELSE op.at[e]]]
      BY ZenonT(60), <1>2 DEF Moved, Settled, OwnerType
    <2> QED  BY <1>5, <2>1
  <1> HIDE DEF at, P
  <1>7. /\ Sound(o, s, on) /\ o.pending = P /\ o.at = at /\ o.clean = op.clean /\ o.sub = op.sub
        /\ o.timer = op.timer /\ o.cur = op.cur /\ o.terminal = op.terminal
        /\ o.cancelling = op.cancelling
    BY <1>2, <1>3, <1>4, MovedSound
  <1>8. /\ clean \in Cleanups /\ (clean = "off" <=> op.clean = "off")
        /\ timer \in Gens /\ (timer = op.timer \/ timer = -1) /\ cf \in BOOLEAN
    BY <1>2 DEF OwnerType, Cleanups, Gens
  <1>9. o \in OwnerType
    BY <1>7 DEF Sound
  <1> HIDE DEF o, clean, timer, cf
  <1>10. /\ p \in OwnerType
         /\ p.kind = o.kind /\ p.gen = o.gen /\ p.terminal = o.terminal
         /\ p.cancelling = o.cancelling /\ p.evidence = o.evidence /\ p.queue = o.queue
         /\ p.inline = o.inline /\ p.at = o.at /\ p.cur = o.cur
         /\ p.pending = o.pending /\ p.timer = timer /\ p.sub = FALSE /\ p.clean = clean
         /\ p.thread = o.thread /\ p.fin = o.fin /\ p.success = o.success
         /\ p.confirm = o.confirm
    BY <1>8, <1>9 DEF OwnerType
  <1> HIDE DEF p
  <1>11. Sound(p, s, on)
    BY <1>7, <1>8, <1>10
       DEF Sound, Paths, Quiet, Confirmation, OwnerClaims, Evidence, Asks, Runs, Busy
  <1>12. CASE op' = p
    BY <1>1, <1>2, <1>4, <1>7, <1>10, <1>11, <1>12, LinkedStep
  <1>13. CASE op' = FailOwner(f) /\ op.at["pump"] = "unsubscribe"
    <2>1. "pump" \in Executors /\ "failing" \in Places \ {"exec"}
          /\ ("confirm" \in p.pending => p.cancelling \/ p.terminal)
      <3>1. "confirm" \in op.pending => op.cancelling \/ op.terminal
        BY <1>2, <1>13 DEF Sound, Confirmation, OwnerClaims
      <3> QED  BY <1>4, <1>7, <1>10, <3>1 DEF Executors, Places
    <2>2. Sound(f, s, on) /\ f.pending = p.pending
      BY <1>11, <2>1, PlaceSound
    <2> HIDE DEF f
    <2>3. Sound(op', s, on) /\ op'.pending = p.pending
      BY <1>13, <2>2, FailOwnerSound
    <2> QED  BY <1>1, <1>2, <1>4, <1>7, <1>10, <2>3, LinkedStep
  <1> QED  BY <1>6, <1>12, <1>13

\* A host answers, or throws.
LEMMA HostSettlesStep == ASSUME RuntimeInv, HostSettles PROVE RuntimeInv'
  <1> DEFINE o == Settled("host")
  <1>1. Workflow /\ owner' = owner /\ next' = next /\ result' = result /\ destroyed' = destroyed
        /\ ble' = ble
    BY DEF HostSettles
  <1>2. Sound(op, core.status, ble.connected) /\ destroyed \in BOOLEAN
    BY <1>1, WorkflowFacts
  <1>3. /\ Sound(o, core.status, ble.connected) /\ o.pending = op.pending \ {"host"}
        /\ o.at = op.at /\ o.cur = op.cur /\ o.terminal = op.terminal
        /\ o.cancelling = op.cancelling
    BY <1>2, SettledSound
  <1>4. Answer(o, "host") \/ HostFailsFrom(o, "host")
    BY DEF HostSettles, HostFails
  <1> HIDE DEF o
  <1>5. Sound(op', core'.status, ble.connected) /\ op'.pending = o.pending
    BY <1>2, <1>3, <1>4, AnswerSound, HostFailsSound
  <1> QED  BY <1>1, <1>2, <1>3, <1>5, LinkedStep

\* A confirmation is sent only while its owner is neither cancelled nor terminal.
LEMMA ConfirmAttemptedStep == ASSUME RuntimeInv, ConfirmAttempted PROVE RuntimeInv'
  <1>1. Workflow /\ owner' = owner /\ next' = next /\ result' = result /\ destroyed' = destroyed
        /\ ble' = ble /\ core' = core /\ "confirm" \in op.pending /\ op.confirm = "no"
        /\ ~ op.cancelling /\ ~ op.terminal /\ op' = [op EXCEPT !.confirm = "attempted"]
    BY DEF ConfirmAttempted
  <1>2. Sound(op, core.status, ble.connected) /\ op \in OwnerType /\ destroyed \in BOOLEAN
    BY <1>1, WorkflowFacts
  <1>3. /\ op' \in OwnerType
        /\ op'.kind = op.kind /\ op'.gen = op.gen /\ op'.terminal = op.terminal
        /\ op'.cancelling = op.cancelling /\ op'.evidence = op.evidence /\ op'.queue = op.queue
        /\ op'.inline = op.inline /\ op'.at = op.at /\ op'.cur = op.cur
        /\ op'.pending = op.pending /\ op'.timer = op.timer /\ op'.sub = op.sub
        /\ op'.clean = op.clean /\ op'.thread = op.thread /\ op'.fin = op.fin
        /\ op'.success = op.success /\ op'.confirm = "attempted"
    <2>1. "attempted" \in Confirms
      BY DEF Confirms
    <2> QED  BY <1>1, <1>2, <2>1 DEF OwnerType
  <1>4. Sound(op', core.status, ble.connected)
    BY <1>1, <1>2, <1>3
       DEF Sound, Paths, Quiet, Confirmation, OwnerClaims, Evidence, Asks, Runs, Busy
  <1> QED  BY <1>1, <1>2, <1>3, <1>4, LinkedStep

\* The answer of the device reaches the host: the recording is confirmed, or
\* nobody knows whether it is, or it was never asked.
LEMMA ConfirmSettlesStep == ASSUME RuntimeInv, ConfirmSettles PROVE RuntimeInv'
  <1> DEFINE s  == core.status
             on == ble.connected
             P  == op.pending \ {"confirm"}
             With(c) == [op EXCEPT !.pending = P, !.confirm = c]
  <1>1. Workflow /\ owner' = owner /\ next' = next /\ result' = result /\ destroyed' = destroyed
        /\ "confirm" \in op.pending
    BY DEF ConfirmSettles
  <1>2. /\ Sound(op, s, on) /\ op \in OwnerType /\ op.pending \in SUBSET Pendings
        /\ op.confirm \in Confirms /\ s \in CoreStatuses
        /\ ble \in [link : BOOLEAN, connected : BOOLEAN, poisoned : BOOLEAN]
        /\ destroyed \in BOOLEAN /\ (ble.link => on \/ "lateLink" \in op.pending)
    BY <1>1, WorkflowFacts DEF OwnerType
  <1>3. P \in SUBSET Pendings /\ "confirm" \notin P
        /\ ("lateLink" \in op.pending => "lateLink" \in P)
    BY <1>2
  <1> HIDE DEF P
  <1>4. ASSUME NEW c \in Confirms
        PROVE  /\ With(c) \in OwnerType
               /\ With(c).kind = op.kind /\ With(c).gen = op.gen /\ With(c).terminal = op.terminal
               /\ With(c).cancelling = op.cancelling /\ With(c).evidence = op.evidence
               /\ With(c).queue = op.queue /\ With(c).inline = op.inline
               /\ With(c).at = op.at /\ With(c).cur = op.cur
               /\ With(c).pending = P /\ With(c).timer = op.timer /\ With(c).sub = op.sub
               /\ With(c).clean = op.clean /\ With(c).thread = op.thread /\ With(c).fin = op.fin
               /\ With(c).success = op.success /\ With(c).confirm = c
    BY <1>2, <1>3 DEF OwnerType
  <1>5. CASE op.confirm = "attempted" /\ Answer(With("done"), "confirm") /\ ble' = ble
    <2> DEFINE o == With("done")
    <2>1. "done" \in Confirms
      BY DEF Confirms
    <2>2. /\ o \in OwnerType
          /\ o.kind = op.kind /\ o.gen = op.gen /\ o.terminal = op.terminal
          /\ o.cancelling = op.cancelling /\ o.evidence = op.evidence
          /\ o.queue = op.queue /\ o.inline = op.inline
          /\ o.at = op.at /\ o.cur = op.cur
          /\ o.pending = P /\ o.timer = op.timer /\ o.sub = op.sub
          /\ o.clean = op.clean /\ o.thread = op.thread /\ o.fin = op.fin
          /\ o.success = op.success /\ o.confirm = "done"
      BY <1>4, <2>1
    <2>3. Answer(o, "confirm")
      BY <1>5
    <2> HIDE DEF With, o
    <2>4. ~ op.cancelling /\ op.fin # "cancelled" /\ (s = "cancelled" => op.terminal)
      BY <1>2, <1>5 DEF Sound, Confirmation, OwnerClaims, Evidence
    <2>5. Ready(o, on)
      BY <1>2, <1>3, <2>2, <2>4
         DEF Sound, Ready, Paths, Quiet, Confirmation, OwnerClaims, Evidence, Asks, Runs, Busy
    <2>6. CASE op.terminal
      <3>1. Sound(o, s, on)
        BY <2>2, <2>5, <2>6 DEF Ready, Sound, Confirmation
      <3>2. Sound(op', core'.status, on) /\ op'.pending = P
        BY <1>2, <1>3, <2>2, <2>3, <3>1, AnswerSound
      <3> QED  BY <1>1, <1>2, <1>3, <1>5, <3>2, LinkedStep
    <2>7. CASE ~ op.terminal
      <3>1. Awaiting("confirm") = {"pump"}
        <4>1. op.at["inline"] # "exec" /\ op.at["pump"] = "exec" /\ op.cur["pump"] = "confirm"
          BY <1>1, <1>2, <2>4, <2>7 DEF Sound, Paths, Confirmation, OwnerClaims
        <4> QED  BY <4>1 DEF Awaiting, Executors
      <3>2. Dispatch(o, "pump")
        BY <2>3, <3>1 DEF Answer
      <3>3. Dispatches(o, "pump")
        BY <1>3, <2>2 DEF Dispatches
      <3>4. Sound(op', core'.status, on) /\ op'.pending = P
        BY <2>2, <2>5, <3>2, <3>3, DispatchSound DEF Executors
      <3> QED  BY <1>1, <1>2, <1>3, <1>5, <3>4, LinkedStep
    <2> QED  BY <2>6, <2>7
  <1>6. ASSUME NEW c \in Confirms, HostFailsFrom(With(c), "confirm"), c # "attempted", c # "done" \/ op.confirm = "done",
               op.confirm = "attempted" => c = "uncertain", op.confirm # "attempted" => c = op.confirm
        PROVE  Sound(op', core'.status, on) /\ op'.pending = P
    <2> DEFINE o == With(c)
    <2>2. /\ o \in OwnerType
          /\ o.kind = op.kind /\ o.gen = op.gen /\ o.terminal = op.terminal
          /\ o.cancelling = op.cancelling /\ o.evidence = op.evidence
          /\ o.queue = op.queue /\ o.inline = op.inline
          /\ o.at = op.at /\ o.cur = op.cur
          /\ o.pending = P /\ o.timer = op.timer /\ o.sub = op.sub
          /\ o.clean = op.clean /\ o.thread = op.thread /\ o.fin = op.fin
          /\ o.success = op.success /\ o.confirm = c
      BY <1>4
    <2>3. HostFailsFrom(o, "confirm")
      BY <1>6
    <2> HIDE DEF With, o
    <2>4. Paths(o) /\ Quiet(o, s, on)
      BY <1>2, <2>2 DEF Sound, Paths, Quiet, Asks, Runs, Busy
    <2>5. Confirmation(o, s)
      BY <1>2, <1>3, <1>6, <2>2 DEF Sound, Confirmation, OwnerClaims
    <2>6. Evidence(o, s)
      BY <1>2, <1>6, <2>2 DEF Sound, Confirmation, OwnerClaims, Evidence, Asks
    <2>7. Sound(o, s, on)
      BY <1>2, <2>2, <2>4, <2>5, <2>6 DEF Sound
    <2> QED  BY <1>2, <1>3, <2>2, <2>3, <2>7, HostFailsSound
  <1>7. CASE /\ op.confirm = "attempted" /\ ble' = [ble EXCEPT !.poisoned = ble.connected]
             /\ HostFailsFrom(With("uncertain"), "confirm")
    <2>1. "uncertain" \in Confirms
      BY DEF Confirms
    <2>2. Sound(op', core'.status, on) /\ op'.pending = P
      BY <1>6, <1>7, <2>1
    <2>3. /\ ble' \in [link : BOOLEAN, connected : BOOLEAN, poisoned : BOOLEAN]
          /\ ble'.connected = on /\ ble'.link = ble.link
      BY <1>2, <1>7
    <2> QED  BY <1>1, <1>2, <1>3, <2>2, <2>3, WorkflowStep
  <1>8. CASE op.confirm # "attempted" /\ ble' = ble /\ HostFailsFrom(With(op.confirm), "confirm")
    <2>1. Sound(op', core'.status, on) /\ op'.pending = P
      BY <1>2, <1>6, <1>8
    <2> QED  BY <1>1, <1>2, <1>3, <1>8, <2>1, LinkedStep
  <1>9. /\ [Settled("confirm") EXCEPT !.confirm = "done"] = With("done")
        /\ [Settled("confirm") EXCEPT !.confirm = "uncertain"] = With("uncertain")
        /\ Settled("confirm") = With(op.confirm)
    BY <1>2 DEF Settled, P, OwnerType
  <1>10. \/ op.confirm = "attempted" /\ Answer(With("done"), "confirm") /\ ble' = ble
         \/ /\ op.confirm = "attempted" /\ ble' = [ble EXCEPT !.poisoned = ble.connected]
            /\ HostFailsFrom(With("uncertain"), "confirm")
         \/ op.confirm # "attempted" /\ ble' = ble /\ HostFailsFrom(With(op.confirm), "confirm")
    <2> HIDE DEF With
    <2> QED  BY <1>9 DEF ConfirmSettles, HostFails
  <1> QED  BY <1>5, <1>7, <1>8, <1>10

-----------------------------------------------------------------------------
(* The executors of effects *)

\* The pump takes the next effect.
LEMMA PumpNextStep == ASSUME RuntimeInv, PumpNext PROVE RuntimeInv'
  <1> DEFINE o == [op EXCEPT !.queue = Tail(op.queue)]
             eff == Head(op.queue)
  <1>1. /\ Workflow /\ owner' = owner /\ next' = next /\ result' = result /\ destroyed' = destroyed
        /\ ble' = ble /\ op.at["pump"] = "run" /\ ~ op.terminal /\ op.queue # <<>>
        /\ Execute(o, "pump", eff)
    BY DEF PumpNext
  <1>2. Sound(op, core.status, ble.connected) /\ op \in OwnerType /\ destroyed \in BOOLEAN
    BY <1>1, WorkflowFacts
  <1>3. op.queue \in Seq(Effects)
    BY <1>2 DEF OwnerType
  <1>4. /\ Tail(op.queue) \in Seq(Effects) /\ eff \in Effects /\ Has(op.queue, eff)
        /\ \A e : Has(Tail(op.queue), e) => Has(op.queue, e)
    BY <1>1, <1>3, QueueFacts
  <1>5. /\ o \in OwnerType
        /\ o.kind = op.kind /\ o.gen = op.gen /\ o.terminal = op.terminal
        /\ o.cancelling = op.cancelling /\ o.evidence = op.evidence /\ o.queue = Tail(op.queue)
        /\ o.inline = op.inline /\ o.at = op.at /\ o.cur = op.cur
        /\ o.pending = op.pending /\ o.timer = op.timer /\ o.sub = op.sub /\ o.clean = op.clean
        /\ o.thread = op.thread /\ o.fin = op.fin /\ o.success = op.success
        /\ o.confirm = op.confirm
    BY <1>2, <1>4 DEF OwnerType
  <1> HIDE DEF o, eff
  <1>6. ~ (op.cancelling /\ ble.connected /\ core.status = "running")
    BY <1>1, <1>2 DEF Sound, Quiet
  <1>7. /\ op.cancelling /\ ble.connected => eff # "subscribe"
        /\ eff = "cancelled" => core.status = "cancelled"
        /\ eff = "completed" => core.status = "completed"
    BY <1>1, <1>2, <1>4 DEF Sound, Quiet, Evidence, Asks
  <1>8. Sound(o, core.status, ble.connected)
    <2>1. \A e : Asks(o, e) => Asks(op, e)
      BY <1>4, <1>5 DEF Asks
    <2> QED  BY <1>2, <1>5, <1>6, <2>1
            DEF Sound, Paths, Quiet, Confirmation, OwnerClaims, Evidence, Runs, Busy
  <1>9. Sound(op', core'.status, ble.connected) /\ o.pending \subseteq op'.pending
    BY <1>1, <1>4, <1>5, <1>6, <1>7, <1>8, ExecuteSound DEF Executors
  <1> QED  BY <1>1, <1>2, <1>5, <1>9, LinkedStep

\* The executor of a cancellation after a failure takes its next effect.
LEMMA InlineNextStep == ASSUME RuntimeInv, InlineNext PROVE RuntimeInv'
  <1> DEFINE o == [op EXCEPT !.inline = Tail(op.inline)]
             eff == Head(op.inline)
  <1>1. /\ Workflow /\ owner' = owner /\ next' = next /\ result' = result /\ destroyed' = destroyed
        /\ ble' = ble /\ op.at["inline"] = "run" /\ ~ op.terminal /\ op.inline # <<>>
        /\ op.thread = "inline" /\ Execute(o, "inline", eff)
    BY DEF InlineNext
  <1>2. Sound(op, core.status, ble.connected) /\ op \in OwnerType /\ destroyed \in BOOLEAN
    BY <1>1, WorkflowFacts
  <1>3. op.inline \in Seq(Effects) /\ op.cancelling
    BY <1>1, <1>2 DEF OwnerType, Sound, Paths
  <1>4. /\ Tail(op.inline) \in Seq(Effects) /\ eff \in Effects /\ Has(op.inline, eff)
        /\ \A e : Has(Tail(op.inline), e) => Has(op.inline, e)
    BY <1>1, <1>3, QueueFacts
  <1>5. /\ o \in OwnerType
        /\ o.kind = op.kind /\ o.gen = op.gen /\ o.terminal = op.terminal
        /\ o.cancelling = op.cancelling /\ o.evidence = op.evidence /\ o.queue = op.queue
        /\ o.inline = Tail(op.inline) /\ o.at = op.at /\ o.cur = op.cur
        /\ o.pending = op.pending /\ o.timer = op.timer /\ o.sub = op.sub /\ o.clean = op.clean
        /\ o.thread = op.thread /\ o.fin = op.fin /\ o.success = op.success
        /\ o.confirm = op.confirm
    BY <1>2, <1>4 DEF OwnerType
  <1> HIDE DEF o, eff
  <1>6. ~ (op.cancelling /\ ble.connected /\ core.status = "running")
    BY <1>1, <1>2 DEF Sound, Quiet
  <1>7. /\ op.cancelling /\ ble.connected => eff # "subscribe"
        /\ eff = "cancelled" => core.status = "cancelled"
        /\ eff = "completed" => core.status = "completed"
    BY <1>1, <1>2, <1>4 DEF Sound, Quiet, Evidence, Asks
  <1>8. Sound(o, core.status, ble.connected)
    <2>1. \A e : Asks(o, e) => Asks(op, e)
      BY <1>4, <1>5 DEF Asks
    <2> QED  BY <1>2, <1>3, <1>5, <1>6, <2>1
            DEF Sound, Paths, Quiet, Confirmation, OwnerClaims, Evidence, Runs, Busy
  <1>9. Sound(op', core'.status, ble.connected) /\ o.pending \subseteq op'.pending
    BY <1>1, <1>3, <1>4, <1>5, <1>6, <1>7, <1>8, ExecuteSound DEF Executors
  <1> QED  BY <1>1, <1>2, <1>5, <1>9, LinkedStep

\* The pump that finds nothing left ends the owner as its engine ended.
LEMMA PumpDrainedStep == ASSUME RuntimeInv, PumpDrained PROVE RuntimeInv'
  <1> DEFINE s == core.status
             on == ble.connected
             To(w) == [op EXCEPT !.at["pump"] = w]
  <1>1. /\ Workflow /\ owner' = owner /\ next' = next /\ result' = result /\ destroyed' = destroyed
        /\ ble' = ble /\ core' = core /\ op.at["pump"] = "run"
    BY DEF PumpDrained
  <1>2. Sound(op, s, on) /\ op \in OwnerType /\ destroyed \in BOOLEAN
    BY <1>1, WorkflowFacts
  <1>3. ASSUME NEW w \in {"idle", "finishing", "failing"}
        PROVE  Sound(To(w), s, on) /\ To(w).pending = op.pending
    <2>1. "confirm" \in op.pending => op.cancelling \/ op.terminal
      BY <1>1, <1>2 DEF Sound, Confirmation, OwnerClaims
    <2>2. "pump" \in Executors /\ w \in Places \ {"exec"}
      BY DEF Executors, Places
    <2> QED  BY <1>2, <2>1, <2>2, PlaceSound
  <1>4. /\ Sound(To("idle"), s, on) /\ To("idle").pending = op.pending
        /\ Sound(To("finishing"), s, on) /\ To("finishing").pending = op.pending
        /\ Sound(To("failing"), s, on) /\ To("failing").pending = op.pending
    BY <1>3
  <1>5. \/ op' = To("idle")
        \/ op' = FinishSuccess(To("finishing"), FALSE) /\ s = "completed"
        \/ op' = FailOwner(To("failing"))
        \/ op' = FinishCancelled(To("finishing")) /\ s = "cancelled"
        \/ op' = FinishFailure(To("finishing"))
    BY DEF PumpDrained
  <1> HIDE DEF To
  <1>6. Sound(op', s, on) /\ op'.pending = op.pending
    <2>1. CASE op' = To("idle")
      BY <1>4, <2>1
    <2>2. CASE op' = FinishSuccess(To("finishing"), FALSE) /\ s = "completed"
      BY <1>4, <2>2, FinishSuccessSound
    <2>3. CASE op' = FailOwner(To("failing"))
      BY <1>4, <2>3, FailOwnerSound
    <2>4. CASE op' = FinishCancelled(To("finishing")) /\ s = "cancelled"
      BY <1>4, <2>4, FinishCancelledSound
    <2>5. CASE op' = FinishFailure(To("finishing"))
      BY <1>4, <2>5, FinishFailureSound
    <2> QED  BY <1>5, <2>1, <2>2, <2>3, <2>4, <2>5
  <1> QED  BY <1>1, <1>2, <1>6, LinkedStep

\* The failure that began the cancellation ends the owner.
LEMMA InlineDoneStep == ASSUME RuntimeInv, InlineDone PROVE RuntimeInv'
  <1> DEFINE s == core.status
             on == ble.connected
             at == [op.at EXCEPT !["inline"] = "idle"]
             o  == [op EXCEPT !.thread = "waiting", !.inline = <<>>, !.at = at]
  <1>1. /\ Workflow /\ owner' = owner /\ next' = next /\ result' = result /\ destroyed' = destroyed
        /\ ble' = ble /\ core' = core /\ op.thread = "inline"
    BY DEF InlineDone
  <1>2. Sound(op, s, on) /\ op \in OwnerType /\ op.at \in [Executors -> Places]
        /\ destroyed \in BOOLEAN /\ op.cancelling
    BY <1>1, WorkflowFacts DEF Sound, Paths
  <1>3. op' = FinishFailure(o)
    BY <1>2 DEF InlineDone, OwnerType
  <1>4. /\ at \in [Executors -> Places] /\ at["inline"] = "idle" /\ at["pump"] = op.at["pump"]
        /\ \A e \in Executors : at[e] = op.at[e] \/ at[e] = "idle"
        /\ <<>> \in Seq(Effects) /\ "waiting" \in Threads
    BY <1>2 DEF Executors, Places, Threads
  <1> HIDE DEF at
  <1>5. /\ o \in OwnerType
        /\ o.kind = op.kind /\ o.gen = op.gen /\ o.terminal = op.terminal
        /\ o.cancelling = op.cancelling /\ o.evidence = op.evidence /\ o.queue = op.queue
        /\ o.inline = <<>> /\ o.at = at /\ o.cur = op.cur
        /\ o.pending = op.pending /\ o.timer = op.timer /\ o.sub = op.sub /\ o.clean = op.clean
        /\ o.thread = "waiting" /\ o.fin = op.fin /\ o.success = op.success
        /\ o.confirm = op.confirm
    BY <1>2, <1>4 DEF OwnerType
  <1> HIDE DEF o
  <1>6. Paths(o)
    BY <1>2, <1>5 DEF Sound, Paths
  <1>7. Quiet(o, s, on)
    BY <1>2, <1>4, <1>5, QueueFacts DEF Sound, Quiet, Asks, Runs, Busy, Has
  <1>8. Confirmation(o, s)
    BY <1>2, <1>4, <1>5 DEF Sound, Confirmation, OwnerClaims
  <1>9. Evidence(o, s)
    BY <1>2, <1>5, QueueFacts DEF Sound, Evidence, Asks, Has
  <1>10. Sound(o, s, on)
    BY <1>2, <1>5, <1>6, <1>7, <1>8, <1>9 DEF Sound
  <1>11. Sound(op', s, on) /\ op'.pending = op.pending
    BY <1>3, <1>5, <1>10, FinishFailureSound
  <1> QED  BY <1>1, <1>2, <1>11, LinkedStep

-----------------------------------------------------------------------------
(* Callbacks, the cancellation and the cleanup *)

\* A timer of the present generation reaches the engine, an older one does not.
LEMMA TimerFiresStep == ASSUME RuntimeInv, TimerFires PROVE RuntimeInv'
  <1> DEFINE s == core.status
             on == ble.connected
             o  == [op EXCEPT !.timer = -1]
  <1>1. /\ Workflow /\ owner' = owner /\ next' = next /\ result' = result /\ destroyed' = destroyed
        /\ ble' = ble
    BY DEF TimerFires
  <1>2. Sound(op, s, on) /\ op \in OwnerType /\ destroyed \in BOOLEAN
    BY <1>1, WorkflowFacts
  <1>3. \/ op' = o /\ core' = core
        \/ Dispatch(o, "none") /\ ~ op.terminal /\ op.timer = op.gen
    BY DEF TimerFires
  <1>4. /\ o \in OwnerType
        /\ o.kind = op.kind /\ o.gen = op.gen /\ o.terminal = op.terminal
        /\ o.cancelling = op.cancelling /\ o.evidence = op.evidence /\ o.queue = op.queue
        /\ o.inline = op.inline /\ o.at = op.at /\ o.cur = op.cur
        /\ o.pending = op.pending /\ o.timer = -1 /\ o.sub = op.sub /\ o.clean = op.clean
        /\ o.thread = op.thread /\ o.fin = op.fin /\ o.success = op.success
        /\ o.confirm = op.confirm
    BY <1>2 DEF OwnerType, Gens
  <1> HIDE DEF o
  <1>5. Sound(o, s, on)
    BY <1>2, <1>4 DEF Sound, Paths, Quiet, Confirmation, OwnerClaims, Evidence, Asks, Runs, Busy
  <1>6. CASE op' = o /\ core' = core
    BY <1>1, <1>2, <1>4, <1>5, <1>6, LinkedStep
  <1>7. CASE Dispatch(o, "none") /\ ~ op.terminal /\ op.timer = op.gen
    <2>1. ~ (op.cancelling /\ on /\ s = "running")
      BY <1>2, <1>7 DEF Sound, Paths, Quiet
    <2>2. Ready(o, on) /\ Dispatches(o, "none")
      BY <1>4, <1>5, <2>1, SoundReady DEF Dispatches
    <2>3. Sound(op', core'.status, on) /\ op'.pending = o.pending
      BY <1>7, <2>2, DispatchSound
    <2> QED  BY <1>1, <1>2, <1>4, <2>3, LinkedStep
  <1> QED  BY <1>3, <1>6, <1>7

\* A notification reaches the engine of an owner that is not cancelled.
LEMMA NotifiedStep == ASSUME RuntimeInv, Notified PROVE RuntimeInv'
  <1>1. /\ Workflow /\ owner' = owner /\ next' = next /\ result' = result /\ destroyed' = destroyed
        /\ ble' = ble /\ op.gen = 0 /\ Dispatch(op, "none")
    BY DEF Notified
  <1>2. Sound(op, core.status, ble.connected) /\ destroyed \in BOOLEAN
    BY <1>1, WorkflowFacts
  <1>3. ~ op.cancelling
    BY <1>1, <1>2 DEF Sound, Paths
  <1>4. Ready(op, ble.connected) /\ Dispatches(op, "none")
    BY <1>2, <1>3, SoundReady DEF Dispatches
  <1>5. Sound(op', core'.status, ble.connected) /\ op'.pending = op.pending
    BY <1>1, <1>4, DispatchSound
  <1> QED  BY <1>1, <1>2, <1>5, LinkedStep

\* The loss of the link, whoever owns the runtime.
LEMMA LinkDropsStep == ASSUME RuntimeInv, LinkLost PROVE RuntimeInv'
  <1>1. /\ owner' = owner /\ next' = next /\ result' = result /\ destroyed' = destroyed
        /\ ble' = [ble EXCEPT !.link = FALSE, !.connected = FALSE, !.poisoned = @ /\ ~ ble.connected]
    BY DEF LinkLost
  <1>2. /\ RuntimeTypeOK /\ op \in OwnerType
        /\ ble \in [link : BOOLEAN, connected : BOOLEAN, poisoned : BOOLEAN]
    BY DEF RuntimeInv, RuntimeTypeOK
  <1>3. /\ ble' \in [link : BOOLEAN, connected : BOOLEAN, poisoned : BOOLEAN]
        /\ ble'.link = FALSE /\ ble'.connected = FALSE
    BY <1>1, <1>2
  <1>4. CASE op' = op /\ core' = core
    <2>1. Workflow => Sound(op, core.status, FALSE)
      BY LinkSound DEF RuntimeInv
    <2> QED  BY <1>1, <1>3, <1>4, <2>1 DEF RuntimeInv, RuntimeTypeOK, Workflow, ReleasedClean, Linked
  <1>5. CASE owner # 0 /\ op.kind = "direct" /\ core' = core
             /\ op' = [op EXCEPT !.aborted = TRUE, !.failure = TRUE]
    <2>1. op' \in OwnerType /\ op'.kind = op.kind /\ op'.pending = op.pending /\ op'.sub = op.sub
      BY <1>2, <1>5 DEF OwnerType
    <2> QED  BY <1>1, <1>3, <1>5, <2>1 DEF RuntimeInv, RuntimeTypeOK, Workflow, ReleasedClean, Linked
  <1>6. CASE Workflow /\ Dispatch(op, "none")
    <2>1. Sound(op, core.status, FALSE)
      BY <1>6, LinkSound DEF RuntimeInv
    <2>2. Ready(op, FALSE) /\ Dispatches(op, "none")
      BY <2>1, SoundReady DEF Dispatches
    <2>3. Sound(op', core'.status, FALSE)
      BY <1>6, <2>2, DispatchSound
    <2> QED  BY <1>1, <1>2, <1>3, <1>6, <2>3, WorkflowStep DEF RuntimeTypeOK
  <1>7. \/ op' = op /\ core' = core
        \/ owner # 0 /\ op.kind = "direct" /\ core' = core
             /\ op' = [op EXCEPT !.aborted = TRUE, !.failure = TRUE]
        \/ Workflow /\ Dispatch(op, "none")
    BY DEF LinkLost, RuntimeInv, Workflow
  <1> QED  BY <1>4, <1>5, <1>6, <1>7

\* The application cancels a workflow.
LEMMA CancelStep == ASSUME RuntimeInv, CancelRun PROVE RuntimeInv'
  <1>1. /\ Workflow /\ owner' = owner /\ next' = next /\ result' = result /\ destroyed' = destroyed
        /\ ble' = ble /\ core' = core /\ ~ op.terminal /\ op' = EnterCancellation(op)
    BY DEF CancelRun
  <1>2. Sound(op, core.status, ble.connected) /\ destroyed \in BOOLEAN
    BY <1>1, WorkflowFacts
  <1>3. Sound(op', core.status, ble.connected) /\ op'.pending = op.pending
    BY <1>1, <1>2, EnterCancellationSound
  <1> QED  BY <1>1, <1>2, <1>3, LinkedStep

\* The client is destroyed.
LEMMA DestroyStep == ASSUME RuntimeInv, DestroyRuntime PROVE RuntimeInv'
  <1>1. /\ owner' = owner /\ next' = next /\ result' = result /\ destroyed' = TRUE
        /\ ble' = ble /\ core' = core
        /\ op' = IF owner = 0 THEN op
                 ELSE IF op.kind = "direct" THEN [op EXCEPT !.aborted = TRUE]
                 ELSE IF op.terminal THEN op ELSE EnterCancellation(op)
    BY DEF DestroyRuntime
  <1>2. op \in OwnerType
    BY DEF RuntimeInv, RuntimeTypeOK
  <1>3. CASE owner = 0
    BY <1>1, <1>3 DEF RuntimeInv, RuntimeTypeOK, Workflow, ReleasedClean, Linked
  <1>4. CASE owner # 0 /\ op.kind = "direct"
    <2>1. op' = [op EXCEPT !.aborted = TRUE]
      BY <1>1, <1>4
    <2>2. op' \in OwnerType /\ op'.kind = op.kind /\ op'.pending = op.pending /\ op'.sub = op.sub
      BY <1>2, <2>1 DEF OwnerType
    <2> QED  BY <1>1, <1>4, <2>2 DEF RuntimeInv, RuntimeTypeOK, Workflow, ReleasedClean, Linked
  <1>5. CASE Workflow
    <2>1. Sound(op, core.status, ble.connected) /\ op.kind = "workflow" /\ owner # 0
      BY <1>5, WorkflowFacts DEF Workflow
    <2>2. \/ op.terminal /\ op' = op
          \/ ~ op.terminal /\ op' = EnterCancellation(op)
      BY <1>1, <2>1
    <2>3. Sound(op', core.status, ble.connected) /\ op'.pending = op.pending
      BY <2>1, <2>2, EnterCancellationSound
    <2> QED  BY <1>1, <1>5, <2>3, LinkedStep
  <1> QED  BY <1>3, <1>4, <1>5 DEF RuntimeInv, Workflow

\* The cleanup begins only under a cancellation or an end.
LEMMA CleanupStartsStep == ASSUME RuntimeInv, CleanupStarts PROVE RuntimeInv'
  <1> DEFINE clean == IF op.thread = "cleanup" \/ op.fin # "off" THEN "hosts" ELSE "subs"
  <1>1. /\ Workflow /\ owner' = owner /\ next' = next /\ result' = result /\ destroyed' = destroyed
        /\ ble' = ble /\ core' = core /\ Cleaning /\ op' = [op EXCEPT !.clean = clean]
    BY DEF CleanupStarts
  <1>2. Sound(op, core.status, ble.connected) /\ op \in OwnerType /\ destroyed \in BOOLEAN
    BY <1>1, WorkflowFacts
  <1>3. clean \in Cleanups /\ clean # "done"
    BY DEF Cleanups
  <1> HIDE DEF clean
  <1>4. /\ op' \in OwnerType
        /\ op'.kind = op.kind /\ op'.gen = op.gen /\ op'.terminal = op.terminal
        /\ op'.cancelling = op.cancelling /\ op'.evidence = op.evidence /\ op'.queue = op.queue
        /\ op'.inline = op.inline /\ op'.at = op.at /\ op'.cur = op.cur
        /\ op'.pending = op.pending /\ op'.timer = op.timer /\ op'.sub = op.sub
        /\ op'.clean = clean /\ op'.thread = op.thread /\ op'.fin = op.fin
        /\ op'.success = op.success /\ op'.confirm = op.confirm
    BY <1>1, <1>2, <1>3 DEF OwnerType
  <1>5. op.cancelling \/ op.terminal
    BY <1>1, <1>2 DEF Cleaning, Sound, Paths
  <1>6. Sound(op', core.status, ble.connected)
    BY <1>2, <1>3, <1>4, <1>5
       DEF Sound, Paths, Quiet, Confirmation, OwnerClaims, Evidence, Asks, Runs, Busy
  <1> QED  BY <1>1, <1>2, <1>4, <1>6, LinkedStep

\* The hosts were cancelled.
LEMMA HostsCancelledStep == ASSUME RuntimeInv, HostsCancelled PROVE RuntimeInv'
  <1>1. /\ Workflow /\ owner' = owner /\ next' = next /\ result' = result /\ destroyed' = destroyed
        /\ ble' = ble /\ core' = core /\ op.clean = "hosts"
    BY DEF HostsCancelled
  <1>2. Sound(op, core.status, ble.connected) /\ op \in OwnerType /\ destroyed \in BOOLEAN
    BY <1>1, WorkflowFacts
  <1>3. PICK ok \in BOOLEAN : op' = [op EXCEPT !.clean = "subs", !.cleanFailed = @ \/ ~ok]
    BY DEF HostsCancelled
  <1>4. /\ op' \in OwnerType
        /\ op'.kind = op.kind /\ op'.gen = op.gen /\ op'.terminal = op.terminal
        /\ op'.cancelling = op.cancelling /\ op'.evidence = op.evidence /\ op'.queue = op.queue
        /\ op'.inline = op.inline /\ op'.at = op.at /\ op'.cur = op.cur
        /\ op'.pending = op.pending /\ op'.timer = op.timer /\ op'.sub = op.sub
        /\ op'.clean = "subs" /\ op'.thread = op.thread /\ op'.fin = op.fin
        /\ op'.success = op.success /\ op'.confirm = op.confirm
    <2> DEFINE cf == op.cleanFailed \/ ~ok
    <2>1. op' = [op EXCEPT !.clean = "subs", !.cleanFailed = cf]
      BY <1>3
    <2>2. cf \in BOOLEAN /\ "subs" \in Cleanups
      BY DEF Cleanups
    <2> HIDE DEF cf
    <2> QED  BY <1>2, <2>1, <2>2 DEF OwnerType
  <1>5. Sound(op', core.status, ble.connected)
    BY <1>1, <1>2, <1>4
       DEF Sound, Paths, Quiet, Confirmation, OwnerClaims, Evidence, Asks, Runs, Busy
  <1> QED  BY <1>1, <1>2, <1>4, <1>5, LinkedStep

\* The cleanup is done only without a subscription.
LEMMA CleanupSubscriptionsStep == ASSUME RuntimeInv, CleanupSubscriptions PROVE RuntimeInv'
  <1> DEFINE P == op.pending \cup {"remove"}
  <1>1. /\ Workflow /\ owner' = owner /\ next' = next /\ result' = result /\ destroyed' = destroyed
        /\ ble' = ble /\ core' = core /\ op.clean = "subs"
        /\ op' = IF op.sub THEN [op EXCEPT !.clean = "removing", !.pending = P]
                 ELSE [op EXCEPT !.clean = "done", !.timer = -1]
    BY DEF CleanupSubscriptions
  <1>2. Sound(op, core.status, ble.connected) /\ op \in OwnerType /\ destroyed \in BOOLEAN
        /\ op.pending \in SUBSET Pendings
    BY <1>1, WorkflowFacts
  <1>3. P \in SUBSET Pendings /\ ("confirm" \in P <=> "confirm" \in op.pending)
        /\ op.pending \subseteq P
    BY <1>2 DEF Pendings
  <1>4. {"removing", "done"} \subseteq Cleanups /\ -1 \in Gens
    BY DEF Cleanups, Gens
  <1> HIDE DEF P
  <1>5. CASE op.sub
    <2>1. /\ op' \in OwnerType
          /\ op'.kind = op.kind /\ op'.gen = op.gen /\ op'.terminal = op.terminal
          /\ op'.cancelling = op.cancelling /\ op'.evidence = op.evidence /\ op'.queue = op.queue
          /\ op'.inline = op.inline /\ op'.at = op.at /\ op'.cur = op.cur
          /\ op'.pending = P /\ op'.timer = op.timer /\ op'.sub = op.sub
          /\ op'.clean = "removing" /\ op'.thread = op.thread /\ op'.fin = op.fin
          /\ op'.success = op.success /\ op'.confirm = op.confirm
      BY <1>1, <1>2, <1>3, <1>4, <1>5 DEF OwnerType
    <2>2. Sound(op', core.status, ble.connected)
      BY <1>1, <1>2, <1>3, <2>1
         DEF Sound, Paths, Quiet, Confirmation, OwnerClaims, Evidence, Asks, Runs, Busy
    <2> QED  BY <1>1, <1>2, <1>3, <2>1, <2>2, LinkedStep
  <1>6. CASE ~ op.sub
    <2>1. /\ op' \in OwnerType
          /\ op'.kind = op.kind /\ op'.gen = op.gen /\ op'.terminal = op.terminal
          /\ op'.cancelling = op.cancelling /\ op'.evidence = op.evidence /\ op'.queue = op.queue
          /\ op'.inline = op.inline /\ op'.at = op.at /\ op'.cur = op.cur
          /\ op'.pending = op.pending /\ op'.timer = -1 /\ op'.sub = op.sub
          /\ op'.clean = "done" /\ op'.thread = op.thread /\ op'.fin = op.fin
          /\ op'.success = op.success /\ op'.confirm = op.confirm
      BY <1>1, <1>2, <1>4, <1>6 DEF OwnerType
    <2>2. Sound(op', core.status, ble.connected)
      BY <1>1, <1>2, <1>6, <2>1
         DEF Sound, Paths, Quiet, Confirmation, OwnerClaims, Evidence, Asks, Runs, Busy
    <2> QED  BY <1>1, <1>2, <2>1, <2>2, LinkedStep
  <1> QED  BY <1>5, <1>6

\* The effects of a cancellation: nothing to subscribe to, nothing completed.
LEMMA CancelQueues ==
    ASSUME NEW q \in CancelMoves
    PROVE  q \in Seq(Effects) /\ ~ Has(q, "subscribe") /\ ~ Has(q, "completed")
  <1>1. CASE q = <<"cancelled">>
    BY <1>1 DEF Has, Effects
  <1>2. CASE q = <<"disconnect", "cancelled">>
    BY <1>2 DEF Has, Effects, Awaited
  <1>3. CASE q = <<"write", "unsubscribe", "host", "cancelled">>
    BY <1>3 DEF Has, Effects, Awaited
  <1> QED  BY <1>1, <1>2, <1>3 DEF CancelMoves

\* The engine is cancelled when all the cancelled generation began has settled.
LEMMA CoreCancelStep == ASSUME RuntimeInv, CoreOK, CoreCancel PROVE RuntimeInv'
  <1> DEFINE s == core.status
             on == ble.connected
             w == [op EXCEPT !.thread = "waiting"]
  <1>1. /\ Workflow /\ owner' = owner /\ next' = next /\ result' = result /\ destroyed' = destroyed
        /\ ble' = ble /\ op.thread = "cleanup" /\ op.pending = {}
    BY DEF CoreCancel, CleanedUp
  <1>2. Sound(op, s, on) /\ op \in OwnerType /\ destroyed \in BOOLEAN /\ op.cancelling
        /\ op.at \in [Executors -> Places]
    BY <1>1, WorkflowFacts DEF Sound, Paths
  <1>3. /\ w \in OwnerType
        /\ w.kind = op.kind /\ w.gen = op.gen /\ w.terminal = op.terminal
        /\ w.cancelling = op.cancelling /\ w.evidence = op.evidence /\ w.queue = op.queue
        /\ w.inline = op.inline /\ w.at = op.at /\ w.cur = op.cur
        /\ w.pending = op.pending /\ w.timer = op.timer /\ w.sub = op.sub /\ w.clean = op.clean
        /\ w.thread = "waiting" /\ w.fin = op.fin /\ w.success = op.success
        /\ w.confirm = op.confirm
    BY <1>2 DEF OwnerType, Threads
  <1>4. CASE s # "running"
    <2>1. core' = core /\ op' = FinishFailure(w)
      BY <1>4 DEF CoreCancel
    <2> HIDE DEF w
    <2>2. Sound(w, s, on)
      BY <1>2, <1>3
         DEF Sound, Paths, Quiet, Confirmation, OwnerClaims, Evidence, Asks, Runs, Busy
    <2>3. Sound(op', s, on) /\ op'.pending = w.pending
      BY <2>1, <2>2, FinishFailureSound
    <2> QED  BY <1>1, <1>2, <1>3, <2>1, <2>3, LinkedStep
  <1>5. CASE s = "running"
    <2>1. core' = [core EXCEPT !.status = "cancelled"]
      BY <1>5 DEF CoreCancel
    <2>2. PICK q \in CancelMoves :
            op' = IF op.byFailure
                  THEN [op EXCEPT !.thread = "inline", !.at["inline"] = "run",
                                  !.inline = IF op.terminal THEN <<>> ELSE q]
                  ELSE EnqueueEffects(w, q)
      BY <1>5 DEF CoreCancel
    <2>3. q \in Seq(Effects) /\ ~ Has(q, "subscribe") /\ ~ Has(q, "completed")
      BY CancelQueues
    <2>4. core'.status = "cancelled"
      BY <2>1 DEF CoreOK
    <2>5. /\ ~ Asks(op, "cancelled") /\ op.fin # "cancelled" /\ op.evidence = -1
          /\ op.success = "off" /\ ~ Asks(op, "completed")
          /\ (~ op.terminal => op.confirm = "no")
      BY <1>2, <1>5 DEF Sound, Evidence, Confirmation, OwnerClaims
    <2>6. CASE op.byFailure
      <3> DEFINE at == [op.at EXCEPT !["inline"] = "run"]
                 inline == IF op.terminal THEN <<>> ELSE q
                 p == [op EXCEPT !.thread = "inline", !.at = at, !.inline = inline]
      <3>1. op' = p
        BY <1>2, <2>2, <2>6 DEF OwnerType
      <3>2. /\ at \in [Executors -> Places] /\ at["inline"] = "run" /\ at["pump"] = op.at["pump"]
            /\ \A e \in Executors : at[e] = "exec" => op.at[e] = "exec"
            /\ inline \in Seq(Effects) /\ ~ Has(inline, "subscribe") /\ ~ Has(inline, "completed")
            /\ "inline" \in Threads
        BY <1>2, <2>3, QueueFacts DEF Executors, Places, Threads
      <3> HIDE DEF at, inline
      <3>3. /\ p \in OwnerType
            /\ p.kind = op.kind /\ p.gen = op.gen /\ p.terminal = op.terminal
            /\ p.cancelling = op.cancelling /\ p.evidence = op.evidence /\ p.queue = op.queue
            /\ p.inline = inline /\ p.at = at /\ p.cur = op.cur
            /\ p.pending = op.pending /\ p.timer = op.timer /\ p.sub = op.sub /\ p.clean = op.clean
            /\ p.thread = "inline" /\ p.fin = op.fin /\ p.success = op.success
            /\ p.confirm = op.confirm
        BY <1>2, <3>2 DEF OwnerType
      <3> HIDE DEF p
      <3>4. Paths(p)
        BY <1>2, <3>2, <3>3 DEF Sound, Paths
      <3>5. Quiet(p, "cancelled", on)
        BY <1>2, <3>2, <3>3 DEF Sound, Quiet, Asks, Runs
      <3>6. Confirmation(p, "cancelled")
        BY <1>2, <2>5, <3>2, <3>3 DEF Sound, Confirmation, OwnerClaims
      <3>7. Evidence(p, "cancelled")
        BY <1>2, <2>5, <3>2, <3>3 DEF Sound, Evidence, Asks
      <3>8. Sound(p, "cancelled", on)
        BY <1>2, <3>3, <3>4, <3>5, <3>6, <3>7 DEF Sound, CoreStatuses
      <3> QED  BY <1>1, <1>2, <2>4, <3>1, <3>3, <3>8, LinkedStep
    <2>7. CASE ~ op.byFailure
      <3>1. op' = EnqueueEffects(w, q)
        BY <2>2, <2>7
      <3> HIDE DEF w
      <3>2. Paths(w) /\ Quiet(w, "cancelled", on)
        BY <1>2, <1>3 DEF Sound, Paths, Quiet, Asks, Runs, Busy
      <3>3. Confirmation(w, "cancelled") /\ Evidence(w, "cancelled")
        BY <1>2, <1>3, <2>5 DEF Sound, Confirmation, OwnerClaims, Evidence, Asks
      <3>4. Sound(w, "cancelled", on)
        BY <1>2, <1>3, <3>2, <3>3 DEF Sound, CoreStatuses
      <3>5. Sound(op', "cancelled", on) /\ op'.pending = w.pending
        BY <2>3, <3>1, <3>4, EnqueueSound
      <3> QED  BY <1>1, <1>2, <1>3, <2>4, <3>5, LinkedStep
    <2> QED  BY <2>6, <2>7
  <1> QED  BY <1>4, <1>5

\* A success is terminal once it was handed off.
LEMMA HandedOffStep == ASSUME RuntimeInv, HandedOff PROVE RuntimeInv'
  <1>1. /\ Workflow /\ owner' = owner /\ next' = next /\ result' = result /\ destroyed' = destroyed
        /\ ble' = ble /\ core' = core /\ op.success = "handoff"
    BY DEF HandedOff
  <1>2. Sound(op, core.status, ble.connected) /\ op \in OwnerType /\ destroyed \in BOOLEAN
    BY <1>1, WorkflowFacts
  <1>3. PICK ok \in BOOLEAN :
          op' = [op EXCEPT !.completionFailure = @ \/ ~ok, !.terminal = TRUE,
                           !.queue = <<>>, !.success = "settling"]
    BY DEF HandedOff
  <1>4. /\ op' \in OwnerType
        /\ op'.kind = op.kind /\ op'.gen = op.gen /\ op'.terminal = TRUE
        /\ op'.cancelling = op.cancelling /\ op'.evidence = op.evidence /\ op'.queue = <<>>
        /\ op'.inline = op.inline /\ op'.at = op.at /\ op'.cur = op.cur
        /\ op'.pending = op.pending /\ op'.timer = op.timer /\ op'.sub = op.sub
        /\ op'.clean = op.clean /\ op'.thread = op.thread /\ op'.fin = op.fin
        /\ op'.success = "settling" /\ op'.confirm = op.confirm
    <2> DEFINE cf == op.completionFailure \/ ~ok
    <2>1. op' = [op EXCEPT !.completionFailure = cf, !.terminal = TRUE,
                           !.queue = <<>>, !.success = "settling"]
      BY <1>3
    <2>2. cf \in BOOLEAN /\ TRUE \in BOOLEAN /\ <<>> \in Seq(Effects)
      OBVIOUS
    <2> HIDE DEF cf
    <2> QED  BY <1>2, <2>1, <2>2 DEF OwnerType
  <1>5. Paths(op') /\ Quiet(op', core.status, ble.connected)
    BY <1>2, <1>4 DEF Sound, Paths, Quiet
  <1>6. Confirmation(op', core.status)
    BY <1>2, <1>4 DEF Sound, Confirmation, OwnerClaims
  <1>7. Evidence(op', core.status)
    BY <1>1, <1>2, <1>4, QueueFacts DEF Sound, Evidence, Asks, Has
  <1>8. Sound(op', core.status, ble.connected)
    BY <1>2, <1>4, <1>5, <1>6, <1>7 DEF Sound
  <1> QED  BY <1>1, <1>2, <1>4, <1>8, LinkedStep

-----------------------------------------------------------------------------
(* Owners come and go *)

\* An owner leaves when all it began has settled.
LEMMA SuccessReleasesStep == ASSUME RuntimeInv, SuccessReleases PROVE RuntimeInv'
  <1>1. /\ Workflow /\ owner' = 0 /\ next' = next /\ destroyed' = destroyed
        /\ ble' = ble /\ core' = core /\ CleanedUp /\ op' = [op EXCEPT !.success = "done"]
        /\ DOMAIN result' = DOMAIN result
    BY DEF SuccessReleases, ReleaseOwner
  <1>2. Sound(op, core.status, ble.connected) /\ op \in OwnerType
        /\ (ble.link => ble.connected \/ "lateLink" \in op.pending)
    BY <1>1, WorkflowFacts
  <1>3. op' \in OwnerType /\ op'.pending = op.pending /\ op'.sub = op.sub
    BY <1>1, <1>2 DEF OwnerType
  <1>4. op.pending = {} /\ ~ op.sub
    BY <1>1, <1>2 DEF CleanedUp, Sound, Paths
  <1> QED  BY <1>1, <1>2, <1>3, <1>4 DEF RuntimeInv, RuntimeTypeOK, Workflow, ReleasedClean, Linked

\* The same of an owner that failed or was cancelled.
LEMMA EndReleasesStep == ASSUME RuntimeInv, EndReleases PROVE RuntimeInv'
  <1>1. /\ Workflow /\ owner' = 0 /\ next' = next /\ destroyed' = destroyed
        /\ ble' = ble /\ core' = core /\ CleanedUp /\ op' = [op EXCEPT !.fin = "off"]
        /\ DOMAIN result' = DOMAIN result
    BY DEF EndReleases, ReleaseOwner
  <1>2. Sound(op, core.status, ble.connected) /\ op \in OwnerType
        /\ (ble.link => ble.connected \/ "lateLink" \in op.pending)
    BY <1>1, WorkflowFacts
  <1>3. op' \in OwnerType /\ op'.pending = op.pending /\ op'.sub = op.sub
    BY <1>1, <1>2 DEF OwnerType
  <1>4. op.pending = {} /\ ~ op.sub
    BY <1>1, <1>2 DEF CleanedUp, Sound, Paths
  <1> QED  BY <1>1, <1>2, <1>3, <1>4 DEF RuntimeInv, RuntimeTypeOK, Workflow, ReleasedClean, Linked

\* A workflow that has just been claimed.
Fresh(q) == [NoOwner EXCEPT !.kind = "workflow", !.queue = q, !.at["pump"] = "run"]

\* The fields before an operation.
LEMMA NoOwnerType == NoOwner \in OwnerType
  <1>1. /\ <<>> \in Seq(Effects) /\ [e \in Executors |-> "idle"] \in [Executors -> Places]
        /\ [e \in Executors |-> "none"] \in [Executors -> Effects \cup {"none"}]
        /\ {} \in SUBSET Pendings /\ -1 \in Gens
    BY DEF Places, Gens
  <1> QED  BY <1>1 DEF NoOwner, OwnerType, Kinds, Cleanups, Threads, Confirms

\* It begins sound.
LEMMA FreshSound ==
    ASSUME NEW k \in {"gatt", "connect"}, NEW on
    PROVE  Sound(Fresh(<<k>>), "running", on)
  <1> DEFINE at == [NoOwner.at EXCEPT !["pump"] = "run"]
             q  == <<k>>
             p  == [NoOwner EXCEPT !.kind = "workflow", !.queue = q, !.at = at]
  <1>1. Fresh(<<k>>) = p
    BY NoOwnerType DEF Fresh, OwnerType
  <1>2. /\ NoOwner.gen = 0 /\ NoOwner.terminal = FALSE
        /\ NoOwner.cancelling = FALSE /\ NoOwner.evidence = -1 /\ NoOwner.inline = <<>>
        /\ NoOwner.at = [e \in Executors |-> "idle"] /\ NoOwner.pending = {}
        /\ NoOwner.timer = -1 /\ NoOwner.sub = FALSE /\ NoOwner.clean = "off"
        /\ NoOwner.thread = "off" /\ NoOwner.fin = "off" /\ NoOwner.success = "off"
        /\ NoOwner.confirm = "no"
    BY DEF NoOwner
  <1>3. /\ at \in [Executors -> Places] /\ at["inline"] = "idle" /\ at["pump"] = "run"
        /\ q \in Seq(Effects) /\ "workflow" \in Kinds
    BY <1>2 DEF Executors, Places, Effects, Awaited, Kinds
  <1>4. \A e : Has(q, e) => e = k
    BY DEF Has
  <1> HIDE DEF at, q
  <1>5. /\ p \in OwnerType /\ p.kind = "workflow" /\ p.gen = 0 /\ p.terminal = FALSE
        /\ p.cancelling = FALSE /\ p.evidence = -1 /\ p.queue = q /\ p.inline = <<>>
        /\ p.at = at /\ p.pending = {} /\ p.timer = -1 /\ p.sub = FALSE /\ p.clean = "off"
        /\ p.thread = "off" /\ p.fin = "off" /\ p.success = "off" /\ p.confirm = "no"
    BY <1>2, <1>3, NoOwnerType DEF OwnerType
  <1> HIDE DEF p
  <1>6. Paths(p) /\ Quiet(p, "running", on) /\ Confirmation(p, "running")
    BY <1>3, <1>5 DEF Paths, Quiet, Confirmation, OwnerClaims
  <1>7. Evidence(p, "running")
    <2>1. \A e : ~ Has(<<>>, e)
      BY DEF Has
    <2> QED  BY <1>4, <1>5, <2>1 DEF Evidence, Asks
  <1> QED  BY <1>1, <1>5, <1>6, <1>7 DEF Sound, CoreStatuses

\* A workflow is claimed.
LEMMA RunStep == ASSUME RuntimeInv, Run PROVE RuntimeInv'
  <1> DEFINE k == IF ble.connected THEN "gatt" ELSE "connect"
  <1>1. /\ owner = 0 /\ owner' = next + 1 /\ next' = next + 1 /\ next < MaxOps
        /\ destroyed' = destroyed /\ ble' = ble
        /\ core' = [status |-> "running", left |-> MaxMoves]
        /\ op' = Fresh(<<k>>) /\ DOMAIN result' = DOMAIN result
    BY DEF Run, RunWith, Start, Free, Fresh
  <1>2. k \in {"gatt", "connect"}
    OBVIOUS
  <1> HIDE DEF k
  <1>3. next' \in 0..MaxOps /\ owner' \in Operations /\ owner' # 0
    BY <1>1, BoundsAssumption DEF RuntimeInv, RuntimeTypeOK, Operations
  <1>4. Sound(op', core'.status, ble.connected) /\ op'.kind = "workflow"
    BY <1>1, <1>2, FreshSound DEF Sound
  <1>5. op' \in OwnerType /\ core'.status \in CoreStatuses
    BY <1>4 DEF Sound
  <1> QED  BY <1>1, <1>3, <1>4, <1>5 DEF RuntimeInv, RuntimeTypeOK, Workflow, ReleasedClean, Linked

\* A direct operation hands the runtime to a workflow.
LEMMA DirectHandsOffStep == ASSUME RuntimeInv, DirectHandsOff PROVE RuntimeInv'
  <1>1. /\ owner # 0 /\ op.kind = "direct" /\ op.pending = {"gatt"}
        /\ owner' = next + 1 /\ next' = next + 1 /\ next < MaxOps
        /\ destroyed' = destroyed /\ ble' = ble
        /\ core' = [status |-> "running", left |-> MaxMoves]
        /\ op' = Fresh(<<"gatt">>) /\ DOMAIN result' = DOMAIN result
    BY DEF DirectHandsOff, Fresh
  <1>3. next' \in 0..MaxOps /\ owner' \in Operations /\ owner' # 0
    BY <1>1, BoundsAssumption DEF RuntimeInv, RuntimeTypeOK, Operations
  <1>4. Sound(op', core'.status, ble.connected) /\ op'.kind = "workflow"
    BY <1>1, FreshSound DEF Sound
  <1>5. op' \in OwnerType /\ core'.status \in CoreStatuses
    BY <1>4 DEF Sound
  <1> QED  BY <1>1, <1>3, <1>4, <1>5 DEF RuntimeInv, RuntimeTypeOK, Workflow, ReleasedClean, Linked

\* A direct operation is claimed: a read, or a disconnection.
LEMMA ExclusiveStep ==
    ASSUME RuntimeInv, RunExclusive \/ RunExclusiveDisconnect
    PROVE  RuntimeInv'
  <1>1. PICK k \in {"gatt", "disconnect"} :
          /\ owner = 0 /\ owner' = next + 1 /\ next' = next + 1 /\ next < MaxOps
          /\ destroyed' = destroyed /\ core' = core /\ DOMAIN result' = DOMAIN result
          /\ op' = [NoOwner EXCEPT !.kind = "direct", !.pending = {k}]
          /\ \/ ble' = ble /\ k = "gatt"
             \/ ble' = [ble EXCEPT !.connected = FALSE, !.poisoned = FALSE] /\ k = "disconnect"
    <2>1. CASE RunExclusive
      BY <2>1 DEF RunExclusive, Start, Free
    <2>2. CASE RunExclusiveDisconnect
      BY <2>2 DEF RunExclusiveDisconnect, Start, Free
    <2> QED  BY <2>1, <2>2
  <1>2. next' \in 0..MaxOps /\ owner' \in Operations /\ owner' # 0
    BY <1>1, BoundsAssumption DEF RuntimeInv, RuntimeTypeOK, Operations
  <1>3. /\ op' \in OwnerType /\ op'.kind = "direct" /\ op'.pending = {k} /\ op'.sub = FALSE
    <2>1. {k} \in SUBSET Pendings /\ "direct" \in Kinds /\ NoOwner.sub = FALSE
      BY DEF Pendings, Awaited, Kinds, NoOwner
    <2> QED  BY <1>1, <2>1, NoOwnerType DEF OwnerType
  <1>4. ble' \in [link : BOOLEAN, connected : BOOLEAN, poisoned : BOOLEAN]
        /\ ble'.link = ble.link /\ (k = "gatt" => ble'.connected = ble.connected)
    BY <1>1 DEF RuntimeInv, RuntimeTypeOK
  <1> QED  BY <1>1, <1>2, <1>3, <1>4 DEF RuntimeInv, RuntimeTypeOK, Workflow, ReleasedClean, Linked

\* A direct operation ends and leaves no link that connectedDevice does not name.
LEMMA DirectSettlesStep == ASSUME RuntimeInv, DirectSettles PROVE RuntimeInv'
  <1>1. /\ owner # 0 /\ op.kind = "direct" /\ owner' = 0 /\ next' = next
        /\ destroyed' = destroyed /\ core' = core /\ DOMAIN result' = DOMAIN result
        /\ op' = [op EXCEPT !.pending = {}]
        /\ ble' = IF "disconnect" \in op.pending THEN [ble EXCEPT !.link = FALSE] ELSE ble
    BY DEF DirectSettles
  <1>2. op \in OwnerType /\ ble \in [link : BOOLEAN, connected : BOOLEAN, poisoned : BOOLEAN]
        /\ ~ op.sub /\ (ble.link => ble.connected \/ "disconnect" \in op.pending)
    BY <1>1 DEF RuntimeInv, RuntimeTypeOK, Linked
  <1>3. op' \in OwnerType /\ op'.pending = {} /\ op'.sub = op.sub
    BY <1>1, <1>2 DEF OwnerType
  <1>4. ble' \in [link : BOOLEAN, connected : BOOLEAN, poisoned : BOOLEAN]
        /\ (ble'.link => ble'.connected)
    BY <1>1, <1>2
  <1> QED  BY <1>1, <1>2, <1>3, <1>4 DEF RuntimeInv, RuntimeTypeOK, Workflow, ReleasedClean, Linked

-----------------------------------------------------------------------------
(* The engine stays an engine *)

\* A dispatch takes the engine to a status of its own.
LEMMA DispatchCore ==
    ASSUME CoreOK, NEW o, NEW e, Dispatch(o, e)
    PROVE  CoreOK'
  <1>1. core.status \in CoreStatuses /\ core.left \in Nat
    BY DEF CoreOK
  <1>2. CASE core' = core
    BY <1>2 DEF CoreOK
  <1>3. CASE core' # core
    <2>1. PICK m \in CoreMoves(o) : CoreAfter(m)
      BY <1>3 DEF Dispatch
    <2>2. m.status \in CoreStatuses \cup {"throws"}
      BY <1>1, MoveFacts DEF CoreStatuses
    <2>3. IF core.left > 0 THEN core.left - 1 \in Nat ELSE 0 \in Nat
      BY <1>1
    <2> QED  BY <1>1, <2>1, <2>2, <2>3 DEF CoreAfter, CoreOK
  <1> QED  BY <1>2, <1>3

\* So does the answer of the platform.
LEMMA AnswerCore ==
    ASSUME CoreOK, NEW o, NEW k, Answer(o, k) \/ HostFailsFrom(o, k)
    PROVE  CoreOK'
  <1>1. core' = core \/ \E e : Dispatch(o, e)
    BY DEF Answer, HostFailsFrom
  <1> QED  BY <1>1, DispatchCore DEF CoreOK

\* So does an effect that is answered at once.
LEMMA ExecuteCore ==
    ASSUME CoreOK, NEW o, NEW e, NEW eff \in Effects, Execute(o, e, eff)
    PROVE  CoreOK'
  <1>1. core' = core \/ \E p : Dispatch(p, e)
    <2> HIDE DEF Dispatch
    <2>1. CASE eff \in Awaited
      BY <2>1 DEF Execute, Awaited
    <2>2. CASE eff = "unsubscribe"
      BY <2>2 DEF Execute, Awaited
    <2>3. CASE eff = "timer"
      BY <2>3 DEF Execute, Awaited
    <2>4. CASE eff \in {"completed", "cancelled", "failed"}
      BY <2>4 DEF Execute, Awaited
    <2> QED  BY <2>1, <2>2, <2>3, <2>4 DEF Effects
  <1> QED  BY <1>1, DispatchCore DEF CoreOK

\* Every step leaves the engine a status it may have.
LEMMA CoreStep == ASSUME CoreOK, RuntimeInv, [RuntimeNext]_runtimeVars PROVE CoreOK'
  <1>1. CASE core' = core
    BY <1>1 DEF CoreOK
  <1>2. CASE core' = [core EXCEPT !.status = "cancelled"]
    BY <1>2 DEF CoreOK, CoreStatuses
  <1>3. CASE core' = [status |-> "running", left |-> MaxMoves]
    BY <1>3, BoundsAssumption DEF CoreOK, CoreStatuses
  <1>4. CASE \E o, e : Dispatch(o, e)
    BY <1>4, DispatchCore
  <1>5. CASE \E o, k : Answer(o, k) \/ HostFailsFrom(o, k)
    BY <1>5, AnswerCore
  <1>6. CASE PumpNext \/ InlineNext
    <2>1. PICK o, e, eff : eff \in Effects /\ Execute(o, e, eff)
      <3>1. Workflow /\ op.queue \in Seq(Effects) /\ op.inline \in Seq(Effects)
        BY <1>6 DEF PumpNext, InlineNext, RuntimeInv, RuntimeTypeOK, OwnerType
      <3>2. CASE PumpNext
        <4>1. op.queue # <<>> /\ Execute([op EXCEPT !.queue = Tail(op.queue)], "pump", Head(op.queue))
          BY <3>2 DEF PumpNext
        <4>2. Head(op.queue) \in Effects
          BY <3>1, <4>1
        <4> QED  BY <4>1, <4>2
      <3>3. CASE InlineNext
        <4>1. op.inline # <<>> /\ Execute([op EXCEPT !.inline = Tail(op.inline)], "inline", Head(op.inline))
          BY <3>3 DEF InlineNext
        <4>2. Head(op.inline) \in Effects
          BY <3>1, <4>1
        <4> QED  BY <4>1, <4>2
      <3> QED  BY <1>6, <3>2, <3>3
    <2> QED  BY <2>1, ExecuteCore
  <1> HIDE DEF CoreOK
  <1>7. CASE UNCHANGED runtimeVars
    BY <1>1, <1>7 DEF runtimeVars
  <1>8. CASE Platform
    <2>1. \/ core' = core \/ \E o, k : Answer(o, k) \/ HostFailsFrom(o, k)
      BY <1>8 DEF Platform, ConnectSettles, LateLinkSettles, GattSettles, DisconnectSettles,
                  SubscribeSettles, DiscardSettles, RemoveSettles, HostSettles, HostFails,
                  ConfirmSettles, DirectSettles
    <2> QED  BY <1>1, <1>5, <2>1
  <1>9. CASE Runtime
    <2>1. CASE PumpNext \/ InlineNext
      BY <1>6, <2>1
    <2>2. CASE CoreCancel
      BY <1>1, <1>2, <2>2 DEF CoreCancel
    <2>3. CASE \/ PumpDrained \/ InlineDone \/ CleanupStarts \/ HostsCancelled
               \/ CleanupSubscriptions \/ HandedOff \/ SuccessReleases \/ EndReleases
      <3>1. core' = core
        BY <2>3 DEF PumpDrained, InlineDone, CleanupStarts, HostsCancelled, CleanupSubscriptions,
                    HandedOff, SuccessReleases, EndReleases, ReleaseOwner
      <3> QED  BY <1>1, <3>1
    <2> QED  BY <1>9, <2>1, <2>2, <2>3 DEF Runtime
  <1>10. CASE Application
    <2>1. core' = core \/ core' = [status |-> "running", left |-> MaxMoves]
      BY <1>10 DEF Application, Run, RunWith, RunExclusive, RunExclusiveDisconnect, DirectHandsOff,
                   CancelRun, DestroyRuntime
    <2> QED  BY <1>1, <1>3, <2>1
  <1>11. CASE TimerFires \/ Notified \/ LinkLost \/ ConfirmAttempted
    <2>1. core' = core \/ \E o, e : Dispatch(o, e)
      BY <1>11 DEF TimerFires, Notified, LinkLost, ConfirmAttempted
    <2> QED  BY <1>1, <1>4, <2>1
  <1> QED  BY <1>7, <1>8, <1>9, <1>10, <1>11 DEF RuntimeNext

-----------------------------------------------------------------------------
(* The theorems *)

\* The invariant holds initially.
LEMMA InitIInv == ASSUME RuntimeInit PROVE RuntimeInv /\ CoreOK
  <1>1. op \in OwnerType /\ op = NoOwner /\ owner = 0
    BY NoOwnerType DEF RuntimeInit
  <1>2. op.pending = {} /\ ~ op.sub
    BY <1>1 DEF NoOwner
  <1>4. /\ ble \in [link : BOOLEAN, connected : BOOLEAN, poisoned : BOOLEAN]
        /\ ble.link => ble.connected
    BY DEF RuntimeInit
  <1>5. core = [status |-> "idle", left |-> 0] /\ CoreOK
    BY DEF RuntimeInit, CoreOK, CoreStatuses
  <1>6. next \in 0..MaxOps
    BY BoundsAssumption DEF RuntimeInit
  <1>7. DOMAIN result = Operations
    BY DEF RuntimeInit
  <1>8. destroyed \in BOOLEAN
    BY DEF RuntimeInit
  <1>3. RuntimeTypeOK /\ CoreOK /\ (ble.link => ble.connected)
    BY <1>1, <1>4, <1>5, <1>6, <1>7, <1>8 DEF RuntimeTypeOK, CoreStatuses
  <1> QED  BY <1>1, <1>2, <1>3 DEF RuntimeInv, ReleasedClean, Linked, Workflow

\* Every step keeps the invariant.
LEMMA NextIInv == ASSUME RuntimeInv, CoreOK, [RuntimeNext]_runtimeVars PROVE RuntimeInv'
  <1>1. CASE UNCHANGED runtimeVars
    BY <1>1 DEF runtimeVars, RuntimeInv, RuntimeTypeOK, ReleasedClean, Linked, Workflow
  <1>2. CASE Platform
    BY <1>2, ConnectSettlesStep, LateLinkSettlesStep, GattSettlesStep, DisconnectSettlesStep,
       SubscribeSettlesStep, DiscardSettlesStep, RemoveSettlesStep, HostSettlesStep,
       ConfirmSettlesStep, DirectSettlesStep
       DEF Platform
  <1>3. CASE Runtime
    BY <1>3, PumpNextStep, PumpDrainedStep, InlineNextStep, InlineDoneStep, CleanupStartsStep,
       HostsCancelledStep, CleanupSubscriptionsStep, CoreCancelStep, HandedOffStep,
       SuccessReleasesStep, EndReleasesStep
       DEF Runtime
  <1>4. CASE Application
    BY <1>4, RunStep, ExclusiveStep, DirectHandsOffStep, CancelStep, DestroyStep DEF Application
  <1>5. CASE TimerFires \/ Notified \/ LinkLost \/ ConfirmAttempted
    BY <1>5, TimerFiresStep, NotifiedStep, LinkDropsStep, ConfirmAttemptedStep
  <1> QED  BY <1>1, <1>2, <1>3, <1>4, <1>5 DEF RuntimeNext

\* The inductive invariant: what every reachable state satisfies.
THEOREM RuntimeInvariant == RuntimeSpec => [](RuntimeInv /\ CoreOK)
  <1>1. RuntimeInit => RuntimeInv /\ CoreOK
    BY InitIInv
  <1>2. (RuntimeInv /\ CoreOK) /\ [RuntimeNext]_runtimeVars => (RuntimeInv /\ CoreOK)'
    BY NextIInv, CoreStep
  <1> QED  BY <1>1, <1>2, PTL DEF RuntimeSpec

\* An owner is released only when all it began has settled: the next owner finds
\* no operation of the platform, no subscription and no link of nobody.
THEOREM ReleasedCleanHolds == RuntimeSpec => []ReleasedClean
  <1>1. RuntimeInv => ReleasedClean
    BY DEF RuntimeInv
  <1> QED  BY <1>1, RuntimeInvariant, PTL

\* The step that releases a workflow, and what its caller is told.
LEMMA ReleaseFacts ==
    ASSUME RuntimeInv, [RuntimeNext]_runtimeVars, owner # 0, owner' = 0, op.kind = "workflow"
    PROVE  \/ result'[owner] = "error"
           \/ result'[owner] = "ok" /\ core.status = "completed"
           \/ result'[owner] = "cancelled" /\ core.status = "cancelled" /\ op.confirm = "no"
  <1>1. /\ Workflow /\ owner \in DOMAIN result /\ Sound(op, core.status, ble.connected)
        /\ next + 1 # 0
    BY DEF Workflow, RuntimeInv, RuntimeTypeOK
  <1>2. SuccessReleases \/ EndReleases
    <2>1. CASE UNCHANGED runtimeVars
      BY <2>1 DEF runtimeVars
    <2>2. CASE Platform
      BY <2>2 DEF Platform, ConnectSettles, LateLinkSettles, GattSettles, DisconnectSettles,
                  SubscribeSettles, DiscardSettles, RemoveSettles, HostSettles,
                  ConfirmSettles, DirectSettles
    <2>3. CASE Runtime
      BY <2>3 DEF Runtime, PumpNext, PumpDrained, InlineNext, InlineDone, CleanupStarts,
                  HostsCancelled, CleanupSubscriptions, CoreCancel, HandedOff
    <2>4. CASE Application
      BY <1>1, <2>4 DEF Application, Run, RunExclusive, RunExclusiveDisconnect, DirectHandsOff,
                        Free, CancelRun, DestroyRuntime
    <2>5. CASE TimerFires \/ Notified \/ LinkLost \/ ConfirmAttempted
      BY <2>5 DEF TimerFires, Notified, LinkLost, ConfirmAttempted
    <2> QED  BY <2>1, <2>2, <2>3, <2>4, <2>5 DEF RuntimeNext
  <1>3. CASE SuccessReleases
    <2>1. result'[owner] \in {"error", "ok"} /\ op.success = "settling"
      BY <1>1, <1>3 DEF SuccessReleases, ReleaseOwner
    <2> QED  BY <1>1, <2>1 DEF Sound, Evidence
  <1>4. CASE EndReleases
    <2>1. /\ op.fin # "off" /\ op.fin \in {"off", "failure", "cancelled"}
          /\ result'[owner] = IF op.fin = "failure" \/ op.failure \/ op.cleanFailed THEN "error"
                              ELSE "cancelled"
      BY <1>1, <1>4 DEF EndReleases, ReleaseOwner, Sound, OwnerType
    <2> QED  BY <1>1, <2>1 DEF Sound, Evidence
  <1> QED  BY <1>2, <1>3, <1>4

\* A recording whose confirmation may have reached the device is not reported as
\* cancelled: its download is kept.
THEOREM ConfirmedNotCancelledHolds == RuntimeSpec => ConfirmedNotCancelled
  <1>1. RuntimeInv /\ [RuntimeNext]_runtimeVars =>
          (owner # 0 /\ owner' = 0 /\ op.kind = "workflow"
             /\ op.confirm \in {"attempted", "uncertain", "done"}
           => result'[owner] # "cancelled")
    BY ReleaseFacts
  <1> QED  BY <1>1, RuntimeInvariant, PTL DEF RuntimeSpec, ConfirmedNotCancelled

\* What the caller of a workflow is told is what its engine says: a success was
\* completed, a cancellation was cancelled.
THEOREM TruthfulOutcomeHolds == RuntimeSpec => TruthfulOutcome
  <1>1. RuntimeInv /\ [RuntimeNext]_runtimeVars =>
          (owner # 0 /\ owner' = 0 /\ op.kind = "workflow"
           => /\ result'[owner] = "ok" => core.status = "completed"
              /\ result'[owner] = "cancelled" => core.status = "cancelled")
    BY ReleaseFacts
  <1> QED  BY <1>1, RuntimeInvariant, PTL DEF RuntimeSpec, TruthfulOutcome

-----------------------------------------------------------------------------
(* WebRecordings *)

-----------------------------------------------------------------------------
(* Types *)

Starting == {"verify", "verifying", "prepare"}
Resuming == {"list", "listing"}
Uploadable == {"read", "offer", "uploading"}
Finished == {"own", "owning", "confirm", "confirmed"}
Pcs == {"idle", "load", "authorize", "sink", "transferring", "run", "running", "staged", "put",
        "complete", "cloud", "reconcile", "restage", "dropBlob", "dropJournal", "reload"}
       \cup Starting \cup Resuming \cup Uploadable \cup Finished

Claimed == {"prepared", "transferring", "staged", "uploading", "cloud_completed", "confirmed"}
Calls == [pc : Pcs, api : {"none", "sync", "resume", "confirm"}, held : Claimed \cup {"absent"},
          aborted : BOOLEAN, lost : BOOLEAN, then : {"none", "ok", "error", "cancelled"}, got : Nat]

\* The types of the journals, the staged bodies, the calls and the service.
TypeOK ==
    /\ journal \in [Ops -> Claimed \cup {"absent"}] /\ blob \in [Ops -> Nat]
    /\ call \in [Ops -> Calls]
    /\ idle \in [op : Ops \cup {0}, pc : {"load", "dropBlob", "dropJournal"}]
    /\ runtime \in [owner : Ops \cup {0}, connected : BOOLEAN]
    /\ cloud \in [Ops -> [body : Nat, completed : BOOLEAN]]
    /\ left \in [faults : Nat, aborts : Nat] /\ device \in BOOLEAN /\ closed \in BOOLEAN

-----------------------------------------------------------------------------
(* The inductive invariant *)

Stored(o) == cloud[o].completed /\ cloud[o].body = Units

\* What the journal claims of the body and of the upload.
Honest(o) ==
    /\ journal[o] = "absent" => blob[o] = 0
    /\ journal[o] \in {"staged", "uploading"} => blob[o] = Units
    /\ journal[o] \in {"cloud_completed", "confirmed"} => Stored(o)
    /\ cloud[o].completed => cloud[o].body = Units

\* Where a call is, its journal has the phase that the code has brought it to: nobody
\* else writes it.
Follows(o) ==
    /\ call[o].pc = "load" => call[o].api # "none"
    /\ call[o].pc \in Starting => journal[o] = "absent" /\ call[o].api = "sync"
    /\ call[o].pc \in Resuming \cup {"authorize"} =>
         \/ call[o].api = "sync" /\ journal[o] = "absent" /\ call[o].pc = "authorize"
         \/ /\ call[o].api = "resume" /\ call[o].held = journal[o]
            /\ journal[o] \in {"prepared", "transferring", "staged", "uploading"}
    /\ call[o].pc \in {"sink", "transferring"} => journal[o] \in Unverified
    /\ call[o].pc \in {"transferring", "run"} => blob[o] = 0
    /\ call[o].pc \in {"run", "running", "staged"} => journal[o] = "transferring"
    /\ call[o].pc = "running" => blob[o] = call[o].got
    /\ call[o].pc = "staged" => blob[o] = Units
    /\ call[o].pc \in Uploadable => journal[o] = "staged"
    /\ call[o].pc \in {"put", "complete", "cloud", "reconcile", "restage"} => journal[o] = "uploading"
    /\ call[o].pc = "complete" => cloud[o].body = Units
    /\ call[o].pc = "cloud" => Stored(o)
    /\ call[o].pc \in Finished => journal[o] = "cloud_completed"
    /\ call[o].pc = "confirmed" => ~device
    /\ call[o].pc \in {"dropBlob", "dropJournal"} => journal[o] \in Unverified \cup {"confirmed"}
    /\ call[o].pc = "dropJournal" => blob[o] = 0

\* A cancellation of an operation has it for itself.
IdleFollows ==
    idle.op # 0 =>
        /\ call[idle.op].pc = "idle"
        /\ idle.pc # "load" => journal[idle.op] \in Unverified
        /\ idle.pc = "dropJournal" => blob[idle.op] = 0

IInv == /\ TypeOK /\ IdleFollows /\ Custody
        /\ \A o \in Ops : Honest(o) /\ Follows(o)

-----------------------------------------------------------------------------
(* A step of one operation *)

\* Nothing of the other operations changes.
OthersKept(o) ==
    \A p \in Ops \ {o} : /\ journal'[p] = journal[p] /\ blob'[p] = blob[p]
                         /\ call'[p] = call[p] /\ cloud'[p] = cloud[p]

\* A step of one operation that leaves its journal honest and the others alone keeps the invariant.
LEMMA StepKeeps ==
    ASSUME IInv, NEW o \in Ops, TypeOK', OthersKept(o), Honest(o)', Follows(o)',
           idle' = idle, idle.op # o, Stored(o) => Stored(o)',
           device => device' \/ Stored(o), device' => device
    PROVE  IInv'
<1>1. ASSUME NEW p \in Ops \ {o} PROVE (Honest(p) <=> Honest(p)') /\ (Stored(p) <=> Stored(p)')
                                       /\ (Follows(p) => Follows(p)')
  BY <1>1 DEF OthersKept, Honest, Follows, Stored
<1>2. \A p \in Ops : Honest(p)' /\ Follows(p)'
  BY <1>1 DEF IInv
<1>3. \A p \in Ops : Stored(p) => Stored(p)'
  BY <1>1
<1>4. Custody'
  BY <1>3 DEF IInv, Custody, Stored
<1>5. IdleFollows'
  BY DEF IInv, IdleFollows, OthersKept, TypeOK
<1>. QED
  BY <1>2, <1>4, <1>5 DEF IInv

\* A call that fails: it ends, or looks what it has to delete.
LEMMA Fails ==
    ASSUME TypeOK, NEW o \in Ops, NEW e \in {"error", "cancelled", "integrity_failed"}, Fail(o, e)
    PROVE  /\ call' \in [Ops -> Calls] /\ runtime' \in [owner : Ops \cup {0}, connected : BOOLEAN]
           /\ call'[o].pc \in {"idle", "reload"}
           /\ \A p \in Ops \ {o} : call'[p] = call[p]
<1>0. call \in [Ops -> Calls] /\ call[o] \in Calls
  BY DEF TypeOK
<1>1. runtime' \in [owner : Ops \cup {0}, connected : BOOLEAN]
  BY DEF Fail, Release, TypeOK
<1>2. CASE e # "error" /\ CleansUp(o)
  <2>1. PICK t \in {"error", "cancelled"} :
           call' = [call EXCEPT ![o] = [call[o] EXCEPT !.pc = "reload", !.then = t]]
    BY <1>0, <1>2 DEF Fail
  <2>2. [call[o] EXCEPT !.pc = "reload", !.then = t] \in Calls
    BY <1>0 DEF Calls, Pcs
  <2>3. [call[o] EXCEPT !.pc = "reload", !.then = t].pc = "reload"
    BY <1>0 DEF Calls
  <2>. QED
    BY <1>0, <1>1, <2>1, <2>2, <2>3
<1>3. CASE ~(e # "error" /\ CleansUp(o))
  <2>1. PICK t \in {"error", "cancelled"} : call' = [call EXCEPT ![o] = [NoCall EXCEPT !.then = t]]
    BY <1>3 DEF Fail, Settle
  <2>2. [NoCall EXCEPT !.then = t] \in Calls /\ [NoCall EXCEPT !.then = t].pc = "idle"
    BY DEF Calls, NoCall, Pcs
  <2>. QED
    BY <1>0, <1>1, <2>1, <2>2
<1>. QED
  BY <1>2, <1>3

\* A call that moves on.
LEMMA Moves ==
    ASSUME TypeOK, NEW o \in Ops, NEW pc \in Pcs, call' = Goto(o, pc)
    PROVE  /\ call' \in [Ops -> Calls]
           /\ call'[o] = [call[o] EXCEPT !.pc = pc]
           /\ call'[o].pc = pc /\ call'[o].api = call[o].api /\ call'[o].held = call[o].held
           /\ call'[o].got = call[o].got
           /\ \A p \in Ops \ {o} : call'[p] = call[p]
<1>1. call \in [Ops -> Calls] /\ call[o] \in Calls /\ call' = [call EXCEPT ![o] = [call[o] EXCEPT !.pc = pc]]
  BY DEF TypeOK, Goto
<1>2. [call[o] EXCEPT !.pc = pc] \in Calls
  BY <1>1 DEF Calls
<1>3. \A c \in Calls : LET d == [c EXCEPT !.pc = pc] IN
         d.pc = pc /\ d.api = c.api /\ d.held = c.held /\ d.got = c.got
  BY DEF Calls
<1>. QED
  BY <1>1, <1>2, <1>3

\* Releasing the runtime leaves it owned by nobody or by another operation.
LEMMA Releases ==
    ASSUME TypeOK, NEW o \in Ops
    PROVE  Release(o) \in [owner : Ops \cup {0}, connected : BOOLEAN]
BY DEF Release, TypeOK

\* A call that has settled or fails claims nothing of its journal.
LEMMA EndedFollows ==
    ASSUME NEW o \in Ops, call'[o].pc \in {"idle", "reload"}
    PROVE  Follows(o)'
BY DEF Follows, Starting, Resuming, Uploadable, Finished

\* Saving a phase: what has to hold of the call afterwards.
LEMMA Saves ==
    ASSUME IInv, NEW o \in Ops, NEW at \in Pcs \ {"idle"}, NEW phase \in Claimed, NEW pc \in Pcs,
           NEW checked \in BOOLEAN, Save(o, at, phase, pc, checked)
    PROVE  /\ TypeOK' /\ OthersKept(o) /\ idle' = idle /\ idle.op # o
           /\ blob' = blob /\ cloud' = cloud /\ device' = device
           /\ \/ journal'[o] = phase /\ call'[o].pc \in {pc, "idle", "reload"}
              \/ journal'[o] = journal[o] /\ call'[o].pc \in {"idle", "reload"}
<1>0. TypeOK /\ idle.op # o /\ call[o].pc = at
  BY RecordingsAssumption DEF IInv, IdleFollows, Save
<1>1. CASE Accepts(journal[o], phase) /\ ~(checked /\ call[o].aborted)
  <2>1. /\ journal' = [journal EXCEPT ![o] = phase] /\ runtime' = runtime
        /\ call' = [call EXCEPT ![o] = [call[o] EXCEPT !.pc = pc, !.held = phase]]
    BY <1>0, <1>1 DEF Save, TypeOK
  <2>2. [call[o] EXCEPT !.pc = pc, !.held = phase] \in Calls
        /\ [call[o] EXCEPT !.pc = pc, !.held = phase].pc = pc
    <3>1. call[o] \in Calls
      BY <1>0 DEF TypeOK
    <3>2. phase \in Claimed \cup {"absent"}
      OBVIOUS
    <3>. QED BY <3>1, <3>2 DEF Calls
  <2>3. /\ call' \in [Ops -> Calls] /\ call'[o].pc = pc /\ \A p \in Ops \ {o} : call'[p] = call[p]
    BY <1>0, <2>1, <2>2 DEF TypeOK
  <2>4. /\ journal' \in [Ops -> Claimed \cup {"absent"}] /\ journal'[o] = phase
        /\ \A p \in Ops \ {o} : journal'[p] = journal[p]
    BY <1>0, <2>1 DEF TypeOK
  <2>. QED
    BY <1>0, <1>1, <2>1, <2>3, <2>4 DEF Save, TypeOK, OthersKept
<1>2. CASE ~(Accepts(journal[o], phase) /\ ~(checked /\ call[o].aborted))
  <2>1. Fail(o, "error") \/ Fail(o, "cancelled")
    BY <1>2 DEF Save
  <2>2. /\ call' \in [Ops -> Calls] /\ runtime' \in [owner : Ops \cup {0}, connected : BOOLEAN]
        /\ call'[o].pc \in {"idle", "reload"}
        /\ \A p \in Ops \ {o} : call'[p] = call[p]
    BY <1>0, <2>1, Fails
  <2>3. journal' = journal \/ journal' = [journal EXCEPT ![o] = phase]
    BY <1>2 DEF Save
  <2>4. /\ journal' \in [Ops -> Claimed \cup {"absent"}] /\ journal'[o] \in {phase, journal[o]}
        /\ \A p \in Ops \ {o} : journal'[p] = journal[p]
    BY <1>0, <2>3 DEF TypeOK
  <2>. QED
    BY <1>0, <1>2, <2>2, <2>4 DEF Save, TypeOK, OthersKept
<1>. QED
  BY <1>1, <1>2

\* A step that moves the call only.
LEMMA CallKeeps ==
    ASSUME IInv, NEW o \in Ops, idle.op # o, call' \in [Ops -> Calls],
           \A p \in Ops \ {o} : call'[p] = call[p], Follows(o)',
           runtime' \in [owner : Ops \cup {0}, connected : BOOLEAN],
           left' \in [faults : Nat, aborts : Nat], closed' \in BOOLEAN,
           journal' = journal, blob' = blob, idle' = idle, cloud' = cloud, device' = device
    PROVE  IInv'
<1>1. TypeOK' /\ OthersKept(o) /\ Honest(o)'
  BY DEF IInv, TypeOK, OthersKept, Honest, Stored
<1>. QED
  BY <1>1, StepKeeps DEF Stored

\* An active call has its operation for itself.
LEMMA Active ==
    ASSUME IInv, NEW o \in Ops, call[o].pc # "idle"
    PROVE  idle.op # o
BY RecordingsAssumption DEF IInv, IdleFollows

\* An operation that fails leaves its journal and its body as they are.
LEMMA FailKeeps ==
    ASSUME IInv, NEW o \in Ops, NEW e \in {"error", "cancelled", "integrity_failed"}, Fail(o, e),
           call[o].pc # "idle", left' \in [faults : Nat, aborts : Nat],
           journal' = journal, blob' = blob, idle' = idle, cloud' = cloud, device' = device,
           closed' = closed
    PROVE  IInv'
BY Fails, Active, EndedFollows, CallKeeps DEF IInv, TypeOK

\* An operation that goes on to its next await changes nothing durable.
LEMMA MoveKeeps ==
    ASSUME IInv, NEW o \in Ops, NEW pc \in Pcs, call' = Goto(o, pc), call[o].pc # "idle",
           Follows(o)', runtime' \in [owner : Ops \cup {0}, connected : BOOLEAN],
           journal' = journal, blob' = blob, idle' = idle, cloud' = cloud, device' = device,
           left' = left, closed' = closed
    PROVE  IInv'
BY Moves, Active, CallKeeps DEF IInv, TypeOK

-----------------------------------------------------------------------------
(* The steps *)

\* The journal is read: the call goes on where it stands.
LEMMA LoadKeeps == \A o \in Ops : IInv /\ Load(o) => IInv'
<1>. SUFFICES ASSUME NEW o \in Ops, IInv, Load(o) PROVE IInv'
  OBVIOUS
<1>0. /\ journal' = journal /\ blob' = blob /\ idle' = idle /\ cloud' = cloud /\ device' = device
      /\ left' = left /\ closed' = closed
      /\ call \in [Ops -> Calls] /\ call[o] \in Calls /\ left \in [faults : Nat, aborts : Nat]
      /\ runtime \in [owner : Ops \cup {0}, connected : BOOLEAN] /\ closed \in BOOLEAN
  <2>1. UNCHANGED <<durable, idle, device, cloud, left, closed>>
    BY DEF Load
  <2>. QED
    BY <2>1 DEF durable, IInv, TypeOK
<1>1. call[o].pc = "load" /\ call[o].api \in {"sync", "resume", "confirm"}
  BY DEF Load, IInv, Follows, TypeOK, Calls
<1>2. CASE Fail(o, "cancelled") \/ Fail(o, "error")
  BY <1>0, <1>1, <1>2, FailKeeps
<1>3. CASE call' = Goto(o, "verify") /\ runtime' = runtime /\ call[o].api = "sync" /\ journal[o] = "absent"
  <2>1. Follows(o)'
    <3>1. call'[o].pc = "verify" /\ call'[o].api = "sync" /\ journal'[o] = "absent"
      BY ZenonT(60), <1>0, <1>3, Moves DEF IInv, Pcs, Starting
    <3>. QED
      BY <3>1 DEF Follows, Starting, Resuming, Uploadable, Finished
  <2>. QED
    BY <1>0, <1>1, <1>3, <2>1, MoveKeeps DEF Pcs, Starting
<1>4. ASSUME NEW d \in Calls, call' = [call EXCEPT ![o] = d], runtime' = runtime,
             \/ d.pc = "dropBlob" /\ journal[o] = "confirmed"
             \/ d.pc = "own" /\ journal[o] = "cloud_completed"
             \/ /\ d.pc = "list" /\ d.held = journal[o] /\ d.api = "resume"
                /\ journal[o] \in {"prepared", "transferring", "staged", "uploading"}
      PROVE  IInv'
  <2>1. call' \in [Ops -> Calls] /\ call'[o] = d /\ \A p \in Ops \ {o} : call'[p] = call[p]
    BY <1>0, <1>4
  <2>2. Follows(o)'
    BY <1>0, <1>4, <2>1 DEF Follows, Starting, Resuming, Uploadable, Finished
  <2>. QED
    BY <1>0, <1>1, <1>4, <2>1, <2>2, Active, CallKeeps
<1>5. CASE Finishing(o) /\ runtime' = runtime /\ journal[o] = "confirmed"
  <2>. DEFINE d == [call[o] EXCEPT !.pc = "dropBlob", !.then = "ok", !.held = "confirmed"]
  <2>1. d \in Calls /\ d.pc = "dropBlob"
    BY <1>0 DEF Calls, Pcs, Claimed
  <2>2. call' = [call EXCEPT ![o] = d]
    BY <1>0, <1>5 DEF Finishing
  <2>. HIDE DEF d
  <2>. QED
    BY <1>4, <1>5, <2>1, <2>2
<1>6. ASSUME NEW pc \in {"own", "list"}, runtime' = runtime,
             call' = [[call EXCEPT ![o].held = journal[o]] EXCEPT ![o].pc = pc],
             \/ pc = "own" /\ journal[o] = "cloud_completed"
             \/ /\ pc = "list" /\ call[o].api # "sync" /\ call[o].api # "confirm"
                /\ journal[o] \notin {"absent", "confirmed", "cloud_completed"}
      PROVE  IInv'
  <2>. DEFINE d == [call[o] EXCEPT !.held = journal[o], !.pc = pc]
  <2>1. call \in [Ops -> Calls] /\ call[o] \in Calls /\ journal[o] \in Claimed \cup {"absent"} /\ pc \in Pcs
    BY <1>0 DEF IInv, TypeOK, Pcs, Finished, Resuming
  <2>2. d \in Calls /\ d.pc = pc /\ d.held = journal[o] /\ d.api = call[o].api
    BY <2>1 DEF Calls
  <2>3. call' = [call EXCEPT ![o] = d]
    BY <1>6, <2>1
  <2>4. journal[o] \in {"cloud_completed", "prepared", "transferring", "staged", "uploading"}
    BY <1>6, <2>1 DEF Claimed
  <2>. HIDE DEF d
  <2>. QED
    BY <1>1, <1>4, <1>6, <2>2, <2>3, <2>4
<1>. QED
  BY <1>1, <1>2, <1>3, <1>5, <1>6 DEF Load

\* The phases are saved.
LEMMA SavesKeep ==
    \A o \in Ops : IInv /\ (\/ Prepare(o) \/ Transferring(o) \/ Staged(o) \/ Uploading(o)
                            \/ CloudCompleted(o) \/ Restage(o) \/ Confirmed(o)) => IInv'
<1>. SUFFICES ASSUME NEW o \in Ops, IInv,
                     \/ Prepare(o) \/ Transferring(o) \/ Staged(o) \/ Uploading(o)
                     \/ CloudCompleted(o) \/ Restage(o) \/ Confirmed(o)
              PROVE  IInv'
  OBVIOUS
<1>0. Honest(o) /\ Follows(o) /\ Custody
  BY DEF IInv
<1>1. ASSUME NEW at \in Pcs \ {"idle"}, NEW phase \in Claimed, NEW pc \in Pcs, NEW checked \in BOOLEAN,
             Save(o, at, phase, pc, checked),
             \/ at = "prepare" /\ phase = "prepared" /\ pc = "sink"
             \/ at = "transferring" /\ phase = "transferring" /\ pc = "run"
             \/ at = "staged" /\ phase = "staged" /\ pc = "read"
             \/ at = "uploading" /\ phase = "uploading" /\ pc = "put"
             \/ at = "cloud" /\ phase = "cloud_completed" /\ pc = "own"
             \/ at = "restage" /\ phase = "staged" /\ pc = "read"
             \/ at = "confirmed" /\ phase = "confirmed" /\ pc = "dropBlob"
      PROVE  IInv'
  <2>1. /\ TypeOK' /\ OthersKept(o) /\ idle' = idle /\ idle.op # o
        /\ blob' = blob /\ cloud' = cloud /\ device' = device
        /\ \/ journal'[o] = phase /\ call'[o].pc \in {pc, "idle", "reload"}
           \/ journal'[o] = journal[o] /\ call'[o].pc \in {"idle", "reload"}
    BY <1>1, Saves
  <2>2. call[o].pc = at
    BY <1>1 DEF Save
  <2>3. Honest(o)'
    BY <1>0, <1>1, <2>1, <2>2 DEF Honest, Follows, Stored, Finished, Uploadable
  <2>4. Follows(o)'
    BY <1>0, <1>1, <2>1, <2>2 DEF Honest, Follows, Stored, Starting, Resuming, Uploadable, Finished, Unverified
  <2>. QED
    BY <2>1, <2>3, <2>4, StepKeeps DEF Stored
<1>. QED
  BY <1>1 DEF Prepare, Transferring, Staged, Uploading, CloudCompleted, Restage, Confirmed, Pcs, Starting,
     Uploadable, Finished, Claimed

\* What a step of a call finds, and what it hardly ever changes.
Found(o) == /\ call[o] \in Calls /\ call \in [Ops -> Calls] /\ left \in [faults : Nat, aborts : Nat]
            /\ runtime \in [owner : Ops \cup {0}, connected : BOOLEAN] /\ closed \in BOOLEAN
            /\ blob \in [Ops -> Nat] /\ cloud \in [Ops -> [body : Nat, completed : BOOLEAN]]
            /\ journal \in [Ops -> Claimed \cup {"absent"}]
            /\ Honest(o) /\ Follows(o) /\ Custody /\ Units \in Nat \ {0}

\* What the invariant says of the operation that takes a step.
LEMMA Finds == ASSUME IInv, NEW o \in Ops PROVE Found(o)
BY RecordingsAssumption DEF IInv, TypeOK, Found

\* The runtime is claimed, the device looked at, the provider asked.
LEMMA ClaimKeeps == \A o \in Ops : IInv /\ Claim(o) => IInv'
<1>. SUFFICES ASSUME NEW o \in Ops, IInv, Claim(o) PROVE IInv'
  OBVIOUS
<1>0. /\ journal' = journal /\ blob' = blob /\ idle' = idle /\ cloud' = cloud /\ device' = device
      /\ left' = left /\ closed' = closed /\ Found(o)
      /\ call[o].pc \in {"verify", "list", "own", "run"}
  BY Finds DEF Claim, durable, Claims
<1>1. CASE Fail(o, "cancelled") \/ Fail(o, "error")
  BY <1>0, <1>1, FailKeeps DEF Found
<1>2. CASE ~(Fail(o, "cancelled") \/ Fail(o, "error"))
  <2>. DEFINE to == Claims[call[o].pc]
              d == [call[o] EXCEPT !.pc = to, !.got = 0]
  <2>1. /\ runtime' = [runtime EXCEPT !.owner = o]
        /\ call' = [call EXCEPT ![o] = d]
    BY <1>0, <1>2 DEF Claim, Found
  <2>2. /\ to \in Pcs
        /\ call[o].pc = "verify" => to = "verifying"
        /\ call[o].pc = "list" => to = "listing"
        /\ call[o].pc = "own" => to = "owning"
        /\ call[o].pc = "run" => to = "running"
    BY <1>0 DEF Claims, Pcs, Starting, Resuming, Finished
  <2>3. d \in Calls /\ d.pc = to /\ d.got = 0 /\ d.api = call[o].api /\ d.held = call[o].held
    <3>. HIDE DEF to
    <3>. QED BY <1>0, <2>2 DEF Found, Calls
  <2>. HIDE DEF d, to
  <2>4. call' \in [Ops -> Calls] /\ call'[o] = d /\ \A p \in Ops \ {o} : call'[p] = call[p]
    BY <1>0, <2>1, <2>3 DEF Found
  <2>5. Follows(o)'
    BY <1>0, <2>2, <2>3, <2>4 DEF Found, Follows, Starting, Resuming, Uploadable, Finished
  <2>6. runtime' \in [owner : Ops \cup {0}, connected : BOOLEAN]
    BY <1>0, <2>1 DEF Found
  <2>. QED
    BY <1>0, <2>4, <2>5, <2>6, Active, CallKeeps DEF Found
<1>. QED
  BY <1>1, <1>2

\* The listing of the device has been read, or failed (resume, verifyConnection).
LEMMA VerifiedKeeps == \A o \in Ops : IInv /\ Verified(o) => IInv'
<1>. SUFFICES ASSUME NEW o \in Ops, IInv, Verified(o) PROVE IInv'
  OBVIOUS
<1>0. /\ journal' = journal /\ blob' = blob /\ idle' = idle /\ cloud' = cloud /\ device' = device
      /\ left' = left /\ closed' = closed /\ Found(o)
      /\ call[o].pc \in {"verifying", "listing", "owning"}
  BY Finds DEF Verified, durable
<1>1. CASE Fail(o, "error")
  BY <1>0, <1>1, FailKeeps DEF Found
<1>2. CASE call[o].pc = "owning" /\ call' = Goto(o, "confirm") /\ runtime' = runtime
  <2>1. Follows(o)'
    <3>1. call'[o].pc = "confirm"
      BY <1>2, Moves DEF IInv, Pcs, Finished
    <3>2. journal'[o] = "cloud_completed"
      BY <1>0, <1>2 DEF Found, Follows, Finished
    <3>. QED
      BY <3>1, <3>2 DEF Follows, Starting, Resuming, Uploadable, Finished
  <2>. QED
    BY <1>0, <1>2, <2>1, MoveKeeps DEF Found, Pcs, Finished
<1>3. CASE call[o].pc \in {"verifying", "listing"} /\ call' = Goto(o, "authorize") /\ runtime' = Release(o)
  <2>1. Follows(o)'
    <3>1. call'[o].pc = "authorize" /\ call'[o].api = call[o].api /\ call'[o].held = call[o].held
      BY <1>3, Moves DEF IInv, Pcs
    <3>2. \/ call[o].api = "sync" /\ journal[o] = "absent"
          \/ /\ call[o].api = "resume" /\ call[o].held = journal[o]
             /\ journal[o] \in {"prepared", "transferring", "staged", "uploading"}
      BY <1>0, <1>3 DEF Found, Follows, Starting, Resuming
    <3>. QED
      BY <1>0, <3>1, <3>2 DEF Follows, Starting, Resuming, Uploadable, Finished
  <2>. QED
    BY <1>0, <1>3, <2>1, MoveKeeps, Releases DEF Pcs, IInv
<1>. QED
  BY <1>0, <1>1, <1>2, <1>3 DEF Verified

\* The provider answered, and the journal's phase says where to resume.
LEMMA AuthorizedKeeps == \A o \in Ops : IInv /\ Authorized(o) => IInv'
<1>. SUFFICES ASSUME NEW o \in Ops, IInv, Authorized(o) PROVE IInv'
  OBVIOUS
<1>0. /\ journal' = journal /\ blob' = blob /\ idle' = idle /\ cloud' = cloud /\ device' = device
      /\ left' = left /\ closed' = closed /\ runtime' = runtime /\ Found(o) /\ call[o].pc = "authorize"
  BY Finds DEF Authorized, durable
<1>1. PICK pc \in {"prepare", "sink", "read", "reconcile"} :
         /\ call' = Goto(o, pc)
         /\ pc = "prepare" => journal[o] = "absent" /\ call[o].api = "sync"
         /\ pc = "sink" => journal[o] \in Unverified
         /\ pc = "read" => journal[o] = "staged"
         /\ pc = "reconcile" => journal[o] = "uploading"
  <2>1. CASE call[o].api = "sync"
    BY <1>0, <2>1 DEF Authorized, Found, Follows, Resuming
  <2>2. CASE call[o].api # "sync" /\ call[o].held \in Unverified
    BY <1>0, <2>2 DEF Authorized, Found, Follows, Resuming
  <2>3. CASE call[o].api # "sync" /\ call[o].held \notin Unverified
    BY <1>0, <2>3 DEF Authorized, Found, Follows, Resuming, Unverified
  <2>. QED
    BY <2>1, <2>2, <2>3
<1>2. Follows(o)'
  <2>1. call'[o].pc = pc /\ call'[o].api = call[o].api
    BY <1>0, <1>1, Moves DEF IInv, Pcs, Starting, Uploadable
  <2>. QED
    BY <1>0, <1>1, <2>1 DEF Follows, Starting, Resuming, Uploadable, Finished
<1>. QED
  BY <1>0, <1>1, <1>2, MoveKeeps DEF Found, Pcs, Starting, Uploadable

-----------------------------------------------------------------------------
(* The transfer, the upload and the confirmation *)

\* A step by which the call moves on and the body or the upload changes.
LEMMA BodyKeeps ==
    ASSUME IInv, NEW o \in Ops, call[o].pc # "idle", call' \in [Ops -> Calls],
           \A p \in Ops \ {o} : call'[p] = call[p],
           runtime' \in [owner : Ops \cup {0}, connected : BOOLEAN], left' \in [faults : Nat, aborts : Nat],
           journal' = journal, idle' = idle, closed' = closed,
           NEW n \in Nat, blob' = [blob EXCEPT ![o] = n],
           NEW c \in [body : Nat, completed : BOOLEAN], cloud' = [cloud EXCEPT ![o] = c],
           Honest(o)', Follows(o)', Stored(o) => c.completed /\ c.body = Units,
           device' \in BOOLEAN, device => device' \/ Stored(o), device' => device
    PROVE  IInv'
<1>1. TypeOK' /\ OthersKept(o) /\ cloud'[o] = c
  BY DEF IInv, TypeOK, OthersKept
<1>2. Stored(o) => Stored(o)'
  BY <1>1 DEF Stored
<1>. QED
  BY <1>1, <1>2, Active, StepKeeps

\* The body and the upload as they are.
LEMMA Same ==
    ASSUME IInv, NEW o \in Ops
    PROVE  /\ blob = [blob EXCEPT ![o] = blob[o]] /\ blob[o] \in Nat
           /\ cloud = [cloud EXCEPT ![o] = cloud[o]] /\ cloud[o] \in [body : Nat, completed : BOOLEAN]
           /\ Stored(o) => cloud[o].completed /\ cloud[o].body = Units
BY DEF IInv, TypeOK, Stored

\* Only the body changes, or only the upload.
LEMMA BlobKeeps ==
    ASSUME IInv, NEW o \in Ops, call[o].pc # "idle", call' \in [Ops -> Calls],
           \A p \in Ops \ {o} : call'[p] = call[p],
           runtime' \in [owner : Ops \cup {0}, connected : BOOLEAN], left' \in [faults : Nat, aborts : Nat],
           journal' = journal, idle' = idle, closed' = closed, cloud' = cloud, device' = device,
           NEW n \in Nat, blob' = [blob EXCEPT ![o] = n], Honest(o)', Follows(o)'
    PROVE  IInv'
<1>1. cloud' = [cloud EXCEPT ![o] = cloud[o]] /\ cloud[o] \in [body : Nat, completed : BOOLEAN]
      /\ (Stored(o) => cloud[o].completed /\ cloud[o].body = Units)
  BY Same
<1>2. device' \in BOOLEAN
  BY DEF IInv, TypeOK
<1>. QED
  BY <1>1, <1>2, BodyKeeps

\* A step that changes what the service has of one recording.
LEMMA CloudKeeps ==
    ASSUME IInv, NEW o \in Ops, call[o].pc # "idle", call' \in [Ops -> Calls],
           \A p \in Ops \ {o} : call'[p] = call[p],
           runtime' \in [owner : Ops \cup {0}, connected : BOOLEAN], left' \in [faults : Nat, aborts : Nat],
           journal' = journal, idle' = idle, closed' = closed, blob' = blob,
           NEW c \in [body : Nat, completed : BOOLEAN], cloud' = [cloud EXCEPT ![o] = c],
           Honest(o)', Follows(o)', Stored(o) => c.completed /\ c.body = Units,
           device' \in BOOLEAN, device => device' \/ Stored(o), device' => device
    PROVE  IInv'
<1>1. blob' = [blob EXCEPT ![o] = blob[o]] /\ blob[o] \in Nat
  BY Same
<1>. QED
  BY <1>1, BodyKeeps

\* The transfer starts over.
LEMMA EmptySinkKeeps == \A o \in Ops : IInv /\ EmptySink(o) => IInv'
<1>. SUFFICES ASSUME NEW o \in Ops, IInv, EmptySink(o) PROVE IInv'
  OBVIOUS
<1>0. /\ journal' = journal /\ idle' = idle /\ cloud' = cloud /\ device' = device
      /\ left' = left /\ closed' = closed /\ Found(o) /\ call[o].pc = "sink"
  BY Finds DEF EmptySink
<1>1. CASE call[o].aborted
  BY <1>0, <1>1, FailKeeps DEF EmptySink, Checked, Found
<1>2. CASE ~call[o].aborted
  <2>1. blob' = [blob EXCEPT ![o] = 0] /\ call' = Goto(o, "transferring") /\ runtime' = runtime
    BY <1>2 DEF EmptySink, Checked
  <2>2. /\ call' \in [Ops -> Calls] /\ call'[o].pc = "transferring"
        /\ \A p \in Ops \ {o} : call'[p] = call[p]
    BY <2>1, Moves DEF IInv, Pcs
  <2>3. journal[o] \in Unverified /\ blob'[o] = 0
    BY <1>0, <2>1 DEF Found, Follows
  <2>4. Follows(o)' /\ Honest(o)'
    BY <1>0, <2>2, <2>3 DEF Follows, Starting, Resuming, Uploadable, Finished, Found, Honest, Stored,
       Unverified
  <2>. QED
    BY <1>0, <2>1, <2>2, <2>4, BlobKeeps DEF Found
<1>. QED
  BY <1>1, <1>2

\* A unit arrives: the body grows with what was received.
LEMMA ReceiveKeeps == \A o \in Ops : IInv /\ Receive(o) => IInv'
<1>. SUFFICES ASSUME NEW o \in Ops, IInv, Receive(o) PROVE IInv'
  OBVIOUS
<1>0. /\ journal' = journal /\ idle' = idle /\ cloud' = cloud /\ device' = device
      /\ left' = left /\ closed' = closed /\ Found(o) /\ call[o].pc = "running"
      /\ blob[o] = call[o].got /\ journal[o] = "transferring"
  BY Finds DEF Receive, Found, Follows
<1>1. blob' = [blob EXCEPT ![o] = @ + 1] /\ call' = [call EXCEPT ![o].got = @ + 1] /\ runtime' = runtime
  BY <1>0 DEF Receive, Found, Calls
<1>. DEFINE d == [call[o] EXCEPT !.got = call[o].got + 1]
<1>2. call' = [call EXCEPT ![o] = d] /\ blob[o] + 1 \in Nat /\ call[o].got + 1 \in Nat
      /\ blob' = [blob EXCEPT ![o] = blob[o] + 1]
  BY <1>0, <1>1 DEF Found, Calls
<1>3. d \in Calls /\ d.pc = "running" /\ d.got = blob[o] + 1
  <2>1. \A n \in Nat : LET e == [call[o] EXCEPT !.got = n] IN
           e \in Calls /\ e.pc = "running" /\ e.got = n
    BY <1>0 DEF Found, Calls
  <2>. QED
    BY <1>0, <1>2, <2>1
<1>. HIDE DEF d
<1>4. /\ call' \in [Ops -> Calls] /\ call'[o] = d /\ blob'[o] = blob[o] + 1
      /\ \A p \in Ops \ {o} : call'[p] = call[p]
  BY <1>0, <1>2, <1>3 DEF Found
<1>5. Follows(o)' /\ Honest(o)'
  BY <1>0, <1>3, <1>4 DEF Follows, Starting, Resuming, Uploadable, Finished, Found, Honest, Stored
<1>. QED
  BY <1>0, <1>1, <1>2, <1>4, <1>5, BlobKeeps DEF Found

\* Steps by which only the call moves.
LEMMA MovesKeep ==
    \A o \in Ops : IInv /\ (RunCompletes(o) \/ ReadBody(o) \/ UploadPrepared(o) \/ Reconcile(o)
                            \/ Reload(o) \/ RunRejected(o) \/ Aborted(o)) => IInv'
<1>. SUFFICES ASSUME NEW o \in Ops, IInv,
                     RunCompletes(o) \/ ReadBody(o) \/ UploadPrepared(o) \/ Reconcile(o)
                       \/ Reload(o) \/ RunRejected(o) \/ Aborted(o)
              PROVE  IInv'
  OBVIOUS
<1>0. /\ journal' = journal /\ blob' = blob /\ idle' = idle /\ cloud' = cloud /\ device' = device
      /\ left' = left /\ closed' = closed /\ Found(o) /\ call[o].pc # "idle"
  BY Finds DEF RunCompletes, ReadBody, UploadPrepared, Reconcile, Reload, RunRejected, Aborted, durable, Asking
<1>1. ASSUME NEW pc \in Pcs, call' = Goto(o, pc), runtime' \in {runtime, Release(o)},
             \/ pc = "staged" /\ call[o].pc = "running" /\ call[o].got = Units
             \/ pc \in {"offer", "uploading"} /\ journal[o] = "staged"
             \/ pc = "cloud" /\ journal[o] = "uploading" /\ Stored(o)
             \/ pc = "restage" /\ journal[o] = "uploading"
             \/ pc = "dropBlob" /\ journal[o] \in Unverified
      PROVE  IInv'
  <2>1. call'[o].pc = pc
    BY <1>1, Moves DEF IInv
  <2>2. Follows(o)'
    BY <1>0, <1>1, <2>1 DEF Follows, Starting, Resuming, Uploadable, Finished, Found, Stored
  <2>. QED
    BY <1>0, <1>1, <2>2, Releases, MoveKeeps DEF Found, IInv
<1>2. ASSUME Fail(o, "error") \/ Fail(o, "cancelled") PROVE IInv'
  BY <1>0, <1>2, FailKeeps DEF Found
<1>3. CASE RunCompletes(o)
  BY <1>1, <1>3 DEF RunCompletes, Pcs
<1>4. CASE ReadBody(o)
  BY <1>0, <1>1, <1>2, <1>4 DEF ReadBody, Checked, Found, Follows, Uploadable, Pcs
<1>5. CASE UploadPrepared(o)
  BY <1>0, <1>1, <1>5 DEF UploadPrepared, Found, Follows, Uploadable, Pcs
<1>6. CASE Reconcile(o)
  BY <1>0, <1>1, <1>6 DEF Reconcile, Found, Follows, Honest, Stored, Pcs
<1>7. CASE Reload(o)
  <2>1. CASE journal[o] \in Unverified
    BY <1>0, <1>1, <1>7, <2>1 DEF Reload, Pcs
  <2>2. CASE journal[o] \notin Unverified
    <3>1. call' = Settle(o, call[o].then) /\ runtime' = runtime
      BY <1>7, <2>2 DEF Reload
    <3>2. /\ call' \in [Ops -> Calls] /\ call'[o].pc = "idle"
          /\ \A p \in Ops \ {o} : call'[p] = call[p]
      BY <1>0, <3>1 DEF Found, Settle, NoCall, Calls, Pcs
    <3>. QED
      BY <1>0, <3>1, <3>2, EndedFollows, Active, CallKeeps DEF Found
  <2>. QED
    BY <2>1, <2>2
<1>8. CASE RunRejected(o)
  BY <1>2, <1>8 DEF RunRejected
<1>9. CASE Aborted(o)
  BY <1>2, <1>9 DEF Aborted
<1>. QED
  BY <1>3, <1>4, <1>5, <1>6, <1>7, <1>8, <1>9

\* What may still happen.
LEMMA Counts ==
    ASSUME IInv
    PROVE  /\ Fault => left' \in [faults : Nat, aborts : Nat]
           /\ left.aborts > 0 => [left EXCEPT !.aborts = @ - 1] \in [faults : Nat, aborts : Nat]
<1>1. left \in [faults : Nat, aborts : Nat]
  BY DEF IInv, TypeOK
<1>2. \A n \in Nat : /\ [left EXCEPT !.faults = n] \in [faults : Nat, aborts : Nat]
                    /\ [left EXCEPT !.aborts = n] \in [faults : Nat, aborts : Nat]
  BY <1>1
<1>3. /\ left.faults > 0 => left.faults - 1 \in Nat
      /\ left.aborts > 0 => left.aborts - 1 \in Nat
  BY <1>1
<1>. QED
  BY <1>1, <1>2, <1>3 DEF Fault

\* A cancelled or failed transfer may discard the body.
LEMMA RunEndsKeeps == \A o \in Ops : IInv /\ (RunCancelled(o) \/ RunFails(o)) => IInv'
<1>. SUFFICES ASSUME NEW o \in Ops, IInv, RunCancelled(o) \/ RunFails(o) PROVE IInv'
  OBVIOUS
<1>0. /\ journal' = journal /\ idle' = idle /\ cloud' = cloud /\ device' = device /\ closed' = closed
      /\ call[o].pc = "running" /\ Found(o)
      /\ blob' = [blob EXCEPT ![o] = 0] \/ blob' = [blob EXCEPT ![o] = blob[o]]
  BY Finds DEF RunCancelled, RunFails, Found
<1>1. left' \in [faults : Nat, aborts : Nat]
  BY <1>0, Counts DEF RunCancelled, RunFails, Found
<1>2. /\ call' \in [Ops -> Calls] /\ call'[o].pc \in {"idle", "reload"}
      /\ \A p \in Ops \ {o} : call'[p] = call[p]
      /\ runtime' \in [owner : Ops \cup {0}, connected : BOOLEAN]
  <2>1. CASE Fail(o, "cancelled")
    BY <2>1, Fails DEF IInv
  <2>2. CASE RunFails(o)
    <3>1. call' = [call EXCEPT ![o] = [NoCall EXCEPT !.then = "error"]] /\ runtime' = Release(o)
      BY <2>2 DEF RunFails, Settle
    <3>2. [NoCall EXCEPT !.then = "error"] \in Calls /\ [NoCall EXCEPT !.then = "error"].pc = "idle"
      BY DEF NoCall, Calls, Pcs
    <3>. QED
      BY <1>0, <3>1, <3>2, Releases DEF Found, IInv
  <2>. QED
    BY <2>1, <2>2 DEF RunCancelled
<1>3. blob'[o] \in {0, blob[o]} /\ blob[o] \in Nat /\ journal[o] = "transferring"
  BY <1>0 DEF Found, Follows
<1>4. Honest(o)' /\ Follows(o)'
  BY <1>0, <1>2, <1>3, EndedFollows DEF Found, Honest, Stored
<1>. QED
  BY <1>0, <1>1, <1>2, <1>3, <1>4, BlobKeeps

\* The body is uploaded, the service completes it, the device confirms.
LEMMA PutKeeps == \A o \in Ops : IInv /\ (Put(o) \/ Complete(o)) => IInv'
<1>. SUFFICES ASSUME NEW o \in Ops, IInv, Put(o) \/ Complete(o) PROVE IInv'
  OBVIOUS
<1>0. /\ journal' = journal /\ blob' = blob /\ idle' = idle /\ runtime' = runtime /\ device' = device
      /\ left' = left /\ closed' = closed /\ Found(o) /\ call[o].pc \in {"put", "complete"}
      /\ journal[o] = "uploading" /\ blob[o] = Units
  BY Finds DEF Put, Complete, durable, Found, Follows, Honest
<1>1. PICK c \in [body : Nat, completed : BOOLEAN], pc \in {"complete", "cloud"} :
         /\ cloud' = [cloud EXCEPT ![o] = c] /\ call' = Goto(o, pc) /\ c.body = Units
         /\ pc = "cloud" => c.completed
         /\ Stored(o) => c.completed
  <2>1. CASE Put(o)
    <3>1. [cloud[o] EXCEPT !.body = Units] \in [body : Nat, completed : BOOLEAN]
          /\ [cloud[o] EXCEPT !.body = Units].body = Units
          /\ [cloud[o] EXCEPT !.body = Units].completed = cloud[o].completed
      BY <1>0 DEF Found
    <3>. QED
      BY <1>0, <2>1, <3>1 DEF Put, Stored, Found
  <2>2. CASE Complete(o)
    <3>1. [cloud[o] EXCEPT !.completed = TRUE] \in [body : Nat, completed : BOOLEAN]
          /\ [cloud[o] EXCEPT !.completed = TRUE].body = cloud[o].body
          /\ [cloud[o] EXCEPT !.completed = TRUE].completed
      BY <1>0 DEF Found
    <3>2. cloud[o].body = Units
      BY <1>0, <2>2 DEF Complete, Found, Follows
    <3>. QED
      BY <1>0, <2>2, <3>1, <3>2 DEF Complete, Found
  <2>. QED
    BY <2>1, <2>2
<1>2. /\ call' \in [Ops -> Calls] /\ call'[o].pc = pc /\ \A p \in Ops \ {o} : call'[p] = call[p]
  BY <1>1, Moves DEF IInv, Pcs
<1>3. cloud'[o] = c
  BY <1>0, <1>1 DEF Found
<1>4. Honest(o)' /\ Follows(o)'
  BY <1>0, <1>1, <1>2, <1>3 DEF Honest, Stored, Follows, Starting, Resuming, Uploadable, Finished
<1>. QED
  BY <1>0, <1>1, <1>2, <1>4, CloudKeeps DEF Found, IInv, TypeOK

\* The provider fails, with or without its effect.
LEMMA ProviderFailsKeeps == \A o \in Ops : IInv /\ ProviderFails(o) => IInv'
<1>. SUFFICES ASSUME NEW o \in Ops, IInv, ProviderFails(o) PROVE IInv'
  OBVIOUS
<1>0. /\ journal' = journal /\ blob' = blob /\ idle' = idle /\ device' = device /\ closed' = closed
      /\ call[o].pc # "idle" /\ Found(o) /\ left' \in [faults : Nat, aborts : Nat]
      /\ Fail(o, "cancelled") \/ Fail(o, "error")
  BY Finds, Counts DEF ProviderFails, durable, Asking
<1>1. CASE cloud' = cloud
  BY <1>0, <1>1, FailKeeps
<1>2. CASE cloud' # cloud
  <2>1. call[o].pc \in {"put", "complete"} /\ journal[o] = "uploading" /\ blob[o] = Units
    BY <1>0, <1>2 DEF ProviderFails, Found, Follows, Honest
  <2>2. PICK c \in [body : Nat, completed : BOOLEAN] :
           /\ cloud' = [cloud EXCEPT ![o] = c] /\ c.body = Units
           /\ Stored(o) => c.completed
    <3>1. /\ [cloud[o] EXCEPT !.body = Units] \in [body : Nat, completed : BOOLEAN]
          /\ [cloud[o] EXCEPT !.body = Units].body = Units
          /\ [cloud[o] EXCEPT !.body = Units].completed = cloud[o].completed
          /\ [cloud[o] EXCEPT !.completed = TRUE] \in [body : Nat, completed : BOOLEAN]
          /\ [cloud[o] EXCEPT !.completed = TRUE].body = cloud[o].body
          /\ [cloud[o] EXCEPT !.completed = TRUE].completed
      BY ZenonT(60), <1>0 DEF Found
    <3>2. CASE call[o].pc = "put"
      BY <1>0, <1>2, <2>1, <3>1, <3>2 DEF ProviderFails, Found, Stored
    <3>3. CASE call[o].pc = "complete"
      BY <1>0, <1>2, <2>1, <3>1, <3>3 DEF ProviderFails, Found, Follows
    <3>. QED
      BY <2>1, <3>2, <3>3
  <2>3. /\ call' \in [Ops -> Calls] /\ call'[o].pc \in {"idle", "reload"}
        /\ \A p \in Ops \ {o} : call'[p] = call[p]
        /\ runtime' \in [owner : Ops \cup {0}, connected : BOOLEAN]
    BY <1>0, Fails DEF IInv
  <2>4. cloud'[o] = c
    BY <1>0, <2>2 DEF Found
  <2>5. Honest(o)' /\ Follows(o)'
    BY <1>0, <2>1, <2>2, <2>3, <2>4, EndedFollows DEF Honest, Stored
  <2>6. device \in BOOLEAN
    BY DEF IInv, TypeOK
  <2>. QED
    BY <1>0, <2>2, <2>3, <2>5, <2>6, CloudKeeps
<1>. QED
  BY <1>1, <1>2

\* CONFIRM: the journal says that the upload is complete.
LEMMA DeviceConfirmsKeeps == \A o \in Ops : IInv /\ DeviceConfirms(o) => IInv'
<1>. SUFFICES ASSUME NEW o \in Ops, IInv, DeviceConfirms(o) PROVE IInv'
  OBVIOUS
<1>0. /\ journal' = journal /\ blob' = blob /\ idle' = idle /\ runtime' = runtime /\ device' = FALSE
      /\ left' = left /\ closed' = closed /\ cloud' = cloud /\ Found(o) /\ call[o].pc = "confirm"
      /\ call' = Goto(o, "confirmed") /\ journal[o] = "cloud_completed"
  BY Finds DEF DeviceConfirms, durable, Found, Follows, Finished
<1>1. /\ call' \in [Ops -> Calls] /\ call'[o].pc = "confirmed" /\ \A p \in Ops \ {o} : call'[p] = call[p]
  BY <1>0, Moves DEF IInv, Pcs, Finished
<1>2. Honest(o)' /\ Follows(o)' /\ Stored(o)
  BY <1>0, <1>1 DEF Found, Honest, Stored, Follows, Starting, Resuming, Uploadable, Finished
<1>3. TypeOK' /\ OthersKept(o)
  BY <1>0, <1>1 DEF IInv, TypeOK, OthersKept
<1>. QED
  BY <1>0, <1>2, <1>3, Active, StepKeeps DEF Stored

\* Deleting: the body, then the journal.
LEMMA DropBlobKeeps == \A o \in Ops : IInv /\ DropBlob(o) => IInv'
<1>. SUFFICES ASSUME NEW o \in Ops, IInv, DropBlob(o) PROVE IInv'
  OBVIOUS
<1>0. /\ journal' = journal /\ idle' = idle /\ runtime' = runtime /\ device' = device
      /\ left' = left /\ closed' = closed /\ cloud' = cloud /\ Found(o) /\ call[o].pc = "dropBlob"
      /\ journal[o] \in Unverified \cup {"confirmed"} /\ blob' = [blob EXCEPT ![o] = 0]
  BY Finds DEF DropBlob, Found, Follows
<1>1. PICK t \in {"none", "ok", "error", "cancelled"} :
         call' = [call EXCEPT ![o] = [call[o] EXCEPT !.pc = "dropJournal", !.then = t]]
  BY <1>0 DEF DropBlob, Found, Calls
<1>2. /\ [call[o] EXCEPT !.pc = "dropJournal", !.then = t] \in Calls
      /\ [call[o] EXCEPT !.pc = "dropJournal", !.then = t].pc = "dropJournal"
  BY <1>0 DEF Found, Calls, Pcs
<1>3. /\ call' \in [Ops -> Calls] /\ call'[o].pc = "dropJournal" /\ blob'[o] = 0
      /\ \A p \in Ops \ {o} : call'[p] = call[p]
  BY <1>0, <1>1, <1>2 DEF Found
<1>4. Honest(o)' /\ Follows(o)'
  BY <1>0, <1>3 DEF Found, Honest, Stored, Follows, Starting, Resuming, Uploadable, Finished, Unverified
<1>. QED
  BY <1>0, <1>3, <1>4, BlobKeeps DEF Found

\* The journal is deleted, after its body (finishConfirmedJournal).
LEMMA DropJournalKeeps == \A o \in Ops : IInv /\ DropJournal(o) => IInv'
<1>. SUFFICES ASSUME NEW o \in Ops, IInv, DropJournal(o) PROVE IInv'
  OBVIOUS
<1>0. /\ blob' = blob /\ idle' = idle /\ runtime' = Release(o) /\ device' = device
      /\ left' = left /\ closed' = closed /\ cloud' = cloud /\ Found(o) /\ call[o].pc = "dropJournal"
      /\ blob[o] = 0 /\ journal' = [journal EXCEPT ![o] = "absent"]
  BY Finds DEF DropJournal, Found, Follows
<1>1. PICK t \in {"none", "ok", "error", "cancelled"} : call' = [call EXCEPT ![o] = [NoCall EXCEPT !.then = t]]
  BY <1>0 DEF DropJournal, Settle, Found, Calls
<1>2. [NoCall EXCEPT !.then = t] \in Calls /\ [NoCall EXCEPT !.then = t].pc = "idle"
  BY DEF NoCall, Calls, Pcs
<1>3. /\ call' \in [Ops -> Calls] /\ call'[o].pc = "idle" /\ journal'[o] = "absent"
      /\ journal' \in [Ops -> Claimed \cup {"absent"}]
      /\ \A p \in Ops \ {o} : call'[p] = call[p] /\ journal'[p] = journal[p]
  BY <1>0, <1>1, <1>2 DEF Found
<1>4. Honest(o)' /\ Follows(o)'
  BY <1>0, <1>3, EndedFollows DEF Found, Honest, Stored
<1>5. TypeOK' /\ OthersKept(o)
  BY <1>0, <1>3, Releases DEF IInv, TypeOK, OthersKept
<1>. QED
  BY <1>0, <1>4, <1>5, Active, StepKeeps DEF Stored

\* A failure of the storage ends the call.
LEMMA StorageFailsKeeps == \A o \in Ops : IInv /\ StorageFails(o) => IInv'
<1>. SUFFICES ASSUME NEW o \in Ops, IInv, StorageFails(o) PROVE IInv'
  OBVIOUS
<1>0. /\ journal' = journal /\ blob' = blob /\ idle' = idle /\ runtime' = Release(o) /\ device' = device
      /\ closed' = closed /\ cloud' = cloud /\ Found(o) /\ call[o].pc # "idle"
      /\ left' \in [faults : Nat, aborts : Nat]
  BY Finds, Counts DEF StorageFails, Storing, durable
<1>1. PICK t \in {"cancelled", "error"} : call' = [call EXCEPT ![o] = [NoCall EXCEPT !.then = t]]
  BY DEF StorageFails, Settle
<1>2. [NoCall EXCEPT !.then = t] \in Calls /\ [NoCall EXCEPT !.then = t].pc = "idle"
  BY DEF NoCall, Calls, Pcs
<1>3. /\ call' \in [Ops -> Calls] /\ call'[o].pc = "idle" /\ \A p \in Ops \ {o} : call'[p] = call[p]
  BY <1>0, <1>1, <1>2 DEF Found
<1>. QED
  BY <1>0, <1>3, Releases, EndedFollows, Active, CallKeeps DEF IInv, Found

-----------------------------------------------------------------------------
(* The application, its cancellations and the page *)

\* A call begins; never while a cancellation of it deletes.
LEMMA BeginKeeps ==
    ASSUME ~StaleCancel
    PROVE  \A o \in Ops : IInv /\ (Sync(o) \/ Resume(o) \/ Confirm(o)) => IInv'
<1>. SUFFICES ASSUME NEW o \in Ops, IInv, Sync(o) \/ Resume(o) \/ Confirm(o) PROVE IInv'
  OBVIOUS
<1>0. PICK api \in {"sync", "resume", "confirm"} : Begin(o, api)
  BY DEF Sync, Resume, Confirm
<1>. DEFINE d == [NoCall EXCEPT !.pc = "load", !.api = api]
<1>1. /\ journal' = journal /\ blob' = blob /\ idle' = idle /\ runtime' = runtime /\ device' = device
      /\ closed' = closed /\ cloud' = cloud /\ left' = left /\ idle.op # o
      /\ call' = [call EXCEPT ![o] = d] /\ Found(o)
  BY <1>0, Finds DEF Begin, durable
<1>2. d \in Calls /\ d.pc = "load" /\ d.api # "none"
  BY DEF NoCall, Calls, Pcs
<1>. HIDE DEF d
<1>3. /\ call' \in [Ops -> Calls] /\ call'[o] = d /\ \A p \in Ops \ {o} : call'[p] = call[p]
  BY <1>1, <1>2 DEF Found
<1>4. Follows(o)'
  BY <1>2, <1>3 DEF Follows, Starting, Resuming, Uploadable, Finished
<1>. QED
  BY <1>1, <1>3, <1>4, CallKeeps DEF Found

\* cancel() of an operation under way only asks it to stop.
LEMMA CancelKeeps == \A o \in Ops : IInv /\ Cancel(o) => IInv'
<1>. SUFFICES ASSUME NEW o \in Ops, IInv, Cancel(o) PROVE IInv'
  OBVIOUS
<1>. DEFINE d == [call[o] EXCEPT !.aborted = TRUE]
<1>1. /\ journal' = journal /\ blob' = blob /\ idle' = idle /\ runtime' = runtime /\ device' = device
      /\ closed' = closed /\ cloud' = cloud /\ call[o].pc # "idle"
      /\ call' = [call EXCEPT ![o] = d] /\ Found(o) /\ left' \in [faults : Nat, aborts : Nat]
  BY Finds, Counts DEF Cancel, durable
<1>2. d \in Calls /\ d.pc = call[o].pc /\ d.api = call[o].api /\ d.held = call[o].held /\ d.got = call[o].got
  BY <1>1 DEF Found, Calls
<1>. HIDE DEF d
<1>3. /\ call' \in [Ops -> Calls] /\ call'[o] = d /\ \A p \in Ops \ {o} : call'[p] = call[p]
  BY <1>1, <1>2 DEF Found
<1>4. Follows(o)'
  BY <1>1, <1>2, <1>3 DEF Found, Follows, Stored
<1>. QED
  BY <1>1, <1>3, <1>4, Active, CallKeeps DEF Found

\* A cancellation of an idle operation: begun, it reads the journal and deletes.
IdleStep == IdleLoad \/ IdleDropBlob \/ IdleDropJournal \/ IdleFails

\* cancel() of an operation that is not under way begins with its journal.
LEMMA CancelIdleKeeps == \A o \in Ops : IInv /\ CancelIdle(o) => IInv'
<1>. SUFFICES ASSUME NEW o \in Ops, IInv, CancelIdle(o) PROVE IInv'
  OBVIOUS
<1>1. /\ journal' = journal /\ blob' = blob /\ runtime' = runtime /\ device' = device /\ call' = call
      /\ closed' = closed /\ cloud' = cloud /\ call[o].pc = "idle"
      /\ idle' = [op |-> o, pc |-> "load"] /\ left' \in [faults : Nat, aborts : Nat]
  BY Counts DEF CancelIdle, durable
<1>. QED
  BY <1>1 DEF IInv, TypeOK, IdleFollows, Custody, Honest, Stored, Follows

\* Such a cancellation deletes the body first and then the journal.
LEMMA IdleKeeps == IInv /\ IdleStep => IInv'
<1>. SUFFICES ASSUME IInv, IdleStep PROVE IInv'
  OBVIOUS
<1>. PICK o \in Ops : o = idle.op
  BY DEF IdleStep, IdleLoad, IdleDropBlob, IdleDropJournal, IdleFails, IInv, TypeOK
<1>1. /\ runtime' = runtime /\ device' = device /\ call' = call /\ closed' = closed /\ cloud' = cloud
      /\ o = idle.op /\ left' \in [faults : Nat, aborts : Nat] /\ idle.pc \in {"load", "dropBlob", "dropJournal"}
  BY Counts DEF IdleStep, IdleLoad, IdleDropBlob, IdleDropJournal, IdleFails, durable, IInv, TypeOK
<1>2. call[o].pc = "idle" /\ Found(o) /\ TypeOK
  BY <1>1, RecordingsAssumption, Finds DEF IInv, IdleFollows
<1>3. CASE journal' = journal /\ blob' = blob
  <2>1. /\ idle' \in [op : Ops \cup {0}, pc : {"load", "dropBlob", "dropJournal"}]
        /\ IdleFollows'
    <3>1. CASE IdleLoad
      BY <1>1, <1>2, <1>3, <3>1 DEF IdleLoad, IdleFollows, TypeOK, Unverified
    <3>2. CASE IdleDropBlob
      <4>1. idle.pc = "dropBlob" /\ idle' = [idle EXCEPT !.pc = "dropJournal"] /\ blob'[o] = 0
        BY <1>1, <1>2, <3>2 DEF IdleDropBlob, TypeOK
      <4>2. idle'.op = o /\ idle'.pc = "dropJournal"
            /\ idle' \in [op : Ops \cup {0}, pc : {"load", "dropBlob", "dropJournal"}]
        BY <1>1, <1>2, <4>1 DEF TypeOK
      <4>3. journal[o] \in Unverified
        BY <1>1, <4>1, RecordingsAssumption DEF IInv, IdleFollows
      <4>. QED
        BY <1>1, <1>2, <1>3, <4>1, <4>2, <4>3 DEF IdleFollows
    <3>3. CASE IdleDropJournal \/ IdleFails
      BY <3>3 DEF IdleDropJournal, IdleFails, IdleFollows
    <3>. QED
      BY <3>1, <3>2, <3>3 DEF IdleStep
  <2>2. TypeOK'
    BY <1>1, <1>3, <2>1 DEF IInv, TypeOK
  <2>3. \A p \in Ops : Honest(p)' /\ Follows(p)'
    BY <1>1, <1>3 DEF IInv, Honest, Follows, Stored
  <2>. QED
    BY <1>1, <1>3, <2>1, <2>2, <2>3 DEF IInv, Custody
<1>4. CASE IdleDropBlob
  <2>1. /\ blob' = [blob EXCEPT ![o] = 0] /\ journal' = journal /\ idle.pc = "dropBlob"
        /\ idle' = [idle EXCEPT !.pc = "dropJournal"] /\ journal[o] \in Unverified
    BY <1>1, <1>4, RecordingsAssumption DEF IdleDropBlob, IInv, IdleFollows
  <2>2. idle'.op = o /\ idle'.pc = "dropJournal"
        /\ idle' \in [op : Ops \cup {0}, pc : {"load", "dropBlob", "dropJournal"}]
    BY <1>1, <1>2, <2>1 DEF TypeOK
  <2>3. blob' \in [Ops -> Nat] /\ blob'[o] = 0 /\ \A p \in Ops \ {o} : blob'[p] = blob[p]
    BY <1>1, <1>2, <2>1 DEF TypeOK
  <2>4. TypeOK' /\ IdleFollows'
    BY <1>1, <1>2, <2>1, <2>2, <2>3 DEF TypeOK, IdleFollows
  <2>5. Honest(o)' /\ Follows(o)'
    BY <1>1, <1>2, <2>1, <2>3, EndedFollows DEF Found, Honest, Stored, Unverified
  <2>6. \A p \in Ops \ {o} : Honest(p)' /\ Follows(p)'
    BY <1>1, <2>1, <2>3 DEF IInv, Honest, Follows, Stored
  <2>. QED
    BY <1>1, <2>4, <2>5, <2>6 DEF IInv, Custody
<1>5. CASE IdleDropJournal
  <2>1. /\ journal' = [journal EXCEPT ![o] = "absent"] /\ blob' = blob /\ idle.pc = "dropJournal"
        /\ idle' = [op |-> 0, pc |-> "load"] /\ blob[o] = 0
    BY <1>1, <1>5, RecordingsAssumption DEF IdleDropJournal, IInv, IdleFollows
  <2>2. journal' \in [Ops -> Claimed \cup {"absent"}] /\ journal'[o] = "absent"
        /\ \A p \in Ops \ {o} : journal'[p] = journal[p]
    BY <1>1, <1>2, <2>1 DEF TypeOK
  <2>3. TypeOK' /\ IdleFollows'
    BY <1>1, <1>2, <2>1, <2>2 DEF TypeOK, IdleFollows
  <2>4. Honest(o)' /\ Follows(o)'
    BY <1>1, <1>2, <2>1, <2>2, EndedFollows DEF Found, Honest, Stored
  <2>5. \A p \in Ops \ {o} : Honest(p)' /\ Follows(p)'
    BY <1>1, <2>1, <2>2 DEF IInv, Honest, Follows, Stored
  <2>. QED
    BY <1>1, <2>3, <2>4, <2>5 DEF IInv, Custody
<1>. QED
  BY <1>3, <1>4, <1>5 DEF IdleStep, IdleLoad, IdleFails, durable

\* The link goes down: CONFIRM may have been executed.
LEMMA LinkDropsKeeps == IInv /\ LinkDrops => IInv'
<1>. SUFFICES ASSUME IInv, LinkDrops PROVE IInv'
  OBVIOUS
<1>. PICK o \in Ops \cup {0} : o = runtime.owner
  BY DEF IInv, TypeOK
<1>1. /\ journal' = journal /\ blob' = blob /\ idle' = idle /\ cloud' = cloud /\ closed' = closed
      /\ left' \in [faults : Nat, aborts : Nat] /\ o = runtime.owner /\ TypeOK
  BY Counts DEF LinkDrops, durable, IInv, TypeOK
<1>2. device' = device \/ (o # 0 /\ call[o].pc = "confirm" /\ device' = FALSE)
  BY DEF LinkDrops
<1>3. CASE o = 0
  <2>1. call' = call /\ runtime' = [runtime EXCEPT !.connected = FALSE] /\ device' = device
    BY <1>2, <1>3 DEF LinkDrops
  <2>2. TypeOK' /\ IdleFollows' /\ Custody'
    BY <1>1, <2>1 DEF IInv, TypeOK, IdleFollows, Custody
  <2>3. \A p \in Ops : Honest(p)' /\ Follows(p)'
    BY <1>1, <2>1 DEF IInv, Honest, Follows, Stored
  <2>. QED
    BY <2>2, <2>3 DEF IInv
<1>4. CASE o # 0
  <2>0. o \in Ops /\ Found(o)
    BY <1>1, <1>4, Finds
  <2>1. PICK d \in Calls : /\ call' = [call EXCEPT ![o] = d]
                           /\ \/ d.pc = "idle"
                              \/ /\ device' = device /\ d.pc = call[o].pc /\ d.api = call[o].api
                                 /\ d.held = call[o].held /\ d.got = call[o].got
    <3>1. CASE call[o].pc \notin Holding
      <4>1. call' = [call EXCEPT ![o] = [call[o] EXCEPT !.lost = TRUE]] /\ device' = device
        BY <1>2, <1>4, <3>1 DEF LinkDrops, Holding
      <4>2. LET d == [call[o] EXCEPT !.lost = TRUE] IN
            d \in Calls /\ d.pc = call[o].pc /\ d.api = call[o].api
            /\ d.held = call[o].held /\ d.got = call[o].got
        BY <2>0 DEF Found, Calls
      <4>. QED
        BY <4>1, <4>2
    <3>2. CASE call[o].pc \in Holding
      <4>1. call' = [call EXCEPT ![o] = [NoCall EXCEPT !.then = "error"]]
        BY <1>4, <3>2 DEF LinkDrops, Settle
      <4>2. [NoCall EXCEPT !.then = "error"] \in Calls /\ [NoCall EXCEPT !.then = "error"].pc = "idle"
        BY DEF NoCall, Calls, Pcs
      <4>. QED
        BY <4>1, <4>2
    <3>. QED
      BY <3>1, <3>2
  <2>2. /\ call' \in [Ops -> Calls] /\ call'[o] = d /\ \A p \in Ops \ {o} : call'[p] = call[p]
    BY <2>0, <2>1 DEF Found
  <2>3. Follows(o)'
    BY <1>1, <2>0, <2>1, <2>2, EndedFollows DEF Found, Follows, Stored
  <2>4. runtime' \in [owner : Ops \cup {0}, connected : BOOLEAN]
    <3>1. runtime' = [runtime EXCEPT !.connected = FALSE] \/ runtime' = [owner |-> 0, connected |-> FALSE]
      BY DEF LinkDrops
    <3>2. \A r \in [owner : Ops \cup {0}, connected : BOOLEAN] :
             [r EXCEPT !.connected = FALSE] \in [owner : Ops \cup {0}, connected : BOOLEAN]
      OBVIOUS
    <3>3. [owner |-> 0, connected |-> FALSE] \in [owner : Ops \cup {0}, connected : BOOLEAN]
      OBVIOUS
    <3>4. runtime \in [owner : Ops \cup {0}, connected : BOOLEAN]
      BY <1>1 DEF TypeOK
    <3>. QED
      BY <3>1, <3>2, <3>3, <3>4
  <2>5. device' \in BOOLEAN /\ (device => device' \/ Stored(o)) /\ (device' => device)
    <3>1. call[o].pc = "confirm" => Stored(o)
      BY <2>0 DEF Found, Follows, Honest, Finished
    <3>2. device \in BOOLEAN
      BY <1>1 DEF TypeOK
    <3>3. CASE device' = device
      BY <3>2, <3>3
    <3>4. CASE call[o].pc = "confirm" /\ device' = FALSE
      BY <3>1, <3>4
    <3>. QED
      BY <1>2, <3>3, <3>4
  <2>6. TypeOK' /\ OthersKept(o) /\ Honest(o)' /\ (Stored(o) => Stored(o)')
    BY <1>1, <2>0, <2>2, <2>4, <2>5 DEF TypeOK, OthersKept, Found, Honest, Stored
  <2>7. idle' = idle /\ (idle.op = o => IdleFollows')
    BY <1>1, <2>1, <2>2 DEF IInv, IdleFollows
  <2>8. CASE idle.op # o
    BY <1>1, <2>0, <2>3, <2>5, <2>6, <2>8, StepKeeps
  <2>9. CASE idle.op = o
    <3>1. ~(call[o].pc = "confirm") /\ device' = device
      BY <1>2, <2>0, <2>9, RecordingsAssumption DEF IInv, IdleFollows
    <3>2. Custody'
      BY <1>1, <3>1 DEF IInv, Custody
    <3>3. \A p \in Ops \ {o} : Honest(p)' /\ Follows(p)'
      BY <1>1, <2>2, <3>1 DEF IInv, Honest, Follows, Stored
    <3>. QED
      BY <2>3, <2>6, <2>7, <2>9, <3>2, <3>3 DEF IInv
  <2>. QED
    BY <2>8, <2>9
<1>. QED
  BY <1>3, <1>4

\* The page: connected again, closed, closed.
LEMMA PageKeeps == IInv /\ (Connect \/ ReloadPage \/ Destroy) => IInv'
<1>. SUFFICES ASSUME IInv, Connect \/ ReloadPage \/ Destroy PROVE IInv'
  OBVIOUS
<1>1. /\ journal' = journal /\ blob' = blob /\ cloud' = cloud /\ device' = device
      /\ left' \in [faults : Nat, aborts : Nat] /\ closed' \in BOOLEAN /\ TypeOK
      /\ runtime' \in [owner : Ops \cup {0}, connected : BOOLEAN]
  <2>1. /\ journal' = journal /\ blob' = blob /\ cloud' = cloud /\ device' = device
        /\ closed' \in BOOLEAN /\ TypeOK
    BY DEF Connect, ReloadPage, Destroy, durable, IInv, TypeOK
  <2>2. left' \in [faults : Nat, aborts : Nat]
    BY <2>1, Counts DEF Connect, ReloadPage, Destroy, TypeOK
  <2>3. \/ runtime' = runtime \/ runtime' = [runtime EXCEPT !.connected = TRUE]
        \/ runtime' = [owner |-> 0, connected |-> FALSE]
    BY DEF Connect, ReloadPage, Destroy
  <2>4. \A r \in [owner : Ops \cup {0}, connected : BOOLEAN] :
           [r EXCEPT !.connected = TRUE] \in [owner : Ops \cup {0}, connected : BOOLEAN]
    OBVIOUS
  <2>5. runtime' \in [owner : Ops \cup {0}, connected : BOOLEAN]
    <3>1. runtime \in [owner : Ops \cup {0}, connected : BOOLEAN]
      BY <2>1 DEF TypeOK
    <3>2. [owner |-> 0, connected |-> FALSE] \in [owner : Ops \cup {0}, connected : BOOLEAN]
      OBVIOUS
    <3>. QED
      BY <2>3, <2>4, <3>1, <3>2
  <2>. QED
    BY <2>1, <2>2, <2>5
<1>2. /\ call' \in [Ops -> Calls]
      /\ idle' \in [op : Ops \cup {0}, pc : {"load", "dropBlob", "dropJournal"}]
      /\ idle'.op # 0 => idle' = idle /\ \A p \in Ops : call'[p].pc = call[p].pc
      /\ \A p \in Ops : \/ call'[p].pc = "idle"
                        \/ /\ call'[p].pc = call[p].pc /\ call'[p].api = call[p].api
                           /\ call'[p].held = call[p].held /\ call'[p].got = call[p].got
  <2>1. CASE Connect
    BY <1>1, <2>1 DEF Connect, TypeOK
  <2>2. CASE ReloadPage
    BY <1>1, <2>2 DEF ReloadPage, TypeOK, NoCall, Calls, Pcs
  <2>3. CASE Destroy
    <3>1. ASSUME NEW p \in Ops, NEW a \in BOOLEAN
          PROVE  LET d == [call[p] EXCEPT !.aborted = a] IN
                 d \in Calls /\ d.pc = call[p].pc /\ d.api = call[p].api
                 /\ d.held = call[p].held /\ d.got = call[p].got
      <4>1. call[p] \in Calls
        BY <1>1 DEF TypeOK
      <4>. QED
        BY <4>1 DEF Calls
    <3>2. call' = [p \in Ops |-> [call[p] EXCEPT !.aborted = call[p].pc # "idle"]] /\ idle' = idle
      BY <2>3 DEF Destroy
    <3>3. \A p \in Ops : (call[p].pc # "idle") \in BOOLEAN
      OBVIOUS
    <3>4. ASSUME NEW p \in Ops
          PROVE  /\ call'[p] \in Calls /\ call'[p].pc = call[p].pc /\ call'[p].api = call[p].api
                 /\ call'[p].held = call[p].held /\ call'[p].got = call[p].got
      BY <3>1, <3>2, <3>3
    <3>5. call' \in [Ops -> Calls]
      BY <3>2, <3>4
    <3>. QED
      BY <1>1, <3>2, <3>4, <3>5 DEF TypeOK
  <2>. QED
    BY <2>1, <2>2, <2>3
<1>3. \A p \in Ops : Honest(p)' /\ Follows(p)'
  <2>. SUFFICES ASSUME NEW p \in Ops PROVE Honest(p)' /\ Follows(p)'
    OBVIOUS
  <2>1. Honest(p)'
    BY <1>1 DEF IInv, Honest, Stored
  <2>2. CASE call'[p].pc = "idle"
    BY <2>1, <2>2, EndedFollows
  <2>3. CASE call'[p].pc # "idle"
    <3>1. /\ call'[p].pc = call[p].pc /\ call'[p].api = call[p].api
          /\ call'[p].held = call[p].held /\ call'[p].got = call[p].got
      BY <1>2, <2>3
    <3>2. Follows(p)
      BY DEF IInv
    <3>. QED
      BY <1>1, <2>1, <3>1, <3>2 DEF Follows, Stored
  <2>. QED
    BY <2>1, <2>2, <2>3
<1>4. TypeOK' /\ IdleFollows' /\ Custody'
  BY <1>1, <1>2 DEF IInv, TypeOK, IdleFollows, Custody
<1>. QED
  BY <1>3, <1>4 DEF IInv

-----------------------------------------------------------------------------
(* The theorems *)

\* The invariant holds of an empty browser.
LEMMA Starts == Init => IInv
<1>. SUFFICES ASSUME Init PROVE IInv
  OBVIOUS
<1>1. TypeOK
  BY RecordingsAssumption DEF Init, TypeOK, NoCall, Calls, Pcs
<1>2. IdleFollows /\ Custody
  BY DEF Init, IdleFollows, Custody
<1>3. \A o \in Ops : Honest(o) /\ Follows(o)
  BY DEF Init, Honest, Stored, Follows, NoCall, Starting, Resuming, Uploadable, Finished
<1>. QED
  BY <1>1, <1>2, <1>3 DEF IInv

\* The invariant is inductive.
LEMMA Keeps == ASSUME ~StaleCancel PROVE IInv /\ [Next]_vars => IInv'
<1>. SUFFICES ASSUME IInv, [Next]_vars PROVE IInv'
  OBVIOUS
<1>1. ASSUME NEW o \in Ops, Steps(o) PROVE IInv'
  BY <1>1, LoadKeeps, SavesKeep, ClaimKeeps, VerifiedKeeps, AuthorizedKeeps, EmptySinkKeeps, ReceiveKeeps,
     MovesKeep, RunEndsKeeps, PutKeeps, DeviceConfirmsKeeps, DropBlobKeeps, DropJournalKeeps DEF Steps
<1>2. ASSUME NEW o \in Ops, Sync(o) \/ Resume(o) \/ Confirm(o) PROVE IInv'
  BY <1>2, BeginKeeps
<1>3. ASSUME NEW o \in Ops,
             Cancel(o) \/ CancelIdle(o) \/ StorageFails(o) \/ ProviderFails(o) \/ RunFails(o)
      PROVE  IInv'
  BY <1>3, CancelKeeps, CancelIdleKeeps, StorageFailsKeeps, ProviderFailsKeeps, RunEndsKeeps
<1>4. CASE IdleStep \/ LinkDrops \/ Connect \/ ReloadPage \/ Destroy
  BY <1>4, IdleKeeps, LinkDropsKeeps, PageKeeps
<1>5. CASE UNCHANGED vars
  <2>1. TypeOK' /\ IdleFollows' /\ Custody'
    BY <1>5 DEF vars, durable, IInv, TypeOK, IdleFollows, Custody
  <2>2. \A o \in Ops : Honest(o)' /\ Follows(o)'
    BY <1>5 DEF vars, durable, IInv, Honest, Stored, Follows
  <2>. QED
    BY <2>1, <2>2 DEF IInv
<1>. QED
  BY <1>1, <1>2, <1>3, <1>4, <1>5 DEF Next, IdleStep

\* The inductive invariant, for an application that does not start an operation anew
\* while its cancellation of it still deletes.
THEOREM Invariant == ASSUME ~StaleCancel PROVE Spec => []IInv
<1>1. IInv /\ [Next]_vars => IInv'
  BY Keeps
<1>. QED
  BY <1>1, Starts, PTL DEF Spec

\* The journals, the bodies, the calls and the runtime have the types of the code, always.
THEOREM TypeInvariant == ASSUME ~StaleCancel PROVE Spec => []TypeOK
<1>1. IInv => TypeOK
  BY DEF IInv
<1>. QED
  BY <1>1, Invariant, PTL

\* CONFIRM, by which the device deletes the recording, is sent only when the service
\* has completed the upload of all of it: over reloads, failures and cancellations.
THEOREM CustodyHolds == ASSUME ~StaleCancel PROVE Spec => []Custody
<1>1. IInv => Custody
  BY DEF IInv
<1>. QED
  BY <1>1, Invariant, PTL

\* A journal that is stored as staged, uploading or completed is backed by the body or
\* by the upload that it claims, and no body stays behind without a journal.
THEOREM JournalHonestHolds == ASSUME ~StaleCancel PROVE Spec => []JournalHonest
<1>1. IInv => JournalHonest
  BY DEF IInv, Honest, Stored, JournalHonest
<1>. QED
  BY <1>1, Invariant, PTL

=============================================================================
