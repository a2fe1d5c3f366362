----------------------- MODULE WebProvisioning_proofs -----------------------
(***************************************************************************)
(* Proofs about WebProvisioning, for every set of attempts, every number   *)
(* of chunks, of faults, of cancellations, of lost results and of          *)
(* removals: one attempt is open at a time, the journals are true of the   *)
(* device and of the provider, and an attempt that was heard to succeed is *)
(* not aborted.                                                            *)
(***************************************************************************)
EXTENDS WebProvisioning, FiniteSetTheorems, SequenceTheorems, TLAPS

-----------------------------------------------------------------------------
(* Types *)

Asked == {"read", "prepare", "subscribe", "endpoint", "token"}
Effects == Asked \cup Quiet \cup {"schedule", "unsubscribe", "completed", "failed"}
Begun == {"ReadingNonce", "ReadingPublicKey", "PreparingMaterial"}
Sending == {"WritingToken", "AwaitingResult"}
Prepared == Sending \cup {"Subscribing", "WritingEndpoint", "Completed"}

\* What a call of provision goes through once its workflow has begun.
Trying == {"running", "cancelling", "give up", "abort", "saveAborted"}
Handing == {"applied", "confirm", "saveConfirmed"}
Removes == {"listen", "command", "await", "close"}
Pcs == {"idle", "load", "verify", "grant"} \cup Trying \cup Handing \cup Removes

Runs == [pc : Pcs, a : Attempts \cup {0}, stop : BOOLEAN, stage : {"none", "provider", "saving"},
         prep : BOOLEAN, mine : BOOLEAN, busy : {"no", "executed"} \cup Writes \cup RemovalWrites,
         heard : BOOLEAN, direct : BOOLEAN, got : {"none", "removed", "refused"},
         told : {"none", "removed", "refused", "failed"}]

Workflows == [phase : {"none", "Failed"} \cup Begun \cup Prepared, chunk : Nat, timer : BOOLEAN,
              sub : BOOLEAN]

\* The types of the journals, the call, the workflow, the device and the provider.
TypeOK ==
    /\ journal \in [Attempts -> {"absent", "prepared", "device_applied", "backend_confirmed", "aborted"}]
    /\ run \in Runs
    /\ wf \in Workflows
    /\ fx \in Seq(Effects) /\ link \in BOOLEAN /\ air \in Seq(BOOLEAN)
    /\ dev \in [n : Nat, storing : Attempts \cup {0, Removal}, granted : BOOLEAN, bound : BOOLEAN]
    /\ applied \subseteq Attempts
    /\ backend \in [confirmed : SUBSET Attempts, aborted : SUBSET Attempts]
    /\ left \in [faults : Nat, aborts : Nat, lost : Nat, removals : Nat]

-----------------------------------------------------------------------------
(* The inductive invariant *)

\* What the journal of an attempt claims.
Truthful(a) ==
    /\ journal[a] \in {"device_applied", "backend_confirmed"} => a \in applied /\ a \notin backend.aborted
    /\ journal[a] = "backend_confirmed" => a \in backend.confirmed
    /\ journal[a] = "aborted" => a \in backend.aborted
    /\ a \in backend.confirmed => journal[a] \in {"device_applied", "backend_confirmed"}

\* No other attempt than the one of the call is open, and its journal is where
\* the call has brought it to.
Single == \A a, b \in Unresolved : a = b

Follows ==
    /\ run.pc = "load" => run.a \in Attempts /\ ~run.mine /\ ~run.heard
    /\ run.pc \in Trying \cup Handing => run.a \in Attempts /\ Unresolved \subseteq {run.a}
    /\ run.pc \in Trying => journal[run.a] = IF run.mine THEN "prepared" ELSE "absent"
    /\ run.pc = "running" /\ (run.mine \/ run.stage = "saving") => run.a \notin backend.aborted
    /\ run.stage # "none" => run.pc \in {"running", "cancelling"} /\ ~run.mine
    /\ run.pc = "saveAborted" => run.mine /\ run.a \in backend.aborted
    /\ run.pc = "applied" => journal[run.a] = "prepared" /\ run.a \in applied /\ run.a \notin backend.aborted
    /\ run.pc \in {"confirm", "saveConfirmed"} => journal[run.a] = "device_applied"
    /\ run.pc = "saveConfirmed" => run.a \in backend.confirmed
    /\ run.pc = "cancelling" /\ run.heard => run.stop
    /\ run.pc = "abort" => ~run.heard

\* The workflow asks for one thing at a time, which is what its phase waits for.
NoneBut(s, kinds) == \A i \in DOMAIN s : s[i] \in Asked => s[i] \in kinds
Once(s) == \A i, j \in DOMAIN s : s[i] \in Asked /\ s[j] \in Asked => i = j
None(s, k) == \A i \in DOMAIN s : s[i] # k

Fits(s, phase) ==
    /\ Once(s)
    /\ phase \in {"ReadingNonce", "ReadingPublicKey"} => NoneBut(s, {"read"})
    /\ phase = "PreparingMaterial" => NoneBut(s, {"prepare"})
    /\ phase = "Subscribing" => NoneBut(s, {"subscribe"})
    /\ phase = "WritingEndpoint" => NoneBut(s, {"endpoint"})
    /\ phase \in {"WritingToken", "Completed"} => NoneBut(s, {"token"})
    /\ phase = "AwaitingResult" => NoneBut(s, {})
    /\ phase # "Completed" => None(s, "completed")
    /\ phase # "Failed" => None(s, "failed")

\* What a running workflow has reached, it was told by its host.
Works ==
    Running =>
        /\ Fits(fx, wf.phase) /\ wf.phase # "none"
        /\ run.mine => None(fx, "prepare")
        /\ wf.phase \in Prepared => run.mine
        /\ wf.phase \in Begun => ~run.mine
        /\ run.heard => wf.phase = "Completed"
        /\ wf.phase = "Completed" => run.a \in applied
        /\ run.stage # "none" => fx # <<>> /\ Head(fx) = "prepare"

\* The write under way is the one that was asked for.
Busy ==
    run.busy # "no" =>
        \/ run.pc = "cancelling"
        \/ Writing /\ run.busy \in {Head(fx), "executed"}
        \/ run.pc \in RemovalWrites /\ run.busy \in {run.pc, "executed"}

\* Whose results are under way: once its endpoint is written, a workflow hears of
\* nobody else's credential; a removal hears of nothing else once it is granted.
Heeds ==
    /\ Running /\ wf.phase = "WritingEndpoint" /\ run.busy = "executed" => dev.storing = 0
    /\ Running /\ wf.phase \in Sending =>
         dev.storing \in {0, run.a} /\ \A i \in DOMAIN air : air[i] => run.a \in applied
    /\ run.pc = "grant" /\ run.busy = "executed" => dev.storing = 0
    /\ run.pc \in Removes => dev.storing \in {0, Removal} /\ \A i \in DOMAIN air : air[i] => ~dev.bound
    /\ run.pc \in {"verify", "grant"} \cup Removes => run.direct
    /\ run.got = "removed" => run.pc = "close" /\ ~dev.bound
    /\ run.told = "removed" => run.pc = "idle" /\ ~dev.bound /\ dev.storing \in {0, Removal}

IInv == /\ TypeOK /\ Single /\ Follows /\ Works /\ Busy /\ Heeds
        /\ \A a \in Attempts : Truthful(a)

-----------------------------------------------------------------------------
(* Sequences of effects *)

LEMMA Tails ==
    ASSUME NEW S, NEW s \in Seq(S), s # <<>>
    PROVE  /\ Head(s) = s[1] /\ Head(s) \in S /\ 1 \in DOMAIN s /\ Tail(s) \in Seq(S)
           /\ \A i \in DOMAIN Tail(s) : i \in Nat \ {0} /\ i + 1 \in DOMAIN s /\ Tail(s)[i] = s[i + 1]
  OBVIOUS

LEMMA Joins ==
    ASSUME NEW S, NEW s \in Seq(S), NEW t \in Seq(S)
    PROVE  /\ s \o t \in Seq(S) /\ Len(s) \in Nat
           /\ \A i \in DOMAIN (s \o t) :
                 \/ i \in DOMAIN s /\ (s \o t)[i] = s[i]
                 \/ i - Len(s) \in DOMAIN t /\ (s \o t)[i] = t[i - Len(s)] /\ i \in Nat
           /\ s # <<>> => s \o t # <<>> /\ Head(s \o t) = Head(s)
  OBVIOUS

\* What is left of what a workflow asked for, when the first of it has settled.
LEMMA Rests ==
    ASSUME NEW s \in Seq(Effects), s # <<>>
    PROVE  /\ \A p : Fits(s, p) => Fits(Tail(s), p)
           /\ \A k : None(s, k) => None(Tail(s), k)
           /\ Once(s) /\ Head(s) \in Asked => NoneBut(Tail(s), {})
<1>1. /\ Head(s) = s[1] /\ 1 \in DOMAIN s
      /\ \A i \in DOMAIN Tail(s) : i \in Nat \ {0} /\ i + 1 \in DOMAIN s /\ Tail(s)[i] = s[i + 1]
  BY Tails
<1>2. \A k : None(s, k) => None(Tail(s), k)
  BY <1>1 DEF None
<1>3. \A K : NoneBut(s, K) => NoneBut(Tail(s), K)
  BY <1>1 DEF NoneBut
<1>4. Once(s) => Once(Tail(s))
  BY <1>1 DEF Once
<1>5. Once(s) /\ Head(s) \in Asked => NoneBut(Tail(s), {})
  BY <1>1 DEF Once, NoneBut
<1>6. \A p : Fits(s, p) => Fits(Tail(s), p)
  BY <1>2, <1>3, <1>4 DEF Fits
<1>. QED
  BY <1>2, <1>5, <1>6

LEMMA Joined ==
    ASSUME NEW s \in Seq(Effects), NEW t \in Seq(Effects)
    PROVE  /\ \A k : None(s, k) /\ None(t, k) => None(s \o t, k)
           /\ \A K, L : NoneBut(s, K) /\ NoneBut(t, L) => NoneBut(s \o t, K \cup L)
           /\ NoneBut(s, {}) /\ Once(t) => Once(s \o t)
           /\ NoneBut(t, {}) /\ Once(s) => Once(s \o t)
<1>1. \A i \in DOMAIN (s \o t) :
         \/ i \in DOMAIN s /\ (s \o t)[i] = s[i]
         \/ i - Len(s) \in DOMAIN t /\ (s \o t)[i] = t[i - Len(s)] /\ i \in Nat
  BY Joins
<1>2. \A k : None(s, k) /\ None(t, k) => None(s \o t, k)
  BY <1>1 DEF None
<1>3. \A K, L : NoneBut(s, K) /\ NoneBut(t, L) => NoneBut(s \o t, K \cup L)
  BY <1>1 DEF NoneBut
<1>4. NoneBut(s, {}) /\ Once(t) => Once(s \o t)
  <2>. SUFFICES ASSUME NoneBut(s, {}), Once(t), NEW i \in DOMAIN (s \o t), NEW j \in DOMAIN (s \o t),
                       (s \o t)[i] \in Asked, (s \o t)[j] \in Asked
                PROVE  i = j
    BY DEF Once
  <2>1. /\ i - Len(s) \in DOMAIN t /\ (s \o t)[i] = t[i - Len(s)]
        /\ j - Len(s) \in DOMAIN t /\ (s \o t)[j] = t[j - Len(s)] /\ i \in Nat /\ j \in Nat
    BY <1>1 DEF NoneBut
  <2>2. i - Len(s) = j - Len(s)
    BY <2>1 DEF Once
  <2>. QED
    BY <2>1, <2>2, Joins
<1>5. NoneBut(t, {}) /\ Once(s) => Once(s \o t)
  BY <1>1 DEF Once, NoneBut
<1>. QED
  BY <1>2, <1>3, <1>4, <1>5

\* A workflow that has nothing under way asks; one that has may only end.
LEMMA Asks ==
    ASSUME NEW s \in Seq(Effects), NEW t \in Seq(Effects), NEW p, Fits(t, p),
           NoneBut(s, {}), None(s, "completed"), None(s, "failed")
    PROVE  Fits(s \o t, p)
<1>1. \A K : NoneBut(t, K) => NoneBut(s \o t, K)
  <2>1. \A K : {} \cup K = K
    OBVIOUS
  <2>. QED
    BY <2>1, Joined
<1>2. \A k : None(s, k) /\ None(t, k) => None(s \o t, k)
  BY Joined
<1>3. Once(s \o t)
  BY Joined DEF Fits
<1>. QED
  BY <1>1, <1>2, <1>3 DEF Fits

LEMMA Ends ==
    ASSUME NEW s \in Seq(Effects), NEW t \in Seq(Effects), NEW p, Fits(s, p), NoneBut(t, {}),
           p \notin {"Completed", "Failed"}
    PROVE  /\ None(t, "completed") => Fits(s \o t, "Failed")
           /\ None(t, "failed") /\ p \in Sending => Fits(s \o t, "Completed")
           /\ \A k : None(s, k) /\ None(t, k) => None(s \o t, k)
<1>1. \A K : NoneBut(s, K) => NoneBut(s \o t, K)
  <2>1. \A K : K \cup {} = K
    OBVIOUS
  <2>. QED
    BY <2>1, Joined
<1>2. \A k : None(s, k) /\ None(t, k) => None(s \o t, k)
  BY Joined
<1>3. Once(s \o t)
  BY Joined DEF Fits
<1>4. NoneBut(s, {}) => NoneBut(s, {"token"})
  BY DEF NoneBut
<1>. QED
  BY <1>1, <1>2, <1>3, <1>4 DEF Fits, Sending

-----------------------------------------------------------------------------
(* The reducer *)

\* The end of a workflow: it asks for nothing that takes it further.
LEMMA Cleans ==
    ASSUME NEW w \in Workflows, NEW t \in {<<"failed">>, <<"deleteCheckpoint", "completed">>}
    PROVE  /\ Cleanup(w) \o t \in Seq(Effects) /\ NoneBut(Cleanup(w) \o t, {})
           /\ None(Cleanup(w) \o t, "prepare")
           /\ t = <<"failed">> => None(Cleanup(w) \o t, "completed")
           /\ t # <<"failed">> => None(Cleanup(w) \o t, "failed")
<1>1. /\ Cleanup(w) \in Seq(Effects) /\ t \in Seq(Effects) /\ NoneBut(Cleanup(w), {}) /\ NoneBut(t, {})
      /\ \A k \in {"prepare", "completed", "failed"} : None(Cleanup(w), k)
  <2>1. Cleanup(w) \in {<<"cancelTimer">>, <<"cancelTimer", "unsubscribe">>}
    BY DEF Cleanup
  <2>2. \A c \in {<<"cancelTimer">>, <<"cancelTimer", "unsubscribe">>} :
           c \in Seq(Effects) /\ NoneBut(c, {}) /\ \A k \in {"prepare", "completed", "failed"} : None(c, k)
    <3>1. <<"cancelTimer">> \in Seq(Effects) /\ <<"cancelTimer", "unsubscribe">> \in Seq(Effects)
      BY DEF Effects, Quiet
    <3>2. /\ NoneBut(<<"cancelTimer">>, {}) /\ NoneBut(<<"cancelTimer", "unsubscribe">>, {})
          /\ \A k \in {"prepare", "completed", "failed"} :
                None(<<"cancelTimer">>, k) /\ None(<<"cancelTimer", "unsubscribe">>, k)
      BY DEF NoneBut, None, Asked
    <3>. QED
      BY <3>1, <3>2
  <2>3. t \in Seq(Effects) /\ NoneBut(t, {})
    <3>1. CASE t = <<"failed">>
      BY <3>1 DEF NoneBut, Asked, Effects
    <3>2. CASE t = <<"deleteCheckpoint", "completed">>
      BY <3>2 DEF NoneBut, Asked, Effects, Quiet
    <3>. QED
      BY <3>1, <3>2
  <2>. QED
    BY <2>1, <2>2, <2>3
<1>2. /\ None(t, "prepare") /\ (t = <<"failed">> => None(t, "completed"))
      /\ (t # <<"failed">> => None(t, "failed"))
  <2>1. CASE t = <<"failed">>
    BY <2>1 DEF None
  <2>2. CASE t = <<"deleteCheckpoint", "completed">>
    BY <2>2 DEF None
  <2>. QED
    BY <2>1, <2>2
<1>3. Cleanup(w) \o t \in Seq(Effects) /\ NoneBut(Cleanup(w) \o t, {} \cup {})
  BY <1>1, Joined, Joins
<1>4. \A k : None(Cleanup(w), k) /\ None(t, k) => None(Cleanup(w) \o t, k)
  BY <1>1, Joined
<1>5. {} \cup {} = {}
  OBVIOUS
<1>. QED
  BY <1>1, <1>2, <1>3, <1>4, <1>5

LEMMA Failing ==
    ASSUME NEW w \in Workflows
    PROVE  LET r == Fail(w) IN
           /\ r.wf \in Workflows /\ r.wf.phase = "Failed" /\ r.fx \in Seq(Effects)
           /\ NoneBut(r.fx, {}) /\ None(r.fx, "completed") /\ None(r.fx, "prepare")
<1>1. Fail(w).wf = [w EXCEPT !.phase = "Failed"] /\ Fail(w).fx = Cleanup(w) \o <<"failed">>
  BY DEF Fail, Answer
<1>. QED
  BY <1>1, Cleans DEF Workflows

LEMMA Completing ==
    ASSUME NEW w \in Workflows
    PROVE  LET r == Complete(w) IN
           /\ r.wf \in Workflows /\ r.wf.phase = "Completed" /\ r.fx \in Seq(Effects)
           /\ NoneBut(r.fx, {}) /\ None(r.fx, "failed") /\ None(r.fx, "prepare")
<1>1. /\ Complete(w).wf = [w EXCEPT !.phase = "Completed"]
      /\ Complete(w).fx = Cleanup(w) \o <<"deleteCheckpoint", "completed">>
  BY DEF Complete, Answer
<1>2. <<"deleteCheckpoint", "completed">> # <<"failed">>
  OBVIOUS
<1>. QED
  BY <1>1, <1>2, Cleans DEF Workflows, Prepared

\* A handler that goes on asks for what its next phase waits for.
Proceeds(r, phases) ==
    /\ r.wf \in Workflows /\ r.wf.phase \in phases /\ r.fx \in Seq(Effects)
    /\ Fits(r.fx, r.wf.phase)

LEMMA Proceeding ==
    ASSUME NEW v \in Workflows, NEW p, v.phase = p, NEW phases, p \in phases,
           NEW s \in Seq(Effects), Fits(s, p)
    PROVE  Proceeds([wf |-> v, fx |-> s], phases)
BY DEF Proceeds

LEMMA Reading ==
    ASSUME NEW w \in Workflows
    PROVE  /\ Proceeds(ReadCompleted(w), {"ReadingPublicKey", "PreparingMaterial"})
           /\ Proceeds(MaterialPrepared(w), {"Subscribing"}) /\ None(MaterialPrepared(w).fx, "prepare")
           /\ Proceeds(WriteEndpoint(w), {"WritingEndpoint"}) /\ None(WriteEndpoint(w).fx, "prepare")
           /\ Proceeds(Start, {"ReadingNonce"})
<1>1. ASSUME NEW p \in Begun \cup Prepared, NEW b \in BOOLEAN
      PROVE  [w EXCEPT !.phase = p] \in Workflows /\ [w EXCEPT !.phase = p, !.sub = b] \in Workflows
             /\ [w EXCEPT !.phase = p].phase = p /\ [w EXCEPT !.phase = p, !.sub = b].phase = p
  BY DEF Workflows
<1>2. \/ ReadCompleted(w) = [wf |-> [w EXCEPT !.phase = "ReadingPublicKey"], fx |-> <<"read">>]
      \/ ReadCompleted(w) = [wf |-> [w EXCEPT !.phase = "PreparingMaterial"], fx |-> <<"prepare">>]
  BY DEF ReadCompleted, Answer
<1>3. /\ Fits(<<"read">>, "ReadingPublicKey") /\ Fits(<<"prepare">>, "PreparingMaterial")
      /\ Fits(<<"subscribe">>, "Subscribing") /\ Fits(<<"endpoint">>, "WritingEndpoint")
      /\ None(<<"subscribe">>, "prepare") /\ None(<<"endpoint">>, "prepare")
  BY DEF Fits, Once, NoneBut, None, Asked
<1>4. Fits(<<"read", "schedule", "save">>, "ReadingNonce")
  BY DEF Fits, Once, NoneBut, None, Asked
<1>5. Proceeds(ReadCompleted(w), {"ReadingPublicKey", "PreparingMaterial"})
  <2>1. <<"read">> \in Seq(Effects) /\ <<"prepare">> \in Seq(Effects)
    BY DEF Effects, Asked
  <2>2. CASE ReadCompleted(w) = [wf |-> [w EXCEPT !.phase = "ReadingPublicKey"], fx |-> <<"read">>]
    <3>1. [w EXCEPT !.phase = "ReadingPublicKey"] \in Workflows /\ [w EXCEPT !.phase = "ReadingPublicKey"].phase = "ReadingPublicKey"
      BY <1>1 DEF Begun
    <3>. QED
      BY <1>3, <2>1, <2>2, <3>1, Proceeding
  <2>3. CASE ReadCompleted(w) = [wf |-> [w EXCEPT !.phase = "PreparingMaterial"], fx |-> <<"prepare">>]
    <3>1. [w EXCEPT !.phase = "PreparingMaterial"] \in Workflows /\ [w EXCEPT !.phase = "PreparingMaterial"].phase = "PreparingMaterial"
      BY <1>1 DEF Begun
    <3>. QED
      BY <1>3, <2>1, <2>3, <3>1, Proceeding
  <2>. QED
    BY <1>2, <2>2, <2>3
<1>6. Proceeds(MaterialPrepared(w), {"Subscribing"}) /\ None(MaterialPrepared(w).fx, "prepare")
  <2>1. <<"subscribe">> \in Seq(Effects)
    BY DEF Effects, Asked
  <2>. QED
    BY ZenonT(60), <1>1, <1>3, <2>1 DEF Proceeds, Prepared, MaterialPrepared, Answer
<1>7. Proceeds(WriteEndpoint(w), {"WritingEndpoint"}) /\ None(WriteEndpoint(w).fx, "prepare")
  <2>1. <<"endpoint">> \in Seq(Effects)
    BY DEF Effects, Asked
  <2>. QED
    BY ZenonT(60), <1>1, <1>3, <2>1 DEF Proceeds, Prepared, WriteEndpoint, Answer
<1>8. Proceeds(Start, {"ReadingNonce"})
  <2>1. <<"read", "schedule", "save">> \in Seq(Effects)
    BY DEF Effects, Asked, Quiet
  <2>2. [NoWorkflow EXCEPT !.phase = "ReadingNonce"] \in Workflows
        /\ [NoWorkflow EXCEPT !.phase = "ReadingNonce"].phase = "ReadingNonce"
    BY DEF NoWorkflow, Workflows, Begun
  <2>. QED
    BY <1>4, <2>1, <2>2 DEF Proceeds, Start, Answer
<1>. QED
  BY <1>5, <1>6, <1>7, <1>8

LEMMA WritingOn ==
    ASSUME NEW w \in Workflows
    PROVE  Proceeds(WriteCompleted(w), Sending) /\ None(WriteCompleted(w).fx, "prepare")
<1>1. PICK v \in Workflows : WriteCompleted(w) = WriteNextChunk(v)
  <2>1. [w EXCEPT !.chunk = @ + 1] \in Workflows
    BY DEF Workflows
  <2>. QED
    BY <2>1 DEF WriteCompleted
<1>2. \/ WriteNextChunk(v) = [wf |-> [v EXCEPT !.phase = "AwaitingResult"], fx |-> <<>>]
      \/ WriteNextChunk(v) = [wf |-> [v EXCEPT !.phase = "WritingToken"], fx |-> <<"token", "save">>]
  BY DEF WriteNextChunk, Answer
<1>3. \A p \in Sending : [v EXCEPT !.phase = p] \in Workflows /\ [v EXCEPT !.phase = p].phase = p
  BY DEF Workflows, Prepared
<1>4. Fits(<<>>, "AwaitingResult") /\ Fits(<<"token", "save">>, "WritingToken")
      /\ None(<<>>, "prepare") /\ None(<<"token", "save">>, "prepare")
  BY DEF Fits, Once, NoneBut, None, Asked
<1>5. <<>> \in Seq(Effects) /\ <<"token", "save">> \in Seq(Effects)
  BY DEF Effects, Asked, Quiet
<1>6. CASE WriteNextChunk(v) = [wf |-> [v EXCEPT !.phase = "AwaitingResult"], fx |-> <<>>]
  <2>1. [v EXCEPT !.phase = "AwaitingResult"] \in Workflows /\ [v EXCEPT !.phase = "AwaitingResult"].phase = "AwaitingResult"
        /\ "AwaitingResult" \in Sending
    BY <1>3 DEF Sending
  <2>2. WriteCompleted(w) = [wf |-> [v EXCEPT !.phase = "AwaitingResult"], fx |-> <<>>]
    BY <1>1, <1>6
  <2>3. Proceeds(WriteCompleted(w), Sending)
    BY <1>4, <1>5, <2>1, <2>2, Proceeding
  <2>4. WriteCompleted(w).fx = <<>>
    BY <2>2
  <2>. QED
    BY <1>4, <2>3, <2>4
<1>7. CASE WriteNextChunk(v) = [wf |-> [v EXCEPT !.phase = "WritingToken"], fx |-> <<"token", "save">>]
  <2>1. [v EXCEPT !.phase = "WritingToken"] \in Workflows /\ [v EXCEPT !.phase = "WritingToken"].phase = "WritingToken"
        /\ "WritingToken" \in Sending
    BY <1>3 DEF Sending
  <2>2. WriteCompleted(w) = [wf |-> [v EXCEPT !.phase = "WritingToken"], fx |-> <<"token", "save">>]
    BY <1>1, <1>7
  <2>3. Proceeds(WriteCompleted(w), Sending)
    BY <1>4, <1>5, <2>1, <2>2, Proceeding
  <2>4. WriteCompleted(w).fx = <<"token", "save">>
    BY <2>2
  <2>. QED
    BY <1>4, <2>3, <2>4
<1>. QED
  BY <1>2, <1>6, <1>7

-----------------------------------------------------------------------------
(* What a step has to show of the call, the workflow and the journals *)

LEMMA JournalKept ==
    ASSUME IInv, UNCHANGED <<journal, backend>>, applied \subseteq applied'
    PROVE  Single' /\ Unresolved' = Unresolved /\ \A a \in Attempts : Truthful(a)'
<1>1. Unresolved' = Unresolved
  BY DEF Unresolved
<1>. QED
  BY <1>1 DEF IInv, Single, Truthful

LEMMA FollowsKept ==
    ASSUME IInv, UNCHANGED <<journal, backend>>, applied \subseteq applied', run'.pc = run.pc,
           run'.a = run.a, run'.mine = run.mine, run'.stage = run.stage, run'.heard = run.heard,
           run.stop => run'.stop
    PROVE  Follows'
BY JournalKept DEF IInv, Follows

\* The workflow goes on running.
LEMMA RunKeeps ==
    ASSUME IInv, Running, TypeOK', UNCHANGED <<journal, backend, applied>>,
           run'.pc = "running", run'.a = run.a, run'.mine = run.mine,
           run'.stage \in {"none", run.stage}, Works', Busy', Heeds'
    PROVE  IInv'
<1>1. Single' /\ Unresolved' = Unresolved /\ \A a \in Attempts : Truthful(a)'
  BY JournalKept
<1>2. Follows'
  BY <1>1 DEF IInv, Follows, Running, Trying, Handing
<1>. QED
  BY <1>1, <1>2 DEF IInv

\* The owner fails or is cancelled.
LEMMA AbortKeeps ==
    ASSUME IInv, Running, UNCHANGED <<journal, link, radio, backend>>,
           left' \in [faults : Nat, aborts : Nat, lost : Nat, removals : Nat],
           NEW r \in Runs, Abort(r), r.a = run.a, r.mine = run.mine, r.stage \in {"none", run.stage},
           r.heard => r.stop, r.got = run.got, r.told = run.told, r.busy = run.busy
    PROVE  IInv'
<1>1. /\ run' \in Runs /\ run'.pc = "cancelling" /\ run'.a = run.a /\ run'.mine = run.mine
      /\ run'.stage \in {"none", run.stage} /\ (run'.heard => run'.stop)
      /\ run'.got = run.got /\ run'.told = run.told
  BY DEF Abort, Runs, Pcs, Trying
<1>2. wf' \in Workflows /\ fx' \in Seq(Effects)
  BY DEF Abort, NoWorkflow, Workflows
<1>3. TypeOK'
  BY <1>1, <1>2 DEF IInv, TypeOK, radio
<1>4. Single' /\ Unresolved' = Unresolved /\ \A a \in Attempts : Truthful(a)'
  BY JournalKept DEF radio
<1>5. Follows'
  BY <1>1, <1>4 DEF IInv, Follows, Running, Trying, Handing
<1>6. Works' /\ Busy' /\ Heeds'
  BY <1>1 DEF IInv, Works, Busy, Heeds, Running, Removes
<1>. QED
  BY <1>3, <1>4, <1>5, <1>6 DEF IInv

\* The call hands over, gives up or ends.
LEMMA CallKeeps ==
    ASSUME TypeOK', Follows', Single', \A a \in Attempts : Truthful(a)',
           run'.pc \in {"idle", "load", "give up", "abort", "saveAborted"} \cup Handing,
           run'.busy = "no", run'.got # "removed", run'.told # "removed"
    PROVE  IInv'
<1>1. Works' /\ Busy' /\ Heeds'
  BY DEF Works, Busy, Heeds, Running, Removes, Handing
<1>. QED
  BY <1>1 DEF IInv

LEMMA NoRunTyped ==
    ASSUME NEW t \in {"none", "failed", "removed", "refused"}
    PROVE  /\ \A r \in {NoRun, [NoRun EXCEPT !.told = t]} :
                 r \in Runs /\ r.pc = "idle" /\ r.busy = "no" /\ r.got = "none" /\ r.stage = "none"
           /\ NoRun.told = "none" /\ [NoRun EXCEPT !.told = t].told = t
<1>1. /\ NoRun \in Runs /\ NoRun.pc = "idle" /\ NoRun.busy = "no" /\ NoRun.got = "none"
      /\ NoRun.stage = "none" /\ NoRun.told = "none"
  BY DEF NoRun, Runs, Pcs
<1>2. [NoRun EXCEPT !.told = t] \in Runs
  BY <1>1 DEF Runs
<1>3. LET r == [NoRun EXCEPT !.told = t] IN
      r.pc = "idle" /\ r.busy = "no" /\ r.got = "none" /\ r.stage = "none" /\ r.told = t
  BY <1>1 DEF Runs
<1>. QED
  BY <1>1, <1>2, <1>3

LEMMA SettleKeeps ==
    ASSUME TypeOK', Settle, Single', \A a \in Attempts : Truthful(a)'
    PROVE  IInv'
<1>1. run'.pc = "idle" /\ run'.busy = "no" /\ run'.got = "none" /\ run'.told = "none" /\ run'.stage = "none"
  BY NoRunTyped DEF Settle
<1>2. Follows'
  BY <1>1 DEF Follows, Trying, Handing
<1>. QED
  BY <1>1, <1>2, CallKeeps

\* A removal, or no call at all.
LEMMA RemovalKeeps ==
    ASSUME IInv, TypeOK', UNCHANGED <<journal, backend, applied>>,
           run'.pc \in {"idle", "verify", "grant"} \cup Removes, run'.stage = "none", Busy', Heeds'
    PROVE  IInv'
<1>1. Single' /\ \A a \in Attempts : Truthful(a)'
  BY JournalKept
<1>2. Follows' /\ Works'
  BY DEF Follows, Works, Running, Trying, Handing, Removes
<1>. QED
  BY <1>1, <1>2 DEF IInv

-----------------------------------------------------------------------------
(* What a step has to show of the effects *)

LEMMA FailFits ==
    ASSUME NEW w \in Workflows PROVE Proceeds(Fail(w), {"Failed"}) /\ None(Fail(w).fx, "prepare")
<1>1. /\ Fail(w).wf \in Workflows /\ Fail(w).wf.phase = "Failed" /\ Fail(w).fx \in Seq(Effects)
      /\ NoneBut(Fail(w).fx, {}) /\ None(Fail(w).fx, "completed") /\ None(Fail(w).fx, "prepare")
  BY Failing
<1>2. Fits(Fail(w).fx, "Failed")
  BY <1>1 DEF Fits, Once, NoneBut
<1>. QED
  BY <1>1, <1>2 DEF Proceeds

\* The effect that was asked for has settled.
LEMMA SettledFits ==
    ASSUME IInv, Running, fx # <<>>, Head(fx) \in Asked, NEW r, Settled(r),
           NEW phases, {"none", "Completed"} \cap phases = {}, wf.phase \notin Terminal => Proceeds(r, phases)
    PROVE  /\ wf' \in Workflows /\ fx' \in Seq(Effects) /\ Fits(fx', wf'.phase)
           /\ \/ wf.phase \in Terminal /\ wf' = wf
              \/ wf.phase \notin Terminal /\ wf'.phase \in phases
           /\ (wf.phase \notin Terminal => None(r.fx, "prepare")) => None(fx', "prepare")
<1>1. /\ fx \in Seq(Effects) /\ Tail(fx) \in Seq(Effects) /\ wf \in Workflows
      /\ Fits(fx, wf.phase) /\ Fits(Tail(fx), wf.phase) /\ NoneBut(Tail(fx), {})
  <2>1. fx \in Seq(Effects) /\ wf \in Workflows /\ Fits(fx, wf.phase)
    BY DEF IInv, TypeOK, Works
  <2>2. Tail(fx) \in Seq(Effects)
    BY <2>1, Tails
  <2>3. Once(fx)
    BY <2>1 DEF Fits
  <2>. QED
    BY <2>1, <2>2, <2>3, Rests
<1>2. None(Tail(fx), "prepare")
  BY <1>1 DEF NoneBut, None, Asked
<1>3. CASE wf.phase \in Terminal
  BY <1>1, <1>2, <1>3 DEF Settled
<1>4. CASE wf.phase \notin Terminal
  <2>1. None(Tail(fx), "completed") /\ None(Tail(fx), "failed")
    BY <1>1, <1>4 DEF Fits, Terminal
  <2>2. wf' = r.wf /\ fx' = Tail(fx) \o r.fx
    BY <1>4 DEF Settled
  <2>3. wf' \in Workflows /\ wf'.phase \in phases /\ r.fx \in Seq(Effects) /\ Fits(r.fx, wf'.phase)
    BY <1>4, <2>2 DEF Proceeds
  <2>4. Fits(fx', wf'.phase) /\ fx' \in Seq(Effects)
    BY <1>1, <2>1, <2>2, <2>3, Asks, Joins
  <2>5. None(r.fx, "prepare") => None(fx', "prepare")
    BY <1>1, <1>2, <2>2, <2>3, Joined
  <2>. QED
    BY <1>4, <2>3, <2>4, <2>5
<1>. QED
  BY <1>3, <1>4

\* The workflow ends beside the effect under way.
LEMMA DispatchedFits ==
    ASSUME IInv, Running, NEW r, Dispatched(r), r = Fail(wf) \/ (r = Complete(wf) /\ wf.phase \in Sending)
    PROVE  /\ wf' \in Workflows /\ fx' \in Seq(Effects) /\ Fits(fx', wf'.phase)
           /\ \/ wf.phase \in Terminal /\ wf' = wf
              \/ wf'.phase = "Failed" /\ r = Fail(wf)
              \/ wf'.phase = "Completed" /\ r = Complete(wf)
           /\ None(fx, "prepare") => None(fx', "prepare")
           /\ fx # <<>> => fx' # <<>> /\ Head(fx') = Head(fx)
<1>1. fx \in Seq(Effects) /\ wf \in Workflows /\ Fits(fx, wf.phase)
  BY DEF IInv, TypeOK, Works
<1>2. CASE wf.phase \in Terminal
  BY <1>1, <1>2 DEF Dispatched
<1>3. CASE wf.phase \notin Terminal
  <2>1. wf' = r.wf /\ fx' = fx \o r.fx /\ wf.phase \notin {"Completed", "Failed"}
    BY <1>3 DEF Dispatched, Terminal
  <2>2. CASE r = Fail(wf)
    BY <1>1, <2>1, <2>2, Failing, Ends, Joins
  <2>3. CASE r = Complete(wf) /\ wf.phase \in Sending
    BY <1>1, <2>1, <2>3, Completing, Ends, Joins
  <2>. QED
    BY <2>2, <2>3
<1>. QED
  BY <1>2, <1>3

-----------------------------------------------------------------------------
(* A workflow that runs *)

LEMMA Running1 ==
    ASSUME IInv, Running
    PROVE  /\ TypeOK /\ run \in Runs /\ wf \in Workflows /\ fx \in Seq(Effects) /\ wf.phase # "none"
           /\ run.pc = "running" /\ run.a \in Attempts /\ run.a # Removal
           /\ run.got # "removed" /\ run.told # "removed"
BY ProvisioningAssumption DEF IInv, TypeOK, Follows, Works, Heeds, Running, Trying, Removal

\* Effects that change nothing that is told apart.
LEMMA QuietKeeps == IInv /\ (DoQuiet \/ Schedule) => IInv'
<1>. SUFFICES ASSUME IInv, DoQuiet \/ Schedule PROVE IInv'
  OBVIOUS
<1>1. /\ Running /\ fx # <<>> /\ Head(fx) \notin Asked /\ fx' = Tail(fx) /\ run' = run
      /\ UNCHANGED <<journal, link, radio, backend, left>>
      /\ wf' = wf \/ wf' = [wf EXCEPT !.timer = TRUE]
  BY DEF DoQuiet, Schedule, Head1, Asked, Quiet
<1>2. wf' \in Workflows /\ wf'.phase = wf.phase
  BY <1>1, Running1 DEF Workflows
<1>3. fx' \in Seq(Effects) /\ Fits(fx', wf'.phase) /\ \A k : None(fx, k) => None(fx', k)
  BY <1>1, <1>2, Rests, Tails, Running1 DEF IInv, Works
<1>4. run.stage = "none" /\ run.busy = "no"
  BY <1>1, Running1 DEF IInv, Works, Busy, Writing, Writes, Asked, Running, RemovalWrites
<1>5. TypeOK'
  BY <1>1, <1>2, <1>3 DEF IInv, TypeOK, radio
<1>6. Works' /\ Busy' /\ Heeds'
  BY <1>1, <1>2, <1>3, <1>4 DEF IInv, Works, Busy, Heeds, Running, Writing, radio
<1>. QED
  BY <1>1, <1>5, <1>6, RunKeeps, Running1 DEF radio

LEMMA FireKeeps == IInv /\ Fire => IInv'
<1>. SUFFICES ASSUME IInv, Fire PROVE IInv'
  OBVIOUS
<1>1. /\ Running /\ Dispatched(Fail(wf)) /\ run' = run /\ wf.phase \notin Terminal
      /\ UNCHANGED <<journal, link, radio, backend, left>>
  BY DEF Fire
<1>2. /\ wf' \in Workflows /\ fx' \in Seq(Effects) /\ Fits(fx', wf'.phase)
      /\ wf'.phase \in {"Failed", "Completed"} /\ (wf'.phase = "Completed" => Fail(wf) = Complete(wf))
      /\ (None(fx, "prepare") => None(fx', "prepare"))
      /\ (fx # <<>> => fx' # <<>> /\ Head(fx') = Head(fx))
  BY <1>1, DispatchedFits
<1>3. wf'.phase = "Failed"
  BY <1>1, Failing, Running1 DEF Dispatched
<1>4. TypeOK'
  BY <1>1, <1>2 DEF IInv, TypeOK, radio
<1>5. Works' /\ Busy' /\ Heeds'
  BY <1>1, <1>2, <1>3 DEF IInv, Works, Busy, Heeds, Running, Writing, radio, Prepared, Begun, Sending, Terminal
<1>. QED
  BY <1>1, <1>4, <1>5, RunKeeps, Running1 DEF radio

\* An effect other than a write has settled with what it was asked for, or failed.
LEMMA StepKeeps ==
    ASSUME IInv, Running, fx # <<>>, Head(fx) \in Asked, NEW r, Settled(r), NEW phases,
           {"none", "Completed"} \cap phases = {}, wf.phase \notin Terminal => Proceeds(r, phases),
           UNCHANGED <<journal, link, radio, backend>>,
           left' \in [faults : Nat, aborts : Nat, lost : Nat, removals : Nat],
           run' \in Runs, run'.pc = "running", run'.a = run.a, run'.mine = run.mine, run'.stage = "none",
           run'.heard = run.heard, run'.busy = "no", run'.got = run.got, run'.told = run.told,
           run.mine /\ wf.phase \notin Terminal => None(r.fx, "prepare"),
           wf.phase \notin Terminal => \A p \in phases : (p \in Prepared => run.mine) /\ (p \in Begun => ~run.mine),
           wf.phase \notin Terminal /\ r.wf.phase \in Sending =>
              dev.storing \in {0, run.a} /\ \A i \in DOMAIN air : air[i] => run.a \in applied
    PROVE  IInv'
<1>1. /\ wf' \in Workflows /\ fx' \in Seq(Effects) /\ Fits(fx', wf'.phase)
      /\ \/ wf.phase \in Terminal /\ wf' = wf
         \/ wf.phase \notin Terminal /\ wf'.phase \in phases
      /\ (wf.phase \notin Terminal => None(r.fx, "prepare")) => None(fx', "prepare")
  BY SettledFits
<1>2. TypeOK'
  BY <1>1 DEF IInv, TypeOK, radio
<1>3. wf'.phase \notin {"none", "Completed"} \/ (wf' = wf /\ wf.phase \in Terminal)
  BY <1>1
<1>4. Works'
  BY <1>1, <1>3, Running1 DEF IInv, Works, Running, Terminal, Begun, Prepared, radio
<1>5. Busy'
  BY DEF Busy
<1>6. wf'.phase \in Sending => wf.phase \notin Terminal /\ r.wf.phase \in Sending
  BY <1>1 DEF Settled, Sending, Terminal
<1>7. Heeds'
  BY <1>6, Running1 DEF IInv, Heeds, Running, Removes, radio
<1>. QED
  BY <1>2, <1>4, <1>5, <1>7, RunKeeps DEF radio

LEMMA ReadKeeps == IInv /\ (Read \/ Subscribe) => IInv'
<1>. SUFFICES ASSUME IInv, Read \/ Subscribe PROVE IInv'
  OBVIOUS
<1>1. PICK r : /\ Running /\ fx # <<>> /\ Settled(r) /\ run' = run
               /\ UNCHANGED <<journal, link, radio, backend, left>>
               /\ \/ Head(fx) = "read" /\ r \in {ReadCompleted(wf), Fail(wf)}
                  \/ Head(fx) = "subscribe" /\ r \in {WriteEndpoint(wf), Fail(wf)}
  BY DEF Read, Subscribe, Head1
<1>2. /\ Head(fx) \in Asked /\ run.stage = "none" /\ run.busy = "no" /\ TypeOK
      /\ Head(fx) = fx[1] /\ 1 \in DOMAIN fx
  BY <1>1, Running1, Tails DEF IInv, Works, Busy, Writing, Writes, Asked, Running, RemovalWrites
<1>3. CASE r = Fail(wf)
  <2>1. Proceeds(r, {"Failed"}) /\ None(r.fx, "prepare") /\ r.wf.phase = "Failed"
    BY <1>3, FailFits, Running1, <1>1 DEF Proceeds
  <2>. QED
    BY SMTT(30), <1>1, <1>2, <2>1, StepKeeps, Running1 DEF TypeOK, Sending, Begun, Prepared
<1>4. CASE r = ReadCompleted(wf) /\ Head(fx) = "read"
  <2>1. Proceeds(r, {"ReadingPublicKey", "PreparingMaterial"})
    BY <1>1, <1>4, Reading, Running1
  <2>2. wf.phase \notin Terminal => wf.phase \in Begun /\ ~run.mine
    BY <1>1, <1>2, <1>4, Running1 DEF IInv, Works, Fits, NoneBut, Asked, Begun, Prepared, Sending, Terminal, Workflows
  <2>3. wf.phase \notin Terminal => r.wf.phase \notin Sending
    BY <2>1 DEF Proceeds, Sending
  <2>. QED
    BY <1>1, <1>2, <2>1, <2>2, <2>3, StepKeeps, Running1 DEF TypeOK, Begun, Prepared, Sending
<1>5. CASE r = WriteEndpoint(wf) /\ Head(fx) = "subscribe"
  <2>1. Proceeds(r, {"WritingEndpoint"}) /\ None(r.fx, "prepare")
    BY <1>1, <1>5, Reading, Running1
  <2>2. wf.phase \notin Terminal => run.mine
    BY <1>1, <1>2, <1>5, Running1 DEF IInv, Works, Fits, NoneBut, Asked, Begun, Prepared, Sending, Terminal, Workflows
  <2>3. r.wf.phase \notin Sending
    BY <2>1 DEF Proceeds, Sending
  <2>. QED
    BY <1>1, <1>2, <2>1, <2>2, <2>3, StepKeeps, Running1 DEF TypeOK, Begun, Prepared, Sending
<1>. QED
  BY <1>1, <1>3, <1>4, <1>5

\* A write is handed to the platform.
LEMMA WriteKeeps == IInv /\ Write => IInv'
<1>. SUFFICES ASSUME IInv, Write PROVE IInv'
  OBVIOUS
<1>1. /\ Running /\ fx # <<>> /\ Head(fx) \in Writes /\ run.busy = "no" /\ Head(fx) \in Asked
      /\ UNCHANGED <<journal, link, radio, backend, left>>
      /\ \/ run' = [run EXCEPT !.busy = Head(fx)] /\ UNCHANGED <<wf, fx>>
         \/ run' = run /\ Settled(Fail(wf))
  BY DEF Write, Writing, Writes, Asked
<1>2. run.stage = "none" /\ TypeOK
  BY <1>1, Running1 DEF IInv, Works, Writes
<1>3. CASE run' = [run EXCEPT !.busy = Head(fx)] /\ UNCHANGED <<wf, fx>>
  <2>1. /\ run' \in Runs /\ run'.busy = Head(fx) /\ run'.pc = run.pc /\ run'.a = run.a
        /\ run'.mine = run.mine /\ run'.stage = run.stage /\ run'.heard = run.heard
        /\ run'.got = run.got /\ run'.told = run.told
    BY <1>1, <1>3, Running1 DEF Runs
  <2>2. TypeOK'
    BY <1>1, <1>2, <1>3, <2>1 DEF TypeOK, radio
  <2>3. Works' /\ Busy' /\ Heeds'
    BY <1>1, <1>3, <2>1, Running1 DEF IInv, Works, Busy, Heeds, Running, Writing, radio, Writes, Removes
  <2>. QED
    BY <1>1, <2>1, <2>2, <2>3, RunKeeps, Running1 DEF radio
<1>4. CASE run' = run /\ Settled(Fail(wf))
  <2>1. Proceeds(Fail(wf), {"Failed"}) /\ None(Fail(wf).fx, "prepare") /\ Fail(wf).wf.phase = "Failed"
    BY FailFits, Running1, <1>1 DEF Proceeds
  <2>. QED
    BY <1>1, <1>2, <1>4, <2>1, StepKeeps, Running1 DEF TypeOK, Sending, Begun, Prepared
<1>. QED
  BY <1>1, <1>3, <1>4

\* Its callback.  When the endpoint is written, nothing of an earlier credential is
\* under way any more.
LEMMA WriteSettlesKeeps == IInv /\ WriteSettles => IInv'
<1>. SUFFICES ASSUME IInv, WriteSettles PROVE IInv'
  OBVIOUS
<1>1. /\ ~Removing /\ run.busy # "no" /\ run' = [run EXCEPT !.busy = "no"] /\ TypeOK
      /\ (run.busy = "executed" /\ (Writing => air = <<>> \/ LastWrite)) \/ ~link
      /\ UNCHANGED <<journal, link, radio, backend, left>>
      /\ IF Running THEN Settled(IF link THEN WriteCompleted(wf) ELSE Fail(wf)) ELSE UNCHANGED <<wf, fx>>
  BY DEF WriteSettles, IInv
<1>2. /\ run' \in Runs /\ run'.busy = "no" /\ run'.pc = run.pc /\ run'.a = run.a
      /\ run'.mine = run.mine /\ run'.stage = run.stage /\ run'.heard = run.heard
      /\ run'.got = run.got /\ run'.told = run.told /\ run'.stop = run.stop
  BY <1>1 DEF Runs, TypeOK
<1>3. run.pc = "cancelling" \/ Writing
  BY <1>1 DEF IInv, Busy, Heeds, Removing, RemovalWrites, Removes
<1>4. CASE run.pc = "cancelling"
  <2>1. ~Running /\ UNCHANGED <<wf, fx>>
    BY <1>1, <1>4 DEF Running
  <2>2. TypeOK'
    BY <1>1, <1>2, <2>1 DEF TypeOK, radio
  <2>3. Follows' /\ Single' /\ \A a \in Attempts : Truthful(a)'
    BY <1>1, <1>2, FollowsKept, JournalKept DEF radio
  <2>4. Works' /\ Busy' /\ Heeds'
    BY <1>2, <1>4 DEF IInv, Works, Busy, Heeds, Running, Removes
  <2>. QED
    BY <2>2, <2>3, <2>4 DEF IInv
<1>5. CASE Writing
  <2>0. Running /\ fx # <<>> /\ Head(fx) \in Writes /\ Head(fx) \in Asked
    BY <1>5 DEF Writing, Writes, Asked
  <2>1. run.stage = "none" /\ Head(fx) = fx[1] /\ 1 \in DOMAIN fx
    BY <2>0, Running1, Tails DEF IInv, Works, Writes
  <2>2. CASE ~link
    <3>1. Proceeds(Fail(wf), {"Failed"}) /\ None(Fail(wf).fx, "prepare") /\ Fail(wf).wf.phase = "Failed"
      BY FailFits, Running1, <2>0 DEF Proceeds
    <3>2. Settled(Fail(wf))
      BY <1>1, <2>0, <2>2
    <3>3. left' \in [faults : Nat, aborts : Nat, lost : Nat, removals : Nat]
          /\ UNCHANGED <<journal, link, radio, backend>> /\ run'.pc = "running" /\ run'.stage = "none"
      BY <1>1, <1>2, <2>0, <2>1, Running1 DEF TypeOK
    <3>. QED
      BY <1>2, <2>0, <3>1, <3>2, <3>3, StepKeeps DEF Sending, Begun, Prepared
  <2>3. CASE link
    <3>1. Proceeds(WriteCompleted(wf), Sending) /\ None(WriteCompleted(wf).fx, "prepare")
      BY WritingOn, Running1, <2>0
    <3>2. Settled(WriteCompleted(wf))
      BY <1>1, <2>0, <2>3
    <3>3. wf.phase \notin Terminal =>
             \/ wf.phase = "WritingEndpoint" /\ Head(fx) = "endpoint"
             \/ wf.phase = "WritingToken"
      BY <2>0, <2>1, Running1 DEF IInv, Works, Fits, NoneBut, Asked, Begun, Prepared, Sending, Terminal, Workflows, Writes
    <3>4. wf.phase \notin Terminal => run.mine
      BY <2>0, <3>3 DEF IInv, Works, Prepared, Sending
    <3>5. wf.phase \notin Terminal =>
            dev.storing \in {0, run.a} /\ \A i \in DOMAIN air : air[i] => run.a \in applied
      <4>1. CASE wf.phase = "WritingEndpoint" /\ Head(fx) = "endpoint"
        <5>1. dev.storing = 0
          BY <1>1, <2>0, <2>3, <4>1 DEF IInv, Heeds
        <5>2. air = <<>>
          BY <1>1, <1>5, <2>3, <4>1 DEF LastWrite
        <5>. QED
          BY <5>1, <5>2
      <4>2. CASE wf.phase = "WritingToken"
        BY <2>0, <4>2 DEF IInv, Heeds, Sending
      <4>. QED
        BY <3>3, <4>1, <4>2
    <3>6. {"none", "Completed"} \cap Sending = {} /\ Sending \cap Begun = {}
      BY DEF Sending, Begun
    <3>7. wf.phase \notin Terminal => \A p \in Sending : (p \in Prepared => run.mine) /\ (p \in Begun => ~run.mine)
      BY <3>4, <3>6
    <3>8. left' \in [faults : Nat, aborts : Nat, lost : Nat, removals : Nat]
          /\ UNCHANGED <<journal, link, radio, backend>> /\ run'.pc = "running" /\ run'.stage = "none"
      BY <1>1, <1>2, <2>0, <2>1, Running1 DEF TypeOK
    <3>. QED
      BY <1>2, <2>0, <3>1, <3>2, <3>5, <3>6, <3>7, <3>8, StepKeeps
  <2>. QED
    BY <2>2, <2>3
<1>. QED
  BY <1>3, <1>4, <1>5

\* Every budget stays a natural number.
LEMMA Faulty ==
    ASSUME TypeOK
    PROVE  LET T == [faults : Nat, aborts : Nat, lost : Nat, removals : Nat] IN
           /\ Fault => left' \in T
           /\ left.aborts > 0 /\ left' = [left EXCEPT !.aborts = @ - 1] => left' \in T
           /\ left.lost > 0 /\ left' = [left EXCEPT !.lost = @ - 1] => left' \in T
           /\ left.removals > 0 /\ left' = [left EXCEPT !.removals = @ - 1] => left' \in T
<1>1. /\ left \in [faults : Nat, aborts : Nat, lost : Nat, removals : Nat]
      /\ left.faults \in Nat /\ left.aborts \in Nat /\ left.lost \in Nat /\ left.removals \in Nat
  BY DEF TypeOK
<1>2. ASSUME NEW n \in Nat
      PROVE  /\ [left EXCEPT !.faults = n] \in [faults : Nat, aborts : Nat, lost : Nat, removals : Nat]
             /\ [left EXCEPT !.aborts = n] \in [faults : Nat, aborts : Nat, lost : Nat, removals : Nat]
             /\ [left EXCEPT !.lost = n] \in [faults : Nat, aborts : Nat, lost : Nat, removals : Nat]
             /\ [left EXCEPT !.removals = n] \in [faults : Nat, aborts : Nat, lost : Nat, removals : Nat]
  BY <1>1
<1>3. \A n \in Nat : n > 0 => n - 1 \in Nat
  OBVIOUS
<1>. QED
  BY <1>1, <1>2, <1>3 DEF Fault

\* The host of the material: the serial number, the provider, the journal.
LEMMA VerifySerialKeeps == IInv /\ VerifySerial => IInv'
<1>. SUFFICES ASSUME IInv, VerifySerial PROVE IInv'
  OBVIOUS
<1>1. /\ Running /\ fx # <<>> /\ Head(fx) = "prepare" /\ run.stage = "none"
      /\ UNCHANGED <<journal, link, radio, backend, left>>
      /\ \/ run' = [run EXCEPT !.stage = "provider", !.prep = TRUE] /\ UNCHANGED <<wf, fx>>
         \/ Abort(run)
  BY DEF VerifySerial, Head1
<1>2. /\ ~run.mine /\ ~run.heard /\ run.busy = "no" /\ TypeOK
  <2>1. Head(fx) = fx[1] /\ 1 \in DOMAIN fx
    BY <1>1, Tails, Running1
  <2>2. ~run.mine
    BY <1>1, <2>1, Running1 DEF IInv, Works, None
  <2>. QED
    BY <1>1, <2>2, Running1 DEF IInv, Works, Prepared, Busy, Writing, Writes, Running, RemovalWrites
<1>3. CASE run' = [run EXCEPT !.stage = "provider", !.prep = TRUE] /\ UNCHANGED <<wf, fx>>
  <2>1. /\ run' \in Runs /\ run'.busy = "no" /\ run'.pc = "running" /\ run'.a = run.a
        /\ ~run'.mine /\ run'.stage = "provider" /\ ~run'.heard
        /\ run'.got = run.got /\ run'.told = run.told
    BY <1>1, <1>2, <1>3, Running1 DEF Runs
  <2>2. TypeOK'
    BY <1>1, <1>2, <1>3, <2>1 DEF TypeOK, radio
  <2>3. Works' /\ Busy' /\ Heeds'
    BY <1>1, <1>2, <1>3, <2>1, Running1 DEF IInv, Works, Busy, Heeds, Running, radio, Removes
  <2>4. Single' /\ Unresolved' = Unresolved /\ \A a \in Attempts : Truthful(a)'
    BY <1>1, JournalKept DEF radio
  <2>5. Follows'
    BY <1>1, <1>2, <2>1, <2>4, Running1 DEF IInv, Follows, Trying, Handing
  <2>. QED
    BY <2>2, <2>3, <2>4, <2>5 DEF IInv
<1>4. CASE Abort(run)
  BY <1>1, <1>2, <1>4, AbortKeeps, Running1 DEF TypeOK
<1>. QED
  BY <1>1, <1>3, <1>4

LEMMA ProviderPreparesKeeps == IInv /\ ProviderPrepares => IInv'
<1>. SUFFICES ASSUME IInv, ProviderPrepares PROVE IInv'
  OBVIOUS
<1>1. /\ Running /\ fx # <<>> /\ Head(fx) = "prepare" /\ run.stage = "provider"
      /\ UNCHANGED <<journal, link, radio>>
      /\ \/ /\ run' = [run EXCEPT !.stage = "saving"] /\ UNCHANGED <<wf, fx, left>>
            /\ backend' = [backend EXCEPT !.aborted = @ \ {run.a}]
         \/ Fault /\ run' = [run EXCEPT !.stage = "none"] /\ Settled(Fail(wf)) /\ UNCHANGED backend
  BY DEF ProviderPrepares, Head1
<1>2. /\ ~run.mine /\ run.busy = "no" /\ TypeOK /\ journal[run.a] = "absent"
  BY <1>1, Running1 DEF IInv, Works, Follows, Trying, Busy, Writing, Writes, Running, RemovalWrites
<1>3. CASE Fault /\ run' = [run EXCEPT !.stage = "none"] /\ Settled(Fail(wf)) /\ UNCHANGED backend
  <2>1. /\ run' \in Runs /\ run'.busy = "no" /\ run'.pc = "running" /\ run'.a = run.a
        /\ run'.mine = run.mine /\ run'.stage = "none" /\ run'.heard = run.heard
        /\ run'.got = run.got /\ run'.told = run.told
    BY <1>1, <1>2, <1>3, Running1 DEF Runs
  <2>2. left' \in [faults : Nat, aborts : Nat, lost : Nat, removals : Nat]
    BY <1>2, <1>3, Faulty
  <2>3. Proceeds(Fail(wf), {"Failed"}) /\ None(Fail(wf).fx, "prepare") /\ Fail(wf).wf.phase = "Failed"
    BY FailFits, Running1, <1>1 DEF Proceeds
  <2>. QED
    BY <1>1, <1>3, <2>1, <2>2, <2>3, StepKeeps DEF Asked, Sending, Begun, Prepared
<1>4. CASE /\ run' = [run EXCEPT !.stage = "saving"] /\ UNCHANGED <<wf, fx, left>>
           /\ backend' = [backend EXCEPT !.aborted = @ \ {run.a}]
  <2>1. /\ run' \in Runs /\ run'.busy = "no" /\ run'.pc = "running" /\ run'.a = run.a
        /\ ~run'.mine /\ run'.stage = "saving" /\ run'.heard = run.heard
        /\ run'.got = run.got /\ run'.told = run.told
    BY <1>1, <1>2, <1>4, Running1 DEF Runs
  <2>2. /\ backend' \in [confirmed : SUBSET Attempts, aborted : SUBSET Attempts]
        /\ backend'.confirmed = backend.confirmed /\ backend'.aborted = backend.aborted \ {run.a}
    BY <1>2, <1>4 DEF TypeOK
  <2>3. TypeOK'
    BY <1>1, <1>2, <1>4, <2>1, <2>2 DEF TypeOK, radio
  <2>4. Works' /\ Busy' /\ Heeds'
    BY <1>1, <1>2, <1>4, <2>1, Running1 DEF IInv, Works, Busy, Heeds, Running, radio, Removes
  <2>5. Unresolved' = Unresolved /\ Single'
    BY <1>1 DEF Unresolved, IInv, Single
  <2>6. \A a \in Attempts : Truthful(a)'
    BY <1>1, <1>2, <2>2, Running1 DEF IInv, Truthful, radio
  <2>7. Follows'
    BY <1>1, <1>2, <2>1, <2>2, <2>5, Running1 DEF IInv, Follows, Trying, Handing
  <2>. QED
    BY <2>3, <2>4, <2>5, <2>6, <2>7 DEF IInv
<1>. QED
  BY <1>1, <1>3, <1>4

\* The journal of an attempt is saved: which others are open then.
LEMMA SaveEffect ==
    ASSUME TypeOK, NEW p \in {"prepared", "device_applied", "backend_confirmed", "aborted"},
           Save(p), run.a \in Attempts
    PROVE  /\ journal' \in [Attempts -> {"absent", "prepared", "device_applied", "backend_confirmed", "aborted"}]
           /\ journal'[run.a] = p /\ \A a \in Attempts \ {run.a} : journal'[a] = journal[a]
           /\ Unresolved \subseteq {run.a} => Unresolved' \subseteq {run.a} /\ Single'
<1>1. /\ journal' \in [Attempts -> {"absent", "prepared", "device_applied", "backend_confirmed", "aborted"}]
      /\ journal'[run.a] = p /\ \A a \in Attempts \ {run.a} : journal'[a] = journal[a]
  BY DEF TypeOK, Save
<1>2. Unresolved \subseteq {run.a} => Unresolved' \subseteq {run.a}
  BY <1>1 DEF Unresolved
<1>. QED
  BY <1>1, <1>2 DEF Single

LEMMA PreparedSavedKeeps == IInv /\ PreparedSaved => IInv'
<1>. SUFFICES ASSUME IInv, PreparedSaved PROVE IInv'
  OBVIOUS
<1>1. /\ run.stage = "saving" /\ Save("prepared") /\ TypeOK
      /\ run' = [run EXCEPT !.stage = "none", !.mine = TRUE]
      /\ UNCHANGED <<link, radio, backend, left>>
      /\ IF Running THEN Settled(MaterialPrepared(wf)) ELSE UNCHANGED <<wf, fx>>
  BY DEF PreparedSaved, IInv
<1>2. /\ run.pc \in {"running", "cancelling"} /\ ~run.mine /\ run.a \in Attempts
      /\ Unresolved \subseteq {run.a} /\ journal[run.a] = "absent"
      /\ (run.pc = "running" => run.a \notin backend.aborted)
  BY <1>1 DEF IInv, Follows, Trying
<1>3. /\ run' \in Runs /\ run'.busy = run.busy /\ run'.pc = run.pc /\ run'.a = run.a
      /\ run'.mine /\ run'.stage = "none" /\ run'.heard = run.heard /\ run'.stop = run.stop
      /\ run'.got = run.got /\ run'.told = run.told
  BY <1>1 DEF Runs, TypeOK
<1>4. /\ journal' \in [Attempts -> {"absent", "prepared", "device_applied", "backend_confirmed", "aborted"}]
      /\ journal'[run.a] = "prepared" /\ \A a \in Attempts \ {run.a} : journal'[a] = journal[a]
      /\ Unresolved' \subseteq {run.a} /\ Single'
  BY <1>1, <1>2, SaveEffect
<1>5. \A a \in Attempts : Truthful(a)'
  <2>1. ASSUME NEW a \in Attempts, a = run.a PROVE Truthful(a)'
    BY <1>1, <1>2, <1>4, <2>1 DEF IInv, Truthful, radio
  <2>2. \A a \in Attempts \ {run.a} : Truthful(a)'
    BY <1>1, <1>4 DEF IInv, Truthful, radio
  <2>. QED
    BY <2>1, <2>2, <1>2
<1>6. Follows'
  BY <1>1, <1>2, <1>3, <1>4 DEF IInv, Follows, Trying, Handing
<1>7. CASE run.pc = "cancelling"
  <2>1. UNCHANGED <<wf, fx>>
    BY <1>1, <1>7 DEF Running
  <2>2. TypeOK'
    BY <1>1, <1>3, <1>4, <2>1 DEF TypeOK, radio
  <2>3. Works' /\ Busy' /\ Heeds'
    BY <1>3, <1>7 DEF IInv, Works, Busy, Heeds, Running, Removes
  <2>. QED
    BY <1>4, <1>5, <1>6, <2>2, <2>3 DEF IInv
<1>8. CASE run.pc = "running"
  <2>1. Running /\ fx # <<>> /\ Head(fx) = "prepare" /\ Head(fx) \in Asked /\ run.busy = "no"
    BY <1>1, <1>8 DEF IInv, Works, Busy, Writing, Writes, Running, RemovalWrites, Asked
  <2>2. Proceeds(MaterialPrepared(wf), {"Subscribing"}) /\ None(MaterialPrepared(wf).fx, "prepare")
    BY <2>1, Running1, Reading
  <2>3. /\ wf' \in Workflows /\ fx' \in Seq(Effects) /\ Fits(fx', wf'.phase)
        /\ \/ wf.phase \in Terminal /\ wf' = wf
           \/ wf.phase \notin Terminal /\ wf'.phase \in {"Subscribing"}
        /\ None(fx', "prepare")
    BY <1>1, <2>1, <2>2, SettledFits
  <2>4. TypeOK'
    BY <1>1, <1>3, <1>4, <2>3 DEF TypeOK, radio
  <2>5. wf.phase # "Completed" /\ ~run.heard /\ wf.phase # "none"
    BY <1>2, <2>1 DEF IInv, Works, Prepared
  <2>6. wf'.phase \in {"Failed", "Subscribing"}
    BY <2>3, <2>5 DEF Terminal
  <2>7. Works' /\ Busy' /\ Heeds'
    BY <1>1, <1>3, <1>8, <2>1, <2>3, <2>5, <2>6 DEF IInv, Works, Busy, Heeds, Begun, Sending, Removes, radio
  <2>. QED
    BY <1>4, <1>5, <1>6, <2>4, <2>7 DEF IInv
<1>. QED
  BY <1>2, <1>7, <1>8

\* A workflow that has failed fails its owner; it has heard of no success.
LEMMA FailedKeeps == IInv /\ Failed => IInv'
<1>. SUFFICES ASSUME IInv, Failed PROVE IInv'
  OBVIOUS
<1>1. Running /\ fx # <<>> /\ Head(fx) = "failed" /\ Abort(run) /\ UNCHANGED <<journal, link, radio, backend, left>>
  BY DEF Failed, Head1
<1>2. ~run.heard
  <2>1. Head(fx) = fx[1] /\ 1 \in DOMAIN fx
    BY <1>1, Tails, Running1
  <2>. QED
    BY <1>1, <2>1 DEF IInv, Works, Fits, None
<1>. QED
  BY <1>1, <1>2, AbortKeeps, Running1 DEF TypeOK

\* A workflow that is complete hands over.
LEMMA HandsOver ==
    ASSUME IInv, Running, wf.phase = "Completed", run.busy = "no", run' = [run EXCEPT !.pc = "applied"],
           wf' = NoWorkflow, fx' = <<>>, UNCHANGED <<journal, link, radio, backend>>,
           left' \in [faults : Nat, aborts : Nat, lost : Nat, removals : Nat]
    PROVE  IInv'
<1>1. /\ run' \in Runs /\ run'.busy = "no" /\ run'.pc = "applied" /\ run'.a = run.a
      /\ run'.mine = run.mine /\ run'.stage = run.stage
      /\ run'.got = run.got /\ run'.told = run.told
  BY Running1 DEF Runs, Pcs, Handing
<1>2. wf' \in Workflows /\ fx' \in Seq(Effects) /\ TypeOK
  BY DEF NoWorkflow, Workflows, IInv
<1>3. TypeOK'
  BY <1>1, <1>2 DEF TypeOK, radio
<1>4. /\ run.mine /\ run.a \in applied /\ run.stage = "none" /\ run.a \in Attempts
      /\ journal[run.a] = "prepared" /\ run.a \notin backend.aborted /\ Unresolved \subseteq {run.a}
  BY DEF IInv, Works, Follows, Prepared, Running, Trying
<1>5. Single' /\ Unresolved' = Unresolved /\ \A a \in Attempts : Truthful(a)'
  BY JournalKept DEF radio
<1>6. Follows'
  <2>1. UNCHANGED <<journal, applied, backend>>
    BY DEF radio
  <2>. QED
    BY <1>1, <1>4, <1>5, <2>1 DEF Follows, Trying, Handing
<1>. QED
  BY <1>1, <1>3, <1>5, <1>6, CallKeeps, Running1 DEF Handing

LEMMA CompletedKeeps == IInv /\ Completed => IInv'
<1>. SUFFICES ASSUME IInv, Completed PROVE IInv'
  OBVIOUS
<1>1. /\ Running /\ fx # <<>> /\ Head(fx) = "completed" /\ run' = [run EXCEPT !.pc = "applied"]
      /\ wf' = NoWorkflow /\ fx' = <<>> /\ UNCHANGED <<journal, link, radio, backend, left>>
  BY DEF Completed, Head1
<1>2. wf.phase = "Completed"
  <2>1. Head(fx) = fx[1] /\ 1 \in DOMAIN fx
    BY <1>1, Tails, Running1
  <2>. QED
    BY <1>1, <2>1 DEF IInv, Works, Fits, None
<1>3. run.busy = "no"
  BY <1>1 DEF IInv, Busy, Writing, Writes, Running, RemovalWrites
<1>. QED
  BY <1>1, <1>2, <1>3, HandsOver, Running1 DEF TypeOK

\* The owner fails: with the evidence of the completion the handoff runs all the same.
LEMMA FailOwnerKeeps ==
    ASSUME IInv, Running, FailOwner, run.busy = "no", UNCHANGED <<journal, link, radio, backend>>,
           left' \in [faults : Nat, aborts : Nat, lost : Nat, removals : Nat]
    PROVE  IInv'
<1>1. CASE run.heard
  BY <1>1, HandsOver DEF FailOwner, IInv, Works
<1>2. CASE ~run.heard
  BY <1>2, AbortKeeps, Running1 DEF FailOwner
<1>. QED
  BY <1>1, <1>2

-----------------------------------------------------------------------------
(* What arrives, and what is lost *)

\* The head of what is under way is gone.
LEMMA AirTails ==
    ASSUME TypeOK, air # <<>>, air' = Tail(air)
    PROVE  /\ air' \in Seq(BOOLEAN) /\ Head(air) \in BOOLEAN
           /\ \A P : (\A i \in DOMAIN air : air[i] => P) =>
                       (\A i \in DOMAIN air' : air'[i] => P) /\ (Head(air) => P)
<1>1. air \in Seq(BOOLEAN)
  BY DEF TypeOK
<1>2. /\ Head(air) = air[1] /\ Head(air) \in BOOLEAN /\ 1 \in DOMAIN air /\ Tail(air) \in Seq(BOOLEAN)
      /\ \A i \in DOMAIN Tail(air) : i + 1 \in DOMAIN air /\ Tail(air)[i] = air[i + 1]
  BY <1>1, Tails
<1>. QED
  BY <1>2

LEMMA LoseResultKeeps == IInv /\ LoseResult => IInv'
<1>. SUFFICES ASSUME IInv, LoseResult PROVE IInv'
  OBVIOUS
<1>1. /\ air # <<>> /\ air' = Tail(air) /\ UNCHANGED <<journal, host, link, dev, applied, backend>>
      /\ left' \in [faults : Nat, aborts : Nat, lost : Nat, removals : Nat] /\ TypeOK
  BY Faulty DEF LoseResult, IInv
<1>2. /\ air' \in Seq(BOOLEAN)
      /\ \A P : (\A i \in DOMAIN air : air[i] => P) => (\A i \in DOMAIN air' : air'[i] => P)
  BY <1>1, AirTails
<1>3. TypeOK'
  BY <1>1, <1>2 DEF TypeOK, host
<1>4. Follows' /\ Single' /\ \A a \in Attempts : Truthful(a)'
  BY <1>1, FollowsKept, JournalKept DEF host
<1>5. Works' /\ Busy'
  BY <1>1 DEF IInv, Works, Busy, Running, Writing, host
<1>6. Heeds'
  BY <1>1, <1>2 DEF IInv, Heeds, Running, host
<1>. QED
  BY <1>3, <1>4, <1>5, <1>6 DEF IInv

\* A result reaches the removal that waits for it, a workflow that expects it or
\* one that does not, or nobody.
LEMMA DeliverKeeps == IInv /\ Deliver => IInv'
<1>. SUFFICES ASSUME IInv, Deliver PROVE IInv'
  OBVIOUS
<1>1. /\ air # <<>> /\ air' = Tail(air) /\ UNCHANGED <<journal, link, dev, applied, backend, left>> /\ TypeOK
      /\ run \in Runs
  BY DEF Deliver, IInv, TypeOK
<1>2. /\ air' \in Seq(BOOLEAN) /\ Head(air) \in BOOLEAN
      /\ \A P : (\A i \in DOMAIN air : air[i] => P) =>
                  (\A i \in DOMAIN air' : air'[i] => P) /\ (Head(air) => P)
  BY <1>1, AirTails
<1>3. CASE UNCHANGED host
  <2>1. TypeOK'
    BY <1>1, <1>2, <1>3 DEF TypeOK, host
  <2>2. Follows' /\ Single' /\ \A a \in Attempts : Truthful(a)'
    BY <1>1, <1>3, FollowsKept, JournalKept DEF host
  <2>3. Works' /\ Busy'
    BY <1>1, <1>3 DEF IInv, Works, Busy, Running, Writing, host
  <2>4. Heeds'
    BY <1>1, <1>2, <1>3 DEF IInv, Heeds, Running, host
  <2>. QED
    BY <2>1, <2>2, <2>3, <2>4 DEF IInv
<1>4. CASE run.pc = "await"
  <2>1. run' = Taken(Head(air)) /\ UNCHANGED <<wf, fx>>
    BY <1>4 DEF Deliver
  <2>2. PICK g \in {"removed", "refused"} :
           run' = [run EXCEPT !.pc = "close", !.got = g] /\ (g = "removed" => Head(air))
    BY <2>1, <1>2 DEF Taken
  <2>3. /\ run' \in Runs /\ run'.pc = "close" /\ run'.got = g /\ run'.stage = run.stage
        /\ run'.busy = run.busy /\ run'.told = run.told /\ run'.direct = run.direct
    BY <1>1, <2>2 DEF Runs, Pcs, Removes
  <2>4. run.busy = "no" /\ run.stage = "none" /\ run.told # "removed" /\ run.direct
    BY <1>4 DEF IInv, Busy, Follows, Heeds, Writing, Running, RemovalWrites, Removes
  <2>5. TypeOK'
    BY <1>1, <1>2, <2>1, <2>3 DEF TypeOK
  <2>6. Busy'
    BY <2>3, <2>4 DEF Busy
  <2>7. /\ dev.storing \in {0, Removal} /\ \A i \in DOMAIN air : air[i] => ~dev.bound
    BY <1>4 DEF IInv, Heeds, Removes
  <2>8. (g = "removed" => ~dev.bound) /\ \A i \in DOMAIN air' : air'[i] => ~dev.bound
    BY <1>2, <2>2, <2>7
  <2>9. Heeds'
    BY <1>1, <2>3, <2>4, <2>7, <2>8 DEF Heeds, Running, Removes
  <2>. QED
    BY <1>1, <2>3, <2>4, <2>5, <2>6, <2>9, RemovalKeeps DEF Removes
<1>5. CASE /\ run.pc # "await" /\ Running /\ wf.sub /\ wf.phase \notin Terminal
  <2>1. CASE ~Expected(wf)
    <3>1. Abort(run)
      BY <1>5, <2>1 DEF Deliver
    <3>2. run' = [run EXCEPT !.pc = "cancelling"] /\ wf' = NoWorkflow /\ fx' = <<>> /\ ~run.heard
      BY <1>5, <3>1 DEF Abort, IInv, Works, Terminal
    <3>3. /\ run' \in Runs /\ run'.pc = "cancelling" /\ run'.a = run.a /\ run'.mine = run.mine
          /\ run'.stage = run.stage /\ ~run'.heard /\ run'.got = run.got /\ run'.told = run.told
      BY <1>1, <3>2 DEF Runs, Pcs, Trying
    <3>4. TypeOK'
      <4>1. wf' \in Workflows /\ fx' \in Seq(Effects)
        BY <3>2 DEF NoWorkflow, Workflows
      <4>. QED
        BY <1>1, <1>2, <3>3, <4>1 DEF TypeOK
    <3>5. Single' /\ Unresolved' = Unresolved /\ \A a \in Attempts : Truthful(a)'
      BY <1>1, JournalKept
    <3>6. Follows'
      BY <1>1, <1>5, <3>3, <3>5 DEF IInv, Follows, Running, Trying, Handing
    <3>7. Works' /\ Busy' /\ Heeds'
      BY <3>3, <1>5, Running1 DEF Works, Busy, Heeds, Running, Removes
    <3>. QED
      BY <3>4, <3>5, <3>6, <3>7 DEF IInv
  <2>2. CASE Expected(wf)
    <3>1. Dispatched(Result(wf, Head(air))) /\ run' = [run EXCEPT !.heard = Head(air)] /\ wf.phase \in Sending
      BY <1>5, <2>2 DEF Deliver, Expected, Sending
    <3>2. /\ run' \in Runs /\ run'.pc = "running" /\ run'.a = run.a /\ run'.mine = run.mine
          /\ run'.stage = run.stage /\ run'.heard = Head(air) /\ run'.got = run.got /\ run'.told = run.told
          /\ run'.busy = run.busy /\ run'.direct = run.direct
      BY <1>1, <1>2, <1>5, <3>1, Running1 DEF Runs
    <3>3. run.mine /\ (\A i \in DOMAIN air : air[i] => run.a \in applied)
      BY <1>5, <3>1 DEF IInv, Works, Heeds, Prepared
    <3>4. Head(air) => run.a \in applied
      BY <1>2, <3>3
    <3>5. /\ wf' \in Workflows /\ fx' \in Seq(Effects) /\ Fits(fx', wf'.phase)
          /\ wf'.phase = IF Head(air) THEN "Completed" ELSE "Failed"
          /\ (None(fx, "prepare") => None(fx', "prepare"))
          /\ (fx # <<>> => fx' # <<>> /\ Head(fx') = Head(fx))
      <4>1. CASE Head(air)
        <5>1. Dispatched(Complete(wf))
          BY <3>1, <4>1 DEF Result
        <5>2. wf'.phase = "Completed"
          BY <1>5, <5>1, Completing, Running1 DEF Dispatched
        <5>. QED
          BY <1>5, <3>1, <4>1, <5>1, <5>2, DispatchedFits
      <4>2. CASE ~Head(air)
        <5>1. Dispatched(Fail(wf))
          BY <3>1, <4>2 DEF Result
        <5>2. wf'.phase = "Failed"
          BY <1>5, <5>1, Failing, Running1 DEF Dispatched
        <5>. QED
          BY <1>5, <3>1, <4>2, <5>1, <5>2, DispatchedFits
      <4>. QED
        BY <4>1, <4>2
    <3>6. TypeOK'
      BY <1>1, <1>2, <3>2, <3>5 DEF TypeOK
    <3>7. Works' /\ Busy' /\ Heeds'
      BY <1>1, <1>5, <3>2, <3>3, <3>4, <3>5, Running1
         DEF IInv, Works, Busy, Heeds, Running, Writing, Begun, Sending, Removes, RemovalWrites
    <3>8. Single' /\ Unresolved' = Unresolved /\ \A a \in Attempts : Truthful(a)'
      BY <1>1, JournalKept
    <3>9. Follows'
      BY <1>1, <1>5, <3>2, <3>8 DEF IInv, Follows, Running, Trying, Handing
    <3>. QED
      BY <3>6, <3>7, <3>8, <3>9 DEF IInv
  <2>. QED
    BY <2>1, <2>2
<1>. QED
  BY <1>3, <1>4, <1>5 DEF Deliver

\* Without a workflow its effects are of no matter.
LEMMA Ended == NoWorkflow \in Workflows /\ <<>> \in Seq(Effects)
BY DEF NoWorkflow, Workflows

\* The storage fails under the workflow or outside of it.
LEMMA StorageFailsKeeps == IInv /\ (StorageFails \/ UnsubscribeFails) => IInv'
<1>. SUFFICES ASSUME IInv, StorageFails \/ UnsubscribeFails PROVE IInv'
  OBVIOUS
<1>1. /\ TypeOK /\ left' \in [faults : Nat, aborts : Nat, lost : Nat, removals : Nat]
      /\ UNCHANGED <<journal, link, radio, backend>>
  BY Faulty DEF StorageFails, UnsubscribeFails, IInv
<1>2. CASE Settle /\ UNCHANGED <<wf, fx>>
  <2>1. run' \in Runs
    BY <1>2, NoRunTyped DEF Settle
  <2>2. TypeOK'
    BY <1>1, <1>2, <2>1 DEF TypeOK, radio
  <2>3. Single' /\ \A a \in Attempts : Truthful(a)'
    BY <1>1, JournalKept DEF radio
  <2>. QED
    BY <1>2, <2>2, <2>3, SettleKeeps
<1>3. CASE run.stage = "saving" /\ run.pc = "cancelling" /\ run' = [run EXCEPT !.stage = "none"] /\ UNCHANGED <<wf, fx>>
  <2>1. /\ run' \in Runs /\ run'.pc = "cancelling" /\ run'.a = run.a /\ run'.mine = run.mine
        /\ run'.stage = "none" /\ run'.heard = run.heard /\ run'.stop = run.stop
        /\ run'.got = run.got /\ run'.told = run.told
    BY <1>1, <1>3 DEF Runs, TypeOK
  <2>2. TypeOK'
    BY <1>1, <1>3, <2>1 DEF TypeOK, radio
  <2>3. Single' /\ Unresolved' = Unresolved /\ \A a \in Attempts : Truthful(a)'
    BY <1>1, JournalKept DEF radio
  <2>4. Follows'
    BY <1>1, <1>3, <2>1, <2>3 DEF IInv, Follows, Trying, Handing
  <2>5. Works' /\ Busy' /\ Heeds'
    BY <1>3, <2>1 DEF IInv, Works, Busy, Heeds, Running, Removes
  <2>. QED
    BY <2>2, <2>3, <2>4, <2>5 DEF IInv
<1>4. CASE Running /\ run.stage = "saving" /\ Abort([run EXCEPT !.stage = "none"])
  <2>1. ~run.heard
    <3>1. Head(fx) = "prepare" /\ fx # <<>> /\ ~run.mine
      BY <1>4 DEF IInv, Works, Follows
    <3>. QED
      BY <1>4, <3>1 DEF IInv, Works, Prepared
  <2>2. LET r == [run EXCEPT !.stage = "none"] IN
        /\ r \in Runs /\ r.a = run.a /\ r.mine = run.mine /\ r.stage = "none" /\ ~r.heard
        /\ r.got = run.got /\ r.told = run.told /\ r.busy = run.busy
    BY <1>4, <2>1, Running1 DEF Runs
  <2>. QED
    BY <1>1, <1>4, <2>2, AbortKeeps
<1>5. CASE Running /\ fx # <<>> /\ Head(fx) \in {"save", "deleteCheckpoint", "unsubscribe"} /\ FailOwner
  <2>1. run.busy = "no"
    BY <1>5 DEF IInv, Busy, Writing, Writes, Running, RemovalWrites
  <2>. QED
    BY <1>1, <1>5, <2>1, FailOwnerKeeps
<1>. QED
  BY <1>2, <1>3, <1>4, <1>5 DEF StorageFails, UnsubscribeFails, Head1

\* The link goes: what is under way is lost, the workflow is told.
LEMMA LinkDropsKeeps == IInv /\ LinkDrops => IInv'
<1>. SUFFICES ASSUME IInv, LinkDrops PROVE IInv'
  OBVIOUS
<1>1. /\ TypeOK /\ left' \in [faults : Nat, aborts : Nat, lost : Nat, removals : Nat]
      /\ UNCHANGED <<journal, applied, backend>> /\ link' = FALSE /\ air' = <<>>
      /\ dev' = [dev EXCEPT !.granted = FALSE] /\ run \in Runs
  BY Faulty DEF LinkDrops, IInv, TypeOK
<1>2. /\ run' \in Runs /\ run'.pc = run.pc /\ run'.a = run.a /\ run'.mine = run.mine
      /\ run'.stage = run.stage /\ run'.heard = run.heard /\ (run.stop => run'.stop)
      /\ run'.got = run.got /\ run'.told = run.told /\ run'.busy = run.busy /\ run'.direct = run.direct
  <2>1. run' = run \/ run' = [run EXCEPT !.stop = TRUE]
    BY DEF LinkDrops
  <2>. QED
    BY <1>1, <2>1 DEF Runs
<1>3. /\ dev' \in [n : Nat, storing : Attempts \cup {0, Removal}, granted : BOOLEAN, bound : BOOLEAN]
      /\ dev'.storing = dev.storing /\ dev'.bound = dev.bound /\ air' \in Seq(BOOLEAN)
  <2>1. dev \in [n : Nat, storing : Attempts \cup {0, Removal}, granted : BOOLEAN, bound : BOOLEAN]
    BY <1>1 DEF TypeOK
  <2>2. dev' \in [n : Nat, storing : Attempts \cup {0, Removal}, granted : BOOLEAN, bound : BOOLEAN]
    BY <1>1, <2>1
  <2>3. dev'.storing = dev.storing /\ dev'.bound = dev.bound
    BY <1>1, <2>1
  <2>. QED
    BY <1>1, <2>2, <2>3
<1>4. Follows' /\ Single' /\ \A a \in Attempts : Truthful(a)'
  BY <1>1, <1>2, FollowsKept, JournalKept
<1>5. CASE ~Running
  <2>1. UNCHANGED <<wf, fx>>
    BY <1>5 DEF LinkDrops
  <2>2. TypeOK'
    BY <1>1, <1>2, <1>3, <2>1 DEF TypeOK
  <2>3. Works' /\ Busy' /\ Heeds'
    BY <1>1, <1>2, <1>3, <1>5 DEF IInv, Works, Busy, Heeds, Running, Writing
  <2>. QED
    BY <1>4, <2>2, <2>3 DEF IInv
<1>6. CASE Running
  <2>1. Dispatched(Fail(wf))
    BY <1>6 DEF LinkDrops
  <2>2. /\ wf' \in Workflows /\ fx' \in Seq(Effects) /\ Fits(fx', wf'.phase)
        /\ wf' = wf \/ wf'.phase = "Failed"
        /\ (None(fx, "prepare") => None(fx', "prepare"))
        /\ (fx # <<>> => fx' # <<>> /\ Head(fx') = Head(fx))
    <3>1. wf' = wf \/ wf'.phase = "Failed"
      BY <1>6, <2>1, Failing, Running1 DEF Dispatched
    <3>. QED
      BY <1>6, <2>1, <3>1, DispatchedFits
  <2>3. TypeOK'
    BY <1>1, <1>2, <1>3, <2>2 DEF TypeOK
  <2>4. wf.phase \notin Terminal => ~run.heard
    BY <1>6 DEF IInv, Works, Terminal
  <2>5. wf' = wf \/ (wf'.phase = "Failed" /\ ~run.heard)
    BY <2>1, <2>2, <2>4 DEF Dispatched
  <2>6. Works' /\ Busy'
    BY <1>1, <1>2, <1>6, <2>2, <2>5 DEF IInv, Works, Busy, Running, Writing, Begun, Prepared, Sending
  <2>7. Heeds'
    BY <1>1, <1>2, <1>3, <1>6, <2>5 DEF IInv, Heeds, Running, Sending, Removes
  <2>. QED
    BY <1>4, <2>3, <2>6, <2>7 DEF IInv
<1>. QED
  BY <1>5, <1>6

\* The page is loaded again, the device connected again.
LEMMA PageKeeps == IInv /\ (ReloadPage \/ Connect) => IInv'
<1>. SUFFICES ASSUME IInv, ReloadPage \/ Connect PROVE IInv'
  OBVIOUS
<1>1. UNCHANGED <<journal, applied, backend>> /\ TypeOK
  BY DEF ReloadPage, Connect, IInv, radio
<1>2. Single' /\ \A a \in Attempts : Truthful(a)'
  BY <1>1, JournalKept
<1>3. CASE ReloadPage
  <2>1. /\ Settle /\ wf' = NoWorkflow /\ fx' = <<>> /\ link' = FALSE /\ air' = <<>>
        /\ dev' = [dev EXCEPT !.granted = FALSE]
        /\ left' \in [faults : Nat, aborts : Nat, lost : Nat, removals : Nat]
    BY <1>1, <1>3, Faulty DEF ReloadPage, Settle
  <2>2. run' \in Runs /\ wf' \in Workflows /\ fx' \in Seq(Effects) /\ air' \in Seq(BOOLEAN)
    BY <2>1, NoRunTyped, Ended DEF Settle
  <2>3. dev' \in [n : Nat, storing : Attempts \cup {0, Removal}, granted : BOOLEAN, bound : BOOLEAN]
    BY <1>1, <2>1 DEF TypeOK
  <2>4. TypeOK'
    BY <1>1, <2>1, <2>2, <2>3 DEF TypeOK
  <2>. QED
    BY <1>2, <2>1, <2>4, SettleKeeps
<1>4. CASE Connect
  <2>1. UNCHANGED <<host, radio, left>> /\ link' = TRUE
    BY <1>4 DEF Connect
  <2>2. TypeOK' /\ Works' /\ Busy' /\ Heeds'
    BY <1>1, <2>1 DEF IInv, TypeOK, Works, Busy, Heeds, Running, Writing, host, radio
  <2>3. Follows'
    BY <1>1, <2>1, FollowsKept DEF host
  <2>. QED
    BY <1>2, <2>2, <2>3 DEF IInv
<1>. QED
  BY <1>3, <1>4

-----------------------------------------------------------------------------
(* The manager *)

\* The application begins; the journal decides.
LEMMA ProvisionKeeps == \A a \in Attempts : IInv /\ Provision(a) => IInv'
<1>. SUFFICES ASSUME NEW a \in Attempts, IInv, Provision(a) PROVE IInv'
  OBVIOUS
<1>1. /\ run' = [NoRun EXCEPT !.pc = "load", !.a = a] /\ TypeOK
      /\ UNCHANGED <<journal, wf, fx, link, radio, backend, left>>
  BY DEF Provision, IInv
<1>2. /\ run' \in Runs /\ run'.pc = "load" /\ run'.a = a /\ run'.stage = "none" /\ ~run'.mine
      /\ run'.busy = "no" /\ run'.got = "none" /\ run'.told = "none" /\ ~run'.heard
  BY <1>1 DEF NoRun, Runs, Pcs
<1>3. TypeOK'
  BY <1>1, <1>2 DEF TypeOK, radio
<1>4. Single' /\ \A b \in Attempts : Truthful(b)'
  BY <1>1, JournalKept DEF radio
<1>5. Follows'
  BY <1>2 DEF Follows, Trying, Handing
<1>. QED
  BY <1>2, <1>3, <1>4, <1>5, CallKeeps

LEMMA LoadKeeps == IInv /\ Load => IInv'
<1>. SUFFICES ASSUME IInv, Load PROVE IInv'
  OBVIOUS
<1>1. /\ run.pc = "load" /\ UNCHANGED <<journal, link, radio, backend, left>> /\ TypeOK
      /\ run.a \in Attempts /\ ~run.mine /\ ~run.heard /\ run.stage = "none" /\ run.busy = "no" /\ run \in Runs
      /\ run.got # "removed" /\ run.told # "removed"
  BY DEF Load, IInv, TypeOK, Follows, Busy, Heeds, Writing, Running, RemovalWrites
<1>2. Single' /\ Unresolved' = Unresolved /\ \A a \in Attempts : Truthful(a)'
  BY <1>1, JournalKept DEF radio
<1>3. CASE journal[run.a] = "device_applied"
  <2>1. run' = [run EXCEPT !.pc = "confirm", !.direct = TRUE] /\ UNCHANGED <<wf, fx>>
    BY <1>3 DEF Load
  <2>2. /\ run' \in Runs /\ run'.pc = "confirm" /\ run'.a = run.a /\ run'.stage = "none" /\ ~run'.mine
        /\ run'.busy = "no" /\ run'.got = run.got /\ run'.told = run.told /\ ~run'.heard
    BY <1>1, <2>1 DEF Runs, Pcs, Handing
  <2>3. TypeOK'
    BY <1>1, <2>1, <2>2 DEF TypeOK, radio
  <2>4. run.a \in Unresolved
    BY <1>1, <1>3 DEF Unresolved
  <2>5. Unresolved \subseteq {run.a}
    BY <2>4 DEF IInv, Single
  <2>6. Follows'
    BY <1>1, <1>2, <1>3, <2>2, <2>5 DEF Follows, Trying, Handing
  <2>. QED
    BY <1>1, <1>2, <2>2, <2>3, <2>6, CallKeeps DEF Handing
<1>4. CASE journal[run.a] # "device_applied" /\ journal[run.a] = "absent" /\ Unresolved = {} /\ ~run.stop
  <2>1. run' = [run EXCEPT !.pc = "running"] /\ wf' = Start.wf /\ fx' = Start.fx
    BY <1>4 DEF Load, Begin
  <2>2. /\ run' \in Runs /\ run'.pc = "running" /\ run'.a = run.a /\ run'.stage = "none" /\ ~run'.mine
        /\ run'.busy = "no" /\ run'.got = run.got /\ run'.told = run.told /\ ~run'.heard
    BY <1>1, <2>1 DEF Runs, Pcs, Trying
  <2>3. wf' \in Workflows /\ wf'.phase = "ReadingNonce" /\ fx' \in Seq(Effects) /\ Fits(fx', wf'.phase)
    BY <1>1, <2>1, Reading DEF Proceeds, TypeOK
  <2>4. TypeOK'
    BY <1>1, <2>2, <2>3 DEF TypeOK, radio
  <2>5. Follows'
    BY <1>1, <1>2, <1>4, <2>2 DEF Follows, Trying, Handing
  <2>6. Works' /\ Busy' /\ Heeds'
    BY <1>1, <2>2, <2>3 DEF Works, Busy, Heeds, Running, Prepared, Begun, Sending, Removes
  <2>. QED
    BY <1>2, <2>4, <2>5, <2>6 DEF IInv
<1>5. CASE Settle /\ UNCHANGED <<wf, fx>>
  <2>1. TypeOK'
    BY <1>1, <1>5, NoRunTyped DEF TypeOK, radio, Settle
  <2>. QED
    BY <1>2, <1>5, <2>1, SettleKeeps
<1>. QED
  BY <1>3, <1>4, <1>5 DEF Load

\* The signal of the call, or destroy.
LEMMA CancelKeeps == IInv /\ Cancel => IInv'
<1>. SUFFICES ASSUME IInv, Cancel PROVE IInv'
  OBVIOUS
<1>1. /\ UNCHANGED <<journal, link, radio, backend>> /\ TypeOK /\ run \in Runs
      /\ left' \in [faults : Nat, aborts : Nat, lost : Nat, removals : Nat]
  BY Faulty DEF Cancel, IInv, TypeOK
<1>2. CASE Running
  <2>1. Abort([run EXCEPT !.stop = TRUE])
    BY <1>2 DEF Cancel
  <2>2. LET r == [run EXCEPT !.stop = TRUE] IN
        /\ r \in Runs /\ r.a = run.a /\ r.mine = run.mine /\ r.stage = run.stage /\ r.stop
        /\ r.got = run.got /\ r.told = run.told /\ r.busy = run.busy
    BY <1>1 DEF Runs
  <2>. QED
    BY <1>1, <1>2, <2>1, <2>2, AbortKeeps
<1>3. CASE ~Running
  <2>1. run' = [run EXCEPT !.stop = TRUE] /\ UNCHANGED <<wf, fx>>
    BY <1>3 DEF Cancel
  <2>2. /\ run' \in Runs /\ run'.pc = run.pc /\ run'.a = run.a /\ run'.mine = run.mine
        /\ run'.stage = run.stage /\ run'.heard = run.heard /\ run'.stop
        /\ run'.got = run.got /\ run'.told = run.told /\ run'.busy = run.busy /\ run'.direct = run.direct
    BY <1>1, <2>1 DEF Runs
  <2>3. TypeOK'
    BY <1>1, <2>1, <2>2 DEF TypeOK, radio
  <2>4. Follows' /\ Single' /\ \A a \in Attempts : Truthful(a)'
    BY <1>1, <2>2, FollowsKept, JournalKept DEF radio
  <2>5. Works' /\ Busy' /\ Heeds'
    BY <1>1, <1>3, <2>1, <2>2 DEF IInv, Works, Busy, Heeds, Running, Writing, radio
  <2>. QED
    BY <2>3, <2>4, <2>5 DEF IInv
<1>. QED
  BY <1>2, <1>3

\* The call settles where its journal is.
LEMMA SettlesKeeps == IInv /\ (GiveUp \/ (Cancelled /\ ~run.prep)) => IInv'
<1>. SUFFICES ASSUME IInv, GiveUp \/ (Cancelled /\ ~run.prep) PROVE IInv'
  OBVIOUS
<1>1. UNCHANGED <<journal, wf, fx, link, radio, backend, left>> /\ TypeOK /\ Settle
  BY DEF GiveUp, Cancelled, IInv
<1>2. TypeOK'
  BY <1>1, NoRunTyped DEF TypeOK, radio, Settle
<1>3. Single' /\ \A a \in Attempts : Truthful(a)'
  BY <1>1, JournalKept DEF radio
<1>. QED
  BY <1>1, <1>2, <1>3, SettleKeeps

LEMMA CancelledKeeps == IInv /\ Cancelled => IInv'
<1>. SUFFICES ASSUME IInv, Cancelled, run.prep PROVE IInv'
  BY SettlesKeeps
<1>1. /\ UNCHANGED <<journal, wf, fx, link, radio, backend, left>> /\ TypeOK /\ run \in Runs
      /\ run.pc = "cancelling" /\ run.busy = "no" /\ run.stage # "saving"
      /\ run' = [run EXCEPT !.pc = IF run.stop THEN "give up" ELSE "abort", !.stage = "none"]
  BY DEF Cancelled, IInv, TypeOK
<1>2. PICK p \in {"give up", "abort"} :
         run' = [run EXCEPT !.pc = p, !.stage = "none"] /\ (p = "abort" => ~run.stop)
  BY <1>1
<1>3. /\ run' \in Runs /\ run'.pc = p /\ run'.a = run.a /\ run'.mine = run.mine
      /\ run'.stage = "none" /\ run'.heard = run.heard /\ run'.busy = "no"
      /\ run'.got = run.got /\ run'.told = run.told
  BY <1>1, <1>2 DEF Runs, Pcs, Trying
<1>4. TypeOK'
  BY <1>1, <1>3 DEF TypeOK, radio
<1>5. Single' /\ Unresolved' = Unresolved /\ \A a \in Attempts : Truthful(a)'
  BY <1>1, JournalKept DEF radio
<1>6. run.got # "removed" /\ run.told # "removed"
  BY <1>1 DEF IInv, Heeds
<1>7. Follows'
  BY <1>1, <1>2, <1>3, <1>5 DEF IInv, Follows, Trying, Handing
<1>. QED
  BY <1>3, <1>4, <1>5, <1>6, <1>7, CallKeeps

-----------------------------------------------------------------------------
(* The provider and the journal *)

\* A call that aborts or hands over has only its own attempt open.
LEMMA Handling ==
    ASSUME IInv, run.pc \in {"abort", "saveAborted"} \cup Handing
    PROVE  /\ TypeOK /\ run \in Runs /\ run.a \in Attempts /\ Unresolved \subseteq {run.a}
           /\ run.busy = "no" /\ run.stage = "none" /\ run.got # "removed" /\ run.told # "removed"
BY DEF IInv, TypeOK, Follows, Busy, Heeds, Writing, Running, RemovalWrites, Trying, Handing

\* The call goes on to its next step.
LEMMA Goes ==
    ASSUME TypeOK, NEW p \in Pcs, run' = [run EXCEPT !.pc = p]
    PROVE  /\ run' \in Runs /\ run'.pc = p /\ run'.a = run.a /\ run'.mine = run.mine
           /\ run'.stage = run.stage /\ run'.heard = run.heard /\ run'.busy = run.busy
           /\ run'.got = run.got /\ run'.told = run.told
BY DEF Runs, TypeOK

LEMMA AbortsKeep == IInv /\ (ProviderAborts \/ AbortFails) => IInv'
<1>. SUFFICES ASSUME IInv, ProviderAborts \/ AbortFails PROVE IInv'
  OBVIOUS
<1>1. /\ run.pc = "abort" /\ UNCHANGED <<journal, wf, fx, link, radio>>
      /\ AbortBackend \/ UNCHANGED backend
      /\ Settle \/ (run.mine /\ AbortBackend /\ run' = [run EXCEPT !.pc = "saveAborted"])
      /\ left' = left \/ Fault
  BY DEF ProviderAborts, AbortFails
<1>2. /\ TypeOK /\ run \in Runs /\ run.a \in Attempts /\ Unresolved \subseteq {run.a}
      /\ run.busy = "no" /\ run.stage = "none" /\ run.got # "removed" /\ run.told # "removed"
      /\ left' \in [faults : Nat, aborts : Nat, lost : Nat, removals : Nat]
      /\ journal[run.a] \in {"prepared", "absent"} /\ (run.mine => journal[run.a] = "prepared")
  <2>1. left \in [faults : Nat, aborts : Nat, lost : Nat, removals : Nat]
    BY DEF IInv, TypeOK
  <2>2. journal[run.a] \in {"prepared", "absent"} /\ (run.mine => journal[run.a] = "prepared")
    BY <1>1 DEF IInv, Follows, Trying
  <2>. QED
    BY <1>1, <2>1, <2>2, Handling, Faulty
<1>3. /\ backend' \in [confirmed : SUBSET Attempts, aborted : SUBSET Attempts]
      /\ backend'.confirmed = backend.confirmed
      /\ backend'.aborted \in {backend.aborted, backend.aborted \cup {run.a}}
      /\ AbortBackend => run.a \in backend'.aborted
  BY <1>1, <1>2 DEF AbortBackend, TypeOK
<1>4. Unresolved' = Unresolved /\ Single'
  BY <1>1 DEF Unresolved, IInv, Single
<1>5. \A a \in Attempts : Truthful(a)'
  <2>1. ASSUME NEW a \in Attempts PROVE Truthful(a)'
    <3>1. a = run.a \/ (a \in backend'.aborted <=> a \in backend.aborted)
      BY <1>3
    <3>2. Truthful(a)
      BY DEF IInv
    <3>. QED
      BY <1>1, <1>2, <1>3, <3>1, <3>2 DEF Truthful, radio
  <2>. QED
    BY <2>1
<1>6. CASE Settle
  <2>1. TypeOK'
    BY <1>1, <1>2, <1>3, <1>6, NoRunTyped DEF TypeOK, radio, Settle
  <2>. QED
    BY <1>4, <1>5, <1>6, <2>1, SettleKeeps
<1>7. CASE run.mine /\ AbortBackend /\ run' = [run EXCEPT !.pc = "saveAborted"]
  <2>1. /\ run' \in Runs /\ run'.pc = "saveAborted" /\ run'.a = run.a /\ run'.mine
        /\ run'.stage = run.stage /\ run'.heard = run.heard /\ run'.busy = run.busy
        /\ run'.got = run.got /\ run'.told = run.told
    BY <1>2, <1>7, Goes DEF Pcs, Trying
  <2>2. TypeOK'
    BY <1>1, <1>2, <1>3, <2>1 DEF TypeOK, radio
  <2>3. Follows'
    BY <1>1, <1>2, <1>3, <1>4, <1>7, <2>1 DEF Follows, Trying, Handing
  <2>. QED
    BY <1>2, <1>4, <1>5, <2>1, <2>2, <2>3, CallKeeps
<1>. QED
  BY <1>1, <1>6, <1>7

LEMMA ConfirmsKeep == IInv /\ (ProviderConfirms \/ ConfirmFails) => IInv'
<1>. SUFFICES ASSUME IInv, ProviderConfirms \/ ConfirmFails PROVE IInv'
  OBVIOUS
<1>1. /\ run.pc = "confirm" /\ UNCHANGED <<journal, wf, fx, link, radio>>
      /\ ConfirmBackend \/ UNCHANGED backend
      /\ Settle \/ (ConfirmBackend /\ run' = [run EXCEPT !.pc = "saveConfirmed"])
      /\ left' = left \/ Fault
  BY DEF ProviderConfirms, ConfirmFails
<1>2. /\ TypeOK /\ run \in Runs /\ run.a \in Attempts /\ Unresolved \subseteq {run.a}
      /\ run.busy = "no" /\ run.stage = "none" /\ run.got # "removed" /\ run.told # "removed"
      /\ left' \in [faults : Nat, aborts : Nat, lost : Nat, removals : Nat]
      /\ journal[run.a] = "device_applied"
  <2>1. left \in [faults : Nat, aborts : Nat, lost : Nat, removals : Nat]
    BY DEF IInv, TypeOK
  <2>2. journal[run.a] = "device_applied"
    BY <1>1 DEF IInv, Follows
  <2>. QED
    BY <1>1, <2>1, <2>2, Handling, Faulty DEF Handing
<1>3. /\ backend' \in [confirmed : SUBSET Attempts, aborted : SUBSET Attempts]
      /\ backend'.aborted = backend.aborted
      /\ backend'.confirmed \in {backend.confirmed, backend.confirmed \cup {run.a}}
      /\ ConfirmBackend => run.a \in backend'.confirmed
  BY <1>1, <1>2 DEF ConfirmBackend, TypeOK
<1>4. Unresolved' = Unresolved /\ Single'
  BY <1>1 DEF Unresolved, IInv, Single
<1>5. \A a \in Attempts : Truthful(a)'
  <2>1. ASSUME NEW a \in Attempts PROVE Truthful(a)'
    <3>1. a = run.a \/ (a \in backend'.confirmed <=> a \in backend.confirmed)
      BY <1>3
    <3>2. Truthful(a)
      BY DEF IInv
    <3>. QED
      BY <1>1, <1>2, <1>3, <3>1, <3>2 DEF Truthful, radio
  <2>. QED
    BY <2>1
<1>6. CASE Settle
  <2>1. TypeOK'
    BY <1>1, <1>2, <1>3, <1>6, NoRunTyped DEF TypeOK, radio, Settle
  <2>. QED
    BY <1>4, <1>5, <1>6, <2>1, SettleKeeps
<1>7. CASE ConfirmBackend /\ run' = [run EXCEPT !.pc = "saveConfirmed"]
  <2>1. /\ run' \in Runs /\ run'.pc = "saveConfirmed" /\ run'.a = run.a
        /\ run'.stage = run.stage /\ run'.heard = run.heard /\ run'.busy = run.busy
        /\ run'.got = run.got /\ run'.told = run.told
    BY <1>2, <1>7, Goes DEF Pcs, Handing
  <2>2. TypeOK'
    BY <1>1, <1>2, <1>3, <2>1 DEF TypeOK, radio
  <2>3. Follows'
    BY <1>1, <1>2, <1>3, <1>4, <1>7, <2>1 DEF Follows, Trying, Handing
  <2>. QED
    BY <1>2, <1>4, <1>5, <2>1, <2>2, <2>3, CallKeeps DEF Handing
<1>. QED
  BY <1>1, <1>6, <1>7

\* The journal follows: aborted, applied by the device, confirmed.
LEMMA SavesKeep == IInv /\ (AbortSaved \/ AppliedSaved \/ ConfirmSaved) => IInv'
<1>. SUFFICES ASSUME IInv, AbortSaved \/ AppliedSaved \/ ConfirmSaved PROVE IInv'
  OBVIOUS
<1>1. PICK p \in {"aborted", "device_applied", "backend_confirmed"} :
         /\ Save(p) /\ UNCHANGED <<wf, fx, link, radio, backend, left>>
         /\ \/ run.pc = "saveAborted" /\ p = "aborted" /\ Settle
            \/ run.pc = "applied" /\ p = "device_applied" /\ run' = [run EXCEPT !.pc = "confirm"]
            \/ run.pc = "saveConfirmed" /\ p = "backend_confirmed" /\ Settle
  BY DEF AbortSaved, AppliedSaved, ConfirmSaved
<1>2. /\ TypeOK /\ run \in Runs /\ run.a \in Attempts /\ Unresolved \subseteq {run.a}
      /\ run.busy = "no" /\ run.stage = "none" /\ run.got # "removed" /\ run.told # "removed"
  BY <1>1, Handling DEF Handing
<1>3. /\ journal' \in [Attempts -> {"absent", "prepared", "device_applied", "backend_confirmed", "aborted"}]
      /\ journal'[run.a] = p /\ \A a \in Attempts \ {run.a} : journal'[a] = journal[a]
      /\ Unresolved' \subseteq {run.a} /\ Single'
  BY <1>1, <1>2, SaveEffect
<1>4. \A a \in Attempts : Truthful(a)'
  <2>1. \A a \in Attempts \ {run.a} : Truthful(a)'
    BY <1>1, <1>3 DEF IInv, Truthful, radio
  <2>2. ASSUME NEW a \in Attempts, a = run.a PROVE Truthful(a)'
    <3>1. Truthful(a)
      BY DEF IInv
    <3>2. CASE run.pc = "saveAborted" /\ p = "aborted"
      <4>1. a \in backend.aborted /\ journal[a] = "prepared"
        BY <2>2, <3>2 DEF IInv, Follows, Trying
      <4>. QED
        BY <1>1, <1>3, <2>2, <3>1, <3>2, <4>1 DEF Truthful, radio
    <3>3. CASE run.pc = "applied" /\ p = "device_applied"
      <4>1. a \in applied /\ a \notin backend.aborted
        BY <2>2, <3>3 DEF IInv, Follows
      <4>. QED
        BY <1>1, <1>3, <2>2, <3>1, <3>3, <4>1 DEF Truthful, radio
    <3>4. CASE run.pc = "saveConfirmed" /\ p = "backend_confirmed"
      <4>1. a \in backend.confirmed /\ journal[a] = "device_applied"
        BY <2>2, <3>4 DEF IInv, Follows
      <4>. QED
        BY <1>1, <1>3, <2>2, <3>1, <3>4, <4>1 DEF Truthful, radio
    <3>. QED
      BY <1>1, <3>2, <3>3, <3>4
  <2>. QED
    BY <2>1, <2>2
<1>5. CASE Settle
  <2>1. TypeOK'
    BY <1>1, <1>2, <1>3, <1>5, NoRunTyped DEF TypeOK, radio, Settle
  <2>. QED
    BY <1>3, <1>4, <1>5, <2>1, SettleKeeps
<1>6. CASE run.pc = "applied" /\ p = "device_applied" /\ run' = [run EXCEPT !.pc = "confirm"]
  <2>1. /\ run' \in Runs /\ run'.pc = "confirm" /\ run'.a = run.a
        /\ run'.stage = run.stage /\ run'.heard = run.heard /\ run'.busy = run.busy
        /\ run'.got = run.got /\ run'.told = run.told
    BY <1>2, <1>6, Goes DEF Pcs, Handing
  <2>2. TypeOK'
    BY <1>1, <1>2, <1>3, <2>1 DEF TypeOK, radio
  <2>3. Follows'
    BY <1>1, <1>2, <1>3, <1>6, <2>1 DEF Follows, Trying, Handing
  <2>. QED
    BY <1>2, <1>3, <1>4, <2>1, <2>2, <2>3, CallKeeps DEF Handing
<1>. QED
  BY <1>1, <1>5, <1>6

-----------------------------------------------------------------------------
(* The removal *)

LEMMA RemovalTypes ==
    ASSUME IInv, run.pc \in {"verify", "grant"} \cup Removes
    PROVE  /\ TypeOK /\ run \in Runs /\ run.direct /\ run.stage = "none" /\ run.told # "removed"
           /\ (run.got = "removed" => run.pc = "close") /\ ~Running
           /\ \A p \in Pcs : /\ StepTo(p) \in Runs /\ StepTo(p).pc = p /\ StepTo(p).busy = "no"
                             /\ StepTo(p).got = run.got /\ StepTo(p).told = run.told
                             /\ StepTo(p).stage = run.stage /\ StepTo(p).direct = run.direct
<1>1. TypeOK /\ run \in Runs /\ run.direct /\ run.stage = "none" /\ run.told # "removed" /\ ~Running
  BY DEF IInv, TypeOK, Heeds, Follows, Running, Removes
<1>2. run.got = "removed" => run.pc = "close"
  BY DEF IInv, Heeds
<1>3. \A p \in Pcs : /\ StepTo(p) \in Runs /\ StepTo(p).pc = p /\ StepTo(p).busy = "no"
                     /\ StepTo(p).got = run.got /\ StepTo(p).told = run.told
                     /\ StepTo(p).stage = run.stage /\ StepTo(p).direct = run.direct
  BY <1>1 DEF StepTo, Runs
<1>. QED
  BY <1>1, <1>2, <1>3

\* The call of the removal has ended.
LEMMA RemovalEnds ==
    ASSUME IInv, UNCHANGED <<journal, wf, fx, link, radio, backend>>,
           left' \in [faults : Nat, aborts : Nat, lost : Nat, removals : Nat],
           NEW t \in {"none", "failed", "removed", "refused"}, run' = [NoRun EXCEPT !.told = t],
           t = "removed" => ~dev.bound /\ dev.storing \in {0, Removal}
    PROVE  IInv'
<1>1. /\ run' \in Runs /\ run'.pc = "idle" /\ run'.busy = "no" /\ run'.got = "none" /\ run'.stage = "none"
      /\ run'.told = t
  BY NoRunTyped
<1>2. TypeOK'
  BY <1>1 DEF IInv, TypeOK, radio
<1>3. Busy'
  BY <1>1 DEF Busy
<1>4. Heeds'
  BY <1>1 DEF Heeds, Running, Removes, radio
<1>. QED
  BY <1>1, <1>2, <1>3, <1>4, RemovalKeeps DEF radio

\* It goes on to its next step.
LEMMA RemovalSteps ==
    ASSUME IInv, UNCHANGED <<journal, wf, fx, link, radio, backend>>,
           left' \in [faults : Nat, aborts : Nat, lost : Nat, removals : Nat],
           run.pc \in {"verify", "grant"} \cup Removes,
           NEW p \in {"grant"} \cup Removes, run' = StepTo(p),
           run.pc = "close" => p = "close",
           run.pc \notin Removes /\ p \in Removes => dev.storing = 0 /\ air = <<>>
    PROVE  IInv'
<1>1. /\ TypeOK /\ run.direct /\ run.stage = "none" /\ run.told # "removed" /\ p \in Pcs
      /\ (run.got = "removed" => run.pc = "close")
      /\ run' \in Runs /\ run'.pc = p /\ run'.busy = "no" /\ run'.got = run.got
      /\ run'.told = run.told /\ run'.stage = run.stage /\ run'.direct = run.direct
  BY RemovalTypes DEF Pcs
<1>2. TypeOK'
  BY <1>1 DEF TypeOK, radio
<1>3. Busy'
  BY <1>1 DEF Busy
<1>4. p \in Removes => dev.storing \in {0, Removal} /\ \A i \in DOMAIN air : air[i] => ~dev.bound
  BY DEF IInv, Heeds
<1>5. run'.got = "removed" => p = "close" /\ ~dev.bound
  BY <1>1 DEF IInv, Heeds
<1>6. Heeds'
  BY <1>1, <1>4, <1>5 DEF Heeds, Running, Removes, radio
<1>. QED
  BY <1>1, <1>2, <1>3, <1>6, RemovalKeeps DEF radio

LEMMA RemovalOpensKeep == IInv /\ (Deprovision \/ VerifyDevice \/ RemovalWrite) => IInv'
<1>. SUFFICES ASSUME IInv, Deprovision \/ VerifyDevice \/ RemovalWrite PROVE IInv'
  OBVIOUS
<1>1. /\ TypeOK /\ UNCHANGED <<journal, wf, fx, link, radio, backend>>
      /\ left \in [faults : Nat, aborts : Nat, lost : Nat, removals : Nat]
      /\ left' \in [faults : Nat, aborts : Nat, lost : Nat, removals : Nat]
  BY SMTT(30), Faulty DEF Deprovision, VerifyDevice, RemovalWrite, IInv, TypeOK
<1>2. CASE Deprovision
  <2>1. /\ run' \in Runs /\ run'.pc = "verify" /\ run'.direct /\ run'.busy = "no" /\ run'.stage = "none"
        /\ run'.got = "none" /\ run'.told = "none"
    <3>1. NoRun \in Runs /\ run' = [NoRun EXCEPT !.pc = "verify", !.direct = TRUE]
      BY <1>2, NoRunTyped DEF Deprovision
    <3>. QED
      BY ZenonT(60), <3>1, NoRunTyped DEF Runs, Pcs
  <2>2. TypeOK'
    BY <1>1, <2>1 DEF TypeOK, radio
  <2>3. Busy' /\ Heeds'
    BY <2>1 DEF Busy, Heeds, Running, Removes
  <2>. QED
    BY <1>1, <2>1, <2>2, <2>3, RemovalKeeps DEF radio
<1>3. CASE VerifyDevice
  <2>1. CASE Alive
    BY <1>1, <1>3, <2>1, RemovalSteps DEF VerifyDevice, Removes
  <2>2. CASE ~Alive
    BY <1>1, <1>3, <2>2, RemovalEnds DEF VerifyDevice
  <2>. QED
    BY <2>1, <2>2
<1>4. CASE RemovalWrite
  <2>1. /\ run.pc \in RemovalWrites /\ run.busy = "no" /\ run' = [run EXCEPT !.busy = run.pc]
        /\ run.pc \in {"verify", "grant"} \cup Removes /\ run.pc # "close"
    BY <1>4 DEF RemovalWrite, RemovalWrites, Removes
  <2>2. run \in Runs /\ run.stage = "none" /\ run.direct /\ run.told # "removed" /\ run.got # "removed"
    BY <2>1, RemovalTypes
  <2>3. /\ run' \in Runs /\ run'.pc = run.pc /\ run'.busy = run.pc /\ run'.stage = "none" /\ run'.direct
        /\ run'.told # "removed" /\ run'.got # "removed"
    BY <2>1, <2>2 DEF Runs
  <2>4. TypeOK'
    BY <1>1, <2>3 DEF TypeOK, radio
  <2>5. Busy'
    BY <2>1, <2>3 DEF Busy
  <2>6. Heeds'
    BY <1>1, <2>1, <2>3 DEF IInv, Heeds, Running, Removes, RemovalWrites, radio
  <2>. QED
    BY <1>1, <2>1, <2>3, <2>4, <2>5, <2>6, RemovalKeeps DEF radio
<1>. QED
  BY <1>2, <1>3, <1>4

LEMMA RemovalGoesKeep == IInv /\ (RemovalSettles \/ Listen \/ Deadline \/ Unlisten) => IInv'
<1>. SUFFICES ASSUME IInv, RemovalSettles \/ Listen \/ Deadline \/ Unlisten PROVE IInv'
  OBVIOUS
<1>1. /\ TypeOK /\ UNCHANGED <<journal, wf, fx, link, radio, backend>>
      /\ left' \in [faults : Nat, aborts : Nat, lost : Nat, removals : Nat]
      /\ run.pc \in {"verify", "grant"} \cup Removes
  <2>1. TypeOK /\ left \in [faults : Nat, aborts : Nat, lost : Nat, removals : Nat]
    BY DEF IInv, TypeOK
  <2>2. UNCHANGED <<journal, wf, fx, link, radio, backend>> /\ (left' = left \/ Fault)
    BY DEF RemovalSettles, Listen, Deadline, Unlisten
  <2>3. run.pc \in {"verify", "grant"} \cup Removes
    BY DEF RemovalSettles, Listen, Deadline, Unlisten, RemovalWrites, Removes
  <2>. QED
    BY <2>1, <2>2, <2>3, Faulty
<1>2. CASE RemovalSettles
  <2>1. CASE run.pc = "grant" /\ Alive
    <3>1. run' = StepTo("listen") /\ run.busy = "executed" /\ air = <<>>
      BY <1>2, <2>1 DEF RemovalSettles, Alive
    <3>2. dev.storing = 0
      BY <2>1, <3>1 DEF IInv, Heeds
    <3>. QED
      BY <1>1, <2>1, <3>1, <3>2, RemovalSteps DEF Removes
  <2>2. CASE run.pc = "grant" /\ ~Alive
    BY <1>1, <1>2, <2>2, RemovalEnds DEF RemovalSettles
  <2>3. CASE run.pc = "command"
    <3>1. run' = StepTo("await") \/ run' = StepTo("close")
      BY <1>2, <2>3 DEF RemovalSettles
    <3>. QED
      BY <1>1, <2>3, <3>1, RemovalSteps DEF Removes
  <2>. QED
    BY <1>2, <2>1, <2>2, <2>3 DEF RemovalSettles, RemovalWrites
<1>3. CASE Listen
  <2>1. run.pc = "listen"
    BY <1>3 DEF Listen
  <2>2. \/ run' = [NoRun EXCEPT !.told = "failed"]
        \/ run' = StepTo("close") \/ run' = StepTo("command")
    BY <1>3 DEF Listen
  <2>. QED
    BY <1>1, <2>1, <2>2, RemovalSteps, RemovalEnds DEF Removes
<1>4. CASE Deadline
  BY <1>1, <1>4, RemovalSteps DEF Deadline, Removes
<1>5. CASE Unlisten
  <2>1. /\ run.pc = "close" /\ run.got \in {"none", "removed", "refused"}
        /\ run' = [NoRun EXCEPT !.told = IF link /\ run.got # "none" THEN run.got ELSE "failed"]
    BY <1>1, <1>5 DEF Unlisten, TypeOK, Runs
  <2>2. run.got = "removed" => ~dev.bound /\ dev.storing \in {0, Removal}
    BY <2>1 DEF IInv, Heeds, Removes
  <2>3. PICK t \in {"failed", "removed", "refused"} :
           run' = [NoRun EXCEPT !.told = t] /\ (t = "removed" => run.got = "removed")
    BY <2>1
  <2>. QED
    BY <1>1, <2>2, <2>3, RemovalEnds
<1>. QED
  BY <1>2, <1>3, <1>4, <1>5

-----------------------------------------------------------------------------
(* The device *)

\* It executes the write under way: the last chunk, or the command, is what it
\* works at then.
LEMMA DeviceExecutesKeeps == IInv /\ DeviceExecutes => IInv'
<1>. SUFFICES ASSUME IInv, DeviceExecutes PROVE IInv'
  OBVIOUS
<1>1. /\ run.busy \in Writes \cup RemovalWrites /\ dev.storing = 0 /\ run' = [run EXCEPT !.busy = "executed"]
      /\ UNCHANGED <<journal, wf, fx, link, air, applied, backend, left>> /\ TypeOK /\ run \in Runs
      /\ dev \in [n : Nat, storing : Attempts \cup {0, Removal}, granted : BOOLEAN, bound : BOOLEAN]
  BY DEF DeviceExecutes, IInv, TypeOK
<1>2. /\ run' \in Runs /\ run'.busy = "executed" /\ run'.pc = run.pc /\ run'.a = run.a
      /\ run'.mine = run.mine /\ run'.stage = run.stage /\ run'.heard = run.heard /\ run'.direct = run.direct
      /\ run'.got = run.got /\ run'.told = run.told /\ run'.stop = run.stop
  BY <1>1 DEF Runs
<1>3. \/ run.pc = "cancelling"
      \/ Running /\ Writing /\ run.busy = Head(fx) /\ run.busy \in Writes
      \/ run.busy = run.pc /\ run.pc \in RemovalWrites
  BY <1>1 DEF IInv, Busy, Writing, Writes, RemovalWrites
<1>4. /\ dev' \in [n : Nat, storing : Attempts \cup {0, Removal}, granted : BOOLEAN, bound : BOOLEAN]
      /\ dev'.bound = dev.bound
      /\ run.busy \in {"endpoint", "grant"} => dev'.storing = 0
      /\ run.busy = "token" => dev'.storing \in {0, run.a}
      /\ run.busy = "command" => dev'.storing = Removal
  <2>1. run.a \in Attempts \cup {0}
    BY <1>1 DEF Runs
  <2>2. CASE run.busy = "endpoint"
    <3>1. dev' = [dev EXCEPT !.n = 0]
      BY <2>2 DEF DeviceExecutes
    <3>. QED
      BY <1>1, <2>2, <3>1
  <2>3. CASE run.busy = "token"
    <3>1. PICK st \in {0, run.a} : dev' = [dev EXCEPT !.n = @ + 1, !.storing = st]
      BY <2>3 DEF DeviceExecutes
    <3>2. st \in Attempts \cup {0, Removal} /\ dev.n + 1 \in Nat
      BY <1>1, <2>1
    <3>3. ASSUME NEW m \in Nat, NEW x \in Attempts \cup {0, Removal}
          PROVE  LET d == [dev EXCEPT !.n = m, !.storing = x] IN
                 /\ d \in [n : Nat, storing : Attempts \cup {0, Removal}, granted : BOOLEAN, bound : BOOLEAN]
                 /\ d.storing = x /\ d.bound = dev.bound
      BY <1>1
    <3>. QED
      BY <2>3, <3>1, <3>2, <3>3
  <2>4. CASE run.busy = "grant"
    <3>1. dev' = [dev EXCEPT !.granted = TRUE]
      BY <2>4 DEF DeviceExecutes
    <3>. QED
      BY <1>1, <2>4, <3>1
  <2>5. CASE run.busy = "command"
    <3>1. dev' = [dev EXCEPT !.storing = Removal]
      BY <2>5 DEF DeviceExecutes
    <3>. QED
      BY <1>1, <2>5, <3>1
  <2>. QED
    BY <1>1, <2>2, <2>3, <2>4, <2>5 DEF Writes, RemovalWrites
<1>5. TypeOK'
  BY <1>1, <1>2, <1>4 DEF TypeOK
<1>6. Follows' /\ Single' /\ \A a \in Attempts : Truthful(a)'
  BY <1>1, <1>2, FollowsKept, JournalKept
<1>7. Works'
  BY <1>1, <1>2 DEF IInv, Works, Running
<1>8. Busy'
  BY <1>1, <1>2, <1>3 DEF Busy, Running, Writing
<1>9. Heeds'
  <2>1. CASE run.pc = "cancelling"
    BY <1>1, <1>2, <2>1 DEF IInv, Heeds, Running, Removes
  <2>2. CASE Running /\ Writing /\ run.busy = Head(fx) /\ run.busy \in Writes
    <3>1. wf.phase = "WritingEndpoint" => run.busy = "endpoint"
      <4>1. fx # <<>> /\ Head(fx) = fx[1] /\ 1 \in DOMAIN fx
        BY <2>2, Tails, Running1 DEF Writing
      <4>. QED
        BY <2>2, <4>1 DEF IInv, Works, Fits, NoneBut, Asked, Writes
    <3>. QED
      BY <1>1, <1>2, <1>4, <2>2, <3>1, Running1 DEF IInv, Heeds, Running, Removes, Writes
  <2>3. CASE run.busy = run.pc /\ run.pc \in RemovalWrites
    BY <1>1, <1>2, <1>4, <2>3, RemovalTypes DEF IInv, Heeds, Running, Removes, RemovalWrites
  <2>. QED
    BY <1>3, <2>1, <2>2, <2>3
<1>. QED
  BY <1>5, <1>6, <1>7, <1>8, <1>9 DEF IInv

LEMMA Appending ==
    ASSUME NEW s \in Seq(BOOLEAN), NEW e \in BOOLEAN
    PROVE  /\ Append(s, e) \in Seq(BOOLEAN)
           /\ \A i \in DOMAIN Append(s, e) : (i \in DOMAIN s /\ Append(s, e)[i] = s[i]) \/ Append(s, e)[i] = e
  OBVIOUS

\* It stores the credential of the attempt that wrote it, or removes it.
LEMMA DeviceStoresKeeps == IInv /\ DeviceStores => IInv'
<1>. SUFFICES ASSUME IInv, DeviceStores PROVE IInv'
  OBVIOUS
<1>1. PICK success \in BOOLEAN :
         /\ dev.storing # 0 /\ UNCHANGED <<journal, run, wf, fx, link, backend>>
         /\ left' = left \/ Fault
         /\ applied' = IF success THEN applied \cup ({dev.storing} \ {Removal}) ELSE applied
         /\ dev' = [n |-> 0, storing |-> 0, granted |-> FALSE,
                    bound |-> IF success THEN dev.storing # Removal ELSE dev.bound]
         /\ air' = air \/ air' = Append(air, success)
  BY DEF DeviceStores, host
<1>2. /\ TypeOK /\ dev.storing \in Attempts \cup {Removal} /\ dev.bound \in BOOLEAN /\ applied \subseteq Attempts
      /\ air \in Seq(BOOLEAN) /\ left' \in [faults : Nat, aborts : Nat, lost : Nat, removals : Nat]
  BY <1>1, Faulty DEF IInv, TypeOK
<1>3. /\ applied \subseteq applied' /\ applied' \subseteq Attempts
      /\ success /\ dev.storing # Removal => dev.storing \in applied'
  BY <1>1, <1>2
<1>4. /\ dev' \in [n : Nat, storing : Attempts \cup {0, Removal}, granted : BOOLEAN, bound : BOOLEAN]
      /\ dev'.storing = 0 /\ (dev.storing = Removal => dev'.bound = IF success THEN FALSE ELSE dev.bound)
  <2>1. PICK b \in BOOLEAN : /\ dev' = [n |-> 0, storing |-> 0, granted |-> FALSE, bound |-> b]
                             /\ dev.storing = Removal => b = IF success THEN FALSE ELSE dev.bound
    <3>1. CASE success
      <4>1. dev' = [n |-> 0, storing |-> 0, granted |-> FALSE, bound |-> dev.storing # Removal]
        BY <1>1, <3>1
      <4>2. (dev.storing # Removal) \in BOOLEAN
        OBVIOUS
      <4>. QED
        BY <3>1, <4>1, <4>2
    <3>2. CASE ~success
      BY <1>1, <1>2, <3>2
    <3>. QED
      BY <3>1, <3>2
  <2>. QED
    BY <2>1
<1>5. /\ air' \in Seq(BOOLEAN)
      /\ \A i \in DOMAIN air' : (i \in DOMAIN air /\ air'[i] = air[i]) \/ air'[i] = success
  <2>1. CASE air' = air
    BY <1>2, <2>1
  <2>2. CASE air' = Append(air, success)
    BY <1>2, <2>2, Appending
  <2>. QED
    BY <1>1, <2>1, <2>2
<1>6. TypeOK'
  BY <1>1, <1>2, <1>3, <1>4, <1>5 DEF TypeOK
<1>7. Follows' /\ Single' /\ \A a \in Attempts : Truthful(a)'
  BY <1>1, <1>3, FollowsKept, JournalKept
<1>8. Works' /\ Busy'
  BY <1>1, <1>3 DEF IInv, Works, Busy, Running, Writing
<1>9. Heeds'
  <2>1. Running /\ wf.phase \in Sending => \A i \in DOMAIN air' : air'[i] => run.a \in applied'
    <3>. SUFFICES ASSUME Running, wf.phase \in Sending PROVE \A i \in DOMAIN air' : air'[i] => run.a \in applied'
      OBVIOUS
    <3>1. dev.storing = run.a /\ run.a # Removal /\ \A i \in DOMAIN air : air[i] => run.a \in applied
      BY <1>1, Running1 DEF IInv, Heeds
    <3>. QED
      BY <1>3, <1>5, <3>1
  <2>2. run.pc \in Removes => \A i \in DOMAIN air' : air'[i] => ~dev'.bound
    <3>. SUFFICES ASSUME run.pc \in Removes PROVE \A i \in DOMAIN air' : air'[i] => ~dev'.bound
      OBVIOUS
    <3>1. dev.storing = Removal /\ \A i \in DOMAIN air : air[i] => ~dev.bound
      BY <1>1 DEF IInv, Heeds
    <3>2. dev'.bound = IF success THEN FALSE ELSE dev.bound
      BY <1>4, <3>1
    <3>. QED
      BY <1>5, <3>1, <3>2
  <2>3. run.got = "removed" \/ run.told = "removed" => ~dev'.bound
    <3>1. run.got = "removed" \/ run.told = "removed" => dev.storing = Removal /\ ~dev.bound
      BY <1>1 DEF IInv, Heeds, Removes
    <3>. QED
      BY <1>4, <3>1
  <2>. QED
    BY <1>1, <1>4, <2>1, <2>2, <2>3 DEF IInv, Heeds, Running
<1>. QED
  BY <1>6, <1>7, <1>8, <1>9 DEF IInv

-----------------------------------------------------------------------------
(* The theorems *)

LEMMA Starts == Init => IInv
<1>. SUFFICES ASSUME Init PROVE IInv
  OBVIOUS
<1>1. /\ run \in Runs /\ run.pc = "idle" /\ run.busy = "no" /\ run.got = "none" /\ run.told = "none"
      /\ run.stage = "none"
  BY NoRunTyped DEF Init
<1>2. wf \in Workflows /\ fx \in Seq(Effects)
  BY Ended DEF Init
<1>3. TypeOK
  BY <1>1, <1>2, ProvisioningAssumption DEF Init, TypeOK
<1>4. Unresolved = {} /\ Single /\ \A a \in Attempts : Truthful(a)
  BY DEF Init, Unresolved, Single, Truthful
<1>5. Follows /\ Works /\ Busy /\ Heeds
  BY <1>1 DEF Follows, Works, Busy, Heeds, Running, Trying, Handing, Removes
<1>. QED
  BY <1>3, <1>4, <1>5 DEF IInv

LEMMA HostKeeps == IInv /\ Host => IInv'
BY LoadKeeps, CancelledKeeps, SettlesKeeps, SavesKeep, CompletedKeeps, QuietKeeps, FireKeeps, ReadKeeps,
   VerifySerialKeeps, PreparedSavedKeeps, WriteKeeps, WriteSettlesKeeps, DeliverKeeps, FailedKeeps,
   RemovalOpensKeep, RemovalGoesKeep
   DEF Host

LEMMA Keeps == IInv /\ [Next]_vars => IInv'
<1>. SUFFICES ASSUME IInv, [Next]_vars PROVE IInv'
  OBVIOUS
<1>1. CASE Host
  BY <1>1, HostKeeps
<1>2. CASE Provider
  BY <1>2, ProviderPreparesKeeps, AbortsKeep, ConfirmsKeep DEF Provider
<1>3. CASE Device
  BY <1>3, DeviceExecutesKeeps, DeviceStoresKeeps DEF Device
<1>4. CASE (\E a \in Attempts : Provision(a)) \/ Deprovision \/ Cancel \/ Connect
  BY <1>4, ProvisionKeeps, RemovalOpensKeep, CancelKeeps, PageKeeps
<1>5. CASE LinkDrops \/ LoseResult \/ StorageFails \/ UnsubscribeFails \/ ReloadPage
  BY <1>5, LinkDropsKeeps, LoseResultKeeps, StorageFailsKeeps, PageKeeps
<1>6. CASE UNCHANGED vars
  <2>1. UNCHANGED <<journal, run, wf, fx, link, air, dev, applied, backend, left>>
    BY <1>6 DEF vars, host, radio
  <2>2. TypeOK' /\ Unresolved' = Unresolved
    BY <2>1 DEF IInv, TypeOK, Unresolved
  <2>3. Single' /\ Follows' /\ Works' /\ Busy' /\ Heeds' /\ \A a \in Attempts : Truthful(a)'
    BY <2>1, <2>2 DEF IInv, Single, Follows, Works, Busy, Heeds, Truthful, Running, Writing
  <2>. QED
    BY <2>2, <2>3 DEF IInv
<1>. QED
  BY <1>1, <1>2, <1>3, <1>4, <1>5, <1>6 DEF Next

\* The inductive invariant: whose credential, material and results the workflow, the
\* device and the link hold, and where the call has brought the journal of its attempt.
THEOREM Invariant == Spec => []IInv
<1>. QED
  BY Starts, Keeps, PTL DEF Spec

\* The journals, the call, the workflow, the device and the provider keep their types.
THEOREM TypeInvariant == Spec => []TypeOK
<1>1. IInv => TypeOK
  BY DEF IInv
<1>. QED
  BY <1>1, Invariant, PTL

\* No second attempt is prepared while what became of the first one is open, over
\* cancellations, failures, losses of the link and reloads of the page.
THEOREM OneUnresolvedHolds == Spec => []OneUnresolved
<1>1. IInv => OneUnresolved
  <2>. SUFFICES ASSUME IInv PROVE Cardinality(Unresolved) <= 1
    BY DEF OneUnresolved
  <2>1. CASE Unresolved = {}
    BY <2>1, FS_EmptySet
  <2>2. CASE Unresolved # {}
    <3>1. PICK a \in Unresolved : TRUE
      BY <2>2
    <3>2. Unresolved = {a}
      BY <3>1 DEF IInv, Single
    <3>3. Cardinality({a}) = 1
      BY FS_Singleton
    <3>. QED
      BY <3>2, <3>3
  <2>. QED
    BY <2>1, <2>2
<1>. QED
  BY <1>1, Invariant, PTL

\* What a journal claims, the device and the provider have done, no attempt is both
\* confirmed and aborted, and a removal that the application was told of is done.
THEOREM JournalTruthfulHolds == Spec => []JournalTruthful
<1>1. IInv => JournalTruthful
  <2>. SUFFICES ASSUME IInv PROVE JournalTruthful
    OBVIOUS
  <2>1. \A a \in Attempts : Truthful(a)
    BY DEF IInv
  <2>2. backend.confirmed \subseteq Attempts
    BY DEF IInv, TypeOK
  <2>3. backend.confirmed \cap backend.aborted = {}
    BY <2>1, <2>2 DEF Truthful
  <2>4. run.told = "removed" => ~dev.bound
    BY DEF IInv, Heeds
  <2>. QED
    BY <2>1, <2>3, <2>4 DEF JournalTruthful, Truthful
<1>. QED
  BY <1>1, Invariant, PTL

\* Only a provider that prepares or aborts an attempt changes what it has aborted, and
\* neither is asked for an attempt whose success was heard.
LEMMA AbortsUnheard == IInv /\ [Next]_vars => (backend'.aborted # backend.aborted => ~run.heard)
<1>. SUFFICES ASSUME IInv, [Next]_vars, backend'.aborted # backend.aborted PROVE ~run.heard
  OBVIOUS
<1>1. ProviderPrepares \/ ProviderAborts \/ AbortFails
  <2>1. backend' # backend
    OBVIOUS
  <2>2. ~Host
    BY <2>1 DEF Host, Load, Cancelled, GiveUp, AbortSaved, Completed, AppliedSaved, ConfirmSaved, DoQuiet,
                Schedule, Fire, Read, VerifySerial, PreparedSaved, Subscribe, Write, WriteSettles, Deliver,
                Failed, VerifyDevice, RemovalWrite, RemovalSettles, Listen, Deadline, Unlisten
  <2>3. ~Device
    BY <2>1 DEF Device, DeviceExecutes, DeviceStores
  <2>4. ~((\E a \in Attempts : Provision(a)) \/ Deprovision \/ Cancel \/ Connect \/ LinkDrops
          \/ LoseResult \/ StorageFails \/ UnsubscribeFails \/ ReloadPage)
    BY <2>1 DEF Provision, Deprovision, Cancel, Connect, LinkDrops, LoseResult, StorageFails,
                UnsubscribeFails, ReloadPage
  <2>5. ~(ProviderConfirms \/ ConfirmFails)
    <3>1. ProviderConfirms \/ ConfirmFails => ConfirmBackend \/ UNCHANGED backend
      BY DEF ProviderConfirms, ConfirmFails
    <3>2. ConfirmBackend => backend'.aborted = backend.aborted
      BY DEF ConfirmBackend, IInv, TypeOK
    <3>. QED
      BY <2>1, <3>1, <3>2
  <2>6. ~UNCHANGED vars
    BY <2>1 DEF vars
  <2>. QED
    BY <2>2, <2>3, <2>4, <2>5, <2>6 DEF Next, Provider
<1>2. CASE ProviderPrepares
  <2>1. Running /\ run.stage # "none"
    BY <1>2 DEF ProviderPrepares, Head1
  <2>. QED
    BY <2>1 DEF IInv, Follows, Works, Prepared
<1>3. CASE ProviderAborts \/ AbortFails
  BY <1>3 DEF ProviderAborts, AbortFails, IInv, Follows
<1>. QED
  BY <1>1, <1>2, <1>3

\* An attempt whose success was heard is never aborted at the provider, whatever fails
\* or is cancelled afterwards.
THEOREM HeardNotAbortedHolds == Spec => HeardNotAborted
<1>1. IInv /\ [Next]_vars => [backend'.aborted # backend.aborted => ~run.heard]_vars
  BY AbortsUnheard
<1>. QED
  BY <1>1, Invariant, PTL DEF Spec, HeardNotAborted

=============================================================================
