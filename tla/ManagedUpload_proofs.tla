----------------------- MODULE ManagedUpload_proofs -----------------------
(***************************************************************************)
(* Proofs about ManagedUpload, for every number of sessions, nonces,       *)
(* expiries, faults, cancellations and recovery hops, with and without a   *)
(* local transfer: creations are never repeated, nothing the service       *)
(* created is forgotten, the checkpoint of a local transfer stays usable.  *)
(***************************************************************************)
EXTENDS ManagedUpload, SequenceTheorems, TLAPS

-----------------------------------------------------------------------------
(* Types *)

\* Where the operation is, by what the journal must say there.
Unrecorded == {"sendRecording", "waitRecording"}
Unopened == {"nonce", "createSession"}
Opening == {"sendSession", "waitSession"}
Restoring == {"get", "waitGet", "saveRecovery", "recover", "waitRecover"}
Material == {"register", "ready", "reconcile", "waitReconcile", "stage", "waitStage", "submit",
             "waitManifest", "finalize", "waitStatus", "confirm"}
Pcs == {"none", "load", "createRecording", "resave", "delivered"} \cup Unrecorded \cup Unopened
       \cup Opening \cup Restoring \cup Material

Phases == {"absent", "recording_create_unknown", "session_create_unknown", "ready"}
Kinds == {"none", "recording", "session", "recover", "get", "manifest", "put"}
States == {"staging", "staged", "processing", "published", "expired", "superseded"}
Session == [parent : Nat, nonce : Nat, state : States]
Requests == [k : Kinds, ses : Nat, nonce : Nat]
Answers == [is : {"none", "ok", "missing", "refused", "lost", "rejected"}, ses : Nat,
            state : States \cup {"none"}]

Journals == [phase : Phases, rec : BOOLEAN, ses : Nat, auth : Nat, recovery : Nat, parents : SUBSET Nat]
Slots == [pc : Pcs, cancelled : BOOLEAN, nonce : Nat, hop : Nat, upload : BOOLEAN,
          manifest : BOOLEAN, receipt : Nat]
Nets == [req : Requests, ans : Answers]
Clouds == [recordings : Nat, sessions : Seq(Session)]
Devices == [nonce : Nat \ {0}, auth : Nat, known : Nat, holds : BOOLEAN]

\* The types of the variables: journal and slot of uploadBackendV2, the requests, the service.
TypeOK ==
    /\ journal \in Journals /\ ckpt \in Nat /\ slot \in Slots /\ net \in Nets
    /\ stray \in SUBSET Requests /\ cloud \in Clouds /\ dev \in Devices
    /\ left \in [faults : Nat, cancels : Nat, expired : Nat]

-----------------------------------------------------------------------------
(* The inductive invariant *)

\* The journal says what the operation is at.
JournalFollows ==
    /\ journal.phase \in {"session_create_unknown", "ready"} <=> journal.rec
    /\ journal.phase # "ready" => journal.ses = 0
    /\ journal.recovery # 0 => journal.ses # 0
    /\ slot.pc = "createRecording" => journal.phase = "absent"
    /\ slot.pc \in Unrecorded => journal.phase = "recording_create_unknown"
    /\ slot.pc \in Unopened => journal.phase = "ready" /\ journal.ses = 0
    /\ slot.pc \in Opening => journal.phase = "session_create_unknown"
    /\ slot.pc = "resave" => journal.phase = "ready"
    /\ slot.pc \in Restoring \cup Material => journal.phase = "ready" /\ journal.ses # 0
    /\ slot.pc = "saveRecovery" => slot.nonce # 0 /\ journal.recovery \in {0, slot.nonce}
    /\ slot.pc \in {"recover", "waitRecover"} => slot.nonce # 0 /\ journal.recovery = slot.nonce
    /\ slot.pc \in Material => journal.recovery = 0
    /\ ~dev.holds => /\ slot.pc \in {"none", "delivered"} /\ journal.recovery = 0
                     /\ journal.phase = "absent" \/ journal.ses # 0
    /\ slot.pc = "delivered" => ~dev.holds

\* The request under way is the one the operation waits for.
Creations == {"recording", "session", "recover"}
Polling == {"waitGet", "waitReconcile", "waitStage", "waitManifest", "waitStatus"}

NetFollows ==
    /\ net.req = NoRequest => net.ans = NoAnswer
    /\ slot.pc \notin Drained \cup Polling => net = Idle
    /\ slot.pc = "waitRecording" => net.req.k = "recording"
    /\ slot.pc = "waitSession" => net.req.k = "session"
    /\ slot.pc = "waitRecover" => net.req = [k |-> "recover", ses |-> journal.ses, nonce |-> slot.nonce]
    /\ slot.pc \notin Drained => net.req.k \notin Creations

\* A creation is outstanding at most once, and never once it was executed.
Asking(k) == Waiting /\ net.req.k = k
Astray(k) == \E r \in stray : r.k = k
Exists(k) == IF k = "recording" THEN cloud.recordings > 0 ELSE cloud.sessions # <<>>

Never(k) == ~Exists(k) /\ ~Astray(k)

Once(k) ==
    /\ Exists(k) => ~Asking(k) /\ ~Astray(k)
    /\ Asking(k) => ~Astray(k)
    /\ \A r1, r2 \in stray : r1.k = k /\ r2.k = k => r1 = r2

CreatedOnce ==
    /\ cloud.recordings <= 1
    /\ Once("recording") /\ Once("session")
    /\ slot.pc = "sendRecording" => Never("recording")
    /\ slot.pc = "waitRecording" /\ net.ans.is = "rejected" => Never("recording")
    /\ journal.phase = "absent" /\ dev.holds => Never("recording")
    /\ slot.pc = "sendSession" => Never("session")
    /\ slot.pc = "waitSession" /\ net.ans.is = "rejected" => Never("session")
    /\ journal.phase \in {"absent", "recording_create_unknown"} /\ dev.holds => Never("session")
    /\ journal.phase = "ready" /\ journal.ses = 0 /\ dev.holds => Never("session")

\* A recovery is of the journal's session, by the journal's nonce, or has succeeded before.
Named(s) == cloud.sessions[s].parent = journal.ses /\ cloud.sessions[s].nonce = journal.recovery

Recovery(r) ==
    /\ r.ses \in DOMAIN cloud.sessions
    /\ \/ Successors(r.ses, r.nonce) # {}
       \/ journal.recovery # 0 /\ r.ses = journal.ses /\ r.nonce = journal.recovery

Descent ==
    /\ \A s \in DOMAIN cloud.sessions : cloud.sessions[s].parent < s
    /\ \A s, t \in DOMAIN cloud.sessions : cloud.sessions[s].parent = cloud.sessions[t].parent => s = t
    /\ journal.ses <= Len(cloud.sessions)
    /\ journal.phase # "absent" =>
         \A s \in DOMAIN cloud.sessions :
            /\ cloud.sessions[s].parent <= journal.ses
            /\ cloud.sessions[s].parent = journal.ses /\ journal.ses # 0
                  => journal.recovery # 0 /\ Named(s)
            /\ s <= journal.ses \/ journal.phase = "session_create_unknown" \/ Named(s)

Lineage ==
    /\ Descent
    /\ \A r \in stray : r.k = "recover" => Recovery(r)
    /\ net.req.k = "recover" => Recovery(net.req)
    /\ slot.pc = "waitSession" /\ net.ans.is = "ok" =>
         net.ans.ses \in DOMAIN cloud.sessions /\ cloud.sessions[net.ans.ses].parent = 0
    /\ slot.pc = "waitRecover" /\ net.ans.is = "ok" =>
         net.ans.ses \in Successors(journal.ses, slot.nonce)

\* The checkpoint is of the journal's session or of one it recovered from.
Backed ==
    dev.holds => /\ LocalWifiRecovery
                 /\ journal.ses = 0 => ckpt = 0

IInv == TypeOK /\ JournalFollows /\ NetFollows /\ CreatedOnce /\ Lineage /\ Backed

-----------------------------------------------------------------------------
(* What the service does *)

\* A request that is executed: what it creates, and that it changes no lineage.
SameLineage(c) ==
    \A s \in DOMAIN cloud.sessions : /\ c.sessions[s].parent = cloud.sessions[s].parent
                                     /\ c.sessions[s].nonce = cloud.sessions[s].nonce

Execution(r, c) ==
    /\ c \in Clouds
    /\ c.recordings = IF r.k = "recording" THEN cloud.recordings + 1 ELSE cloud.recordings
    /\ Len(c.sessions) = IF Opens(r) THEN Len(cloud.sessions) + 1 ELSE Len(cloud.sessions)
    /\ SameLineage(c)
    /\ Opens(r) => LET n == Len(cloud.sessions) + 1 IN
                   /\ c.sessions[n].parent = IF r.k = "session" THEN 0 ELSE r.ses
                   /\ c.sessions[n].nonce = r.nonce

\* The state of one session is set.
LEMMA StateSet ==
    ASSUME TypeOK, NEW i \in DOMAIN cloud.sessions, NEW st \in States,
           NEW c, c = [cloud EXCEPT !.sessions[i].state = st]
    PROVE  /\ c \in Clouds
           /\ c.recordings = cloud.recordings
           /\ Len(c.sessions) = Len(cloud.sessions)
           /\ SameLineage(c)
<1>. DEFINE q == cloud.sessions
            new == [q EXCEPT ![i].state = st]
<1>1. q \in Seq(Session) /\ c.sessions = new /\ c.recordings = cloud.recordings
      /\ c = [recordings |-> cloud.recordings, sessions |-> new]
  BY DEF TypeOK, Clouds
<1>2. q \in [1 .. Len(q) -> Session] /\ Len(q) \in Nat /\ DOMAIN q = 1 .. Len(q)
  BY <1>1, LenProperties
<1>3. new \in [1 .. Len(q) -> Session]
  BY <1>2 DEF Session
<1>4. new \in Seq(Session) /\ Len(new) = Len(q)
  BY <1>2, <1>3, IsASeq, LenProperties
<1>5. \A s \in DOMAIN q : new[s].parent = q[s].parent /\ new[s].nonce = q[s].nonce
  BY <1>2 DEF Session
<1>. QED
  BY <1>1, <1>4, <1>5 DEF SameLineage, TypeOK, Clouds

\* A session is opened, after one was taken from its owner or not.
LEMMA SessionOpened ==
    ASSUME TypeOK, NEW taken \in Seq(Session), Len(taken) = Len(cloud.sessions),
           \A s \in DOMAIN cloud.sessions : /\ taken[s].parent = cloud.sessions[s].parent
                                            /\ taken[s].nonce = cloud.sessions[s].nonce,
           NEW e \in Session, NEW c, c = [cloud EXCEPT !.sessions = Append(taken, e)]
    PROVE  /\ c \in Clouds
           /\ c.recordings = cloud.recordings
           /\ Len(c.sessions) = Len(cloud.sessions) + 1
           /\ SameLineage(c)
           /\ c.sessions[Len(cloud.sessions) + 1] = e
<1>1. cloud.sessions \in Seq(Session) /\ cloud.recordings \in Nat
      /\ c = [recordings |-> cloud.recordings, sessions |-> Append(taken, e)]
  BY DEF TypeOK, Clouds
<1>2. /\ Append(taken, e) \in Seq(Session) /\ Len(Append(taken, e)) = Len(taken) + 1
      /\ \A i \in 1 .. Len(taken) : Append(taken, e)[i] = taken[i]
      /\ Append(taken, e)[Len(taken) + 1] = e
  BY AppendProperties
<1>3. DOMAIN cloud.sessions = 1 .. Len(taken)
  BY <1>1, LenProperties
<1>. QED
  BY <1>1, <1>2, <1>3 DEF SameLineage, Clouds

\* The service executes a request.
LEMMA Executes ==
    ASSUME TypeOK, NEW r \in Requests
    PROVE  Execution(r, Effect(r))
<1>. DEFINE q == cloud.sessions
<1>1. q \in Seq(Session) /\ Len(q) \in Nat /\ DOMAIN q = 1 .. Len(q)
      /\ q \in [1 .. Len(q) -> Session] /\ cloud.recordings \in Nat
      /\ cloud \in Clouds
      /\ cloud = [recordings |-> cloud.recordings, sessions |-> q]
  BY LenProperties DEF TypeOK, Clouds
<1>2. SameLineage(cloud)
  BY DEF SameLineage
<1>3. ASSUME r.k = "recording" PROVE Execution(r, Effect(r))
  <2>1. Effect(r) = [recordings |-> cloud.recordings + 1, sessions |-> q]
    BY <1>1, <1>3 DEF Effect
  <2>2. ~Opens(r)
    BY <1>3 DEF Opens
  <2>. QED
    BY <1>1, <1>3, <2>1, <2>2 DEF Execution, SameLineage, Clouds
<1>4. ASSUME r.k = "session" PROVE Execution(r, Effect(r))
  <2>. DEFINE e == [parent |-> 0, nonce |-> r.nonce, state |-> "staging"]
  <2>1. Effect(r) = [cloud EXCEPT !.sessions = Append(q, e)]
    BY <1>4 DEF Effect, Opened
  <2>2. e \in Session /\ Opens(r)
    BY <1>4 DEF Session, States, Requests, Opens
  <2>3. /\ Effect(r) \in Clouds
        /\ Effect(r).recordings = cloud.recordings
        /\ Len(Effect(r).sessions) = Len(q) + 1
        /\ SameLineage(Effect(r)) /\ Effect(r).sessions[Len(q) + 1] = e
    <3>. HIDE DEF e
    <3>. QED BY <1>1, <2>1, <2>2, SessionOpened
  <2>. QED
    BY <1>4, <2>2, <2>3 DEF Execution
<1>5. ASSUME r.k = "recover", Successors(r.ses, r.nonce) = {} PROVE Execution(r, Effect(r))
  <2>. DEFINE Take(s) == IF s = r.ses /\ q[s].state \in Pre \cup {"expired"}
                         THEN [q[s] EXCEPT !.state = "superseded"] ELSE q[s]
              taken == [s \in DOMAIN q |-> Take(s)]
              e == [parent |-> r.ses, nonce |-> r.nonce, state |-> "staging"]
  <2>1. Effect(r) = [cloud EXCEPT !.sessions = Append(taken, e)]
    BY <1>5 DEF Effect, Recovered
  <2>2. e \in Session /\ Opens(r)
    BY <1>5 DEF Session, States, Requests, Opens
  <2>3. ASSUME NEW s \in DOMAIN q
        PROVE  Take(s) \in Session /\ Take(s).parent = q[s].parent /\ Take(s).nonce = q[s].nonce
    BY <1>1, <2>3 DEF Session, States
  <2>4. taken \in [1 .. Len(q) -> Session]
    BY <1>1, <2>3
  <2>5. taken \in Seq(Session) /\ Len(taken) = Len(q)
    BY <1>1, <2>4, IsASeq, LenProperties
  <2>6. \A s \in DOMAIN q : taken[s].parent = q[s].parent /\ taken[s].nonce = q[s].nonce
    BY <2>3
  <2>7. /\ Effect(r) \in Clouds
        /\ Effect(r).recordings = cloud.recordings
        /\ Len(Effect(r).sessions) = Len(q) + 1
        /\ SameLineage(Effect(r)) /\ Effect(r).sessions[Len(q) + 1] = e
    <3>. HIDE DEF taken, e
    <3>. QED BY SMTT(60), <2>1, <2>2, <2>5, <2>6, SessionOpened
  <2>. QED
    BY <1>5, <2>2, <2>7 DEF Execution
<1>6. ASSUME r.k \notin {"recording", "session"}, ~(r.k = "recover" /\ Successors(r.ses, r.nonce) = {})
      PROVE  Execution(r, Effect(r))
  <2>1. ~Opens(r) /\ r.k # "recording"
    BY <1>6 DEF Opens
  <2>2. ASSUME NEW st \in States, r.ses \in DOMAIN q,
               Effect(r) = [cloud EXCEPT !.sessions[r.ses].state = st]
        PROVE  Execution(r, Effect(r))
    <3>1. /\ Effect(r) \in Clouds
          /\ Effect(r).recordings = cloud.recordings
          /\ Len(Effect(r).sessions) = Len(q) /\ SameLineage(Effect(r))
      BY <2>2, StateSet
    <3>. QED
      BY <2>1, <3>1 DEF Execution
  <2>3. CASE r.k = "put" /\ StateOf(r.ses) = "staging"
    BY <2>2, <2>3 DEF Effect, StateOf, States
  <2>4. CASE r.k = "manifest" /\ StateOf(r.ses) = "staged"
    BY <2>2, <2>4 DEF Effect, StateOf, States
  <2>5. CASE ~(r.k = "put" /\ StateOf(r.ses) = "staging") /\ ~(r.k = "manifest" /\ StateOf(r.ses) = "staged")
    <3>1. Effect(r) = cloud
      BY <1>6, <2>5 DEF Effect
    <3>. QED
      BY <1>1, <1>2, <2>1, <3>1 DEF Execution
  <2>. QED
    BY <2>3, <2>4, <2>5
<1>. QED
  BY <1>3, <1>4, <1>5, <1>6

-----------------------------------------------------------------------------
(* Types *)

\* What is stored is a record of the recording.
LEMMA RecordType ==
    ASSUME TypeOK, NEW rec \in BOOLEAN, NEW ses \in Nat, NEW phase \in Phases, NEW auth \in Nat,
           NEW recovery \in Nat, NEW recovered \in BOOLEAN
    PROVE  Record(rec, ses, phase, auth, recovery, recovered) \in Journals
BY DEF Record, TypeOK, Journals

\* The service answers in kind.
LEMMA AnswerType ==
    ASSUME TypeOK, NEW r \in Requests
    PROVE  Answer(r) \in Answers
<1>1. /\ cloud.sessions \in Seq(Session) /\ Len(cloud.sessions) \in Nat
      /\ DOMAIN cloud.sessions = 1 .. Len(cloud.sessions)
      /\ \A s \in DOMAIN cloud.sessions : cloud.sessions[s] \in Session
  BY LenProperties DEF TypeOK, Clouds
<1>2. StateOf(r.ses) \in States \cup {"none"} /\ r.ses \in Nat
  BY <1>1 DEF StateOf, Session, Requests
<1>3. Successors(r.ses, r.nonce) \subseteq Nat
  BY <1>1 DEF Successors
<1>4. CASE Opens(r)
  <2>1. Answer(r) = [is |-> "ok", ses |-> Len(cloud.sessions) + 1, state |-> "staging"]
    BY <1>4 DEF Answer, Opens
  <2>. QED
    BY <1>1, <2>1 DEF Answers, States
<1>5. CASE ~Opens(r) /\ r.k = "recover"
  <2>1. (CHOOSE s \in Successors(r.ses, r.nonce) : TRUE) \in Nat
    BY <1>3, <1>5 DEF Opens
  <2>2. Answer(r) = [is |-> "ok", ses |-> CHOOSE s \in Successors(r.ses, r.nonce) : TRUE,
                     state |-> "staging"]
    BY <1>5 DEF Answer
  <2>. QED
    BY <2>1, <2>2 DEF Answers, States
<1>6. CASE ~Opens(r) /\ r.k # "recover"
  BY <1>2, <1>6 DEF Answer, Answers, NoAnswer
<1>. QED
  BY <1>4, <1>5, <1>6

\* The end of an operation.
LEMMA ReleaseType ==
    ASSUME TypeOK, Release
    PROVE  slot' \in Slots /\ net' \in Nets /\ stray' \in SUBSET Requests
BY DEF TypeOK, Release, Abandon, Slots, NoSlot, Pcs, Nets, Idle, NoRequest, NoAnswer, Requests,
       Answers, Kinds

\* A move of the operation.
LEMMA GotoType ==
    ASSUME TypeOK, NEW pc \in Pcs, Goto(pc)
    PROVE  slot' \in Slots
BY DEF TypeOK, Goto, Slots

\* ManagedUploadSession::actions says of every state what is left to do.
LEMMA ActionsType ==
    ASSUME NEW st \in DOMAIN Actions
    PROVE  Actions[st].upload \in BOOLEAN /\ Actions[st].manifest \in BOOLEAN
<1>1. st \in {"staging", "staged", "processing", "published"}
  BY DEF Actions
<1>2. CASE st = "staging"
  BY <1>2 DEF Actions
<1>3. CASE st = "staged"
  BY <1>3 DEF Actions
<1>4. CASE st = "processing"
  BY <1>4 DEF Actions
<1>5. CASE st = "published"
  BY <1>5 DEF Actions
<1>. QED
  BY <1>1, <1>2, <1>3, <1>4, <1>5

\* A step of the slot or of the device.
LEMMA UpdateTypes ==
    ASSUME TypeOK
    PROVE  /\ \A pc \in Pcs : [slot EXCEPT !.pc = pc] \in Slots
           /\ [slot EXCEPT !.pc = "get", !.hop = @ + 1] \in Slots
           /\ \A n \in Nat : [slot EXCEPT !.pc = "confirm", !.receipt = n] \in Slots
           /\ \A u, m \in BOOLEAN :
                 [slot EXCEPT !.pc = "register", !.upload = u, !.manifest = m] \in Slots
           /\ [dev EXCEPT !.nonce = @ + 1, !.auth = 0] \in Devices
           /\ \A n \in Nat : [dev EXCEPT !.auth = n, !.known = n] \in Devices
           /\ {"get", "finalize", "confirm", "register", "reconcile", "waitManifest"} \subseteq Pcs
<1>1. slot \in Slots /\ dev \in Devices
  BY DEF TypeOK
<1>2. {"get", "finalize", "confirm", "register", "reconcile", "waitManifest"} \subseteq Pcs
  BY DEF Pcs, Restoring, Material
<1>3. /\ \A pc \in Pcs : [slot EXCEPT !.pc = pc] \in Slots
      /\ \A n \in Nat : [slot EXCEPT !.pc = "confirm", !.receipt = n] \in Slots
      /\ \A u, m \in BOOLEAN :
            [slot EXCEPT !.pc = "register", !.upload = u, !.manifest = m] \in Slots
  BY <1>1, <1>2 DEF Slots
<1>4. [slot EXCEPT !.pc = "get", !.hop = @ + 1] \in Slots
  <2>1. slot.hop + 1 \in Nat /\ slot.hop \in Nat
    BY <1>1 DEF Slots
  <2>2. \A n \in Nat : [slot EXCEPT !.pc = "get", !.hop = n] \in Slots
    BY <1>1, <1>2 DEF Slots
  <2>. QED
    BY <1>1, <2>1, <2>2, Zenon
<1>5. [dev EXCEPT !.nonce = @ + 1, !.auth = 0] \in Devices
  <2>1. dev.nonce + 1 \in Nat \ {0}
    BY <1>1 DEF Devices
  <2>2. \A n \in Nat \ {0} : [dev EXCEPT !.nonce = n, !.auth = 0] \in Devices
    BY <1>1 DEF Devices
  <2>. QED
    BY <1>1, <2>1, <2>2, Zenon
<1>6. \A n \in Nat : [dev EXCEPT !.auth = n, !.known = n] \in Devices
  BY <1>1 DEF Devices
<1>. QED
  BY <1>2, <1>3, <1>4, <1>5, <1>6

\* Types are kept by every step.
LEMMA TypeNext == TypeOK /\ [Next]_vars => TypeOK'
<1>. SUFFICES ASSUME TypeOK, [Next]_vars PROVE TypeOK'
  OBVIOUS
<1>. USE DEF TypeOK, Slots, Nets, Devices, Pcs, Unrecorded, Unopened, Opening, Restoring, Material,
             Requests, Answers, Kinds, NoSlot, NoRequest, NoAnswer, Idle, Goto, Release, Abandon,
             outside, Fault
<1>0. /\ journal.rec \in BOOLEAN /\ journal.ses \in Nat /\ journal.recovery \in Nat
      /\ journal.auth \in Nat /\ journal.parents \in SUBSET Nat
      /\ NoJournal \in Journals
      /\ \A n \in Nat : [journal EXCEPT !.recovery = n] \in Journals
  BY DEF Journals, NoJournal, Phases
<1>1. CASE Prepare
  BY <1>0, <1>1 DEF Prepare
<1>2. CASE Inspect
  <2>1. CASE Release
    <3>. HIDE DEF Release
    <3>. QED BY <1>2, <2>1, ReleaseType DEF Inspect
  <2>2. CASE ~Release
    BY <1>2, <2>2 DEF Inspect
  <2>. QED
    BY <2>1, <2>2
<1>3. CASE SendRecording
  BY <1>0, <1>3 DEF SendRecording, Send, Request
<1>4. CASE ReadNonce
  BY <1>0, <1>4 DEF ReadNonce
<1>5. CASE SendSession
  BY <1>0, <1>5 DEF SendSession, Send, Request
<1>6. CASE Get
  BY <1>0, <1>6 DEF Get, Send, Request
<1>7. CASE RestoreRecovers
  BY <1>0, <1>7 DEF RestoreRecovers, Selected
<1>8. CASE RestoreKeeps
  <2>1. Actions[net.ans.state].upload \in BOOLEAN /\ Actions[net.ans.state].manifest \in BOOLEAN
    BY <1>8, ActionsType DEF RestoreKeeps
  <2>2. slot' \in Slots
    <3>. HIDE DEF Slots
    <3>. QED BY <1>8, <2>1, UpdateTypes DEF RestoreKeeps
  <2>. QED
    BY <1>8, <2>2 DEF RestoreKeeps
<1>9. CASE RestoreExpired
  BY <1>0, <1>9 DEF RestoreExpired
<1>10. CASE SendRecover
  BY <1>0, <1>10 DEF SendRecover, Send, Request
<1>11. CASE Retry
  BY <1>0, <1>11 DEF Retry, Retried
<1>12. CASE Refused
  BY <1>0, <1>12 DEF Refused
<1>13. CASE Register
  BY <1>0, <1>13 DEF Register
<1>14. CASE Transfer
  <2>1. CASE LocalWifiRecovery /\ Admits(journal.ses)
    <3>1. dev' \in Devices
      <4>1. dev' = [dev EXCEPT !.auth = journal.ses, !.known = journal.ses]
        BY <1>14, <2>1 DEF Transfer
      <4>. HIDE DEF Devices, Slots, TypeOK, Pcs
      <4>. QED BY <1>0, <4>1, UpdateTypes
    <3>2. slot' \in Slots
      <4>1. slot' = [slot EXCEPT !.pc = "reconcile"]
        BY <1>14, <2>1 DEF Transfer
      <4>. HIDE DEF Slots
      <4>. QED BY <4>1, UpdateTypes
    <3>. QED
      BY <1>0, <1>14, <2>1, <3>1, <3>2 DEF Transfer
  <2>2. CASE ~(LocalWifiRecovery /\ Admits(journal.ses))
    <3>. HIDE DEF Release
    <3>. QED BY <1>14, <2>2, ReleaseType DEF Transfer
  <2>. QED
    BY <2>1, <2>2
<1>15. CASE Reconcile
  BY <1>0, <1>15 DEF Reconcile, Send, Request
<1>16. CASE Reconciled
  BY <1>0, <1>16 DEF Reconciled
<1>17. CASE NothingToStage
  BY <1>0, <1>17 DEF NothingToStage
<1>18. CASE StagingMissing
  BY <1>0, <1>18 DEF StagingMissing
<1>19. CASE StageCiphertext
  BY <1>0, <1>19 DEF StageCiphertext, Send, Request
<1>20. CASE Staged
  BY <1>0, <1>20 DEF Staged
<1>21. CASE SubmitManifest
  <2>1. CASE slot.manifest
    <3>1. Send("submit", "waitManifest", Request("manifest"))
      BY <1>21, <2>1 DEF SubmitManifest
    <3>. QED
      BY <1>0, <3>1 DEF Send, Request
  <2>2. CASE ~slot.manifest
    BY <1>21, <2>2 DEF SubmitManifest
  <2>. QED
    BY <2>1, <2>2
<1>22. CASE ManifestTaken
  BY <1>0, <1>22 DEF ManifestTaken
<1>23. CASE Poll
  BY <1>0, <1>23 DEF Poll, Send, Request
<1>24. CASE Finalize
  <2>1. CASE net.ans.state \in DOMAIN Decision
    <3>1. slot' \in Slots
      <4>1. \/ slot' = [slot EXCEPT !.pc = "finalize"]
            \/ slot' = [slot EXCEPT !.pc = "confirm", !.receipt = journal.ses]
        BY <1>24, <2>1 DEF Finalize
      <4>. HIDE DEF Devices, Slots, TypeOK, Pcs
      <4>. QED
        BY <1>0, <4>1, UpdateTypes
    <3>. QED
      BY <1>24, <2>1, <3>1 DEF Finalize
  <2>2. CASE net.ans.state \notin DOMAIN Decision
    <3>. HIDE DEF Release
    <3>. QED BY <1>24, <2>2, ReleaseType DEF Finalize
  <2>. QED
    BY <2>1, <2>2
<1>25. CASE Confirm
  <2>1. CASE dev.auth = slot.receipt
    <3>1. slot' \in Slots
      BY <1>25, <2>1 DEF Confirm
    <3>2. dev' \in Devices
      BY ZenonT(60), <1>25, <2>1 DEF Confirm
    <3>. QED
      BY <1>25, <2>1, <3>1, <3>2 DEF Confirm
  <2>2. CASE dev.auth # slot.receipt
    <3>. HIDE DEF Release
    <3>. QED BY <1>25, <2>2, ReleaseType DEF Confirm
  <2>. QED
    BY <2>1, <2>2
<1>26. CASE Complete
  BY <1>0, <1>26 DEF Complete
<1>27. CASE Cancel
  <2>1. slot' \in Slots
    BY <1>27 DEF Cancel
  <2>2. left' \in [faults : Nat, cancels : Nat, expired : Nat]
    BY <1>27 DEF Cancel
  <2>. QED
    BY <1>27, <2>1, <2>2 DEF Cancel
<1>28. CASE GivesUp
  BY <1>0, <1>28 DEF GivesUp
<1>29. CASE Crash
  BY <1>0, <1>29 DEF Crash
<1>30. CASE ConfirmUncertain
  <2>1. dev' \in Devices
    BY <1>30 DEF ConfirmUncertain
  <2>2. left' \in [faults : Nat, cancels : Nat, expired : Nat]
    BY <1>30 DEF ConfirmUncertain
  <2>. HIDE DEF Release
  <2>. QED
    BY <1>30, <2>1, <2>2, ReleaseType DEF ConfirmUncertain
<1>31. CASE SaveFails
  BY <1>0, <1>31 DEF SaveFails
<1>32. CASE ServeFails
  BY <1>0, <1>32 DEF ServeFails
<1>33. CASE DeviceRestarts
  <2>1. dev' \in Devices
    <3>. HIDE DEF Devices
    <3>. QED BY <1>33, UpdateTypes DEF DeviceRestarts
  <2>. QED
    BY <1>33, <2>1 DEF DeviceRestarts
<1>34. CASE Resave
  <2>1. journal' \in Journals
    BY RecordType, <1>0, <1>34 DEF Resave, Save, Phases
  <2>. QED
    BY <1>34, <2>1 DEF Resave
<1>35. CASE BeforeRecording
  <2>1. journal' \in Journals
    BY RecordType, <1>0, <1>35 DEF BeforeRecording, Save, Phases
  <2>. QED
    BY <1>35, <2>1 DEF BeforeRecording
<1>36. CASE AcceptRecording
  <2>1. journal' \in Journals
    BY RecordType, <1>0, <1>36 DEF AcceptRecording, Save, Phases
  <2>. QED
    BY <1>36, <2>1 DEF AcceptRecording
<1>37. CASE BeforeSession
  <2>1. journal' \in Journals
    BY RecordType, <1>0, <1>37 DEF BeforeSession, Save, Phases
  <2>. QED
    BY <1>37, <2>1 DEF BeforeSession
<1>38. CASE AcceptSession
  <2>1. journal' \in Journals
    BY RecordType, <1>0, <1>38 DEF AcceptSession, Save, Phases
  <2>. QED
    BY <1>38, <2>1 DEF AcceptSession
<1>39. CASE Rollback
  <2>1. ASSUME journal.rec PROVE journal' \in Journals
    <3>1. journal' = Record(TRUE, 0, "ready", 0, 0, FALSE)
      BY <1>39, <2>1 DEF Rollback, Save
    <3>. QED
      BY <3>1, RecordType DEF Phases
  <2>2. ASSUME ~journal.rec PROVE journal' \in Journals
    BY <1>0, <1>39, <2>2 DEF Rollback
  <2>. HIDE DEF Release
  <2>3. journal' \in Journals
    BY <2>1, <2>2
  <2>. QED
    BY <1>39, <2>3, ReleaseType DEF Rollback
<1>40. CASE SaveRecovery
  <2>1. journal' \in Journals
    BY RecordType, <1>0, <1>40 DEF SaveRecovery, Save, Phases
  <2>. QED
    BY <1>40, <2>1 DEF SaveRecovery
<1>41. CASE AcceptRecovery
  <2>1. journal' \in Journals
    BY RecordType, <1>0, <1>41 DEF AcceptRecovery, Save, Phases
  <2>2. slot' \in Slots
    <3>. HIDE DEF Slots
    <3>. QED BY <1>41, UpdateTypes DEF AcceptRecovery
  <2>. QED
    BY <1>41, <2>1, <2>2 DEF AcceptRecovery
<1>42. CASE Serve
  <2>1. net.req \in Requests /\ cloud' = Effect(net.req) /\ cloud' \in Clouds
    BY <1>42, Executes DEF Serve, Execution
  <2>2. Answer(net.req) \in Answers
    BY AnswerType
  <2>3. net' \in Nets
    BY <1>42, <2>2 DEF Serve
  <2>. QED
    BY <1>42, <2>1, <2>3 DEF Serve
<1>43. CASE ServeStray
  BY <1>43, Executes DEF ServeStray, Execution
<1>44. CASE Publish
  BY <1>44, StateSet DEF Publish, States
<1>45. CASE Expire
  <2>1. cloud' \in Clouds
    BY <1>45, StateSet DEF Expire, States
  <2>2. left' \in [faults : Nat, cancels : Nat, expired : Nat]
    BY <1>45 DEF Expire
  <2>. QED
    BY <1>45, <2>1, <2>2 DEF Expire
<1>46. CASE UNCHANGED vars
  BY <1>46 DEF vars
<1>. QED
  BY <1>1, <1>2, <1>3, <1>4, <1>5, <1>6, <1>7, <1>8, <1>9, <1>10, <1>11, <1>12, <1>13, <1>14, <1>15,
     <1>16, <1>17, <1>18, <1>19, <1>20, <1>21, <1>22, <1>23, <1>24, <1>25, <1>26, <1>27, <1>28,
     <1>29, <1>30, <1>31, <1>32, <1>33, <1>34, <1>35, <1>36, <1>37, <1>38, <1>39, <1>40, <1>41,
     <1>42, <1>43, <1>44, <1>45, <1>46 DEF Next, Host, Service

-----------------------------------------------------------------------------
(* Steps that disturb one part of the invariant only *)

\* The sessions of the service are numbered.
LEMMA SessionsType ==
    ASSUME TypeOK
    PROVE  /\ cloud.sessions \in Seq(Session) /\ Len(cloud.sessions) \in Nat
           /\ DOMAIN cloud.sessions = 1 .. Len(cloud.sessions)
           /\ \A s \in DOMAIN cloud.sessions :
                 cloud.sessions[s].parent \in Nat /\ cloud.sessions[s].nonce \in Nat
           /\ cloud.sessions = <<>> <=> Len(cloud.sessions) = 0
<1>1. cloud.sessions \in Seq(Session)
  BY DEF TypeOK, Clouds
<1>2. /\ Len(cloud.sessions) \in Nat /\ DOMAIN cloud.sessions = 1 .. Len(cloud.sessions)
      /\ \A s \in DOMAIN cloud.sessions : cloud.sessions[s] \in Session
  BY <1>1, LenProperties
<1>3. cloud.sessions = <<>> <=> Len(cloud.sessions) = 0
  BY <1>1, EmptySeq
<1>. QED
  BY <1>1, <1>2, <1>3 DEF Session

\* The lineage is kept while neither the sessions nor the journal's session change.
LEMMA LineageKept ==
    ASSUME IInv, cloud'.sessions = cloud.sessions,
           journal'.ses = journal.ses, journal'.recovery = journal.recovery,
           journal'.phase = journal.phase,
           \A r \in stray' : r \in stray \/ r = net.req,
           net'.req.k = "recover" => net'.req = net.req \/ Recovery(net'.req),
           slot'.pc \in {"waitSession", "waitRecover"} /\ net'.ans.is = "ok" =>
              net' = net /\ slot'.nonce = slot.nonce /\ slot'.pc = slot.pc
    PROVE  Lineage'
<1>. USE DEF IInv, Lineage, Descent
<1>1. ASSUME NEW r PROVE Recovery(r) <=> Recovery(r)'
  BY DEF Recovery, Successors
<1>2. ASSUME NEW s PROVE Named(s) <=> Named(s)'
  BY DEF Named
<1>3. \A r \in stray' : r.k = "recover" => Recovery(r)'
  BY <1>1
<1>4. net'.req.k = "recover" => Recovery(net'.req)
  OBVIOUS
<1>5. (net.req.k = "recover" => Recovery(net.req))'
  BY <1>1, <1>4 DEF Recovery, Successors
<1>6. (slot.pc = "waitSession" /\ net.ans.is = "ok" =>
         net.ans.ses \in DOMAIN cloud.sessions /\ cloud.sessions[net.ans.ses].parent = 0)'
  OBVIOUS
<1>7. (slot.pc = "waitRecover" /\ net.ans.is = "ok" =>
         net.ans.ses \in Successors(journal.ses, slot.nonce))'
  BY DEF Successors
<1>8. (journal.phase # "absent" =>
         \A s \in DOMAIN cloud.sessions :
            /\ cloud.sessions[s].parent <= journal.ses
            /\ cloud.sessions[s].parent = journal.ses /\ journal.ses # 0
                  => journal.recovery # 0 /\ Named(s)
            /\ s <= journal.ses \/ journal.phase = "session_create_unknown" \/ Named(s))'
  BY <1>2
<1>. QED
  BY <1>3, <1>5, <1>6, <1>7, <1>8

\* Before the first session there is no descent to keep.
LEMMA EmptyDescent ==
    ASSUME cloud'.sessions = <<>>, journal'.ses = 0
    PROVE  Descent'
BY DEF Descent

\* The nonce of a recovery is stored: nothing was named by another one.
LEMMA NonceStored ==
    ASSUME Descent, journal.ses # 0, journal.recovery \in {0, journal'.recovery}, journal'.recovery # 0,
           cloud' = cloud, journal'.ses = journal.ses, journal'.phase = journal.phase,
           journal.phase = "ready"
    PROVE  Descent'
BY DEF Descent, Named

\* The end of an operation abandons its request.
LEMMA ReleaseKeeps ==
    ASSUME IInv, TypeOK', Release, cloud' = cloud, journal' = journal, dev'.holds => dev.holds
    PROVE  NetFollows' /\ CreatedOnce' /\ Lineage'
<1>. USE DEF IInv, Release, Abandon, NoSlot, Idle, NoRequest, NoAnswer
<1>1. NetFollows'
  BY DEF NetFollows, Creations, Drained, Polling
<1>2. CreatedOnce'
  <2>1. /\ Asking("recording") => journal.phase = "recording_create_unknown"
        /\ Asking("session") => journal.phase = "session_create_unknown"
    BY DEF Asking, Waiting, NetFollows, JournalFollows, Drained, Creations, Unrecorded, Opening
  <2>2. \A k : Asking(k)' <=> FALSE
    BY DEF Asking, Waiting
  <2>3. \A k : Astray(k)' => Astray(k) \/ Asking(k)
    BY DEF Asking, Astray, Waiting
  <2>4. \A r \in stray' : r \in stray \/ (r = net.req /\ Asking(r.k))
    BY DEF Asking, Waiting
  <2>5. \A k \in {"recording", "session"} : Once(k) => Once(k)'
    BY <2>2, <2>3, <2>4 DEF Once, Exists, Astray
  <2>. QED
    BY <2>1, <2>3, <2>5 DEF CreatedOnce, Never, Exists
<1>3. Lineage'
  BY LineageKept
<1>. QED
  BY <1>1, <1>2, <1>3

\* A request that the service executes: the one that waits or a stray one.
Outstanding(r) == r \in stray \/ (Waiting /\ r = net.req)

\* A creation that is outstanding has not been executed before.
LEMMA OutstandingType ==
    ASSUME IInv, NEW r, Outstanding(r)
    PROVE  /\ r \in Requests
           /\ r.k = "recording" => ~Exists("recording")
           /\ r.k = "session" => ~Exists("session")
           /\ r.k = "recover" => Recovery(r)
BY DEF IInv, TypeOK, Nets, Outstanding, CreatedOnce, Once, Asking, Astray, Lineage

\* It opens a session where the journal expects one.
LEMMA OpensExpected ==
    ASSUME IInv, NEW r, Outstanding(r), Opens(r), journal.phase # "absent"
    PROVE  \/ /\ r.k = "session" /\ journal.phase = "session_create_unknown"
           \/ /\ r.k = "recover" /\ journal.recovery # 0
              /\ r.ses = journal.ses /\ r.nonce = journal.recovery
<1>. USE DEF IInv
<1>1. CASE r.k = "recover"
  BY <1>1, OutstandingType DEF Opens, Recovery
<1>2. CASE r.k = "session"
  <2>1. ~Exists("session") /\ journal.ses = 0
    BY <1>2, OutstandingType, SessionsType DEF Exists, Lineage, Descent, TypeOK, Journals
  <2>2. CASE r \in stray
    BY <1>2, <2>1, <2>2 DEF CreatedOnce, Never, Astray, JournalFollows, TypeOK, Journals, Phases
  <2>3. CASE Waiting /\ r = net.req
    BY <1>2, <2>3 DEF NetFollows, JournalFollows, Drained, Creations, Opening
  <2>. QED
    BY <1>2, <2>2, <2>3 DEF Outstanding
<1>. QED
  BY <1>1, <1>2 DEF Opens

\* An execution keeps the lineage, and with it every recovery.
LEMMA LineageExecuted ==
    ASSUME IInv, TypeOK', NEW r, Outstanding(r), Execution(r, cloud'), journal' = journal
    PROVE  /\ Descent'
           /\ \A x : Recovery(x) => Recovery(x)'
           /\ \A n, m : Successors(n, m) \subseteq Successors(n, m)'
           /\ DOMAIN cloud.sessions \subseteq DOMAIN cloud'.sessions
<1>. USE DEF IInv
<1>. DEFINE q == cloud.sessions
            p == cloud'.sessions
            n == Len(q) + 1
<1>1. /\ Len(q) \in Nat /\ DOMAIN q = 1 .. Len(q)
      /\ \A s \in DOMAIN q : q[s].parent \in Nat /\ q[s].nonce \in Nat
      /\ q = <<>> <=> Len(q) = 0
  BY SessionsType
<1>2. Len(p) \in Nat /\ DOMAIN p = 1 .. Len(p)
  BY LenProperties DEF TypeOK, Clouds
<1>3. \A s \in DOMAIN q : s \in DOMAIN p /\ p[s].parent = q[s].parent /\ p[s].nonce = q[s].nonce
  BY <1>1, <1>2 DEF Execution, SameLineage
<1>4. \A i, m : Successors(i, m) \subseteq Successors(i, m)'
  BY <1>3 DEF Successors
<1>5. \A x : Recovery(x) => Recovery(x)'
  BY <1>3, <1>4 DEF Recovery
<1>6. r \in Requests /\ (r.k = "session" => Len(q) = 0) /\ (r.k = "recover" => Recovery(r))
  BY <1>1, OutstandingType DEF Exists
<1>7. journal.ses \in Nat /\ journal.recovery \in Nat /\ r.ses \in Nat
  BY <1>6 DEF TypeOK, Journals, Requests
<1>8. /\ \A s \in DOMAIN q : q[s].parent < s
      /\ \A s, t \in DOMAIN q : q[s].parent = q[t].parent => s = t
      /\ journal.ses <= Len(q)
      /\ journal.phase # "absent" =>
           \A s \in DOMAIN q :
              /\ q[s].parent <= journal.ses
              /\ q[s].parent = journal.ses /\ journal.ses # 0 => journal.recovery # 0 /\ Named(s)
              /\ s <= journal.ses \/ journal.phase = "session_create_unknown" \/ Named(s)
  BY DEF Lineage, Descent
<1>9. \A s \in DOMAIN q : Named(s) => Named(s)'
  BY <1>3 DEF Named
<1>10. CASE ~Opens(r)
  <2>1. DOMAIN p = DOMAIN q /\ Len(p) = Len(q)
    BY <1>1, <1>2, <1>10 DEF Execution
  <2>. QED
    BY <1>3, <1>4, <1>5, <1>8, <1>9, <2>1 DEF Descent
<1>11. CASE Opens(r)
  <2>1. /\ Len(p) = n /\ DOMAIN p = 1 .. n
        /\ p[n].parent = IF r.k = "session" THEN 0 ELSE r.ses
        /\ p[n].nonce = r.nonce
    BY <1>2, <1>11 DEF Execution
  <2>2. \A s \in DOMAIN p : s \in DOMAIN q \/ s = n
    BY <1>1, <2>1
  <2>3. p[n].parent < n /\ p[n].parent \in Nat
    BY <1>1, <1>6, <1>7, <1>11, <2>1 DEF Opens, Recovery
  <2>4. ASSUME NEW s \in DOMAIN q PROVE q[s].parent # p[n].parent
    <3>1. CASE r.k = "session"
      BY <1>1, <1>6, <3>1
    <3>2. CASE r.k = "recover"
      <4>1. Successors(r.ses, r.nonce) = {} /\ r.ses \in DOMAIN q
        BY <1>6, <1>11, <3>2 DEF Opens, Recovery
      <4>2. r.ses = journal.ses /\ r.nonce = journal.recovery /\ journal.recovery # 0
        BY <1>6, <3>2, <4>1 DEF Recovery
      <4>3. journal.phase # "absent" /\ journal.ses # 0
        BY <4>2 DEF JournalFollows
      <4>4. ~Named(s)
        BY <4>1, <4>2 DEF Named, Successors
      <4>. QED
        BY <1>8, <2>1, <3>2, <4>2, <4>3, <4>4
    <3>. QED
      BY <1>11, <3>1, <3>2 DEF Opens
  <2>5. \A s, t \in DOMAIN p : p[s].parent = p[t].parent => s = t
    BY <1>3, <1>8, <2>2, <2>4
  <2>6. \A s \in DOMAIN p : p[s].parent < s
    BY <1>3, <1>8, <2>2, <2>3
  <2>7. journal'.ses <= Len(p)
    BY <1>1, <1>7, <1>8, <2>1
  <2>8. ASSUME journal.phase # "absent", NEW s \in DOMAIN p
        PROVE  /\ p[s].parent <= journal.ses
               /\ p[s].parent = journal.ses /\ journal.ses # 0 => journal.recovery # 0 /\ Named(s)'
               /\ s <= journal.ses \/ journal.phase = "session_create_unknown" \/ Named(s)'
    <3>1. CASE s \in DOMAIN q
      BY <1>3, <1>8, <1>9, <2>8, <3>1
    <3>2. CASE s = n
      <4>1. CASE r.k = "session" /\ journal.phase = "session_create_unknown"
        BY <1>7, <2>1, <3>2, <4>1
      <4>2. CASE /\ r.k = "recover" /\ journal.recovery # 0
                 /\ r.ses = journal.ses /\ r.nonce = journal.recovery
        BY <1>7, <2>1, <3>2, <4>2 DEF Named
      <4>. QED
        BY <1>11, <2>8, <4>1, <4>2, OpensExpected
    <3>. QED
      BY <2>2, <3>1, <3>2
  <2>. QED
    BY <1>3, <1>4, <1>5, <2>5, <2>6, <2>7, <2>8 DEF Descent
<1>. QED
  BY <1>10, <1>11

-----------------------------------------------------------------------------
(* The steps that change more than one part of the invariant *)

\* Creations: nothing is outstanding anew when only the slot and the journal move.
LEMMA CreationsKept ==
    ASSUME IInv, cloud' = cloud, stray' = stray,
           Waiting' /\ net'.req.k \in {"recording", "session"} => Waiting /\ net'.req = net.req
    PROVE  /\ \A k \in {"recording", "session"} : Once(k)' /\ (Never(k) => Never(k)')
           /\ cloud'.recordings <= 1
BY DEF IInv, CreatedOnce, Once, Never, Asking, Astray, Exists

\* The session that was opened is the journal's first.
LEMMA AcceptSessionKeeps == IInv /\ TypeOK' /\ AcceptSession => IInv'
<1>. SUFFICES ASSUME IInv, TypeOK', AcceptSession PROVE IInv'
  OBVIOUS
<1>. USE DEF IInv
<1>1. /\ journal' = Record(journal.rec, net.ans.ses, "ready", slot.nonce, 0, FALSE)
      /\ net' = Idle /\ slot' = [slot EXCEPT !.pc = "register"]
      /\ cloud' = cloud /\ stray' = stray /\ dev' = dev /\ ckpt' = ckpt
  BY DEF AcceptSession, Save, Goto, outside
<1>2. /\ journal'.phase = "ready" /\ journal'.rec = journal.rec /\ journal'.ses = net.ans.ses
      /\ journal'.recovery = 0 /\ slot'.pc = "register"
  BY <1>1 DEF Record, TypeOK, Slots
<1>3. /\ net.ans.ses \in DOMAIN cloud.sessions /\ cloud.sessions[net.ans.ses].parent = 0
      /\ net.ans.ses \in Nat \ {0} /\ slot.pc = "waitSession"
      /\ net.ans.ses <= Len(cloud.sessions) /\ cloud.sessions # <<>>
  BY SessionsType DEF AcceptSession, Answered, Lineage
<1>4. /\ journal.ses = 0 /\ journal.recovery = 0 /\ journal.rec /\ dev.holds
      /\ journal.phase = "session_create_unknown"
  BY <1>3 DEF JournalFollows, Opening
<1>5. JournalFollows'
  BY <1>1, <1>2, <1>3, <1>4 DEF JournalFollows, Unrecorded, Unopened, Opening, Restoring, Material
<1>6. NetFollows'
  BY <1>1, <1>2 DEF NetFollows, Idle, NoRequest, Creations, Drained, Polling
<1>7. CreatedOnce'
  <2>1. /\ \A k \in {"recording", "session"} : Once(k)' /\ (Never(k) => Never(k)')
        /\ cloud'.recordings <= 1
    BY <1>1, CreationsKept DEF Waiting, Idle
  <2>. QED
    BY <1>2, <1>3, <2>1 DEF CreatedOnce
<1>8. Lineage'
  <2>1. \A s \in DOMAIN cloud.sessions : s = net.ans.ses
    BY <1>3, <1>4, SessionsType DEF Lineage, Descent
  <2>2. \A r \in stray : r.k = "recover" => Recovery(r)'
    BY <1>1, <1>4 DEF Lineage, Recovery, Successors
  <2>3. Descent'
    <3>1. \A s \in DOMAIN cloud.sessions : cloud.sessions[s].parent = 0
      BY <1>3, <2>1
    <3>2. \A s \in DOMAIN cloud.sessions : cloud.sessions[s].parent < s
      BY DEF Lineage, Descent
    <3>3. /\ \A s, t \in DOMAIN cloud.sessions : s = t
          /\ \A s \in DOMAIN cloud.sessions : /\ cloud.sessions[s].parent <= net.ans.ses
                                              /\ cloud.sessions[s].parent # net.ans.ses
                                              /\ s <= net.ans.ses
      BY <1>3, <2>1, <3>1
    <3>. QED
      BY <1>1, <1>2, <1>3, <3>2, <3>3 DEF Descent
  <2>. QED
    BY <1>1, <1>2, <2>2, <2>3 DEF Lineage, Idle, NoRequest
<1>9. Backed'
  BY <1>1, <1>2, <1>3, <1>4 DEF Backed, LocalWifiRecovery
<1>. QED
  BY <1>5, <1>6, <1>7, <1>8, <1>9

\* A rejected creation was not executed, and is taken back.
LEMMA RollbackKeeps == IInv /\ TypeOK' /\ Rollback => IInv'
<1>. SUFFICES ASSUME IInv, TypeOK', Rollback PROVE IInv'
  OBVIOUS
<1>. USE DEF IInv
<1>1. /\ cloud' = cloud /\ dev' = dev /\ ckpt' = ckpt /\ slot' = NoSlot /\ net' = Idle /\ stray' = stray
      /\ slot.pc \in {"waitRecording", "waitSession"} /\ net.ans.is = "rejected"
  BY DEF Rollback, Release, Abandon, outside, NoAnswer
<1>2. dev.holds /\ journal.ses = 0 /\ journal.recovery = 0
  BY <1>1 DEF JournalFollows, Unrecorded, Opening
<1>3. cloud.sessions = <<>> /\ DOMAIN cloud.sessions = {} /\ Never("session")
  BY <1>1, SessionsType DEF JournalFollows, CreatedOnce, Never, Exists, Unrecorded
<1>4. /\ journal'.ses = 0 /\ journal'.recovery = 0
      /\ \/ journal'.phase = "ready" /\ journal'.rec
         \/ journal'.phase = "absent" /\ ~journal'.rec /\ Never("recording")
  <2>1. CASE journal.rec
    BY <2>1 DEF Rollback, Save, Record
  <2>2. CASE ~journal.rec
    BY <1>1, <2>2 DEF Rollback, NoJournal, JournalFollows, Opening, CreatedOnce
  <2>. QED
    BY <2>1, <2>2
<1>5. JournalFollows'
  BY <1>1, <1>2, <1>4 DEF JournalFollows, NoSlot, Unrecorded, Unopened, Opening, Restoring, Material
<1>6. NetFollows'
  BY <1>1 DEF NetFollows, Idle, NoRequest, NoSlot, Creations, Drained, Polling
<1>7. CreatedOnce'
  <2>1. /\ \A k \in {"recording", "session"} : Once(k)' /\ (Never(k) => Never(k)')
        /\ cloud'.recordings <= 1
    BY <1>1, CreationsKept DEF Waiting, Idle
  <2>. QED
    BY <1>1, <1>3, <1>4, <2>1 DEF CreatedOnce, NoSlot
<1>8. Lineage'
  BY <1>1, <1>3, <1>4, SessionsType DEF Lineage, Descent, Recovery, Idle, NoRequest, NoSlot
<1>9. Backed'
  BY <1>1, <1>2, <1>4 DEF Backed, LocalWifiRecovery
<1>. QED
  BY <1>5, <1>6, <1>7, <1>8, <1>9

\* The successor takes the place of its parent.
LEMMA AcceptRecoveryKeeps == IInv /\ TypeOK' /\ AcceptRecovery => IInv'
<1>. SUFFICES ASSUME IInv, TypeOK', AcceptRecovery PROVE IInv'
  OBVIOUS
<1>. USE DEF IInv
<1>1. /\ journal' = Record(journal.rec, net.ans.ses, "ready", slot.nonce, 0, TRUE)
      /\ net' = Idle /\ slot' = [slot EXCEPT !.pc = "get", !.hop = @ + 1]
      /\ cloud' = cloud /\ stray' = stray /\ dev' = dev /\ ckpt' = ckpt
  BY DEF AcceptRecovery, Save, outside
<1>2. /\ journal'.phase = "ready" /\ journal'.rec = journal.rec /\ journal'.ses = net.ans.ses
      /\ journal'.recovery = 0 /\ slot'.pc = "get"
      /\ journal'.parents = IF LocalWifi THEN journal.parents \cup {journal.ses} ELSE journal.parents
  BY <1>1 DEF Record, TypeOK, Slots
<1>3. slot.pc = "waitRecover" /\ net.ans.is = "ok" /\ net.ans.ses > journal.ses
  BY DEF AcceptRecovery, Answered, Later
<1>4. /\ journal.phase = "ready" /\ journal.ses # 0 /\ journal.recovery # 0 /\ dev.holds
      /\ slot.nonce = journal.recovery /\ journal.rec
  BY <1>3 DEF JournalFollows, Restoring
<1>5. /\ net.ans.ses \in DOMAIN cloud.sessions /\ net.ans.ses \in Nat \ {0}
      /\ net.ans.ses <= Len(cloud.sessions) /\ cloud.sessions # <<>>
      /\ cloud.sessions[net.ans.ses].parent = journal.ses
      /\ net.ans.ses \in Successors(journal.ses, journal.recovery)
      /\ journal.ses \in Nat
  <2>1. net.ans.ses \in Successors(journal.ses, journal.recovery)
    BY <1>3, <1>4 DEF Lineage
  <2>2. net.ans.ses \in DOMAIN cloud.sessions /\ cloud.sessions[net.ans.ses].parent = journal.ses
    BY <2>1 DEF Successors
  <2>3. journal.ses \in Nat
    BY DEF TypeOK, Journals
  <2>. QED
    BY <2>1, <2>2, <2>3, SessionsType
<1>6. JournalFollows'
  BY <1>1, <1>2, <1>4, <1>5 DEF JournalFollows, Unrecorded, Unopened, Opening, Restoring, Material
<1>7. NetFollows'
  BY <1>1, <1>2 DEF NetFollows, Idle, NoRequest, Creations, Drained, Polling
<1>8. CreatedOnce'
  <2>1. /\ \A k \in {"recording", "session"} : Once(k)' /\ (Never(k) => Never(k)')
        /\ cloud'.recordings <= 1
    BY <1>1, CreationsKept DEF Waiting, Idle
  <2>. QED
    BY <1>2, <1>5, <2>1 DEF CreatedOnce
<1>9. Lineage'
  <2>1. \A s \in DOMAIN cloud.sessions :
           cloud.sessions[s].parent <= journal.ses /\ (s <= journal.ses \/ s = net.ans.ses)
    BY <1>4, <1>5, SessionsType DEF Lineage, Descent, Named
  <2>2. \A s \in DOMAIN cloud.sessions : s <= net.ans.ses /\ cloud.sessions[s].parent < net.ans.ses
    BY <1>3, <1>5, <2>1, SessionsType
  <2>3. \A r \in stray : r.k = "recover" => Recovery(r)'
    <3>1. Successors(journal.ses, journal.recovery) # {}
      BY <1>5
    <3>2. \A r \in stray : r.k = "recover" =>
             r.ses \in DOMAIN cloud.sessions /\ Successors(r.ses, r.nonce) # {}
      BY <3>1 DEF Lineage, Recovery
    <3>. QED
      BY <1>1, <3>2 DEF Recovery, Successors
  <2>4. Descent'
    <3>1. /\ \A s \in DOMAIN cloud.sessions : cloud.sessions[s].parent < s
          /\ \A s, t \in DOMAIN cloud.sessions :
                cloud.sessions[s].parent = cloud.sessions[t].parent => s = t
      BY DEF Lineage, Descent
    <3>2. \A s \in DOMAIN cloud.sessions : /\ cloud.sessions[s].parent <= net.ans.ses
                                           /\ cloud.sessions[s].parent # net.ans.ses
      BY <1>5, <2>2, SessionsType
    <3>. QED
      BY <1>1, <1>2, <1>5, <2>2, <3>1, <3>2 DEF Descent
  <2>. QED
    BY <1>1, <1>2, <2>3, <2>4 DEF Lineage, Idle, NoRequest
<1>10. Backed'
  BY <1>1, <1>2, <1>4, <1>5 DEF Backed, LocalWifiRecovery
<1>. QED
  BY <1>6, <1>7, <1>8, <1>9, <1>10

\* A manifest is offered, or the session is asked for at once.
LEMMA SubmitManifestKeeps == IInv /\ TypeOK' /\ SubmitManifest => IInv'
<1>. SUFFICES ASSUME IInv, TypeOK', SubmitManifest PROVE IInv'
  OBVIOUS
<1>. USE DEF IInv
<1>1. /\ slot.pc = "submit"
      /\ cloud' = cloud /\ dev' = dev /\ ckpt' = ckpt /\ journal' = journal /\ stray' = stray
      /\ \/ slot'.pc = "waitManifest" /\ net' = [Idle EXCEPT !.req = Request("manifest")]
         \/ slot'.pc = "finalize" /\ net' = net
  BY DEF SubmitManifest, Send, Goto, outside, TypeOK, Slots
<1>2. /\ net'.req.k \notin Creations /\ (net'.req = NoRequest => net'.ans = NoAnswer)
      /\ slot'.pc = "waitManifest" \/ net' = Idle
  BY <1>1 DEF NetFollows, Drained, Polling, Creations, Request, Idle, NoRequest
<1>3. JournalFollows'
  BY <1>1 DEF JournalFollows, Unrecorded, Unopened, Opening, Restoring, Material
<1>4. NetFollows'
  BY <1>1, <1>2 DEF NetFollows, Drained, Polling
<1>5. CreatedOnce'
  <2>1. /\ \A k \in {"recording", "session"} : Once(k)' /\ (Never(k) => Never(k)')
        /\ cloud'.recordings <= 1
    BY <1>1, <1>2, CreationsKept DEF Creations
  <2>. QED
    BY <1>1, <2>1 DEF CreatedOnce
<1>6. Lineage'
  BY <1>1, <1>2, LineageKept DEF Creations
<1>7. Backed'
  BY <1>1 DEF Backed, LocalWifiRecovery
<1>. QED
  BY <1>3, <1>4, <1>5, <1>6, <1>7

\* A step of the material: the journal, the service and what is outstanding stay.
LEMMA MaterialKeeps ==
    ASSUME IInv, TypeOK', slot'.pc \in Material \cup {"delivered"}, slot'.pc = "delivered" <=> ~dev'.holds,
           slot.pc \in Material, dev'.holds => ckpt' \in {ckpt, journal.ses},
           slot'.pc \notin Polling,
           cloud' = cloud, journal' = journal, stray' = stray, net' = Idle
    PROVE  IInv'
<1>. USE DEF IInv
<1>1. /\ journal.phase = "ready" /\ journal.ses # 0 /\ journal.recovery = 0 /\ journal.rec /\ dev.holds
  BY DEF JournalFollows, Material, Restoring
<1>2. JournalFollows'
  BY <1>1 DEF JournalFollows, Unrecorded, Unopened, Opening, Restoring, Material
<1>3. NetFollows'
  BY DEF NetFollows, Idle, NoRequest, Creations, Drained, Polling, Material
<1>4. CreatedOnce'
  <2>1. /\ \A k \in {"recording", "session"} : Once(k)' /\ (Never(k) => Never(k)')
        /\ cloud'.recordings <= 1
    BY CreationsKept DEF Waiting, Idle
  <2>. QED
    BY <1>1, <2>1 DEF CreatedOnce, Material
<1>5. Lineage'
  BY LineageKept DEF Idle, NoRequest, Material
<1>6. Backed'
  BY <1>1 DEF Backed, LocalWifiRecovery
<1>. QED
  BY <1>2, <1>3, <1>4, <1>5, <1>6

\* The end of an operation whose journal stays.
LEMMA ReleaseKeepsAll ==
    ASSUME IInv, TypeOK', Release, cloud' = cloud, journal' = journal, dev'.holds = dev.holds, ckpt' = ckpt
    PROVE  IInv'
<1>. USE DEF IInv
<1>1. NetFollows' /\ CreatedOnce' /\ Lineage'
  BY ReleaseKeeps
<1>2. JournalFollows'
  BY DEF JournalFollows, Release, NoSlot, Unrecorded, Unopened, Opening, Restoring, Material
<1>3. Backed'
  BY DEF Backed, LocalWifiRecovery
<1>. QED
  BY <1>1, <1>2, <1>3

\* The transfer, the poll and CONFIRM: the material is kept or the operation ends.
LEMMA TransferKeeps == IInv /\ TypeOK' /\ Transfer => IInv'
<1>. SUFFICES ASSUME IInv, TypeOK', Transfer PROVE IInv'
  OBVIOUS
<1>1. /\ slot.pc = "ready" /\ cloud' = cloud /\ journal' = journal /\ net = Idle
  BY DEF Transfer, IInv, NetFollows, Drained, Polling
<1>2. CASE LocalWifiRecovery /\ Admits(journal.ses)
  <2>1. /\ slot' = [slot EXCEPT !.pc = "reconcile"] /\ ckpt' = journal.ses
        /\ dev' = [dev EXCEPT !.auth = journal.ses, !.known = journal.ses]
        /\ net' = net /\ stray' = stray
    BY <1>2 DEF Transfer, Goto
  <2>2. slot'.pc = "reconcile" /\ dev'.holds
    BY <1>1, <2>1 DEF IInv, TypeOK, Slots, Devices, JournalFollows, Material
  <2>. QED
    BY <1>1, <2>1, <2>2, MaterialKeeps DEF Material, Polling
<1>3. CASE ~(LocalWifiRecovery /\ Admits(journal.ses))
  BY <1>1, <1>3, ReleaseKeepsAll DEF Transfer
<1>. QED
  BY <1>2, <1>3

LEMMA FinalizeKeeps == IInv /\ TypeOK' /\ Finalize => IInv'
<1>. SUFFICES ASSUME IInv, TypeOK', Finalize PROVE IInv'
  OBVIOUS
<1>1. /\ slot.pc = "waitStatus" /\ cloud' = cloud /\ journal' = journal /\ dev' = dev /\ ckpt' = ckpt
      /\ dev.holds
  BY DEF Finalize, Answered, outside, IInv, JournalFollows, Material
<1>2. CASE net.ans.state \in DOMAIN Decision
  <2>1. net' = Idle /\ stray' = stray
    BY <1>2 DEF Finalize
  <2>2. slot'.pc \in {"finalize", "confirm"}
    BY <1>2 DEF Finalize, IInv, TypeOK, Slots
  <2>. QED
    BY <1>1, <2>1, <2>2, MaterialKeeps DEF Material, Polling
<1>3. CASE net.ans.state \notin DOMAIN Decision
  BY <1>1, <1>3, ReleaseKeepsAll DEF Finalize
<1>. QED
  BY <1>2, <1>3

LEMMA ConfirmKeeps == IInv /\ TypeOK' /\ Confirm => IInv'
<1>. SUFFICES ASSUME IInv, TypeOK', Confirm PROVE IInv'
  OBVIOUS
<1>1. slot.pc = "confirm" /\ cloud' = cloud /\ journal' = journal /\ net = Idle
  BY DEF Confirm, IInv, NetFollows, Drained, Polling
<1>2. CASE dev.auth = slot.receipt
  <2>1. net' = net /\ stray' = stray /\ ~dev'.holds /\ slot'.pc = "delivered"
    BY <1>2 DEF Confirm, Goto, IInv, TypeOK, Devices, Slots
  <2>. QED
    BY <1>1, <2>1, MaterialKeeps DEF Material, Polling
<1>3. CASE dev.auth # slot.receipt
  BY <1>1, <1>3, ReleaseKeepsAll DEF Confirm
<1>. QED
  BY <1>2, <1>3

\* A save fails: what it may have written belongs to the operation all the same.
LEMMA SaveFailsKeeps == IInv /\ TypeOK' /\ SaveFails => IInv'
<1>. SUFFICES ASSUME IInv, TypeOK', SaveFails PROVE IInv'
  OBVIOUS
<1>. USE DEF IInv
<1>1. Release /\ cloud' = cloud /\ dev' = dev /\ ckpt' = ckpt
  BY DEF SaveFails
<1>2. CASE journal' = journal
  BY <1>1, <1>2, ReleaseKeepsAll
<1>3. ASSUME net = Idle, journal'.ses = journal.ses \/ ~dev.holds, JournalFollows', Backed', Lineage',
             journal'.phase = journal.phase \/ ~dev.holds
      PROVE  IInv'
  <2>1. slot' = NoSlot /\ net' = Idle /\ stray' = stray
    BY <1>1, <1>3 DEF Release, Abandon, Idle
  <2>2. NetFollows'
    BY <2>1 DEF NetFollows, Idle, NoRequest, NoSlot, Creations, Drained, Polling
  <2>3. /\ \A k \in {"recording", "session"} : Once(k)' /\ (Never(k) => Never(k)')
        /\ cloud'.recordings <= 1
    BY <1>1, <2>1, CreationsKept DEF Waiting, Idle
  <2>4. CreatedOnce'
    BY <1>1, <1>3, <2>1, <2>3 DEF CreatedOnce, NoSlot
  <2>. QED
    BY <1>3, <2>2, <2>4
<1>4. CASE slot.pc = "saveRecovery" /\ journal' = [journal EXCEPT !.recovery = slot.nonce]
  <2>1. /\ journal.phase = "ready" /\ journal.ses # 0 /\ dev.holds /\ journal.rec /\ net = Idle
        /\ slot.nonce # 0 /\ journal.recovery \in {0, slot.nonce}
    BY <1>4 DEF JournalFollows, NetFollows, Restoring, Drained, Polling
  <2>2. /\ journal'.phase = "ready" /\ journal'.ses = journal.ses /\ journal'.rec = journal.rec
        /\ journal'.recovery = slot.nonce /\ journal'.parents = journal.parents
    BY <1>4, <2>1 DEF TypeOK, Journals
  <2>3. slot' = NoSlot /\ net' = Idle /\ stray' = stray
    BY <1>1, <2>1 DEF Release, Abandon, Idle
  <2>4. JournalFollows'
    BY <1>1, <2>1, <2>2, <2>3 DEF JournalFollows, NoSlot, Unrecorded, Unopened, Opening, Restoring, Material
  <2>5. Backed'
    BY <1>1, <2>2 DEF Backed, LocalWifiRecovery
  <2>6. Lineage'
    <3>1. Descent'
      BY <1>1, <2>1, <2>2 DEF Lineage, Descent, Named
    <3>2. \A r : Recovery(r) => Recovery(r)'
      BY <1>1, <2>1, <2>2 DEF Recovery, Successors
    <3>. QED
      BY <2>3, <3>1, <3>2 DEF Lineage, Idle, NoRequest, NoSlot
  <2>. QED
    BY <1>3, <2>1, <2>2, <2>4, <2>5, <2>6
<1>5. CASE slot.pc = "delivered" /\ journal' = NoJournal
  <2>1. ~dev.holds /\ journal.recovery = 0 /\ net = Idle
    BY <1>5 DEF JournalFollows, NetFollows, Drained, Polling
  <2>2. slot' = NoSlot /\ net' = Idle /\ stray' = stray
    BY <1>1, <2>1 DEF Release, Abandon, Idle
  <2>3. JournalFollows'
    BY <1>1, <1>5, <2>1, <2>2 DEF JournalFollows, NoJournal, NoSlot, Unrecorded, Unopened, Opening, Restoring, Material
  <2>4. Backed'
    BY <1>1, <2>1 DEF Backed
  <2>5. Lineage'
    <3>1. Descent'
      BY <1>1, <1>5, SessionsType DEF Lineage, Descent, NoJournal
    <3>2. \A r : Recovery(r) => Recovery(r)'
      BY <1>1, <2>1 DEF Recovery, Successors
    <3>. QED
      BY <2>2, <3>1, <3>2 DEF Lineage, Idle, NoRequest, NoSlot
  <2>. QED
    BY <1>3, <2>1, <2>3, <2>4, <2>5
<1>. QED
  BY <1>2, <1>4, <1>5 DEF SaveFails

\* An answer is lost, the request executed or still to be, or the credentials are rejected.
LEMMA ServeFailsKeeps == IInv /\ TypeOK' /\ ServeFails => IInv'
<1>. SUFFICES ASSUME IInv, TypeOK', ServeFails PROVE IInv'
  OBVIOUS
<1>. USE DEF IInv
<1>1. /\ cloud' = cloud /\ dev' = dev /\ ckpt' = ckpt /\ journal' = journal /\ slot' = slot /\ Waiting
      /\ net'.req = net.req /\ net'.ans.is \in {"lost", "rejected"}
      /\ \/ stray' = stray \cup {net.req} /\ net'.ans.is = "lost"
         \/ stray' = stray
  BY DEF ServeFails, TypeOK, Nets, Requests, Answers
<1>2. JournalFollows' /\ Backed'
  BY <1>1 DEF JournalFollows, Backed, LocalWifiRecovery
<1>3. NetFollows'
  BY <1>1 DEF NetFollows, Waiting, Idle
<1>4. CreatedOnce'
  <2>1. \A k : ~Asking(k)' /\ (Astray(k)' => Astray(k) \/ (Asking(k) /\ net'.ans.is = "lost"))
    BY <1>1 DEF Asking, Astray, Waiting, NoAnswer
  <2>2. \A k \in {"recording", "session"} : Once(k)'
    BY <1>1, <2>1 DEF CreatedOnce, Once, Exists, Asking, Astray
  <2>3. /\ Asking("recording") => slot.pc = "waitRecording" /\ journal.phase = "recording_create_unknown"
        /\ Asking("session") => slot.pc = "waitSession" /\ journal.phase = "session_create_unknown"
    BY DEF Asking, NetFollows, JournalFollows, Drained, Creations, Unrecorded, Opening
  <2>4. /\ net'.ans.is = "rejected" /\ slot.pc = "waitRecording" => Never("recording")
        /\ net'.ans.is = "rejected" /\ slot.pc = "waitSession" => Never("session")
    BY <1>1 DEF NetFollows, CreatedOnce, Once, Never, Asking
  <2>5. \A k : Never(k) /\ (Asking(k) => net'.ans.is # "lost") => Never(k)'
    BY <1>1, <2>1 DEF Never, Exists
  <2>. QED
    BY <1>1, <2>2, <2>3, <2>4, <2>5 DEF CreatedOnce
<1>5. Lineage'
  BY <1>1, LineageKept
<1>. QED
  BY <1>2, <1>3, <1>4, <1>5

\* A session changes its state.
LEMMA StateKeeps ==
    ASSUME IInv, TypeOK', SameLineage(cloud'), Len(cloud'.sessions) = Len(cloud.sessions),
           cloud'.recordings = cloud.recordings, journal' = journal, slot' = slot, net' = net,
           stray' = stray, dev' = dev, ckpt' = ckpt
    PROVE  IInv'
<1>. USE DEF IInv
<1>1. JournalFollows' /\ NetFollows' /\ Backed'
  BY DEF JournalFollows, NetFollows, Backed, LocalWifiRecovery
<1>2. DOMAIN cloud'.sessions = DOMAIN cloud.sessions
      /\ (cloud'.sessions = <<>> <=> cloud.sessions = <<>>)
  <2>1. DOMAIN cloud'.sessions = 1 .. Len(cloud'.sessions) /\ cloud'.sessions \in Seq(Session)
    BY LenProperties DEF TypeOK, Clouds
  <2>2. cloud'.sessions = <<>> <=> Len(cloud'.sessions) = 0
    BY <2>1, EmptySeq
  <2>. QED
    BY <2>1, <2>2, SessionsType
<1>3. CreatedOnce'
  BY <1>2 DEF CreatedOnce, Once, Never, Exists, Asking, Astray, Waiting
<1>4. Lineage'
  <2>1. \A n, m : Successors(n, m)' = Successors(n, m)
    BY <1>2 DEF Successors, SameLineage
  <2>2. Descent'
    BY <1>2 DEF Lineage, Descent, Named, SameLineage
  <2>3. \A r : Recovery(r)' <=> Recovery(r)
    BY <1>2, <2>1 DEF Recovery
  <2>. QED
    BY <1>2, <2>1, <2>2, <2>3 DEF Lineage, SameLineage
<1>. QED
  BY <1>1, <1>3, <1>4

LEMMA PublishKeeps == IInv /\ TypeOK' /\ Publish => IInv'
<1>. SUFFICES ASSUME IInv, TypeOK', Publish PROVE IInv'
  OBVIOUS
<1>1. /\ cloud'.recordings = cloud.recordings
      /\ Len(cloud'.sessions) = Len(cloud.sessions) /\ SameLineage(cloud')
  BY StateSet DEF Publish, States, IInv
<1>. QED
  BY <1>1, StateKeeps DEF Publish

LEMMA ExpireKeeps == IInv /\ TypeOK' /\ Expire => IInv'
<1>. SUFFICES ASSUME IInv, TypeOK', Expire PROVE IInv'
  OBVIOUS
<1>1. /\ cloud'.recordings = cloud.recordings
      /\ Len(cloud'.sessions) = Len(cloud.sessions) /\ SameLineage(cloud')
  BY StateSet DEF Expire, States, IInv
<1>. QED
  BY <1>1, StateKeeps DEF Expire

\* What was created is created once: the request that was executed is gone.
LEMMA ExecutionCreates ==
    ASSUME IInv, TypeOK', NEW r, Outstanding(r), Execution(r, cloud'), journal' = journal, slot' = slot,
           dev' = dev,
           \/ r \in stray /\ stray' = stray \ {r} /\ net' = net
           \/ Waiting /\ r = net.req /\ stray' = stray /\ net'.req = net.req
              /\ net'.ans.is \in {"ok", "missing", "refused"}
    PROVE  CreatedOnce'
<1>. USE DEF IInv
<1>1. /\ r \in Requests /\ (r.k = "recover" => Exists("session"))
      /\ (r.k = "recording" => ~Exists("recording")) /\ (r.k = "session" => ~Exists("session"))
  BY OutstandingType DEF Recovery, Exists
<1>2. cloud.recordings \in Nat /\ Len(cloud.sessions) \in Nat
  BY SessionsType DEF TypeOK, Clouds
<1>3. /\ Exists("recording")' <=> Exists("recording") \/ r.k = "recording"
      /\ cloud'.recordings <= 1
  BY <1>1, <1>2 DEF Exists, Execution, CreatedOnce
<1>4. Exists("session")' <=> Exists("session") \/ r.k = "session"
  <2>1. cloud'.sessions = <<>> <=> Len(cloud'.sessions) = 0
    BY EmptySeq DEF TypeOK, Clouds
  <2>. QED
    BY <1>1, <1>2, <2>1, SessionsType DEF Exists, Execution, Opens
<1>5. \A k : /\ Asking(k)' => Asking(k) /\ r \in stray
             /\ Astray(k)' => Astray(k)
  BY DEF Asking, Astray, Waiting, NoAnswer
<1>6. \A k \in {"recording", "session"} : r.k = k => Asking(k) \/ Astray(k)
  BY DEF Outstanding, Asking, Astray
<1>7. \A k \in {"recording", "session"} : Once(k)'
  <2>1. ASSUME NEW k \in {"recording", "session"}, r.k = k PROVE ~Asking(k)' /\ ~Astray(k)'
    BY <1>5, <2>1 DEF CreatedOnce, Once, Asking, Astray, Waiting, NoAnswer
  <2>. QED
    BY <1>3, <1>4, <1>5, <2>1 DEF CreatedOnce, Once, Astray
<1>8. \A k \in {"recording", "session"} : Never(k) => Never(k)' \/ (Asking(k) /\ r.k = k /\ r = net.req)
  BY <1>3, <1>4, <1>5, <1>6 DEF Never, Astray, Outstanding, Asking
<1>9. /\ Asking("recording") => slot.pc = "waitRecording" /\ journal.phase = "recording_create_unknown"
      /\ Asking("session") => slot.pc = "waitSession" /\ journal.phase = "session_create_unknown"
  BY DEF Asking, NetFollows, JournalFollows, Drained, Creations, Unrecorded, Opening
<1>10. \A k \in {"recording", "session"} :
          Never(k) /\ (net'.ans.is = "rejected" \/ ~Asking(k)) => Never(k)'
  BY <1>8 DEF Asking, Waiting, NoAnswer
<1>11. /\ slot.pc = "sendRecording" => Never("recording")'
       /\ slot.pc = "waitRecording" /\ net'.ans.is = "rejected" => Never("recording")'
       /\ slot.pc = "sendSession" => Never("session")'
       /\ slot.pc = "waitSession" /\ net'.ans.is = "rejected" => Never("session")'
  <2>1. net'.ans.is = "rejected" => net' = net
    OBVIOUS
  <2>. QED
    BY <1>9, <1>10, <2>1 DEF CreatedOnce
<1>12. /\ journal.phase = "absent" /\ dev.holds => Never("recording")'
       /\ journal.phase \in {"absent", "recording_create_unknown"} /\ dev.holds => Never("session")'
       /\ journal.phase = "ready" /\ journal.ses = 0 /\ dev.holds => Never("session")'
  BY <1>9, <1>10 DEF CreatedOnce
<1>. QED
  BY <1>3, <1>7, <1>11, <1>12 DEF CreatedOnce

\* The request that waits is executed, its answer names what was created.
LEMMA ServeKeeps == IInv /\ TypeOK' /\ Serve => IInv'
<1>. SUFFICES ASSUME IInv, TypeOK', Serve PROVE IInv'
  OBVIOUS
<1>. USE DEF IInv
<1>. DEFINE r == net.req
<1>1. /\ Waiting /\ Outstanding(r) /\ cloud' = Effect(r) /\ net' = [net EXCEPT !.ans = Answer(r)]
      /\ journal' = journal /\ ckpt' = ckpt /\ slot' = slot /\ stray' = stray /\ dev' = dev
      /\ net'.req = r /\ net'.ans = Answer(r) /\ r # NoRequest
  BY DEF Serve, Outstanding, Waiting, TypeOK, Nets
<1>2. r \in Requests /\ Execution(r, cloud')
  BY <1>1, OutstandingType, Executes
<1>3. Answer(r).is \in {"ok", "missing", "refused"}
  BY DEF Answer, NoAnswer
<1>4. JournalFollows' /\ NetFollows' /\ Backed'
  BY <1>1 DEF JournalFollows, NetFollows, Backed, LocalWifiRecovery, Waiting, Idle
<1>. HIDE DEF r
<1>5. CreatedOnce'
  BY <1>1, <1>2, <1>3, ExecutionCreates DEF r
<1>6. /\ Descent' /\ (\A x : Recovery(x) => Recovery(x)')
      /\ \A n, m : Successors(n, m) \subseteq Successors(n, m)'
      /\ DOMAIN cloud.sessions \subseteq DOMAIN cloud'.sessions
  BY <1>1, <1>2, LineageExecuted
<1>7. Opens(r) => LET n == Len(cloud.sessions) + 1 IN
         /\ n \in DOMAIN cloud'.sessions /\ Answer(r).ses = n
         /\ cloud'.sessions[n].parent = IF r.k = "session" THEN 0 ELSE r.ses
         /\ cloud'.sessions[n].nonce = r.nonce
  <2>1. DOMAIN cloud'.sessions = 1 .. Len(cloud'.sessions) /\ Len(cloud.sessions) \in Nat
    BY SessionsType, LenProperties DEF TypeOK, Clouds
  <2>2. Opens(r) => Answer(r).ses = Len(cloud.sessions) + 1
    BY DEF Answer, Opens
  <2>. QED
    BY <1>2, <2>1, <2>2 DEF Execution
<1>8. slot.pc = "waitSession" =>
         Answer(r).ses \in DOMAIN cloud'.sessions /\ cloud'.sessions[Answer(r).ses].parent = 0
  BY <1>7 DEF NetFollows, Opens, r
<1>9. slot.pc = "waitRecover" => Answer(r).ses \in Successors(journal.ses, slot.nonce)'
  <2>1. SUFFICES ASSUME r = [k |-> "recover", ses |-> journal.ses, nonce |-> slot.nonce]
                 PROVE  Answer(r).ses \in Successors(journal.ses, slot.nonce)'
    BY DEF NetFollows, r
  <2>2. CASE Opens(r)
    BY <1>1, <1>7, <2>1, <2>2 DEF Successors
  <2>3. CASE ~Opens(r)
    <3>1. Answer(r).ses = CHOOSE s \in Successors(r.ses, r.nonce) : TRUE
      BY <2>1, <2>3 DEF Answer
    <3>2. Successors(r.ses, r.nonce) # {}
      BY <2>1, <2>3 DEF Opens
    <3>. QED
      BY <1>1, <1>6, <2>1, <3>1, <3>2
  <2>. QED
    BY <2>2, <2>3
<1>10. Lineage'
  BY <1>1, <1>6, <1>8, <1>9 DEF Lineage, r
<1>. QED
  BY <1>4, <1>5, <1>10

\* A request whose caller is gone is executed.
LEMMA ServeStrayKeeps == IInv /\ TypeOK' /\ ServeStray => IInv'
<1>. SUFFICES ASSUME IInv, TypeOK', ServeStray PROVE IInv'
  OBVIOUS
<1>. USE DEF IInv
<1>1. PICK r \in stray : stray' = stray \ {r} /\ cloud' = Effect(r)
  BY DEF ServeStray
<1>2. journal' = journal /\ ckpt' = ckpt /\ slot' = slot /\ net' = net /\ dev' = dev /\ Outstanding(r)
  BY DEF ServeStray, Outstanding
<1>3. r \in Requests /\ Execution(r, cloud')
  BY <1>1, <1>2, OutstandingType, Executes
<1>4. JournalFollows' /\ NetFollows' /\ Backed'
  BY <1>2 DEF JournalFollows, NetFollows, Backed, LocalWifiRecovery
<1>5. CreatedOnce'
  BY <1>1, <1>2, <1>3, ExecutionCreates
<1>6. /\ Descent' /\ (\A x : Recovery(x) => Recovery(x)')
      /\ \A n, m : Successors(n, m) \subseteq Successors(n, m)'
      /\ DOMAIN cloud.sessions \subseteq DOMAIN cloud'.sessions
  BY <1>2, <1>3, LineageExecuted
<1>7. SameLineage(cloud')
  BY <1>3 DEF Execution
<1>8. Lineage'
  BY <1>1, <1>2, <1>6, <1>7 DEF Lineage, SameLineage
<1>. QED
  BY <1>4, <1>5, <1>8

-----------------------------------------------------------------------------
\* The invariant is inductive.
LEMMA Keeps == IInv /\ [Next]_vars => IInv'
<1>. SUFFICES ASSUME IInv, [Next]_vars PROVE IInv'
  OBVIOUS
<1>0. IInv /\ TypeOK /\ TypeOK'
  BY TypeNext DEF IInv
<1>1. CASE AcceptSession
  BY <1>0, <1>1, AcceptSessionKeeps
<1>2. CASE Rollback
  BY <1>0, <1>2, RollbackKeeps
<1>3. CASE AcceptRecovery
  BY <1>0, <1>3, AcceptRecoveryKeeps
<1>4. CASE SubmitManifest
  BY <1>0, <1>4, SubmitManifestKeeps
<1>5. CASE Transfer
  BY <1>0, <1>5, TransferKeeps
<1>6. CASE Finalize
  BY <1>0, <1>6, FinalizeKeeps
<1>7. CASE Confirm
  BY <1>0, <1>7, ConfirmKeeps
<1>8. CASE SaveFails
  BY <1>0, <1>8, SaveFailsKeeps
<1>9. CASE ServeFails
  BY <1>0, <1>9, ServeFailsKeeps
<1>10. CASE Serve
  BY <1>0, <1>10, ServeKeeps
<1>11. CASE ServeStray
  BY <1>0, <1>11, ServeStrayKeeps
<1>12. CASE Publish
  BY <1>0, <1>12, PublishKeeps
<1>13. CASE Expire
  BY <1>0, <1>13, ExpireKeeps
<1>14. CASE Refused
  BY <1>0, <1>14, ReleaseKeepsAll DEF Refused, outside
<1>15. CASE GivesUp
  BY <1>0, <1>15, ReleaseKeepsAll DEF GivesUp, outside
<1>16. CASE Crash
  BY <1>0, <1>16, ReleaseKeepsAll DEF Crash, outside
<1>17. CASE RestoreExpired
  BY <1>0, <1>17, ReleaseKeepsAll DEF RestoreExpired, outside
<1>18. CASE Reconciled
  BY <1>0, <1>18, MaterialKeeps DEF Reconciled, Answered, Goto,
     IInv, TypeOK, Slots, JournalFollows, Material, Polling, outside
<1>19. CASE StagingMissing
  BY <1>0, <1>19, MaterialKeeps DEF StagingMissing, Answered, Goto,
     IInv, TypeOK, Slots, JournalFollows, Material, Polling, outside
<1>20. CASE Staged
  BY <1>0, <1>20, MaterialKeeps DEF Staged, Answered, Goto,
     IInv, TypeOK, Slots, JournalFollows, Material, Polling, outside
<1>21. CASE ManifestTaken
  BY <1>0, <1>21, MaterialKeeps DEF ManifestTaken, Answered, Goto,
     IInv, TypeOK, Slots, JournalFollows, Material, Polling, outside
<1>. USE <1>0 DEF IInv, TypeOK, Journals, Slots, Nets, Devices, NoSlot, NoRequest, NoAnswer, Idle,
              Goto, Release, Abandon, outside, Fault, NoJournal, Creations, Drained, Pcs, Unrecorded,
              Unopened, Opening, Restoring, Material
<1>22. CASE Prepare
  <2>1. JournalFollows'
    BY <1>22 DEF Prepare, JournalFollows
  <2>2. NetFollows'
    BY <1>22 DEF Prepare, NetFollows, Polling, JournalFollows
  <2>3. CreatedOnce'
    BY SMTT(30), <1>22 DEF Prepare, CreatedOnce, Once, Never, Asking, Astray, Exists, Waiting, JournalFollows,
       NetFollows
  <2>4. Lineage'
    BY SMTT(60), <1>22 DEF Prepare, Lineage, Descent, Recovery, Named, Successors, JournalFollows, NetFollows,
       Polling
  <2>5. Backed'
    BY <1>22 DEF Prepare, Backed, JournalFollows, LocalWifiRecovery
  <2>. QED
    BY <2>1, <2>2, <2>3, <2>4, <2>5
<1>23. CASE Inspect
  <2>1. JournalFollows'
    BY <1>23 DEF Inspect, MayResume, JournalFollows
  <2>2. NetFollows'
    BY <1>23 DEF Inspect, MayResume, NetFollows, Polling, JournalFollows
  <2>3. CreatedOnce'
    BY SMTT(60), <1>23 DEF Inspect, MayResume, CreatedOnce, Once, Never, Asking, Astray, Exists, Waiting,
       JournalFollows, NetFollows
  <2>4. Lineage'
    BY SMTT(60), <1>23 DEF Inspect, MayResume, Lineage, Descent, Recovery, Named, Successors, JournalFollows,
       NetFollows, Polling
  <2>5. Backed'
    BY <1>23 DEF Inspect, MayResume, Backed, JournalFollows, LocalWifiRecovery
  <2>. QED
    BY <2>1, <2>2, <2>3, <2>4, <2>5
<1>24. CASE Resave
  <2>1. JournalFollows'
    BY <1>24 DEF Resave, Save, Record, JournalFollows
  <2>2. NetFollows'
    BY <1>24 DEF Resave, Save, Record, NetFollows, Polling, JournalFollows
  <2>3. CreatedOnce'
    BY SMTT(30), <1>24 DEF Resave, Save, Record, CreatedOnce, Once, Never, Asking, Astray, Exists, Waiting,
       JournalFollows, NetFollows
  <2>4. Lineage'
    BY SMTT(60), <1>24 DEF Resave, Save, Record, Lineage, Descent, Recovery, Named, Successors,
       JournalFollows, NetFollows, Polling
  <2>5. Backed'
    BY <1>24 DEF Resave, Save, Record, Backed, JournalFollows, LocalWifiRecovery
  <2>. QED
    BY <2>1, <2>2, <2>3, <2>4, <2>5
<1>25. CASE BeforeRecording
  <2>1. JournalFollows'
    BY <1>25 DEF BeforeRecording, Save, Record, JournalFollows
  <2>2. NetFollows'
    BY <1>25 DEF BeforeRecording, Save, Record, NetFollows, Polling, JournalFollows
  <2>3. CreatedOnce'
    BY SMTT(30), <1>25 DEF BeforeRecording, Save, Record, CreatedOnce, Once, Never, Asking, Astray, Exists,
       Waiting, JournalFollows, NetFollows
  <2>4. Lineage'
    <3>1. cloud.sessions = <<>> /\ DOMAIN cloud.sessions = {} /\ cloud' = cloud
      BY SMTT(60), <1>25, SessionsType DEF BeforeRecording, JournalFollows, CreatedOnce, Never, Exists
    <3>2. net' = Idle /\ slot'.pc = "sendRecording" /\ journal'.ses = 0
      BY <1>25 DEF BeforeRecording, Save, Record, NetFollows, Polling
    <3>3. \A r \in stray' : r.k # "recover"
      BY <1>25, <3>1 DEF BeforeRecording, Lineage, Recovery
    <3>4. Descent'
      BY <3>1, <3>2, EmptyDescent
    <3>. QED
      BY <3>2, <3>3, <3>4 DEF Lineage
  <2>5. Backed'
    BY <1>25 DEF BeforeRecording, Save, Record, Backed, JournalFollows, LocalWifiRecovery
  <2>. QED
    BY <2>1, <2>2, <2>3, <2>4, <2>5
<1>26. CASE SendRecording
  <2>1. JournalFollows'
    BY <1>26 DEF SendRecording, Send, Request, JournalFollows
  <2>2. NetFollows'
    BY <1>26 DEF SendRecording, Send, Request, NetFollows, Polling, JournalFollows
  <2>3. CreatedOnce'
    BY SMTT(30), <1>26 DEF SendRecording, Send, Request, CreatedOnce, Once, Never, Asking, Astray, Exists,
       Waiting, JournalFollows, NetFollows
  <2>4. Lineage'
    BY <1>26, LineageKept DEF SendRecording, Send, Request
  <2>5. Backed'
    BY <1>26 DEF SendRecording, Send, Request, Backed, JournalFollows, LocalWifiRecovery
  <2>. QED
    BY <2>1, <2>2, <2>3, <2>4, <2>5
<1>27. CASE AcceptRecording
  <2>1. JournalFollows'
    BY <1>27 DEF AcceptRecording, Save, Record, Answered, JournalFollows
  <2>2. NetFollows'
    BY <1>27 DEF AcceptRecording, Save, Record, Answered, NetFollows, Polling, JournalFollows
  <2>3. CreatedOnce'
    BY SMTT(30), <1>27 DEF AcceptRecording, Save, Record, Answered, CreatedOnce, Once, Never, Asking, Astray,
       Exists, Waiting, JournalFollows, NetFollows
  <2>4. Lineage'
    <3>1. cloud.sessions = <<>> /\ DOMAIN cloud.sessions = {} /\ cloud' = cloud
      BY SMTT(60), <1>27, SessionsType DEF AcceptRecording, Answered, JournalFollows, CreatedOnce, Never, Exists
    <3>2. net' = Idle /\ slot'.pc = "nonce" /\ journal'.ses = 0
      BY <1>27 DEF AcceptRecording, Save, Record
    <3>3. \A r \in stray' : r.k # "recover"
      BY <1>27, <3>1 DEF AcceptRecording, Lineage, Recovery
    <3>4. Descent'
      BY <3>1, <3>2, EmptyDescent
    <3>. QED
      BY <3>2, <3>3, <3>4 DEF Lineage
  <2>5. Backed'
    BY <1>27 DEF AcceptRecording, Save, Record, Answered, Backed, JournalFollows, LocalWifiRecovery
  <2>. QED
    BY <2>1, <2>2, <2>3, <2>4, <2>5
<1>28. CASE ReadNonce
  <2>1. JournalFollows'
    BY <1>28 DEF ReadNonce, JournalFollows
  <2>2. NetFollows'
    BY <1>28 DEF ReadNonce, NetFollows, Polling, JournalFollows
  <2>3. CreatedOnce'
    BY SMTT(30), <1>28 DEF ReadNonce, CreatedOnce, Once, Never, Asking, Astray, Exists, Waiting,
       JournalFollows, NetFollows
  <2>4. Lineage'
    BY SMTT(60), <1>28 DEF ReadNonce, Lineage, Descent, Recovery, Named, Successors, JournalFollows,
       NetFollows, Polling
  <2>5. Backed'
    BY <1>28 DEF ReadNonce, Backed, JournalFollows, LocalWifiRecovery
  <2>. QED
    BY <2>1, <2>2, <2>3, <2>4, <2>5
<1>29. CASE BeforeSession
  <2>1. JournalFollows'
    BY <1>29 DEF BeforeSession, Save, Record, JournalFollows
  <2>2. NetFollows'
    BY <1>29 DEF BeforeSession, Save, Record, NetFollows, Polling, JournalFollows
  <2>3. CreatedOnce'
    BY SMTT(30), <1>29 DEF BeforeSession, Save, Record, CreatedOnce, Once, Never, Asking, Astray, Exists,
       Waiting, JournalFollows, NetFollows
  <2>4. Lineage'
    BY SMTT(60), <1>29 DEF BeforeSession, Save, Record, Lineage, Descent, Recovery, Named, Successors,
       JournalFollows, NetFollows, Polling
  <2>5. Backed'
    BY <1>29 DEF BeforeSession, Save, Record, Backed, JournalFollows, LocalWifiRecovery
  <2>. QED
    BY <2>1, <2>2, <2>3, <2>4, <2>5
<1>30. CASE SendSession
  <2>1. JournalFollows'
    BY <1>30 DEF SendSession, Send, Request, JournalFollows
  <2>2. NetFollows'
    BY <1>30 DEF SendSession, Send, Request, NetFollows, Polling, JournalFollows
  <2>3. CreatedOnce'
    BY ZenonT(60), <1>30 DEF SendSession, Send, Request, CreatedOnce, Once, Never, Asking, Astray, Exists,
       Waiting, JournalFollows, NetFollows
  <2>4. Lineage'
    BY <1>30, LineageKept DEF SendSession, Send, Request
  <2>5. Backed'
    BY <1>30 DEF SendSession, Send, Request, Backed, JournalFollows, LocalWifiRecovery
  <2>. QED
    BY <2>1, <2>2, <2>3, <2>4, <2>5
<1>31. CASE Get
  <2>1. JournalFollows'
    BY <1>31 DEF Get, Send, Request, JournalFollows
  <2>2. NetFollows'
    BY <1>31 DEF Get, Send, Request, NetFollows, Polling, JournalFollows
  <2>3. CreatedOnce'
    BY ZenonT(60), <1>31 DEF Get, Send, Request, CreatedOnce, Once, Never, Asking, Astray, Exists, Waiting,
       JournalFollows, NetFollows
  <2>4. Lineage'
    BY <1>31, LineageKept DEF Get, Send, Request
  <2>5. Backed'
    BY <1>31 DEF Get, Send, Request, Backed, JournalFollows, LocalWifiRecovery
  <2>. QED
    BY <2>1, <2>2, <2>3, <2>4, <2>5
<1>32. CASE RestoreRecovers
  <2>1. JournalFollows'
    BY <1>32 DEF RestoreRecovers, Answered, Selected, Recovers, JournalFollows
  <2>2. NetFollows'
    BY <1>32 DEF RestoreRecovers, Answered, Selected, Recovers, NetFollows, Polling, JournalFollows
  <2>3. CreatedOnce'
    BY SMTT(30), <1>32 DEF RestoreRecovers, Answered, Selected, Recovers, CreatedOnce, Once, Never, Asking,
       Astray, Exists, Waiting, JournalFollows, NetFollows
  <2>4. Lineage'
    BY SMTT(60), <1>32 DEF RestoreRecovers, Answered, Selected, Recovers, Lineage, Descent, Recovery, Named,
       Successors, JournalFollows, NetFollows, Polling
  <2>5. Backed'
    BY <1>32 DEF RestoreRecovers, Answered, Selected, Recovers, Backed, JournalFollows,
       LocalWifiRecovery
  <2>. QED
    BY <2>1, <2>2, <2>3, <2>4, <2>5
<1>33. CASE RestoreKeeps
  <2>1. JournalFollows'
    BY <1>33 DEF RestoreKeeps, Answered, Recovers, JournalFollows
  <2>2. NetFollows'
    BY <1>33 DEF RestoreKeeps, Answered, Recovers, NetFollows, Polling, JournalFollows
  <2>3. CreatedOnce'
    BY SMTT(60), <1>33 DEF RestoreKeeps, Answered, Recovers, CreatedOnce, Once, Never, Asking, Astray, Exists,
       Waiting, JournalFollows, NetFollows
  <2>4. Lineage'
    BY <1>33, LineageKept DEF RestoreKeeps
  <2>5. Backed'
    BY <1>33 DEF RestoreKeeps, Answered, Recovers, Backed, JournalFollows, LocalWifiRecovery
  <2>. QED
    BY <2>1, <2>2, <2>3, <2>4, <2>5
<1>34. CASE SaveRecovery
  <2>1. JournalFollows'
    BY <1>34 DEF SaveRecovery, Save, Record, JournalFollows
  <2>2. NetFollows'
    BY <1>34 DEF SaveRecovery, Save, Record, NetFollows, Polling, JournalFollows
  <2>3. CreatedOnce'
    BY SMTT(30), <1>34 DEF SaveRecovery, Save, Record, CreatedOnce, Once, Never, Asking, Astray, Exists,
       Waiting, JournalFollows, NetFollows
  <2>4. Lineage'
    <3>1. /\ journal.phase = "ready" /\ journal.ses # 0 /\ slot.nonce # 0
          /\ journal.recovery \in {0, slot.nonce} /\ net = Idle
      BY <1>34 DEF SaveRecovery, JournalFollows, NetFollows, Polling
    <3>2. /\ journal'.phase = "ready" /\ journal'.ses = journal.ses /\ journal'.recovery = slot.nonce
          /\ cloud' = cloud /\ stray' = stray /\ net' = net /\ slot'.pc = "recover"
      BY <1>34 DEF SaveRecovery, Save, Record
    <3>3. Descent'
      BY <3>1, <3>2, NonceStored DEF Lineage
    <3>4. \A r : Recovery(r) => Recovery(r)'
      BY <3>1, <3>2 DEF Recovery, Successors
    <3>. QED
      BY <3>1, <3>2, <3>3, <3>4 DEF Lineage
  <2>5. Backed'
    BY <1>34 DEF SaveRecovery, Save, Record, Backed, JournalFollows, LocalWifiRecovery
  <2>. QED
    BY <2>1, <2>2, <2>3, <2>4, <2>5
<1>35. CASE SendRecover
  <2>1. JournalFollows'
    BY <1>35 DEF SendRecover, Send, Request, JournalFollows
  <2>2. NetFollows'
    BY <1>35 DEF SendRecover, Send, Request, NetFollows, Polling, JournalFollows
  <2>3. CreatedOnce'
    BY ZenonT(60), <1>35 DEF SendRecover, Send, Request, CreatedOnce, Once, Never, Asking, Astray, Exists,
       Waiting, JournalFollows, NetFollows
  <2>4. Lineage'
    <3>1. net'.req = [k |-> "recover", ses |-> journal.ses, nonce |-> slot.nonce] /\ net'.ans.is = "none"
      BY <1>35 DEF SendRecover, Send, Request
    <3>2. journal.ses \in DOMAIN cloud.sessions
      BY SMTT(30), <1>35, SessionsType DEF SendRecover, Send, Lineage, Descent, JournalFollows
    <3>3. Recovery(net'.req)
      BY <1>35, <3>1, <3>2 DEF SendRecover, Send, Recovery, JournalFollows
    <3>. QED
      BY <1>35, <3>1, <3>3, LineageKept DEF SendRecover, Send
  <2>5. Backed'
    BY <1>35 DEF SendRecover, Send, Request, Backed, JournalFollows, LocalWifiRecovery
  <2>. QED
    BY <2>1, <2>2, <2>3, <2>4, <2>5
<1>36. CASE Retry
  <2>1. JournalFollows'
    BY <1>36 DEF Retry, Retried, JournalFollows
  <2>2. NetFollows'
    BY <1>36 DEF Retry, Retried, NetFollows, Polling, JournalFollows
  <2>3. CreatedOnce'
    BY SMTT(30), <1>36 DEF Retry, Retried, CreatedOnce, Once, Never, Asking, Astray, Exists, Waiting,
       JournalFollows, NetFollows
  <2>4. Lineage'
    BY SMTT(60), <1>36 DEF Retry, Retried, Lineage, Descent, Recovery, Named, Successors, JournalFollows,
       NetFollows, Polling
  <2>5. Backed'
    BY <1>36 DEF Retry, Retried, Backed, JournalFollows, LocalWifiRecovery
  <2>. QED
    BY <2>1, <2>2, <2>3, <2>4, <2>5
<1>37. CASE Register
  <2>1. JournalFollows'
    BY <1>37 DEF Register, JournalFollows
  <2>2. NetFollows'
    BY <1>37 DEF Register, NetFollows, Polling, JournalFollows
  <2>3. CreatedOnce'
    BY SMTT(30), <1>37 DEF Register, CreatedOnce, Once, Never, Asking, Astray, Exists, Waiting,
       JournalFollows, NetFollows
  <2>4. Lineage'
    BY SMTT(60), <1>37 DEF Register, Lineage, Descent, Recovery, Named, Successors, JournalFollows,
       NetFollows, Polling
  <2>5. Backed'
    BY <1>37 DEF Register, Backed, JournalFollows, LocalWifiRecovery
  <2>. QED
    BY <2>1, <2>2, <2>3, <2>4, <2>5
<1>38. CASE Reconcile
  <2>1. JournalFollows'
    BY <1>38 DEF Reconcile, Send, Request, JournalFollows
  <2>2. NetFollows'
    BY <1>38 DEF Reconcile, Send, Request, NetFollows, Polling, JournalFollows
  <2>3. CreatedOnce'
    BY ZenonT(60), <1>38 DEF Reconcile, Send, Request, CreatedOnce, Once, Never, Asking, Astray, Exists,
       Waiting, JournalFollows, NetFollows
  <2>4. Lineage'
    BY <1>38, LineageKept DEF Reconcile, Send, Request
  <2>5. Backed'
    BY <1>38 DEF Reconcile, Send, Request, Backed, JournalFollows, LocalWifiRecovery
  <2>. QED
    BY <2>1, <2>2, <2>3, <2>4, <2>5
<1>39. CASE NothingToStage
  <2>1. JournalFollows'
    BY <1>39 DEF NothingToStage, JournalFollows
  <2>2. NetFollows'
    BY <1>39 DEF NothingToStage, NetFollows, Polling, JournalFollows
  <2>3. CreatedOnce'
    BY SMTT(30), <1>39 DEF NothingToStage, CreatedOnce, Once, Never, Asking, Astray, Exists, Waiting,
       JournalFollows, NetFollows
  <2>4. Lineage'
    BY SMTT(60), <1>39 DEF NothingToStage, Lineage, Descent, Recovery, Named, Successors, JournalFollows,
       NetFollows, Polling
  <2>5. Backed'
    BY <1>39 DEF NothingToStage, Backed, JournalFollows, LocalWifiRecovery
  <2>. QED
    BY <2>1, <2>2, <2>3, <2>4, <2>5
<1>40. CASE StageCiphertext
  <2>1. JournalFollows'
    BY <1>40 DEF StageCiphertext, Send, Request, JournalFollows
  <2>2. NetFollows'
    BY <1>40 DEF StageCiphertext, Send, Request, NetFollows, Polling, JournalFollows
  <2>3. CreatedOnce'
    BY ZenonT(60), <1>40 DEF StageCiphertext, Send, Request, CreatedOnce, Once, Never, Asking, Astray, Exists,
       Waiting, JournalFollows, NetFollows
  <2>4. Lineage'
    BY <1>40, LineageKept DEF StageCiphertext, Send, Request
  <2>5. Backed'
    BY <1>40 DEF StageCiphertext, Send, Request, Backed, JournalFollows, LocalWifiRecovery
  <2>. QED
    BY <2>1, <2>2, <2>3, <2>4, <2>5
<1>41. CASE Poll
  <2>1. JournalFollows'
    BY <1>41 DEF Poll, Send, Request, JournalFollows
  <2>2. NetFollows'
    BY <1>41 DEF Poll, Send, Request, NetFollows, Polling, JournalFollows
  <2>3. CreatedOnce'
    BY ZenonT(60), <1>41 DEF Poll, Send, Request, CreatedOnce, Once, Never, Asking, Astray, Exists, Waiting,
       JournalFollows, NetFollows
  <2>4. Lineage'
    BY <1>41, LineageKept DEF Poll, Send, Request
  <2>5. Backed'
    BY <1>41 DEF Poll, Send, Request, Backed, JournalFollows, LocalWifiRecovery
  <2>. QED
    BY <2>1, <2>2, <2>3, <2>4, <2>5
<1>42. CASE Complete
  <2>1. JournalFollows'
    BY <1>42 DEF Complete, JournalFollows
  <2>2. NetFollows'
    BY <1>42 DEF Complete, NetFollows, Polling, JournalFollows
  <2>3. CreatedOnce'
    BY SMTT(30), <1>42 DEF Complete, CreatedOnce, Once, Never, Asking, Astray, Exists, Waiting,
       JournalFollows, NetFollows
  <2>4. Lineage'
    BY SMTT(60), <1>42 DEF Complete, Lineage, Descent, Recovery, Named, Successors, JournalFollows,
       NetFollows, Polling
  <2>5. Backed'
    BY <1>42 DEF Complete, Backed, JournalFollows, LocalWifiRecovery
  <2>. QED
    BY <2>1, <2>2, <2>3, <2>4, <2>5
<1>43. CASE Cancel
  <2>1. JournalFollows'
    BY <1>43 DEF Cancel, JournalFollows
  <2>2. NetFollows'
    BY <1>43 DEF Cancel, NetFollows, Polling, JournalFollows
  <2>3. CreatedOnce'
    BY SMTT(60), <1>43 DEF Cancel, CreatedOnce, Once, Never, Asking, Astray, Exists, Waiting, JournalFollows,
       NetFollows
  <2>4. Lineage'
    BY <1>43, LineageKept DEF Cancel
  <2>5. Backed'
    BY <1>43 DEF Cancel, Backed, JournalFollows, LocalWifiRecovery
  <2>. QED
    BY <2>1, <2>2, <2>3, <2>4, <2>5
<1>44. CASE ConfirmUncertain
  <2>1. JournalFollows'
    BY <1>44 DEF ConfirmUncertain, JournalFollows
  <2>2. NetFollows'
    BY <1>44 DEF ConfirmUncertain, NetFollows, Polling, JournalFollows
  <2>3. CreatedOnce'
    BY SMTT(60), <1>44 DEF ConfirmUncertain, CreatedOnce, Once, Never, Asking, Astray, Exists, Waiting,
       JournalFollows, NetFollows
  <2>4. Lineage'
    BY SMTT(60), <1>44 DEF ConfirmUncertain, Lineage, Descent, Recovery, Named, Successors, JournalFollows,
       NetFollows, Polling
  <2>5. Backed'
    BY <1>44 DEF ConfirmUncertain, Backed, JournalFollows, LocalWifiRecovery
  <2>. QED
    BY <2>1, <2>2, <2>3, <2>4, <2>5
<1>45. CASE DeviceRestarts
  <2>1. JournalFollows'
    BY <1>45 DEF DeviceRestarts, JournalFollows
  <2>2. NetFollows'
    BY <1>45 DEF DeviceRestarts, NetFollows, Polling, JournalFollows
  <2>3. CreatedOnce'
    BY SMTT(30), <1>45 DEF DeviceRestarts, CreatedOnce, Once, Never, Asking, Astray, Exists, Waiting,
       JournalFollows, NetFollows
  <2>4. Lineage'
    BY SMTT(60), <1>45 DEF DeviceRestarts, Lineage, Descent, Recovery, Named, Successors, JournalFollows,
       NetFollows, Polling
  <2>5. Backed'
    BY <1>45 DEF DeviceRestarts, Backed, JournalFollows, LocalWifiRecovery
  <2>. QED
    BY <2>1, <2>2, <2>3, <2>4, <2>5
<1>46. CASE UNCHANGED vars
  <2>1. JournalFollows'
    BY <1>46 DEF vars, JournalFollows
  <2>2. NetFollows'
    BY <1>46 DEF vars, NetFollows, Polling, JournalFollows
  <2>3. CreatedOnce'
    BY SMTT(30), <1>46 DEF vars, CreatedOnce, Once, Never, Asking, Astray, Exists, Waiting, JournalFollows,
       NetFollows
  <2>4. Lineage'
    BY SMTT(60), <1>46 DEF vars, Lineage, Descent, Recovery, Named, Successors, JournalFollows, NetFollows,
       Polling
  <2>5. Backed'
    BY <1>46 DEF vars, Backed, JournalFollows, LocalWifiRecovery
  <2>. QED
    BY <2>1, <2>2, <2>3, <2>4, <2>5
<1>. HIDE DEF IInv, TypeOK
<1>. QED
  BY <1>1, <1>2, <1>3, <1>4, <1>5, <1>6, <1>7, <1>8, <1>9, <1>10, <1>11, <1>12, <1>13, <1>14, <1>15,
     <1>16, <1>17, <1>18, <1>19, <1>20, <1>21, <1>22, <1>23, <1>24, <1>25, <1>26, <1>27, <1>28,
     <1>29, <1>30, <1>31, <1>32, <1>33, <1>34, <1>35, <1>36, <1>37, <1>38, <1>39, <1>40, <1>41,
     <1>42, <1>43, <1>44, <1>45, <1>46 DEF Next, Host, Service

\* It holds initially.
LEMMA Starts == Init => IInv
<1>. SUFFICES ASSUME Init PROVE IInv
  OBVIOUS
<1>1. cloud.sessions = <<>> /\ Len(cloud.sessions) = 0 /\ DOMAIN cloud.sessions = {}
      /\ cloud.sessions \in Seq(Session)
  BY DEF Init
<1>2. TypeOK
  BY <1>1, ManagedAssumption DEF Init, TypeOK, Journals, NoJournal, Phases, Slots, NoSlot, Pcs, Nets, Idle,
     NoRequest, NoAnswer, Requests, Answers, Kinds, Clouds, Devices
<1>3. JournalFollows /\ NetFollows
  BY DEF Init, JournalFollows, NetFollows, NoJournal, NoSlot, Idle, NoRequest, Drained, Creations, Unrecorded,
     Unopened, Opening, Restoring, Material
<1>4. CreatedOnce
  BY <1>1 DEF Init, CreatedOnce, Once, Never, Exists, Asking, Astray, Waiting, NoSlot, NoJournal, Idle
<1>5. Lineage /\ Backed
  BY <1>1 DEF Init, Lineage, Descent, Recovery, NoJournal, NoSlot, Idle, NoRequest, Backed, LocalWifiRecovery
<1>. QED
  BY <1>2, <1>3, <1>4, <1>5 DEF IInv

\* The inductive invariant: what a step of the call may have under way, and what the
\* journal knows of what the service has created.
THEOREM Invariant == Spec => []IInv
<1>. QED
  BY Starts, Keeps, PTL DEF Spec

-----------------------------------------------------------------------------
(* What the journal is for *)

\* The variables have the types of the code's journal, slot, requests and service, always.
THEOREM TypeInvariant == Spec => []TypeOK
<1>1. IInv => TypeOK
  BY DEF IInv
<1>. QED
  BY <1>1, Invariant, PTL

\* Whatever is lost, cancelled, restarted or executed late, the service holds at most
\* one recording, one first session and one successor of each session.
THEOREM SingleCreateHolds == Spec => []SingleCreate
<1>1. IInv => SingleCreate
  BY DEF IInv, CreatedOnce, Lineage, Descent, SingleCreate
<1>. QED
  BY <1>1, Invariant, PTL

\* What the service created is named by the stored journal, or marked there as
\* possibly created, until the device no longer holds the recording.
THEOREM NothingForgottenHolds == Spec => []NothingForgotten
<1>1. ASSUME IInv PROVE NothingForgotten
  <2>. SUFFICES ASSUME dev.holds, cloud.recordings > 0
                PROVE  /\ (journal.rec \/ journal.phase = "recording_create_unknown")
                       /\ \A s \in DOMAIN cloud.sessions :
                             \/ s <= journal.ses \/ journal.phase = "session_create_unknown"
                             \/ /\ cloud.sessions[s].parent = journal.ses
                                /\ cloud.sessions[s].nonce = journal.recovery
    BY DEF NothingForgotten
  <2>1. journal.phase # "absent"
    BY <1>1 DEF IInv, CreatedOnce, Never, Exists
  <2>2. journal.rec \/ journal.phase = "recording_create_unknown"
    BY <1>1, <2>1 DEF IInv, JournalFollows, TypeOK, Journals, Phases
  <2>. QED
    BY <1>1, <2>1, <2>2 DEF IInv, Lineage, Descent, Named
<1>. QED
  BY <1>1, Invariant, PTL

\* A recovery never leaves the checkpoint of a local transfer behind: its owner
\* is the journal's session or one that the journal remembers.
THEOREM LocalResumableHolds == Spec => []LocalResumable
<1>1. IInv => LocalResumable
  BY DEF IInv, Backed, LocalResumable
<1>. QED
  BY <1>1, Invariant, PTL

=============================================================================
