-------------------------- MODULE Connection_proofs ---------------------------
(***************************************************************************)
(* The connection, for every set of peripherals and serial numbers, every  *)
(* hint, fault and number of operations, on both hosts: a serial number is *)
(* only ever saved for, and a device only reported on, the peripheral that *)
(* answered it, and a retired attempt is over before the next one starts;  *)
(* and when no disconnection of an attempt fails, the radio has at most    *)
(* one link, nothing is left of an operation that settled, and a           *)
(* reconnection gives up only after every candidate.                       *)
(***************************************************************************)
EXTENDS Connection, FiniteSetTheorems, WellFoundedInduction, TLAPS

-----------------------------------------------------------------------------
(* The inductive invariant. *)

Attempts == {"Connecting", "Discovering", "ReadingSerial"}

\* The operations of the radio that may be under way in a phase.
Pending(w) ==
  CASE w.phase = "Connecting"    -> {<<"Connect", w.active>>}
    [] w.phase = "Discovering"   -> {<<"Discover", w.active>>}
    [] w.phase = "ReadingSerial" -> {<<"Read", w.active>>}
    [] w.phase = "Disconnecting" -> IoKinds \X {w.active}
    [] OTHER                     -> {}

\* What the host may have to settle for a running workflow w.
Owed(w, o) ==
  /\ o \cap Io \subseteq Pending(w)
  /\ \A p \in Peripherals :
       /\ <<"Disconnect", p>> \in o => w.phase = "Disconnecting" /\ p = w.active
       /\ <<"Release", p>> \notin o
       /\ <<"Save", p>> \in o => w.phase = "Persisting" /\ p = w.active

\* The peripheral the attempt talks to is the one reads go to.
OnRadio == Running /\ wf.phase \in {"Discovering", "ReadingSerial"} => radio = wf.active

\* What is about to be saved has been verified.
Answered(p) == wf.device \in Serials /\ serialOf[p] = wf.device

\* The deadline of an attempt runs during an attempt only, and a discovery is
\* waited for.
Armed(w) ==
  /\ "timer" \in w.waits => w.phase \in Attempts
  /\ w.phase = "Discovering" => "discover" \in w.waits

Verified ==
  /\ Running => Owed(wf, ops) /\ Armed(wf) /\ established = Nobody
  /\ Running => wf.phase \notin {"Completed", "Failed"}
  /\ OnRadio
  /\ \A p \in Peripherals : <<"Save", p>> \in ops => Answered(p)
  /\ established # Nobody => Answered(established)
  /\ wf.mode = "reconnect" => wf.device = Target

IdInv == Verified /\ \A s \in Serials : saved[s] # Nobody => serialOf[saved[s]] = s

IInv == TypeOK /\ IdInv

-----------------------------------------------------------------------------
(* What the moves of the workflow answer. *)

\* An answer that keeps the mode and the device.
Answer(w, r) ==
  /\ r.wf \in Workflows /\ r.out \subseteq Effects /\ r.rejected = FALSE
  /\ r.wf.mode = w.mode /\ r.wf.device = w.device

\* Nothing, or the next attempt.
NextAttempt(r) ==
  \/ r.wf.phase = "Failed" /\ r.out = {}
  \/ /\ r.wf.phase = "Connecting" /\ r.wf.active \in Peripherals
     /\ r.out \subseteq {<<"Connect", r.wf.active>>, Op("Checkpoint")}

\* Each kind of effect, on a peripheral or on none, is an effect.
LEMMA EffectTypes ==
  /\ Nobody \notin Peripherals
  /\ \A k \in EffectKinds, p \in Peripherals : <<k, p>> \in Effects
  /\ \A k \in EffectKinds : <<k, Nobody>> \in Effects
BY ConnectionReducerAssumption DEF Effects, Nobody

\* push_checkpoint requests at most one save.
LEMMA CheckpointAnswer ==
  ASSUME NEW w
  PROVE  Checkpoint(w) \subseteq {Op("Checkpoint")} /\ Op("Checkpoint") \in Effects
BY EffectTypes DEF Checkpoint, EffectKinds, Op

\* Fail ends the workflow without an effect.
LEMMA FailAnswer ==
  ASSUME NEW w \in Workflows
  PROVE  Answer(w, Fail(w)) /\ Fail(w).wf.phase = "Failed" /\ Fail(w).out = {}
BY DEF Fail, Step, Answer, Workflows, Phases

\* BeginConnection requests the connection of its candidate.
LEMMA BeginConnectionAnswer ==
  ASSUME NEW w \in Workflows, NEW p \in Peripherals
  PROVE  LET r == BeginConnection(w, p)
         IN Answer(w, r) /\ NextAttempt(r) /\ r.wf.phase = "Connecting" /\ r.wf.active = p
<1>. DEFINE r == BeginConnection(w, p)
<1>1. r.wf \in Workflows
  BY DEF BeginConnection, Step, Workflows, Phases, Awaited
<1>2. r.out = {<<"Connect", p>>} \cup Checkpoint(w)
  BY DEF BeginConnection, Step
<1>3. r.wf.phase = "Connecting" /\ r.wf.active = p /\ r.wf.mode = w.mode /\ r.wf.device = w.device
  BY DEF BeginConnection, Step, Workflows
<1>4. r.rejected = FALSE
  BY DEF BeginConnection, Step
<1>5. r.out \subseteq {<<"Connect", p>>, Op("Checkpoint")} /\ r.out \subseteq Effects
  BY <1>2, CheckpointAnswer, EffectTypes DEF EffectKinds
<1>. QED  BY <1>1, <1>3, <1>4, <1>5 DEF Answer, NextAttempt

\* BeginNextProbe connects a candidate or fails.
LEMMA BeginNextProbeAnswer ==
  ASSUME NEW w \in Workflows
  PROVE  Answer(w, BeginNextProbe(w)) /\ NextAttempt(BeginNextProbe(w))
<1>1. CASE Probe(w, w.index) = {}
  BY <1>1, FailAnswer DEF BeginNextProbe, NextAttempt
<1>2. CASE Probe(w, w.index) # {}
  <2>. DEFINE p == CHOOSE q \in Probe(w, w.index) : TRUE
  <2>1. p \in Peripherals
    BY <1>2 DEF Probe, Workflows
  <2>. QED  BY <1>2, <2>1, BeginConnectionAnswer DEF BeginNextProbe
<1>. QED  BY <1>1, <1>2

\* Rebuilding the list of probes changes nothing else.
LEMMA PrepareAnswer ==
  ASSUME NEW w \in Workflows
  PROVE  /\ PrepareProbeCandidates(w) \in Workflows
         /\ PrepareProbeCandidates(w).mode = w.mode /\ PrepareProbeCandidates(w).device = w.device
BY DEF PrepareProbeCandidates, Workflows

\* FinishDisconnect fails or goes on to the next candidate.
LEMMA FinishDisconnectAnswer ==
  ASSUME NEW w \in Workflows
  PROVE  Answer(w, FinishDisconnect(w)) /\ NextAttempt(FinishDisconnect(w))
<1>. DEFINE s == [w EXCEPT !.outcome = "none", !.waits = @ \ {"disconnect"}]
<1>1. s \in Workflows /\ s.mode = w.mode /\ s.device = w.device
  BY DEF Workflows
<1>2. CASE w.outcome = "fail"
  BY <1>1, <1>2, FailAnswer DEF FinishDisconnect, Answer, NextAttempt
<1>3. CASE w.outcome # "fail" /\ w.probes = {}
  <2>. DEFINE t == PrepareProbeCandidates(s)
  <2>1. t \in Workflows /\ t.mode = w.mode /\ t.device = w.device
    BY <1>1, PrepareAnswer
  <2>2. FinishDisconnect(w) = BeginNextProbe(t)
    BY <1>3 DEF FinishDisconnect
  <2>. HIDE DEF t
  <2>. QED  BY <2>1, <2>2, BeginNextProbeAnswer DEF Answer
<1>4. CASE w.outcome # "fail" /\ w.probes # {}
  <2>. DEFINE t == [s EXCEPT !.index = @ + 1]
  <2>1. t \in Workflows /\ t.mode = w.mode /\ t.device = w.device
    <3>. HIDE DEF s
    <3>. QED  BY <1>1 DEF Workflows
  <2>2. FinishDisconnect(w) = BeginNextProbe(t)
    BY <1>4 DEF FinishDisconnect
  <2>. HIDE DEF t
  <2>. QED  BY <2>1, <2>2, BeginNextProbeAnswer DEF Answer
<1>. QED  BY <1>2, <1>3, <1>4

\* BeginDisconnect requests the disconnection of the active candidate.
LEMMA BeginDisconnectAnswer ==
  ASSUME NEW w \in Workflows
  PROVE  LET r == BeginDisconnect(w)
         IN /\ Answer(w, r) /\ r.wf.phase = "Disconnecting" /\ r.wf.active = w.active
            /\ "timer" \notin r.wf.waits
            /\ r.out \subseteq {<<"Disconnect", w.active>>, Op("Checkpoint")}
<1>. DEFINE r == BeginDisconnect(w)
<1>1. r.wf \in Workflows
  BY DEF BeginDisconnect, Step, Workflows, Phases, Awaited
<1>2. r.out = {<<"Disconnect", w.active>>} \cup Checkpoint(w) /\ r.rejected = FALSE
  BY DEF BeginDisconnect, Step
<1>3. /\ r.wf.phase = "Disconnecting" /\ r.wf.active = w.active /\ "timer" \notin r.wf.waits
      /\ r.wf.mode = w.mode /\ r.wf.device = w.device
  BY DEF BeginDisconnect, Step, Workflows
<1>4. w.active \in Peripherals \cup {Nobody}
  BY DEF Workflows
<1>5. r.out \subseteq {<<"Disconnect", w.active>>, Op("Checkpoint")} /\ r.out \subseteq Effects
  BY <1>2, <1>4, CheckpointAnswer, EffectTypes DEF EffectKinds
<1>. QED  BY <1>1, <1>2, <1>3, <1>5 DEF Answer

\* BeginScan requests the scan.
LEMMA BeginScanAnswer ==
  ASSUME NEW w \in Workflows
  PROVE  LET r == BeginScan(w)
         IN /\ Answer(w, r) /\ r.wf.phase = "Scanning" /\ "timer" \notin r.wf.waits
            /\ r.out \subseteq {Op("StartScan"), Op("Checkpoint")}
<1>. DEFINE r == BeginScan(w)
<1>1. r.wf \in Workflows
  BY DEF BeginScan, Step, Workflows, Phases, Awaited
<1>2. /\ r.wf.phase = "Scanning" /\ "timer" \notin r.wf.waits
      /\ r.wf.mode = w.mode /\ r.wf.device = w.device /\ r.rejected = FALSE
  BY DEF BeginScan, Step, Workflows
<1>3. r.out \subseteq {Op("StartScan"), Op("Checkpoint")} /\ r.out \subseteq Effects
  BY CheckpointAnswer, EffectTypes DEF BeginScan, Step, Op, EffectKinds
<1>. QED  BY <1>1, <1>2, <1>3 DEF Answer

\* BeginPersist requests to save the active candidate.
LEMMA BeginPersistAnswer ==
  ASSUME NEW w \in Workflows
  PROVE  LET r == BeginPersist(w)
         IN /\ Answer(w, r) /\ r.wf.phase = "Persisting" /\ r.wf.active = w.active
            /\ "timer" \notin r.wf.waits
            /\ r.out \subseteq {<<"Save", w.active>>, Op("Checkpoint")}
<1>. DEFINE r == BeginPersist(w)
<1>1. r.wf \in Workflows
  BY DEF BeginPersist, Step, Workflows, Phases, Awaited
<1>2. r.out = {<<"Save", w.active>>} \cup Checkpoint(w) /\ r.rejected = FALSE
  BY DEF BeginPersist, Step
<1>3. /\ r.wf.phase = "Persisting" /\ r.wf.active = w.active /\ "timer" \notin r.wf.waits
      /\ r.wf.mode = w.mode /\ r.wf.device = w.device
  BY DEF BeginPersist, Step, Workflows
<1>4. w.active \in Peripherals \cup {Nobody}
  BY DEF Workflows
<1>5. r.out \subseteq {<<"Save", w.active>>, Op("Checkpoint")} /\ r.out \subseteq Effects
  BY <1>2, <1>4, CheckpointAnswer, EffectTypes DEF EffectKinds
<1>. QED  BY <1>1, <1>2, <1>3, <1>5 DEF Answer

-----------------------------------------------------------------------------
(* What an answer must be for the host to take it. *)

\* r answers an event of wf while the operations o remain, and reads go to rad.
Good(r, o, rad) ==
  /\ r.wf \in Workflows /\ r.out \subseteq Effects /\ r.rejected \in BOOLEAN
  /\ r.rejected => r.wf = wf /\ r.out = {}
  /\ r.wf.mode = wf.mode
  /\ wf.mode = "reconnect" => r.wf.device = wf.device
  /\ r.wf.phase \in {"Discovering", "ReadingSerial"} => rad = r.wf.active
  /\ r.wf.phase \notin {"Completed", "Failed"} => Owed(r.wf, o \cup r.out) /\ Armed(r.wf)
  /\ \A p \in Peripherals : <<"Save", p>> \in o \cup r.out =>
       r.wf.device \in Serials /\ serialOf[p] = r.wf.device
  /\ r.wf.phase = "Completed" /\ r.wf.active # Nobody =>
       r.wf.device \in Serials /\ serialOf[r.wf.active] = r.wf.device

\* Nothing of an attempt is under way.
Quiet(o) ==
  /\ o \cap Io = {}
  /\ \A p \in Peripherals, k \in {"Disconnect", "Release", "Save"} : <<k, p>> \notin o

\* An event that is refused leaves everything as it was.
LEMMA RejectGood ==
  ASSUME IInv, Running, NEW o \in SUBSET ops, NEW rad,
         wf.phase \in {"Discovering", "ReadingSerial"} => rad = wf.active
  PROVE  Good(Reject(wf), o, rad)
BY DEF Good, Reject, IInv, IdInv, Verified, TypeOK, Owed, Answered

\* So does one that is consumed without a change of the phase.
LEMMA ConsumedGood ==
  ASSUME IInv, Running, NEW o \in SUBSET ops, NEW rad, NEW w \in Workflows,
         w.mode = wf.mode, w.device = wf.device, w.phase = wf.phase, w.active = wf.active,
         w.waits \subseteq wf.waits, wf.phase \notin {"Discovering", "ReadingSerial"}
  PROVE  Good(Step(w, {}), o, rad)
<1>1. Pending(w) = Pending(wf)
  BY DEF Pending
<1>. QED  BY <1>1 DEF Good, Step, IInv, IdInv, Verified, TypeOK, Owed, Armed, Answered

\* When nothing of the last attempt is under way the next one may start.
LEMMA NextAttemptGood ==
  ASSUME IInv, Running, NEW o \in SUBSET ops, Quiet(o), NEW rad,
         NEW r, Answer(wf, r), NextAttempt(r)
  PROVE  Good(r, o, rad)
<1>1. CASE r.wf.phase = "Failed" /\ r.out = {}
  BY <1>1 DEF Good, Answer, Quiet
<1>2. CASE /\ r.wf.phase = "Connecting" /\ r.wf.active \in Peripherals
           /\ r.out \subseteq {<<"Connect", r.wf.active>>, Op("Checkpoint")}
  <2>1. (o \cup r.out) \cap Io \subseteq Pending(r.wf)
    BY <1>2, EffectTypes DEF Quiet, Pending, Io, IoKinds, Op
  <2>2. \A p \in Peripherals, k \in {"Disconnect", "Release", "Save"} : <<k, p>> \notin o \cup r.out
    BY <1>2 DEF Quiet, Op
  <2>. QED  BY <1>2, <2>1, <2>2 DEF Good, Answer, Owed, Armed, Attempts
<1>. QED  BY <1>1, <1>2 DEF NextAttempt

\* A phase that waits for one operation of the radio is quiet without it.
LEMMA QuietPhases ==
  ASSUME IInv, Running, NEW o \in SUBSET ops
  PROVE  /\ wf.phase \in {"Scanning", "StoppingScan"} => Quiet(o)
         /\ wf.phase = "Connecting" => Quiet(o \ {<<"Connect", wf.active>>})
BY DEF IInv, IdInv, Verified, Owed, Pending, Quiet, Io, IoKinds

\* An attempt that is given up is disconnected.
LEMMA BeginDisconnectGood ==
  ASSUME IInv, Running, NEW o \in SUBSET ops, NEW rad, NEW w \in Workflows,
         wf.phase \in Attempts,
         w.mode = wf.mode, w.device = wf.device, w.active = wf.active
  PROVE  Good(BeginDisconnect(w), o, rad)
<1>. DEFINE r == BeginDisconnect(w)
<1>1. /\ Answer(w, r) /\ r.wf.phase = "Disconnecting" /\ r.wf.active = wf.active
      /\ "timer" \notin r.wf.waits
      /\ r.out \subseteq {<<"Disconnect", wf.active>>, Op("Checkpoint")}
  BY BeginDisconnectAnswer
<1>. HIDE DEF r
<1>2. (o \cup r.out) \cap Io \subseteq Pending(r.wf)
  BY <1>1 DEF IInv, IdInv, Verified, Owed, Pending, Io, IoKinds, Op, Attempts
<1>3. \A p \in Peripherals : <<"Release", p>> \notin o \cup r.out /\ <<"Save", p>> \notin o \cup r.out
  BY <1>1 DEF IInv, IdInv, Verified, Owed, Attempts, Op
<1>4. \A p \in Peripherals : <<"Disconnect", p>> \in o \cup r.out => p = r.wf.active
  BY <1>1, EffectTypes DEF IInv, IdInv, Verified, Owed, Attempts, Op
<1>5. Good(r, o, rad)
  BY <1>1, <1>2, <1>3, <1>4 DEF Good, Answer, Owed, Armed
<1>. QED  BY <1>5 DEF r

\* The scan ends with nothing under way.
LEMMA StopScanGood ==
  ASSUME IInv, Running, wf.phase = "Scanning", NEW w \in Workflows,
         w.mode = wf.mode, w.device = wf.device, NEW rad
  PROVE  Good(StopScan(w), ops, rad)
<1>. DEFINE r == StopScan(w)
<1>1. r.wf \in Workflows
  BY DEF StopScan, Step, Workflows, Phases, Awaited
<1>2. /\ r.wf.phase = "StoppingScan" /\ "timer" \notin r.wf.waits
      /\ r.wf.mode = wf.mode /\ r.wf.device = wf.device /\ r.rejected = FALSE
  BY DEF StopScan, Step, Workflows
<1>3. r.out \subseteq {Op("StopScan"), Op("Checkpoint")} /\ r.out \subseteq Effects
  BY CheckpointAnswer, EffectTypes DEF StopScan, Step, Op, EffectKinds
<1>. HIDE DEF r
<1>4. Quiet(ops \cup r.out)
  <2>1. Quiet(ops)
    BY QuietPhases
  <2>2. /\ r.out \cap Io = {}
        /\ \A p \in Peripherals, k \in {"Disconnect", "Release", "Save"} : <<k, p>> \notin r.out
    BY <1>3, EffectTypes DEF Io, Op
  <2>. QED  BY <2>1, <2>2 DEF Quiet
<1>5. Good(r, ops, rad)
  BY <1>1, <1>2, <1>3, <1>4 DEF Good, Owed, Armed, Quiet
<1>. QED  BY <1>5 DEF r

-----------------------------------------------------------------------------
(* Every handler of the core, on every answer the host may give it. *)

\* Of the scan.
LEMMA ScanResultGood ==
  ASSUME IInv, Running, NEW p \in Peripherals
  PROVE  Good(ScanResult(wf, p), ops, radio)
<1>. DEFINE s == [wf EXCEPT !.found = @ \cup {p}]
<1>1. /\ s \in Workflows /\ s.mode = wf.mode /\ s.device = wf.device /\ s.phase = wf.phase
      /\ s.active = wf.active /\ s.waits = wf.waits
  BY DEF IInv, TypeOK, Workflows
<1>2. CASE wf.phase = "Scanning" /\ p \in wf.hint
  <2>. DEFINE t == [s EXCEPT !.active = p]
  <2>1. t \in Workflows /\ t.mode = wf.mode /\ t.device = wf.device
    <3>. HIDE DEF s
    <3>. QED  BY <1>1 DEF Workflows
  <2>2. ScanResult(wf, p) = StopScan(t)
    BY <1>2 DEF ScanResult
  <2>. HIDE DEF t
  <2>. QED  BY <1>2, <2>1, <2>2, StopScanGood
<1>3. CASE wf.phase = "Scanning" /\ p \notin wf.hint
  <2>1. ScanResult(wf, p) = Step(s, {})
    BY <1>3 DEF ScanResult
  <2>. HIDE DEF s
  <2>. QED  BY <1>1, <1>3, <2>1, ConsumedGood
<1>4. CASE wf.phase = "StoppingScan"
  BY <1>4, ConsumedGood DEF ScanResult, IInv, TypeOK
<1>5. CASE wf.phase \notin {"Scanning", "StoppingScan"}
  BY <1>5, RejectGood DEF ScanResult, IInv, IdInv, Verified, OnRadio
<1>. QED  BY <1>2, <1>3, <1>4, <1>5

\* The scan deadline ends the scan.
LEMMA ScanTimerGood ==
  ASSUME IInv, Running, wf.phase = "Scanning"
  PROVE  Good(ScanTimerFired(wf), ops, radio)
BY StopScanGood DEF ScanTimerFired, IInv, TypeOK

\* The scan stopped: the exact candidate, or the list of probes.
LEMMA ScanStoppedGood ==
  ASSUME IInv, Running, NEW o \in SUBSET ops
  PROVE  Good(ScanStopped(wf), o, radio)
<1>. DEFINE s == [wf EXCEPT !.waits = @ \ {"scan", "stop"}]
<1>1. s \in Workflows /\ s.mode = wf.mode /\ s.device = wf.device /\ s.active = wf.active
  BY DEF IInv, TypeOK, Workflows
<1>2. CASE wf.phase # "StoppingScan" \/ "stop" \notin wf.waits
  BY <1>2, RejectGood DEF ScanStopped, IInv, IdInv, Verified, OnRadio
<1>3. CASE wf.phase = "StoppingScan" /\ "stop" \in wf.waits /\ wf.active # Nobody
  <2>1. ScanStopped(wf) = BeginConnection(s, wf.active) /\ wf.active \in Peripherals
    BY <1>3 DEF ScanStopped, IInv, TypeOK, Workflows
  <2>. HIDE DEF s
  <2>2. Answer(wf, ScanStopped(wf)) /\ NextAttempt(ScanStopped(wf))
    <3>1. Answer(s, BeginConnection(s, wf.active)) /\ NextAttempt(BeginConnection(s, wf.active))
      BY <1>1, <2>1, BeginConnectionAnswer
    <3>. QED  BY <1>1, <2>1, <3>1 DEF Answer
  <2>. QED  BY <1>3, <2>2, QuietPhases, NextAttemptGood
<1>4. CASE wf.phase = "StoppingScan" /\ "stop" \in wf.waits /\ wf.active = Nobody
  <2>. DEFINE t == PrepareProbeCandidates(s)
  <2>1. ScanStopped(wf) = BeginNextProbe(t)
    BY <1>4 DEF ScanStopped
  <2>2. t \in Workflows /\ t.mode = wf.mode /\ t.device = wf.device
    BY <1>1, PrepareAnswer
  <2>. HIDE DEF t
  <2>3. Answer(t, BeginNextProbe(t)) /\ NextAttempt(BeginNextProbe(t))
    BY <2>2, BeginNextProbeAnswer
  <2>4. Answer(wf, ScanStopped(wf)) /\ NextAttempt(ScanStopped(wf))
    BY <2>1, <2>2, <2>3 DEF Answer
  <2>. QED  BY <1>4, <2>4, QuietPhases, NextAttemptGood
<1>. QED  BY <1>2, <1>3, <1>4

\* What the host settles is what a phase waits for, or one of an attempt that
\* was given up.
LEMMA SettledPhases ==
  ASSUME IInv, Running, NEW p \in Peripherals
  PROVE  /\ <<"Connect", p>> \in ops => wf.active = p /\ wf.phase \in {"Connecting", "Disconnecting"}
         /\ <<"Discover", p>> \in ops => wf.active = p /\ wf.phase \in {"Discovering", "Disconnecting"}
         /\ <<"Read", p>> \in ops => wf.active = p /\ wf.phase \in {"ReadingSerial", "Disconnecting"}
         /\ <<"Disconnect", p>> \in ops => wf.active = p /\ wf.phase = "Disconnecting"
         /\ <<"Save", p>> \in ops => wf.active = p /\ wf.phase = "Persisting"
         /\ <<"Release", p>> \notin ops
<1>1. \A k \in IoKinds : <<k, p>> \in ops => <<k, p>> \in Pending(wf)
  BY DEF IInv, IdInv, Verified, Owed, Io
<1>2. \A k \in IoKinds : <<k, p>> \in Pending(wf) =>
         /\ wf.active = p
         /\ wf.phase = "Disconnecting" \/ <<wf.phase, k>> \in
              {<<"Connecting", "Connect">>, <<"Discovering", "Discover">>, <<"ReadingSerial", "Read">>}
  <2>. TAKE k \in IoKinds
  <2>1. CASE wf.phase \notin Attempts \cup {"Disconnecting"}
    BY <2>1 DEF Pending, Attempts
  <2>2. CASE wf.phase \in Attempts \cup {"Disconnecting"}
    BY <2>2 DEF Pending, Attempts
  <2>. QED  BY <2>1, <2>2
<1>3. "Connect" \in IoKinds /\ "Discover" \in IoKinds /\ "Read" \in IoKinds
  BY DEF IoKinds
<1>. QED  BY <1>1, <1>2, <1>3 DEF IInv, IdInv, Verified, Owed

\* A workflow that no longer waits for k.
LEMMA WaitsAnswer ==
  ASSUME NEW w \in Workflows, NEW k \in SUBSET Awaited
  PROVE  LET s == [w EXCEPT !.waits = w.waits \ k]
         IN /\ s \in Workflows /\ s.mode = w.mode /\ s.device = w.device
            /\ s.phase = w.phase /\ s.active = w.active /\ s.waits \subseteq w.waits
BY DEF Workflows

\* A connection came up: reads go to its peripheral.
LEMMA ConnectedGood ==
  ASSUME IInv, Running, NEW p \in Peripherals, <<"Connect", p>> \in ops
  PROVE  Good(Connected(wf, p), ops \ {<<"Connect", p>>}, p)
<1>. DEFINE s == [wf EXCEPT !.waits = @ \ {"connect"}]
            r == Connected(wf, p)
            o == ops \ {<<"Connect", p>>}
<1>0. /\ s \in Workflows /\ s.mode = wf.mode /\ s.device = wf.device
      /\ s.phase = wf.phase /\ s.active = wf.active /\ s.waits \subseteq wf.waits
  BY WaitsAnswer DEF IInv, TypeOK, Awaited
<1>1. wf.active = p /\ wf.phase \in {"Connecting", "Disconnecting"}
  BY SettledPhases
<1>2. CASE ~ Expects(wf, "connect", p)
  BY <1>1, <1>2, RejectGood DEF Connected
<1>3. CASE Expects(wf, "connect", p) /\ wf.phase = "Disconnecting"
  <2>1. r = Step(s, {})
    BY <1>3 DEF Connected
  <2>. HIDE DEF r, s
  <2>2. Good(r, o, p)
    BY <1>0, <1>3, <2>1, ConsumedGood
  <2>. QED  BY <2>2 DEF r
<1>4. CASE Expects(wf, "connect", p) /\ wf.phase = "Connecting"
  <2>. DEFINE t == [s EXCEPT !.phase = "Discovering", !.waits = @ \cup {"discover"}]
  <2>1. s \in Workflows /\ s.mode = wf.mode /\ s.device = wf.device /\ s.active = p
    BY <1>0, <1>1
  <2>2. /\ t \in Workflows /\ t.mode = wf.mode /\ t.device = wf.device /\ t.active = p
        /\ t.phase = "Discovering" /\ "discover" \in t.waits
    <3>. HIDE DEF s
    <3>. QED  BY <2>1 DEF Workflows, Phases, Awaited
  <2>3. r = Step(t, {<<"Discover", p>>} \cup Checkpoint(wf))
    BY <1>4 DEF Connected
  <2>. HIDE DEF t, s
  <2>4. r.wf = t /\ r.rejected = FALSE /\ r.out \subseteq {<<"Discover", p>>, Op("Checkpoint")}
        /\ r.out \subseteq Effects
    BY <2>3, CheckpointAnswer, EffectTypes DEF Step, EffectKinds
  <2>. HIDE DEF r
  <2>5. Quiet(o)
    BY <1>1, <1>4, QuietPhases
  <2>6. (o \cup r.out) \cap Io \subseteq Pending(t)
    BY <2>2, <2>4, <2>5, EffectTypes DEF Quiet, Pending, Io, Op
  <2>7. \A q \in Peripherals, k \in {"Disconnect", "Release", "Save"} : <<k, q>> \notin o \cup r.out
    BY <2>4, <2>5 DEF Quiet, Op
  <2>8. Good(r, o, p)
    BY <2>2, <2>4, <2>6, <2>7 DEF Good, Owed, Armed, Attempts
  <2>. QED  BY <2>8 DEF r
<1>. QED  BY <1>1, <1>2, <1>3, <1>4

\* The services were discovered: the serial number is read.
LEMMA DiscoveredGood ==
  ASSUME IInv, Running, NEW p \in Peripherals, <<"Discover", p>> \in ops
  PROVE  Good(ServicesDiscovered(wf, p), ops \ {<<"Discover", p>>}, radio)
<1>. DEFINE s == [wf EXCEPT !.waits = @ \ {"discover"}]
            r == ServicesDiscovered(wf, p)
            o == ops \ {<<"Discover", p>>}
<1>0. /\ s \in Workflows /\ s.mode = wf.mode /\ s.device = wf.device
      /\ s.phase = wf.phase /\ s.active = wf.active /\ s.waits \subseteq wf.waits
  BY WaitsAnswer DEF IInv, TypeOK, Awaited
<1>1. wf.active = p /\ wf.phase \in {"Discovering", "Disconnecting"}
  BY SettledPhases
<1>2. wf.phase = "Discovering" => radio = p
  BY <1>1 DEF IInv, IdInv, Verified, OnRadio
<1>3. CASE ~ Expects(wf, "discover", p)
  BY <1>1, <1>2, <1>3, RejectGood DEF ServicesDiscovered
<1>4. CASE Expects(wf, "discover", p) /\ wf.phase = "Disconnecting"
  <2>1. r = Step(s, {})
    BY <1>4 DEF ServicesDiscovered
  <2>. HIDE DEF r, s
  <2>2. Good(r, o, radio)
    BY <1>0, <1>4, <2>1, ConsumedGood
  <2>. QED  BY <2>2 DEF r
<1>5. CASE Expects(wf, "discover", p) /\ wf.phase = "Discovering"
  <2>. DEFINE t == [s EXCEPT !.phase = "ReadingSerial", !.waits = @ \cup {"read"}]
  <2>1. /\ t \in Workflows /\ t.mode = wf.mode /\ t.device = wf.device /\ t.active = p
        /\ t.phase = "ReadingSerial"
    <3>. HIDE DEF s
    <3>. QED  BY <1>0, <1>1 DEF Workflows, Phases, Awaited
  <2>2. r = Step(t, {<<"Read", p>>})
    BY <1>5 DEF ServicesDiscovered
  <2>. HIDE DEF t, s
  <2>3. r.wf = t /\ r.rejected = FALSE /\ r.out = {<<"Read", p>>} /\ r.out \subseteq Effects
    BY <2>2, EffectTypes DEF Step, EffectKinds
  <2>. HIDE DEF r
  <2>4. (o \cup r.out) \cap Io \subseteq Pending(t)
    BY <1>1, <1>5, <2>1, <2>3 DEF IInv, IdInv, Verified, Owed, Pending, Io
  <2>5. \A q \in Peripherals, k \in {"Disconnect", "Release", "Save"} : <<k, q>> \notin o \cup r.out
    BY <1>5, <2>3 DEF IInv, IdInv, Verified, Owed
  <2>6. Good(r, o, radio)
    BY <1>2, <1>5, <2>1, <2>3, <2>4, <2>5 DEF Good, Owed, Armed, Attempts
  <2>. QED  BY <2>6 DEF r
<1>. QED  BY <1>1, <1>3, <1>4, <1>5

\* The serial number is the one of the peripheral the read went to.
LEMMA ReadGood ==
  ASSUME IInv, Running, NEW p \in Peripherals, <<"Read", p>> \in ops, radio \in Peripherals
  PROVE  Good(ReadCompleted(wf, p, serialOf[radio]), ops \ {<<"Read", p>>}, radio)
<1>. DEFINE serial == serialOf[radio]
            s == [wf EXCEPT !.waits = @ \ {"read"}]
            r == ReadCompleted(wf, p, serial)
            o == ops \ {<<"Read", p>>}
<1>0. /\ s \in Workflows /\ s.mode = wf.mode /\ s.device = wf.device
      /\ s.phase = wf.phase /\ s.active = wf.active /\ s.waits \subseteq wf.waits
  BY WaitsAnswer DEF IInv, TypeOK, Awaited
<1>1. wf.active = p /\ wf.phase \in {"ReadingSerial", "Disconnecting"}
  BY SettledPhases
<1>2. wf.phase = "ReadingSerial" => radio = p
  BY <1>1 DEF IInv, IdInv, Verified, OnRadio
<1>3. CASE ~ Expects(wf, "read", p)
  BY <1>1, <1>2, <1>3, RejectGood DEF ReadCompleted
<1>4. CASE Expects(wf, "read", p) /\ wf.phase = "Disconnecting"
  <2>1. r = Step(s, {})
    BY <1>4 DEF ReadCompleted
  <2>. HIDE DEF r, s
  <2>2. Good(r, o, radio)
    BY <1>0, <1>4, <2>1, ConsumedGood
  <2>. QED  BY <2>2 DEF r
<1>5. CASE /\ Expects(wf, "read", p) /\ wf.phase = "ReadingSerial"
           /\ serial \in Serials /\ wf.device \in {AnySerial, serial}
  <2>. DEFINE t == [s EXCEPT !.device = serial]
  <2>1. /\ t \in Workflows /\ t.mode = wf.mode /\ t.device = serial /\ t.active = p
    <3>. HIDE DEF s, serial
    <3>. QED  BY <1>0, <1>1, <1>5 DEF Workflows
  <2>2. r = BeginPersist(t)
    BY <1>5, <1>0 DEF ReadCompleted
  <2>. HIDE DEF t, s
  <2>3. /\ Answer(t, r) /\ r.wf.phase = "Persisting" /\ r.wf.active = p /\ "timer" \notin r.wf.waits
        /\ r.out \subseteq {<<"Save", p>>, Op("Checkpoint")}
    BY <2>1, <2>2, BeginPersistAnswer
  <2>. HIDE DEF r
  <2>4. wf.mode = "reconnect" => serial = wf.device
    BY <1>5, ConnectionReducerAssumption, ConnectionAssumption DEF IInv, IdInv, Verified
  <2>5. (o \cup r.out) \cap Io = {}
    BY <1>1, <1>5, <2>3, EffectTypes DEF IInv, IdInv, Verified, Owed, Pending, Io, IoKinds, Op
  <2>6. \A q \in Peripherals : <<"Disconnect", q>> \notin o \cup r.out /\ <<"Release", q>> \notin o \cup r.out
    BY <1>5, <2>3 DEF IInv, IdInv, Verified, Owed, Op
  <2>7. \A q \in Peripherals : <<"Save", q>> \in o \cup r.out => q = p
    BY <1>5, <2>3 DEF IInv, IdInv, Verified, Owed, Op
  <2>8. serialOf[p] = serial
    BY <1>2, <1>5
  <2>. HIDE DEF serial
  <2>9. Good(r, o, radio)
    BY <1>5, <2>1, <2>3, <2>4, <2>5, <2>6, <2>7, <2>8 DEF Good, Answer, Owed, Armed
  <2>. QED  BY <2>9 DEF r, serial
<1>6. CASE /\ Expects(wf, "read", p) /\ wf.phase = "ReadingSerial"
           /\ ~ (serial \in Serials /\ wf.device \in {AnySerial, serial})
  <2>1. r = BeginDisconnect(s)
    BY <1>6, <1>0 DEF ReadCompleted
  <2>. HIDE DEF r, s
  <2>2. Good(r, o, radio)
    BY <1>0, <1>6, <2>1, BeginDisconnectGood DEF Attempts
  <2>. QED  BY <2>2 DEF r
<1>. QED  BY <1>1, <1>3, <1>4, <1>5, <1>6

\* The attempt was given up and is over: the next one may start.
LEMMA FinishDisconnectGood ==
  ASSUME IInv, Running, wf.phase = "Disconnecting", NEW rad,
         NEW o \in SUBSET ops, o \cap Io = {}, <<"Disconnect", wf.active>> \notin o
  PROVE  Good(FinishDisconnect(wf), o, rad)
<1>1. Quiet(o)
  BY DEF Quiet, IInv, IdInv, Verified, Owed
<1>. QED  BY <1>1, FinishDisconnectAnswer, NextAttemptGood DEF IInv, TypeOK

\* The identity is saved: the application is told of the peripheral that answered it.
LEMMA SavedGood ==
  ASSUME IInv, Running, NEW p \in Peripherals, <<"Save", p>> \in ops
  PROVE  Good(IdentitySaved(wf), ops \ {<<"Save", p>>}, radio)
<1>. DEFINE r == IdentitySaved(wf)
            s == [wf EXCEPT !.phase = "Completed", !.waits = @ \ {"persist"}]
            o == ops \ {<<"Save", p>>}
<1>1. wf.active = p /\ wf.phase = "Persisting" /\ Answered(p)
  BY SettledPhases DEF IInv, IdInv, Verified
<1>2. CASE "persist" \notin wf.waits
  BY <1>1, <1>2, RejectGood DEF IdentitySaved
<1>3. CASE "persist" \in wf.waits
  <2>1. r = Step(s, {<<"Delete", Nobody>>})
    BY <1>1, <1>3 DEF IdentitySaved
  <2>2. /\ s \in Workflows /\ s.mode = wf.mode /\ s.device = wf.device /\ s.active = p
        /\ s.phase = "Completed"
    <3>1. wf \in Workflows
      BY DEF IInv, TypeOK
    <3>. QED  BY <3>1, <1>1 DEF Workflows, Phases
  <2>. HIDE DEF s
  <2>3. r.wf = s /\ r.rejected = FALSE /\ r.out = {<<"Delete", Nobody>>} /\ r.out \subseteq Effects
    BY <2>1, EffectTypes DEF Step, EffectKinds
  <2>. HIDE DEF r
  <2>4. \A q \in Peripherals : <<"Save", q>> \notin o \cup r.out
    BY <1>1, <2>3, SettledPhases
  <2>5. Good(r, o, radio)
    BY <1>1, <2>2, <2>3, <2>4 DEF Good, Answered
  <2>. QED  BY <2>5 DEF r
<1>. QED  BY <1>2, <1>3

\* The deadline of an attempt gives it up.
LEMMA AttemptTimerGood ==
  ASSUME IInv, Running, "timer" \in wf.waits
  PROVE  Good(AttemptTimerFired(wf), ops, radio)
BY BeginDisconnectGood DEF AttemptTimerFired, IInv, TypeOK, IdInv, Verified, Armed

\* A connection that failed: the next candidate, or the end.
LEMMA ConnectFailedGood ==
  ASSUME IInv, Running, NEW p \in Peripherals, <<"Connect", p>> \in ops
  PROVE  Good(ConnectFailed(wf, p), ops \ {<<"Connect", p>>}, radio)
<1>. DEFINE s == [wf EXCEPT !.waits = @ \ {"connect"}]
            r == ConnectFailed(wf, p)
            o == ops \ {<<"Connect", p>>}
<1>0. /\ s \in Workflows /\ s.mode = wf.mode /\ s.device = wf.device
      /\ s.phase = wf.phase /\ s.active = wf.active /\ s.waits \subseteq wf.waits
  BY WaitsAnswer DEF IInv, TypeOK, Awaited
<1>1. wf.active = p /\ wf.phase \in {"Connecting", "Disconnecting"}
  BY SettledPhases
<1>2. CASE ~ Expects(wf, "connect", p)
  BY <1>1, <1>2, RejectGood DEF ConnectFailed
<1>3. CASE Expects(wf, "connect", p) /\ wf.phase = "Disconnecting"
  <2>1. r = Step(s, {})
    BY <1>3 DEF ConnectFailed
  <2>. HIDE DEF r, s
  <2>2. Good(r, o, radio)
    BY <1>0, <1>3, <2>1, ConsumedGood
  <2>. QED  BY <2>2 DEF r
<1>4. ASSUME Expects(wf, "connect", p), wf.phase = "Connecting"
      PROVE  Answer(wf, r) /\ NextAttempt(r)
  <2>1. CASE wf.mode = "reconnect"
    <3>. DEFINE t == [s EXCEPT !.waits = @ \ {"timer"}]
                u == PrepareProbeCandidates(t)
    <3>1. t \in Workflows /\ t.mode = wf.mode /\ t.device = wf.device
      <4>. HIDE DEF s
      <4>. QED  BY <1>0 DEF Workflows
    <3>2. r = BeginNextProbe(u)
      BY <1>4, <2>1 DEF ConnectFailed
    <3>. HIDE DEF t
    <3>3. u \in Workflows /\ u.mode = wf.mode /\ u.device = wf.device
      BY <3>1, PrepareAnswer
    <3>. HIDE DEF u
    <3>4. Answer(u, BeginNextProbe(u)) /\ NextAttempt(BeginNextProbe(u))
      BY <3>3, BeginNextProbeAnswer
    <3>. QED  BY <3>2, <3>3, <3>4 DEF Answer
  <2>2. CASE wf.mode # "reconnect"
    <3>1. r = Fail(s)
      BY <1>4, <2>2 DEF ConnectFailed
    <3>. HIDE DEF s
    <3>2. Answer(s, Fail(s)) /\ Fail(s).wf.phase = "Failed" /\ Fail(s).out = {}
      BY <1>0, FailAnswer
    <3>. QED  BY <1>0, <3>1, <3>2 DEF Answer, NextAttempt
  <2>. QED  BY <2>1, <2>2
<1>5. CASE Expects(wf, "connect", p) /\ wf.phase = "Connecting"
  <2>1. Answer(wf, r) /\ NextAttempt(r)
    BY <1>4, <1>5
  <2>. HIDE DEF r
  <2>2. Good(r, o, radio)
    BY <1>1, <1>5, <2>1, QuietPhases, NextAttemptGood
  <2>. QED  BY <2>2 DEF r
<1>. QED  BY <1>1, <1>2, <1>3, <1>5

\* A discovery or a read that failed gives its attempt up, whoever owns the radio.
LEMMA AttemptFailedGood ==
  ASSUME IInv, Running, NEW p \in Peripherals, NEW rad,
         NEW kind \in {"discover", "read"}, NEW o \in SUBSET ops,
         wf.active = p,
         wf.phase = "Disconnecting" \/ (wf.phase \in Attempts /\ (rad = p \/ kind \in wf.waits))
  PROVE  Good(AttemptFailed(wf, kind, p), o, rad)
<1>. DEFINE s == [wf EXCEPT !.waits = @ \ {kind}]
            t == [wf EXCEPT !.waits = @ \ {"discover", "read"}]
            r == AttemptFailed(wf, kind, p)
<1>1. /\ s \in Workflows /\ s.mode = wf.mode /\ s.device = wf.device
      /\ s.phase = wf.phase /\ s.active = wf.active /\ s.waits \subseteq wf.waits
  BY ZenonT(60), WaitsAnswer DEF IInv, TypeOK, Awaited
<1>2. t \in Workflows /\ t.mode = wf.mode /\ t.device = wf.device /\ t.active = wf.active
  BY WaitsAnswer DEF IInv, TypeOK, Awaited
<1>3. CASE ~ Expects(wf, kind, p)
  BY <1>3, RejectGood DEF AttemptFailed, Expects
<1>4. CASE Expects(wf, kind, p) /\ wf.phase = "Disconnecting"
  <2>1. r = Step(s, {})
    BY <1>4 DEF AttemptFailed
  <2>. HIDE DEF r, s
  <2>2. Good(r, o, rad)
    BY <1>1, <1>4, <2>1, ConsumedGood
  <2>. QED  BY <2>2 DEF r
<1>5. CASE Expects(wf, kind, p) /\ wf.phase # "Disconnecting"
  <2>1. r = BeginDisconnect(t)
    BY <1>5 DEF AttemptFailed
  <2>. HIDE DEF r, t
  <2>2. Good(r, o, rad)
    BY <1>2, <1>5, <2>1, BeginDisconnectGood
  <2>. QED  BY <2>2 DEF r
<1>. QED  BY <1>3, <1>4, <1>5

\* An answer no arm expects.
LEMMA UnexpectedGood ==
  ASSUME IInv, Running, NEW o \in SUBSET ops
  PROVE  Good(UnexpectedFailure(wf), o, radio)
BY RejectGood DEF UnexpectedFailure, IInv, IdInv, Verified, OnRadio

-----------------------------------------------------------------------------
(* The host takes the answer. *)

\* What an answer may change.
CoreTypes ==
  /\ status \in Statuses /\ wf \in Workflows /\ ops \subseteq Effects
  /\ established \in Peripherals \cup {Nobody}

\* A workflow that is cancelled leaves saves behind, of what it has verified.
LEMMA CancellingKeeps ==
  ASSUME IInv, Running, NEW w, NEW rest \in SUBSET ops, w = wf,
         Cancelling(w, rest), UNCHANGED serialOf
  PROVE  CoreTypes' /\ Verified'
<1>1. CancelEffects(wf) \subseteq Effects /\ \A p \in Peripherals : <<"Save", p>> \notin CancelEffects(wf)
  BY EffectTypes DEF CancelEffects, EffectKinds, IInv, TypeOK, Workflows
<1>2. CoreTypes'
  BY <1>1 DEF CoreTypes, Cancelling, IInv, TypeOK, Statuses
<1>3. ~ Running' /\ established' = Nobody /\ wf' = wf
  BY DEF Cancelling, Running, IInv, IdInv, Verified
<1>4. \A p \in Peripherals : <<"Save", p>> \in ops' => <<"Save", p>> \in ops
  BY <1>1 DEF Cancelling
<1>. QED  BY <1>2, <1>3, <1>4 DEF Verified, OnRadio, Answered, IInv, IdInv

\* An answer that is good keeps the invariant.
LEMMA DispatchKeeps ==
  ASSUME IInv, Running, NEW r, NEW rest \in SUBSET ops, Good(r, rest, radio'),
         Dispatch(r, rest), UNCHANGED serialOf
  PROVE  CoreTypes' /\ Verified'
<1>1. CASE r.rejected /\ Js
  BY <1>1, CancellingKeeps DEF Dispatch, Refused, Good
<1>2. CASE r.rejected /\ ~ Js
  <2>1. wf' = wf /\ ops' = rest /\ UNCHANGED <<status, established>>
    BY <1>2 DEF Dispatch, Refused, Good
  <2>2. Owed(wf, rest) /\ Armed(wf) /\ established = Nobody
    BY <1>2 DEF IInv, IdInv, Verified, Owed
  <2>3. OnRadio'
    BY <1>2, <2>1 DEF OnRadio, Good
  <2>4. CoreTypes'
    BY <2>1 DEF CoreTypes, IInv, TypeOK
  <2>5. Running'
    BY <2>1 DEF Running
  <2>6. Owed(wf, rest)' /\ Armed(wf)'
    BY <2>1, <2>2 DEF Owed, Armed, Pending
  <2>. QED  BY <2>1, <2>2, <2>3, <2>4, <2>5, <2>6 DEF Verified, Answered, IInv, IdInv, Owed, Armed
<1>3. CASE ~ r.rejected
  <2>1. Accept(r, rest)
    BY <1>3 DEF Dispatch
  <2>2. wf' = r.wf /\ ops' = rest \cup r.out
    BY <2>1 DEF Accept
  <2>3. status' \in Statuses /\ (Running' <=> r.wf.phase \notin {"Completed", "Failed"})
    BY <2>1 DEF Accept, StatusOf, Running, Statuses, Good
  <2>4. established = Nobody
    BY DEF IInv, IdInv, Verified
  <2>5. established' = IF r.wf.phase = "Completed" THEN r.wf.active ELSE Nobody
    BY <2>1, <2>4 DEF Accept
  <2>6. CoreTypes'
    BY <2>2, <2>3, <2>5 DEF CoreTypes, Good, IInv, TypeOK, Workflows
  <2>7. Running' => Owed(wf', ops') /\ Armed(wf') /\ established' = Nobody
    BY <2>2, <2>3, <2>5 DEF Good
  <2>8. OnRadio'
    BY <2>2 DEF OnRadio, Good
  <2>9. \A p \in Peripherals : <<"Save", p>> \in ops' => wf'.device \in Serials /\ serialOf[p] = wf'.device
    BY <2>2 DEF Good
  <2>10. established' # Nobody => wf'.device \in Serials /\ serialOf[established'] = wf'.device
    BY <2>2, <2>5 DEF Good
  <2>11. wf'.mode = "reconnect" => wf'.device = Target
    BY <2>2 DEF Good, IInv, IdInv, Verified
  <2>. QED  BY <2>2, <2>3, <2>6, <2>7, <2>8, <2>9, <2>10, <2>11 DEF Verified, Answered
<1>. QED  BY <1>1, <1>2, <1>3 DEF Good

\* The result of an effect, of a workflow that runs or of one that is over.
LEMMA DeliverKeeps ==
  ASSUME IInv, NEW r, NEW rest \in SUBSET ops, Running => Good(r, rest, radio'),
         Deliver(r, rest), UNCHANGED serialOf
  PROVE  CoreTypes' /\ Verified'
<1>1. CASE Running
  BY <1>1, DispatchKeeps DEF Deliver
<1>2. CASE ~ Running
  BY <1>2 DEF Deliver, CoreTypes, Verified, OnRadio, Answered, Running, IInv, IdInv, TypeOK
<1>. QED  BY <1>1, <1>2

\* An action that only settles effects, or after which the application has no
\* connection.
LEMMA StillKeeps ==
  ASSUME IInv, UNCHANGED <<serialOf, status, wf>>, ops' \subseteq ops,
         established' \in {established, Nobody},
         radio' = radio \/ ~ Running \/ wf.phase \notin {"Discovering", "ReadingSerial"}
  PROVE  CoreTypes' /\ Verified'
<1>1. CoreTypes'
  BY DEF CoreTypes, IInv, TypeOK
<1>2. Running' <=> Running
  BY DEF Running
<1>3. Owed(wf, ops) => Owed(wf', ops')
  BY DEF Owed, Pending
<1>4. Armed(wf) => Armed(wf')
  BY DEF Armed
<1>. QED  BY <1>1, <1>2, <1>3, <1>4 DEF Verified, OnRadio, Answered, IInv, IdInv

\* A workflow starts with nothing under way.
LEMMA StartKeeps ==
  ASSUME IInv, MayStart, NEW r, r.wf \in Workflows, r.out \subseteq Effects,
         r.wf.phase \in {"Connecting", "Scanning"}, r.out \cap Io \subseteq Pending(r.wf),
         \A p \in Peripherals, k \in {"Disconnect", "Release", "Save"} : <<k, p>> \notin r.out,
         "timer" \in r.wf.waits => r.wf.phase = "Connecting",
         r.wf.mode = "reconnect" => r.wf.device = Target,
         Start(r)
  PROVE  IInv'
<1>1. /\ runs' = runs + 1 /\ wf' = r.wf /\ ops' = r.out /\ status' = "Running"
      /\ dialled' = {} /\ established' = Nobody
      /\ UNCHANGED <<world, scanning, stuck, established, saved, links, radio, priority, faults>>
  BY DEF Start, MayStart, OwnerFree
<1>2. TypeOK'
  BY <1>1, ConnectionAssumption DEF IInv, TypeOK, Statuses, MayStart, world
<1>3. Running' /\ Owed(wf', ops') /\ Armed(wf')
  BY <1>1 DEF Running, Owed, Armed, Attempts
<1>4. OnRadio'
  BY <1>1 DEF OnRadio
<1>. QED  BY <1>1, <1>2, <1>3, <1>4 DEF IInv, IdInv, Verified, world

\* The variables an action may change beside those.
RestTypes ==
  /\ scanning \in BOOLEAN /\ stuck \in BOOLEAN
  /\ links \subseteq Peripherals /\ radio \in Peripherals \cup {Nobody}
  /\ priority \in BOOLEAN /\ dialled \subseteq Peripherals
  /\ runs \in 0..MaxRuns /\ faults \in 0..MaxFaults

\* The two halves of the invariant, put together.
LEMMA Assemble ==
  ASSUME IInv, CoreTypes', Verified', RestTypes', UNCHANGED <<host, serialOf, saved>>
  PROVE  IInv'
BY DEF IInv, IdInv, TypeOK, CoreTypes, RestTypes

\* They have their types.
LEMMA RestOf == ASSUME IInv PROVE RestTypes
BY DEF IInv, TypeOK, RestTypes

\* A fault stays within its bound.
LEMMA FaultTypes ==
  ASSUME IInv, NEW kind, Fault(kind)
  PROVE  faults' \in 0..MaxFaults
BY ConnectionAssumption DEF Fault, IInv, TypeOK

\* Releasing the radio keeps its type.
LEMMA ReleaseTypes ==
  ASSUME IInv, NEW p, ReleaseRadio(p)
  PROVE  radio' \in Peripherals \cup {Nobody}
BY DEF ReleaseRadio, IInv, TypeOK

-----------------------------------------------------------------------------
(* One lemma for the actions of each part. *)

\* Starting, cancelling and disconnecting keep the invariant.
LEMMA ApplicationKeeps ==
  ASSUME IInv, Application
  PROVE  IInv'
<1>1. ASSUME NEW p \in Peripherals, NEW d \in {Target, AnySerial}, MayStart, Start(StartManual(d, p))
      PROVE  IInv'
  <2>. DEFINE w == Base("manual", d, {}, p)
              r == StartManual(d, p)
  <2>1. w \in Workflows /\ w.mode = "manual"
    BY <1>1, ConnectionAssumption DEF Base, Workflows, Modes, Phases
  <2>2. r = BeginConnection(w, p)
    BY DEF StartManual
  <2>. HIDE DEF w
  <2>3. Answer(w, r) /\ NextAttempt(r) /\ r.wf.phase = "Connecting" /\ r.wf.active = p
    BY <2>1, <2>2, BeginConnectionAnswer
  <2>4. Start(r)
    BY <1>1
  <2>. HIDE DEF r
  <2>5. r.out \cap Io \subseteq Pending(r.wf)
    BY <2>3, EffectTypes DEF NextAttempt, Io, Pending, Op
  <2>6. \A q \in Peripherals, k \in {"Disconnect", "Release", "Save"} : <<k, q>> \notin r.out
    BY <2>3 DEF NextAttempt, Op
  <2>. QED  BY <1>1, <2>1, <2>3, <2>4, <2>5, <2>6, StartKeeps DEF Answer
<1>2. ASSUME NEW hint \in Hints, MayStart, Start(StartReconnect(Target, hint))
      PROVE  IInv'
  <2>. DEFINE w == Base("reconnect", Target, hint, Nobody)
              r == StartReconnect(Target, hint)
  <2>1. /\ w \in Workflows /\ w.mode = "reconnect" /\ w.device = Target
    BY <1>2, ConnectionAssumption DEF Base, Workflows, Modes, Phases
  <2>2. r = BeginScan(w)
    BY DEF StartReconnect
  <2>. HIDE DEF w
  <2>3. /\ Answer(w, r) /\ r.wf.phase = "Scanning" /\ "timer" \notin r.wf.waits
        /\ r.out \subseteq {Op("StartScan"), Op("Checkpoint")}
    BY <2>1, <2>2, BeginScanAnswer
  <2>5. Start(r)
    BY <1>2
  <2>. HIDE DEF r
  <2>6. r.out \cap Io = {}
    BY <2>3, EffectTypes DEF Io, Op
  <2>7. \A q \in Peripherals, k \in {"Disconnect", "Release", "Save"} : <<k, q>> \notin r.out
    BY <2>3 DEF Op
  <2>. QED  BY <1>2, <2>1, <2>3, <2>5, <2>6, <2>7, StartKeeps DEF Answer
<1>3. CASE Cancel
  <2>1. CoreTypes' /\ Verified'
    BY <1>3, CancellingKeeps DEF Cancel, world
  <2>. QED  BY <1>3, <2>1, RestOf, Assemble DEF Cancel, world, air, RestTypes
<1>4. CASE Disconnect
  <2>1. CoreTypes' /\ Verified'
    BY <1>4, StillKeeps DEF Disconnect, world, OwnerFree
  <2>2. RestTypes'
    BY <1>4, RestOf, ReleaseTypes DEF Disconnect, RestTypes
  <2>. QED  BY <1>4, <2>1, <2>2, Assemble DEF Disconnect, world
<1>. QED  BY <1>1, <1>2, <1>3, <1>4 DEF Application, Connect, Reconnect

\* So do the scan, its deadline and its failures.
LEMMA ScanKeeps ==
  ASSUME IInv, ScanSettles \/ ScanDeadline \/ \E p \in Peripherals : Advertise(p)
  PROVE  IInv'
<1>1. CASE StartScan
  <2>1. CoreTypes' /\ Verified'
    BY <1>1, StillKeeps DEF StartScan, world, air
  <2>. QED  BY <1>1, <2>1, RestOf, Assemble DEF StartScan, world, air, RestTypes, Running
<1>2. CASE StartScanFails
  <2>1. CoreTypes' /\ Verified'
    BY <1>2, UnexpectedGood, DeliverKeeps DEF StartScanFails, Settle, world, air
  <2>. QED  BY <1>2, <2>1, RestOf, FaultTypes, Assemble DEF StartScanFails, world, air, RestTypes
<1>3. CASE ScanStops
  <2>1. CoreTypes' /\ Verified'
    BY <1>3, ScanStoppedGood, DeliverKeeps DEF ScanStops, Settle, world, air
  <2>. QED  BY <1>3, <2>1, RestOf, Assemble DEF ScanStops, world, air, RestTypes
<1>4. CASE StopScanFails
  <2>1. CoreTypes' /\ Verified'
    BY <1>4, UnexpectedGood, DeliverKeeps DEF StopScanFails, Settle, world, air
  <2>. QED  BY <1>4, <2>1, RestOf, FaultTypes, Assemble DEF StopScanFails, world, air, RestTypes
<1>5. CASE ScanDeadline
  <2>1. CoreTypes' /\ Verified'
    BY <1>5, ScanTimerGood, DispatchKeeps DEF ScanDeadline, world, air
  <2>. QED  BY <1>5, <2>1, RestOf, Assemble DEF ScanDeadline, world, air, RestTypes
<1>6. ASSUME NEW p \in Peripherals, Advertise(p)
      PROVE  IInv'
  <2>1. CoreTypes' /\ Verified'
    BY <1>6, ScanResultGood, DispatchKeeps DEF Advertise, world, air
  <2>. QED  BY <1>6, <2>1, RestOf, Assemble DEF Advertise, world, air, RestTypes
<1>. QED  BY <1>1, <1>2, <1>3, <1>4, <1>5, <1>6 DEF ScanSettles

\* So does the deadline of an attempt.
LEMMA AttemptDeadlineKeeps ==
  ASSUME IInv, AttemptDeadline
  PROVE  IInv'
<1>1. CoreTypes' /\ Verified'
  BY AttemptTimerGood, DispatchKeeps DEF AttemptDeadline, world, air
<1>. QED  BY <1>1, RestOf, Assemble DEF AttemptDeadline, world, air, RestTypes

\* So does whatever happens to an attempt.
LEMMA AttemptKeeps ==
  ASSUME IInv, NEW p \in Peripherals,
         Dial(p) \/ AttemptSettles(p) \/ DiscoverTimesOut(p) \/ LinkLost(p)
  PROVE  IInv'
<1>1. CASE Dial(p)
  <2>1. wf.phase \in {"Connecting", "Disconnecting"}
    BY <1>1, SettledPhases DEF Dial, ToDial, MayRun
  <2>2. CoreTypes' /\ Verified'
    BY <1>1, <2>1, StillKeeps DEF Dial, world, core
  <2>3. RestTypes'
    BY <1>1, RestOf DEF Dial, core, RestTypes, Acquire, Manual
  <2>. QED  BY <1>1, <2>2, <2>3, Assemble DEF Dial, world, core
<1>2. CASE ConnectUp(p)
  <2>1. CoreTypes' /\ Verified'
    BY <1>2, ConnectedGood, DeliverKeeps DEF ConnectUp, MayRun, Settle, world
  <2>. QED  BY <1>2, <2>1, RestOf, Assemble DEF ConnectUp, world, RestTypes
<1>3. CASE ConnectFails(p)
  <2>1. CoreTypes' /\ Verified'
    BY <1>3, ConnectFailedGood, DeliverKeeps DEF ConnectFails, MayRun, Settle, world, air
  <2>. QED  BY <1>3, <2>1, RestOf, Assemble DEF ConnectFails, world, air, RestTypes
<1>4. CASE ConnectUncertain(p)
  <2>1. CoreTypes' /\ Verified'
    BY <1>4, StillKeeps DEF ConnectUncertain, world
  <2>. QED  BY <1>4, <2>1, RestOf, FaultTypes, Assemble DEF ConnectUncertain, world, RestTypes
<1>5. CASE Discovers(p)
  <2>1. CoreTypes' /\ Verified'
    BY <1>5, DiscoveredGood, DeliverKeeps DEF Discovers, MayRun, Settle, world, air
  <2>. QED  BY <1>5, <2>1, RestOf, Assemble DEF Discovers, world, air, RestTypes
<1>6. CASE Reads(p)
  <2>1. radio \in Peripherals /\ <<"Read", p>> \in ops
    BY <1>6 DEF Reads, MayRun, IInv, TypeOK
  <2>2. CoreTypes' /\ Verified'
    BY <1>6, <2>1, ReadGood, DeliverKeeps DEF Reads, Settle, world, air
  <2>. QED  BY <1>6, <2>2, RestOf, Assemble DEF Reads, world, air, RestTypes
<1>7. CASE VerificationFails(p)
  <2>1. ASSUME NEW kind \in {"discover", "read"}, NEW op \in ops, Running,
               op = <<"Discover", p>> \/ op = <<"Read", p>>
        PROVE  Good(AttemptFailed(wf, kind, p), ops \ {op}, radio)
    <3>1. wf.active = p /\ wf.phase \in {"Discovering", "ReadingSerial", "Disconnecting"}
      BY <2>1, SettledPhases
    <3>2. wf.phase # "Disconnecting" => radio = p
      BY <2>1, <3>1 DEF IInv, IdInv, Verified, OnRadio
    <3>. QED  BY <2>1, <3>1, <3>2, AttemptFailedGood DEF Attempts
  <2>2. CoreTypes' /\ Verified'
    <3>1. CASE MayRun(<<"Discover", p>>) /\ Settle(<<"Discover", p>>, AttemptFailed(wf, "discover", p))
      BY <1>7, <2>1, <3>1, DeliverKeeps DEF VerificationFails, MayRun, Settle, world, air
    <3>2. CASE MayRun(<<"Read", p>>) /\ Settle(<<"Read", p>>, AttemptFailed(wf, "read", p))
      BY <1>7, <2>1, <3>2, DeliverKeeps DEF VerificationFails, MayRun, Settle, world, air
    <3>. QED  BY <1>7, <3>1, <3>2 DEF VerificationFails
  <2>. QED  BY <1>7, <2>2, RestOf, Assemble DEF VerificationFails, world, air, RestTypes
<1>8. CASE DiscoverTimesOut(p)
  <2>1. <<"Discover", p>> \in ops
    BY <1>8 DEF DiscoverTimesOut, MayRun
  <2>2. Running => wf.active = p /\ wf.phase \in {"Discovering", "Disconnecting"}
    BY <2>1, SettledPhases
  <2>3. Running /\ wf.phase = "Discovering" => "discover" \in wf.waits
    BY DEF IInv, IdInv, Verified, Armed
  <2>4. Running => Good(AttemptFailed(wf, "discover", p), ops \ {<<"Discover", p>>}, radio')
    BY <2>2, <2>3, AttemptFailedGood DEF Attempts
  <2>5. CoreTypes' /\ Verified'
    BY <1>8, <2>4, DeliverKeeps DEF DiscoverTimesOut, Settle, world
  <2>6. RestTypes'
    BY <1>8, RestOf, ReleaseTypes DEF DiscoverTimesOut, RestTypes
  <2>. QED  BY <1>8, <2>5, <2>6, Assemble DEF DiscoverTimesOut, world
<1>9. CASE LinkLost(p)
  <2>1. ~ Running \/ radio' = radio
    BY <1>9, EffectTypes DEF LinkLost, IInv, IdInv, Verified
  <2>2. CoreTypes' /\ Verified'
    BY <1>9, <2>1, StillKeeps DEF LinkLost, world
  <2>3. RestTypes'
    BY <1>9, RestOf, FaultTypes, ReleaseTypes DEF LinkLost, RestTypes
  <2>. QED  BY <1>9, <2>2, <2>3, Assemble DEF LinkLost, world
<1>. QED  BY <1>1, <1>2, <1>3, <1>4, <1>5, <1>6, <1>7, <1>8, <1>9 DEF AttemptSettles

\* So do disconnections, of an attempt or of a cancelled workflow.
LEMMA DisconnectKeeps ==
  ASSUME IInv, NEW p \in Peripherals, DisconnectSettles(p)
  PROVE  IInv'
<1>1. CASE DisconnectSkipped(p)
  <2>1. CoreTypes' /\ Verified'
    BY <1>1, StillKeeps DEF DisconnectSkipped, world, air
  <2>. QED  BY <1>1, <2>1, RestOf, Assemble DEF DisconnectSkipped, world, air, RestTypes
<1>2. ASSUME NEW kind \in {"Disconnect", "Release"}, Disconnects(p, kind)
      PROVE  IInv'
  <2>1. Running => kind = "Disconnect" /\ wf.active = p /\ wf.phase = "Disconnecting"
    BY <1>2, SettledPhases DEF Disconnects, MayRun
  <2>2. Drop(p, kind) \in SUBSET ops
    BY DEF Drop
  <2>3. Running => Drop(p, kind) \cap Io = {} /\ <<"Disconnect", p>> \notin Drop(p, kind)
    BY <1>2, <2>1 DEF Disconnects, MayRun, Drop, Io, IoKinds, IInv, IdInv, Verified, Owed, Pending
  <2>4. Running => Good(Disconnected(wf, p), Drop(p, kind), radio')
    <3>1. CASE ~ Expects(wf, "disconnect", p)
      BY <2>1, <2>2, <3>1, RejectGood DEF Disconnected
    <3>2. CASE Expects(wf, "disconnect", p)
      BY <2>1, <2>2, <2>3, <3>2, FinishDisconnectGood DEF Disconnected
    <3>. QED  BY <3>1, <3>2
  <2>5. CoreTypes' /\ Verified'
    BY <1>2, <2>2, <2>4, DeliverKeeps DEF Disconnects, world
  <2>6. RestTypes'
    BY <1>2, RestOf, ReleaseTypes DEF Disconnects, RestTypes
  <2>. QED  BY <1>2, <2>5, <2>6, Assemble DEF Disconnects, world
<1>3. ASSUME NEW kind \in {"Disconnect", "Release"}, DisconnectFails(p, kind)
      PROVE  IInv'
  <2>. DEFINE rest == ops \ {<<kind, p>>}
  <2>1. Running => kind = "Disconnect" /\ wf.active = p /\ wf.phase = "Disconnecting"
    BY <1>3, SettledPhases DEF DisconnectFails, MayRun
  <2>2. Running => ops \cap Io = {}
    BY <1>3, <2>1 DEF DisconnectFails, MayRun
  <2>3. Running => Good(DisconnectFailed(wf, p), rest, radio')
    <3>1. CASE ~ Expects(wf, "disconnect", p)
      BY <2>1, <3>1, RejectGood DEF DisconnectFailed
    <3>2. CASE Expects(wf, "disconnect", p)
      BY <1>3, <2>1, <2>2, <3>2, FinishDisconnectGood DEF DisconnectFailed, DisconnectFails, air
    <3>. QED  BY <3>1, <3>2
  <2>4. CoreTypes' /\ Verified'
    BY <1>3, <2>3, DeliverKeeps DEF DisconnectFails, Settle, world
  <2>5. RestTypes'
    BY <1>3, RestOf, FaultTypes DEF DisconnectFails, RestTypes, air
  <2>. QED  BY <1>3, <2>4, <2>5, Assemble DEF DisconnectFails, world
<1>. QED  BY <1>1, <1>2, <1>3 DEF DisconnectSettles

\* So does persistence.
LEMMA PersistenceKeeps ==
  ASSUME IInv, PersistenceSettles
  PROVE  IInv'
<1>1. CASE CheckpointSaved
  <2>1. CoreTypes' /\ Verified'
    BY <1>1, StillKeeps DEF CheckpointSaved, world, air
  <2>. QED  BY <1>1, <2>1, RestOf, Assemble DEF CheckpointSaved, world, air, RestTypes
<1>2. CASE CheckpointFails
  <2>1. CoreTypes' /\ Verified'
    BY <1>2, UnexpectedGood, DeliverKeeps DEF CheckpointFails, Settle, world, air
  <2>. QED  BY <1>2, <2>1, RestOf, FaultTypes, Assemble DEF CheckpointFails, world, air, RestTypes
<1>3. CASE DeletesCheckpoint
  <2>1. CoreTypes' /\ Verified'
    BY <1>3, StillKeeps DEF DeletesCheckpoint, world, air
  <2>. QED  BY <1>3, <2>1, RestOf, FaultTypes, Assemble DEF DeletesCheckpoint, world, air, RestTypes
<1>4. ASSUME NEW p \in Peripherals, SavesIdentity(p)
      PROVE  IInv'
  <2>1. <<"Save", p>> \in ops /\ Answered(p)
    BY <1>4 DEF SavesIdentity, MayRun, IInv, IdInv, Verified
  <2>2. CoreTypes' /\ Verified'
    BY <1>4, <2>1, SavedGood, DeliverKeeps DEF SavesIdentity, Settle, world, air
  <2>3. RestTypes'
    BY <1>4, RestOf DEF SavesIdentity, air, RestTypes
  <2>4. /\ saved' \in [Serials -> Peripherals \cup {Nobody}]
        /\ \A s \in Serials : saved'[s] # Nobody => serialOf[saved'[s]] = s
    BY <1>4, <2>1 DEF SavesIdentity, Answered, IInv, IdInv, TypeOK
  <2>. QED  BY <1>4, <2>2, <2>3, <2>4 DEF SavesIdentity, world, IInv, IdInv, TypeOK, CoreTypes, RestTypes
<1>5. ASSUME NEW p \in Peripherals, SaveFails(p)
      PROVE  IInv'
  <2>1. CoreTypes' /\ Verified'
    BY <1>5, UnexpectedGood, DeliverKeeps DEF SaveFails, Settle, world, air
  <2>. QED  BY <1>5, <2>1, RestOf, FaultTypes, Assemble DEF SaveFails, world, air, RestTypes
<1>. QED  BY <1>1, <1>2, <1>3, <1>4, <1>5 DEF PersistenceSettles

-----------------------------------------------------------------------------
(* The theorems. *)

\* Every initial state satisfies the inductive invariant.
LEMMA InitHolds == Init => IInv
<1>. SUFFICES ASSUME Init PROVE IInv
  OBVIOUS
<1>1. wf \in Workflows /\ wf.mode = "manual"
  BY ConnectionAssumption DEF Init, Base, Workflows, Modes, Phases
<1>2. TypeOK
  <2>1. saved \in [Serials -> Peripherals \cup {Nobody}] /\ status \in Statuses
    BY DEF Init, Statuses
  <2>2. runs \in 0..MaxRuns /\ faults \in 0..MaxFaults
    BY ConnectionAssumption DEF Init
  <2>. QED  BY <1>1, <2>1, <2>2 DEF Init, TypeOK
<1>3. ~ Running
  BY DEF Init, Running
<1>. QED  BY <1>1, <1>2, <1>3 DEF Init, IInv, IdInv, Verified, OnRadio

\* Every step keeps it.
LEMMA NextKeeps == IInv /\ [Next]_vars => IInv'
<1>. SUFFICES ASSUME IInv, [Next]_vars PROVE IInv'
  OBVIOUS
<1>1. CASE Application \/ Timers \/ ScanSettles \/ PersistenceSettles
  BY <1>1, AttemptDeadlineKeeps, ApplicationKeeps, ScanKeeps, PersistenceKeeps DEF Timers
<1>2. ASSUME NEW p \in Peripherals,
             Advertise(p) \/ Dial(p) \/ AttemptSettles(p) \/ DiscoverTimesOut(p)
             \/ LinkLost(p) \/ DisconnectSettles(p)
      PROVE  IInv'
  BY <1>2, ScanKeeps, AttemptKeeps, DisconnectKeeps
<1>3. CASE UNCHANGED vars
  <2>1. CoreTypes' /\ Verified'
    BY <1>3, StillKeeps DEF vars, world, core, air
  <2>. QED  BY <1>3, <2>1, RestOf, Assemble DEF vars, world, core, air, RestTypes
<1>. QED  BY <1>1, <1>2, <1>3 DEF Next

\* The inductive invariant holds in every state the connection reaches.
LEMMA Invariance == Spec => []IInv
BY InitHolds, NextKeeps, PTL DEF Spec

\* Every variable keeps its type, for every set of peripherals and serial numbers,
\* every hint, every fault and both hosts.
THEOREM TypeInvariant == Spec => []TypeOK
<1>1. IInv => TypeOK
  BY DEF IInv
<1>. QED  BY <1>1, Invariance, PTL

\* What is saved as the device of a serial number, and what the application is told
\* it is connected to, answered that serial number (ReadCompleted, begin_persist
\* and IdentitySaved of connection.rs, over both hosts).
THEOREM IdentityHolds == Spec => []IdentityVerified
<1>1. IInv => IdentityVerified
  BY ConnectionAssumption DEF IInv, IdInv, Verified, Answered, IdentityVerified
<1>. QED  BY <1>1, Invariance, PTL

\* An attempt that was given up is disconnected before the workflow goes on, and what
\* is under way on the radio is on the active candidate (begin_disconnect and
\* finish_disconnect of connection.rs, the lane of executor.ts, the disconnection
\* that bypasses it on Apple).
THEOREM RetiredFirstHolds == Spec => []RetiredFirst
<1>1. IInv => RetiredFirst
  <2>. SUFFICES ASSUME IInv, Running PROVE
         /\ ops \cap ({"Disconnect"} \X Peripherals) # {} => wf.phase = "Disconnecting"
         /\ \A op \in ops \cap Io : op[2] = wf.active
    BY DEF RetiredFirst
  <2>1. \A p \in Peripherals : <<"Disconnect", p>> \in ops => wf.phase = "Disconnecting"
    BY SettledPhases
  <2>2. \A k \in IoKinds, p \in Peripherals : <<k, p>> \in ops => p = wf.active
    BY SettledPhases DEF IoKinds
  <2>. QED  BY <2>1, <2>2 DEF Io
<1>. QED  BY <1>1, Invariance, PTL

-----------------------------------------------------------------------------
(* Ranks. *)

\* How many of P come before p.
Rank(P, p) == Cardinality({q \in P : q < p})

\* A set of naturals that is not empty has a least member.
LEMMA Least ==
  ASSUME NEW T \in SUBSET Nat, T # {}
  PROVE  \E m \in T : \A t \in T : m <= t
<1>1. PICK m \in T : \A t \in T : ~ (<<t, m>> \in OpToRel(<, Nat))
  BY NatLessThanWellFounded, WFMin
<1>2. \A t \in T : ~ (t < m)
  BY <1>1 DEF OpToRel
<1>. QED  BY <1>2

\* The members before one are finitely many.
LEMMA RankType ==
  ASSUME NEW P \in SUBSET Nat, IsFiniteSet(P), NEW p \in Nat
  PROVE  IsFiniteSet({q \in P : q < p}) /\ Rank(P, p) \in Nat
BY FS_Subset, FS_CardinalityType DEF Rank

\* A member with others before it has one just before it.
LEMMA RankPredecessor ==
  ASSUME NEW P \in SUBSET Nat, IsFiniteSet(P), NEW p \in P, Rank(P, p) # 0
  PROVE  \E k \in P : k < p /\ Rank(P, p) = Rank(P, k) + 1
<1>. DEFINE B == {q \in P : q < p}
            T == {p - q : q \in B}
<1>1. B # {} /\ IsFiniteSet(B)
  BY RankType, FS_EmptySet DEF Rank
<1>2. T \in SUBSET Nat /\ T # {}
  <2>1. \A q \in B : p - q \in Nat
    OBVIOUS
  <2>2. PICK q \in B : TRUE
    BY <1>1
  <2>3. p - q \in T
    BY <2>2
  <2>. HIDE DEF B
  <2>. QED  BY <2>1, <2>3
<1>3. PICK m \in T : \A t \in T : m <= t
  BY <1>2, Least
<1>4. PICK k \in B : m = p - k
  BY <1>3
<1>5. \A q \in B : q <= k
  <2>1. \A q \in B : p - k <= p - q
    BY <1>3, <1>4
  <2>. QED  BY <2>1, <1>4
<1>6. B = {q \in P : q < k} \cup {k}
  <2>1. \A q \in B : q < k \/ q = k
    <3>1. \A q \in B : q \in Nat /\ k \in Nat
      OBVIOUS
    <3>. QED  BY <1>5, <3>1
  <2>2. \A q \in P : q < k => q < p
    BY <1>4
  <2>. QED  BY <2>1, <2>2, <1>4
<1>7. IsFiniteSet({q \in P : q < k}) /\ k \notin {q \in P : q < k}
  BY <1>4, RankType
<1>8. Cardinality(B) = Rank(P, k) + 1
  BY <1>6, <1>7, FS_AddElement DEF Rank
<1>. QED  BY <1>4, <1>8 DEF Rank

\* Ranks have no gaps.
LEMMA RankNoGap ==
  ASSUME NEW P \in SUBSET Nat, IsFiniteSet(P), NEW i \in Nat, \A p \in P : Rank(P, p) # i
  PROVE  \A p \in P : Rank(P, p) < i
<1>. DEFINE T == {p \in P : Rank(P, p) >= i}
<1>1. \A p \in P : Rank(P, p) \in Nat
  BY RankType
<1>2. CASE T = {}
  BY <1>1, <1>2
<1>3. CASE T # {}
  <2>1. PICK m \in T : \A t \in T : m <= t
    BY <1>3, Least
  <2>2. m \in P /\ Rank(P, m) > i
    BY <1>1, <2>1
  <2>3. PICK k \in P : k < m /\ Rank(P, m) = Rank(P, k) + 1
    BY <1>1, <2>2, RankPredecessor
  <2>4. k \in T
    BY <1>1, <2>2, <2>3
  <2>. QED  BY <2>1, <2>2, <2>3, <2>4
<1>. QED  BY <1>2, <1>3

\* No two members have the same rank.
LEMMA RankInjective ==
  ASSUME NEW P \in SUBSET Nat, IsFiniteSet(P), NEW p \in P, NEW q \in P, p < q
  PROVE  Rank(P, p) < Rank(P, q)
<1>. DEFINE A == {x \in P : x < p}
            B == {x \in P : x < q}
<1>1. IsFiniteSet(A) /\ IsFiniteSet(B) /\ Rank(P, p) \in Nat /\ Rank(P, q) \in Nat
  BY RankType
<1>2. A \cup {p} \subseteq B /\ p \notin A
  <2>1. \A x \in P : x \in Nat
    OBVIOUS
  <2>2. \A x \in P : x < p => x < q
    BY <2>1
  <2>3. A \subseteq B /\ p \in B
    BY <2>2
  <2>4. ~ (p < p)
    BY <2>1
  <2>. QED  BY <2>3, <2>4
<1>3. Cardinality(A \cup {p}) = Cardinality(A) + 1
  BY <1>1, <1>2, FS_AddElement
<1>4. Cardinality(A \cup {p}) <= Cardinality(B)
  BY <1>1, <1>2, FS_Subset
<1>. QED  BY <1>1, <1>3, <1>4 DEF Rank
-----------------------------------------------------------------------------
(* The links, the scan and the candidates.                                     *)

\* No disconnection of an attempt that was given up fails.
Severed == "disconnect" \notin Faults

\* A workflow that connects waits for the result; unless a disconnection may fail, its
\* link is the one of its active candidate, and only from its connection on.
Held(w, l) ==
  /\ w.phase = "Connecting" => "connect" \in w.waits
  /\ Severed =>
       /\ l \subseteq {w.active}
       /\ w.phase \in {"Scanning", "StoppingScan", "Connecting", "Failed"} => l = {}

\* Likewise a workflow that is over has no link but the application's, and none coming,
\* or its release is still to come.
Owned ==
  /\ status = "Failed" => wf.phase = "Failed"
  /\ Running => Held(wf, links)
  /\ ~ Running /\ Severed =>
       /\ links \subseteq {wf.active}
       /\ \A p \in Peripherals : <<"Connect", p>> \in ops => p = wf.active
       /\ \/ stuck \/ <<"Release", wf.active>> \in ops
          \/ links \subseteq {established} /\ \A p \in Peripherals : <<"Connect", p>> \notin ops

\* A scan is stopped, or its workflow still waits for it.
Scans ==
  scanning \/ (Running /\ Op("StartScan") \in ops) =>
    Op("StopScan") \in ops \/ (Running /\ wf.phase = "Scanning")

\* The candidates that were not tried.
Left(w) == (w.found \cap Named) \ w.tried

\* They are on the list of probes, at or after i.
Search(w, i) ==
  /\ Left(w) \subseteq w.probes /\ w.probes \subseteq w.found
  /\ \A p \in w.probes : Rank(w.probes, p) < i => p \in w.tried

\* A reconnection goes through its candidates in order.
Sought(w) ==
  /\ IsFiniteSet(w.found)
  /\ w.mode = "reconnect" =>
       /\ w.outcome # "fail"
       /\ w.phase \in {"Scanning", "StoppingScan"} => w.probes = {}
       /\ w.phase = "Failed" => Left(w) = {}
       /\ w.phase \notin {"Scanning", "StoppingScan", "Failed"} =>
            /\ w.active \in w.tried
            /\ w.probes # {} => Search(w, w.index + 1)

LnkInv == Owned /\ Scans /\ Sought(wf)

\* What an answer r must leave when the operations o and the links l remain.
Tidy(r, o, l) ==
  /\ Held(r.wf, l) /\ Sought(r.wf)
  /\ Op("StartScan") \notin r.out
  /\ wf.phase = "Scanning" => r.wf.phase = "Scanning" \/ Op("StopScan") \in r.out
  /\ r.wf.phase \in {"Completed", "Failed"} =>
       \A p \in Peripherals : <<"Connect", p>> \notin o \cup r.out

\* The two agree on the candidates.
SameSearch(v, w) ==
  /\ v.mode = w.mode /\ v.found = w.found /\ v.probes = w.probes /\ v.index = w.index
  /\ v.tried = w.tried /\ v.active = w.active

\* An event that is refused.
LEMMA RejectTidy ==
  ASSUME IInv, Running, Sought(wf), NEW o, NEW l, Held(wf, l)
  PROVE  Tidy(Reject(wf), o, l)
BY DEF Tidy, Reject, IInv, IdInv, Verified

\* An event that is consumed.
LEMMA ConsumedTidy ==
  ASSUME IInv, Running, Sought(wf), NEW o, NEW l, Held(wf, l), wf.phase # "Connecting",
         NEW w, SameSearch(w, wf), w.phase = wf.phase, w.outcome = wf.outcome
  PROVE  Tidy(Step(w, {}), o, l)
BY DEF Tidy, Step, SameSearch, Held, Sought, Left, Search, IInv, IdInv, Verified

\* What BeginConnection does to the candidates.
LEMMA BeginConnectionFields ==
  ASSUME NEW u \in Workflows, NEW p \in Peripherals
  PROVE  LET r == BeginConnection(u, p)
         IN /\ r.wf.mode = u.mode /\ r.wf.found = u.found /\ r.wf.probes = u.probes
            /\ r.wf.index = u.index /\ r.wf.outcome = u.outcome
            /\ r.wf.tried = u.tried \cup {p} /\ r.wf.active = p
            /\ r.wf.phase = "Connecting" /\ "connect" \in r.wf.waits
            /\ r.out \subseteq {<<"Connect", p>>, Op("Checkpoint")}
<1>1. BeginConnection(u, p).out \subseteq {<<"Connect", p>>, Op("Checkpoint")}
  BY CheckpointAnswer DEF BeginConnection, Step
<1>. QED  BY <1>1 DEF BeginConnection, Step, Workflows

\* An attempt may start when nothing of the last one is left.
LEMMA BeginConnectionTidy ==
  ASSUME IInv, Running, wf.phase # "Scanning", NEW o, NEW l, Severed => l = {}, NEW u \in Workflows, NEW p \in Peripherals,
         IsFiniteSet(u.found),
         u.mode = "reconnect" =>
           u.outcome # "fail" /\ (u.probes # {} => Search([u EXCEPT !.tried = @ \cup {p}], u.index + 1))
  PROVE  Tidy(BeginConnection(u, p), o, l)
<1>. DEFINE r == BeginConnection(u, p)
            t == [u EXCEPT !.tried = @ \cup {p}]
<1>1. /\ r.wf.mode = u.mode /\ r.wf.found = u.found /\ r.wf.probes = u.probes
      /\ r.wf.index = u.index /\ r.wf.outcome = u.outcome
      /\ r.wf.tried = u.tried \cup {p} /\ r.wf.active = p
      /\ r.wf.phase = "Connecting" /\ "connect" \in r.wf.waits
      /\ r.out \subseteq {<<"Connect", p>>, Op("Checkpoint")}
  BY BeginConnectionFields
<1>2. t.found = u.found /\ t.probes = u.probes /\ t.tried = u.tried \cup {p} /\ t.index = u.index
  BY DEF Workflows
<1>. HIDE DEF r, t
<1>3. u.probes # {} /\ u.mode = "reconnect" => Search(r.wf, r.wf.index + 1)
  BY <1>1, <1>2 DEF Search, Left, t
<1>4. Sought(r.wf)
  BY <1>1, <1>3 DEF Sought
<1>5. Held(r.wf, l)
  BY <1>1 DEF Held
<1>6. Op("StartScan") \notin r.out
  BY <1>1 DEF Op
<1>7. Tidy(r, o, l)
  BY <1>1, <1>4, <1>5, <1>6 DEF Tidy
<1>. QED  BY <1>7 DEF r

\* The candidate at the index is the one that is tried next; without one all were.
LEMMA BeginNextProbeTidy ==
  ASSUME IInv, Running, wf.phase # "Scanning", NEW o, Quiet(o), NEW l, Severed => l = {}, NEW u \in Workflows,
         IsFiniteSet(u.found),
         u.mode = "reconnect" => u.outcome # "fail" /\ Search(u, u.index)
  PROVE  Tidy(BeginNextProbe(u), o, l)
<1>. DEFINE P == u.probes
            i == u.index
<1>0. /\ P \subseteq Peripherals /\ P \in SUBSET Nat /\ i \in Nat /\ u.found \subseteq Peripherals
      /\ u.tried \subseteq Peripherals
  BY ConnectionReducerAssumption DEF Workflows
<1>1. u.mode = "reconnect" => IsFiniteSet(P)
  BY FS_Subset DEF Search
<1>2. Probe(u, i) = {p \in P : Rank(P, p) = i}
  BY DEF Probe, Rank
<1>3. CASE Probe(u, i) = {}
  <2>. DEFINE f == Fail(u)
  <2>1. BeginNextProbe(u) = f
    BY <1>3 DEF BeginNextProbe
  <2>2. /\ f.wf.mode = u.mode /\ f.wf.found = u.found /\ f.wf.tried = u.tried
        /\ f.wf.outcome = u.outcome /\ f.wf.phase = "Failed" /\ f.out = {}
    BY DEF Fail, Step, Workflows
  <2>. HIDE DEF f
  <2>3. u.mode = "reconnect" => Left(u) = {}
    <3>. SUFFICES ASSUME u.mode = "reconnect" PROVE Left(u) = {}
      OBVIOUS
    <3>1. \A p \in P : Rank(P, p) # i
      BY <1>2, <1>3
    <3>2. \A p \in P : Rank(P, p) < i
      BY <1>0, <1>1, <3>1, RankNoGap
    <3>3. \A p \in P : p \in u.tried
      BY <3>2 DEF Search
    <3>. QED  BY <3>3 DEF Search, Left
  <2>4. Sought(f.wf)
    BY <2>2, <2>3 DEF Sought, Left
  <2>5. Held(f.wf, l)
    BY <2>2 DEF Held
  <2>6. \A p \in Peripherals : <<"Connect", p>> \notin o
    BY DEF Quiet, Io, IoKinds
  <2>. QED  BY <2>1, <2>2, <2>4, <2>5, <2>6 DEF Tidy
<1>4. CASE Probe(u, i) # {}
  <2>. DEFINE p == CHOOSE q \in Probe(u, i) : TRUE
              t == [u EXCEPT !.tried = @ \cup {p}]
  <2>1. p \in P /\ Rank(P, p) = i /\ p \in Peripherals
    BY <1>0, <1>2, <1>4
  <2>2. BeginNextProbe(u) = BeginConnection(u, p)
    BY <1>4 DEF BeginNextProbe
  <2>. HIDE DEF p
  <2>3. t.found = u.found /\ t.probes = u.probes /\ t.tried = u.tried \cup {p}
    BY DEF Workflows
  <2>. HIDE DEF t
  <2>4. u.mode = "reconnect" => Search(t, i + 1)
    <3>. SUFFICES ASSUME u.mode = "reconnect" PROVE Search(t, i + 1)
      OBVIOUS
    <3>1. ASSUME NEW q \in P, Rank(P, q) < i + 1 PROVE q \in t.tried
      <4>1. Rank(P, q) \in Nat
        BY <1>0, <1>1, RankType
      <4>2. CASE Rank(P, q) < i
        BY <2>3, <3>1, <4>2 DEF Search
      <4>3. CASE Rank(P, q) = i
        <5>1. ~ (q < p) /\ ~ (p < q)
          BY <1>0, <1>1, <2>1, <4>3, RankInjective
        <5>2. q \in Nat /\ p \in Nat
          BY <1>0, <2>1
        <5>3. q = p
          BY <5>1, <5>2
        <5>. QED  BY <2>3, <5>3
      <4>. QED  BY <1>0, <3>1, <4>1, <4>2, <4>3
    <3>2. Left(t) \subseteq t.probes /\ t.probes \subseteq t.found
      BY <2>3 DEF Search, Left
    <3>. QED  BY <2>3, <3>1, <3>2 DEF Search
  <2>5. Tidy(BeginConnection(u, p), o, l)
    BY <2>1, <2>4, BeginConnectionTidy DEF t
  <2>. QED  BY <2>2, <2>5
<1>. QED  BY <1>3, <1>4

\* An attempt that is given up keeps its link until it is disconnected.
LEMMA BeginDisconnectTidy ==
  ASSUME IInv, Running, Sought(wf), NEW o, NEW l, Held(wf, l), wf.phase \in Attempts,
         NEW w \in Workflows, SameSearch(w, wf)
  PROVE  Tidy(BeginDisconnect(w), o, l)
<1>. DEFINE r == BeginDisconnect(w)
<1>1. /\ r.wf.mode = w.mode /\ r.wf.found = w.found /\ r.wf.probes = w.probes
      /\ r.wf.index = w.index /\ r.wf.tried = w.tried /\ r.wf.active = w.active
      /\ r.wf.phase = "Disconnecting" /\ (w.mode = "reconnect" => r.wf.outcome # "fail")
  BY DEF BeginDisconnect, Step, Workflows
<1>2. Op("StartScan") \notin r.out
  BY CheckpointAnswer DEF BeginDisconnect, Step, Op
<1>. HIDE DEF r
<1>3. Sought(r.wf)
  BY <1>1 DEF SameSearch, Sought, Left, Search, Attempts
<1>4. Held(r.wf, l)
  BY <1>1 DEF SameSearch, Held
<1>5. Tidy(r, o, l)
  BY <1>1, <1>2, <1>3, <1>4 DEF Tidy, Attempts
<1>. QED  BY <1>5 DEF r

\* The scan is stopped before there is any link.
LEMMA StopScanTidy ==
  ASSUME IInv, Running, NEW o, NEW l, Severed => l = {}, NEW w \in Workflows, IsFiniteSet(w.found),
         w.mode = "reconnect" => w.outcome # "fail" /\ w.probes = {}
  PROVE  Tidy(StopScan(w), o, l)
<1>. DEFINE r == StopScan(w)
<1>1. /\ r.wf.mode = w.mode /\ r.wf.found = w.found /\ r.wf.probes = w.probes
      /\ r.wf.outcome = w.outcome /\ r.wf.phase = "StoppingScan"
  BY DEF StopScan, Step, Workflows
<1>2. Op("StartScan") \notin r.out /\ Op("StopScan") \in r.out
  BY CheckpointAnswer DEF StopScan, Step, Op
<1>. HIDE DEF r
<1>3. Sought(r.wf) /\ Held(r.wf, l)
  BY <1>1 DEF Sought, Held
<1>4. Tidy(r, o, l)
  BY <1>1, <1>2, <1>3 DEF Tidy
<1>. QED  BY <1>4 DEF r

\* A peripheral is seen.
LEMMA ScanResultTidy ==
  ASSUME IInv, Running, Sought(wf), NEW o, NEW l, Held(wf, l), NEW p \in Peripherals
  PROVE  Tidy(ScanResult(wf, p), o, l)
<1>. DEFINE s == [wf EXCEPT !.found = @ \cup {p}]
<1>1. /\ s \in Workflows /\ s.found = wf.found \cup {p} /\ s.mode = wf.mode /\ s.phase = wf.phase
      /\ s.outcome = wf.outcome /\ s.probes = wf.probes
  BY DEF IInv, TypeOK, Workflows
<1>2. IsFiniteSet(wf.found \cup {p})
  BY FS_AddElement DEF Sought
<1>3. CASE wf.phase = "Scanning" /\ p \in wf.hint
  <2>. DEFINE t == [s EXCEPT !.active = p]
  <2>1. /\ t \in Workflows /\ t.found = wf.found \cup {p} /\ t.mode = wf.mode
        /\ t.outcome = wf.outcome /\ t.probes = wf.probes
    <3>. HIDE DEF s
    <3>. QED  BY <1>1 DEF Workflows
  <2>2. ScanResult(wf, p) = StopScan(t) /\ (Severed => l = {})
    BY <1>3 DEF ScanResult, Held
  <2>. HIDE DEF t, s
  <2>3. wf.mode = "reconnect" => wf.outcome # "fail" /\ wf.probes = {}
    BY <1>3 DEF Sought
  <2>. QED  BY ZenonT(60), <1>2, <2>1, <2>2, <2>3, StopScanTidy
<1>4. CASE wf.phase = "Scanning" /\ p \notin wf.hint
  <2>1. ScanResult(wf, p) = Step(s, {}) /\ (Severed => l = {})
    BY <1>4 DEF ScanResult, Held
  <2>. HIDE DEF s
  <2>2. Sought(s) /\ Held(s, l)
    BY <1>1, <1>2, <1>4, <2>1 DEF Sought, Held
  <2>. QED  BY <1>1, <1>4, <2>1, <2>2 DEF Tidy, Step
<1>5. CASE wf.phase = "StoppingScan"
  BY <1>5, ConsumedTidy DEF ScanResult, SameSearch
<1>6. CASE wf.phase \notin {"Scanning", "StoppingScan"}
  BY <1>6, RejectTidy DEF ScanResult
<1>. QED  BY <1>3, <1>4, <1>5, <1>6

\* The scan deadline.
LEMMA ScanTimerTidy ==
  ASSUME IInv, Running, Sought(wf), NEW o, NEW l, Held(wf, l), wf.phase = "Scanning"
  PROVE  Tidy(ScanTimerFired(wf), o, l)
<1>1. ScanTimerFired(wf) = StopScan(wf) /\ (Severed => l = {})
  BY DEF ScanTimerFired, Held
<1>. QED  BY <1>1, StopScanTidy DEF Sought, IInv, TypeOK

\* The list of probes is rebuilt of what is left.
LEMMA PrepareSearch ==
  ASSUME NEW w \in Workflows, w.active \in w.tried \/ w.active = Nobody
  PROVE  LET u == PrepareProbeCandidates(w)
         IN /\ u \in Workflows /\ u.found = w.found /\ u.mode = w.mode /\ u.outcome = w.outcome
            /\ IsFiniteSet(w.found) => Search(u, u.index)
<1>. DEFINE u == PrepareProbeCandidates(w)
<1>1. /\ u \in Workflows /\ u.found = w.found /\ u.mode = w.mode /\ u.outcome = w.outcome
      /\ u.tried = w.tried /\ u.index = 0
      /\ u.probes = ((w.found \cap Named) \ {w.active}) \ w.tried
  BY DEF PrepareProbeCandidates, Workflows
<1>2. w.found \subseteq Peripherals /\ Nobody \notin Peripherals
  BY EffectTypes DEF Workflows
<1>. HIDE DEF u
<1>3. Left(u) \subseteq u.probes /\ u.probes \subseteq u.found
  BY <1>1, <1>2 DEF Left
<1>4. ASSUME IsFiniteSet(w.found)
      PROVE  \A p \in u.probes : ~ (Rank(u.probes, p) < 0)
  <2>1. u.probes \in SUBSET Nat /\ IsFiniteSet(u.probes)
    BY <1>1, <1>2, <1>3, <1>4, FS_Subset, ConnectionReducerAssumption
  <2>. QED
    <3>. TAKE p \in u.probes
    <3>1. Rank(u.probes, p) \in Nat
      BY <2>1, RankType
    <3>. QED  BY <3>1
<1>5. IsFiniteSet(w.found) => Search(u, u.index)
  BY <1>1, <1>3, <1>4 DEF Search
<1>. QED  BY <1>1, <1>5 DEF u

\* The scan stopped: an attempt on the exact candidate, or the first probe.
LEMMA ScanStoppedTidy ==
  ASSUME IInv, Running, Sought(wf), NEW o \in SUBSET ops, NEW l, Held(wf, l)
  PROVE  Tidy(ScanStopped(wf), o, l)
<1>. DEFINE s == [wf EXCEPT !.waits = @ \ {"scan", "stop"}]
<1>1. s \in Workflows /\ SameSearch(s, wf) /\ s.outcome = wf.outcome
  BY DEF IInv, TypeOK, Workflows, SameSearch
<1>2. CASE wf.phase # "StoppingScan" \/ "stop" \notin wf.waits
  BY <1>2, RejectTidy DEF ScanStopped
<1>3. CASE wf.phase = "StoppingScan" /\ "stop" \in wf.waits
  <2>1. Quiet(o) /\ (Severed => l = {}) /\ (wf.mode = "reconnect" => wf.outcome # "fail" /\ wf.probes = {})
    BY <1>3, QuietPhases DEF Held, Sought
  <2>2. CASE wf.active # Nobody
    <3>1. ScanStopped(wf) = BeginConnection(s, wf.active) /\ wf.active \in Peripherals
      BY <1>3, <2>2 DEF ScanStopped, IInv, TypeOK, Workflows
    <3>. HIDE DEF s
    <3>. QED  BY <1>1, <1>3, <2>1, <3>1, BeginConnectionTidy DEF SameSearch, Sought
  <2>3. CASE wf.active = Nobody
    <3>. DEFINE u == PrepareProbeCandidates(s)
    <3>1. ScanStopped(wf) = BeginNextProbe(u)
      BY <1>3, <2>3 DEF ScanStopped
    <3>. HIDE DEF s
    <3>2. /\ u \in Workflows /\ u.found = wf.found /\ u.mode = wf.mode /\ u.outcome = wf.outcome
          /\ Search(u, u.index)
      BY <1>1, <2>3, PrepareSearch DEF SameSearch, Sought
    <3>. HIDE DEF u
    <3>. QED  BY <1>3, <2>1, <3>1, <3>2, BeginNextProbeTidy DEF Sought
  <2>. QED  BY <2>2, <2>3
<1>. QED  BY <1>2, <1>3

\* A connection came up.
LEMMA ConnectedTidy ==
  ASSUME IInv, Running, Sought(wf), NEW p \in Peripherals, <<"Connect", p>> \in ops, NEW o,
         Held(wf, links)
  PROVE  Tidy(Connected(wf, p), o, links \cup {p})
<1>. DEFINE s == [wf EXCEPT !.waits = @ \ {"connect"}]
            l == links \cup {p}
<1>1. wf.active = p /\ wf.phase \in {"Connecting", "Disconnecting"}
  BY SettledPhases
<1>2. s \in Workflows /\ SameSearch(s, wf) /\ s.phase = wf.phase /\ s.outcome = wf.outcome
  BY DEF IInv, TypeOK, Workflows, SameSearch
<1>3. Severed => l \subseteq {p}
  BY <1>1 DEF Held
<1>4. CASE wf.phase = "Disconnecting"
  <2>1. Connected(wf, p) \in {Reject(wf), Step(s, {})}
    BY <1>4 DEF Connected
  <2>2. Held(wf, l)
    BY <1>1, <1>3, <1>4 DEF Held
  <2>. HIDE DEF s, l
  <2>. QED  BY <1>2, <1>4, <2>1, <2>2, RejectTidy, ConsumedTidy DEF l
<1>5. CASE wf.phase = "Connecting"
  <2>. DEFINE t == [s EXCEPT !.phase = "Discovering", !.waits = @ \cup {"discover"}]
  <2>1. Expects(wf, "connect", p)
    BY <1>1, <1>5 DEF Expects, Held
  <2>2. Connected(wf, p) = Step(t, {<<"Discover", p>>} \cup Checkpoint(wf))
    BY <1>5, <2>1 DEF Connected
  <2>3. SameSearch(t, wf) /\ t.phase = "Discovering" /\ t.outcome = wf.outcome
    <3>. HIDE DEF s
    <3>. QED  BY <1>2 DEF Workflows, SameSearch
  <2>. HIDE DEF t, s, l
  <2>4. Sought(t) /\ Held(t, l)
    BY <1>1, <1>3, <1>5, <2>3 DEF SameSearch, Sought, Left, Search, Held
  <2>5. Op("StartScan") \notin {<<"Discover", p>>} \cup Checkpoint(wf)
    BY CheckpointAnswer DEF Op
  <2>. QED  BY <1>5, <2>2, <2>3, <2>4, <2>5 DEF Tidy, Step, l
<1>. QED  BY <1>1, <1>4, <1>5

\* The services were discovered.
LEMMA DiscoveredTidy ==
  ASSUME IInv, Running, Sought(wf), NEW p \in Peripherals, <<"Discover", p>> \in ops, NEW o,
         NEW l, Held(wf, l)
  PROVE  Tidy(ServicesDiscovered(wf, p), o, l)
<1>. DEFINE s == [wf EXCEPT !.waits = @ \ {"discover"}]
            t == [s EXCEPT !.phase = "ReadingSerial", !.waits = @ \cup {"read"}]
<1>1. wf.active = p /\ wf.phase \in {"Discovering", "Disconnecting"}
  BY SettledPhases
<1>2. s \in Workflows /\ SameSearch(s, wf) /\ s.phase = wf.phase /\ s.outcome = wf.outcome
  BY DEF IInv, TypeOK, Workflows, SameSearch
<1>3. SameSearch(t, wf) /\ t.phase = "ReadingSerial" /\ t.outcome = wf.outcome
  <2>. HIDE DEF s
  <2>. QED  BY <1>2 DEF Workflows, SameSearch
<1>4. \/ ServicesDiscovered(wf, p) \in {Reject(wf), Step(s, {})}
      \/ wf.phase = "Discovering" /\ ServicesDiscovered(wf, p) = Step(t, {<<"Read", p>>})
  BY DEF ServicesDiscovered
<1>. HIDE DEF t, s
<1>5. CASE ServicesDiscovered(wf, p) \in {Reject(wf), Step(s, {})}
  BY <1>1, <1>2, <1>5, RejectTidy, ConsumedTidy
<1>6. CASE wf.phase = "Discovering" /\ ServicesDiscovered(wf, p) = Step(t, {<<"Read", p>>})
  <2>1. Sought(t) /\ Held(t, l)
    BY <1>3, <1>6 DEF SameSearch, Sought, Left, Search, Held
  <2>. QED  BY <1>3, <1>6, <2>1 DEF Tidy, Step, Op
<1>. QED  BY <1>4, <1>5, <1>6

\* The serial number was read.
LEMMA ReadTidy ==
  ASSUME IInv, Running, Sought(wf), NEW p \in Peripherals, <<"Read", p>> \in ops, NEW o,
         NEW l, Held(wf, l), NEW serial
  PROVE  Tidy(ReadCompleted(wf, p, serial), o, l)
<1>. DEFINE s == [wf EXCEPT !.waits = @ \ {"read"}]
            t == [s EXCEPT !.device = serial]
<1>1. wf.active = p /\ wf.phase \in {"ReadingSerial", "Disconnecting"}
  BY SettledPhases
<1>2. s \in Workflows /\ SameSearch(s, wf) /\ s.phase = wf.phase /\ s.outcome = wf.outcome
  BY DEF IInv, TypeOK, Workflows, SameSearch
<1>3. serial \in Serials => t \in Workflows /\ SameSearch(t, wf) /\ t.outcome = wf.outcome
  <2>. HIDE DEF s
  <2>. QED  BY <1>2 DEF Workflows, SameSearch
<1>4. \/ ReadCompleted(wf, p, serial) = Reject(wf)
      \/ wf.phase = "Disconnecting" /\ ReadCompleted(wf, p, serial) = Step(s, {})
      \/ wf.phase = "ReadingSerial" /\ ReadCompleted(wf, p, serial) = BeginDisconnect(s)
      \/ /\ wf.phase = "ReadingSerial" /\ serial \in Serials
         /\ ReadCompleted(wf, p, serial) = BeginPersist(t)
  BY DEF ReadCompleted
<1>. HIDE DEF t, s
<1>5. CASE ReadCompleted(wf, p, serial) = Reject(wf)
  BY <1>5, RejectTidy
<1>6. CASE wf.phase = "Disconnecting" /\ ReadCompleted(wf, p, serial) = Step(s, {})
  BY <1>2, <1>6, ConsumedTidy
<1>7. CASE wf.phase = "ReadingSerial" /\ ReadCompleted(wf, p, serial) = BeginDisconnect(s)
  BY <1>2, <1>7, BeginDisconnectTidy DEF Attempts
<1>8. CASE /\ wf.phase = "ReadingSerial" /\ serial \in Serials
           /\ ReadCompleted(wf, p, serial) = BeginPersist(t)
  <2>. DEFINE r == BeginPersist(t)
  <2>1. SameSearch(r.wf, t) /\ r.wf.phase = "Persisting" /\ r.wf.outcome = t.outcome
    BY <1>3, <1>8 DEF BeginPersist, Step, Workflows, SameSearch
  <2>2. Op("StartScan") \notin r.out
    BY CheckpointAnswer DEF BeginPersist, Step, Op
  <2>. HIDE DEF r
  <2>3. Sought(r.wf) /\ Held(r.wf, l)
    BY <1>3, <1>8, <2>1 DEF SameSearch, Sought, Left, Search, Held
  <2>4. Tidy(r, o, l)
    BY <1>8, <2>1, <2>2, <2>3 DEF Tidy
  <2>. QED  BY <1>8, <2>4 DEF r
<1>. QED  BY <1>4, <1>5, <1>6, <1>7, <1>8

\* The identity was saved.
LEMMA SavedTidy ==
  ASSUME IInv, Running, Sought(wf), NEW p \in Peripherals, <<"Save", p>> \in ops,
         NEW o \in SUBSET ops, NEW l, Held(wf, l)
  PROVE  Tidy(IdentitySaved(wf), o, l)
<1>. DEFINE s == [wf EXCEPT !.phase = "Completed", !.waits = @ \ {"persist"}]
<1>1. wf.phase = "Persisting"
  BY SettledPhases
<1>2. CASE "persist" \notin wf.waits
  BY <1>2, RejectTidy DEF IdentitySaved
<1>3. CASE "persist" \in wf.waits
  <2>1. IdentitySaved(wf) = Step(s, {<<"Delete", Nobody>>})
    BY <1>1, <1>3 DEF IdentitySaved
  <2>2. SameSearch(s, wf) /\ s.phase = "Completed" /\ s.outcome = wf.outcome
    <3>1. wf \in Workflows
      BY DEF IInv, TypeOK
    <3>. QED  BY <3>1 DEF Workflows, SameSearch
  <2>. HIDE DEF s
  <2>3. Sought(s) /\ Held(s, l)
    BY <1>1, <2>2 DEF SameSearch, Sought, Left, Search, Held
  <2>4. \A q \in Peripherals : <<"Connect", q>> \notin o
    BY <1>1, SettledPhases
  <2>. QED  BY <1>1, <2>1, <2>2, <2>3, <2>4 DEF Tidy, Step, Op
<1>. QED  BY <1>2, <1>3

\* The deadline of an attempt.
LEMMA AttemptTimerTidy ==
  ASSUME IInv, Running, Sought(wf), NEW o, NEW l, Held(wf, l), "timer" \in wf.waits
  PROVE  Tidy(AttemptTimerFired(wf), o, l)
BY BeginDisconnectTidy DEF AttemptTimerFired, SameSearch, IInv, TypeOK, IdInv, Verified, Armed

\* A connection failed: it left no link.
LEMMA ConnectFailedTidy ==
  ASSUME IInv, Running, Sought(wf), NEW p \in Peripherals, <<"Connect", p>> \in ops,
         NEW l, Held(wf, l)
  PROVE  Tidy(ConnectFailed(wf, p), ops \ {<<"Connect", p>>}, l)
<1>. DEFINE s == [wf EXCEPT !.waits = @ \ {"connect"}]
            o == ops \ {<<"Connect", p>>}
<1>1. wf.active = p /\ wf.phase \in {"Connecting", "Disconnecting"}
  BY SettledPhases
<1>2. s \in Workflows /\ SameSearch(s, wf) /\ s.phase = wf.phase /\ s.outcome = wf.outcome
  BY DEF IInv, TypeOK, Workflows, SameSearch
<1>3. CASE wf.phase = "Disconnecting"
  <2>1. ConnectFailed(wf, p) \in {Reject(wf), Step(s, {})}
    BY <1>3 DEF ConnectFailed
  <2>. HIDE DEF s
  <2>. QED  BY <1>2, <1>3, <2>1, RejectTidy, ConsumedTidy
<1>4. CASE wf.phase = "Connecting"
  <2>1. Expects(wf, "connect", p) /\ (Severed => l = {}) /\ Quiet(o)
    BY <1>1, <1>4, QuietPhases DEF Expects, Held
  <2>2. CASE wf.mode = "reconnect"
    <3>. DEFINE t == [s EXCEPT !.waits = @ \ {"timer"}]
                u == PrepareProbeCandidates(t)
    <3>1. t \in Workflows /\ SameSearch(t, wf) /\ t.outcome = wf.outcome
      <4>. HIDE DEF s
      <4>. QED  BY <1>2 DEF Workflows, SameSearch
    <3>2. ConnectFailed(wf, p) = BeginNextProbe(u)
      BY <1>4, <2>1, <2>2 DEF ConnectFailed
    <3>3. wf.outcome # "fail" /\ wf.active \in wf.tried
      BY <1>4, <2>2 DEF Sought
    <3>. HIDE DEF t
    <3>4. /\ u \in Workflows /\ u.found = wf.found /\ u.mode = wf.mode /\ u.outcome = wf.outcome
          /\ Search(u, u.index)
      BY <3>1, <3>3, PrepareSearch DEF SameSearch, Sought
    <3>. HIDE DEF u, o
    <3>. QED  BY <1>4, <2>1, <3>2, <3>3, <3>4, BeginNextProbeTidy DEF Sought, o
  <2>3. CASE wf.mode # "reconnect"
    <3>. DEFINE f == Fail(s)
    <3>1. ConnectFailed(wf, p) = f
      BY <1>4, <2>1, <2>3 DEF ConnectFailed
    <3>. HIDE DEF s
    <3>2. f.wf.found = wf.found /\ f.wf.mode = wf.mode /\ f.wf.phase = "Failed" /\ f.out = {}
      BY <1>2 DEF Fail, Step, Workflows, SameSearch
    <3>. HIDE DEF f
    <3>3. Sought(f.wf) /\ Held(f.wf, l)
      BY <2>1, <2>3, <3>2 DEF Sought, Held
    <3>4. \A q \in Peripherals : <<"Connect", q>> \notin o
      BY <2>1 DEF Quiet, Io, IoKinds
    <3>. QED  BY <1>4, <2>1, <3>1, <3>2, <3>3, <3>4 DEF Tidy
  <2>. QED  BY <2>2, <2>3
<1>. QED  BY <1>1, <1>3, <1>4

\* A discovery or a read failed.
LEMMA AttemptFailedTidy ==
  ASSUME IInv, Running, Sought(wf), NEW p \in Peripherals, NEW kind \in {"discover", "read"},
         NEW o, NEW l, Held(wf, l), wf.phase \in {"Discovering", "ReadingSerial", "Disconnecting"}
  PROVE  Tidy(AttemptFailed(wf, kind, p), o, l)
<1>. DEFINE s == [wf EXCEPT !.waits = @ \ {kind}]
            t == [wf EXCEPT !.waits = @ \ {"discover", "read"}]
<1>1. SameSearch(s, wf) /\ s.phase = wf.phase /\ s.outcome = wf.outcome
  BY DEF IInv, TypeOK, Workflows, SameSearch
<1>2. t \in Workflows /\ SameSearch(t, wf)
  BY DEF IInv, TypeOK, Workflows, SameSearch
<1>3. \/ AttemptFailed(wf, kind, p) = Reject(wf)
      \/ wf.phase = "Disconnecting" /\ AttemptFailed(wf, kind, p) = Step(s, {})
      \/ wf.phase \in Attempts /\ AttemptFailed(wf, kind, p) = BeginDisconnect(t)
  BY DEF AttemptFailed, Attempts
<1>. HIDE DEF s, t
<1>. QED  BY <1>1, <1>2, <1>3, RejectTidy, ConsumedTidy, BeginDisconnectTidy

\* An attempt that was given up is over, without a link: the next candidate.
LEMMA FinishDisconnectTidy ==
  ASSUME IInv, Running, Sought(wf), wf.phase = "Disconnecting", NEW o, Quiet(o),
         NEW l, Severed => l = {}
  PROVE  Tidy(FinishDisconnect(wf), o, l)
<1>. DEFINE s == [wf EXCEPT !.outcome = "none", !.waits = @ \ {"disconnect"}]
<1>1. s \in Workflows /\ SameSearch(s, wf) /\ s.outcome = "none"
  BY DEF IInv, TypeOK, Workflows, SameSearch
<1>2. IsFiniteSet(wf.found) /\ (wf.mode = "reconnect" => wf.active \in wf.tried /\ wf.outcome # "fail")
  BY DEF Sought
<1>3. CASE wf.outcome = "fail"
  <2>. DEFINE f == Fail(s)
  <2>1. FinishDisconnect(wf) = f
    BY <1>3 DEF FinishDisconnect
  <2>. HIDE DEF s
  <2>2. f.wf.found = wf.found /\ f.wf.mode = wf.mode /\ f.wf.phase = "Failed" /\ f.out = {}
    BY <1>1 DEF Fail, Step, Workflows, SameSearch
  <2>. HIDE DEF f
  <2>3. Sought(f.wf) /\ Held(f.wf, l)
    BY <1>2, <1>3, <2>2 DEF Sought, Held
  <2>4. \A q \in Peripherals : <<"Connect", q>> \notin o
    BY DEF Quiet, Io, IoKinds
  <2>. QED  BY <2>1, <2>2, <2>3, <2>4 DEF Tidy
<1>4. CASE wf.outcome # "fail" /\ wf.probes = {}
  <2>. DEFINE u == PrepareProbeCandidates(s)
  <2>1. FinishDisconnect(wf) = BeginNextProbe(u)
    BY <1>4 DEF FinishDisconnect
  <2>. HIDE DEF s
  <2>2. CASE wf.mode = "reconnect"
    <3>1. /\ u \in Workflows /\ u.found = wf.found /\ u.mode = wf.mode /\ u.outcome = "none"
          /\ Search(u, u.index)
      BY <1>1, <1>2, <2>2, PrepareSearch DEF SameSearch
    <3>. HIDE DEF u
    <3>. QED  BY <1>2, <2>1, <3>1, BeginNextProbeTidy
  <2>3. CASE wf.mode # "reconnect"
    <3>1. u \in Workflows /\ u.found = wf.found /\ u.mode = wf.mode
      BY <1>1 DEF SameSearch, PrepareProbeCandidates, Workflows
    <3>. HIDE DEF u
    <3>. QED  BY <1>2, <2>1, <2>3, <3>1, BeginNextProbeTidy
  <2>. QED  BY <2>2, <2>3
<1>5. CASE wf.outcome # "fail" /\ wf.probes # {}
  <2>. DEFINE u == [s EXCEPT !.index = @ + 1]
  <2>1. FinishDisconnect(wf) = BeginNextProbe(u)
    BY <1>5 DEF FinishDisconnect
  <2>. HIDE DEF s
  <2>2. /\ u \in Workflows /\ u.found = wf.found /\ u.mode = wf.mode /\ u.outcome = "none"
        /\ u.probes = wf.probes /\ u.tried = wf.tried /\ u.index = wf.index + 1
    BY <1>1 DEF Workflows, SameSearch
  <2>. HIDE DEF u
  <2>3. wf.mode = "reconnect" => Search(u, u.index)
    BY <1>5, <2>2 DEF Sought, Search, Left
  <2>. QED  BY <1>2, <2>1, <2>2, <2>3, BeginNextProbeTidy
<1>. QED  BY <1>3, <1>4, <1>5

-----------------------------------------------------------------------------
(* Every step keeps them. *)

\* What an action does to the scan while the operations o remain.
Scanned(o) ==
  \/ scanning' = scanning /\ (Op("StopScan") \in ops => Op("StopScan") \in o)
  \/ scanning' = FALSE /\ Op("StartScan") \notin o

\* A cancellation asks for the release of its link and stops its scan.
LEMMA CancellingOwned ==
  ASSUME IInv, LnkInv, Running, NEW w, w = wf, NEW rest \in SUBSET ops, Cancelling(w, rest),
         Held(wf, links'), Scanned(rest)
  PROVE  LnkInv'
<1>1. /\ wf' = wf /\ ~ Running' /\ established' = Nobody
      /\ ops' \subseteq rest \cup CancelEffects(wf) /\ CancelEffects(wf) \subseteq ops'
      /\ Op("StopScan") \in rest => Op("StopScan") \in ops'
  BY DEF Cancelling, Running, IInv, IdInv, Verified, Io, IoKinds, Op
<1>0. status' = "Cancelled"
  BY DEF Cancelling
<1>2. Owned'
  <2>1. \A p \in Peripherals : <<"Connect", p>> \in ops' => p = wf.active /\ p # Nobody
    BY <1>1, SettledPhases, EffectTypes DEF CancelEffects
  <2>2. wf.active # Nobody => <<"Release", wf.active>> \in ops'
    BY <1>1 DEF CancelEffects
  <2>3. Severed /\ wf.active = Nobody => links' \subseteq {established'}
    BY <1>1 DEF Held
  <2>. QED  BY <1>0, <1>1, <2>1, <2>2, <2>3 DEF Owned, Held
<1>3. Scans'
  <2>1. wf.phase = "Scanning" => Op("StopScan") \in ops'
    BY <1>1 DEF CancelEffects, Op
  <2>. QED  BY <1>1, <2>1 DEF Scans, LnkInv, Scanned
<1>. QED  BY <1>1, <1>2, <1>3 DEF LnkInv

\* An answer that is good and tidy keeps them.
LEMMA DispatchOwned ==
  ASSUME IInv, LnkInv, Running, NEW r, NEW rest \in SUBSET ops, Good(r, rest, radio'),
         Tidy(r, rest, links'), Dispatch(r, rest), Scanned(rest)
  PROVE  LnkInv'
<1>1. CASE r.rejected /\ Js
  BY <1>1, CancellingOwned DEF Dispatch, Refused, Good, Tidy
<1>2. CASE r.rejected /\ ~ Js
  <2>1. wf' = wf /\ r.wf = wf /\ ops' = rest /\ (Running' <=> Running)
    BY <1>2 DEF Dispatch, Refused, Good, Running
  <2>2. Owned'
    BY <2>1 DEF Owned, Tidy, Running
  <2>3. Scans'
    BY <2>1 DEF Scans, LnkInv, Scanned
  <2>. QED  BY <2>1, <2>2, <2>3 DEF LnkInv
<1>3. CASE ~ r.rejected
  <2>1. /\ wf' = r.wf /\ ops' = rest \cup r.out
        /\ Running' <=> r.wf.phase \notin {"Completed", "Failed"}
        /\ r.wf.phase = "Completed" => established' = r.wf.active
        /\ status' = "Failed" => r.wf.phase = "Failed"
    BY <1>3 DEF Dispatch, Accept, StatusOf, Running
  <2>2. Owned'
    BY <2>1 DEF Owned, Tidy, Held
  <2>3. Scans'
    <3>1. Running' /\ Op("StartScan") \in ops' => Op("StartScan") \in rest
      BY <2>1 DEF Tidy
    <3>2. wf.phase = "Scanning" => Op("StopScan") \in ops' \/ (Running' /\ wf'.phase = "Scanning")
      BY <2>1 DEF Tidy
    <3>. QED  BY <2>1, <3>1, <3>2 DEF Scans, LnkInv, Scanned
  <2>. QED  BY <2>1, <2>2, <2>3 DEF LnkInv, Tidy
<1>. QED  BY <1>1, <1>2, <1>3 DEF Good

\* What is left of a workflow that is over, once the operations o remain.
Released(o) ==
  Severed =>
    /\ links' \subseteq {wf.active} /\ (stuck => stuck')
    /\ \/ stuck'
       \/ <<"Release", wf.active>> \in o
       \/ links' \subseteq {established'} /\ \A p \in Peripherals : <<"Connect", p>> \notin o

\* So does one that is settled, also when its workflow is over.
LEMMA DeliverOwned ==
  ASSUME IInv, LnkInv, NEW r, NEW rest \in SUBSET ops, Deliver(r, rest), Scanned(rest),
         Running => Good(r, rest, radio') /\ Tidy(r, rest, links'),
         ~ Running => Released(rest)
  PROVE  LnkInv'
<1>1. CASE Running
  BY <1>1, DispatchOwned DEF Deliver
<1>2. CASE ~ Running
  <2>1. ops' = rest /\ UNCHANGED <<status, wf, established>> /\ ~ Running'
    BY <1>2 DEF Deliver, Running
  <2>2. Owned'
    BY <1>2, <2>1 DEF Owned, LnkInv, Released
  <2>3. Scans'
    BY <1>2, <2>1 DEF Scans, LnkInv, Scanned
  <2>. QED  BY <2>1, <2>2, <2>3 DEF LnkInv
<1>. QED  BY <1>1, <1>2

\* An action that leaves the workflow alone.
LEMMA StillOwned ==
  ASSUME IInv, LnkInv, UNCHANGED <<status, wf>>, ops' \subseteq ops, Scanned(ops'),
         Running => links' \subseteq links,
         ~ Running => Released(ops')
  PROVE  LnkInv'
<1>1. Running' <=> Running
  BY DEF Running
<1>2. Owned'
  BY <1>1 DEF Owned, Held, LnkInv, Released
<1>3. Scans'
  BY <1>1 DEF Scans, LnkInv, Scanned
<1>. QED  BY <1>2, <1>3 DEF LnkInv

\* An operation of another kind is settled, and no link comes up.
LEMMA ReleasedStays ==
  ASSUME LnkInv, ~ Running, NEW o \in SUBSET ops, links' \subseteq links, stuck => stuck',
         UNCHANGED established, <<"Release", wf.active>> \in ops => <<"Release", wf.active>> \in o
  PROVE  Released(o)
BY DEF Released, LnkInv, Owned

\* Starting, cancelling and disconnecting.
LEMMA ApplicationOwned ==
  ASSUME IInv, LnkInv, Application
  PROVE  LnkInv'
<1>1. ASSUME MayStart, NEW r, Start(r), Sought(r.wf), Held(r.wf, {}),
             Op("StartScan") \in r.out => r.wf.phase = "Scanning"
      PROVE  LnkInv'
  <2>1. /\ wf' = r.wf /\ ops' = r.out /\ Running' /\ UNCHANGED <<scanning, links>>
        /\ ~ Running /\ ~ stuck /\ ops = {} /\ established = Nobody
    BY <1>1 DEF Start, MayStart, OwnerFree, Running
  <2>2. Severed => links = {}
    BY <2>1, EffectTypes DEF LnkInv, Owned, IInv, TypeOK
  <2>3. ~ scanning
    BY <2>1 DEF LnkInv, Scans
  <2>4. Owned'
    BY <1>1, <2>1, <2>2 DEF Owned, Held, Running
  <2>5. Scans'
    BY <1>1, <2>1, <2>3 DEF Scans
  <2>. QED  BY <1>1, <2>1, <2>4, <2>5 DEF LnkInv
<1>2. IsFiniteSet({})
  BY FS_EmptySet
<1>3. CASE Connect
  <2>1. PICK p \in Peripherals, d \in {Target, AnySerial} : MayStart /\ Start(StartManual(d, p))
    BY <1>3 DEF Connect
  <2>. DEFINE u == Base("manual", d, {}, p)
              r == StartManual(d, p)
  <2>2. u \in Workflows /\ u.mode = "manual" /\ u.found = {}
    BY ConnectionAssumption DEF Base, Workflows, Modes, Phases
  <2>3. r = BeginConnection(u, p)
    BY DEF StartManual
  <2>4. Start(r)
    BY <2>1
  <2>. HIDE DEF u, r
  <2>5. /\ r.wf.mode = "manual" /\ r.wf.found = {} /\ r.wf.active = p
        /\ r.wf.phase = "Connecting" /\ "connect" \in r.wf.waits
        /\ r.out \subseteq {<<"Connect", p>>, Op("Checkpoint")}
    BY <2>2, <2>3, BeginConnectionFields
  <2>6. Sought(r.wf) /\ Held(r.wf, {}) /\ Op("StartScan") \notin r.out
    BY <1>2, <2>5 DEF Sought, Held, Op
  <2>. QED  BY <1>1, <2>1, <2>4, <2>6
<1>4. CASE Reconnect
  <2>1. PICK hint \in Hints : MayStart /\ Start(StartReconnect(Target, hint))
    BY <1>4 DEF Reconnect
  <2>. DEFINE r == StartReconnect(Target, hint)
  <2>2. /\ r.wf.found = {} /\ r.wf.probes = {} /\ r.wf.outcome = "none" /\ r.wf.phase = "Scanning"
    BY DEF StartReconnect, BeginScan, Base, Step
  <2>3. Start(r)
    BY <2>1
  <2>. HIDE DEF r
  <2>4. Sought(r.wf) /\ Held(r.wf, {})
    BY <1>2, <2>2 DEF Sought, Held
  <2>. QED  BY <1>1, <2>1, <2>2, <2>3, <2>4
<1>5. CASE Cancel
  <2>1. Cancelling(wf, ops) /\ Running /\ UNCHANGED <<scanning, links>>
    BY <1>5 DEF Cancel, air
  <2>. QED  BY <2>1, CancellingOwned DEF Scanned, LnkInv, Owned
<1>6. CASE Disconnect
  <2>1. /\ ops = {} /\ ~ Running /\ ~ stuck /\ UNCHANGED <<status, wf, ops, scanning, stuck>>
        /\ links' = links \ {established}
    BY <1>6 DEF Disconnect, OwnerFree
  <2>2. Severed => links' = {}
    BY <2>1 DEF LnkInv, Owned
  <2>3. Released(ops')
    BY <2>1, <2>2 DEF Released
  <2>. QED  BY <2>1, <2>2, <2>3, StillOwned DEF Scanned
<1>. QED  BY <1>3, <1>4, <1>5, <1>6 DEF Application

\* The scan, its deadline and its failures.
LEMMA ScanOwned ==
  ASSUME IInv, LnkInv, ScanSettles \/ ScanDeadline \/ \E p \in Peripherals : Advertise(p)
  PROVE  LnkInv'
<1>0. Running => Held(wf, links) /\ Sought(wf)
  BY DEF LnkInv, Owned
<1>1. Op("StartScan") # Op("StopScan") /\ \A p : <<"Release", p>> \notin {Op("StartScan"), Op("StopScan")}
  BY DEF Op
<1>2. CASE StartScan
  <2>1. /\ ops' = ops \ {Op("StartScan")} /\ Op("StartScan") \in ops /\ scanning' = Running
        /\ UNCHANGED <<status, wf, stuck, established, links>>
    BY <1>2 DEF StartScan, MayRun, air
  <2>2. ~ Running => Released(ops')
    BY <1>1, <2>1, ReleasedStays
  <2>3. CASE Running
    <3>1. Running' /\ wf' = wf
      BY <2>1, <2>3 DEF Running
    <3>2. Owned'
      BY <2>1, <2>3, <3>1 DEF LnkInv, Owned
    <3>3. Scans'
      BY <1>1, <2>1, <2>3, <3>1 DEF LnkInv, Scans
    <3>. QED  BY <3>1, <3>2, <3>3 DEF LnkInv
  <2>4. CASE ~ Running
    <3>1. scanning' = FALSE
      BY <2>1, <2>4 DEF Running
    <3>. QED  BY <2>1, <2>2, <2>4, <3>1, StillOwned DEF Scanned
  <2>. QED  BY <2>3, <2>4
<1>3. CASE StartScanFails
  <2>. DEFINE o == ops \ {Op("StartScan")}
  <2>1. Running /\ Deliver(UnexpectedFailure(wf), o) /\ UNCHANGED <<scanning, links, radio>>
    BY <1>3 DEF StartScanFails, Settle, air
  <2>2. Good(UnexpectedFailure(wf), o, radio') /\ Tidy(UnexpectedFailure(wf), o, links')
    BY <1>0, <2>1, UnexpectedGood, RejectTidy DEF UnexpectedFailure
  <2>. QED  BY <1>1, <2>1, <2>2, DeliverOwned DEF Scanned
<1>4. ASSUME NEW r, Deliver(r, ops \ {Op("StopScan")}), scanning' = FALSE, Op("StartScan") \notin ops,
             stuck => stuck', UNCHANGED <<links, radio>>,
             Running => Good(r, ops \ {Op("StopScan")}, radio) /\ Tidy(r, ops \ {Op("StopScan")}, links)
      PROVE  LnkInv'
  <2>. DEFINE o == ops \ {Op("StopScan")}
  <2>1. ~ Running => Released(o)
    BY <1>1, <1>4, ReleasedStays DEF Deliver
  <2>. QED  BY <1>4, <2>1, DeliverOwned DEF Scanned
<1>5. CASE ScanStops
  BY <1>0, <1>4, <1>5, ScanStoppedGood, ScanStoppedTidy DEF ScanStops, Settle, air
<1>6. CASE StopScanFails
  BY <1>0, <1>4, <1>6, UnexpectedGood, RejectTidy DEF StopScanFails, Settle, air, UnexpectedFailure
<1>7. CASE ScanDeadline
  BY <1>0, <1>7, ScanTimerGood, ScanTimerTidy, DispatchOwned DEF ScanDeadline, Scanned, air
<1>8. ASSUME NEW p \in Peripherals, Advertise(p)
      PROVE  LnkInv'
  BY <1>0, <1>8, ScanResultGood, ScanResultTidy, DispatchOwned DEF Advertise, Scanned, air
<1>. QED  BY <1>2, <1>3, <1>5, <1>6, <1>7, <1>8 DEF ScanSettles

\* The deadline of an attempt.
LEMMA AttemptDeadlineOwned ==
  ASSUME IInv, LnkInv, AttemptDeadline
  PROVE  LnkInv'
BY AttemptTimerGood, AttemptTimerTidy, DispatchOwned DEF AttemptDeadline, Scanned, air, LnkInv, Owned

\* An operation p of the kind k is not one of the scan or a release.
LEMMA OtherOps ==
  ASSUME NEW k, k \notin {"StartScan", "StopScan"}, NEW p
  PROVE  /\ <<k, p>> # Op("StopScan") /\ <<k, p>> # Op("StartScan")
         /\ k # "Release" => \A q : <<k, p>> # <<"Release", q>>
BY DEF Op

\* The result of an operation of the radio or of persistence, without a new link.
LEMMA SettleOwned ==
  ASSUME IInv, LnkInv, NEW p, NEW k \in {"Connect", "Discover", "Read", "Save", "Checkpoint"}, NEW r,
         Settle(<<k, p>>, r), UNCHANGED <<scanning, stuck>>, links' \subseteq links,
         Running => Good(r, ops \ {<<k, p>>}, radio') /\ Tidy(r, ops \ {<<k, p>>}, links')
  PROVE  LnkInv'
<1>. DEFINE o == ops \ {<<k, p>>}
<1>1. k \notin {"StartScan", "StopScan", "Release"}
  OBVIOUS
<1>2. Scanned(o)
  BY <1>1, OtherOps DEF Scanned
<1>3. Deliver(r, o)
  BY DEF Settle
<1>4. ~ Running => Released(o)
  BY <1>1, <1>3, OtherOps, ReleasedStays DEF Deliver
<1>. QED  BY <1>2, <1>3, <1>4, DeliverOwned

\* Fewer links are held as well.
LEMMA FewerHeld ==
  ASSUME NEW w, NEW l, Held(w, l), NEW m \in SUBSET l
  PROVE  Held(w, m)
BY DEF Held

\* Whatever happens to an attempt.
LEMMA AttemptOwned ==
  ASSUME IInv, LnkInv, NEW p \in Peripherals,
         Dial(p) \/ AttemptSettles(p) \/ DiscoverTimesOut(p) \/ LinkLost(p)
  PROVE  LnkInv'
<1>0. Sought(wf) /\ (Running => Held(wf, links))
  BY DEF LnkInv, Owned
<1>1. CASE Dial(p)
  <2>1. Running /\ links' \subseteq links /\ UNCHANGED <<status, wf, ops, scanning>>
    BY <1>1 DEF Dial, ToDial, core, Acquire
  <2>. QED  BY <2>1, StillOwned DEF Scanned
<1>2. CASE ConnectUp(p)
  <2>. DEFINE o == ops \ {<<"Connect", p>>}
              r == Connected(wf, p)
  <2>1. /\ Running /\ <<"Connect", p>> \in ops /\ links' = links \cup {p} /\ radio' = p
        /\ UNCHANGED scanning /\ Deliver(r, o)
    BY <1>2 DEF ConnectUp, MayRun, Settle
  <2>2. Good(r, o, radio') /\ Tidy(r, o, links')
    BY <1>0, <2>1, ConnectedGood, ConnectedTidy
  <2>3. Scanned(o)
    BY <2>1, OtherOps DEF Scanned
  <2>. QED  BY <2>1, <2>2, <2>3, DeliverOwned
<1>3. CASE ConnectFails(p)
  <2>1. /\ <<"Connect", p>> \in ops /\ Settle(<<"Connect", p>>, ConnectFailed(wf, p))
        /\ UNCHANGED <<scanning, stuck, links, radio>>
    BY <1>3 DEF ConnectFails, MayRun, air
  <2>. QED  BY <1>0, <2>1, ConnectFailedGood, ConnectFailedTidy, SettleOwned
<1>4. CASE ConnectUncertain(p)
  <2>1. /\ ~ Running /\ <<"Connect", p>> \in ops /\ links' = links \cup {p} /\ stuck'
        /\ ops' = ops \ {<<"Connect", p>>} /\ UNCHANGED <<status, wf, scanning>>
    BY <1>4 DEF ConnectUncertain, MayRun
  <2>2. Scanned(ops')
    BY <2>1, OtherOps DEF Scanned
  <2>3. Released(ops')
    BY <2>1 DEF Released, LnkInv, Owned
  <2>. QED  BY <2>1, <2>2, <2>3, StillOwned
<1>5. CASE Discovers(p)
  <2>1. /\ <<"Discover", p>> \in ops /\ Settle(<<"Discover", p>>, ServicesDiscovered(wf, p))
        /\ UNCHANGED <<scanning, stuck, links, radio>>
    BY <1>5 DEF Discovers, MayRun, air
  <2>. QED  BY <1>0, <2>1, DiscoveredGood, DiscoveredTidy, SettleOwned
<1>6. CASE Reads(p)
  <2>1. /\ <<"Read", p>> \in ops /\ Settle(<<"Read", p>>, ReadCompleted(wf, p, serialOf[radio]))
        /\ UNCHANGED <<scanning, stuck, links, radio>> /\ radio \in Peripherals
    BY <1>6 DEF Reads, MayRun, air, IInv, TypeOK
  <2>. QED  BY <1>0, <2>1, ReadGood, ReadTidy, SettleOwned
<1>7. ASSUME NEW k \in {"Discover", "Read"}, NEW kind \in {"discover", "read"}, <<k, p>> \in ops,
             Settle(<<k, p>>, AttemptFailed(wf, kind, p)), UNCHANGED <<scanning, stuck>>,
             links' \subseteq links,
             radio' = radio \/ (kind = "discover" /\ k = "Discover")
      PROVE  LnkInv'
  <2>1. ASSUME Running
        PROVE  /\ Good(AttemptFailed(wf, kind, p), ops \ {<<k, p>>}, radio')
               /\ Tidy(AttemptFailed(wf, kind, p), ops \ {<<k, p>>}, links')
    <3>1. wf.active = p /\ wf.phase \in {"Discovering", "ReadingSerial", "Disconnecting"}
      BY <1>7, <2>1, SettledPhases
    <3>2. k = "Discover" => wf.phase \in {"Discovering", "Disconnecting"}
      BY <1>7, <2>1, SettledPhases
    <3>3. wf.phase \in {"Discovering", "ReadingSerial"} => radio = p
      BY <2>1, <3>1 DEF IInv, IdInv, Verified, OnRadio
    <3>4. wf.phase = "Discovering" => "discover" \in wf.waits
      BY <2>1 DEF IInv, IdInv, Verified, Armed
    <3>5. Good(AttemptFailed(wf, kind, p), ops \ {<<k, p>>}, radio')
      BY <1>7, <2>1, <3>1, <3>2, <3>3, <3>4, AttemptFailedGood DEF Attempts
    <3>6. Held(wf, links')
      BY <1>0, <1>7, <2>1, FewerHeld
    <3>. QED  BY <1>0, <2>1, <3>1, <3>5, <3>6, AttemptFailedTidy
  <2>. QED  BY <1>7, <2>1, SettleOwned
<1>8. CASE VerificationFails(p)
  <2>1. UNCHANGED <<scanning, stuck, links, radio>>
    BY <1>8 DEF VerificationFails, air
  <2>2. CASE MayRun(<<"Discover", p>>) /\ Settle(<<"Discover", p>>, AttemptFailed(wf, "discover", p))
    BY <1>7, <2>1, <2>2 DEF MayRun
  <2>3. CASE MayRun(<<"Read", p>>) /\ Settle(<<"Read", p>>, AttemptFailed(wf, "read", p))
    BY <1>7, <2>1, <2>3 DEF MayRun
  <2>. QED  BY <1>8, <2>2, <2>3 DEF VerificationFails
<1>9. CASE DiscoverTimesOut(p)
  BY <1>7, <1>9 DEF DiscoverTimesOut, MayRun
<1>10. CASE LinkLost(p)
  <2>1. /\ links' = links \ {p} /\ UNCHANGED <<status, wf, ops, scanning, stuck>>
        /\ established' = established \/ (p = established /\ established' = Nobody)
    BY <1>10 DEF LinkLost
  <2>2. ~ Running => Released(ops')
    BY <2>1 DEF Released, LnkInv, Owned
  <2>. QED  BY <2>1, <2>2, StillOwned DEF Scanned
<1>. QED  BY <1>1, <1>2, <1>3, <1>4, <1>5, <1>6, <1>8, <1>9, <1>10 DEF AttemptSettles

\* Disconnections.
LEMMA DisconnectOwned ==
  ASSUME IInv, LnkInv, NEW p \in Peripherals, DisconnectSettles(p)
  PROVE  LnkInv'
<1>0. Sought(wf) /\ (Running => Held(wf, links))
  BY DEF LnkInv, Owned
<1>1. CASE DisconnectSkipped(p)
  <2>1. /\ ~ Running /\ ops' = ops \ {<<"Disconnect", p>>}
        /\ UNCHANGED <<status, wf, scanning, stuck, established, links>>
    BY <1>1 DEF DisconnectSkipped, air
  <2>2. Scanned(ops') /\ Released(ops')
    BY <2>1, OtherOps, ReleasedStays DEF Scanned
  <2>. QED  BY <2>1, <2>2, StillOwned
<1>2. ASSUME NEW kind \in {"Disconnect", "Release"}, Disconnects(p, kind)
      PROVE  LnkInv'
  <2>. DEFINE o == Drop(p, kind)
  <2>1. /\ <<kind, p>> \in ops /\ links' = links \ {p} /\ ReleaseRadio(p) /\ Deliver(Disconnected(wf, p), o)
        /\ UNCHANGED <<scanning, stuck>> /\ o \in SUBSET ops
    BY <1>2 DEF Disconnects, MayRun, Drop
  <2>2. Scanned(o)
    BY <2>1 DEF Scanned, Drop, Op, IoKinds
  <2>3. ASSUME Running
        PROVE  Good(Disconnected(wf, p), o, radio') /\ Tidy(Disconnected(wf, p), o, links')
    <3>1. kind = "Disconnect" /\ wf.active = p /\ wf.phase = "Disconnecting"
      BY <2>1, <2>3, SettledPhases
    <3>2. o \cap Io = {} /\ <<"Disconnect", p>> \notin o
      BY <1>2, <2>3, <3>1 DEF Disconnects, MayRun, Drop, Io, IoKinds, IInv, IdInv, Verified, Owed, Pending
    <3>3. Severed => links' = {}
      BY <1>0, <2>1, <2>3, <3>1 DEF Held
    <3>4. Held(wf, links') /\ Quiet(o)
      BY <1>0, <2>1, <2>3, <3>1, <3>2, <3>3 DEF Held, Quiet, IInv, IdInv, Verified, Owed
    <3>5. CASE ~ Expects(wf, "disconnect", p)
      BY <1>0, <2>1, <2>3, <3>1, <3>3, <3>4, <3>5, RejectGood, RejectTidy DEF Disconnected
    <3>6. CASE Expects(wf, "disconnect", p)
      BY <1>0, <2>1, <2>3, <3>1, <3>2, <3>3, <3>4, <3>6, FinishDisconnectGood, FinishDisconnectTidy
      DEF Disconnected
    <3>. QED  BY <3>5, <3>6
  <2>4. ASSUME ~ Running
        PROVE  Released(o)
    <3>1. CASE kind = "Disconnect" \/ wf.active # p
      <4>1. <<"Release", wf.active>> \in ops => <<"Release", wf.active>> \in o
        BY <3>1 DEF Drop, IoKinds
      <4>. QED  BY <2>1, <2>4, <4>1, ReleasedStays DEF Deliver
    <3>2. CASE kind = "Release" /\ wf.active = p
      <4>1. Severed => links' = {}
        BY <2>1, <2>4, <3>2 DEF LnkInv, Owned
      <4>2. Severed => \A q \in Peripherals : <<"Connect", q>> \in ops => q = p
        BY <2>4, <3>2 DEF LnkInv, Owned
      <4>3. Severed => \A q \in Peripherals : <<"Connect", q>> \notin o
        BY <1>2, <3>2, <4>2 DEF Disconnects, MayRun, Barrier, CleanupKinds, Drop, IoKinds
      <4>. QED  BY <2>1, <4>1, <4>3 DEF Released
    <3>. QED  BY <3>1, <3>2
  <2>. QED  BY <2>1, <2>2, <2>3, <2>4, DeliverOwned
<1>3. ASSUME NEW kind \in {"Disconnect", "Release"}, DisconnectFails(p, kind)
      PROVE  LnkInv'
  <2>. DEFINE o == ops \ {<<kind, p>>}
  <2>1. /\ <<kind, p>> \in ops /\ Deliver(DisconnectFailed(wf, p), o) /\ UNCHANGED <<scanning, links, radio>>
        /\ stuck' = (stuck \/ kind = "Release")
    BY <1>3 DEF DisconnectFails, MayRun, Settle, air
  <2>2. Scanned(o)
    BY <2>1, OtherOps DEF Scanned
  <2>3. ASSUME Running
        PROVE  Good(DisconnectFailed(wf, p), o, radio') /\ Tidy(DisconnectFailed(wf, p), o, links')
    <3>1. kind = "Disconnect" /\ wf.active = p /\ wf.phase = "Disconnecting"
      BY <2>1, <2>3, SettledPhases
    <3>2. ops \cap Io = {} /\ (Severed => p \notin links)
      BY <1>3, <3>1 DEF DisconnectFails, MayRun, Fault, Severed
    <3>3. Severed => links' = {}
      BY <1>0, <1>3, <2>1, <2>3, <3>1, <3>2 DEF Held, Severed, DisconnectFails, Fault
    <3>4. Held(wf, links') /\ Quiet(o)
      BY <1>0, <2>1, <2>3, <3>1, <3>2, <3>3 DEF Held, Quiet, IInv, IdInv, Verified, Owed
    <3>5. CASE ~ Expects(wf, "disconnect", p)
      BY <1>0, <2>3, <3>1, <3>3, <3>4, <3>5, RejectGood, RejectTidy DEF DisconnectFailed
    <3>6. CASE Expects(wf, "disconnect", p)
      BY <1>0, <2>3, <3>1, <3>2, <3>3, <3>4, <3>6, FinishDisconnectGood, FinishDisconnectTidy
      DEF DisconnectFailed
    <3>. QED  BY <3>5, <3>6
  <2>4. ASSUME ~ Running
        PROVE  Released(o)
    <3>1. CASE kind = "Release"
      BY <2>1, <2>4, <3>1 DEF Released, LnkInv, Owned
    <3>2. CASE kind = "Disconnect"
      <4>1. <<"Release", wf.active>> \in ops => <<"Release", wf.active>> \in o
        BY <3>2
      <4>. QED  BY <2>1, <2>4, <4>1, ReleasedStays DEF Deliver
    <3>. QED  BY <3>1, <3>2
  <2>. QED  BY <2>1, <2>2, <2>3, <2>4, DeliverOwned
<1>. QED  BY <1>1, <1>2, <1>3 DEF DisconnectSettles

\* Persistence.
LEMMA PersistenceOwned ==
  ASSUME IInv, LnkInv, PersistenceSettles
  PROVE  LnkInv'
<1>0. Sought(wf) /\ (Running => Held(wf, links))
  BY DEF LnkInv, Owned
<1>1. CASE CheckpointSaved
  <2>1. /\ ops' = ops \ {Op("Checkpoint")}
        /\ UNCHANGED <<status, wf, scanning, stuck, established, links>>
    BY <1>1 DEF CheckpointSaved, air
  <2>2. Scanned(ops') /\ (~ Running => Released(ops'))
    BY <2>1, ReleasedStays DEF Scanned, Op
  <2>. QED  BY <2>1, <2>2, StillOwned
<1>2. CASE CheckpointFails
  <2>1. /\ Running /\ Settle(<<"Checkpoint", Nobody>>, UnexpectedFailure(wf))
        /\ UNCHANGED <<scanning, stuck, links, radio>>
    BY <1>2 DEF CheckpointFails, air, Op
  <2>. QED  BY <1>0, <2>1, UnexpectedGood, RejectTidy, SettleOwned DEF UnexpectedFailure
<1>3. CASE DeletesCheckpoint
  <2>1. /\ ops' = ops \ {Op("Delete")} /\ (stuck => stuck')
        /\ UNCHANGED <<status, wf, scanning, established, links>>
    BY <1>3 DEF DeletesCheckpoint, air
  <2>2. Scanned(ops') /\ (~ Running => Released(ops'))
    BY <2>1, ReleasedStays DEF Scanned, Op
  <2>. QED  BY <2>1, <2>2, StillOwned
<1>4. ASSUME NEW p \in Peripherals, SavesIdentity(p)
      PROVE  LnkInv'
  <2>1. /\ <<"Save", p>> \in ops /\ Settle(<<"Save", p>>, IdentitySaved(wf))
        /\ UNCHANGED <<scanning, stuck, links, radio>>
    BY <1>4 DEF SavesIdentity, MayRun, air
  <2>. QED  BY <1>0, <2>1, SavedGood, SavedTidy, SettleOwned
<1>5. ASSUME NEW p \in Peripherals, SaveFails(p)
      PROVE  LnkInv'
  <2>1. Settle(<<"Save", p>>, UnexpectedFailure(wf)) /\ UNCHANGED <<scanning, stuck, links, radio>>
    BY <1>5 DEF SaveFails, air
  <2>. QED  BY <1>0, <2>1, UnexpectedGood, RejectTidy, SettleOwned DEF UnexpectedFailure
<1>. QED  BY <1>1, <1>2, <1>3, <1>4, <1>5 DEF PersistenceSettles

-----------------------------------------------------------------------------
(* The theorems about links and candidates. *)

\* The invariant of the links, the scan and the candidates.
THEOREM LinkInvariant == Spec => [](IInv /\ LnkInv)
<1>1. Init => LnkInv
  <2>1. IsFiniteSet({})
    BY FS_EmptySet
  <2>2. Init => wf.found = {} /\ wf.mode = "manual" /\ ~ Running
    BY DEF Init, Base, Running
  <2>. QED  BY <2>1, <2>2 DEF Init, LnkInv, Owned, Scans, Sought
<1>2. IInv /\ LnkInv /\ [Next]_vars => LnkInv'
  <2>. SUFFICES ASSUME IInv, LnkInv, [Next]_vars PROVE LnkInv'
    OBVIOUS
  <2>1. CASE Application \/ Timers \/ ScanSettles \/ PersistenceSettles
    BY <2>1, ApplicationOwned, AttemptDeadlineOwned, ScanOwned, PersistenceOwned DEF Timers
  <2>2. ASSUME NEW p \in Peripherals,
               Advertise(p) \/ Dial(p) \/ AttemptSettles(p) \/ DiscoverTimesOut(p)
               \/ LinkLost(p) \/ DisconnectSettles(p)
        PROVE  LnkInv'
    BY <2>2, ScanOwned, AttemptOwned, DisconnectOwned
  <2>3. CASE UNCHANGED vars
    <3>1. UNCHANGED <<status, wf, ops, scanning, stuck, established, links>>
      BY <2>3 DEF vars, core, air
    <3>2. ~ Running => Released(ops')
      BY <3>1, ReleasedStays
    <3>. QED  BY <3>1, <3>2, StillOwned DEF Scanned
  <2>. QED  BY <2>1, <2>2, <2>3 DEF Next
<1>. QED  BY <1>1, <1>2, Invariance, PTL DEF Spec

\* The radio holds one link at a time, and when an operation has settled none but the
\* one the application knows of, and no scan runs (cancel and finish of connection.rs,
\* the cleanup of executor.ts and of CoreBluetoothHost.swift); the disconnection of an
\* attempt that was given up must not fail, which connection.rs takes for done.
THEOREM LinksOwnedHolds == ASSUME "disconnect" \notin Faults PROVE Spec => []LinksOwned
<1>1. IInv /\ LnkInv => LinksOwned
  <2>. SUFFICES ASSUME IInv, LnkInv PROVE LinksOwned
    OBVIOUS
  <2>1. links \subseteq {wf.active}
    BY DEF LnkInv, Owned, Held, Severed
  <2>2. Cardinality(links) <= 1
    <3>1. IsFiniteSet({wf.active}) /\ Cardinality({wf.active}) = 1
      BY FS_Singleton
    <3>2. Cardinality(links) <= Cardinality({wf.active})
      BY <2>1, <3>1, FS_Subset
    <3>. QED  BY <3>1, <3>2
  <2>3. OwnerFree => links \subseteq {established} /\ ~ scanning
    BY DEF OwnerFree, LnkInv, Owned, Scans, Severed
  <2>. QED  BY <2>2, <2>3 DEF LinksOwned
<1>. QED  BY <1>1, LinkInvariant, PTL

\* A reconnection that fails has tried every candidate it found (begin_next_probe,
\* finish_disconnect of connection.rs).
THEOREM ExhaustiveHolds == Spec => []Exhaustive
<1>1. IInv /\ LnkInv => Exhaustive
  BY DEF LnkInv, Owned, Sought, Left, Exhaustive
<1>. QED  BY <1>1, LinkInvariant, PTL
=============================================================================
