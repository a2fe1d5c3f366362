------------------------ MODULE NativeWorkflows_proofs -------------------------
(***************************************************************************)
(* Proofs about NativeWorkflows, for every number of operations, faults,   *)
(* cancellations, packets and units: one invariant for each family of      *)
(* workflows that the executor runs.  The application is told the truth,   *)
(* no line of a log is spliced, an operation that ended leaves nothing     *)
(* under way, the result of a reset is forgotten only when it was kept,    *)
(* and a streamed recording is deleted only when the service finalized it  *)
(* and, short of the wrap of its sequence numbers, has all that was heard. *)
(***************************************************************************)
EXTENDS NativeInvariant, SequenceTheorems, FiniteSetTheorems, TLAPS

-----------------------------------------------------------------------------
(* The executor, for any workflow *)

\* Constants: the count of a reset is not its failure, and a stream has a packet.
LEMMA NativeConstants ==
  /\ Count \in Nat /\ Count # NoResult /\ NoResult \notin Nat
  /\ Units \in Nat /\ Units > 0 /\ ChunkSize \in Nat /\ ChunkSize > 0
  /\ SeqMod \in Nat /\ SeqMod > 0 /\ LogSeqMod \in Nat /\ LogSeqMod > 0
BY NativeWorkflowsAssumption, StreamReducerAssumption, LogsReducerAssumption DEF NoResult

\* Ending: every effect of the operation is stale.
LEMMA EndingShape ==
  ASSUME NEW h, NEW family, HostShape(h, family), h.st = "running", NEW out, NEW outcome \in Outcomes
  PROVE  HostShape(Ending(h, out, outcome), family) /\ Ended(Ending(h, out, outcome), h, out, outcome)
<1> DEFINE stale == {[r EXCEPT !.mode = "stale"] : r \in h.run}
           clean == As("clean", out \cap HostEffects)
           g == [h EXCEPT !.st = "ending", !.outcome = outcome, !.pend = {}, !.sub = "off",
                          !.run = stale \cup clean]
<1>1. h \in HostType /\ h.run \subseteq Submitted  BY DEF HostShape, HostType
<1>2. \A r \in stale : r \in Submitted /\ r.mode = "stale" /\ \E q \in h.run : q.eff = r.eff
  BY <1>1 DEF Submitted
<1>3. \A q \in h.run : \E r \in stale : r.eff = q.eff /\ r.mode = "stale"
  <2> TAKE q \in h.run
  <2> DEFINE r == [q EXCEPT !.mode = "stale"]
  <2>1. r \in stale /\ r.eff = q.eff /\ r.mode = "stale"  BY <1>1 DEF Submitted
  <2> QED  BY <2>1
<1>4. \A r \in clean : r \in Submitted /\ r.mode = "clean" /\ r.eff \in out  BY DEF As, Submitted
<1>5. \A x \in out \cap HostEffects : [eff |-> x, mode |-> "clean"] \in clean  BY DEF As
<1> HIDE DEF stale, clean
<1>6. stale \cup clean \in SUBSET Submitted /\ {} \in SUBSET (HostEffects \cup Timers)  BY <1>2, <1>4
<1>7. /\ g \in HostType /\ g.st = "ending" /\ g.outcome = outcome /\ g.wf = h.wf
      /\ g.ask = h.ask /\ g.cmd = h.cmd /\ g.dirty = h.dirty /\ g.sub = "off"
      /\ g.run = stale \cup clean  BY <1>1, <1>6 DEF HostType, Outcomes
<1>8. g = Ending(h, out, outcome)  BY DEF Ending, stale, clean
<1> HIDE DEF g
<1>9. HostShape(g, family)  BY <1>2, <1>4, <1>7 DEF HostShape
<1>10. Ended(g, h, out, outcome)  BY <1>2, <1>3, <1>4, <1>5, <1>7 DEF Ended
<1> QED  BY <1>8, <1>9, <1>10

\* The outcome of a workflow is one the application can be told.
LEMMA OutcomeType ==
  ASSUME NEW w \in Workflow
  PROVE  Outcome(w) \in Outcomes
BY DEF Workflow, ResetWf, StreamWf, HandoffWf, LogsWf, DiscoverWf, NoWf, Outcome, Outcomes

\* accept: the operation ends with its workflow, or goes on.
LEMMA AcceptShape ==
  ASSUME NEW h, NEW family, HostShape(h, family), h.st = "running", NEW r,
         r.wf \in Workflow, r.wf.kind = family, NEW pend \in SUBSET (HostEffects \cup Timers)
  PROVE  LET g == Accept(h, r, pend)
         IN /\ HostShape(g, family)
            /\ IF Terminal(r.wf)
               THEN Ended(g, [h EXCEPT !.wf = r.wf], r.out, Outcome(r.wf)) /\ g.wf = r.wf
               ELSE Went(g, h, r)
<1> DEFINE a == [h EXCEPT !.wf = r.wf]
<1>1. /\ h \in HostType /\ h.run \subseteq Submitted /\ ~h.dirty
      /\ \A q \in h.run : q.mode = "live"  BY DEF HostShape, HostType
<1>2. /\ a \in HostType /\ a.st = "running" /\ a.wf = r.wf /\ a.ask = h.ask /\ a.cmd = h.cmd
      /\ a.outcome = h.outcome /\ a.dirty = h.dirty /\ a.run = h.run /\ a.sub = h.sub
      /\ a.pend = h.pend  BY <1>1 DEF HostType
<1>0. a = [h EXCEPT !.wf = r.wf]  OBVIOUS
<1> HIDE DEF a
<1>3. HostShape(a, family)  BY <1>1, <1>2 DEF HostShape
<1>4. CASE Terminal(r.wf)
  <2>1. Accept(h, r, pend) = Ending(a, r.out, Outcome(r.wf))  BY <1>0, <1>4 DEF Accept
  <2>2. Outcome(r.wf) \in Outcomes  BY OutcomeType
  <2>3. HostShape(Ending(a, r.out, Outcome(r.wf)), family)
        /\ Ended(Ending(a, r.out, Outcome(r.wf)), a, r.out, Outcome(r.wf))  BY <1>2, <1>3, <2>2, EndingShape
  <2>4. Ending(a, r.out, Outcome(r.wf)).wf = r.wf  BY <1>2, <2>3 DEF Ended
  <2> QED  BY <1>0, <1>4, <2>1, <2>3, <2>4
<1>5. CASE ~Terminal(r.wf)
  <2> DEFINE more == As("live", r.out \cap HostEffects)
             tracked == Tracked(pend, r.out)
             sub == IF "Unsubscribe" \in r.out THEN "off"
                    ELSE IF "Subscribe" \in r.out THEN "opening" ELSE h.sub
             g == [a EXCEPT !.pend = tracked, !.run = h.run \cup more, !.sub = sub]
  <2>1. Accept(h, r, pend) = g  BY <1>0, <1>2, <1>5 DEF Accept
  <2>2. \A q \in more : q \in Submitted /\ q.mode = "live" /\ q.eff \in r.out  BY DEF As, Submitted
  <2>3. tracked \in SUBSET (HostEffects \cup Timers)  BY DEF Tracked, Owned
  <2>4. sub \in {"off", "opening", "on"}  BY <1>1 DEF HostType
  <2>0. sub = IF "Unsubscribe" \in r.out THEN "off"
              ELSE IF "Subscribe" \in r.out THEN "opening" ELSE h.sub
    OBVIOUS
  <2> HIDE DEF more, tracked, sub
  <2>5. h.run \cup more \in SUBSET Submitted  BY <1>1, <2>2
  <2>6. /\ g \in HostType /\ g.st = "running" /\ g.wf = r.wf /\ g.ask = h.ask /\ g.cmd = h.cmd
        /\ g.outcome = h.outcome /\ g.dirty = h.dirty /\ g.run = h.run \cup more /\ g.sub = sub
    BY <1>2, <2>3, <2>4, <2>5 DEF HostType
  <2> HIDE DEF g
  <2>7. HostShape(g, family)  BY <1>1, <2>2, <2>6 DEF HostShape
  <2>8. Went(g, h, r)  BY <1>1, <2>2, <2>6, <2>0 DEF Went
  <2> QED  BY <1>5, <2>1, <2>7, <2>8
<1> QED  BY <1>4, <1>5

\* The work that has ended leaves the host as it is otherwise (settleWorker).
LEMMA WithoutShape ==
  ASSUME NEW h, NEW family, HostShape(h, family), NEW r
  PROVE  LET s == Without(h, r)
         IN /\ HostShape(s, family) /\ s.run = h.run \ {r}
            /\ s.st = h.st /\ s.wf = h.wf /\ s.ask = h.ask /\ s.cmd = h.cmd
            /\ s.outcome = h.outcome /\ s.dirty = h.dirty /\ s.sub = h.sub /\ s.pend = h.pend
<1> DEFINE rest == h.run \ {r}
           s == [h EXCEPT !.run = rest]
<1>1. h \in HostType /\ rest \in SUBSET Submitted /\ rest \subseteq h.run  BY DEF HostShape, HostType
<1>2. Without(h, r) = s  BY <1>1 DEF Without, HostType
<1>0. rest = h.run \ {r}  OBVIOUS
<1> HIDE DEF rest
<1>3. /\ s \in HostType /\ s.run = rest
      /\ s.st = h.st /\ s.wf = h.wf /\ s.ask = h.ask /\ s.cmd = h.cmd
      /\ s.outcome = h.outcome /\ s.dirty = h.dirty /\ s.sub = h.sub /\ s.pend = h.pend
  BY <1>1 DEF HostType
<1> HIDE DEF s
<1>4. HostShape(s, family)
  <2>1. h.run = {} => s.run = {}  BY <1>0, <1>3
  <2> QED  BY <1>1, <1>3, <2>1 DEF HostShape
<1> QED  BY <1>0, <1>2, <1>3, <1>4

\* emit: an event ends the operation, or its answer is accepted.
LEMMA EmitCases ==
  ASSUME NEW h, NEW family, HostShape(h, family), h.st = "running", NEW e
  PROVE  LET r == EngineAnswer(h.wf, e)
         IN IF family = "logs"
            THEN \/ r.rejected /\ Emit(h, e) = h
                 \/ ~r.rejected /\ \E pend \in SUBSET (HostEffects \cup Timers) :
                                     Emit(h, e) = Accept(h, r, pend)
            ELSE \/ Emit(h, e) = Ending(h, CancelAnswer(h.wf), "failed")
                 \/ /\ ~r.rejected /\ Matches(e.of, e.type)
                    /\ \E pend \in SUBSET (HostEffects \cup Timers) :
                         Emit(h, e) = Accept(h, r, pend)
<1> DEFINE r == EngineAnswer(h.wf, e)
           pend == IF e.of \in Recurring /\ ~Finishes(e.type) THEN h.pend ELSE h.pend \ {e.of}
<1>1. h.wf.kind = family /\ h.pend \in SUBSET (HostEffects \cup Timers)
      /\ pend \in SUBSET (HostEffects \cup Timers)  BY DEF HostShape, HostType
<1>0. r = EngineAnswer(h.wf, e)  OBVIOUS
<1>2. CASE family = "logs"
  <2>1. Emit(h, e) = Receive(h, r)  BY <1>1, <1>2 DEF Emit, OnApple
  <2> HIDE DEF r
  <2>2. \/ r.rejected /\ Emit(h, e) = h
        \/ ~r.rejected /\ Emit(h, e) = Accept(h, r, h.pend)  BY <2>1 DEF Receive
  <2> QED  BY <1>0, <1>1, <1>2, <2>2
<1>3. CASE family # "logs" /\ (~(e.of \in h.pend /\ Matches(e.of, e.type)) \/ r.rejected)
  BY <1>1, <1>3 DEF Emit, OnApple, CancelOperation
<1>4. CASE family # "logs" /\ e.of \in h.pend /\ Matches(e.of, e.type) /\ ~r.rejected
  BY <1>1, <1>4 DEF Emit, OnApple
<1> QED  BY <1>2, <1>3, <1>4

\* The cancellation of a running operation, and of one that ends.
LEMMA CancelShape ==
  ASSUME NEW h, NEW family, HostShape(h, family), NEW outcome \in {"failed", "cancelled"}
  PROVE  LET g == CancelOperation(h, outcome)
         IN /\ HostShape(g, family)
            /\ h.st = "running" => Ended(g, h, CancelAnswer(h.wf), outcome)
            /\ h.st = "ending" => \/ g = h
                                  \/ /\ g.st = "ending" /\ g.outcome = "failed" /\ g.wf = h.wf
                                     /\ g.ask = h.ask /\ g.cmd = h.cmd /\ g.dirty = h.dirty
                                     /\ g.run = h.run /\ g.sub = h.sub
            /\ h.st \notin {"running", "ending"} => g = h
<1> DEFINE g == CancelOperation(h, outcome)
<1>1. CASE h.st = "running"  BY <1>1, EndingShape DEF CancelOperation, Outcomes
<1>2. CASE h.st = "ending" /\ h.outcome # "cancelled"
  <2>1. g = [h EXCEPT !.outcome = "failed"]  BY <1>2 DEF CancelOperation
  <2>2. h \in HostType /\ "failed" \in Outcomes  BY DEF HostShape, Outcomes
  <2>3. /\ g \in HostType /\ g.st = "ending" /\ g.outcome = "failed" /\ g.wf = h.wf
        /\ g.ask = h.ask /\ g.cmd = h.cmd /\ g.dirty = h.dirty
        /\ g.run = h.run /\ g.sub = h.sub  BY <1>2, <2>1, <2>2 DEF HostType
  <2> HIDE DEF g
  <2>4. HostShape(g, family)  BY <1>2, <2>3 DEF HostShape
  <2> QED  BY <1>2, <2>3, <2>4 DEF g
<1>3. CASE h.st # "running" /\ ~(h.st = "ending" /\ h.outcome # "cancelled")  BY <1>3 DEF CancelOperation
<1> QED  BY <1>1, <1>2, <1>3

-----------------------------------------------------------------------------
(* The reset: the answers of the engine *)

\* ResetFail: what runs is cleaned up.
LEMMA ResetFailStep ==
  ASSUME NEW w \in ResetWf, NEW kept, NEW wiped, NEW acked, w.result = Count => wiped, NEW of
  PROVE  /\ ResetStep(w, of, ResetFail(w), kept, wiped, acked)
         /\ ~ResetFail(w).rejected /\ ResetFail(w).wf.phase = "Failed"
<1> DEFINE f == [Cleaned(w) EXCEPT !.phase = "Failed"]
<1>1. /\ Cleaned(w) \in ResetWf /\ Cleaned(w).phase = w.phase /\ Cleaned(w).result = w.result
  BY DEF ResetWf, Cleaned, ResetEffects
<1>2. f \in ResetWf /\ f.phase = "Failed" /\ f.result = w.result  BY <1>1 DEF ResetWf, ResetPhases
<1>3. ResetFail(w).wf = f /\ ResetFail(w).out = CleanupEffects(w) /\ ~ResetFail(w).rejected
  BY DEF ResetFail
<1>4. CleanupEffects(w) \cap HostEffects \subseteq {"Unsubscribe", "DeleteCheckpoint"}
  BY DEF CleanupEffects, HostEffects, Writes, Reads, Saves, Results, SinkWork
<1> HIDE DEF f
<1> QED  BY <1>2, <1>3, <1>4 DEF ResetStep

\* A transition of reset.rs that asks for one effect is a step of the reset.
LEMMA ResetNextStep ==
  ASSUME NEW w, NEW v, NEW of, NEW r, NEW kept, NEW wiped, NEW acked, NEW phase, NEW eff,
         ResetEnters(w, v, of, r, kept, wiped, acked, phase, eff)
  PROVE  ResetStep(w, of, r, kept, wiped, acked)
<1> DEFINE u == [v EXCEPT !.phase = phase, !.waits = @ \cup {eff}]
<1>1. /\ u \in ResetWf /\ u.phase = phase /\ u.waits = v.waits \cup {eff}
      /\ u.result = w.result /\ ~u.settling  BY DEF ResetWf, ResetEnters
<1>2. ResetWork(u) = {eff} /\ r.wf = u /\ r.out = {eff} /\ ResetFlow(v)  BY DEF ResetEnters
<1> HIDE DEF u
<1>3. ResetFlow(u)  BY <1>1, <1>2 DEF ResetFlow, ResetWaits, ResetEnters
<1>4. \A x \in HostEffects : ResetLive(w, x) /\ Source(x) # of => ResetLive(u, x)
  BY DEF ResetLive, ResetEnters
<1>5. ResetLive(u, eff) /\ eff \notin {"SaveJournal", "AskApp", "SaveResult"}
  BY <1>2 DEF ResetLive, ResetEffects, ResetEnters
<1>6. /\ u.result = Count => wiped
      /\ u.phase \in {"WritingReceipt", "DeletingResult"} => kept
      /\ u.phase = "DeletingResult" => acked
      /\ u.phase \notin {"Completed", "Failed", "PersistingResult"}  BY <1>1 DEF ResetEnters
<1> QED  BY <1>1, <1>2, <1>3, <1>4, <1>5, <1>6 DEF ResetStep

\* The effects answered by one type of event.
LEMMA Answered ==
  ASSUME NEW of, NEW type, Matches(of, type)
  PROVE  /\ type = "ReadCompleted" => of \in Reads
         /\ type = "WriteCompleted" => of \in Writes
         /\ type = "GrantPrepared" => of = "PrepareGrant"
         /\ type \in {"Subscribed", "Notification", "Disconnected"} => of = "Subscribe"
         /\ type = "CheckpointSaved" => of \in {"SaveStart", "SaveAwait"}
         /\ type = "ResultSaved" => of = "SaveResult"
         /\ type = "ResultDeleted" => of = "DeleteResult"
         /\ type = "PersistenceFailed" => of \in Saves
         /\ type = "SinkAccepted" => of \in SinkWork \ {"Finalize"}
         /\ type = "SinkFinalized" => of = "Finalize"
BY DEF Matches, Timers, Reads, Writes, Saves, SinkWork

\* The phases that wait for one callback.
LEMMA ResetAdvanceStep ==
  ASSUME NEW w, NEW e, NEW kept, NEW wiped, NEW acked, ResetReady(w, e, kept, wiped, acked),
         e.of \in w.waits, e.of \notin {"SaveStart", "SaveAwait"},
         ~(w.settling /\ e.of = "WriteOpcode"),
         e.type \notin {"Disconnected", "CheckpointSaved", "Subscribed", "Notification",
                        "TimerFired", "Failed", "MaterialFailed"},
         NEW r, r = ResetAdvance([w EXCEPT !.waits = @ \ {e.of}], e), ~r.rejected
  PROVE  ResetStep(w, e.of, r, kept, wiped, acked)
<1> DEFINE v == [w EXCEPT !.waits = @ \ {e.of}]
<1>1. /\ w \in ResetWf /\ ResetFlow(w) /\ w.phase \notin {"Completed", "Failed"}
      /\ w.result = Count => wiped
      /\ Matches(e.of, e.type)  BY DEF ResetReady
<1>2. /\ v \in ResetWf /\ v.phase = w.phase /\ v.result = w.result /\ v.settling = w.settling
      /\ v.waits = w.waits \ {e.of} /\ v.mode = w.mode  BY <1>1 DEF ResetWf
<1>3. ResetFlow(v)  BY <1>1, <1>2 DEF ResetFlow, ResetWaits, ResetWork
<1>13. w.phase # "PersistingResult" => ~v.settling  BY <1>1, <1>2 DEF ResetFlow
<1>0. r = ResetAdvance(v, e)  OBVIOUS
<1> HIDE DEF v
<1>4. CASE w.phase = "ReadingNonce" /\ e.type = "ReadCompleted"
  <2>1. e.of = "ReadNonce"  BY <1>1, <1>4, Answered DEF ResetFlow, ResetWaits, ResetWork, Watched, Reads
  <2>2. r.wf = [v EXCEPT !.phase = "PreparingGrant", !.waits = @ \cup {"PrepareGrant"}]
        /\ r.out = {"PrepareGrant"}  BY <1>0, <1>2, <1>4 DEF ResetAdvance
  <2>3. \A x \in HostEffects : ResetLive(w, x) /\ Source(x) # e.of =>
                                 x \in {"SaveStart", "SaveAwait", "Unsubscribe"}
    BY <1>1, <1>4, <2>1 DEF ResetLive, ResetWork, ResetFlow, Source, Results
  <2>4. v.waits \subseteq {"ResetTimer", "SaveStart", "SaveAwait"}
    BY <1>1, <1>2, <1>4, <2>1 DEF ResetFlow, ResetWaits, ResetWork, Watched
  <2>5. ResetWork(r.wf) = {"PrepareGrant"}  BY <1>2, <2>2 DEF ResetWork, ResetWf
  <2>6. /\ "PreparingGrant" \in ResetPhases /\ "PrepareGrant" \in HostEffects
        /\ "PrepareGrant" \in ResetEffects \ {"SaveResult"}
        /\ "PreparingGrant" \notin Watched
    BY DEF ResetPhases, ResetEffects, HostEffects, Writes, Saves, Watched
  <2>7. ResetEnters(w, v, e.of, r, kept, wiped, acked, "PreparingGrant", "PrepareGrant")
    BY <1>1, <1>2, <1>3, <1>4, <1>13, <2>2, <2>3, <2>4, <2>5, <2>6 DEF ResetEnters
  <2> QED  BY <2>7, ResetNextStep
<1>5. CASE w.phase = "PreparingGrant" /\ e.type = "GrantPrepared"
  <2>1. e.of = "PrepareGrant"  BY <1>1, <1>5, Answered
  <2>2. r.wf = [v EXCEPT !.phase = "Subscribing", !.waits = @ \cup {"Subscribe"}]
        /\ r.out = {"Subscribe"}  BY <1>0, <1>2, <1>5 DEF ResetAdvance
  <2>3. \A x \in HostEffects : ResetLive(w, x) /\ Source(x) # e.of =>
                                 x \in {"SaveStart", "SaveAwait", "Unsubscribe"}
    BY <1>1, <1>5, <2>1 DEF ResetLive, ResetWork, ResetFlow, Source, Results
  <2>4. v.waits \subseteq {"ResetTimer", "SaveStart", "SaveAwait"}
    BY <1>1, <1>2, <1>5, <2>1 DEF ResetFlow, ResetWaits, ResetWork, Watched
  <2>5. ResetWork(r.wf) = {"Subscribe"}  BY <1>2, <2>2 DEF ResetWork, ResetWf
  <2>6. /\ "Subscribing" \in ResetPhases /\ "Subscribe" \in HostEffects
        /\ "Subscribe" \in ResetEffects \ {"SaveResult"}
        /\ "Subscribing" \in Watched  BY DEF ResetPhases, ResetEffects, HostEffects, Writes, Saves, Watched
  <2>7. ResetEnters(w, v, e.of, r, kept, wiped, acked, "Subscribing", "Subscribe")
    BY <1>1, <1>2, <1>3, <1>5, <1>13, <2>2, <2>3, <2>4, <2>5, <2>6 DEF ResetEnters
  <2> QED  BY <2>7, ResetNextStep
<1>6. CASE w.phase = "WritingGrant" /\ e.type = "WriteCompleted"
  <2>1. e.of = "WriteGrant"  BY <1>1, <1>6, Answered DEF ResetFlow, ResetWaits, ResetWork, Watched, Writes
  <2>2. r.wf = [v EXCEPT !.phase = "WritingOpcode", !.waits = @ \cup {"WriteOpcode"}]
        /\ r.out = {"WriteOpcode"}  BY <1>0, <1>2, <1>6 DEF ResetAdvance
  <2>3. \A x \in HostEffects : ResetLive(w, x) /\ Source(x) # e.of =>
                                 x \in {"SaveStart", "SaveAwait", "Unsubscribe"}
    BY <1>1, <1>6, <2>1 DEF ResetLive, ResetWork, ResetFlow, Source, Results
  <2>4. v.waits \subseteq {"ResetTimer", "SaveStart", "SaveAwait"} \cup {"Subscribe"}
    BY <1>1, <1>2, <1>6, <2>1 DEF ResetFlow, ResetWaits, ResetWork, Watched
  <2>5. ResetWork(r.wf) = {"WriteOpcode"}  BY <1>2, <2>2 DEF ResetWork, ResetWf
  <2>6. /\ "WritingOpcode" \in ResetPhases /\ "WriteOpcode" \in HostEffects
        /\ "WriteOpcode" \in ResetEffects \ {"SaveResult"}
        /\ "WritingOpcode" \in Watched
    BY DEF ResetPhases, ResetEffects, HostEffects, Writes, Saves, Watched
  <2>7. ResetEnters(w, v, e.of, r, kept, wiped, acked, "WritingOpcode", "WriteOpcode")
    BY <1>1, <1>2, <1>3, <1>6, <1>13, <2>2, <2>3, <2>4, <2>5, <2>6 DEF ResetEnters
  <2> QED  BY <2>7, ResetNextStep
<1>7. CASE w.phase = "WritingOpcode" /\ e.type = "WriteCompleted"
  <2>1. e.of = "WriteOpcode"  BY <1>1, <1>7, Answered DEF ResetFlow, ResetWaits, ResetWork, Watched, Writes
  <2> DEFINE u == [v EXCEPT !.phase = "AwaitingResult"]
  <2>2. r.wf = u /\ r.out = {}  BY <1>0, <1>2, <1>7 DEF ResetAdvance
  <2>3. /\ u \in ResetWf /\ u.phase = "AwaitingResult" /\ u.result = w.result
        /\ u.waits = v.waits /\ u.settling = w.settling  BY <1>2 DEF ResetWf, ResetPhases
  <2> HIDE DEF u
  <2>4. ResetFlow(u)  BY <1>1, <1>2, <1>7, <2>1, <2>3 DEF ResetFlow, ResetWaits, ResetWork, Watched
  <2>5. \A x \in HostEffects : ResetLive(w, x) /\ Source(x) # e.of => ResetLive(u, x)
    BY <1>1, <1>7, <2>1 DEF ResetLive, ResetWork, ResetFlow, Source, Results
  <2> QED  BY <1>1, <2>2, <2>3, <2>4, <2>5 DEF ResetStep
<1>8. CASE w.phase = "PersistingResult" /\ e.type = "ResultSaved"
  <2>1. e.of = "SaveResult" /\ kept /\ w.result = Count  BY <1>1, <1>8, Answered DEF ResetReady, ResetFlow
  <2>2. \A x \in HostEffects : ResetLive(w, x) /\ Source(x) # e.of =>
          x \in {"SaveStart", "SaveAwait", "Unsubscribe"} \/ (x = "WriteOpcode" /\ w.settling)
    BY <1>1, <1>8, <2>1 DEF ResetLive, ResetWork, Source, Results
  <2>3. CASE w.settling
    <3>1. r.wf = v /\ r.out = {}  BY <1>0, <1>2, <1>8, <2>3 DEF ResetAdvance, ResultSaved
    <3>2. \A x \in HostEffects : ResetLive(w, x) /\ Source(x) # e.of => ResetLive(v, x)
      BY <1>2, <2>2 DEF ResetLive
    <3> QED  BY <1>1, <1>2, <1>3, <1>8, <2>1, <3>1, <3>2 DEF ResetStep
  <2>4. CASE ~w.settling
    <3>1. r.wf = [v EXCEPT !.phase = "WritingReceipt", !.waits = @ \cup {"WriteReceipt"}]
          /\ r.out = {"WriteReceipt"}
      BY <1>0, <1>2, <1>8, <2>4 DEF ResetAdvance, ResultSaved, WriteReceipt
    <3>2. v.waits \subseteq {"ResetTimer", "SaveStart", "SaveAwait"}
      BY <1>1, <1>2, <1>8, <2>1 DEF ResetFlow, ResetWaits, ResetWork, Watched
    <3>3. ResetWork(r.wf) = {"WriteReceipt"}  BY <1>2, <3>1 DEF ResetWork, ResetWf
    <3>4. /\ "WritingReceipt" \in ResetPhases /\ "WriteReceipt" \in HostEffects
          /\ "WriteReceipt" \in ResetEffects \ {"SaveResult"} /\ "WritingReceipt" \notin Watched
      BY DEF ResetPhases, ResetEffects, HostEffects, Writes, Watched
    <3>5. ResetEnters(w, v, e.of, r, kept, wiped, acked, "WritingReceipt", "WriteReceipt")
      BY <1>1, <1>2, <1>3, <1>8, <2>1, <2>2, <2>4, <3>1, <3>2, <3>3, <3>4 DEF ResetEnters
    <3> QED  BY <3>5, ResetNextStep
  <2> QED  BY <2>3, <2>4
<1>9. CASE /\ w.phase \in {"PersistingResult", "DeletingResult"}
           /\ e.type = "PersistenceFailed"
  <2>1. r = ResetFail(v)  BY <1>0, <1>2, <1>9 DEF ResetAdvance
  <2>2. ResetStep(v, e.of, r, kept, wiped, acked)  BY <1>1, <1>2, <2>1, ResetFailStep
  <2>3. r.wf.phase = "Failed"  BY <1>1, <1>2, <2>1, ResetFailStep
  <2> QED  BY <1>2, <2>2, <2>3 DEF ResetStep
<1>10. CASE w.phase = "WritingReceipt" /\ e.type = "WriteCompleted"
  <2>1. e.of = "WriteReceipt" /\ kept /\ acked /\ w.result = Count /\ ~w.settling
    BY <1>1, <1>10, Answered DEF ResetReady, ResetFlow, ResetWaits, ResetWork, Watched, Writes
  <2>2. r.wf = [v EXCEPT !.phase = "DeletingResult", !.waits = @ \cup {"DeleteResult"}]
        /\ r.out = {"DeleteResult"}  BY <1>0, <1>2, <1>10 DEF ResetAdvance
  <2>3. \A x \in HostEffects : ResetLive(w, x) /\ Source(x) # e.of =>
                                 x \in {"SaveStart", "SaveAwait", "Unsubscribe"}
    BY <1>1, <1>10, <2>1 DEF ResetLive, ResetWork, ResetFlow, Source, Results
  <2>4. v.waits \subseteq {"ResetTimer", "SaveStart", "SaveAwait"}
    BY <1>1, <1>2, <1>10, <2>1 DEF ResetFlow, ResetWaits, ResetWork, Watched
  <2>5. ResetWork(r.wf) = {"DeleteResult"}  BY <1>2, <2>2 DEF ResetWork, ResetWf
  <2>6. /\ "DeletingResult" \in ResetPhases /\ "DeleteResult" \in HostEffects
        /\ "DeleteResult" \in ResetEffects \ {"SaveResult"}
        /\ "DeletingResult" \notin Watched
    BY DEF ResetPhases, ResetEffects, HostEffects, Writes, Saves, Watched
  <2>7. ResetEnters(w, v, e.of, r, kept, wiped, acked, "DeletingResult", "DeleteResult")
    BY <1>1, <1>2, <1>3, <1>10, <1>13, <2>1, <2>2, <2>3, <2>4, <2>5, <2>6 DEF ResetEnters
  <2> QED  BY <2>7, ResetNextStep
<1>11. CASE w.phase = "DeletingResult" /\ e.type = "ResultDeleted"
  <2> DEFINE u == [Cleaned(v) EXCEPT !.phase = "Completed"]
  <2>1. r.wf = u /\ r.out = CleanupEffects(v) \cup {"DeleteCheckpoint"}
    BY SMTT(60), <1>0, <1>2, <1>11 DEF ResetAdvance, Complete
  <2>2. Cleaned(v) \in ResetWf /\ Cleaned(v).result = w.result  BY <1>2 DEF ResetWf, Cleaned, ResetEffects
  <2>3. u \in ResetWf /\ u.phase = "Completed" /\ u.result = w.result  BY <2>2 DEF ResetWf, ResetPhases
  <2>4. r.out \cap HostEffects \subseteq {"Unsubscribe", "DeleteCheckpoint"}
    BY <2>1 DEF CleanupEffects, HostEffects, Writes, Reads, Saves, Results, SinkWork
  <2>5. kept /\ acked  BY <1>11 DEF ResetReady
  <2> HIDE DEF u
  <2> QED  BY <1>1, <1>11, <2>1, <2>3, <2>4, <2>5 DEF ResetStep
<1>12. CASE /\ ~(w.phase = "ReadingNonce" /\ e.type = "ReadCompleted")
           /\ ~(w.phase = "PreparingGrant" /\ e.type = "GrantPrepared")
           /\ ~(w.phase \in {"WritingGrant", "WritingOpcode", "WritingReceipt"}
                /\ e.type = "WriteCompleted")
           /\ ~(w.phase = "PersistingResult" /\ e.type = "ResultSaved")
           /\ ~(w.phase \in {"PersistingResult", "DeletingResult"} /\ e.type = "PersistenceFailed")
           /\ ~(w.phase = "DeletingResult" /\ e.type = "ResultDeleted")
  <2>1. ResetAdvance(v, e) = [wf |-> v, out |-> {}, rejected |-> TRUE]  BY <1>2, <1>12 DEF ResetAdvance
  <2> QED  BY <1>0, <2>1
<1> QED  BY <1>4, <1>5, <1>6, <1>7, <1>8, <1>9, <1>10, <1>11, <1>12

-----------------------------------------------------------------------------
(* Around the executor: the device, the link and the bounds, for any workflow *)

\* More: one count grows, the family of a behaviour stays.
LEMMA MoreStep ==
  ASSUME used \in UsedType, NEW what \in Bounds, NEW bound, More(what, bound)
  PROVE  /\ used' \in UsedType /\ used'.family = used.family /\ used'.faults >= used.faults
         /\ what = "faults" => used'.faults > 0
<1>1. used[what] \in Nat /\ used' = [used EXCEPT ![what] = used[what] + 1]  BY DEF More, UsedType, Bounds
<1>2. used[what] + 1 \in Nat  BY <1>1
<1> QED  BY <1>1, <1>2 DEF UsedType, Bounds

\* MayFail, for an effect that needs the link and for one that does not.
LEMMA MayFailStep ==
  ASSUME used \in UsedType, NEW needs \in BOOLEAN, MayFail(needs)
  PROVE  /\ used' \in UsedType /\ used'.family = used.family /\ used'.faults >= used.faults
         /\ used'.faults > 0 \/ (needs /\ ~link.up /\ used' = used)
<1>1. CASE needs /\ ~link.up  BY <1>1 DEF MayFail, UsedType
<1>2. CASE ~(needs /\ ~link.up)  BY <1>2, MoreStep DEF MayFail, Bounds
<1> QED  BY <1>1, <1>2

\* The effects count faults and disconnections, and never start an operation.
LEMMA EffectUsed ==
  ASSUME used \in UsedType, Effect
  PROVE  used' \in UsedType /\ used'.family = used.family /\ used'.faults >= used.faults
<1> DEFINE Goal == used' \in UsedType /\ used'.family = used.family /\ used'.faults >= used.faults
<1>1. UNCHANGED used => Goal  BY DEF UsedType
<1>2. \A bound : More("faults", bound) => Goal  BY MoreStep DEF Bounds
<1>3. MayFail(TRUE) \/ MayFail(FALSE) => Goal  BY MayFailStep
<1> HIDE DEF Goal
<1>4. PICK r \in host.run :
        \/ Write(r) \/ Read(r) \/ Subscribe(r) \/ Unsubscribe(r) \/ Scan(r)
        \/ Save(r) \/ DeleteCheckpoint(r) \/ SaveResult(r) \/ SaveJournal(r) \/ AskApp(r)
        \/ PrepareGrant(r) \/ SinkBegins(r) \/ Discard(r)  BY DEF Effect
<1>5. Goal
  <2>1. CASE Write(r)  BY <1>1, <1>2, <1>3, <2>1 DEF Write
  <2>2. CASE Read(r)  BY <1>1, <1>2, <1>3, <2>2 DEF Read
  <2>3. CASE Subscribe(r)  BY <1>1, <1>2, <1>3, <2>3 DEF Subscribe
  <2>4. CASE Unsubscribe(r)  BY <1>1, <1>2, <1>3, <2>4 DEF Unsubscribe
  <2>5. CASE Scan(r)  BY <1>1, <1>2, <1>3, <2>5 DEF Scan
  <2>6. CASE Save(r)  BY <1>1, <1>2, <1>3, <2>6 DEF Save
  <2>7. CASE DeleteCheckpoint(r)  BY <1>1, <1>2, <1>3, <2>7 DEF DeleteCheckpoint
  <2>8. CASE SaveResult(r)  BY <1>1, <1>2, <1>3, <2>8 DEF SaveResult
  <2>9. CASE SaveJournal(r)  BY <1>1, <1>2, <1>3, <2>9 DEF SaveJournal
  <2>10. CASE AskApp(r)  BY <1>1, <1>2, <1>3, <2>10 DEF AskApp
  <2>11. CASE PrepareGrant(r)  BY <1>1, <1>2, <1>3, <2>11 DEF PrepareGrant
  <2>12. CASE SinkBegins(r)  BY <1>1, <1>2, <1>3, <2>12 DEF SinkBegins
  <2>13. CASE Discard(r)  BY <1>1, <1>2, <1>3, <2>13 DEF Discard
  <2> QED  BY <1>4, <2>1, <2>2, <2>3, <2>4, <2>5, <2>6, <2>7, <2>8, <2>9, <2>10, <2>11, <2>12, <2>13
<1> QED  BY <1>5 DEF Goal

\* No step changes the family of the run, or takes back a fault.
LEMMA UsedStep ==
  ASSUME used \in UsedType, NativeNext
  PROVE  used' \in UsedType /\ used'.family = used.family /\ used'.faults >= used.faults
<1> DEFINE Goal == used' \in UsedType /\ used'.family = used.family /\ used'.faults >= used.faults
<1>1. UNCHANGED used => Goal  BY DEF UsedType
<1>2. \A bound, what : what \in Bounds /\ More(what, bound) => Goal  BY MoreStep
<1>3. MayFail(TRUE) \/ MayFail(FALSE) => Goal  BY MayFailStep
<1>4. {"ops", "faults", "lost", "drops", "cancels", "restarts"} = Bounds  BY DEF Bounds
<1>5. Effect => Goal  BY EffectUsed
<1> HIDE DEF Goal
<1>6. StartOperation => Goal
  BY <1>2, <1>4 DEF StartOperation, FactoryReset, ResumeFactoryReset, StartStreaming,
        ObserveUploadOwnership, ReadDeviceLogs, StartScan, StartOp
<1>7. AppCancels => Goal  BY <1>2, <1>4 DEF AppCancels
<1>8. Ahead \/ Refused => Goal  BY <1>1 DEF Ahead, Refused, WriteExecutes, Quarantined
<1>9. SinkSteps => Goal
  BY <1>1, <1>2, <1>3, <1>4 DEF SinkSteps, BackgroundFlush, UploadChunk, FinalizeAsked, JobStops
<1>10. Candidate \/ TimerElapses \/ Deliver \/ DeviceUploads \/ HearDrop \/ Reconnect \/ Finish => Goal
  BY <1>1 DEF Candidate, TimerElapses, Deliver, DeviceUploads, HearDrop, Reconnect, Finish
<1>11. DeviceSends \/ DeviceLogs \/ LinkLost => Goal
  BY <1>1, <1>2, <1>4 DEF DeviceSends, DeviceLogs, LinkLost
<1>12. ClearResetOwner \/ Restart => Goal  BY <1>1, <1>2, <1>4 DEF ClearResetOwner, Restart
<1>13. Goal  BY <1>5, <1>6, <1>7, <1>8, <1>9, <1>10, <1>11, <1>12 DEF NativeNext
<1> QED  BY <1>13 DEF Goal

\* What a command that was written does to the device.
LEMMA DeviceTakesStep ==
  ASSUME dev \in DevType, NEW eff \in Writes, DeviceTakes(eff)
  PROVE  DeviceTook(eff)
<1>1. /\ Count \in Nat /\ Count # NoResult /\ Units \in Nat /\ Units > 0  BY NativeConstants
<1>2. -1 \in -1 .. Units + 1 /\ 1 \in -1 .. Units + 1 /\ 0 \in -1 .. Units + 1  BY <1>1
<1>3. {Count, NoResult} \subseteq Results2  BY DEF Results2
<1>4. CASE eff = "WriteGrant"  BY <1>4 DEF DeviceTook, DeviceTakes, DevType, Writes
<1>5. CASE eff = "WriteOpcode"
  <2>1. CASE dev' = [dev EXCEPT !.wiped = TRUE, !.held = Count, !.grant = FALSE]
    BY <1>3, <1>5, <2>1 DEF DeviceTook, DevType
  <2>2. CASE dev' = [dev EXCEPT !.grant = FALSE]  BY <1>3, <1>5, <2>2 DEF DeviceTook, DevType
  <2> QED  BY <1>5, <2>1, <2>2 DEF DeviceTook, DeviceTakes
<1>6. CASE eff = "WriteReceipt"  BY <1>3, <1>6 DEF DeviceTook, DeviceTakes, DevType
<1>7. CASE eff = "WriteStart"
  <2>1. CASE dev' = dev  BY <1>7, <2>1 DEF DeviceTook, DeviceTakes
  <2>2. CASE dev' = [dev EXCEPT !.next = IF dev.sealed THEN -1 ELSE 1, !.heard = {}]
    BY <1>2, <1>7, <2>2 DEF DeviceTook, DevType
  <2> QED  BY <1>7, <2>1, <2>2 DEF DeviceTook, DeviceTakes
<1>8. CASE eff = "WriteAck"  BY <1>8 DEF DeviceTook, DeviceTakes
<1>9. CASE eff = "WriteConfirm"  BY <1>9 DEF DeviceTook, DeviceTakes, DevType
<1>10. CASE eff = "WriteAbort"  BY <1>2, <1>10 DEF DeviceTook, DeviceTakes, DevType
<1>11. CASE eff = "WriteTrigger"
  <2>1. dev' = dev \/ dev' = [dev EXCEPT !.sync = TRUE]  BY <1>11 DEF DeviceTook, DeviceTakes
  <2> QED  BY <1>11, <2>1 DEF DeviceTook, DevType
<1>12. CASE eff = "WriteLogStart"  BY <1>12 DEF DeviceTook, DeviceTakes, DevType
<1>13. CASE eff = "WriteLogStop"  BY <1>13 DEF DeviceTook, DeviceTakes, DevType
<1> QED  BY <1>4, <1>5, <1>6, <1>7, <1>8, <1>9, <1>10, <1>11, <1>12, <1>13 DEF Writes

\* The end of the link, for the device.
LEMMA DetachedType ==
  ASSUME dev \in DevType
  PROVE  /\ Detached \in DevType /\ Detached.next = 0 /\ ~Detached.logging
         /\ Detached.wiped = dev.wiped /\ Detached.held = dev.held
         /\ Detached.deleted = dev.deleted /\ Detached.sealed = dev.sealed
         /\ Detached.pending = dev.pending /\ Detached.sync = dev.sync /\ Detached.log = dev.log
         /\ Detached.heard = dev.heard
<1>1. 0 \in -1 .. Units + 1  BY NativeConstants
<1>2. Detached = [dev EXCEPT !.grant = FALSE, !.next = 0, !.logging = FALSE]  BY DEF Detached
<1> HIDE DEF Detached
<1> QED  BY <1>1, <1>2 DEF DevType

\* Only a write, the link, a restart and the device itself change the device.
LEMMA DevStep ==
  ASSUME dev \in DevType, host.run \subseteq Submitted, NativeNext
  PROVE  dev' \in DevType
<1>1. \A eff \in Writes : DeviceTakes(eff) => dev' \in DevType  BY DeviceTakesStep DEF DeviceTook
<1>2. UNCHANGED dev => dev' \in DevType  OBVIOUS
<1>3. dev' = Detached => dev' \in DevType  BY DetachedType
<1>4. Effect => dev' \in DevType
  BY <1>1, <1>2 DEF Effect, Write, Read, Subscribe, Unsubscribe, Scan, Save, DeleteCheckpoint,
        SaveResult, SaveJournal, AskApp, PrepareGrant, SinkBegins, Discard, Files, Sinks
<1>5. Ahead => dev' \in DevType  BY <1>1 DEF Ahead, WriteExecutes, Writes
<1>6. StartOperation \/ AppCancels \/ Refused \/ SinkSteps \/ Candidate \/ TimerElapses \/ Deliver
      \/ HearDrop \/ Reconnect \/ Finish \/ ClearResetOwner => dev' \in DevType
  BY <1>2 DEF StartOperation, FactoryReset, ResumeFactoryReset, StartStreaming,
        ObserveUploadOwnership, ReadDeviceLogs, StartScan, StartOp, AppCancels, Refused, Quarantined,
        SinkSteps, BackgroundFlush, UploadChunk, FinalizeAsked, JobStops, Sinks,
        Candidate, TimerElapses, Deliver, HearDrop, Reconnect, Finish, ClearResetOwner
<1>7. LinkLost \/ Restart => dev' \in DevType  BY <1>3 DEF LinkLost, Restart
<1>8. DeviceSends => dev' \in DevType
  <2>1. \A i \in -1 .. Units + 1 : After(i) \in -1 .. Units + 1  BY NativeConstants DEF After
  <2>2. DeviceSends => \E more \in SUBSET (1 .. Units) :
                         dev' = [dev EXCEPT !.next = After(@), !.heard = @ \cup more]
    <3> SUFFICES ASSUME DeviceSends
                 PROVE  \E more \in SUBSET (1 .. Units) :
                          dev' = [dev EXCEPT !.next = After(@), !.heard = @ \cup more]
      OBVIOUS
    <3>1. CASE dev' = [dev EXCEPT !.next = After(@)]
      <4> WITNESS {} \in SUBSET (1 .. Units)
      <4> QED  BY <3>1 DEF DevType
    <3>2. CASE dev' = [dev EXCEPT !.next = After(@),
                          !.heard = IF link.cccd THEN @ \cup (1..Units \cap {dev.next}) ELSE @]
      <4> DEFINE more == IF link.cccd THEN 1..Units \cap {dev.next} ELSE {}
      <4> WITNESS more \in SUBSET (1 .. Units)
      <4> QED  BY <3>2
    <3> QED  BY <3>1, <3>2 DEF DeviceSends
  <2> QED  BY <2>1, <2>2 DEF DevType
<1>9. DeviceLogs => dev' \in DevType
  <2>1. DeviceLogs => dev' = [dev EXCEPT !.log = @ + 1] \/ dev' = [dev EXCEPT !.log = @ + 2]
    BY DEF DeviceLogs
  <2> QED  BY <2>1 DEF DevType
<1>10. DeviceUploads => dev' \in DevType
  <2>1. DeviceUploads => \/ dev' = [dev EXCEPT !.sync = FALSE]
                         \/ /\ dev.pending > 0
                            /\ dev' = [dev EXCEPT !.pending = @ - 1, !.sync = dev.pending > 1]
    BY DEF DeviceUploads
  <2>2. (dev.pending > 1) \in BOOLEAN /\ (dev.pending > 0 => dev.pending - 1 \in Nat)  BY DEF DevType
  <2> QED  BY <2>1, <2>2 DEF DevType
<1> QED  BY <1>4, <1>5, <1>6, <1>7, <1>8, <1>9, <1>10 DEF NativeNext

\* The link, too, stays a link.
LEMMA LinkStep ==
  ASSUME link \in LinkType, NativeNext
  PROVE  link' \in LinkType
<1>1. UNCHANGED link => link' \in LinkType  OBVIOUS
<1>2. Effect => link' \in LinkType
  BY <1>1 DEF Effect, Write, Read, Subscribe, Unsubscribe, Scan, Save, DeleteCheckpoint,
        SaveResult, SaveJournal, AskApp, PrepareGrant, SinkBegins, Discard, Files, Sinks, LinkType
<1>3. Ahead \/ LinkLost \/ HearDrop \/ Reconnect \/ Finish => link' \in LinkType
  BY DEF Ahead, WriteExecutes, LinkLost, HearDrop, Reconnect, Finish, LinkType
<1>5. Restart => link' \in LinkType  BY DEF Restart, LinkType
<1>4. StartOperation \/ AppCancels \/ Refused \/ SinkSteps \/ Candidate \/ TimerElapses \/ Deliver
      \/ ClearResetOwner \/ DeviceSends \/ DeviceLogs \/ DeviceUploads => link' \in LinkType
  BY <1>1 DEF StartOperation, FactoryReset, ResumeFactoryReset, StartStreaming,
        ObserveUploadOwnership, ReadDeviceLogs, StartScan, StartOp, AppCancels, Refused, Quarantined,
        SinkSteps, BackgroundFlush, UploadChunk, FinalizeAsked, JobStops, Sinks,
        Candidate, TimerElapses, Deliver, ClearResetOwner, DeviceSends, DeviceLogs, DeviceUploads
<1> QED  BY <1>2, <1>3, <1>4, <1>5 DEF NativeNext

\* The host between two operations.
LEMMA IdleShape ==
  /\ Idle \in HostType /\ Idle.st = "idle" /\ Idle.run = {} /\ Idle.outcome = "none" /\ Idle.dirty = FALSE
  /\ Idle.sub = "off" /\ Idle.ask = FALSE /\ Idle.cmd = "none" /\ Idle.wf = [kind |-> "none"]
  /\ Idle.pend = {}
  /\ \A family : HostShape(Idle, family)
<1>1. Idle \in HostType
  <2>1. FALSE \in BOOLEAN /\ {} \in SUBSET (HostEffects \cup Timers) /\ {} \in SUBSET Submitted
        /\ "none" \in Owners /\ "none" \in Outcomes /\ [kind |-> "none"] \in Workflow
    BY DEF Owners, Outcomes, Workflow, NoWf
  <2> QED  BY <2>1 DEF Idle, HostType
<1>2. /\ Idle.st = "idle" /\ Idle.run = {} /\ Idle.outcome = "none" /\ Idle.dirty = FALSE
      /\ Idle.sub = "off" /\ Idle.ask = FALSE /\ Idle.cmd = "none" /\ Idle.wf = [kind |-> "none"]
      /\ Idle.pend = {}  BY DEF Idle
<1> HIDE DEF Idle
<1> QED  BY <1>1, <1>2 DEF HostShape

\* An operation begins: its first effects are live.
LEMMA BeginShape ==
  ASSUME NEW h \in HostType, h.run = {}, h.outcome = "none", h.dirty = FALSE, h.sub = "off",
         NEW family, NEW r, r.wf \in Workflow, r.wf.kind = family, ~Terminal(r.wf)
  PROVE  LET g == Begin(h, r)
         IN /\ HostShape(g, family) /\ g.st = "running" /\ g.wf = r.wf /\ g.ask = h.ask /\ g.cmd = h.cmd
            /\ g.outcome = "none" /\ g.dirty = FALSE
            /\ \A q \in g.run : q.eff \in r.out /\ q.mode = "live"
            /\ g.sub = IF "Unsubscribe" \in r.out THEN "off"
                       ELSE IF "Subscribe" \in r.out THEN "opening" ELSE "off"
<1> DEFINE more == As("live", r.out \cap HostEffects)
           tracked == Tracked({}, r.out)
           sub == IF "Unsubscribe" \in r.out THEN "off"
                  ELSE IF "Subscribe" \in r.out THEN "opening" ELSE "off"
           a == [h EXCEPT !.st = "running"]
           b == [a EXCEPT !.wf = r.wf]
           g == [b EXCEPT !.pend = tracked, !.run = more, !.sub = sub]
<1>1. \A q \in more : q \in Submitted /\ q.mode = "live" /\ q.eff \in r.out  BY DEF As, Submitted
<1>2. tracked \in SUBSET (HostEffects \cup Timers)  BY DEF Tracked, Owned
<1>3. sub \in {"off", "opening", "on"}  OBVIOUS
<1>0. /\ sub = IF "Unsubscribe" \in r.out THEN "off"
               ELSE IF "Subscribe" \in r.out THEN "opening" ELSE "off"
      /\ more = As("live", r.out \cap HostEffects)
      /\ tracked = Tracked({}, r.out)  OBVIOUS
<1> HIDE DEF more, tracked, sub
<1>4. /\ b \in HostType /\ b.st = "running" /\ b.wf = r.wf /\ b.ask = h.ask /\ b.cmd = h.cmd
      /\ b.outcome = "none" /\ b.dirty = FALSE /\ b.run = {} /\ b.sub = "off"
      /\ b = [[h EXCEPT !.st = "running"] EXCEPT !.wf = r.wf]  BY DEF HostType
<1> HIDE DEF b
<1>5. Begin(h, r) = g
  <2>1. b.run \cup more = more  BY <1>4
  <2> QED  BY <1>0, <1>4, <2>1 DEF Begin, Accept
<1>6. more \in SUBSET Submitted  BY <1>1
<1>7. /\ g \in HostType /\ g.st = "running" /\ g.wf = r.wf /\ g.ask = h.ask /\ g.cmd = h.cmd
      /\ g.outcome = "none" /\ g.dirty = FALSE /\ g.run = more /\ g.sub = sub
  BY <1>2, <1>3, <1>4, <1>6 DEF HostType
<1> HIDE DEF g
<1>8. HostShape(g, family)  BY <1>1, <1>7 DEF HostShape
<1> QED  BY <1>0, <1>1, <1>5, <1>7, <1>8

\* The same of a host that has nothing to do yet (claim).
LEMMA IdleBegins ==
  ASSUME NEW family, NEW r, r.wf \in Workflow, r.wf.kind = family, ~Terminal(r.wf)
  PROVE  /\ HostShape(Begin(Idle, r), family) /\ Begin(Idle, r).st = "running"
         /\ Begin(Idle, r).wf = r.wf /\ Begin(Idle, r).outcome = "none"
         /\ \A q \in Begin(Idle, r).run : q.eff \in r.out
<1> DEFINE h == Idle
<1>1. h \in HostType /\ h.run = {} /\ h.outcome = "none" /\ h.dirty = FALSE /\ h.sub = "off"  BY IdleShape
<1>2. h = Idle  OBVIOUS
<1> HIDE DEF h
<1>3. LET g == Begin(h, r)
      IN /\ HostShape(g, family) /\ g.st = "running" /\ g.wf = r.wf /\ g.outcome = "none"
         /\ \A q \in g.run : q.eff \in r.out
  BY ZenonT(30), <1>1, BeginShape
<1> QED  BY <1>2, <1>3

-----------------------------------------------------------------------------
(* The device log: the answers of the engine *)

\* The sequence number after a packet.
LEMMA LogSequence ==
  ASSUME NEW x \in Nat
  PROVE  /\ x % LogSeqMod \in Nat /\ x % LogSeqMod <= x
         /\ x % LogSeqMod = x \/ x % LogSeqMod < x
BY NativeConstants

\* push: what a packet adds to the lines is of one line, and what it leaves in the
\* buffer is of the line that the next packet belongs to.
LEMMA DecodeStep ==
  ASSUME NEW w, LogFlow(w), NEW p \in LogPackets, NEW notes \in Seq(LogPackets), NEW log \in Nat,
         notes # <<>>, p = Head(notes), LogInOrder(notes, log), Unbroken(w, notes, log)
  PROVE  LET d == Decode(w, p)
         IN /\ LogFlow(d) /\ d.phase = w.phase /\ d.waits = w.waits
            /\ Unbroken(d, Tail(notes), log)
<1> DEFINE kept == IF (w.expected # -1 /\ p.seq # w.expected) \/ p.dropped THEN <<>> ELSE w.buffer
           buffer == Append(kept, p.line)
           expected == (p.seq + 1) % LogSeqMod
           d == IF p.end THEN [w EXCEPT !.expected = expected, !.buffer = <<>>,
                                        !.lines = w.lines \cup {buffer}]
                ELSE [w EXCEPT !.expected = expected, !.buffer = buffer]
<1>1. w \in LogsWf /\ w.buffer \in Seq(Int) /\ w.lines \in SUBSET Seq(Int) /\ w.expected \in Int
  BY DEF LogFlow, LogsWf
<1>2. p.seq \in Nat /\ p.line \in Int /\ p.dropped \in BOOLEAN /\ p.end \in BOOLEAN  BY DEF LogPackets
<1>3. expected \in Nat /\ (expected = p.seq + 1 \/ expected < p.seq + 1)
  <2>1. p.seq + 1 \in Nat  BY <1>2
  <2> QED  BY <2>1, LogSequence
<1>4. Decode(w, p) = d  BY <1>1 DEF Decode, LogsWf
<1>5. kept \in Seq(Int) /\ \A i \in DOMAIN kept : kept[i] = p.line
  <2>1. CASE kept = <<>>
    <3> HIDE DEF kept
    <3> QED  BY <2>1
  <2>2. CASE kept = w.buffer /\ kept # <<>>
    <3>1. w.expected = p.seq /\ ~p.dropped  BY <2>2 DEF LogFlow
    <3>2. p.line = (p.seq + 1) \div 2  BY <3>1 DEF LogPackets
    <3>3. 1 \in DOMAIN notes /\ notes[1] = p  BY HeadTailProperties
    <3>4. \A i \in DOMAIN w.buffer : w.buffer[i] = (w.expected + 1) \div 2  BY <1>2, <3>1, <3>3 DEF Unbroken
    <3> QED  BY <1>1, <2>2, <3>1, <3>2, <3>4
  <2> QED  BY <2>1, <2>2
<1>6. buffer \in Seq(Int) /\ \A i \in DOMAIN buffer : buffer[i] = p.line  BY <1>2, <1>5
<1>0. <<>> \in Seq(Int)  OBVIOUS
<1>7. /\ d \in LogsWf /\ d.phase = w.phase /\ d.waits = w.waits /\ d.expected = expected
      /\ p.end => d.buffer = <<>> /\ d.lines = w.lines \cup {buffer}
      /\ ~p.end => d.buffer = buffer /\ d.lines = w.lines
  <2> HIDE DEF buffer, expected, kept
  <2>1. w.lines \cup {buffer} \in SUBSET Seq(Int) /\ expected \in Int  BY <1>1, <1>3, <1>6
  <2>2. CASE p.end  BY <1>0, <1>1, <2>1, <2>2 DEF LogsWf
  <2>3. CASE ~p.end  BY <1>1, <1>6, <2>1, <2>3 DEF LogsWf
  <2> QED  BY <1>2, <2>2, <2>3
<1>8. LogFlow(d)
  <2> HIDE DEF d, kept, expected, buffer
  <2>1. Unspliced(d)  BY <1>2, <1>6, <1>7 DEF Unspliced, LogFlow
  <2>2. LogWork(d) = LogWork(w)  BY <1>7 DEF LogWork
  <2> QED  BY <1>3, <1>7, <2>1, <2>2 DEF LogFlow
<1>9. Unbroken(d, Tail(notes), log)
  <2>1. \A i \in DOMAIN Tail(notes) : Tail(notes)[i].seq > p.seq /\ p.seq < log
    <3>1. \A i \in DOMAIN Tail(notes) : i + 1 \in DOMAIN notes /\ Tail(notes)[i] = notes[i + 1]
      BY HeadTailProperties
    <3>2. 1 \in DOMAIN notes /\ notes[1] = p  BY HeadTailProperties
    <3>3. \A i \in DOMAIN Tail(notes) : i \in Nat /\ 1 < i + 1  BY HeadTailProperties
    <3> QED  BY <3>1, <3>2, <3>3 DEF LogInOrder
  <2>2. p.seq < log  BY HeadTailProperties DEF LogInOrder
  <2>3. \A i \in DOMAIN Tail(notes) : Tail(notes)[i] \in LogPackets  BY HeadTailProperties
  <2>4. \A q \in LogPackets : q.seq \in Nat  BY DEF LogPackets
  <2>5. CASE p.end  BY <1>7, <2>5 DEF Unbroken
  <2>6. CASE ~p.end /\ expected = p.seq + 1
    <3>1. p.line = (p.seq + 2) \div 2
      <4>1. CASE p.dropped  BY <4>1 DEF LogPackets
      <4>2. CASE ~p.dropped
        <5>1. p.line = (p.seq + 1) \div 2 /\ ~(p.seq % 2 = 0)  BY <2>6, <4>2 DEF LogPackets
        <5>2. \A x \in Nat : x % 2 # 0 => (x + 1) \div 2 = (x + 2) \div 2  OBVIOUS
        <5> QED  BY <1>2, <5>1, <5>2
      <4> QED  BY <4>1, <4>2
    <3> HIDE DEF d, buffer, kept, expected
    <3>2. (d.expected + 1) \div 2 = p.line  BY <1>2, <1>7, <2>6, <3>1
    <3> QED  BY <1>6, <1>7, <2>6, <3>2 DEF Unbroken
  <2>7. CASE ~p.end /\ expected < p.seq + 1
    <3> HIDE DEF d, buffer, kept, expected
    <3>1. expected <= p.seq  BY <1>2, <1>3, <2>7
    <3> QED  BY <1>2, <1>3, <1>7, <2>1, <2>2, <2>3, <2>4, <3>1 DEF Unbroken
  <2> QED  BY <1>2, <1>3, <2>5, <2>6, <2>7
<1> HIDE DEF d
<1> QED  BY <1>4, <1>7, <1>8, <1>9

\* LogFail: it keeps the lines, and drops what was not one yet.
LEMMA LogFailStep ==
  ASSUME NEW w, LogFlow(w), NEW stop \in BOOLEAN, NEW e
  PROVE  LogStep(w, e, LogFail(w, stop)) /\ LogFail(w, stop).wf.phase = "Failed"
<1> DEFINE f == [w EXCEPT !.phase = "Failed", !.waits = {}, !.buffer = <<>>, !.expected = -1]
<1>1. w \in LogsWf /\ <<>> \in Seq(Int) /\ {} \in SUBSET LogEffects /\ -1 \in Int  BY DEF LogFlow
<1>2. f \in LogsWf /\ f.phase = "Failed" /\ f.lines = w.lines /\ f.buffer = <<>>
  BY <1>1 DEF LogsWf, LogPhases
<1>3. LogFail(w, stop).wf = f /\ LogFail(w, stop).out = LogCleanup(w, stop)  BY DEF LogFail
<1> HIDE DEF f
<1>4. LogCleanup(w, stop) \subseteq {"Unsubscribe", "WriteLogStop"}  BY DEF LogCleanup
<1>5. Unspliced(f)  BY <1>2 DEF Unspliced, LogFlow
<1> QED  BY <1>2, <1>3, <1>4, <1>5 DEF LogStep

\* dispatch, but for a packet.
LEMMA LogAnswerStep ==
  ASSUME NEW w, LogFlow(w), NEW e, e.type # "Notification",
         e.type = "WriteCompleted" => e.of \in Writes, ~LogDispatch(w, e).rejected
  PROVE  LogStep(w, e, LogDispatch(w, e))
<1> DEFINE r == LogDispatch(w, e)
           s == [w EXCEPT !.waits = w.waits \ {e.of}]
<1>1. w \in LogsWf /\ w.waits \subseteq {"Subscribe"} \cup LogWork(w) /\ w.phase \in LogPhases
  BY DEF LogFlow, LogsWf
<1>2. /\ s \in LogsWf /\ s.waits = w.waits \ {e.of} /\ s.phase = w.phase /\ s.lines = w.lines
      /\ s.buffer = w.buffer /\ s.expected = w.expected  BY <1>1 DEF LogsWf
<1>3. CASE e.type = "Disconnected"
  <2>1. r = LogFail(w, FALSE)  BY <1>3 DEF LogDispatch
  <2> QED  BY <2>1, LogFailStep
<1>4. CASE e.type # "Disconnected" /\ e.of \in w.waits /\ e.type = "Failed"
  <2>1. r = LogFail(w, e.of = "Subscribe" /\ w.phase = "Active")  BY <1>4 DEF LogDispatch
  <2>2. (e.of = "Subscribe" /\ w.phase = "Active") \in BOOLEAN  OBVIOUS
  <2> QED  BY <2>1, <2>2, LogFailStep
<1>5. CASE e.of \in w.waits /\ e.type = "Subscribed" /\ w.phase = "Subscribing"
  <2> DEFINE v == [w EXCEPT !.phase = "Starting", !.waits = w.waits \cup {"WriteLogStart"}]
  <2>1. r.wf = v /\ r.out = {"WriteLogStart"}  BY <1>5 DEF LogDispatch
  <2>2. /\ v \in LogsWf /\ v.phase = "Starting" /\ v.waits = w.waits \cup {"WriteLogStart"}
        /\ v.lines = w.lines /\ v.buffer = w.buffer /\ v.expected = w.expected
    BY <1>1 DEF LogsWf, LogPhases, LogEffects
  <2>3. LogWork(v) = {"WriteLogStart"} /\ LogWork(w) = {"Subscribe"} /\ e.of = "Subscribe"
    BY <1>1, <1>5, <2>2 DEF LogWork
  <2> HIDE DEF v, r
  <2>4. LogFlow(v)  BY <1>1, <2>2, <2>3 DEF LogFlow, Unspliced
  <2>5. v.phase # "Failed" /\ r.out \cap HostEffects \subseteq LogWork(r.wf)  BY <2>1, <2>2, <2>3
  <2>6. LogStep(w, e, r)  BY <1>5, <2>1, <2>2, <2>3, <2>4, <2>5 DEF LogStep, LogFlow
  <2> QED  BY <2>6 DEF r
<1>6. CASE e.of \in w.waits /\ e.type = "WriteCompleted"
  <2> DEFINE v == [s EXCEPT !.phase = "Active"]
  <2>1. r.wf = v /\ r.out = {}  BY <1>1, <1>6 DEF LogDispatch, LogsWf
  <2>2. /\ v \in LogsWf /\ v.phase = "Active" /\ v.waits = w.waits \ {e.of}
        /\ v.lines = w.lines /\ v.buffer = w.buffer /\ v.expected = w.expected
    BY <1>2 DEF LogsWf, LogPhases
  <2>3. LogWork(v) = {} /\ LogWork(w) = {"WriteLogStart"} /\ e.of = "WriteLogStart"
    <3>1. e.of # "Subscribe"  BY <1>6 DEF Writes
    <3> QED  BY <1>1, <1>6, <2>2, <3>1 DEF LogWork
  <2> HIDE DEF v, r, s
  <2>4. LogFlow(v)  BY <1>1, <2>2, <2>3 DEF LogFlow, Unspliced
  <2>5. v.phase # "Failed" /\ r.out \cap HostEffects \subseteq LogWork(r.wf)  BY <2>1, <2>2, <2>3
  <2>6. LogStep(w, e, r)  BY <1>6, <2>1, <2>2, <2>3, <2>4, <2>5 DEF LogStep, LogFlow
  <2> QED  BY <2>6 DEF r
<1>7. CASE /\ e.type # "Disconnected"
           /\ \/ e.of \notin w.waits
              \/ e.type = "Subscribed" /\ w.phase # "Subscribing"
              \/ e.type \notin {"Failed", "Subscribed", "WriteCompleted"}
  <2>1. r.rejected  BY <1>7 DEF LogDispatch
  <2> QED  BY <2>1
<1> QED  BY <1>3, <1>4, <1>5, <1>6, <1>7

\* A log reading that runs: the packets it has are in order, and only its own work runs.
LEMMA LogsRunFacts ==
  ASSUME NEW h, NEW calm, LogsHost(h, calm), h.st = "running"
  PROVE  /\ LogFlow(h.wf) /\ HostShape(h, "logs") /\ h.wf.kind = "logs" /\ h.outcome \in {"none", "failed", "cancelled"}
         /\ \A q \in h.run : q.eff \in LogWork(h.wf) \cup {"Unsubscribe"}
BY DEF LogsHost, LogsInv, LogsRunning, LogFlow, HostShape

\* The executor takes an accepted transition of the reading (dispatch).
LEMMA LogsAccepts ==
  ASSUME NEW h, NEW calm, LogsHost(h, calm), h.st = "running", NEW r, NEW e, LogStep(h.wf, e, r),
         LogSettled(h, e), NEW pend \in SUBSET (HostEffects \cup Timers), NEW later
  PROVE  LET g == Accept(h, r, pend)
         IN /\ LogsHost(g, later) /\ g.st \in {"running", "ending"}
            /\ g.st = "running" => g.wf = r.wf /\ r.wf.phase # "Failed"
            /\ g.st = "ending" => g.outcome = "failed"
<1> DEFINE g == Accept(h, r, pend)
           a == [h EXCEPT !.wf = r.wf]
<1>1. /\ LogFlow(h.wf) /\ HostShape(h, "logs") /\ h.wf.kind = "logs"
      /\ h.outcome \in {"none", "failed", "cancelled"}
      /\ \A q \in h.run : q.eff \in LogWork(h.wf) \cup {"Unsubscribe"}  BY LogsRunFacts
<1>2. r.wf \in LogsWf /\ r.wf.kind = "logs" /\ r.wf \in Workflow  BY DEF LogStep, LogsWf, Workflow
<1>3. h \in HostType /\ a.run = h.run  BY <1>1 DEF HostShape, HostType
<1>4. Terminal(r.wf) = (r.wf.phase = "Failed")  BY <1>2 DEF Terminal, LogsWf, LogPhases
<1>5. /\ HostShape(g, "logs")
      /\ IF Terminal(r.wf) THEN Ended(g, a, r.out, Outcome(r.wf)) /\ g.wf = r.wf ELSE Went(g, h, r)
  BY <1>1, <1>2, AcceptShape
<1>6. g.run \subseteq Submitted  BY <1>5 DEF HostShape, HostType
<1> HIDE DEF g, a
<1>7. CASE r.wf.phase = "Failed"
  <2>1. Outcome(r.wf) = "failed"  BY <1>7 DEF Outcome
  <2>2. g.st = "ending" /\ g.outcome = "failed" /\ g.wf = r.wf  BY <1>4, <1>5, <1>7, <2>1 DEF Ended
  <2>3. \A q \in g.run : q.eff \in LogEffs
    <3>1. LogWork(h.wf) \cup {"Unsubscribe", "WriteLogStop"} \subseteq LogEffs
      BY DEF LogWork, LogEffs, LogEffects
    <3>2. \A q \in g.run : q.eff \in HostEffects  BY <1>6 DEF Submitted
    <3>3. \A q \in g.run : (\E p \in h.run : p.eff = q.eff) \/ q.eff \in r.out
      BY <1>3, <1>4, <1>5, <1>7 DEF Ended
    <3>4. r.out \cap HostEffects \subseteq {"Unsubscribe", "WriteLogStop"}  BY <1>7 DEF LogStep
    <3> QED  BY <1>1, <3>1, <3>2, <3>3, <3>4
  <2>4. LogsInv(g, later)  BY <1>2, <2>2, <2>3 DEF LogsInv, LogsEnding, LogStep
  <2> QED  BY <1>5, <2>2, <2>4 DEF LogsHost, g
<1>8. CASE r.wf.phase # "Failed"
  <2>1. g.st = "running" /\ g.outcome = h.outcome /\ g.wf = r.wf  BY <1>4, <1>5, <1>8 DEF Went
  <2>2. \A q \in g.run : q.eff \in LogWork(r.wf) \cup {"Unsubscribe"}
    <3>1. \A q \in g.run : q.eff \in HostEffects  BY <1>6 DEF Submitted
    <3>2. \A q \in g.run : q \in h.run \/ q.eff \in r.out  BY <1>4, <1>5, <1>8 DEF Went
    <3>3. \A q \in h.run : q.eff \in LogWork(r.wf) \cup {"Unsubscribe"}
      BY <1>1, <1>8 DEF LogStep, LogSettled
    <3>4. r.out \cap HostEffects \subseteq LogWork(r.wf)  BY <1>8 DEF LogStep
    <3> QED  BY <3>1, <3>2, <3>3, <3>4
  <2>3. LogFlow(r.wf)  BY <1>8 DEF LogStep
  <2>4. LogsInv(g, later)  BY <1>1, <1>2, <2>1, <2>2, <2>3 DEF LogsInv, LogsRunning, LogFlow
  <2> QED  BY <1>5, <1>8, <2>1, <2>4 DEF LogsHost, g
<1> QED  BY <1>7, <1>8

\* The same of any event the reading may hear: refused, accepted or the end.
LEMMA LogsEmit ==
  ASSUME NEW h, NEW calm, LogsHost(h, calm), h.st = "running", NEW e, LogEvent(e),
         LogSettled(h, e), NEW later
  PROVE  LET g == Emit(h, e)
         IN /\ LogsHost(g, later) /\ g.st \in {"running", "ending"}
            /\ g.st = "running" => g.wf.buffer = h.wf.buffer /\ g.wf.expected = h.wf.expected
            /\ g.st = "ending" => g.outcome = "failed"
<1> DEFINE r == EngineAnswer(h.wf, e)
<1>1. LogFlow(h.wf) /\ HostShape(h, "logs") /\ h.wf.kind = "logs"  BY LogsRunFacts
<1>2. r = LogDispatch(h.wf, e)  BY <1>1 DEF EngineAnswer
<1>3. \/ r.rejected /\ Emit(h, e) = h
      \/ ~r.rejected /\ \E pend \in SUBSET (HostEffects \cup Timers) : Emit(h, e) = Accept(h, r, pend)
  BY <1>1, EmitCases
<1>0. LogsHost(h, later)  BY DEF LogsHost, LogsInv
<1> HIDE DEF r
<1>4. CASE r.rejected /\ Emit(h, e) = h  BY <1>0, <1>4
<1>5. CASE ~r.rejected
  <2>1. LogStep(h.wf, e, r)  BY <1>1, <1>2, <1>5, LogAnswerStep DEF LogEvent
  <2>2. PICK pend \in SUBSET (HostEffects \cup Timers) : Emit(h, e) = Accept(h, r, pend)  BY <1>3, <1>5
  <2>3. /\ LogsHost(Accept(h, r, pend), later) /\ Accept(h, r, pend).st \in {"running", "ending"}
        /\ Accept(h, r, pend).st = "running" => Accept(h, r, pend).wf = r.wf /\ r.wf.phase # "Failed"
        /\ Accept(h, r, pend).st = "ending" => Accept(h, r, pend).outcome = "failed"  BY <2>1, LogsAccepts
  <2>4. r.wf.phase # "Failed" => r.wf.buffer = h.wf.buffer /\ r.wf.expected = h.wf.expected
    BY <2>1 DEF LogStep, LogEvent
  <2> QED  BY <2>2, <2>3, <2>4
<1> QED  BY <1>3, <1>4, <1>5

\* A packet of the log is delivered to the workflow.
LEMMA LogsDeliver ==
  ASSUME NEW h, NEW calm, LogsHost(h, calm), h.st = "running", NEW notes \in Seq(LogPackets),
         NEW log \in Nat, notes # <<>>, LogInOrder(notes, log), Unbroken(h.wf, notes, log), NEW later
  PROVE  LET g == Emit(h, Event("Subscribe", "Notification", Head(notes)))
         IN /\ LogsHost(g, later) /\ g.st = "running"
            /\ Unbroken(g.wf, Tail(notes), log)
<1> DEFINE e == Event("Subscribe", "Notification", Head(notes))
           r == EngineAnswer(h.wf, e)
           d == Decode(h.wf, Head(notes))
<1>1. LogFlow(h.wf) /\ HostShape(h, "logs") /\ h.wf.kind = "logs" /\ Head(notes) \in LogPackets
  BY LogsRunFacts, HeadTailProperties
<1>2. r = LogDispatch(h.wf, e) /\ e.type = "Notification" /\ e.of = "Subscribe" /\ e.val = Head(notes)
  BY <1>1 DEF EngineAnswer, Event
<1>3. \/ r.rejected /\ Emit(h, e) = h
      \/ ~r.rejected /\ \E pend \in SUBSET (HostEffects \cup Timers) : Emit(h, e) = Accept(h, r, pend)
  BY <1>1, EmitCases
<1>11. d = Decode(h.wf, e.val)  BY <1>2
<1> HIDE DEF r, e, d
<1>4. r.rejected \/ (r.wf = d /\ r.out = {})  BY <1>2, <1>11 DEF LogDispatch
<1> USE DEF r, e, d
<1>5. /\ LogFlow(d) /\ d.phase = h.wf.phase /\ d.waits = h.wf.waits
      /\ Unbroken(d, Tail(notes), log)  BY <1>1, DecodeStep
<1>6. LogsHost(h, later)  BY DEF LogsHost, LogsInv
<1>7. Unbroken(h.wf, Tail(notes), log)
  <2>1. \A i \in DOMAIN Tail(notes) : i + 1 \in DOMAIN notes /\ Tail(notes)[i] = notes[i + 1]
    BY HeadTailProperties
  <2> QED  BY <2>1 DEF Unbroken
<1>8. LogSettled(h, e)  BY <1>2 DEF LogSettled
<1> HIDE DEF r, e, d
<1>9. CASE r.rejected /\ Emit(h, e) = h  BY <1>6, <1>7, <1>9 DEF e
<1>10. CASE ~r.rejected
  <2>1. LogWork(d) = LogWork(h.wf)  BY <1>5 DEF LogWork
  <2>2. LogStep(h.wf, e, r)  BY <1>2, <1>4, <1>5, <1>10, <2>1 DEF LogStep, LogFlow
  <2>3. PICK pend \in SUBSET (HostEffects \cup Timers) : Emit(h, e) = Accept(h, r, pend)  BY <1>3, <1>10
  <2>4. /\ LogsHost(Accept(h, r, pend), later) /\ Accept(h, r, pend).st \in {"running", "ending"}
        /\ Accept(h, r, pend).st = "running" => Accept(h, r, pend).wf = r.wf  BY <1>8, <2>2, LogsAccepts
  <2>5. ~Terminal(r.wf)  BY <1>4, <1>5, <1>10 DEF Terminal, LogFlow, LogsWf, LogPhases
  <2>6. Accept(h, r, pend).st = "running"
    <3>1. r.wf \in Workflow /\ r.wf.kind = "logs"  BY <1>4, <1>5, <1>10 DEF LogFlow, LogsWf, Workflow
    <3>2. Went(Accept(h, r, pend), h, r)  BY <1>1, <2>5, <3>1, AcceptShape
    <3> QED  BY <3>2 DEF Went
  <2> QED  BY <1>4, <1>5, <1>10, <2>3, <2>4, <2>6 DEF e
<1> QED  BY <1>3, <1>9, <1>10 DEF e

\* Removing an effect from the host: the stop of the log only once it is calm.
LEMMA LogsWithout ==
  ASSUME NEW h, NEW calm, LogsHost(h, calm), NEW r, NEW later,
         Calms(h, r, calm, later)
  PROVE  /\ LogsHost(Without(h, r), later) /\ Without(h, r).run = h.run \ {r}
         /\ Without(h, r).st = h.st /\ Without(h, r).wf = h.wf /\ Without(h, r).outcome = h.outcome
<1> DEFINE s == Without(h, r)
<1>1. /\ HostShape(s, "logs") /\ s.run = h.run \ {r}
      /\ s.st = h.st /\ s.wf = h.wf /\ s.ask = h.ask /\ s.cmd = h.cmd
      /\ s.outcome = h.outcome /\ s.dirty = h.dirty /\ s.sub = h.sub /\ s.pend = h.pend
  BY WithoutShape DEF LogsHost
<1> HIDE DEF s
<1>2. CASE h.st = "running"  BY <1>1, <1>2 DEF LogsHost, LogsInv, LogsRunning, s
<1>3. CASE h.st = "ending"
  <2>1. LogsInv(h, calm) /\ LogsEnding(h, calm)  BY <1>3 DEF LogsHost, LogsInv
  <2>2. LogsEnding(s, later)
    <3>1. \A q \in s.run : q.eff \in LogEffs  BY <1>1, <2>1 DEF LogsEnding
    <3>2. ~Has(h, "WriteLogStart") => ~Has(s, "WriteLogStart")  BY <1>1 DEF Has
    <3>3. Has(h, "WriteLogStop") => Has(s, "WriteLogStop") \/ r.eff = "WriteLogStop"  BY <1>1 DEF Has
    <3> QED  BY <1>1, <1>3, <2>1, <3>1, <3>2, <3>3 DEF LogsEnding, Calms
  <2> QED  BY <1>1, <1>3, <2>1, <2>2 DEF LogsHost, LogsInv, s
<1>4. CASE h.st \notin {"running", "ending"}  BY <1>1, <1>4 DEF LogsHost, s
<1> QED  BY <1>2, <1>3, <1>4

\* An effect settles, or fails.
LEMMA LogsSettle ==
  ASSUME NEW h, NEW calm, LogsHost(h, calm), NEW r \in h.run, NEW type, NEW val, NEW later,
         type \in {"Subscribed", "WriteCompleted", "Failed"},
         type = "WriteCompleted" => r.eff \in Writes,
         Calms(h, r, calm, later)
  PROVE  LET g == Settle(h, r, type, val)
         IN /\ LogsHost(g, later) /\ g.st \in {"running", "ending"}
            /\ g.st = "running" => h.st = "running" /\ g.wf.buffer = h.wf.buffer /\ g.wf.expected = h.wf.expected
<1> DEFINE s == Without(h, r)
           e == Event(Source(r.eff), type, val)
           g == Settle(h, r, type, val)
<1>1. /\ LogsHost(s, later) /\ s.run = h.run \ {r}
      /\ s.st = h.st /\ s.wf = h.wf /\ s.outcome = h.outcome  BY LogsWithout
<1>2. /\ h \in HostType /\ r \in Submitted /\ h.st \in {"running", "ending"}
      /\ (h.st = "running" => \A q \in h.run : q.mode = "live")
      /\ (h.st = "ending" => \A q \in h.run : q.mode # "live")  BY DEF LogsHost, HostShape, HostType
<1>3. g = IF r.mode = "live" THEN Emit(s, e) ELSE s  BY DEF Settle, Without
<1>4. r.eff \in LogEffects \cup {"Unsubscribe", "WriteLogStop"}
  BY <1>2 DEF LogsHost, LogsInv, LogsRunning, LogsEnding, LogWork, LogEffs, LogEffects
<1>5. e.of = r.eff /\ e.type = type  BY <1>4 DEF Event, Source, Results, LogEffects
<1> HIDE DEF s, e, g
<1>6. CASE h.st = "running"
  <2>1. \A q \in s.run : q \in h.run /\ q # r /\ q.mode = "live" /\ r.mode = "live" /\ q \in Submitted
    BY <1>1, <1>2, <1>6 DEF HostType
  <2>2. \A q \in s.run : q.eff # r.eff  BY <1>2, <2>1 DEF Submitted
  <2>3. LogSettled(s, e) /\ LogEvent(e)  BY <1>5, <2>2 DEF LogSettled, LogEvent
  <2>4. /\ LogsHost(Emit(s, e), later) /\ Emit(s, e).st \in {"running", "ending"}
        /\ Emit(s, e).st = "running" => Emit(s, e).wf.buffer = s.wf.buffer /\ Emit(s, e).wf.expected = s.wf.expected
        /\ Emit(s, e).st = "ending" => Emit(s, e).outcome = "failed"  BY <1>1, <1>6, <2>3, LogsEmit
  <2>5. g = Emit(s, e)  BY <1>2, <1>3, <1>6
  <2> QED  BY <1>1, <1>6, <2>4, <2>5 DEF g
<1>7. CASE h.st = "ending"
  <2>1. g = s  BY <1>2, <1>3, <1>7
  <2> QED  BY <1>1, <1>7, <2>1 DEF g
<1> QED  BY <1>2, <1>6, <1>7

\* The failure of an effect ends the reading or is what its end waits for.
LEMMA LogsSettleFailed ==
  ASSUME NEW h, NEW calm, LogsHost(h, calm), NEW r \in h.run, NEW later,
         Calms(h, r, calm, later)
  PROVE  LET g == SettleFailed(h, r, "Failed")
         IN /\ LogsHost(g, later) /\ g.st \in {"running", "ending"}
            /\ g.st = "running" => h.st = "running" /\ g.wf.buffer = h.wf.buffer /\ g.wf.expected = h.wf.expected
<1>1. r \in Submitted /\ h.st \in {"running", "ending"}  BY DEF LogsHost, HostShape, HostType
<1>2. CASE r.mode = "live"
  <2>1. SettleFailed(h, r, "Failed") = Settle(h, r, "Failed", 0)  BY <1>2 DEF SettleFailed, Settle
  <2> QED  BY <2>1, LogsSettle
<1>3. CASE r.mode = "stale"
  <2>1. SettleFailed(h, r, "Failed") = Settle(h, r, "Failed", 0)  BY <1>3 DEF SettleFailed, Settle
  <2> QED  BY <2>1, LogsSettle
<1>4. CASE r.mode = "clean"
  <2> DEFINE s == Without(h, r)
             g == [s EXCEPT !.dirty = ~OnApple(h)]
  <2>1. /\ LogsHost(s, later) /\ s.run = h.run \ {r}
        /\ s.st = h.st /\ s.wf = h.wf /\ s.outcome = h.outcome  BY LogsWithout
  <2>0. s = Without(h, r)  OBVIOUS
  <2> HIDE DEF s
  <2>2. h.st = "ending"  BY <1>1, <1>4 DEF LogsHost, HostShape
  <2>3. SettleFailed(h, r, "Failed") = g  BY <1>4, <2>0 DEF SettleFailed, Without
  <2>4. s \in HostType /\ (~OnApple(h)) \in BOOLEAN  BY <2>1 DEF LogsHost, HostShape
  <2>5. /\ g \in HostType /\ g.st = s.st /\ g.wf = s.wf /\ g.outcome = s.outcome /\ g.run = s.run
    BY <2>4 DEF HostType
  <2> HIDE DEF g
  <2>6. LogsHost(g, later)  BY <2>1, <2>2, <2>5 DEF LogsHost, HostShape, LogsInv, LogsEnding, Has
  <2> QED  BY <2>1, <2>2, <2>3, <2>5, <2>6
<1> QED  BY <1>1, <1>2, <1>3, <1>4 DEF Submitted

\* What the application is told is one of the outcomes.
LEMMA ToldStep ==
  ASSUME host \in HostType, told \in Outcomes, NativeNext
  PROVE  told' \in Outcomes
<1>1. UNCHANGED told => told' \in Outcomes  OBVIOUS
<1>2. {"none", "failed", "done"} \subseteq Outcomes /\ host.outcome \in Outcomes  BY DEF Outcomes, HostType
<1>3. Effect => told' \in Outcomes
  BY <1>1 DEF Effect, Write, Read, Subscribe, Unsubscribe, Scan, Save, DeleteCheckpoint,
        SaveResult, SaveJournal, AskApp, PrepareGrant, SinkBegins, Discard, Files, Sinks, Radio
<1>4. StartOperation => told' \in Outcomes
  BY <1>2 DEF StartOperation, FactoryReset, ResumeFactoryReset, StartStreaming,
        ObserveUploadOwnership, ReadDeviceLogs, StartScan, StartOp
<1>5. Finish \/ ClearResetOwner \/ Restart => told' \in Outcomes
  BY <1>2 DEF Finish, ClearResetOwner, Restart
<1>6. AppCancels \/ Ahead \/ Refused \/ SinkSteps \/ Candidate \/ TimerElapses \/ Deliver
      \/ LinkLost \/ HearDrop \/ Reconnect \/ DeviceSends \/ DeviceLogs \/ DeviceUploads => told' \in Outcomes
  BY <1>1 DEF AppCancels, Ahead, WriteExecutes, Refused, Quarantined, Radio,
        SinkSteps, BackgroundFlush, UploadChunk, FinalizeAsked, JobStops, Sinks,
        Candidate, TimerElapses, Deliver, LinkLost, HearDrop, Reconnect,
        DeviceSends, DeviceLogs, DeviceUploads
<1> QED  BY <1>3, <1>4, <1>5, <1>6 DEF NativeNext

\* The sorts of what the host, the device and the service keep hold in every step.
LEMMA AmbientStep ==
  ASSUME AmbientType, NEW family, HostShape(host, family), NativeNext
  PROVE  AmbientType' /\ used'.family = used.family /\ used'.faults >= used.faults
<1>1. host \in HostType /\ host.run \subseteq Submitted  BY DEF HostShape, HostType
<1> QED  BY <1>1, UsedStep, DevStep, LinkStep, ToldStep DEF AmbientType

-----------------------------------------------------------------------------
(* The device log: every step *)

\* A step that keeps the host and the packets of a reading keeps its invariant.
LEMMA LogsKeeps ==
  ASSUME LogsState, AmbientType', LogsKept
  PROVE  LogsState'
<1>1. host'.st # "idle" /\ host'.st # "clearing"  BY DEF LogsKept
<1>2. host'.st = "running" => Unbroken(host'.wf, inbox', dev'.log)
  <2>1. CASE inbox' = <<>>  BY <2>1 DEF LogsKept, LogsState, LogsFamily, Unbroken
  <2>2. CASE inbox' = inbox  BY <2>2 DEF LogsKept, LogsState, LogsFamily, Unbroken
  <2> QED  BY <2>1, <2>2 DEF LogsKept
<1>3. LogInOrder(inbox', dev'.log) /\ inbox' \in Seq(LogPackets)
  <2>1. CASE inbox' = <<>>  BY <2>1 DEF LogInOrder
  <2>2. CASE inbox' = inbox  BY <2>2 DEF LogsKept, LogsState, LogsFamily
  <2> QED  BY <2>1, <2>2 DEF LogsKept
<1>4. LogsFamily'  BY <1>1, <1>2, <1>3 DEF LogsKept, LogsState, LogsFamily
<1>5. Ambient'  BY <1>1 DEF LogsKept, Ambient
<1>6. NoReset' /\ NoStream' /\ NoEarly'  BY <1>1 DEF LogsKept, LogsState, NoReset, NoStream, NoEarly
<1> QED  BY <1>4, <1>5, <1>6 DEF LogsState

\* What the proofs use of the invariant of a reading.
LEMMA LogsFacts ==
  ASSUME LogsState
  PROVE  /\ LogsHost(host, Calm) /\ HostShape(host, "logs") /\ host.run \subseteq Submitted
         /\ AmbientType /\ dev \in DevType /\ link \in LinkType /\ used \in UsedType
         /\ host \in HostType /\ host.st # "clearing" /\ ~link.ahead /\ sink = NoSink
         /\ dev.next = 0 /\ dev.held = NoResult
         /\ \A r \in host.run : r.eff \in LogEffs
         /\ host.st \in {"running", "ending"} => host.wf.kind = "logs"
         /\ host.st \notin {"running", "ending"} => host.run = {}
<1>1. LogsHost(host, Calm) /\ HostShape(host, "logs") /\ host \in HostType
  BY DEF LogsState, LogsFamily, LogsHost, HostShape
<1>2. host.st \notin {"running", "ending"} => host.run = {}  BY <1>1 DEF HostShape, HostType
<1>3. \A r \in host.run : r.eff \in LogEffs
  <2>1. CASE host.st = "running"  BY <1>1, <2>1, LogsRunFacts DEF LogWork, LogEffs, LogEffects
  <2>2. CASE host.st = "ending"  BY <1>1, <2>2 DEF LogsHost, LogsInv, LogsEnding
  <2> QED  BY <1>2, <2>1, <2>2
<1> QED  BY <1>1, <1>2, <1>3 DEF LogsState, LogsFamily, Ambient, AmbientType, NoReset, NoStream, NoEarly,
            HostShape, HostType

\* A write of the log.
LEMMA LogsWrite ==
  ASSUME LogsState, AmbientType', used'.faults >= used.faults, NEW r \in host.run, Write(r)
  PROVE  LogsKept
<1>1. /\ LogsHost(host, Calm) /\ dev \in DevType /\ ~link.ahead /\ link \in LinkType /\ used \in UsedType
      /\ r.eff \in LogEffs /\ r.eff \in Writes /\ sink = NoSink
      /\ ~link.cccd => inbox = <<>>
      /\ ~link.up => ~dev.logging  BY LogsFacts DEF Write, LogsState, LogsFamily, Ambient
<1>2. r.eff \in {"WriteLogStart", "WriteLogStop"}  BY <1>1 DEF LogEffs, LogEffects, Writes
<1>3. /\ link'.up = link.up /\ link'.cccd = link.cccd /\ ~link'.ahead /\ UNCHANGED <<sink, told>>
  BY <1>1 DEF Write, Radio, LinkType
<1>4. /\ inbox' = inbox /\ dev'.log = dev.log /\ dev'.held = dev.held /\ dev'.next = dev.next
      /\ \/ link.up /\ (r.eff = "WriteLogStop" => ~dev'.logging)
            /\ (r.eff = "WriteLogStart" \/ ~dev'.logging)
         \/ dev' = dev
  <2>1. CASE UNCHANGED <<dev, inbox>>  BY <2>1
  <2>2. CASE link.up /\ DeviceTakes(r.eff)  BY <1>1, <1>2, <2>2, DeviceTakesStep DEF DeviceTook
  <2> QED  BY <1>1, <2>1, <2>2 DEF Write
<1>5. ~link'.up => ~dev'.logging  BY <1>1, <1>3, <1>4
<1>6. Calms(host, r, Calm, Calm')
  <2> SUFFICES ASSUME host.st = "ending", host.outcome = "cancelled", host.wf.phase = "Active"
               PROVE  (Calm => Calm') /\ (r.eff = "WriteLogStop" => Calm')
    BY DEF Calms
  <2>1. CASE r.eff = "WriteLogStop"
    <3>1. CASE link.up /\ DeviceTakes(r.eff)
      <4>1. ~dev'.logging  BY <1>1, <2>1, <3>1, DeviceTakesStep DEF DeviceTook
      <4> QED  BY <4>1 DEF Calm
    <3>2. CASE MayFail(TRUE) /\ UNCHANGED <<dev, inbox>>
      <4>1. used'.faults > 0 \/ ~link.up  BY <1>1, <3>2, MayFailStep
      <4> QED  BY <1>1, <3>2, <4>1 DEF Calm
    <3> QED  BY <1>1, <3>1, <3>2 DEF Write
  <2>2. CASE r.eff = "WriteLogStart"
    <3>1. LogsEnding(host, Calm)  BY <1>1 DEF LogsHost, LogsInv
    <3>2. host.outcome # "cancelled"  BY <2>2, <3>1 DEF LogsEnding, Has
    <3> QED  BY <3>2
  <2> QED  BY <1>2, <2>1, <2>2
<1>7. /\ LogsHost(host', Calm') /\ host'.st \in {"running", "ending"}
      /\ host'.st = "running" => /\ host.st = "running"
                                 /\ host'.wf.buffer = host.wf.buffer /\ host'.wf.expected = host.wf.expected
  <2>1. CASE host' = Settle(host, r, "WriteCompleted", 0)
    <3>1. "WriteCompleted" \in {"Subscribed", "WriteCompleted", "Failed"}  OBVIOUS
    <3> QED  BY <1>1, <1>6, <2>1, <3>1, LogsSettle
  <2>2. CASE host' = SettleFailed(host, r, "Failed")  BY <1>1, <1>6, <2>2, LogsSettleFailed
  <2> QED  BY <2>1, <2>2 DEF Write
<1> QED  BY <1>1, <1>3, <1>4, <1>5, <1>7 DEF LogsKept

\* A subscription that opens changes nothing else in the host.
LEMMA OpenedShape ==
  ASSUME NEW h, NEW family, HostShape(h, family)
  PROVE  LET s == Opened(h)
         IN /\ HostShape(s, family) /\ s.run = h.run
            /\ s.st = h.st /\ s.wf = h.wf /\ s.ask = h.ask /\ s.cmd = h.cmd
            /\ s.outcome = h.outcome /\ s.dirty = h.dirty /\ s.sub = "on" /\ s.pend = h.pend
<1> DEFINE s == Opened(h)
<1>1. h \in HostType  BY DEF HostShape
<1>2. /\ s \in HostType /\ s.run = h.run
      /\ s.st = h.st /\ s.wf = h.wf /\ s.ask = h.ask /\ s.cmd = h.cmd
      /\ s.outcome = h.outcome /\ s.dirty = h.dirty /\ s.sub = "on" /\ s.pend = h.pend
  BY <1>1 DEF HostType, Opened
<1> HIDE DEF s
<1>3. HostShape(s, family)  BY <1>2 DEF HostShape
<1> QED  BY <1>2, <1>3 DEF s

\* The subscription of a reading answers, late or not (subscribe).
LEMMA LogsSubscribe ==
  ASSUME LogsState, AmbientType', used'.faults >= used.faults, NEW r \in host.run, Subscribe(r)
  PROVE  LogsKept
<1>1. /\ LogsHost(host, Calm) /\ HostShape(host, "logs") /\ link \in LinkType /\ ~link.ahead
      /\ used \in UsedType /\ used.faults \in Nat /\ used'.faults \in Nat
      /\ dev.held = NoResult /\ host.run # {} /\ host.st \in {"running", "ending"}
      /\ ~link.cccd => inbox = <<>>
      /\ ~link.up => ~dev.logging
      /\ r.eff = "Subscribe"
  BY LogsFacts DEF LogsState, LogsFamily, Ambient, Subscribe, AmbientType, UsedType
<1>2. UNCHANGED dev /\ UNCHANGED <<sink, told>>  BY DEF Subscribe, Radio
<1>3. Calm => Calm'  BY <1>1, <1>2 DEF Calm
<1>4. Calms(host, r, Calm, Calm') /\ Calms(Opened(host), r, Calm, Calm')  BY <1>1, <1>3 DEF Calms
<1>5. CASE /\ link.up /\ ~link.cccd
           /\ link' = [link EXCEPT !.cccd = TRUE]
           /\ inbox' = IF dev.held = NoResult THEN inbox ELSE Append(inbox, dev.held)
           /\ UNCHANGED <<host, used>>
  <2>1. Calm' = Calm /\ inbox' = inbox /\ link'.up = link.up /\ link'.cccd /\ ~link'.ahead /\ host' = host
    BY <1>1, <1>2, <1>5 DEF Calm, LinkType
  <2>2. LogsHost(host', Calm')  BY <1>1, <2>1
  <2> QED  BY <1>1, <1>2, <2>1, <2>2 DEF LogsKept
<1>6. CASE /\ link.cccd /\ UNCHANGED <<link, inbox, used>>
           /\ host' = Settle(IF r.mode = "live" THEN [host EXCEPT !.sub = "on"] ELSE host, r, "Subscribed", 0)
  <2> DEFINE h == IF r.mode = "live" THEN Opened(host) ELSE host
  <2>1. /\ LogsHost(h, Calm) /\ h.st = host.st /\ h.wf = host.wf /\ h.run = host.run
    <3>1. CASE r.mode # "live"  BY <1>1, <3>1
    <3>2. CASE r.mode = "live"
      <4> DEFINE s == Opened(host)
      <4>1. /\ HostShape(s, "logs") /\ s.run = host.run /\ s.st = host.st /\ s.wf = host.wf
            /\ s.outcome = host.outcome /\ h = s
        BY <1>1, <3>2, OpenedShape
      <4> HIDE DEF s, h
      <4>2. LogsHost(s, Calm)  BY <1>1, <4>1 DEF LogsHost, LogsInv, LogsRunning, LogsEnding, Has
      <4> QED  BY <4>1, <4>2
    <3> QED  BY <3>1, <3>2
  <2>2. Calms(h, r, Calm, Calm')  BY <1>4
  <2>3. host' = Settle(h, r, "Subscribed", 0)  BY <1>6 DEF Opened
  <2> HIDE DEF h
  <2>4. "Subscribed" \in {"Subscribed", "WriteCompleted", "Failed"} /\ r \in h.run  BY <2>1
  <2>5. /\ LogsHost(host', Calm') /\ host'.st \in {"running", "ending"}
        /\ host'.st = "running" => h.st = "running" /\ host'.wf.buffer = h.wf.buffer
                                   /\ host'.wf.expected = h.wf.expected
    BY <2>1, <2>2, <2>3, <2>4, LogsSettle
  <2> QED  BY <1>1, <1>2, <1>6, <2>1, <2>5 DEF LogsKept
<1>7. CASE /\ MayFail(TRUE) /\ link' = [link EXCEPT !.cccd = FALSE] /\ inbox' = <<>>
           /\ host' = SettleFailed(host, r, "Failed")
  <2>1. link'.up = link.up /\ ~link'.cccd /\ ~link'.ahead  BY <1>1, <1>7 DEF LinkType
  <2>2. /\ LogsHost(host', Calm') /\ host'.st \in {"running", "ending"}
        /\ host'.st = "running" => host.st = "running" /\ host'.wf.buffer = host.wf.buffer
                                   /\ host'.wf.expected = host.wf.expected
    BY <1>1, <1>4, <1>7, LogsSettleFailed
  <2> QED  BY <1>1, <1>2, <1>7, <2>1, <2>2 DEF LogsKept
<1> QED  BY <1>5, <1>6, <1>7 DEF Subscribe

\* The subscription of a reading is removed, or its removal fails.
LEMMA LogsUnsubscribe ==
  ASSUME LogsState, AmbientType', NEW r \in host.run, Unsubscribe(r)
  PROVE  LogsKept
<1>1. /\ LogsHost(host, Calm) /\ HostShape(host, "logs") /\ link \in LinkType /\ ~link.ahead
      /\ host.run # {} /\ host.st \in {"running", "ending"}
      /\ ~link.up => ~dev.logging
      /\ r.eff = "Unsubscribe"  BY LogsFacts DEF LogsState, LogsFamily, Ambient, Unsubscribe
<1>2. UNCHANGED dev /\ UNCHANGED <<sink, told>> /\ inbox' = <<>> /\ UNCHANGED used
      /\ host' = Without(host, r) /\ link' = [link EXCEPT !.cccd = FALSE]
  BY DEF Unsubscribe, Done, Radio, Without
<1>3. Calm' = Calm /\ link'.up = link.up /\ ~link'.ahead /\ ~link'.cccd  BY <1>1, <1>2 DEF Calm, LinkType
<1>4. Calms(host, r, Calm, Calm')  BY <1>1, <1>3 DEF Calms
<1>5. LogsHost(host', Calm') /\ host'.st = host.st /\ host'.wf = host.wf  BY <1>1, <1>2, <1>4, LogsWithout
<1> QED  BY <1>1, <1>2, <1>3, <1>5 DEF LogsKept

\* The other effects are not the log's.
LEMMA LogsEffect ==
  ASSUME LogsState, AmbientType', used'.faults >= used.faults, Effect
  PROVE  LogsKept
<1>1. PICK r \in host.run :
        \/ Write(r) \/ Read(r) \/ Subscribe(r) \/ Unsubscribe(r) \/ Scan(r)
        \/ Save(r) \/ DeleteCheckpoint(r) \/ SaveResult(r) \/ SaveJournal(r) \/ AskApp(r)
        \/ PrepareGrant(r) \/ SinkBegins(r) \/ Discard(r)  BY DEF Effect
<1>2. r.eff \in {"Subscribe", "Unsubscribe", "WriteLogStart", "WriteLogStop"}
  BY LogsFacts DEF LogEffs, LogEffects
<1>3. Write(r) \/ Subscribe(r) \/ Unsubscribe(r)
  BY <1>1, <1>2 DEF Read, Reads, Scan, Save, Saves, DeleteCheckpoint, SaveResult, SaveJournal, AskApp,
        PrepareGrant, SinkBegins, SinkWork, Discard
<1> QED  BY <1>3, LogsWrite, LogsSubscribe, LogsUnsubscribe

\* A reading starts with no line and no packet on its way (readDeviceLogs).
LEMMA LogsStart ==
  ASSUME LogsState, used.family = "logs", AmbientType', StartOperation
  PROVE  LogsState'
<1>1. ReadDeviceLogs
  BY DEF StartOperation, FactoryReset, ResumeFactoryReset, StartStreaming, ObserveUploadOwnership, StartScan
<1>2. /\ host' = Begin(Idle, LogStart) /\ told' = "none" /\ UNCHANGED <<disk, link, inbox, dev, sink>>
  BY <1>1 DEF ReadDeviceLogs, StartOp
<1> DEFINE w == LogStart.wf
<1>3. /\ LogStart.wf = [ kind |-> "logs", phase |-> "Subscribing", waits |-> {"Subscribe"},
                         expected |-> -1, buffer |-> <<>>, lines |-> {} ]
      /\ LogStart.out = {"Subscribe"}  BY DEF LogStart
<1>4. /\ w \in LogsWf /\ w.kind = "logs" /\ w.phase = "Subscribing" /\ w.waits = {"Subscribe"}
      /\ w.expected = -1 /\ w.buffer = <<>> /\ w.lines = {}
  <2>1. <<>> \in Seq(Int) /\ {} \in SUBSET Seq(Int) /\ -1 \in Int /\ {"Subscribe"} \in SUBSET LogEffects
    BY DEF LogEffects
  <2> QED  BY <1>3, <2>1 DEF LogsWf, LogPhases
<1> HIDE DEF w
<1>5. ~Terminal(w) /\ w \in Workflow  BY <1>4 DEF Terminal, Workflow
<1>7. /\ HostShape(host', "logs") /\ host'.st = "running" /\ host'.wf = w
      /\ host'.outcome = "none" /\ \A q \in host'.run : q.eff \in {"Subscribe"}
  BY <1>2, <1>3, <1>4, <1>5, IdleShape, BeginShape DEF w
<1>8. LogsInv(host', Calm')
  <2>1. LogWork(w) = {"Subscribe"}  BY <1>4 DEF LogWork
  <2>2. Unspliced(w)  BY <1>4 DEF Unspliced
  <2> QED  BY <1>4, <1>7, <2>1, <2>2 DEF LogsInv, LogsRunning
<1>9. Unbroken(host'.wf, inbox', dev'.log)  BY <1>4, <1>7 DEF Unbroken
<1> QED  BY <1>2, <1>7, <1>8, <1>9 DEF LogsState, LogsFamily, LogsHost, Ambient, NoReset, NoStream, NoEarly

\* The application cancels the log, or closes it after its failure.
LEMMA LogsCancel ==
  ASSUME LogsState, AmbientType', used'.faults >= used.faults, AppCancels
  PROVE  LogsState'
<1>1. /\ LogsHost(host, Calm) /\ HostShape(host, "logs") /\ host \in HostType
      /\ host.wf.kind = "logs" /\ host.st \in {"running", "ending"}
      /\ UNCHANGED <<sink, link, inbox, dev, told>>
      /\ used.faults \in Nat /\ used'.faults \in Nat  BY LogsFacts DEF AppCancels, AmbientType, UsedType
<1>2. host' \in CancelLog(host)  BY <1>1 DEF AppCancels, OnApple
<1>3. Calm => Calm'  BY <1>1 DEF Calm
<1>4. CASE host.st = "running"
  <2> DEFINE g == CancelOperation(host, "cancelled")
             out == CancelAnswer(host.wf)
  <2>1. host' = g  BY <1>2, <1>4 DEF CancelLog
  <2>2. HostShape(g, "logs") /\ Ended(g, host, out, "cancelled")  BY <1>1, <1>4, CancelShape
  <2>3. out = LogCancel(host.wf)  BY <1>1 DEF CancelAnswer
  <2>4. /\ LogFlow(host.wf) /\ host.wf \in LogsWf
        /\ \A q \in host.run : q.eff \in LogWork(host.wf) \cup {"Unsubscribe"}
    BY <1>1, <1>4, LogsRunFacts DEF LogFlow
  <2>5. out \subseteq {"Unsubscribe", "WriteLogStop"}
        /\ (host.wf.phase = "Active" => "WriteLogStop" \in out)  BY <2>3 DEF LogCancel, LogCleanup
  <2> HIDE DEF g, out
  <2>6. \A q \in g.run : (\E p \in host.run : p.eff = q.eff) \/ q.eff \in out  BY <2>2 DEF Ended
  <2>7. \A q \in g.run : q.eff \in LogEffs  BY <2>4, <2>5, <2>6 DEF LogEffs, LogEffects, LogWork
  <2>8. host.wf.phase = "Active" => ~Has(g, "WriteLogStart") /\ Has(g, "WriteLogStop")
    <3> SUFFICES ASSUME host.wf.phase = "Active"
                 PROVE  ~Has(g, "WriteLogStart") /\ Has(g, "WriteLogStop")
      OBVIOUS
    <3>1. LogWork(host.wf) = {}  BY DEF LogWork
    <3>2. ~Has(g, "WriteLogStart")  BY <2>4, <2>5, <2>6, <3>1 DEF Has
    <3>3. "WriteLogStop" \in out \cap HostEffects  BY <2>5 DEF HostEffects, Writes
    <3>4. [eff |-> "WriteLogStop", mode |-> "clean"] \in g.run  BY <2>2, <3>3 DEF Ended
    <3> QED  BY <3>2, <3>4 DEF Has
  <2>9. g.st = "ending" /\ g.outcome = "cancelled" /\ g.wf = host.wf  BY <2>2 DEF Ended
  <2>10. LogsInv(g, Calm')  BY <2>4, <2>7, <2>8, <2>9 DEF LogsInv, LogsEnding, LogFlow
  <2> QED  BY <1>1, <2>1, <2>2, <2>9, <2>10
           DEF LogsState, LogsFamily, LogsHost, Ambient, NoReset, NoStream, NoEarly
<1>5. CASE host.st = "ending"
  <2>1. host' = host \/ host' = [host EXCEPT !.dirty = TRUE]  BY <1>2, <1>5 DEF CancelLog
  <2>2. /\ host' \in HostType /\ host'.st = "ending" /\ host'.wf = host.wf
        /\ host'.outcome = host.outcome /\ host'.run = host.run  BY <1>1, <1>5, <2>1 DEF HostType
  <2>3. HostShape(host', "logs")  BY <1>1, <1>5, <2>2 DEF HostShape
  <2>4. LogsInv(host', Calm')  BY <1>1, <1>3, <1>5, <2>2 DEF LogsHost, LogsInv, LogsEnding, Has
  <2> QED  BY <1>1, <2>2, <2>3, <2>4
           DEF LogsState, LogsFamily, LogsHost, Ambient, NoReset, NoStream, NoEarly
<1> QED  BY <1>1, <1>4, <1>5

\* A stop that CoreBluetooth refuses: the start is still under way.
LEMMA LogsRefused ==
  ASSUME LogsState, AmbientType', Refused
  PROVE  LogsKept
<1>1. PICK r \in host.run : Quarantined(r)  BY DEF Refused
<1>2. /\ LogsHost(host, Calm) /\ HostShape(host, "logs") /\ ~link.ahead
      /\ host.run # {} /\ host.st \in {"running", "ending"}
      /\ ~link.up => ~dev.logging
      /\ ~link.cccd => inbox = <<>>
      /\ UNCHANGED <<link, inbox, dev, used, sink, told>>
      /\ host' = Without(host, r)
  BY <1>1, LogsFacts DEF LogsState, LogsFamily, Ambient, Quarantined, Radio, Without
<1>3. Calms(host, r, Calm, Calm')
  <2>1. Has(host, "WriteLogStart")  BY <1>1 DEF Quarantined, Has
  <2>2. host.st = "ending" => LogsEnding(host, Calm)  BY <1>2 DEF LogsHost, LogsInv
  <2> QED  BY <2>1, <2>2 DEF Calms, LogsEnding
<1>4. LogsHost(host', Calm') /\ host'.st = host.st /\ host'.wf = host.wf  BY <1>2, <1>3, LogsWithout
<1> QED  BY <1>2, <1>4 DEF LogsKept

\* A lost link is heard of, and the timers are no business of the log.
LEMMA LogsHears ==
  ASSUME LogsState, AmbientType', used.family = "logs", TimerElapses \/ HearDrop
  PROVE  LogsState'
<1>1. /\ LogsHost(host, Calm) /\ HostShape(host, "logs") /\ host.st # "clearing" /\ link \in LinkType
      /\ host.st \in {"running", "ending"} => host.wf.kind = "logs"  BY LogsFacts
<1>2. /\ UNCHANGED <<inbox, dev, used, sink, told>>
      /\ link'.up = link.up /\ link'.cccd = link.cccd /\ link'.ahead = link.ahead
  <2>1. CASE TimerElapses  BY <2>1 DEF TimerElapses, Radio
  <2>2. CASE HearDrop  BY <1>1, <2>2 DEF HearDrop, Radio, LinkType
  <2> QED  BY <2>1, <2>2
<1>3. Calm' = Calm  BY <1>2 DEF Calm
<1>4. \/ host' = host
      \/ /\ host.st = "running"
         /\ \E e : LogEvent(e) /\ LogSettled(host, e) /\ host' = Emit(host, e)
  <2>1. CASE TimerElapses
    <3>1. PICK t \in Timers : host' = Emit(host, Event(t, "TimerFired", 0))  BY <2>1 DEF TimerElapses
    <3>2. LogEvent(Event(t, "TimerFired", 0)) /\ LogSettled(host, Event(t, "TimerFired", 0))
      BY DEF LogEvent, LogSettled, Event
    <3>3. host.st # "running" => host' = host  BY <3>1 DEF Emit
    <3> QED  BY <3>1, <3>2, <3>3
  <2>2. CASE HearDrop
    <3>1. LogEvent(Event("Subscribe", "Failed", 0)) /\ LogSettled(host, Event("Subscribe", "Failed", 0))
      BY DEF LogEvent, LogSettled, Event
    <3>2. host' = host \/ (host.st = "running" /\ host' = Emit(host, Event("Subscribe", "Failed", 0)))
      BY <1>1, <2>2 DEF HearDrop, Disconnected, OnApple
    <3> QED  BY <3>1, <3>2
  <2> QED  BY <2>1, <2>2
<1>5. CASE host' = host
  <2>1. LogsHost(host', Calm')  BY <1>1, <1>3, <1>5
  <2>2. LogsFamily'  BY <1>2, <1>5, <2>1 DEF LogsState, LogsFamily
  <2>3. Ambient' /\ NoReset' /\ NoStream' /\ NoEarly'
    BY <1>2, <1>5 DEF LogsState, Ambient, NoReset, NoStream, NoEarly
  <2> QED  BY <2>2, <2>3 DEF LogsState
<1>6. CASE host.st = "running" /\ host' # host
  <2>1. /\ LogsHost(host', Calm') /\ host'.st \in {"running", "ending"}
        /\ host'.st = "running" => host'.wf.buffer = host.wf.buffer /\ host'.wf.expected = host.wf.expected
    BY <1>1, <1>4, <1>6, LogsEmit
  <2>2. LogsKept  BY <1>2, <1>6, <2>1 DEF LogsKept, LogsState, LogsFamily, Ambient, NoEarly
  <2> QED  BY <2>2, LogsKeeps
<1> QED  BY <1>4, <1>5, <1>6

\* A packet of the log is delivered, or dropped before the subscription is known.
LEMMA LogsDelivered ==
  ASSUME LogsState, AmbientType', Deliver
  PROVE  LogsState'
<1>1. /\ LogsHost(host, Calm) /\ host.st # "clearing" /\ dev \in DevType
      /\ inbox \in Seq(LogPackets) /\ inbox # <<>> /\ inbox' = Tail(inbox)
      /\ LogInOrder(inbox, dev.log) /\ (host.st = "running" => Unbroken(host.wf, inbox, dev.log))
      /\ UNCHANGED <<link, dev, used, sink, disk, svc, told>>
  BY LogsFacts DEF LogsState, LogsFamily, Deliver, Radio
<1>2. Calm' = Calm /\ dev.log \in Nat  BY <1>1 DEF Calm, DevType
<1>3. /\ Tail(inbox) \in Seq(LogPackets)
      /\ \A i \in DOMAIN Tail(inbox) : i + 1 \in DOMAIN inbox /\ Tail(inbox)[i] = inbox[i + 1] /\ i \in Nat
  BY <1>1, HeadTailProperties
<1>4. LogInOrder(inbox', dev.log)  BY <1>1, <1>3 DEF LogInOrder
<1>5. ~link.cccd' => inbox' = <<>>  BY <1>1 DEF LogsState, Ambient
<1>6. CASE host.st = "running" /\ host.sub = "on"
  <2>1. host' = Emit(host, Event("Subscribe", "Notification", Head(inbox)))  BY <1>6 DEF Deliver
  <2>2. LogsHost(host', Calm') /\ host'.st = "running" /\ Unbroken(host'.wf, inbox', dev.log)
    BY <1>1, <1>2, <1>6, <2>1, LogsDeliver
  <2> QED  BY <1>1, <1>2, <1>3, <1>4, <1>5, <2>2
           DEF LogsState, LogsFamily, Ambient, NoReset, NoStream, NoEarly
<1>7. CASE host' = host
  <2>1. LogsHost(host', Calm')  BY <1>1, <1>2, <1>7
  <2>2. host.st = "running" => Unbroken(host.wf, inbox', dev.log)  BY <1>1, <1>3 DEF Unbroken
  <2> QED  BY <1>1, <1>2, <1>3, <1>4, <1>5, <1>7, <2>1, <2>2
           DEF LogsState, LogsFamily, Ambient, NoReset, NoStream, NoEarly
<1> QED  BY <1>6, <1>7 DEF Deliver, Emit

\* A packet behind the others.
LEMMA LogAppend ==
  ASSUME NEW notes \in Seq(LogPackets), NEW p \in LogPackets, NEW log \in Nat, NEW next \in Nat,
         LogInOrder(notes, log), p.seq = log, next > log, NEW w, w.expected \in Int, Unbroken(w, notes, log)
  PROVE  /\ Append(notes, p) \in Seq(LogPackets) /\ LogInOrder(Append(notes, p), next)
         /\ Unbroken(w, Append(notes, p), next)
<1> DEFINE more == Append(notes, p)
<1>1. /\ more \in Seq(LogPackets) /\ DOMAIN more = 1 .. Len(notes) + 1
      /\ DOMAIN notes = 1 .. Len(notes) /\ Len(notes) \in Nat
      /\ \A i \in 1 .. Len(notes) : more[i] = notes[i]
      /\ more[Len(notes) + 1] = p  BY AppendProperties
<1>2. \A q \in LogPackets : q.seq \in Nat  BY DEF LogPackets
<1>3. \A i \in DOMAIN notes : notes[i] \in LogPackets  OBVIOUS
<1> HIDE DEF more
<1>4. \A i \in DOMAIN more : i \in DOMAIN notes \/ i = Len(notes) + 1  BY <1>1
<1>5. LogInOrder(more, next)  BY <1>1, <1>2, <1>3, <1>4 DEF LogInOrder
<1>6. Unbroken(w, more, next)  BY SMTT(60), <1>1, <1>2, <1>3, <1>4 DEF Unbroken
<1> QED  BY <1>1, <1>5, <1>6 DEF more

\* The device sends the next packet of the log: it follows the ones on their way.
LEMMA LogsSent ==
  ASSUME LogsState, AmbientType', used'.faults >= used.faults, DeviceLogs
  PROVE  LogsState'
<1>1. /\ LogsHost(host, Calm) /\ host.st # "clearing" /\ dev \in DevType /\ link \in LinkType
      /\ inbox \in Seq(LogPackets) /\ LogInOrder(inbox, dev.log)
      /\ host.st = "running" => Unbroken(host.wf, inbox, dev.log)
      /\ UNCHANGED <<host, sink, disk, link, svc, told>>
      /\ dev.log \in Nat \ {0} /\ dev.logging /\ link.up
      /\ used.faults \in Nat /\ used'.faults \in Nat
  BY LogsFacts DEF LogsState, LogsFamily, DeviceLogs, DevType, AmbientType, UsedType
<1>2. /\ dev'.logging = dev.logging /\ dev'.held = dev.held /\ dev'.next = dev.next
      /\ dev'.log \in Nat /\ dev'.log > dev.log
      /\ \/ inbox' = inbox
         \/ \E p \in LogPackets : p.seq = dev.log /\ Notifies(p)
  <2>1. /\ dev'.logging = dev.logging /\ dev'.held = dev.held /\ dev'.next = dev.next
        /\ dev'.log \in {dev.log + 1, dev.log + 2}
    <3>1. dev' = [dev EXCEPT !.log = dev.log + 1] \/ dev' = [dev EXCEPT !.log = dev.log + 2]
      BY DEF DeviceLogs
    <3> QED  BY <1>1, <3>1 DEF DevType
  <2>2. LogPacket(dev.log, FALSE) \in LogPackets /\ LogPacket(dev.log, FALSE).seq = dev.log
    BY <1>1 DEF LogPacket, LogPackets
  <2>3. \A p : p = [LogPacket(dev.log + 1, TRUE) EXCEPT !.seq = dev.log]
                => p \in LogPackets /\ p.seq = dev.log
    <3> TAKE p
    <3> HAVE p = [LogPacket(dev.log + 1, TRUE) EXCEPT !.seq = dev.log]
    <3>1. p.seq = dev.log /\ p.dropped = TRUE /\ p.line = (dev.log + 1 + 1) \div 2
          /\ p.end = ((dev.log + 1) % 2 = 0)
          /\ p = [seq |-> dev.log, dropped |-> TRUE, line |-> (dev.log + 1 + 1) \div 2,
                  end |-> (dev.log + 1) % 2 = 0]
      BY DEF LogPacket
    <3>2. /\ (dev.log + 1 + 1) \div 2 = (dev.log + 2) \div 2 /\ (dev.log + 2) \div 2 \in Int
          /\ ((dev.log + 1) % 2 = 0) \in BOOLEAN /\ dev.log \in Nat
      <4>1. dev.log + 1 + 1 = dev.log + 2  BY <1>1
      <4> QED  BY <1>1, <4>1
    <3>3. p \in [seq : Nat, dropped : BOOLEAN, line : Int, end : BOOLEAN]  BY <3>1, <3>2
    <3> QED  BY <3>1, <3>2, <3>3 DEF LogPackets
  <2>4. \/ inbox' = inbox
        \/ \E p \in LogPackets : p.seq = dev.log /\ Notifies(p)  BY <2>2, <2>3 DEF DeviceLogs
  <2> QED  BY <1>1, <2>1, <2>4
<1>3. Calm => Calm'  BY <1>1, <1>2 DEF Calm
<1>4. LogsHost(host', Calm')  BY <1>1, <1>3 DEF LogsHost, LogsInv, LogsEnding
<1>5. host.st = "running" => host.wf.expected \in Int  BY <1>1, LogsRunFacts DEF LogFlow, LogsWf
<1>6. /\ inbox' \in Seq(LogPackets) /\ LogInOrder(inbox', dev'.log)
      /\ host.st = "running" => Unbroken(host.wf, inbox', dev'.log)
  <2>1. CASE inbox' = inbox
    <3>1. \A i \in DOMAIN inbox : inbox[i].seq \in Nat  BY <1>1 DEF LogPackets
    <3> QED  BY <1>1, <1>2, <1>5, <2>1, <3>1 DEF LogInOrder, Unbroken
  <2>2. CASE \E p \in LogPackets : p.seq = dev.log /\ inbox' = Append(inbox, p)
    <3>1. PICK p \in LogPackets : p.seq = dev.log /\ inbox' = Append(inbox, p)  BY <2>2
    <3>2. CASE host.st = "running"  BY <1>1, <1>2, <1>5, <3>1, <3>2, LogAppend
    <3>3. CASE host.st # "running"
      <4> DEFINE w == [expected |-> 0, buffer |-> <<>>]
      <4>1. w.expected \in Int /\ Unbroken(w, inbox, dev.log)  BY DEF Unbroken
      <4> HIDE DEF w
      <4> QED  BY <1>1, <1>2, <3>1, <3>3, <4>1, LogAppend
    <3> QED  BY <3>2, <3>3
  <2> QED  BY <1>2, <2>1, <2>2 DEF Notifies
<1>7. ~link'.cccd => inbox' = <<>>
  <2>1. ~link.cccd => inbox' = inbox  BY <1>2 DEF Notifies
  <2> QED  BY <1>1, <2>1 DEF LogsState, Ambient
<1> QED  BY <1>1, <1>2, <1>4, <1>6, <1>7 DEF LogsState, LogsFamily, Ambient, NoReset, NoStream, NoEarly

\* The link is lost, or is back, and the device uploads on its own.
LEMMA LogsLink ==
  ASSUME LogsState, AmbientType', used'.faults >= used.faults, LinkLost \/ Reconnect \/ DeviceUploads
  PROVE  LogsState'
<1>1. /\ LogsHost(host, Calm) /\ host.st # "clearing" /\ dev \in DevType /\ link \in LinkType
      /\ UNCHANGED <<host, sink, disk, svc, told>>
      /\ used.faults \in Nat /\ used'.faults \in Nat
  BY LogsFacts DEF LinkLost, Reconnect, DeviceUploads, Radio, AmbientType, UsedType
<1>2. CASE LinkLost
  <2>1. /\ ~dev'.logging /\ dev'.held = dev.held /\ dev'.next = 0 /\ inbox' = <<>>
        /\ ~link'.up /\ ~link'.cccd /\ link'.ahead = link.ahead
    BY <1>1, <1>2, DetachedType DEF LinkLost, LinkType
  <2>2. Calm'  BY <2>1 DEF Calm
  <2>3. LogsHost(host', Calm')  BY <1>1, <2>2 DEF LogsHost, LogsInv, LogsEnding
  <2>4. LogInOrder(inbox', dev'.log) /\ (host.st = "running" => Unbroken(host.wf, inbox', dev'.log))
    <3>1. host.st = "running" => Unbroken(host.wf, inbox, dev.log)  BY DEF LogsState, LogsFamily
    <3>2. dev'.log = dev.log  BY <1>1, <1>2, DetachedType DEF LinkLost
    <3> QED  BY <2>1, <3>1, <3>2 DEF LogInOrder, Unbroken
  <2> QED  BY <1>1, <2>1, <2>3, <2>4 DEF LogsState, LogsFamily, Ambient, NoReset, NoStream, NoEarly
<1>3. CASE Reconnect \/ DeviceUploads
  <2>1. /\ dev'.logging = dev.logging /\ dev'.held = dev.held /\ dev'.next = dev.next /\ dev'.log = dev.log
        /\ link'.cccd = link.cccd /\ link'.ahead = link.ahead /\ inbox' = inbox /\ UNCHANGED used
        /\ link'.up \/ link'.up = link.up
    <3>1. CASE Reconnect  BY <1>1, <3>1 DEF Reconnect, LinkType
    <3>2. CASE DeviceUploads
      <4>1. \/ dev' = [dev EXCEPT !.sync = FALSE]
            \/ dev' = [dev EXCEPT !.pending = @ - 1, !.sync = dev.pending > 1]
        BY <3>2 DEF DeviceUploads
      <4> QED  BY <1>1, <3>2, <4>1 DEF DeviceUploads, DevType
    <3> QED  BY <1>3, <3>1, <3>2
  <2>2. Calm' = Calm  BY <2>1 DEF Calm
  <2>3. LogsHost(host', Calm')  BY <1>1, <2>2
  <2> QED  BY <1>1, <2>1, <2>3 DEF LogsState, LogsFamily, Ambient, NoReset, NoStream, NoEarly
<1> QED  BY <1>2, <1>3

\* An operation is over, or the process.
LEMMA LogsEnd ==
  ASSUME LogsState, AmbientType', Finish \/ Restart
  PROVE  LogsState'
<1>1. /\ LogsHost(host, Calm) /\ HostShape(host, "logs") /\ dev \in DevType /\ link \in LinkType
      /\ host.st \in {"running", "ending"} => host.wf.kind = "logs"  BY LogsFacts
<1>2. LogInOrder(inbox, dev.log) /\ ~link.ahead /\ NoReset /\ NoStream /\ (~link.up => ~dev.logging)
  BY LogsFacts DEF LogsState, LogsFamily
<1>3. /\ inbox' = <<>> /\ sink' = NoSink /\ ~link'.cccd /\ ~link'.ahead
      /\ dev'.held = dev.held /\ dev'.next = 0
      /\ ~link'.up => ~dev'.logging
      /\ host'.st \in {"idle", "stuck"} /\ HostShape(host', "logs")
      /\ told' \in {"none", "failed", "cancelled"}
  <2>1. CASE Restart
    <3>1. ~dev'.logging /\ dev'.held = dev.held /\ dev'.next = 0  BY <1>1, <2>1, DetachedType DEF Restart
    <3> QED  BY <2>1, <3>1, IdleShape DEF Restart
  <2>2. CASE Finish
    <3>1. host.st = "ending" /\ host.wf.kind = "logs" /\ host.outcome \in {"none", "failed", "cancelled"}
      BY <1>1, <2>2 DEF Finish, LogsHost, LogsInv
    <3>2. /\ host' = (IF host.dirty THEN [Idle EXCEPT !.st = "stuck"] ELSE Idle)
          /\ told' \in {"failed", host.outcome}
      BY <2>2, <3>1 DEF Finish
    <3> DEFINE s == [Idle EXCEPT !.st = "stuck"]
    <3>3. HostShape(s, "logs") /\ s.st = "stuck"
      <4> HIDE DEF Idle
      <4>1. s \in HostType /\ s.st = "stuck" /\ s.run = {} /\ s.wf = [kind |-> "none"]
        BY IdleShape DEF HostType
      <4> QED  BY <4>1 DEF HostShape
    <3> HIDE DEF s
    <3>4. host'.st \in {"idle", "stuck"} /\ HostShape(host', "logs")  BY <3>2, <3>3, IdleShape DEF s
    <3>5. UNCHANGED dev /\ link'.up = link.up /\ ~link'.cccd /\ ~link'.ahead
      BY <1>1, <2>2 DEF Finish, LinkType
    <3> QED  BY <1>2, <2>2, <3>1, <3>2, <3>4, <3>5 DEF Finish, NoStream
  <2> QED  BY <2>1, <2>2
<1>4. LogInOrder(inbox', dev'.log)  BY <1>3 DEF LogInOrder
<1> QED  BY <1>2, <1>3, <1>4 DEF LogsState, LogsFamily, LogsHost, Ambient, NoReset, NoStream, NoEarly

\* No step of the others is one of the log.
LEMMA LogsNext ==
  ASSUME LogsState, used.family = "logs", NativeNext
  PROVE  LogsState'
<1>1. HostShape(host, "logs") /\ AmbientType /\ dev.next = 0 /\ ~link.ahead /\ sink = NoSink
      /\ host.st # "clearing" /\ \A r \in host.run : r.eff \in LogEffs  BY LogsFacts
<1>2. AmbientType' /\ used'.faults >= used.faults  BY <1>1, AmbientStep
<1>3. CASE StartOperation  BY <1>2, <1>3, LogsStart
<1>4. CASE AppCancels  BY <1>2, <1>4, LogsCancel
<1>5. CASE Effect  BY <1>2, <1>5, LogsEffect, LogsKeeps
<1>6. CASE Refused  BY <1>2, <1>6, LogsRefused, LogsKeeps
<1>7. CASE TimerElapses \/ HearDrop  BY <1>2, <1>7, LogsHears
<1>8. CASE Deliver  BY <1>2, <1>8, LogsDelivered
<1>9. CASE DeviceLogs  BY <1>2, <1>9, LogsSent
<1>10. CASE LinkLost \/ Reconnect \/ DeviceUploads  BY <1>2, <1>10, LogsLink
<1>11. CASE Finish \/ Restart  BY <1>2, <1>11, LogsEnd
<1>12. ~Ahead  BY <1>1 DEF Ahead, WriteExecutes, LogEffs, LogEffects
<1>13. ~SinkSteps  BY <1>1 DEF SinkSteps, BackgroundFlush, UploadChunk, FinalizeAsked, JobStops, NoSink
<1>14. ~Candidate /\ ~DeviceSends /\ ~ClearResetOwner  BY <1>1 DEF Candidate, DeviceSends, ClearResetOwner
<1> QED  BY <1>3, <1>4, <1>5, <1>6, <1>7, <1>8, <1>9, <1>10, <1>11, <1>12, <1>13, <1>14 DEF NativeNext

\* The callback of an opcode that the result overtook.
LEMMA ResetSettleStep ==
  ASSUME NEW w, NEW e, NEW kept, NEW wiped, NEW acked, ResetReady(w, e, kept, wiped, acked),
         w.settling, e.of = "WriteOpcode"
  PROVE  ResetStep(w, e.of, SettleOpcode(w), kept, wiped, acked)
<1> DEFINE s == [w EXCEPT !.settling = FALSE]
           r == SettleOpcode(w)
<1>1. /\ w \in ResetWf /\ ResetFlow(w) /\ w.phase = "PersistingResult" /\ w.result = Count
      /\ w.result = Count => wiped
      /\ "SaveResult" \notin w.waits => kept  BY DEF ResetReady, ResetFlow
<1>2. /\ s \in ResetWf /\ s.phase = "PersistingResult" /\ s.result = Count /\ ~s.settling
      /\ s.waits = w.waits /\ s.mode = w.mode  BY <1>1 DEF ResetWf
<1>0. s = [w EXCEPT !.settling = FALSE]  OBVIOUS
<1> HIDE DEF s
<1>3. ResetFlow(s)  BY <1>1, <1>2 DEF ResetFlow, ResetWaits, ResetWork
<1>4. CASE "SaveResult" \notin w.waits
  <2>1. r.wf = [s EXCEPT !.phase = "WritingReceipt", !.waits = @ \cup {"WriteReceipt"}]
        /\ r.out = {"WriteReceipt"}  BY <1>0, <1>1, <1>4 DEF SettleOpcode, WriteReceipt
  <2>2. s.waits \subseteq {"ResetTimer", "SaveStart", "SaveAwait"}
    BY <1>1, <1>2, <1>4 DEF ResetFlow, ResetWaits, ResetWork, Watched
  <2>3. ResetWork(r.wf) = {"WriteReceipt"}  BY <1>2, <2>1 DEF ResetWork, ResetWf
  <2>4. /\ "WritingReceipt" \in ResetPhases /\ "WriteReceipt" \in HostEffects
        /\ "WriteReceipt" \in ResetEffects \ {"SaveResult"} /\ "WritingReceipt" \notin Watched
    BY DEF ResetPhases, ResetEffects, HostEffects, Writes, Watched
  <2>5. \A x \in HostEffects : ResetLive(w, x) /\ Source(x) # e.of =>
                                 x \in {"SaveStart", "SaveAwait", "Unsubscribe"}
    BY <1>1, <1>4 DEF ResetLive, ResetWork, Source, Results
  <2> HIDE DEF r
  <2>6. ResetEnters(w, s, e.of, r, kept, wiped, acked, "WritingReceipt", "WriteReceipt")
    BY <1>1, <1>2, <1>3, <1>4, <2>1, <2>2, <2>3, <2>4, <2>5 DEF ResetEnters
  <2>7. ResetStep(w, e.of, r, kept, wiped, acked)  BY <2>6, ResetNextStep
  <2> QED  BY <2>7 DEF r
<1>5. CASE "SaveResult" \in w.waits
  <2>1. r.wf = s /\ r.out = {}  BY <1>0, <1>5 DEF SettleOpcode
  <2>2. \A x \in HostEffects : ResetLive(w, x) /\ Source(x) # e.of => ResetLive(s, x)
    <3>1. ResetWork(w) = ResetWork(s)  BY <1>1, <1>2 DEF ResetWork
    <3> QED  BY <1>1, <1>2, <3>1 DEF ResetLive, Source, Results
  <2> HIDE DEF r
  <2>3. ResetStep(w, e.of, r, kept, wiped, acked)  BY <1>1, <1>2, <1>3, <1>5, <2>1, <2>2 DEF ResetStep
  <2> QED  BY <2>3 DEF r
<1> QED  BY <1>4, <1>5

\* The subscription is open: the keeper of its identifier.
LEMMA ResetSubscribedStep ==
  ASSUME NEW w, NEW e, NEW kept, NEW wiped, NEW acked, ResetReady(w, e, kept, wiped, acked),
         e.type = "Subscribed", w.phase = "Subscribing"
  PROVE  ResetStep(w, e.of, SubscribeReady(w), kept, wiped, acked)
<1> DEFINE r == SubscribeReady(w)
<1>1. /\ w \in ResetWf /\ ResetFlow(w) /\ e.of = "Subscribe" /\ ~w.settling
      /\ w.result = Count => wiped  BY Answered DEF ResetReady, ResetFlow
<1>2. \A x \in HostEffects : ResetLive(w, x) /\ Source(x) # e.of =>
                               x \in {"SaveStart", "SaveAwait", "Unsubscribe"}
  BY <1>1 DEF ResetLive, ResetWork, Source, Results
<1>3. w.waits \subseteq {"ResetTimer", "SaveStart", "SaveAwait"} \cup {"Subscribe"}
  BY <1>1 DEF ResetFlow, ResetWaits, ResetWork, Watched
<1>4. CASE w.mode = "start"
  <2>1. r.wf = [w EXCEPT !.phase = "WritingGrant", !.waits = @ \cup {"WriteGrant"}]
        /\ r.out = {"WriteGrant"}  BY <1>4 DEF SubscribeReady
  <2>2. ResetWork(r.wf) = {"WriteGrant"}  BY <1>1, <2>1 DEF ResetWork, ResetWf
  <2>3. /\ "WritingGrant" \in ResetPhases /\ "WriteGrant" \in HostEffects
        /\ "WriteGrant" \in ResetEffects \ {"SaveResult"} /\ "WritingGrant" \in Watched
    BY DEF ResetPhases, ResetEffects, HostEffects, Writes, Watched
  <2> HIDE DEF r
  <2>4. ResetEnters(w, w, e.of, r, kept, wiped, acked, "WritingGrant", "WriteGrant")
    BY <1>1, <1>2, <1>3, <2>1, <2>2, <2>3 DEF ResetEnters
  <2>5. ResetStep(w, e.of, r, kept, wiped, acked)  BY <2>4, ResetNextStep
  <2> QED  BY <2>5 DEF r
<1>5. CASE w.mode # "start"
  <2> DEFINE u == [w EXCEPT !.phase = "AwaitingResult"]
  <2>1. r.wf = u /\ r.out = {}  BY <1>5 DEF SubscribeReady
  <2>2. /\ u \in ResetWf /\ u.phase = "AwaitingResult" /\ u.result = w.result
        /\ u.waits = w.waits /\ ~u.settling  BY <1>1 DEF ResetWf, ResetPhases
  <2> HIDE DEF u, r
  <2>3. ResetFlow(u)  BY <1>3, <2>2 DEF ResetFlow, ResetWaits, ResetWork, Watched
  <2>4. \A x \in HostEffects : ResetLive(w, x) /\ Source(x) # e.of => ResetLive(u, x)  BY <1>2 DEF ResetLive
  <2>5. ResetStep(w, e.of, r, kept, wiped, acked)  BY <1>1, <2>1, <2>2, <2>3, <2>4 DEF ResetStep
  <2> QED  BY <2>5 DEF r
<1> QED  BY <1>4, <1>5

\* A notification of the device: its failure, or the result to keep.
LEMMA ResetNotifiedStep ==
  ASSUME NEW w, NEW e, NEW kept, NEW wiped, NEW acked, ResetReady(w, e, kept, wiped, acked),
         e.type = "Notification", w.phase \in {"AwaitingResult", "WritingOpcode"}
  PROVE  ResetStep(w, e.of, ResultNotified(w, e.val), kept, wiped, acked)
<1> DEFINE s == IF w.phase = "WritingOpcode"
                THEN [w EXCEPT !.settling = TRUE, !.waits = @ \ {"WriteOpcode"}] ELSE w
           r == ResultNotified(w, e.val)
<1>1. /\ w \in ResetWf /\ ResetFlow(w) /\ e.of = "Subscribe" /\ w.settling = FALSE
      /\ w.result = Count => wiped
      /\ e.val \in {NoResult, Count} /\ (e.val = Count => wiped)
  BY Answered DEF ResetReady, ResetFlow, Results2, ResetWf
<1>2. /\ s \in ResetWf /\ s.phase = w.phase /\ s.result = w.result /\ s.mode = w.mode
      /\ s.settling = (w.phase = "WritingOpcode") /\ s.expected = w.expected
      /\ s.waits \ {"Subscribe"} \subseteq {"ResetTimer", "SaveStart", "SaveAwait"}
  <2>1. w.waits \ {"Subscribe", "WriteOpcode"} \subseteq {"ResetTimer", "SaveStart", "SaveAwait"}
        /\ (w.phase = "AwaitingResult" => "WriteOpcode" \notin w.waits)
    BY <1>1 DEF ResetFlow, ResetWaits, ResetWork, Watched
  <2>2. CASE w.phase = "WritingOpcode"  BY <1>1, <2>1, <2>2 DEF ResetWf
  <2>3. CASE w.phase = "AwaitingResult"  BY <1>1, <2>1, <2>3 DEF ResetWf
  <2> QED  BY <2>2, <2>3
<1>0. s = IF w.phase = "WritingOpcode"
          THEN [w EXCEPT !.settling = TRUE, !.waits = @ \ {"WriteOpcode"}] ELSE w
  OBVIOUS
<1> HIDE DEF s
<1>3. CASE e.val = NoResult
  <2>1. r = ResetFail(w)  BY <1>3 DEF ResultNotified
  <2> QED  BY <1>1, <2>1, ResetFailStep
<1>4. CASE e.val # NoResult /\ w.mode = "resume" /\ w.expected \notin {NoResult, e.val}
  <2>1. r = ResetFail(s)  BY <1>0, <1>4 DEF ResultNotified
  <2>2. ResetStep(s, e.of, r, kept, wiped, acked) /\ r.wf.phase = "Failed"
    BY <1>1, <1>2, <2>1, ResetFailStep
  <2> HIDE DEF r
  <2>3. ResetStep(w, e.of, r, kept, wiped, acked)  BY <1>2, <2>2 DEF ResetStep
  <2> QED  BY <2>3 DEF r
<1>5. CASE e.val # NoResult /\ ~(w.mode = "resume" /\ w.expected \notin {NoResult, e.val})
  <2> DEFINE u == [s EXCEPT !.phase = "PersistingResult", !.result = e.val,
                            !.waits = (@ \ {"Subscribe"}) \cup {"SaveResult", "SaveAwait"}]
  <2>1. r.wf = u /\ r.out \subseteq {"Unsubscribe", "SaveResult", "SaveAwait"}
    BY <1>0, <1>5 DEF ResultNotified, PersistResult
  <2>2. e.val \in Results2 /\ "PersistingResult" \in ResetPhases /\ {"SaveResult", "SaveAwait"} \subseteq ResetEffects
    BY <1>1 DEF Results2, ResetPhases, ResetEffects
  <2>3. /\ u \in ResetWf /\ u.phase = "PersistingResult" /\ u.result = e.val /\ u.settling = s.settling
        /\ u.waits = (s.waits \ {"Subscribe"}) \cup {"SaveResult", "SaveAwait"}  BY <1>2, <2>2 DEF ResetWf
  <2> HIDE DEF u, r
  <2>4. ResetFlow(u)  BY <1>1, <1>2, <1>5, <2>3 DEF ResetFlow, ResetWaits, ResetWork, Watched
  <2>5. \A x \in HostEffects : ResetLive(w, x) /\ Source(x) # e.of => ResetLive(u, x)
    BY <1>1, <1>2, <2>3 DEF ResetLive, ResetWork, Source, Results
  <2>6. \A x \in r.out : ResetLive(u, x) /\ x \notin {"SaveJournal", "AskApp"}
    BY <2>1, <2>3 DEF ResetLive, Results
  <2>7. ResetStep(w, e.of, r, kept, wiped, acked)  BY <1>1, <1>5, <2>1, <2>3, <2>4, <2>5, <2>6 DEF ResetStep
  <2> QED  BY <2>7 DEF r
<1> QED  BY <1>3, <1>4, <1>5

\* dispatch.
LEMMA ResetDispatchStep ==
  ASSUME NEW w, NEW e, NEW kept, NEW wiped, NEW acked, ResetReady(w, e, kept, wiped, acked),
         ~ResetDispatch(w, e).rejected
  PROVE  ResetStep(w, e.of, ResetDispatch(w, e), kept, wiped, acked)
<1> DEFINE r == ResetDispatch(w, e)
           v == [w EXCEPT !.waits = @ \ {e.of}]
<1>1. /\ w \in ResetWf /\ ResetFlow(w) /\ w.phase \notin {"Completed", "Failed"}
      /\ w.result = Count => wiped
      /\ Matches(e.of, e.type)  BY DEF ResetReady
<1>2. CASE w.settling /\ e.of = "WriteOpcode" /\ e.type \in {"WriteCompleted", "Failed"}
  BY <1>2, ResetSettleStep DEF ResetDispatch
<1>3. ~(w.settling /\ e.of = "WriteOpcode" /\ e.of \in w.waits)
  BY <1>1 DEF ResetFlow, ResetWaits, ResetWork, Watched
<1>4. CASE ~(w.settling /\ e.of = "WriteOpcode" /\ e.type \in {"WriteCompleted", "Failed"})
           /\ e.type \in {"Disconnected", "TimerFired", "Failed", "MaterialFailed"}
  <2>1. r = ResetFail(w) \/ r.rejected  BY <1>4 DEF ResetDispatch
  <2> QED  BY <1>1, <2>1, ResetFailStep
<1>5. CASE ~(w.settling /\ e.of = "WriteOpcode" /\ e.type \in {"WriteCompleted", "Failed"})
           /\ e.of \in w.waits /\ e.type = "CheckpointSaved"
  <2>1. r.wf = v /\ r.out = {}  BY <1>5 DEF ResetDispatch
  <2>2. e.of \in {"SaveStart", "SaveAwait"}  BY <1>1, <1>5, Answered
  <2>3. /\ v \in ResetWf /\ v.phase = w.phase /\ v.result = w.result /\ v.settling = w.settling
        /\ v.waits = w.waits \ {e.of}  BY <1>1 DEF ResetWf
  <2> HIDE DEF v, r
  <2>4. ResetWork(v) = ResetWork(w)  BY <2>3 DEF ResetWork
  <2>5. ResetFlow(v)  BY <1>1, <2>3, <2>4 DEF ResetFlow, ResetWaits
  <2>6. \A x \in HostEffects : ResetLive(w, x) /\ Source(x) # e.of => ResetLive(v, x)
    BY <2>2, <2>3, <2>4 DEF ResetLive
  <2>7. /\ v.phase \in {"WritingReceipt", "DeletingResult"} => kept
        /\ v.phase = "PersistingResult" /\ "SaveResult" \notin v.waits => kept
        /\ v.phase = "DeletingResult" => acked  BY <2>2, <2>3 DEF ResetReady
  <2>8. ResetStep(w, e.of, r, kept, wiped, acked)  BY <1>1, <2>1, <2>3, <2>5, <2>6, <2>7 DEF ResetStep
  <2> QED  BY <2>8 DEF r
<1>6. CASE ~(w.settling /\ e.of = "WriteOpcode" /\ e.type \in {"WriteCompleted", "Failed"})
           /\ e.of \in w.waits /\ e.type = "Subscribed"
  <2>1. r = SubscribeReady(w)  BY <1>6 DEF ResetDispatch
  <2>2. w.phase # "Subscribing" => r.rejected  BY <2>1 DEF SubscribeReady
  <2> QED  BY <1>6, <2>1, <2>2, ResetSubscribedStep
<1>7. CASE ~(w.settling /\ e.of = "WriteOpcode" /\ e.type \in {"WriteCompleted", "Failed"})
           /\ e.of \in w.waits /\ e.type = "Notification"
  <2>1. \/ r.rejected
        \/ r = ResultNotified(w, e.val) /\ w.phase \in {"AwaitingResult", "WritingOpcode"}
    BY <1>7 DEF ResetDispatch
  <2> QED  BY <1>7, <2>1, ResetNotifiedStep
<1>8. CASE /\ ~(w.settling /\ e.of = "WriteOpcode" /\ e.type \in {"WriteCompleted", "Failed"})
           /\ e.of \in w.waits
           /\ e.type \notin {"Disconnected", "CheckpointSaved", "Subscribed", "Notification",
                             "TimerFired", "Failed", "MaterialFailed"}
  <2>1. \/ r.rejected
        \/ r = ResetAdvance(v, e) /\ e.of \notin {"SaveStart", "SaveAwait"}  BY <1>8 DEF ResetDispatch
  <2> HIDE DEF r
  <2>2. r.rejected \/ ResetStep(w, e.of, r, kept, wiped, acked)  BY <1>3, <1>8, <2>1, ResetAdvanceStep
  <2> QED  BY <2>2 DEF r
<1>9. CASE /\ ~(w.settling /\ e.of = "WriteOpcode" /\ e.type \in {"WriteCompleted", "Failed"})
           /\ e.of \notin w.waits /\ e.type # "Disconnected"
  <2>1. r.rejected  BY <1>9 DEF ResetDispatch
  <2> QED  BY <2>1
<1> QED  BY <1>2, <1>4, <1>5, <1>6, <1>7, <1>8, <1>9

-----------------------------------------------------------------------------
(* The reset: the host *)

\* A reset that comes to its end leaves an owner to the disconnection that clears it.
LEMMA ResetCloseStep ==
  ASSUME NEW h, NEW saved, NEW kept, NEW wiped, NEW acked, ResetInv(h, saved, kept, wiped, acked),
         h.st = "running", NEW g, ResetCloses(g, h, kept, wiped, acked)
  PROVE  ResetInv(g, saved, kept, wiped, acked)
<1> DEFINE w == h.wf
<1>1. /\ ResetRunning(h, saved) /\ w \in ResetWf
      /\ w.phase \in {"WritingReceipt", "DeletingResult", "Completed"} => kept  BY DEF ResetInv
<1>2. \A q \in h.run : ResetLive(w, q.eff)  BY <1>1 DEF ResetRunning
<1>3. \A q \in h.run : q.eff \in ResetEffs
  BY <1>2 DEF ResetLive, ResetEffs, ResetEffects, ResetWork, Results
<1>4. \A r \in g.run : /\ r.eff \in ResetEffs
                       /\ r.mode = "clean" => r.eff \in {"Unsubscribe", "DeleteCheckpoint"}
  BY <1>3 DEF ResetCloses, ResetEffs
<1>5. (\E q \in h.run : q.eff = "WriteReceipt") => w.phase = "WritingReceipt"
  BY <1>2 DEF ResetLive, ResetWork, Results
<1>6. (\E q \in h.run : q.eff = "WriteOpcode") => w.phase \in {"WritingOpcode", "PersistingResult"}
  BY <1>1, <1>2 DEF ResetLive, ResetWork, ResetRunning, Results
<1>7. Has(g, "WriteReceipt") => kept /\ ~Has(g, "WriteOpcode")  BY <1>1, <1>5, <1>6 DEF Has, ResetCloses
<1>8. (\E r \in g.run : r.eff \in Results) => g.wf.result = Count
  <2>1. (\E q \in h.run : q.eff \in Results) => w.phase = "PersistingResult"
    BY <1>2 DEF ResetLive, ResetWork, Results
  <2>2. (\E q \in h.run : q.eff \in Results) => w.result = Count  BY <1>1, <2>1 DEF ResetRunning
  <2> QED  BY <2>2 DEF ResetCloses, Results
<1>9. ResetEnding(g, kept)
  <2>1. g.outcome = "done" => g.wf.phase = "Completed"  BY DEF ResetCloses
  <2>2. \A r \in g.run : /\ r.eff \in ResetEffs
                         /\ r.mode = "clean" => r.eff \in {"Unsubscribe", "DeleteCheckpoint"}
    BY <1>4
  <2> HIDE DEF w
  <2> QED  BY <1>7, <1>8, <2>1, <2>2 DEF ResetEnding
<1> QED  BY <1>9 DEF ResetInv, ResetCloses, ResetKnown

\* The executor takes an accepted transition of a reset.
LEMMA ResetAcceptStep ==
  ASSUME NEW h, NEW saved, NEW kept, NEW wiped, NEW acked, ResetInv(h, saved, kept, wiped, acked),
         HostShape(h, "reset"), h.st = "running", NEW e, NEW r, ResetStep(h.wf, e.of, r, kept, wiped, acked),
         r.wf.phase \notin {"Completed", "Failed"} => \A q \in h.run : Source(q.eff) # e.of,
         NEW pend \in SUBSET (HostEffects \cup Timers)
  PROVE  LET g == Accept(h, r, pend)
         IN HostShape(g, "reset") /\ ResetInv(g, saved, kept, wiped, acked) /\ Keeping(g, h)
<1> DEFINE g == Accept(h, r, pend)
           a == [h EXCEPT !.wf = r.wf]
           w == h.wf
<1>1. /\ r.wf \in ResetWf /\ r.wf.kind = "reset" /\ r.wf \in Workflow /\ w \in ResetWf
      /\ ResetKnown(r.wf, kept, wiped, acked)
      /\ h \in HostType /\ h.run \subseteq Submitted /\ \A q \in h.run : q.mode = "live"
      /\ h.outcome \in {"none", "done", "failed", "cancelled"} /\ ResetRunning(h, saved)
  BY DEF ResetStep, ResetWf, Workflow, ResetInv, HostShape, HostType, ResetKnown
<1>2. a.run = h.run /\ a.ask = h.ask /\ a.cmd = h.cmd  BY <1>1 DEF HostType
<1>3. Terminal(r.wf) = (r.wf.phase \in {"Completed", "Failed"})  BY DEF Terminal
<1>4. /\ HostShape(g, "reset")
      /\ IF Terminal(r.wf) THEN Ended(g, a, r.out, Outcome(r.wf)) /\ g.wf = r.wf ELSE Went(g, h, r)
  BY <1>1, AcceptShape
<1>5. g.run \subseteq Submitted  BY <1>4 DEF HostShape, HostType
<1>6. \A q \in g.run : q.eff \in HostEffects  BY <1>5 DEF Submitted
<1> HIDE DEF g, a
<1>7. CASE r.wf.phase \in {"Completed", "Failed"}
  <2>1. Ended(g, a, r.out, Outcome(r.wf)) /\ g.wf = r.wf  BY <1>3, <1>4, <1>7
  <2>2. Outcome(r.wf) = IF r.wf.phase = "Failed" THEN "failed" ELSE "done"  BY <1>1 DEF Outcome
  <2>3. r.out \cap HostEffects \subseteq {"Unsubscribe", "DeleteCheckpoint"} /\ r.wf.result = w.result
    BY <1>7 DEF ResetStep
  <2>4. ResetCloses(g, h, kept, wiped, acked)
    BY <1>1, <1>2, <1>6, <1>7, <2>1, <2>2, <2>3 DEF ResetCloses, Ended
  <2>5. Keeping(g, h)  BY <1>2, <2>1 DEF Keeping, Ended
  <2> QED  BY <1>4, <2>4, <2>5, ResetCloseStep DEF g
<1>8. CASE r.wf.phase \notin {"Completed", "Failed"}
  <2>1. Went(g, h, r)  BY <1>3, <1>4, <1>8
  <2>2. /\ ResetFlow(r.wf)
        /\ \A x \in HostEffects : ResetLive(w, x) /\ Source(x) # e.of => ResetLive(r.wf, x)
        /\ \A x \in r.out \cap HostEffects :
             /\ ResetLive(r.wf, x) /\ x \notin {"SaveJournal", "AskApp"}
             /\ x = "SaveResult" => w.phase # "PersistingResult"
    BY <1>8 DEF ResetStep
  <2>3. \A q \in g.run : q \in h.run \/ (q.eff \in r.out \cap HostEffects /\ q.mode = "live")
    BY <1>6, <2>1 DEF Went
  <2>4. \A q \in h.run : q.eff \in HostEffects /\ ResetLive(w, q.eff) /\ q.mode = "live"
    BY <1>1 DEF ResetRunning, Submitted
  <2>5. \A q \in g.run : ResetLive(r.wf, q.eff)  BY <1>8, <2>2, <2>3, <2>4
  <2>6. \A q, p \in g.run : q.eff \in Results /\ p.eff \in Results => q = p
    <3>1. \A q \in h.run : q.eff \in Results => w.phase = "PersistingResult"
      BY <2>4 DEF ResetLive, ResetWork, Results
    <3>2. \A q \in g.run : q.eff \in Results /\ q \notin h.run => q.eff = "SaveResult" /\ q.mode = "live"
                                                               /\ w.phase # "PersistingResult"
      BY <2>2, <2>3 DEF Results
    <3>3. \A q, p \in Submitted : q.eff = p.eff /\ q.mode = p.mode => q = p  BY DEF Submitted
    <3>4. \A q, p \in h.run : q.eff \in Results /\ p.eff \in Results => q = p  BY <1>1 DEF ResetRunning
    <3> QED  BY <1>5, <3>1, <3>2, <3>3, <3>4
  <2>7. Has(g, "AskApp") => saved
    <3>1. Has(g, "AskApp") => Has(h, "AskApp")  BY <2>2, <2>3 DEF Has
    <3> QED  BY <1>1, <3>1 DEF ResetRunning
  <2>8. ResetRunning(g, saved)  BY <1>8, <2>1, <2>2, <2>5, <2>6, <2>7 DEF ResetRunning, ResetFlow, Went
  <2>9. ResetInv(g, saved, kept, wiped, acked)  BY <1>1, <2>1, <2>8 DEF ResetInv, Went, ResetKnown
  <2>10. Keeping(g, h)  BY <2>1 DEF Keeping, Went
  <2> QED  BY <1>4, <2>9, <2>10 DEF g
<1> QED  BY <1>7, <1>8

\* The reset hears an event: it goes on, or ends, with all it had submitted.
LEMMA ResetEmit ==
  ASSUME NEW h, NEW saved, NEW kept, NEW wiped, NEW acked, ResetHost(h, saved, kept, wiped, acked),
         h.st = "running", NEW e, ResetTrue(e, kept, wiped, acked), ResetSettled(h, e)
  PROVE  ResetHost(Emit(h, e), saved, kept, wiped, acked) /\ Keeping(Emit(h, e), h)
<1> DEFINE r == EngineAnswer(h.wf, e)
           w == h.wf
<1>1. /\ HostShape(h, "reset") /\ ResetInv(h, saved, kept, wiped, acked) /\ w \in ResetWf
      /\ ResetRunning(h, saved) /\ w.kind = "reset"
      /\ ResetKnown(w, kept, wiped, acked)  BY DEF ResetHost, ResetInv, HostShape, ResetKnown
<1>2. r = ResetDispatch(w, e) /\ CancelAnswer(w) = CleanupEffects(w)
  BY <1>1 DEF EngineAnswer, CancelAnswer, ResetCancel
<1>3. \/ Emit(h, e) = Ending(h, CleanupEffects(w), "failed")
      \/ /\ ~r.rejected /\ Matches(e.of, e.type)
         /\ \E pend \in SUBSET (HostEffects \cup Timers) : Emit(h, e) = Accept(h, r, pend)
  BY <1>1, <1>2, EmitCases
<1> HIDE DEF r
<1>4. CASE Emit(h, e) = Ending(h, CleanupEffects(w), "failed")
  <2> DEFINE g == Ending(h, CleanupEffects(w), "failed")
  <2>1. HostShape(g, "reset") /\ Ended(g, h, CleanupEffects(w), "failed")  BY <1>1, EndingShape DEF Outcomes
  <2> HIDE DEF g
  <2>2. g.run \subseteq Submitted  BY <2>1 DEF HostShape, HostType
  <2>3. \A q \in g.run : \/ q.mode # "clean" /\ \E p \in h.run : p.eff = q.eff
                         \/ q.eff \in {"Unsubscribe", "DeleteCheckpoint"}
    <3>1. \A x \in HostEffects : x \in CleanupEffects(w) => x = "Unsubscribe"
      BY DEF CleanupEffects, HostEffects, Writes, Reads, Saves, Results, SinkWork
    <3> QED  BY <2>1, <2>2, <3>1 DEF Ended, Submitted
  <2>4. ResetCloses(g, h, kept, wiped, acked)  BY <1>1, <2>1, <2>3 DEF ResetCloses, Ended
  <2>5. ResetInv(g, saved, kept, wiped, acked)  BY <1>1, <2>4, ResetCloseStep
  <2>6. Keeping(g, h)  BY <2>1 DEF Keeping, Ended
  <2> QED  BY <1>4, <2>1, <2>5, <2>6 DEF ResetHost, g
<1>5. CASE ~r.rejected /\ Matches(e.of, e.type)
           /\ \E pend \in SUBSET (HostEffects \cup Timers) : Emit(h, e) = Accept(h, r, pend)
  <2>1. ResetReady(w, e, kept, wiped, acked)
    BY <1>1, <1>5 DEF ResetReady, ResetKnown, ResetRunning, ResetFlow, ResetTrue
  <2>2. ResetStep(w, e.of, r, kept, wiped, acked)  BY <1>2, <1>5, <2>1, ResetDispatchStep
  <2>3. ASSUME r.wf.phase \notin {"Completed", "Failed"}
        PROVE  \A q \in h.run : Source(q.eff) # e.of
    <3>1. e.type = "Disconnected" => r.wf.phase = "Failed"
      <4>1. e.type = "Disconnected" => e.of = "Subscribe"  BY <1>5, Answered
      <4>2. e.type = "Disconnected" => r = ResetFail(w) \/ r.rejected  BY <1>2, <4>1 DEF ResetDispatch
      <4> QED  BY <1>1, <1>5, <4>2, ResetFailStep
    <3>2. e.type = "Notification" => e.of = "Subscribe"  BY <1>5, Answered
    <3>3. e.type = "Notification" => w.phase \in {"AwaitingResult", "WritingOpcode"}
      BY <1>2, <1>5, <3>2 DEF ResetDispatch
    <3>4. ResetLive(w, "Subscribe") => w.phase = "Subscribing"  BY DEF ResetLive, ResetWork, Results
    <3>5. \A q \in h.run : Source(q.eff) = "Subscribe" => q.eff = "Subscribe"  BY DEF Source
    <3> QED  BY <1>1, <2>3, <3>1, <3>2, <3>3, <3>4, <3>5 DEF ResetSettled, ResetRunning
  <2>4. PICK pend \in SUBSET (HostEffects \cup Timers) : Emit(h, e) = Accept(h, r, pend)  BY <1>5
  <2>5. /\ HostShape(Accept(h, r, pend), "reset") /\ ResetInv(Accept(h, r, pend), saved, kept, wiped, acked)
        /\ Keeping(Accept(h, r, pend), h)  BY <1>1, <2>2, <2>3, ResetAcceptStep
  <2> QED  BY <2>4, <2>5 DEF ResetHost
<1> QED  BY <1>3, <1>4, <1>5

\* What runs for the reset.
LEMMA ResetRuns ==
  ASSUME NEW h, NEW saved, NEW kept, NEW wiped, NEW acked, ResetHost(h, saved, kept, wiped, acked)
  PROVE  /\ h \in HostType /\ h.run \subseteq Submitted
         /\ h.run # {} => h.st \in {"running", "ending"}
         /\ \A r \in h.run : /\ r.eff \in ResetEffs
                             /\ r.mode = "live" => h.st = "running"
                             /\ r.mode # "live" => h.st = "ending"
                             /\ r.eff \in Results => h.wf.result = Count /\ r.mode # "clean"
                             /\ r.eff = "WriteReceipt" => kept /\ ~Has(h, "WriteOpcode")
                             /\ r.eff = "WriteReceipt" /\ r.mode = "live" => wiped
                             /\ r.eff = "AskApp" /\ r.mode = "live" => saved
                             /\ r.mode = "clean" => r.eff \in {"Unsubscribe", "DeleteCheckpoint"}
<1>1. /\ HostShape(h, "reset") /\ h \in HostType /\ h.run \subseteq Submitted
      /\ h.run # {} => h.st \in {"running", "ending"}  BY DEF ResetHost, HostShape, HostType
<1>2. CASE h.st = "running"
  <2>1. ResetRunning(h, saved) /\ \A r \in h.run : ResetLive(h.wf, r.eff) /\ r.mode = "live"
    BY <1>1, <1>2 DEF ResetHost, ResetInv, ResetRunning, HostShape
  <2>2. \A r \in h.run : r.eff \in ResetEffs
    BY <2>1 DEF ResetLive, ResetEffs, ResetEffects, ResetWork, Results
  <2>3. \A r \in h.run : r.eff \in Results => h.wf.phase = "PersistingResult"
    BY <2>1 DEF ResetLive, ResetWork, Results
  <2>4. \A r \in h.run : r.eff = "WriteReceipt" => h.wf.phase = "WritingReceipt"
    BY <2>1 DEF ResetLive, ResetWork, Results
  <2>5. Has(h, "WriteOpcode") => h.wf.phase \in {"WritingOpcode", "PersistingResult"}
    BY <2>1 DEF Has, ResetLive, ResetWork, Results, ResetRunning
  <2>6. h.wf.phase = "WritingReceipt" => kept  BY <1>2 DEF ResetHost, ResetInv
  <2>7. h.wf.phase \in {"PersistingResult", "WritingReceipt"} => h.wf.result = Count
    BY <2>1 DEF ResetRunning
  <2>8. h.wf.result = Count => wiped  BY <1>2 DEF ResetHost, ResetInv
  <2>9. \A r \in h.run : r.eff = "AskApp" => saved  BY <2>1 DEF ResetRunning, Has
  <2> QED  BY <1>1, <1>2, <2>1, <2>2, <2>3, <2>4, <2>5, <2>6, <2>7, <2>8, <2>9
<1>3. CASE h.st = "ending"
  <2>1. ResetEnding(h, kept) /\ \A r \in h.run : r.mode # "live"
    BY <1>1, <1>3 DEF ResetHost, ResetInv, HostShape
  <2> QED  BY <1>1, <1>3, <2>1 DEF ResetEnding, Has, Results
<1>4. CASE h.run = {}  BY <1>1, <1>4 DEF Has
<1> QED  BY <1>1, <1>2, <1>3, <1>4

\* An effect leaves: the others are as they were.
LEMMA ResetWithout ==
  ASSUME NEW h, NEW saved, NEW kept, NEW wiped, NEW acked, ResetHost(h, saved, kept, wiped, acked),
         NEW r \in h.run
  PROVE  /\ ResetHost(Without(h, r), saved, kept, wiped, acked) /\ Gone(Without(h, r), h, r.eff)
         /\ Without(h, r).run = h.run \ {r} /\ Without(h, r).st = h.st /\ Without(h, r).wf = h.wf
         /\ Without(h, r).ask = h.ask /\ Without(h, r).cmd = h.cmd
<1> DEFINE s == Without(h, r)
<1>1. /\ HostShape(s, "reset") /\ s.run = h.run \ {r}
      /\ s.st = h.st /\ s.wf = h.wf /\ s.ask = h.ask /\ s.cmd = h.cmd
      /\ s.outcome = h.outcome  BY WithoutShape DEF ResetHost
<1>2. h.st \in {"running", "ending"}  BY ResetRuns
<1> HIDE DEF s
<1>3. Gone(s, h, r.eff)  BY <1>1, <1>2 DEF Gone
<1>4. h.st = "running" => ResetRunning(s, saved)
  <2>1. Has(s, "AskApp") => Has(h, "AskApp")  BY <1>1 DEF Has
  <2> QED  BY <1>1, <2>1 DEF ResetHost, ResetInv, ResetRunning
<1>5. h.st = "ending" => ResetEnding(s, kept)
  <2>1. \A x : Has(s, x) => Has(h, x)  BY <1>1 DEF Has
  <2> QED  BY <1>1, <2>1 DEF ResetHost, ResetInv, ResetEnding
<1>6. ResetInv(s, saved, kept, wiped, acked)  BY <1>1, <1>2, <1>4, <1>5 DEF ResetHost, ResetInv
<1> QED  BY <1>1, <1>3, <1>6 DEF ResetHost, s

\* An effect settles: what it says is so.
LEMMA ResetSettles ==
  ASSUME NEW h, NEW saved, NEW kept, NEW wiped, NEW acked, ResetHost(h, saved, kept, wiped, acked),
         NEW r \in h.run, NEW type, NEW val,
         r.mode = "live" => ResetTrue(Event(Source(r.eff), type, val), kept, wiped, acked)
  PROVE  /\ ResetHost(Settle(h, r, type, val), saved, kept, wiped, acked)
         /\ Gone(Settle(h, r, type, val), h, r.eff)
<1> DEFINE s == Without(h, r)
           e == Event(Source(r.eff), type, val)
           g == Settle(h, r, type, val)
<1>1. /\ ResetHost(s, saved, kept, wiped, acked) /\ Gone(s, h, r.eff) /\ s.run = h.run \ {r} /\ s.st = h.st
      /\ s.ask = h.ask /\ s.cmd = h.cmd  BY ResetWithout
<1>2. g = IF r.mode = "live" THEN Emit(s, e) ELSE s  BY DEF Settle, Without
<1>3. e.of = Source(r.eff)  BY DEF Event
<1> HIDE DEF s, e, g
<1>4. CASE r.mode # "live"  BY <1>1, <1>2, <1>4 DEF g
<1>5. CASE r.mode = "live"
  <2>1. h.st = "running" /\ h.run \subseteq Submitted  BY <1>5, ResetRuns
  <2>2. \A q \in h.run : q # r => Source(q.eff) # Source(r.eff)
    <3>1. \A q \in h.run : q.mode = "live"  BY <2>1 DEF ResetHost, HostShape
    <3>2. \A q, p \in h.run : q.eff \in Results /\ p.eff \in Results => q = p
      BY <2>1 DEF ResetHost, ResetInv, ResetRunning
    <3>3. \A q \in h.run : Source(q.eff) = Source(r.eff) =>
                              q.eff = r.eff \/ (q.eff \in Results /\ r.eff \in Results)
      BY DEF Source, Results
    <3>4. \A q \in h.run : q.eff = r.eff => q = r  BY <2>1, <3>1, <1>5 DEF Submitted
    <3> QED  BY <3>2, <3>3, <3>4
  <2>3. ResetSettled(s, e)  BY <1>1, <1>3, <2>2 DEF ResetSettled
  <2>4. ResetTrue(e, kept, wiped, acked)  BY <1>5 DEF e
  <2>5. ResetHost(Emit(s, e), saved, kept, wiped, acked) /\ Keeping(Emit(s, e), s)
    BY <1>1, <2>1, <2>3, <2>4, ResetEmit
  <2>6. Gone(Emit(s, e), h, r.eff)
    <3>1. \A q \in h.run : q.eff # r.eff => q \in s.run  BY <1>1
    <3> QED  BY <1>1, <2>5, <3>1 DEF Gone, Keeping
  <2> QED  BY <1>2, <1>5, <2>5, <2>6 DEF g
<1> QED  BY <1>4, <1>5

\* An effect fails.
LEMMA ResetFails ==
  ASSUME NEW h, NEW saved, NEW kept, NEW wiped, NEW acked, ResetHost(h, saved, kept, wiped, acked),
         NEW r \in h.run, NEW type, type \in {"Failed", "PersistenceFailed", "MaterialFailed"}
  PROVE  /\ ResetHost(SettleFailed(h, r, type), saved, kept, wiped, acked)
         /\ Gone(SettleFailed(h, r, type), h, r.eff)
<1> DEFINE e == Event(Source(r.eff), type, 0)
<1>1. ResetTrue(e, kept, wiped, acked)  BY DEF ResetTrue, Event
<1>2. r \in Submitted  BY ResetRuns
<1>3. CASE r.mode \in {"live", "stale"}
  <2>1. SettleFailed(h, r, type) = Settle(h, r, type, 0)  BY <1>3 DEF SettleFailed, Settle
  <2> QED  BY <1>1, <2>1, ResetSettles
<1>4. CASE r.mode = "clean"
  <2> DEFINE s == Without(h, r)
             g == [s EXCEPT !.dirty = ~OnApple(h)]
  <2>1. /\ ResetHost(s, saved, kept, wiped, acked) /\ Gone(s, h, r.eff) /\ s.st = h.st  BY ResetWithout
  <2>0. s = Without(h, r)  OBVIOUS
  <2> HIDE DEF s
  <2>2. h.st = "ending"  BY <1>4, ResetRuns
  <2>3. SettleFailed(h, r, type) = g  BY <1>4, <2>0 DEF SettleFailed, Without
  <2>4. s \in HostType /\ (~OnApple(h)) \in BOOLEAN  BY <2>1 DEF ResetHost, HostShape
  <2>5. /\ g \in HostType /\ g.st = s.st /\ g.wf = s.wf /\ g.outcome = s.outcome /\ g.run = s.run
        /\ g.ask = s.ask /\ g.cmd = s.cmd  BY <2>4 DEF HostType
  <2> HIDE DEF g
  <2>6. ResetHost(g, saved, kept, wiped, acked)
    BY <2>1, <2>2, <2>5 DEF ResetHost, HostShape, ResetInv, ResetEnding, Has
  <2>7. Gone(g, h, r.eff)  BY <2>1, <2>5 DEF Gone
  <2> QED  BY <2>3, <2>6, <2>7
<1> QED  BY <1>2, <1>3, <1>4 DEF Submitted

\* The application or the host gives up the reset.
LEMMA ResetCancelled ==
  ASSUME NEW h, NEW saved, NEW kept, NEW wiped, NEW acked, ResetHost(h, saved, kept, wiped, acked),
         h.st \in {"running", "ending"}, NEW outcome \in {"failed", "cancelled"}
  PROVE  LET g == CancelOperation(h, outcome)
         IN ResetHost(g, saved, kept, wiped, acked) /\ Keeping(g, h)
<1> DEFINE g == CancelOperation(h, outcome)
           w == h.wf
<1>1. HostShape(h, "reset") /\ ResetInv(h, saved, kept, wiped, acked) /\ w.kind = "reset"
      /\ ResetKnown(w, kept, wiped, acked)  BY DEF ResetHost, ResetInv, HostShape, ResetKnown
<1>2. CancelAnswer(w) = CleanupEffects(w)  BY <1>1 DEF CancelAnswer, ResetCancel
<1>3. /\ HostShape(g, "reset")
      /\ h.st = "running" => Ended(g, h, CleanupEffects(w), outcome)
      /\ h.st = "ending" => \/ g = h
                            \/ /\ g.st = "ending" /\ g.outcome = "failed" /\ g.wf = h.wf
                               /\ g.ask = h.ask /\ g.cmd = h.cmd /\ g.dirty = h.dirty
                               /\ g.run = h.run /\ g.sub = h.sub
  BY <1>1, <1>2, CancelShape
<1> HIDE DEF g
<1>4. CASE h.st = "running"
  <2>1. g.run \subseteq Submitted  BY <1>3 DEF HostShape, HostType
  <2>2. \A q \in g.run : \/ q.mode # "clean" /\ \E p \in h.run : p.eff = q.eff
                         \/ q.eff \in {"Unsubscribe", "DeleteCheckpoint"}
    <3>1. \A x \in HostEffects : x \in CleanupEffects(w) => x = "Unsubscribe"
      BY DEF CleanupEffects, HostEffects, Writes, Reads, Saves, Results, SinkWork
    <3> QED  BY <1>3, <1>4, <2>1, <3>1 DEF Ended, Submitted
  <2>3. ResetCloses(g, h, kept, wiped, acked)  BY <1>1, <1>3, <1>4, <2>2 DEF ResetCloses, Ended
  <2>4. ResetInv(g, saved, kept, wiped, acked)  BY <1>1, <1>4, <2>3, ResetCloseStep
  <2>5. Keeping(g, h)  BY <1>3, <1>4 DEF Keeping, Ended
  <2> QED  BY <1>3, <2>4, <2>5 DEF ResetHost, g
<1>5. CASE h.st = "ending"
  <2>1. ResetInv(g, saved, kept, wiped, acked)  BY <1>1, <1>3, <1>5 DEF ResetInv, ResetEnding, Has
  <2>2. Keeping(g, h)  BY <1>3, <1>5 DEF Keeping
  <2> QED  BY <1>3, <2>1, <2>2 DEF ResetHost, g
<1> QED  BY <1>4, <1>5

-----------------------------------------------------------------------------
(* The reset: every step *)

\* The journal, the application and the device only learn.
LEMMA ResetGrows ==
  ASSUME NEW h, NEW s, NEW k, NEW v, NEW a, ResetHost(h, s, k, v, a),
         NEW saved, NEW kept, NEW wiped, NEW acked, s => saved, k => kept, v => wiped, a => acked
  PROVE  ResetHost(h, saved, kept, wiped, acked)
<1>1. ResetRunning(h, s) => ResetRunning(h, saved)  BY DEF ResetRunning
<1>2. ResetEnding(h, k) => ResetEnding(h, kept)  BY DEF ResetEnding
<1> QED  BY <1>1, <1>2 DEF ResetHost, ResetInv

\* What the proofs use of the invariant of a reset.
LEMMA ResetFacts ==
  ASSUME ResetState
  PROVE  /\ ResetHost(host, Saved, Kept(host), dev.wiped, Acked) /\ HostShape(host, "reset")
         /\ host \in HostType /\ host.run \subseteq Submitted
         /\ AmbientType /\ dev \in DevType /\ link \in LinkType /\ used \in UsedType
         /\ disk \in DiskType /\ sink = NoSink /\ dev.next = 0 /\ ~dev.logging
         /\ ResetTold /\ OpcodeAhead
         /\ ~link.cccd => inbox = <<>>
         /\ \A r \in host.run : r.eff \in ResetEffs
         /\ host.run # {} => host.st \in {"running", "ending"}
<1>1. ResetHost(host, Saved, Kept(host), dev.wiped, Acked)  BY DEF ResetState, ResetFamily
<1>2. /\ host \in HostType /\ host.run \subseteq Submitted
      /\ \A r \in host.run : r.eff \in ResetEffs
      /\ host.run # {} => host.st \in {"running", "ending"}  BY <1>1, ResetRuns
<1> QED  BY <1>1, <1>2 DEF ResetState, ResetFamily, ResetHost, Ambient, AmbientType, NoStream

\* A step that leaves the reset, its journal and its device alone keeps its invariant.
LEMMA ResetHolds ==
  ASSUME ResetState, ResetWorld
  PROVE  ResetThere(host)
<1>1. ResetHost(host, Saved, Kept(host), dev.wiped, Acked)  BY ResetFacts
<1>2. Kept(host) => Later  BY DEF Kept, Later, ResetWorld
<1> QED  BY <1>1, <1>2, ResetGrows DEF ResetThere, ResetWorld

\* A step whose effect is x keeps the invariant when the reset does.
LEMMA ResetKeeps ==
  ASSUME ResetState, AmbientType', NEW x, ResetDone(x)
  PROVE  ResetState'
<1>1. host'.ask = host.ask /\ host'.st \in {"running", "ending"}  BY DEF ResetDone, Gone
<1>2. Kept(host)' = Later  BY <1>1 DEF Kept, Later
<1>3. ResetHost(host', Saved', Kept(host)', dev'.wiped, Acked')  BY <1>2 DEF ResetDone, ResetThere
<1>4. told' = "done" => Acked'  BY DEF ResetState, ResetFamily, ResetDone, ResetWorld
<1>5. OpcodeAhead'
  <2> SUFFICES ASSUME link'.ahead
               PROVE  \E r \in host'.run : r.eff = "WriteOpcode" /\ r.mode # "clean"
    BY DEF OpcodeAhead
  <2>1. link.ahead /\ x # "WriteOpcode"  BY DEF ResetDone
  <2>2. PICK r \in host.run : r.eff = "WriteOpcode" /\ r.mode # "clean"
    BY <2>1 DEF ResetState, ResetFamily, OpcodeAhead
  <2> QED  BY <2>1, <2>2 DEF ResetDone, Gone
<1>6. ResetFamily'  BY <1>1, <1>3, <1>4, <1>5 DEF ResetFamily, ResetDone, ResetWorld
<1>7. Ambient' /\ NoStream'  BY <1>1 DEF Ambient, NoStream, ResetState, ResetDone, ResetWorld
<1> QED  BY <1>6, <1>7 DEF ResetState

\* The same world.
LEMMA ResetSame ==
  ASSUME ResetState, UNCHANGED <<sink, inbox, dev>>, disk' \in DiskType, Saved => Saved',
         disk.app = Count => disk'.app = Count, link'.cccd = link.cccd
  PROVE  ResetWorld
BY ResetFacts DEF ResetWorld, Acked, ResetTold

\* What is put behind the other notifications.
LEMMA ResetAppend ==
  ASSUME ResetTold, dev.wiped => dev'.wiped, dev'.held = Count => dev'.wiped,
         NEW v \in Results2, v = Count => dev'.wiped, inbox' = Append(inbox, v)
  PROVE  ResetTold'
<1>1. /\ inbox \in Seq(Results2) /\ inbox' \in Seq(Results2)
      /\ \A i \in DOMAIN inbox' : i \in DOMAIN inbox \/ inbox'[i] = v
      /\ \A i \in DOMAIN inbox : inbox'[i] = inbox[i]  BY AppendProperties DEF ResetTold
<1> QED  BY <1>1 DEF ResetTold

\* A write of the reset reaches the device.
LEMMA ResetDevice ==
  ASSUME ResetState, NEW eff \in {"WriteGrant", "WriteOpcode", "WriteReceipt"}, DeviceTakes(eff),
         UNCHANGED <<disk, sink>>, link'.cccd = link.cccd
  PROVE  ResetWorld /\ (eff = "WriteReceipt" /\ dev.wiped => Acked')
<1>1. /\ dev \in DevType /\ disk \in DiskType /\ ResetTold /\ dev.next = 0 /\ ~dev.logging
      /\ ~link.cccd => inbox = <<>>  BY ResetFacts
<1>2. DeviceTook(eff)  BY <1>1, DeviceTakesStep DEF Writes
<1>3. dev.wiped => dev'.wiped  BY <1>2 DEF DeviceTook
<1>4. dev'.held \in {dev.held, NoResult} \/ (eff = "WriteOpcode" /\ ~dev.wiped /\ dev'.wiped /\ dev'.held = Count)
  <2>1. CASE eff = "WriteOpcode"  BY <1>1, <2>1 DEF DeviceTakes, DevType
  <2>2. CASE eff # "WriteOpcode"  BY <1>2, <2>2 DEF DeviceTook
  <2> QED  BY <2>1, <2>2
<1>5. dev'.held = Count => dev'.wiped  BY <1>1, <1>3, <1>4, NativeConstants DEF ResetTold
<1>6. Acked => Acked'  BY <1>3, <1>4 DEF Acked
<1>7. \/ inbox' = inbox
      \/ link.cccd /\ \E v \in Results2 : (v = Count => dev'.wiped) /\ inbox' = Append(inbox, v)
  <2>1. CASE eff = "WriteOpcode"
    <3>1. NoResult \in Results2 /\ Count \in Results2 /\ NoResult # Count  BY NativeConstants DEF Results2
    <3>2. \/ Notifies(Count) /\ dev'.wiped
          \/ Notifies(NoResult)
      BY <1>1, <2>1 DEF DeviceTakes, DevType
    <3> QED  BY <3>1, <3>2 DEF Notifies
  <2>2. CASE eff # "WriteOpcode"  BY <1>2, <2>2 DEF DeviceTook
  <2> QED  BY <2>1, <2>2
<1>8. ResetTold'
  <2>1. CASE inbox' = inbox  BY <1>1, <1>3, <1>5, <2>1 DEF ResetTold
  <2>2. CASE \E v \in Results2 : (v = Count => dev'.wiped) /\ inbox' = Append(inbox, v)
    BY <1>1, <1>3, <1>5, <2>2, ResetAppend
  <2> QED  BY <1>7, <2>1, <2>2
<1>9. dev'.next = 0 /\ ~dev'.logging  BY <1>1, <1>2 DEF DeviceTook
<1>10. eff = "WriteReceipt" /\ dev.wiped => Acked'  BY <1>2 DEF DeviceTook, Acked
<1> QED  BY <1>1, <1>3, <1>6, <1>7, <1>8, <1>9, <1>10 DEF ResetWorld, Saved

\* The grant, the opcode and the receipt of a reset are written.
LEMMA ResetWrite ==
  ASSUME ResetState, NEW r \in host.run, Write(r)
  PROVE  ResetDone(r.eff)
<1>1. /\ r.eff \in {"WriteGrant", "WriteOpcode", "WriteReceipt"} /\ link \in LinkType /\ OpcodeAhead
      /\ ResetHost(host, Saved, Kept(host), dev.wiped, Acked) /\ disk \in DiskType
  BY ResetFacts DEF Write, Writes, ResetEffs, ResetEffects
<1>2. UNCHANGED <<disk, sink, told>> /\ link'.cccd = link.cccd /\ ~link'.ahead
  BY <1>1 DEF Write, Radio, LinkType
<1>3. UNCHANGED <<dev, inbox>> => ResetWorld  BY <1>1, <1>2, ResetSame DEF Saved
<1>4. DeviceTakes(r.eff) => ResetWorld /\ (r.eff = "WriteReceipt" /\ dev.wiped => Acked')
  BY <1>1, <1>2, ResetDevice
<1>5. ResetWorld  BY <1>3, <1>4 DEF Write
<1>6. ResetThere(host)  BY <1>5, ResetHolds
<1>7. CASE host' = SettleFailed(host, r, "Failed")
  <2>1. ResetThere(host') /\ Gone(host', host, r.eff)  BY <1>6, <1>7, ResetFails DEF ResetThere
  <2> QED  BY <1>2, <1>5, <2>1 DEF ResetDone
<1>8. CASE /\ link.up /\ (IF link.ahead THEN UNCHANGED <<dev, inbox>> ELSE DeviceTakes(r.eff))
           /\ host' = Settle(host, r, "WriteCompleted", 0)
  <2> DEFINE e == Event(Source(r.eff), "WriteCompleted", 0)
  <2>1. r.mode = "live" => ResetTrue(e, Later, dev'.wiped, Acked')
    <3> SUFFICES ASSUME r.mode = "live", r.eff = "WriteReceipt"
                 PROVE  Acked'
      BY <1>1 DEF ResetTrue, Event, Source, Results
    <3>1. ~Has(host, "WriteOpcode") /\ dev.wiped  BY <1>1, ResetRuns
    <3>2. ~link.ahead  BY <1>1, <3>1 DEF OpcodeAhead, Has
    <3> QED  BY <1>4, <1>8, <3>1, <3>2
  <2>2. ResetThere(host') /\ Gone(host', host, r.eff)  BY <1>6, <1>8, <2>1, ResetSettles DEF ResetThere
  <2> QED  BY <1>2, <1>5, <2>2 DEF ResetDone
<1> QED  BY <1>7, <1>8 DEF Write

\* A host that is left alone.
LEMMA ResetStays ==
  ASSUME ResetState, AmbientType', ResetWorld, UNCHANGED <<host, told>>,
         link'.ahead => link.ahead \/ \E r \in host.run : r.eff = "WriteOpcode" /\ r.mode # "clean",
         host.st = "idle" /\ link'.cccd => link.cccd
  PROVE  ResetState'
<1>1. Kept(host)' = Later  BY DEF Kept, Later
<1>2. ResetHost(host', Saved', Kept(host)', dev'.wiped, Acked')  BY <1>1, ResetHolds DEF ResetThere
<1>3. OpcodeAhead'  BY DEF OpcodeAhead, ResetState, ResetFamily
<1>4. ResetFamily'  BY <1>2, <1>3 DEF ResetFamily, ResetState, ResetWorld
<1>5. Ambient' /\ NoStream'  BY DEF Ambient, NoStream, ResetState, ResetWorld
<1> QED  BY <1>4, <1>5 DEF ResetState

\* The nonce and the result of a reset are read.
LEMMA ResetRead ==
  ASSUME ResetState, NEW r \in host.run, Read(r)
  PROVE  ResetDone(r.eff)
<1>1. /\ r.eff = "ReadNonce" /\ UNCHANGED <<sink, disk, inbox, dev, told, link>> /\ disk \in DiskType
  BY ResetFacts DEF Read, Reads, ResetEffs, ResetEffects, Radio
<1>2. ResetWorld  BY <1>1, ResetSame DEF Saved
<1>3. ResetThere(host)  BY <1>2, ResetHolds
<1>6. ResetThere(host') /\ Gone(host', host, r.eff)
  <2>1. host' = SettleFailed(host, r, "Failed") \/ \E val : host' = Settle(host, r, "ReadCompleted", val)
    BY DEF Read
  <2>2. CASE host' = SettleFailed(host, r, "Failed")  BY <1>3, <2>2, ResetFails DEF ResetThere
  <2>3. CASE \E val : host' = Settle(host, r, "ReadCompleted", val)
    <3>1. PICK val : host' = Settle(host, r, "ReadCompleted", val)  BY <2>3
    <3>2. ResetTrue(Event(Source(r.eff), "ReadCompleted", val), Later, dev'.wiped, Acked')
      BY DEF ResetTrue, Event
    <3> QED  BY <1>3, <3>1, <3>2, ResetSettles DEF ResetThere
  <2> QED  BY <2>1, <2>2, <2>3
<1> QED  BY <1>1, <1>2, <1>6 DEF ResetDone

\* The subscription of a reset answers, late or not.
LEMMA ResetSubscribe ==
  ASSUME ResetState, AmbientType', NEW r \in host.run, Subscribe(r)
  PROVE  ResetState'
<1>1. /\ r.eff = "Subscribe" /\ UNCHANGED <<sink, disk, dev, told>> /\ disk \in DiskType /\ link \in LinkType
      /\ host.run # {} /\ host.st \in {"running", "ending"} /\ ResetTold /\ dev \in DevType
      /\ dev.next = 0 /\ ~dev.logging  BY ResetFacts DEF Subscribe, Radio
<1>2. CASE /\ link.up /\ ~link.cccd
           /\ link' = [link EXCEPT !.cccd = TRUE]
           /\ inbox' = IF dev.held = NoResult THEN inbox ELSE Append(inbox, dev.held)
           /\ UNCHANGED <<host, used>>
  <2>1. link'.cccd /\ link'.ahead = link.ahead  BY <1>1, <1>2 DEF LinkType
  <2>2. ResetTold'
    <3>1. CASE dev.held = NoResult  BY <1>1, <1>2, <3>1 DEF ResetTold
    <3>2. CASE dev.held # NoResult
      <4>1. dev.held \in Results2 /\ (dev.held = Count => dev'.wiped)  BY <1>1 DEF DevType, ResetTold
      <4> QED  BY <1>1, <1>2, <3>2, <4>1, ResetAppend
    <3> QED  BY <3>1, <3>2
  <2>3. ResetWorld  BY <1>1, <2>1, <2>2 DEF ResetWorld, Acked, Saved
  <2> QED  BY <1>1, <1>2, <2>1, <2>3, ResetStays
<1>3. CASE /\ link.cccd /\ UNCHANGED <<link, inbox, used>>
           /\ host' = Settle(IF r.mode = "live" THEN [host EXCEPT !.sub = "on"] ELSE host, r, "Subscribed", 0)
  <2>1. ResetWorld  BY <1>1, <1>3, ResetSame DEF Saved
  <2>2. ResetThere(host)  BY <2>1, ResetHolds
  <2> DEFINE h == IF r.mode = "live" THEN Opened(host) ELSE host
  <2>3. ResetThere(h) /\ h.run = host.run /\ h.ask = host.ask /\ h.cmd = host.cmd
    <3>1. CASE r.mode # "live"  BY <2>2, <3>1
    <3>2. CASE r.mode = "live"
      <4> DEFINE s == Opened(host)
      <4>1. HostShape(host, "reset")  BY ResetFacts
      <4>2. /\ HostShape(s, "reset") /\ s.run = host.run /\ s.st = host.st /\ s.wf = host.wf
            /\ s.outcome = host.outcome /\ h = s /\ s.ask = host.ask /\ s.cmd = host.cmd
        BY <3>2, <4>1, OpenedShape
      <4> HIDE DEF s, h
      <4>3. ResetThere(s)  BY <2>2, <4>2 DEF ResetThere, ResetHost, ResetInv, ResetRunning, ResetEnding, Has
      <4> QED  BY <4>2, <4>3
    <3> QED  BY <3>1, <3>2
  <2>4. host' = Settle(h, r, "Subscribed", 0)  BY <1>3 DEF Opened
  <2> HIDE DEF h
  <2>5. ResetTrue(Event(Source(r.eff), "Subscribed", 0), Later, dev'.wiped, Acked') /\ r \in h.run
    BY <2>3 DEF ResetTrue, Event
  <2>6. ResetThere(host') /\ Gone(host', h, r.eff)  BY <2>3, <2>4, <2>5, ResetSettles DEF ResetThere
  <2>7. Gone(host', host, r.eff)  BY <2>3, <2>6 DEF Gone
  <2>8. ResetDone(r.eff)  BY <1>1, <1>3, <2>1, <2>6, <2>7 DEF ResetDone
  <2> QED  BY <2>8, ResetKeeps
<1>4. CASE /\ MayFail(TRUE) /\ link' = [link EXCEPT !.cccd = FALSE] /\ inbox' = <<>>
           /\ host' = SettleFailed(host, r, "Failed")
  <2>1. ~link'.cccd /\ link'.ahead = link.ahead  BY <1>1, <1>4 DEF LinkType
  <2>2. ResetTold'  BY <1>1, <1>4 DEF ResetTold
  <2>3. ResetWorld  BY <1>1, <1>4, <2>2 DEF ResetWorld, Acked, Saved
  <2>4. ResetThere(host)  BY <2>3, ResetHolds
  <2>5. ResetThere(host') /\ Gone(host', host, r.eff)  BY <1>4, <2>4, ResetFails DEF ResetThere
  <2>6. ResetDone(r.eff)  BY <1>1, <2>1, <2>3, <2>5 DEF ResetDone
  <2> QED  BY <2>6, ResetKeeps
<1> QED  BY <1>2, <1>3, <1>4 DEF Subscribe

\* The subscription of a reset is removed, or its removal fails.
LEMMA ResetUnsubscribe ==
  ASSUME ResetState, NEW r \in host.run, Unsubscribe(r)
  PROVE  ResetDone(r.eff)
<1>1. /\ r.eff = "Unsubscribe" /\ UNCHANGED <<sink, disk, dev, told>> /\ disk \in DiskType /\ link \in LinkType
      /\ ResetTold /\ dev.next = 0 /\ ~dev.logging /\ host' = Without(host, r) /\ inbox' = <<>>
  BY ResetFacts DEF Unsubscribe, Radio, Done, Without
<1>2. link'.ahead = link.ahead  BY <1>1 DEF Unsubscribe, LinkType
<1>3. ResetTold'  BY <1>1 DEF ResetTold
<1>4. ResetWorld  BY <1>1, <1>3 DEF ResetWorld, Acked, Saved
<1>5. ResetThere(host') /\ Gone(host', host, r.eff)  BY <1>1, <1>4, ResetHolds, ResetWithout DEF ResetThere
<1> QED  BY <1>1, <1>2, <1>4, <1>5 DEF ResetDone

\* The effects on files that are not the result, and the grant.
LEMMA ResetSave ==
  ASSUME ResetState, NEW r \in host.run, Save(r) \/ DeleteCheckpoint(r) \/ PrepareGrant(r)
  PROVE  ResetDone(r.eff)
<1>1. /\ UNCHANGED <<sink, disk, inbox, dev, told, link>> /\ disk \in DiskType
      /\ r.eff \in Saves \cup {"PrepareGrant"} /\ r.eff # "SaveResult"
  BY ResetFacts DEF Save, DeleteCheckpoint, PrepareGrant, Files, Saves
<1>2. ResetWorld  BY <1>1, ResetSame DEF Saved
<1>3. ResetThere(host)  BY <1>2, ResetHolds
<1>4. \/ host' = Without(host, r)
      \/ \E type \in {"Failed", "PersistenceFailed", "MaterialFailed"} : host' = SettleFailed(host, r, type)
      \/ \E type : type \notin {"ResultSaved", "Notification", "WriteCompleted"} /\ host' = Settle(host, r, type, 0)
  <2>1. CASE Save(r)  BY <2>1 DEF Save, SavedAs
  <2>2. CASE DeleteCheckpoint(r)  BY <2>2 DEF DeleteCheckpoint, Done, Without
  <2>3. CASE PrepareGrant(r)  BY <2>3 DEF PrepareGrant
  <2> QED  BY <2>1, <2>2, <2>3
<1>5. ResetThere(host') /\ Gone(host', host, r.eff)
  <2>1. CASE host' = Without(host, r)  BY <1>3, <2>1, ResetWithout DEF ResetThere
  <2>2. CASE \E type \in {"Failed", "PersistenceFailed", "MaterialFailed"} : host' = SettleFailed(host, r, type)
    BY <1>3, <2>2, ResetFails DEF ResetThere
  <2>3. CASE \E type : /\ type \notin {"ResultSaved", "Notification", "WriteCompleted"}
                       /\ host' = Settle(host, r, type, 0)
    <3>1. PICK type : /\ type \notin {"ResultSaved", "Notification", "WriteCompleted"}
                      /\ host' = Settle(host, r, type, 0)
      BY <2>3
    <3>2. ResetTrue(Event(Source(r.eff), type, 0), Later, dev'.wiped, Acked')  BY <3>1 DEF ResetTrue, Event
    <3> QED  BY <1>3, <3>1, <3>2, ResetSettles DEF ResetThere
  <2> QED  BY <1>4, <2>1, <2>2, <2>3
<1>6. r.eff # "WriteOpcode"  BY <1>1 DEF Saves
<1> QED  BY <1>1, <1>2, <1>5, <1>6 DEF ResetDone

\* The next step of a result that is being saved.
LEMMA ResetContinues ==
  ASSUME NEW h, NEW saved, NEW kept, NEW wiped, NEW acked, ResetHost(h, saved, kept, wiped, acked),
         NEW r \in h.run, r.mode = "live", r.eff \in Results,
         NEW eff \in {"SaveJournal", "AskApp"}, eff = "AskApp" => saved
  PROVE  LET g == [h EXCEPT !.run = (@ \ {r}) \cup {[eff |-> eff, mode |-> "live"]}]
         IN ResetHost(g, saved, kept, wiped, acked) /\ Gone(g, h, r.eff)
<1> DEFINE n == [eff |-> eff, mode |-> "live"]
           run == (h.run \ {r}) \cup {n}
           g == [h EXCEPT !.run = run]
<1>1. /\ h \in HostType /\ h.run \subseteq Submitted /\ h.st = "running" /\ HostShape(h, "reset")
      /\ ResetRunning(h, saved)  BY ResetRuns DEF ResetHost, ResetInv
<1>2. n \in Submitted /\ n.eff = eff /\ n.mode = "live" /\ eff \in Results
  BY DEF Submitted, HostEffects, Results
<1>3. run \in SUBSET Submitted /\ \A q \in run : q = n \/ (q \in h.run /\ q # r)  BY <1>1, <1>2
<1>4. \A q \in h.run : q # r => q \in run  OBVIOUS
<1>5. g = [h EXCEPT !.run = (@ \ {r}) \cup {[eff |-> eff, mode |-> "live"]}]  BY <1>1 DEF HostType
<1> HIDE DEF n, run
<1>6. /\ g \in HostType /\ g.st = "running" /\ g.wf = h.wf /\ g.ask = h.ask /\ g.cmd = h.cmd
      /\ g.outcome = h.outcome /\ g.dirty = h.dirty /\ g.run = run  BY <1>1, <1>3 DEF HostType
<1> HIDE DEF g
<1>7. HostShape(g, "reset")  BY <1>1, <1>2, <1>3, <1>6 DEF HostShape
<1>8. ResetLive(h.wf, eff)
  <2>1. ResetLive(h.wf, r.eff)  BY <1>1 DEF ResetRunning
  <2>2. h.wf.phase = "PersistingResult" /\ "SaveResult" \in h.wf.waits
    BY <2>1 DEF ResetLive, ResetWork, Results
  <2> QED  BY <1>2, <2>2 DEF ResetLive
<1>9. \A q, p \in run : q.eff \in Results /\ p.eff \in Results => q = p
  <2>1. \A q \in h.run : q.eff \in Results => q = r  BY <1>1 DEF ResetRunning
  <2> QED  BY <1>3, <2>1
<1>10. Has(g, "AskApp") => saved  BY <1>1, <1>2, <1>3, <1>6 DEF Has, ResetRunning
<1>11. ResetRunning(g, saved)  BY <1>1, <1>2, <1>3, <1>6, <1>8, <1>9, <1>10 DEF ResetRunning
<1>12. ResetInv(g, saved, kept, wiped, acked)
  <2>1. ResetInv(h, saved, kept, wiped, acked) /\ g.st # "ending"  BY <1>1, <1>6 DEF ResetHost
  <2> QED  BY <1>6, <1>11, <2>1 DEF ResetInv
<1>13. Gone(g, h, r.eff)  BY <1>4, <1>6 DEF Gone
<1> QED  BY <1>5, <1>7, <1>12, <1>13 DEF ResetHost

\* beforeFactoryResetReceipt: the file of the result, or the owner of the journal refuses it.
LEMMA ResetSaveResult ==
  ASSUME ResetState, NEW r \in host.run, SaveResult(r)
  PROVE  ResetDone(r.eff)
<1>1. /\ UNCHANGED <<sink, disk, inbox, dev, told, link>> /\ disk \in DiskType
      /\ r.eff = "SaveResult"  BY ResetFacts DEF SaveResult, Files
<1>2. ResetWorld  BY <1>1, ResetSame DEF Saved
<1>3. ResetThere(host)  BY <1>2, ResetHolds
<1>4. ResetThere(host') /\ Gone(host', host, r.eff)
  <2>1. CASE host' = Without(host, r)  BY <1>3, <2>1, ResetWithout DEF ResetThere
  <2>2. CASE r.mode = "live" /\ host' = CancelOperation(Without(host, r), "failed")
    <3> DEFINE s == Without(host, r)
    <3>1. ResetThere(s) /\ Gone(s, host, r.eff) /\ s.st \in {"running", "ending"}
      BY <1>3, ResetWithout DEF ResetThere, Gone
    <3>2. host' = CancelOperation(s, "failed")  BY <2>2
    <3> HIDE DEF s
    <3>3. ResetThere(host') /\ Keeping(host', s)  BY <3>1, <3>2, ResetCancelled DEF ResetThere
    <3>4. Gone(host', host, r.eff)  BY <3>1, <3>3 DEF Gone, Keeping
    <3> QED  BY <3>3, <3>4
  <2>3. CASE r.mode = "live" /\ Continues(r, "SaveJournal")
    <3>1. r.eff \in Results /\ "SaveJournal" \in {"SaveJournal", "AskApp"}  BY <1>1 DEF Results
    <3> QED  BY <1>3, <2>3, <3>1, ResetContinues DEF ResetThere, Continues
  <2>4. CASE host' = SettleFailed(host, r, "PersistenceFailed")  BY <1>3, <2>4, ResetFails DEF ResetThere
  <2> QED  BY <2>1, <2>2, <2>3, <2>4 DEF SaveResult, Done, Without
<1> QED  BY <1>1, <1>2, <1>4 DEF ResetDone

\* The journal of the owner has the result.
LEMMA ResetSaveJournal ==
  ASSUME ResetState, NEW r \in host.run, SaveJournal(r)
  PROVE  ResetDone(r.eff)
<1>1. /\ UNCHANGED <<sink, inbox, dev, told, link>> /\ disk \in DiskType
      /\ r.eff = "SaveJournal" /\ r.eff \in Results /\ host \in HostType
  BY ResetFacts DEF SaveJournal, Files, Results
<1>2. host.wf.result = Count /\ r.mode # "clean"  BY <1>1, ResetFacts, ResetRuns
<1>3. CASE disk' = [disk EXCEPT !.journal = <<host.cmd, host.wf.result>>]
  <2>1. <<host.cmd, Count>> \in Owners \X {Count} /\ <<host.cmd, Count>> # NoJournal
    BY <1>1 DEF HostType, NoJournal
  <2>2. disk' \in DiskType /\ Saved' /\ disk'.app = disk.app  BY <1>1, <1>2, <1>3, <2>1 DEF DiskType, Saved
  <2>3. ResetWorld  BY <1>1, <2>2, ResetSame
  <2>4. ResetThere(host)  BY <2>3, ResetHolds
  <2>5. ResetThere(host') /\ Gone(host', host, r.eff)
    <3>1. CASE r.mode = "stale" /\ host' = Without(host, r)  BY <2>4, <3>1, ResetWithout DEF ResetThere
    <3>2. CASE r.mode = "live" /\ Continues(r, "AskApp")
      <4>1. "AskApp" \in {"SaveJournal", "AskApp"}  OBVIOUS
      <4> QED  BY <1>1, <2>2, <2>4, <3>2, <4>1, ResetContinues DEF ResetThere, Continues
    <3>3. CASE ~host.ask /\ host' = Settle(host, r, "ResultSaved", 0)
      <4>1. ResetTrue(Event(Source(r.eff), "ResultSaved", 0), Later, dev'.wiped, Acked')
        BY <2>2, <3>3 DEF ResetTrue, Event, Later
      <4> QED  BY <2>4, <3>3, <4>1, ResetSettles DEF ResetThere
    <3>4. CASE host' = SettleFailed(host, r, "PersistenceFailed")  BY <2>4, <3>4, ResetFails DEF ResetThere
    <3>5. r.mode \in {"live", "stale"}  BY <1>2, ResetFacts DEF Submitted
    <3> QED  BY <3>1, <3>2, <3>3, <3>4, <3>5 DEF SaveJournal, Done, Without
  <2> QED  BY <1>1, <2>3, <2>5 DEF ResetDone
<1>4. CASE UNCHANGED disk /\ (host' = Without(host, r) \/ host' = SettleFailed(host, r, "PersistenceFailed"))
  <2>1. ResetWorld  BY <1>1, <1>4, ResetSame DEF Saved
  <2>2. ResetThere(host)  BY <2>1, ResetHolds
  <2>3. ResetThere(host') /\ Gone(host', host, r.eff)
    BY <1>4, <2>2, ResetWithout, ResetFails DEF ResetThere
  <2> QED  BY <1>1, <2>1, <2>3 DEF ResetDone
<1> QED  BY <1>3, <1>4 DEF SaveJournal, Done, Without

\* The application keeps the result, or refuses it.
LEMMA ResetAskApp ==
  ASSUME ResetState, NEW r \in host.run, AskApp(r)
  PROVE  ResetDone(r.eff)
<1>1. /\ UNCHANGED <<sink, inbox, dev, told, link>> /\ disk \in DiskType
      /\ r.eff = "AskApp" /\ r.eff \in Results  BY ResetFacts DEF AskApp, Files, Results
<1>2. host.wf.result = Count /\ (r.mode = "live" => Saved)  BY <1>1, ResetFacts, ResetRuns
<1>3. disk' = [disk EXCEPT !.app = Count] \/ disk' = disk  BY <1>2 DEF AskApp
<1>4. /\ disk' \in DiskType /\ (Saved => Saved') /\ (disk.app = Count => disk'.app = Count)
      /\ disk' = [disk EXCEPT !.app = Count] => disk'.app = Count
  <2>1. Count \in Results2  BY DEF Results2
  <2> QED  BY <1>1, <1>3, <2>1 DEF DiskType, Saved
<1>5. ResetWorld  BY <1>1, <1>4, ResetSame
<1>6. ResetThere(host)  BY <1>5, ResetHolds
<1>7. ResetThere(host') /\ Gone(host', host, r.eff)
  <2>1. CASE disk' = [disk EXCEPT !.app = Count] /\ host' = Settle(host, r, "ResultSaved", 0)
    <3>1. r.mode = "live" => ResetTrue(Event(Source(r.eff), "ResultSaved", 0), Later, dev'.wiped, Acked')
      BY <1>2, <1>4, <2>1 DEF ResetTrue, Event, Later
    <3> QED  BY <1>6, <2>1, <3>1, ResetSettles DEF ResetThere
  <2>2. CASE host' = Without(host, r)  BY <1>6, <2>2, ResetWithout DEF ResetThere
  <2>3. CASE host' = CancelOperation(Without(host, r), "failed")
    <3> DEFINE s == Without(host, r)
    <3>1. ResetThere(s) /\ Gone(s, host, r.eff) /\ s.st \in {"running", "ending"}
      BY <1>6, ResetWithout DEF ResetThere, Gone
    <3>2. host' = CancelOperation(s, "failed")  BY <2>3
    <3> HIDE DEF s
    <3>3. ResetThere(host') /\ Keeping(host', s)  BY <3>1, <3>2, ResetCancelled DEF ResetThere
    <3>4. Gone(host', host, r.eff)  BY <3>1, <3>3 DEF Gone, Keeping
    <3> QED  BY <3>3, <3>4
  <2> QED  BY <1>2, <2>1, <2>2, <2>3 DEF AskApp, Done, Without
<1> QED  BY <1>1, <1>5, <1>7 DEF ResetDone

\* Every effect of a reset keeps its invariant.
LEMMA ResetEffect ==
  ASSUME ResetState, AmbientType', Effect
  PROVE  ResetState'
<1>1. PICK r \in host.run :
        \/ Write(r) \/ Read(r) \/ Subscribe(r) \/ Unsubscribe(r) \/ Scan(r)
        \/ Save(r) \/ DeleteCheckpoint(r) \/ SaveResult(r) \/ SaveJournal(r) \/ AskApp(r)
        \/ PrepareGrant(r) \/ SinkBegins(r) \/ Discard(r)  BY DEF Effect
<1>2. r.eff \in ResetEffs  BY ResetFacts
<1>3. ~Scan(r) /\ ~SinkBegins(r) /\ ~Discard(r)
  BY <1>2 DEF Scan, SinkBegins, SinkWork, Discard, ResetEffs, ResetEffects
<1>4. CASE Write(r)  BY <1>4, ResetWrite, ResetKeeps
<1>5. CASE Read(r)  BY <1>5, ResetRead, ResetKeeps
<1>6. CASE Subscribe(r)  BY <1>6, ResetSubscribe
<1>7. CASE Unsubscribe(r)  BY <1>7, ResetUnsubscribe, ResetKeeps
<1>8. CASE Save(r) \/ DeleteCheckpoint(r) \/ PrepareGrant(r)  BY <1>8, ResetSave, ResetKeeps
<1>9. CASE SaveResult(r)  BY <1>9, ResetSaveResult, ResetKeeps
<1>10. CASE SaveJournal(r)  BY <1>10, ResetSaveJournal, ResetKeeps
<1>11. CASE AskApp(r)  BY <1>11, ResetAskApp, ResetKeeps
<1> QED  BY <1>1, <1>3, <1>4, <1>5, <1>6, <1>7, <1>8, <1>9, <1>10, <1>11

\* The host moved, and the world with it.
LEMMA ResetMoves ==
  ASSUME ResetState, AmbientType', ResetWorld, UNCHANGED told, ResetThere(host'), Keeping(host', host),
         link'.ahead => link.ahead
  PROVE  ResetState'
<1>1. Gone(host', host, "none")  BY DEF Gone, Keeping
<1>2. ResetDone("none")  BY <1>1 DEF ResetDone
<1> QED  BY <1>2, ResetKeeps

\* The result may come before the callback of the opcode.
LEMMA ResetAhead ==
  ASSUME ResetState, AmbientType', Ahead
  PROVE  ResetState'
<1>1. PICK r \in host.run : WriteExecutes(r)  BY DEF Ahead
<1>2. /\ UNCHANGED <<host, sink, disk, told>> /\ r.eff = "WriteOpcode" /\ r.mode # "clean"
      /\ DeviceTakes("WriteOpcode") /\ link'.cccd = link.cccd
  <2>1. r.eff \in ResetEffs /\ (r.mode = "clean" => r.eff \in {"Unsubscribe", "DeleteCheckpoint"})
        /\ link \in LinkType  BY ResetFacts, ResetRuns
  <2>2. r.eff = "WriteOpcode"  BY <1>1, <2>1 DEF WriteExecutes, ResetEffs, ResetEffects
  <2> QED  BY <1>1, <2>1, <2>2 DEF WriteExecutes, Radio, LinkType
<1>3. ResetWorld
  <2>1. "WriteOpcode" \in {"WriteGrant", "WriteOpcode", "WriteReceipt"}  OBVIOUS
  <2> QED  BY <1>2, <2>1, ResetDevice
<1> QED  BY <1>2, <1>3, ResetStays

\* A reset, or the resumption of one, begins.
LEMMA ResetBegins ==
  ASSUME ResetState, AmbientType', NEW mode \in {"start", "resume"}, NEW expected \in Results2,
         NEW ask \in BOOLEAN, NEW cmd \in Owners, host.st = "idle",
         host' = Begin([Idle EXCEPT !.ask = ask, !.cmd = cmd], ResetStart(mode, expected)),
         told' = "none", UNCHANGED <<disk, link, inbox, dev, sink>>
  PROVE  ResetState'
<1> DEFINE h == [Idle EXCEPT !.ask = ask, !.cmd = cmd]
           r == ResetStart(mode, expected)
           w == r.wf
           first == IF mode = "start" THEN "ReadNonce" ELSE "Subscribe"
<1>1. /\ h \in HostType /\ h.run = {} /\ h.outcome = "none" /\ h.dirty = FALSE /\ h.sub = "off"
  <2> HIDE DEF Idle
  <2> QED  BY IdleShape DEF HostType
<1>2. /\ w = [ kind |-> "reset", mode |-> mode, expected |-> expected, result |-> NoResult,
               settling |-> FALSE, waits |-> {"ResetTimer", "SaveStart", first},
               phase |-> IF mode = "start" THEN "ReadingNonce" ELSE "Subscribing" ]
      /\ r.out = {"ResetTimer", "SaveStart", first}  BY DEF ResetStart
<1>3. /\ w \in ResetWf /\ w.kind = "reset" /\ w.result = NoResult /\ w.settling = FALSE
      /\ w.waits = {"ResetTimer", "SaveStart", first}
      /\ w.phase = IF mode = "start" THEN "ReadingNonce" ELSE "Subscribing"
  <2>1. {"ResetTimer", "SaveStart", first} \in SUBSET ResetEffects /\ NoResult \in Results2
        /\ {"ReadingNonce", "Subscribing"} \subseteq ResetPhases /\ FALSE \in BOOLEAN
    BY DEF ResetEffects, Results2, ResetPhases
  <2> QED  BY <1>2, <2>1 DEF ResetWf
<1>0. h = [Idle EXCEPT !.ask = ask, !.cmd = cmd] /\ r = ResetStart(mode, expected)
      /\ first = IF mode = "start" THEN "ReadNonce" ELSE "Subscribe"  OBVIOUS
<1> HIDE DEF h, w, first
<1>4. w \in Workflow /\ ~Terminal(w)  BY <1>3 DEF Workflow, Terminal
<1>5. /\ HostShape(host', "reset") /\ host'.st = "running" /\ host'.wf = w /\ host'.outcome = "none"
      /\ \A q \in host'.run : q.eff \in {"ResetTimer", "SaveStart", first}
  <2>1. host' = Begin(h, r)  BY <1>0
  <2> HIDE DEF r
  <2>2. /\ HostShape(Begin(h, r), "reset") /\ Begin(h, r).st = "running" /\ Begin(h, r).wf = r.wf
        /\ Begin(h, r).outcome = "none" /\ \A q \in Begin(h, r).run : q.eff \in r.out
    BY ZenonT(60), <1>1, <1>3, <1>4, BeginShape DEF w
  <2> QED  BY <1>2, <2>1, <2>2 DEF w
<1>6. \A q \in host'.run : q.eff \in {"SaveStart", first}
  <2>1. host'.run \subseteq Submitted  BY <1>5 DEF HostShape, HostType
  <2>2. "ResetTimer" \notin HostEffects  BY DEF HostEffects, Writes, Reads, Saves, Results, SinkWork
  <2> QED  BY <1>5, <2>1, <2>2 DEF Submitted
<1>7. ResetRunning(host', Saved')
  <2>1. ResetWork(w) = {first}  BY <1>0, <1>3 DEF ResetWork
  <2>2. first \notin {"SaveResult", "SaveJournal", "AskApp"}  BY <1>0
  <2>3. \A q \in host'.run : ResetLive(w, q.eff) /\ q.eff \notin Results
    BY <1>6, <2>1, <2>2 DEF ResetLive, Results
  <2>4. ResetWaits(w)  BY <1>3, <2>1 DEF ResetWaits
  <2>5. w.phase \in {"ReadingNonce", "Subscribing"}  BY <1>3
  <2> QED  BY <1>3, <1>5, <2>3, <2>4, <2>5 DEF ResetRunning, Has, Results
<1>8. ResetInv(host', Saved', Kept(host)', dev'.wiped, Acked')
  <2>1. w.phase \in {"ReadingNonce", "Subscribing"} /\ w.result # Count  BY <1>3, NativeConstants
  <2> QED  BY <1>3, <1>5, <1>7, <2>1 DEF ResetInv
<1>9. ~link.ahead
  <2>1. host.run = {} /\ OpcodeAhead  BY ResetFacts
  <2> QED  BY <2>1 DEF OpcodeAhead
<1>10. ResetFamily'  BY <1>5, <1>8, <1>9 DEF ResetFamily, ResetState, ResetHost, ResetTold, OpcodeAhead
<1>11. Ambient' /\ NoStream'  BY <1>5 DEF Ambient, NoStream, ResetState
<1> QED  BY <1>10, <1>11 DEF ResetState

\* A reset, or its resumption from the journal, starts clean.
LEMMA ResetStarts ==
  ASSUME ResetState, used.family = "reset", AmbientType', StartOperation
  PROVE  ResetState'
<1>1. NoResult \in Results2 /\ Count \in Results2  BY DEF Results2
<1>2. CASE \E cmd \in Commands, ask \in BOOLEAN : FactoryReset(cmd, ask)
  <2>1. PICK cmd \in Commands, ask \in BOOLEAN : FactoryReset(cmd, ask)  BY <1>2
  <2>2. cmd \in Owners /\ "start" \in {"start", "resume"}  BY DEF Owners
  <2> QED  BY <1>1, <2>1, <2>2, ResetBegins DEF FactoryReset, StartOp
<1>3. CASE \E ask \in BOOLEAN : ResumeFactoryReset(ask)
  <2>1. PICK ask \in BOOLEAN : ResumeFactoryReset(ask)  BY <1>3
  <2> DEFINE cmd == IF disk.journal = NoJournal THEN "rn-resume" ELSE disk.journal[1]
             expected == IF disk.journal = NoJournal THEN NoResult ELSE disk.journal[2]
  <2>2. cmd \in Owners /\ expected \in Results2 /\ "resume" \in {"start", "resume"}
    <3>1. CASE disk.journal = NoJournal  BY <1>1, <3>1 DEF Owners
    <3>2. CASE disk.journal # NoJournal
      <4>1. disk.journal \in Owners \X {Count}  BY <3>2, ResetFacts DEF DiskType
      <4> QED  BY <1>1, <3>2, <4>1
    <3> QED  BY <3>1, <3>2
  <2>3. /\ host' = Begin([Idle EXCEPT !.ask = ask, !.cmd = cmd], ResetStart("resume", expected))
        /\ host.st = "idle" /\ told' = "none" /\ UNCHANGED <<disk, link, inbox, dev, sink>>
    BY <2>1 DEF ResumeFactoryReset, StartOp
  <2> HIDE DEF cmd, expected
  <2> QED  BY <2>2, <2>3, ResetBegins
<1> QED  BY <1>2, <1>3 DEF StartOperation, StartStreaming, ObserveUploadOwnership, ReadDeviceLogs, StartScan

\* The application cancels a reset: what is durable stays so.
LEMMA ResetCancels ==
  ASSUME ResetState, AmbientType', AppCancels
  PROVE  ResetState'
<1>1. host.st \in {"running", "ending"} /\ HostShape(host, "reset") /\ UNCHANGED <<sink, disk, link, inbox, dev, told>>
      /\ disk \in DiskType  BY ResetFacts DEF AppCancels
<1>2. host.wf.kind = "reset"  BY <1>1 DEF HostShape
<1>3. host' = CancelOperation(host, "cancelled")  BY <1>2 DEF AppCancels, OnApple
<1>4. ResetWorld  BY <1>1, ResetSame DEF Saved
<1>5. ResetThere(host') /\ Keeping(host', host)
  BY <1>1, <1>3, <1>4, ResetHolds, ResetCancelled DEF ResetThere
<1> QED  BY <1>1, <1>4, <1>5, ResetMoves

\* A timer, the loss of the link, a notification.
LEMMA ResetHears ==
  ASSUME ResetState, AmbientType', TimerElapses \/ HearDrop \/ Deliver
  PROVE  ResetState'
<1>1. /\ HostShape(host, "reset") /\ link \in LinkType /\ disk \in DiskType /\ ResetTold
      /\ dev.next = 0 /\ ~dev.logging /\ (~link.cccd => inbox = <<>>)
      /\ \A r \in host.run : r.eff \in ResetEffs  BY ResetFacts
<1>2. /\ UNCHANGED <<sink, disk, dev, told>> /\ link'.cccd = link.cccd /\ link'.ahead = link.ahead
  <2>1. CASE TimerElapses \/ Deliver  BY <2>1 DEF TimerElapses, Deliver, Radio
  <2>2. CASE HearDrop  BY <1>1, <2>2 DEF HearDrop, Radio, LinkType
  <2> QED  BY <2>1, <2>2
<1>3. inbox' = inbox \/ (Deliver /\ inbox # <<>> /\ inbox' = Tail(inbox))
  BY DEF TimerElapses, HearDrop, Deliver
<1>4. ResetTold' /\ (~link'.cccd => inbox' = <<>>)
  <2>1. CASE inbox' = inbox  BY <1>1, <1>2, <2>1 DEF ResetTold
  <2>2. CASE inbox # <<>> /\ inbox' = Tail(inbox)
    <3>1. /\ inbox \in Seq(Results2) /\ Tail(inbox) \in Seq(Results2)
          /\ \A i \in DOMAIN Tail(inbox) : i + 1 \in DOMAIN inbox /\ Tail(inbox)[i] = inbox[i + 1]
      BY <1>1, <2>2, HeadTailProperties DEF ResetTold
    <3> QED  BY <1>1, <1>2, <2>2, <3>1 DEF ResetTold
  <2> QED  BY <1>3, <2>1, <2>2
<1>5. ResetWorld  BY <1>1, <1>2, <1>4 DEF ResetWorld, Acked, Saved
<1>6. ResetThere(host)  BY <1>5, ResetHolds
<1>7. CASE host' = host  BY <1>2, <1>5, <1>7, ResetStays
<1>8. CASE host.st = "running" /\ host' = CancelOperation(host, "failed")
  <2>1. ResetThere(host') /\ Keeping(host', host)  BY <1>6, <1>8, ResetCancelled DEF ResetThere
  <2> QED  BY <1>2, <1>5, <2>1, ResetMoves
<1>9. CASE /\ host.st = "running"
           /\ \E e : ResetTrue(e, Later, dev'.wiped, Acked') /\ ResetSettled(host, e) /\ host' = Emit(host, e)
  <2>1. ResetThere(host') /\ Keeping(host', host)  BY <1>6, <1>9, ResetEmit DEF ResetThere
  <2> QED  BY <1>2, <1>5, <2>1, ResetMoves
<1>10. \/ host' = host
       \/ host.st = "running" /\ host' = CancelOperation(host, "failed")
       \/ /\ host.st = "running"
          /\ \E e : ResetTrue(e, Later, dev'.wiped, Acked') /\ ResetSettled(host, e) /\ host' = Emit(host, e)
  <2>1. CASE TimerElapses
    <3>1. PICK t \in Timers : host' = Emit(host, Event(t, "TimerFired", 0))  BY <2>1 DEF TimerElapses
    <3>2. ResetTrue(Event(t, "TimerFired", 0), Later, dev'.wiped, Acked')  BY DEF ResetTrue, Event
    <3>3. ResetSettled(host, Event(t, "TimerFired", 0))
      BY <1>1 DEF ResetSettled, Event, Timers, ResetEffs, ResetEffects, Source
    <3>4. host.st # "running" => host' = host  BY <3>1 DEF Emit
    <3> QED  BY <3>1, <3>2, <3>3, <3>4
  <2>2. CASE HearDrop
    <3>1. ResetTrue(Event("Subscribe", "Disconnected", 0), Later, dev'.wiped, Acked')
          /\ ResetSettled(host, Event("Subscribe", "Disconnected", 0))
      BY DEF ResetTrue, ResetSettled, Event
    <3>2. \/ host' = host
          \/ host.st = "running" /\ host' = CancelOperation(host, "failed")
          \/ host.st = "running" /\ host' = Emit(host, Event("Subscribe", "Disconnected", 0))
      <4>1. host.st = "running" => ~OnApple(host)  BY <1>1 DEF HostShape, OnApple
      <4> QED  BY <2>2, <4>1 DEF HearDrop, Disconnected
    <3> QED  BY <3>1, <3>2
  <2>3. CASE Deliver
    <3> DEFINE e == Event("Subscribe", "Notification", Head(inbox))
    <3>1. ResetTrue(e, Later, dev'.wiped, Acked')
      <4>1. Head(inbox) = inbox[1] /\ 1 \in DOMAIN inbox /\ Head(inbox) \in Results2
        BY <1>1, <2>3, HeadTailProperties DEF Deliver, ResetTold
      <4>2. e.val = Head(inbox) /\ e.type = "Notification"  BY DEF Event
      <4> HIDE DEF e
      <4> QED  BY <1>1, <1>2, <4>1, <4>2 DEF ResetTrue, ResetTold
    <3>2. ResetSettled(host, e)  BY DEF ResetSettled, Event
    <3>3. host' = host \/ (host.st = "running" /\ host' = Emit(host, e))
      <4>1. host.st # "running" => Emit(host, e) = host  BY DEF Emit
      <4>2. host' = host \/ host' = Emit(host, e)  BY <2>3 DEF Deliver
      <4> HIDE DEF e
      <4> QED  BY <4>1, <4>2
    <3> QED  BY <3>1, <3>2, <3>3
  <2> QED  BY <2>1, <2>2, <2>3
<1> QED  BY <1>7, <1>8, <1>9, <1>10

\* The link is lost or is back; the device uploads on its own.
LEMMA ResetLink ==
  ASSUME ResetState, AmbientType', LinkLost \/ Reconnect \/ DeviceUploads
  PROVE  ResetState'
<1>1. /\ dev \in DevType /\ link \in LinkType /\ disk \in DiskType /\ ResetTold
      /\ dev.next = 0 /\ ~dev.logging /\ (~link.cccd => inbox = <<>>)  BY ResetFacts
<1>2. /\ UNCHANGED <<host, sink, disk, told>> /\ link'.ahead = link.ahead /\ (link'.cccd => link.cccd)
      /\ inbox' = <<>> \/ (inbox' = inbox /\ link'.cccd = link.cccd)
      /\ dev'.wiped = dev.wiped /\ dev'.held = dev.held /\ dev'.next = 0 /\ ~dev'.logging
  <2>1. CASE LinkLost  BY <1>1, <2>1, DetachedType DEF LinkLost, Radio, LinkType
  <2>2. CASE Reconnect  BY <1>1, <2>2 DEF Reconnect, Radio, LinkType
  <2>3. CASE DeviceUploads
    <3>1. \/ dev' = [dev EXCEPT !.sync = FALSE]
          \/ dev' = [dev EXCEPT !.pending = @ - 1, !.sync = dev.pending > 1]
      BY <2>3 DEF DeviceUploads
    <3> QED  BY <1>1, <2>3, <3>1 DEF DeviceUploads, DevType
  <2> QED  BY <2>1, <2>2, <2>3
<1>3. ResetTold'
  <2>1. CASE inbox' = <<>>
    <3>1. <<>> \in Seq(Results2) /\ DOMAIN inbox' = {}  BY <2>1
    <3> QED  BY <1>1, <1>2, <2>1, <3>1 DEF ResetTold
  <2>2. CASE inbox' = inbox  BY <1>1, <1>2, <2>2 DEF ResetTold
  <2> QED  BY <1>2, <2>1, <2>2
<1>4. ResetWorld  BY <1>1, <1>2, <1>3 DEF ResetWorld, Acked, Saved
<1> QED  BY <1>2, <1>4, ResetStays

\* An operation is over, its journal is cleared, or the process ends.
LEMMA ResetEnds ==
  ASSUME ResetState, AmbientType', Finish \/ ClearResetOwner \/ Restart
  PROVE  ResetState'
<1>1. /\ ResetHost(host, Saved, Kept(host), dev.wiped, Acked) /\ HostShape(host, "reset") /\ host \in HostType
      /\ dev \in DevType /\ link \in LinkType /\ disk \in DiskType /\ ResetTold /\ OpcodeAhead
      /\ dev.next = 0 /\ ~dev.logging /\ (~link.cccd => inbox = <<>>) /\ sink = NoSink
      /\ host.st = "clearing" \/ told = "done" => Acked  BY ResetFacts DEF ResetState, ResetFamily
<1>2. /\ disk' \in DiskType /\ sink' = NoSink /\ ~link'.ahead
      /\ dev'.wiped = dev.wiped /\ dev'.held = dev.held /\ dev'.next = 0 /\ ~dev'.logging
      /\ inbox' = <<>> \/ (inbox' = inbox /\ link'.cccd = link.cccd)
      /\ host'.st \in {"idle", "stuck", "clearing"} /\ HostShape(host', "reset")
      /\ host'.st = "clearing" \/ told' = "done" => Acked
      /\ host'.st = "idle" /\ told' = "cancelled" => ~link'.cccd
  <2>1. CASE Restart  BY <1>1, <2>1, DetachedType, IdleShape DEF Restart
  <2>2. CASE ClearResetOwner
    <3>1. host.run = {} /\ ~link.ahead  BY <1>1, <2>2 DEF ClearResetOwner, HostShape, OpcodeAhead
    <3>2. disk' \in DiskType  BY <1>1, <2>2 DEF ClearResetOwner, DiskType
    <3> QED  BY <1>1, <2>2, <3>1, <3>2, IdleShape DEF ClearResetOwner
  <2>3. CASE Finish
    <3>1. host.st = "ending" /\ host.wf.kind = "reset" /\ UNCHANGED <<disk, dev>> /\ inbox' = <<>>
          /\ sink' = NoSink /\ ~link'.ahead /\ ~link'.cccd
      BY <1>1, <2>3 DEF Finish, HostShape, LinkType
    <3>2. host.outcome = "done" => Acked  BY <1>1, <3>1 DEF ResetHost, ResetInv, ResetEnding
    <3>3. \/ host' = [Idle EXCEPT !.st = "stuck"] /\ told' = "failed"
          \/ host' = [Idle EXCEPT !.st = "clearing", !.cmd = host.cmd] /\ told' = told /\ host.outcome = "done"
          \/ host' = Idle /\ told' = host.outcome
      BY <2>3, <3>1 DEF Finish
    <3>4. host'.st \in {"idle", "stuck", "clearing"} /\ HostShape(host', "reset")
          /\ (host'.st = "clearing" => host.outcome = "done")
      <4> DEFINE s == [Idle EXCEPT !.st = "stuck"]
                 c == [Idle EXCEPT !.st = "clearing", !.cmd = host.cmd]
      <4> HIDE DEF Idle
      <4>1. s \in HostType /\ s.st = "stuck" /\ s.run = {} /\ s.wf = [kind |-> "none"]
        BY IdleShape DEF HostType
      <4>2. c \in HostType /\ c.st = "clearing" /\ c.run = {} /\ c.wf = [kind |-> "none"]
        <5>1. host.cmd \in Owners  BY <1>1 DEF HostType
        <5> QED  BY <5>1, IdleShape DEF HostType
      <4> HIDE DEF s, c
      <4>3. HostShape(s, "reset") /\ HostShape(c, "reset")  BY <4>1, <4>2 DEF HostShape
      <4>4. host' = s \/ (host' = c /\ host.outcome = "done") \/ host' = Idle  BY <3>3 DEF s, c
      <4> QED  BY <4>1, <4>2, <4>3, <4>4, IdleShape
    <3> QED  BY <1>1, <3>1, <3>2, <3>3, <3>4
  <2> QED  BY <2>1, <2>2, <2>3
<1>3. ResetTold'
  <2>1. CASE inbox' = <<>>
    <3>1. <<>> \in Seq(Results2) /\ DOMAIN inbox' = {}  BY <2>1
    <3> QED  BY <1>1, <1>2, <2>1, <3>1 DEF ResetTold
  <2>2. CASE inbox' = inbox  BY <1>1, <1>2, <2>2 DEF ResetTold
  <2> QED  BY <1>2, <2>1, <2>2
<1>4. Acked => Acked'  BY <1>2 DEF Acked
<1>5. ResetFamily'  BY <1>2, <1>3, <1>4 DEF ResetFamily, ResetHost, OpcodeAhead
<1>6. Ambient' /\ NoStream'  BY <1>1, <1>2 DEF Ambient, NoStream
<1> QED  BY <1>5, <1>6 DEF ResetState

\* No step of the others is one of the reset.
LEMMA ResetNext ==
  ASSUME ResetState, used.family = "reset", NativeNext
  PROVE  ResetState'
<1>1. HostShape(host, "reset") /\ AmbientType /\ dev.next = 0 /\ ~dev.logging /\ sink = NoSink
      /\ \A r \in host.run : r.eff \in ResetEffs  BY ResetFacts
<1>2. AmbientType'  BY <1>1, AmbientStep
<1>3. CASE StartOperation  BY <1>2, <1>3, ResetStarts
<1>4. CASE AppCancels  BY <1>2, <1>4, ResetCancels
<1>5. CASE Effect  BY <1>2, <1>5, ResetEffect
<1>6. CASE Ahead  BY <1>2, <1>6, ResetAhead
<1>7. CASE TimerElapses \/ HearDrop \/ Deliver  BY <1>2, <1>7, ResetHears
<1>8. CASE LinkLost \/ Reconnect \/ DeviceUploads  BY <1>2, <1>8, ResetLink
<1>9. CASE Finish \/ ClearResetOwner \/ Restart  BY <1>2, <1>9, ResetEnds
<1>10. ~Refused  BY <1>1 DEF Refused, Quarantined, ResetEffs, ResetEffects
<1>11. ~SinkSteps  BY <1>1 DEF SinkSteps, BackgroundFlush, UploadChunk, FinalizeAsked, JobStops, NoSink
<1>12. ~Candidate /\ ~DeviceSends /\ ~DeviceLogs  BY <1>1 DEF Candidate, DeviceSends, DeviceLogs
<1> QED  BY <1>3, <1>4, <1>5, <1>6, <1>7, <1>8, <1>9, <1>10, <1>11, <1>12 DEF NativeNext

-----------------------------------------------------------------------------
(* The upload handoff: the answers of the engine *)

\* HandoffFail: what is still awaited is given back.
LEMMA HandoffFailStep ==
  ASSUME NEW w \in HandoffWf, NEW of, NEW none, NEW alone
  PROVE  /\ HandoffStep(w, of, HandoffFail(w), none, alone)
         /\ ~HandoffFail(w).rejected /\ HandoffFail(w).wf.phase = "Failed"
<1> DEFINE f == [Released(w) EXCEPT !.phase = "Failed"]
<1>1. Released(w) \in HandoffWf  BY DEF HandoffWf, Released, HandoffEffects
<1>2. f \in HandoffWf /\ f.phase = "Failed"  BY <1>1 DEF HandoffWf, HandoffPhases
<1>3. HandoffFail(w).wf = f /\ HandoffFail(w).out = Cleanup(w) /\ ~HandoffFail(w).rejected
  BY DEF HandoffFail
<1>4. Cleanup(w) \cap HostEffects \subseteq {"Unsubscribe"}
  BY DEF Cleanup, HostEffects, Writes, Reads, Saves, Results, SinkWork
<1> HIDE DEF f
<1> QED  BY <1>2, <1>3, <1>4 DEF HandoffStep

\* The handoff is decided.
LEMMA HandoffDecides ==
  ASSUME NEW w, NEW of, NEW none, NEW alone, NEW s \in HandoffWf, w.phase = "ReadingStatus",
         NEW outcome \in {"direct", "fallback", "preserved"}, Decided(outcome, none, alone)
  PROVE  HandoffStep(w, of, CompleteAs(s, outcome), none, alone)
<1> DEFINE f == [Released(s) EXCEPT !.phase = "Completed", !.outcome = outcome]
<1>1. Released(s) \in HandoffWf  BY DEF HandoffWf, Released, HandoffEffects
<1>2. f \in HandoffWf /\ f.phase = "Completed" /\ f.outcome = outcome  BY <1>1 DEF HandoffWf, HandoffPhases
<1>3. CompleteAs(s, outcome).wf = f /\ CompleteAs(s, outcome).out = Cleanup(s)  BY DEF CompleteAs
<1>4. Cleanup(s) \cap HostEffects \subseteq {"Unsubscribe"}
  BY DEF Cleanup, HostEffects, Writes, Reads, Saves, Results, SinkWork
<1> HIDE DEF f
<1> QED  BY <1>2, <1>3, <1>4 DEF HandoffStep

\* A transition of the hand-off that asks for one effect is a step of it.
LEMMA HandoffNextStep ==
  ASSUME NEW w, NEW s, NEW of, NEW r, NEW none, NEW alone, NEW phase, NEW eff,
         HandoffEnters(w, s, of, r, phase, eff)
  PROVE  HandoffStep(w, of, r, none, alone)
<1>1. r.out \cap HostEffects \subseteq HandoffWork(r.wf) \cup {"Unsubscribe"}  BY DEF HandoffEnters
<1>2. HandoffWaits(r.wf)  BY DEF HandoffEnters, HandoffWaits
<1> QED  BY <1>1, <1>2 DEF HandoffStep, HandoffEnters

\* ReadStatus and Monitor, from a workflow that waits for nothing.
LEMMA HandoffAsks ==
  ASSUME NEW w, NEW of, NEW none, NEW alone, NEW s \in HandoffWf, s.waits = {},
         HandoffWork(w) \ {of} = {}, NEW out, out \cap HostEffects \subseteq {"Unsubscribe"}
  PROVE  /\ \A purpose \in Purposes :
              /\ HandoffStep(w, of, ReadStatus(s, purpose), none, alone)
              /\ HandoffStep(w, of, [ReadStatus(s, purpose) EXCEPT !.out = @ \cup out], none, alone)
         /\ HandoffStep(w, of, Monitor(s), none, alone)
         /\ HandoffStep(w, of, [Monitor(s) EXCEPT !.out = @ \cup out], none, alone)
<1>1. ASSUME NEW purpose \in Purposes
      PROVE  /\ HandoffStep(w, of, ReadStatus(s, purpose), none, alone)
             /\ HandoffStep(w, of, [ReadStatus(s, purpose) EXCEPT !.out = @ \cup out], none, alone)
  <2> DEFINE q == [s EXCEPT !.purpose = purpose]
             u == [q EXCEPT !.phase = "ReadingStatus", !.waits = @ \cup {"ReadStatus"}]
             r == ReadStatus(s, purpose)
             t == [r EXCEPT !.out = @ \cup out]
  <2>1. q \in HandoffWf /\ q.waits = {}  BY DEF HandoffWf
  <2>2. r = [wf |-> u, out |-> {"ReadStatus"}, rejected |-> FALSE]  BY DEF ReadStatus
  <2> HIDE DEF q
  <2>3. u \in HandoffWf /\ u.phase = "ReadingStatus" /\ u.waits = q.waits \cup {"ReadStatus"}
    BY <2>1 DEF HandoffWf, HandoffPhases, HandoffEffects
  <2> HIDE DEF u, r
  <2>4. /\ r.wf = u /\ r.out = {"ReadStatus"}
        /\ t.wf = u /\ t.out = {"ReadStatus"} \cup out  BY <2>2
  <2>5. HandoffWork(u) = {"ReadStatus"}  BY <2>3 DEF HandoffWork
  <2> HIDE DEF t
  <2>6. "ReadingStatus" \in HandoffPhases \ {"Completed", "Failed"} /\ "ReadStatus" \in HandoffEffects
    BY DEF HandoffPhases, HandoffEffects
  <2>7. /\ HandoffEnters(w, q, of, r, "ReadingStatus", "ReadStatus")
        /\ HandoffEnters(w, q, of, t, "ReadingStatus", "ReadStatus")
    BY <2>1, <2>3, <2>4, <2>5, <2>6 DEF HandoffEnters
  <2>8. HandoffStep(w, of, r, none, alone) /\ HandoffStep(w, of, t, none, alone)  BY <2>7, HandoffNextStep
  <2> QED  BY <2>8 DEF r, t
<1>2. /\ HandoffStep(w, of, Monitor(s), none, alone)
      /\ HandoffStep(w, of, [Monitor(s) EXCEPT !.out = @ \cup out], none, alone)
  <2> DEFINE u == [s EXCEPT !.phase = "WaitingToMonitor", !.waits = @ \cup {"MonitorTimer"}]
             r == Monitor(s)
             t == [r EXCEPT !.out = @ \cup out]
  <2>2. r = [wf |-> u, out |-> {"MonitorTimer"}, rejected |-> FALSE]  BY DEF Monitor
  <2>3. u \in HandoffWf /\ u.phase = "WaitingToMonitor" /\ u.waits = s.waits \cup {"MonitorTimer"}
    BY DEF HandoffWf, HandoffPhases, HandoffEffects
  <2> HIDE DEF u, r
  <2>4. /\ r.wf = u /\ r.out = {"MonitorTimer"}
        /\ t.wf = u /\ t.out = {"MonitorTimer"} \cup out  BY <2>2
  <2> HIDE DEF t
  <2>6. "WaitingToMonitor" \in HandoffPhases \ {"Completed", "Failed"} /\ "MonitorTimer" \in HandoffEffects
        /\ "MonitorTimer" \notin HostEffects
    BY DEF HandoffPhases, HandoffEffects, HostEffects, Writes, Reads, Saves, Results, SinkWork
  <2>7. /\ HandoffEnters(w, s, of, r, "WaitingToMonitor", "MonitorTimer")
        /\ HandoffEnters(w, s, of, t, "WaitingToMonitor", "MonitorTimer")
    BY <2>3, <2>4, <2>6 DEF HandoffEnters
  <2>8. HandoffStep(w, of, r, none, alone) /\ HandoffStep(w, of, t, none, alone)  BY <2>7, HandoffNextStep
  <2> QED  BY <2>8 DEF r, t
<1> QED  BY <1>1, <1>2

\* handle_status: the status decides, or the host goes on.
LEMMA StatusStep ==
  ASSUME NEW w, NEW e, NEW none, NEW alone, HandoffReady(w, e, none, alone),
         w.phase = "ReadingStatus", e.type = "ReadCompleted", e.of = "ReadStatus"
  PROVE  HandoffStep(w, e.of, StatusRead([w EXCEPT !.waits = @ \ {e.of}], e.val), none, alone)
<1> DEFINE s == [w EXCEPT !.waits = @ \ {e.of}]
           v == e.val
<1>1. /\ w \in HandoffWf /\ HandoffWaits(w) /\ w.waits \subseteq {"ReadStatus"}
      /\ v.sync \in BOOLEAN /\ v.pending \in Nat /\ v.net \in BOOLEAN
      /\ (v.pending = 0) = none /\ (~v.sync) = alone
  BY DEF HandoffReady, HandoffTrue, HandoffWaits, HandoffWork
<1>2. s \in HandoffWf /\ s.waits = {} /\ s.purpose = w.purpose /\ w.purpose \in Purposes
  BY <1>1 DEF HandoffWf
<1>3. HandoffWork(w) \ {e.of} = {}  BY DEF HandoffWork
<1>4. {} \cap HostEffects \subseteq {"Unsubscribe"}  OBVIOUS
<1>5. HandoffStep(w, e.of, Monitor(s), none, alone)  BY <1>2, <1>3, <1>4, HandoffAsks
<1>6. \A outcome \in {"direct", "fallback", "preserved"} :
        Decided(outcome, none, alone) => HandoffStep(w, e.of, CompleteAs(s, outcome), none, alone)
  BY <1>2, HandoffDecides
<1>7. v.pending = 0 => Decided("direct", none, alone)  BY <1>1 DEF Decided
<1>8. ~v.sync => Decided("fallback", none, alone) /\ Decided("preserved", none, alone)  BY <1>1 DEF Decided
<1>9. CASE w.purpose = "initial" /\ v.pending > 0 /\ ~v.sync /\ v.net
  <2> DEFINE u == [s EXCEPT !.phase = "Subscribing", !.waits = @ \cup {"Subscribe"}]
             r == StatusRead(s, v)
  <2>1. r = [wf |-> u, out |-> {"Subscribe"}, rejected |-> FALSE]  BY <1>1, <1>2, <1>9 DEF StatusRead
  <2>2. u \in HandoffWf /\ u.phase = "Subscribing" /\ u.waits = s.waits \cup {"Subscribe"}
    BY <1>2 DEF HandoffWf, HandoffPhases, HandoffEffects
  <2> HIDE DEF u, r
  <2>3. r.wf = u /\ r.out = {"Subscribe"} /\ HandoffWork(u) = {"Subscribe"}  BY <2>1, <2>2 DEF HandoffWork
  <2>4. "Subscribing" \in HandoffPhases \ {"Completed", "Failed"} /\ "Subscribe" \in HandoffEffects
    BY DEF HandoffPhases, HandoffEffects
  <2> HIDE DEF s
  <2>5. HandoffEnters(w, s, e.of, r, "Subscribing", "Subscribe")
    BY <1>2, <1>3, <2>2, <2>3, <2>4 DEF HandoffEnters
  <2>6. HandoffStep(w, e.of, r, none, alone)  BY <2>5, HandoffNextStep
  <2> QED  BY <2>6 DEF r, s
<1>10. CASE ~(w.purpose = "initial" /\ v.pending > 0 /\ ~v.sync /\ v.net)
  <2>1. \/ StatusRead(s, v) = Monitor(s)
        \/ StatusRead(s, v) = CompleteAs(s, "direct") /\ v.pending = 0
        \/ StatusRead(s, v) = CompleteAs(s, "fallback") /\ ~v.sync
        \/ StatusRead(s, v) = CompleteAs(s, "preserved") /\ ~v.sync
    <3> HIDE DEF s, v
    <3>1. s.purpose \in {"initial", "busy", "failure", "monitor"}  BY <1>2 DEF Purposes
    <3>2. CASE s.purpose = "initial"  BY <1>1, <1>2, <1>10, <3>2 DEF StatusRead
    <3>3. CASE s.purpose = "busy"  BY <1>1, <3>3 DEF StatusRead
    <3>4. CASE s.purpose = "failure"  BY <1>1, <3>4 DEF StatusRead
    <3>5. CASE s.purpose = "monitor"  BY <1>1, <3>5 DEF StatusRead
    <3> QED  BY <3>1, <3>2, <3>3, <3>4, <3>5
  <2> HIDE DEF s, v
  <2>2. HandoffStep(w, e.of, StatusRead(s, v), none, alone)  BY <1>5, <1>6, <1>7, <1>8, <2>1
  <2> QED  BY <2>2 DEF s, v
<1> QED  BY <1>9, <1>10

\* dispatch.
LEMMA HandoffDispatchStep ==
  ASSUME NEW w, NEW e, NEW none, NEW alone, HandoffReady(w, e, none, alone),
         ~HandoffDispatch(w, e).rejected
  PROVE  /\ HandoffStep(w, e.of, HandoffDispatch(w, e), none, alone)
         /\ HandoffDispatch(w, e).wf.phase # "Failed" => e.type # "Disconnected"
         /\ HandoffDispatch(w, e).wf.phase # "Failed" /\ e.type = "Notification" => HandoffWork(w) = {}
<1> DEFINE r == HandoffDispatch(w, e)
           s == [w EXCEPT !.waits = @ \ {e.of}]
<1>1. /\ w \in HandoffWf /\ HandoffWaits(w) /\ Matches(e.of, e.type) /\ HandoffTrue(e, none, alone)
      /\ w.phase \notin {"Completed", "Failed"}  BY DEF HandoffReady
<1>2. s \in HandoffWf /\ s.waits = w.waits \ {e.of} /\ s.phase = w.phase  BY <1>1 DEF HandoffWf
<1>0. s = [w EXCEPT !.waits = @ \ {e.of}]  OBVIOUS
<1> HIDE DEF s
<1>3. CASE e.type \in {"Disconnected", "Failed"}
  <2>1. r = HandoffFail(w)  BY <1>3 DEF HandoffDispatch
  <2> QED  BY <1>1, <2>1, HandoffFailStep
<1>4. CASE e.type = "Subscribed"
  <2>1. e.of = "Subscribe" /\ e.of \in w.waits /\ w.phase = "Subscribing"
    BY <1>1, <1>4, Answered DEF HandoffDispatch
  <2> DEFINE u == [w EXCEPT !.phase = "Triggering", !.waits = @ \cup {"WriteTrigger"}]
  <2>2. r = [wf |-> u, out |-> {"WriteTrigger"}, rejected |-> FALSE]  BY <1>4, <2>1 DEF HandoffDispatch
  <2>3. u \in HandoffWf /\ u.phase = "Triggering" /\ u.waits = w.waits \cup {"WriteTrigger"}
    BY <1>1 DEF HandoffWf, HandoffPhases, HandoffEffects
  <2> HIDE DEF u, r
  <2>4. r.wf = u /\ r.out = {"WriteTrigger"} /\ HandoffWork(u) = {"WriteTrigger"}
    BY <2>2, <2>3 DEF HandoffWork
  <2>5. /\ "Triggering" \in HandoffPhases \ {"Completed", "Failed"} /\ "WriteTrigger" \in HandoffEffects
        /\ HandoffWork(w) \ {e.of} = {} /\ w.waits \subseteq {"Subscribe"}
    BY <1>1, <2>1 DEF HandoffPhases, HandoffEffects, HandoffWork, HandoffWaits
  <2>6. HandoffEnters(w, w, e.of, r, "Triggering", "WriteTrigger")
    BY <1>1, <2>3, <2>4, <2>5 DEF HandoffEnters
  <2>7. HandoffStep(w, e.of, r, none, alone)  BY <2>6, HandoffNextStep
  <2> QED  BY <1>4, <2>7 DEF r
<1>5. CASE e.type = "Notification"
  <2>1. e.of = "Subscribe" /\ e.of \in w.waits /\ w.phase = "AwaitingTrigger"
        /\ r = TriggerAnswered(w, e.val) /\ e.val \in HandoffNotes
    BY <1>1, <1>5, Answered DEF HandoffDispatch, HandoffTrue
  <2> DEFINE t == Released(w)
             out == Cleanup(w)
  <2>2. t \in HandoffWf /\ t.waits = {}
    BY <1>1, <2>1 DEF HandoffWf, Released, HandoffEffects, HandoffWaits, HandoffWork
  <2>3. out \cap HostEffects \subseteq {"Unsubscribe"}
    BY DEF Cleanup, HostEffects, Writes, Reads, Saves, Results, SinkWork
  <2>4. HandoffWork(w) = {}  BY <2>1 DEF HandoffWork
  <2>5. r \in {[Monitor(t) EXCEPT !.out = @ \cup out], [ReadStatus(t, "busy") EXCEPT !.out = @ \cup out],
               [ReadStatus(t, "failure") EXCEPT !.out = @ \cup out]}
    BY <2>1 DEF TriggerAnswered, HandoffNotes
  <2> HIDE DEF t, out, r
  <2>6. "busy" \in Purposes /\ "failure" \in Purposes  BY DEF Purposes
  <2>7. HandoffWork(w) \ {e.of} = {}  BY <2>4
  <2>8. /\ HandoffStep(w, e.of, [Monitor(t) EXCEPT !.out = @ \cup out], none, alone)
        /\ \A purpose \in Purposes :
             HandoffStep(w, e.of, [ReadStatus(t, purpose) EXCEPT !.out = @ \cup out], none, alone)
    BY <2>2, <2>3, <2>7, HandoffAsks
  <2>9. HandoffStep(w, e.of, r, none, alone)  BY <2>5, <2>6, <2>8
  <2> QED  BY <1>5, <2>4, <2>9 DEF r
<1>6. CASE e.type \notin {"Disconnected", "Failed", "Subscribed", "Notification"}
  <2>1. e.of \in w.waits /\ r = HandoffAdvance(s, e)  BY <1>0, <1>6 DEF HandoffDispatch
  <2>2. CASE w.phase = "ReadingStatus" /\ e.type = "ReadCompleted"
    <3>1. e.of = "ReadStatus"  BY <1>1, <2>1, <2>2 DEF HandoffWaits, HandoffWork
    <3>2. r = StatusRead(s, e.val)  BY <1>2, <2>1, <2>2 DEF HandoffAdvance
    <3> QED  BY <1>0, <1>6, <2>2, <3>1, <3>2, StatusStep
  <2>3. CASE w.phase = "Triggering" /\ e.type = "WriteCompleted"
    <3>1. e.of = "WriteTrigger"  BY <1>1, <2>1, <2>3, Answered DEF HandoffWaits, HandoffWork, Writes
    <3> DEFINE u == [s EXCEPT !.phase = "AwaitingTrigger", !.waits = @ \cup {"TriggerTimer"}]
    <3>2. r = [wf |-> u, out |-> {"TriggerTimer"}, rejected |-> FALSE]
      BY <1>2, <2>1, <2>3 DEF HandoffAdvance, TriggerWritten
    <3>3. u \in HandoffWf /\ u.phase = "AwaitingTrigger" /\ u.waits = s.waits \cup {"TriggerTimer"}
      BY <1>2 DEF HandoffWf, HandoffPhases, HandoffEffects
    <3> HIDE DEF u, r
    <3>4. r.wf = u /\ r.out = {"TriggerTimer"}  BY <3>2
    <3>5. /\ "AwaitingTrigger" \in HandoffPhases \ {"Completed", "Failed"} /\ "TriggerTimer" \in HandoffEffects
          /\ HandoffWork(w) \ {e.of} = {} /\ s.waits \subseteq {"Subscribe"} /\ "TriggerTimer" \notin HostEffects
      BY <1>1, <1>2, <2>3, <3>1 DEF HandoffPhases, HandoffEffects, HandoffWork, HandoffWaits,
            HostEffects, Writes, Reads, Saves, Results, SinkWork
    <3>6. HandoffEnters(w, s, e.of, r, "AwaitingTrigger", "TriggerTimer")
      BY <1>2, <3>3, <3>4, <3>5 DEF HandoffEnters
    <3>7. HandoffStep(w, e.of, r, none, alone)  BY <3>6, HandoffNextStep
    <3> QED  BY <1>6, <3>7 DEF r
  <2>4. CASE w.phase = "AwaitingTrigger" /\ e.of = "TriggerTimer"
    <3> DEFINE t == [s EXCEPT !.waits = @ \ {"Subscribe"}]
               out == IF "Subscribe" \in s.waits THEN {"Unsubscribe"} ELSE {}
    <3>1. r = [ReadStatus(t, "failure") EXCEPT !.out = @ \cup out]
      BY <1>2, <2>1, <2>4 DEF HandoffAdvance, TriggerTimeout
    <3>2. t \in HandoffWf /\ t.waits = {}
      <4>1. s.waits \subseteq {"Subscribe"}  BY <1>1, <1>2, <2>4 DEF HandoffWaits, HandoffWork
      <4> QED  BY <1>2, <4>1 DEF HandoffWf
    <3>3. HandoffWork(w) = {} /\ "failure" \in Purposes /\ out \cap HostEffects \subseteq {"Unsubscribe"}
      BY <2>4 DEF HandoffWork, Purposes
    <3> HIDE DEF t, out, r
    <3>4. HandoffStep(w, e.of, r, none, alone)  BY <3>1, <3>2, <3>3, HandoffAsks
    <3> QED  BY <1>6, <3>4 DEF r
  <2>5. CASE w.phase = "WaitingToMonitor" /\ e.of = "MonitorTimer"
    <3>1. r = ReadStatus(s, "monitor")  BY <1>2, <2>1, <2>5 DEF HandoffAdvance
    <3>2. s.waits = {}  BY <1>1, <1>2, <2>5 DEF HandoffWaits, HandoffWork
    <3>3. HandoffWork(w) \ {e.of} = {} /\ "monitor" \in Purposes /\ {} \cap HostEffects \subseteq {"Unsubscribe"}
      BY <2>5 DEF HandoffWork, Purposes
    <3> HIDE DEF r
    <3>4. HandoffStep(w, e.of, r, none, alone)  BY <1>2, <3>1, <3>2, <3>3, HandoffAsks
    <3> QED  BY <1>6, <3>4 DEF r
  <2>6. CASE /\ ~(w.phase = "ReadingStatus" /\ e.type = "ReadCompleted")
             /\ ~(w.phase = "Triggering" /\ e.type = "WriteCompleted")
             /\ ~(w.phase = "AwaitingTrigger" /\ e.of = "TriggerTimer")
             /\ ~(w.phase = "WaitingToMonitor" /\ e.of = "MonitorTimer")
    <3>1. HandoffAdvance(s, e) = [wf |-> s, out |-> {}, rejected |-> TRUE]  BY <1>2, <2>6 DEF HandoffAdvance
    <3> QED  BY <2>1, <3>1
  <2> QED  BY <2>2, <2>3, <2>4, <2>5, <2>6
<1> QED  BY <1>3, <1>4, <1>5, <1>6

-----------------------------------------------------------------------------
(* The upload handoff: the host *)

\* What is known of a handoff that runs.
LEMMA HandoffRuns ==
  ASSUME NEW h, NEW none, NEW alone, HandoffHost(h, none, alone)
  PROVE  /\ h \in HostType /\ h.run \subseteq Submitted
         /\ h.run # {} => h.st \in {"running", "ending"}
         /\ h.st \in {"running", "ending"} => h.wf.kind = "handoff" /\ h.wf \in HandoffWf
         /\ \A r \in h.run : /\ r.eff \in HandoffEffs
                             /\ r.mode = "live" => h.st = "running"
                             /\ r.mode # "live" => h.st = "ending"
                             /\ r.eff = "WriteTrigger" /\ h.st = "ending" =>
                                  h.outcome \notin {"fallback", "preserved"}
<1>1. /\ HostShape(h, "handoff") /\ h \in HostType /\ h.run \subseteq Submitted
      /\ h.run # {} => h.st \in {"running", "ending"}
      /\ h.st \in {"running", "ending"} => h.wf.kind = "handoff" /\ h.wf \in HandoffWf
  BY DEF HandoffHost, HandoffInv, HostShape, HostType
<1>2. CASE h.st = "running"
  <2>1. HandoffRunning(h) /\ \A r \in h.run : r.mode = "live"
    BY <1>1, <1>2 DEF HandoffHost, HandoffInv, HostShape
  <2> QED  BY <1>1, <1>2, <2>1 DEF HandoffRunning, HandoffWork, HandoffEffs
<1>3. CASE h.st = "ending"
  <2>1. HandoffEnding(h) /\ \A r \in h.run : r.mode # "live"
    BY <1>1, <1>3 DEF HandoffHost, HandoffInv, HostShape
  <2> QED  BY <1>1, <1>3, <2>1 DEF HandoffEnding, Has
<1>4. CASE h.run = {}  BY <1>1, <1>4
<1> QED  BY <1>1, <1>2, <1>3, <1>4

\* A handoff that ran is ending.
LEMMA HandoffCloses ==
  ASSUME NEW h, NEW none, NEW alone, HandoffHost(h, none, alone), h.st = "running",
         NEW g, HostShape(g, "handoff"), g.st = "ending", g.wf \in HandoffWf,
         g.outcome \in {"failed", "cancelled", "direct", "fallback", "preserved"},
         Decided(g.outcome, none, alone),
         g.outcome \in {"fallback", "preserved"} => h.wf.phase = "ReadingStatus",
         \A r \in g.run : r.eff = "Unsubscribe" \/ \E q \in h.run : q.eff = r.eff
  PROVE  HandoffHost(g, none, alone)
<1>1. \A q \in h.run : q.eff \in HandoffEffs /\ q.eff \in HandoffWork(h.wf) \cup {"Unsubscribe"}
  BY HandoffRuns DEF HandoffHost, HandoffInv, HandoffRunning
<1>2. \A r \in g.run : r.eff \in HandoffEffs  BY <1>1 DEF HandoffEffs
<1>3. g.outcome \in {"fallback", "preserved"} => ~Has(g, "WriteTrigger")  BY <1>1 DEF Has, HandoffWork
<1> QED  BY <1>2, <1>3 DEF HandoffHost, HandoffInv, HandoffEnding

\* The answer of the engine is accepted.
LEMMA HandoffAccepts ==
  ASSUME NEW h, NEW none, NEW alone, HandoffHost(h, none, alone), h.st = "running",
         NEW of, NEW r, HandoffStep(h.wf, of, r, none, alone),
         r.wf.phase \notin {"Completed", "Failed"} => \A q \in h.run : q.eff # of,
         NEW pend \in SUBSET (HostEffects \cup Timers)
  PROVE  /\ HandoffHost(Accept(h, r, pend), none, alone)
         /\ Accept(h, r, pend).st \in {"running", "ending"}
<1> DEFINE g == Accept(h, r, pend)
           a == [h EXCEPT !.wf = r.wf]
<1>1. /\ r.wf \in HandoffWf /\ r.wf.kind = "handoff" /\ r.wf \in Workflow /\ HostShape(h, "handoff")
      /\ h \in HostType /\ h.run \subseteq Submitted
  BY DEF HandoffStep, HandoffWf, Workflow, HandoffHost, HostShape, HostType
<1>2. a.run = h.run  BY <1>1 DEF HostType
<1>3. Terminal(r.wf) = (r.wf.phase \in {"Completed", "Failed"})  BY DEF Terminal
<1>4. /\ HostShape(g, "handoff")
      /\ IF Terminal(r.wf) THEN Ended(g, a, r.out, Outcome(r.wf)) /\ g.wf = r.wf ELSE Went(g, h, r)
  BY <1>1, AcceptShape
<1>5. \A q \in g.run : q.eff \in HostEffects  BY <1>4 DEF HostShape, HostType, Submitted
<1> HIDE DEF g, a
<1>6. CASE r.wf.phase \in {"Completed", "Failed"}
  <2>1. Ended(g, a, r.out, Outcome(r.wf)) /\ g.wf = r.wf  BY <1>3, <1>4, <1>6
  <2>2. Outcome(r.wf) = IF r.wf.phase = "Failed" THEN "failed" ELSE r.wf.outcome  BY <1>1 DEF Outcome
  <2>3. /\ r.out \cap HostEffects \subseteq {"Unsubscribe"}
        /\ r.wf.phase = "Completed" => /\ h.wf.phase = "ReadingStatus"
                                       /\ r.wf.outcome \in {"direct", "fallback", "preserved"}
                                       /\ Decided(r.wf.outcome, none, alone)
    BY <1>6 DEF HandoffStep
  <2>4. g.st = "ending" /\ g.outcome = Outcome(r.wf)
        /\ \A q \in g.run : q.eff = "Unsubscribe" \/ \E p \in h.run : p.eff = q.eff
    BY <1>2, <1>5, <2>1, <2>3 DEF Ended
  <2>5. Decided("failed", none, alone)  BY DEF Decided
  <2>6. HandoffHost(g, none, alone)  BY <1>1, <1>4, <1>6, <2>1, <2>2, <2>3, <2>4, <2>5, HandoffCloses
  <2> QED  BY <2>4, <2>6 DEF g
<1>7. CASE r.wf.phase \notin {"Completed", "Failed"}
  <2>1. Went(g, h, r)  BY <1>3, <1>4, <1>7
  <2>2. /\ HandoffWaits(r.wf) /\ HandoffWork(h.wf) \ {of} \subseteq HandoffWork(r.wf)
        /\ r.out \cap HostEffects \subseteq HandoffWork(r.wf) \cup {"Unsubscribe"}  BY <1>7 DEF HandoffStep
  <2>3. \A q \in h.run : q.eff \in HandoffWork(h.wf) \cup {"Unsubscribe"}
    BY DEF HandoffHost, HandoffInv, HandoffRunning
  <2>4. \A q \in g.run : q.eff \in HandoffWork(r.wf) \cup {"Unsubscribe"}
    BY <1>5, <1>7, <2>1, <2>2, <2>3 DEF Went
  <2>5. HandoffRunning(g) /\ g.st = "running" /\ g.wf = r.wf /\ g.outcome = h.outcome
    BY <1>7, <2>1, <2>2, <2>4 DEF HandoffRunning, Went
  <2>6. HandoffHost(g, none, alone)  BY <1>1, <1>4, <2>5 DEF HandoffHost, HandoffInv
  <2> QED  BY <2>5, <2>6 DEF g
<1> QED  BY <1>6, <1>7

\* The handoff hears an event.
LEMMA HandoffEmit ==
  ASSUME NEW h, NEW none, NEW alone, HandoffHost(h, none, alone), h.st = "running",
         NEW e, HandoffTrue(e, none, alone),
         \A q \in h.run : q.eff = e.of => e.type \in {"Notification", "Disconnected"}
  PROVE  HandoffHost(Emit(h, e), none, alone) /\ Emit(h, e).st \in {"running", "ending"}
<1> DEFINE r == EngineAnswer(h.wf, e)
           w == h.wf
<1>1. /\ HostShape(h, "handoff") /\ w \in HandoffWf /\ w.kind = "handoff" /\ HandoffRunning(h)
  BY DEF HandoffHost, HandoffInv, HostShape
<1>2. r = HandoffDispatch(w, e) /\ CancelAnswer(w) = Cleanup(w)
  BY <1>1 DEF EngineAnswer, CancelAnswer, HandoffCancel
<1>3. \/ Emit(h, e) = Ending(h, Cleanup(w), "failed")
      \/ /\ ~r.rejected /\ Matches(e.of, e.type)
         /\ \E pend \in SUBSET (HostEffects \cup Timers) : Emit(h, e) = Accept(h, r, pend)
  BY <1>1, <1>2, EmitCases
<1> HIDE DEF r
<1>4. CASE Emit(h, e) = Ending(h, Cleanup(w), "failed")
  <2> DEFINE g == Ending(h, Cleanup(w), "failed")
  <2>1. HostShape(g, "handoff") /\ Ended(g, h, Cleanup(w), "failed")  BY <1>1, EndingShape DEF Outcomes
  <2> HIDE DEF g
  <2>2. \A q \in g.run : q.eff \in HostEffects  BY <2>1 DEF HostShape, HostType, Submitted
  <2>3. \A x \in HostEffects : x \in Cleanup(w) => x = "Unsubscribe"
    BY DEF Cleanup, HostEffects, Writes, Reads, Saves, Results, SinkWork
  <2>4. \A q \in g.run : q.eff = "Unsubscribe" \/ \E p \in h.run : p.eff = q.eff
    BY <2>1, <2>2, <2>3 DEF Ended
  <2>5. g.st = "ending" /\ g.outcome = "failed" /\ g.wf = w /\ Decided("failed", none, alone)
    BY <2>1 DEF Ended, Decided
  <2>6. HandoffHost(g, none, alone)  BY <1>1, <2>1, <2>4, <2>5, HandoffCloses
  <2> QED  BY <1>4, <2>5, <2>6 DEF g
<1>5. CASE ~r.rejected /\ Matches(e.of, e.type)
           /\ \E pend \in SUBSET (HostEffects \cup Timers) : Emit(h, e) = Accept(h, r, pend)
  <2>1. HandoffReady(w, e, none, alone)  BY <1>1, <1>5 DEF HandoffReady, HandoffRunning
  <2>2. /\ HandoffStep(w, e.of, r, none, alone)
        /\ r.wf.phase # "Failed" => e.type # "Disconnected"
        /\ r.wf.phase # "Failed" /\ e.type = "Notification" => HandoffWork(w) = {}
    BY <1>2, <1>5, <2>1, HandoffDispatchStep
  <2>3. r.wf.phase \notin {"Completed", "Failed"} => \A q \in h.run : q.eff # e.of
    <3>1. e.type = "Notification" => e.of = "Subscribe"  BY <1>5, Answered
    <3> QED  BY <1>1, <2>2, <3>1 DEF HandoffRunning
  <2>4. PICK pend \in SUBSET (HostEffects \cup Timers) : Emit(h, e) = Accept(h, r, pend)  BY <1>5
  <2>5. /\ HandoffHost(Accept(h, r, pend), none, alone)
        /\ Accept(h, r, pend).st \in {"running", "ending"}  BY <2>2, <2>3, HandoffAccepts
  <2> QED  BY <2>4, <2>5
<1> QED  BY <1>3, <1>4, <1>5

\* An effect of the handoff is removed.
LEMMA HandoffWithout ==
  ASSUME NEW h, NEW none, NEW alone, HandoffHost(h, none, alone), NEW r \in h.run
  PROVE  /\ HandoffHost(Without(h, r), none, alone) /\ Without(h, r).run = h.run \ {r}
         /\ Without(h, r).st = h.st /\ Without(h, r).wf = h.wf
         /\ h.st \in {"running", "ending"}
<1> DEFINE s == Without(h, r)
<1>1. /\ HostShape(s, "handoff") /\ s.run = h.run \ {r}
      /\ s.st = h.st /\ s.wf = h.wf /\ s.outcome = h.outcome  BY WithoutShape DEF HandoffHost
<1>2. h.st \in {"running", "ending"}  BY HandoffRuns
<1> HIDE DEF s
<1>3. HandoffHost(s, none, alone)
  BY <1>1, <1>2 DEF HandoffHost, HandoffInv, HandoffRunning, HandoffEnding, Has
<1> QED  BY <1>1, <1>2, <1>3 DEF s

\* An effect settles, or fails.
LEMMA HandoffSettles ==
  ASSUME NEW h, NEW none, NEW alone, HandoffHost(h, none, alone), NEW r \in h.run, NEW type, NEW val,
         type # "Notification", r.mode = "live" => HandoffTrue(Event(r.eff, type, val), none, alone)
  PROVE  HandoffHost(Settle(h, r, type, val), none, alone)
         /\ Settle(h, r, type, val).st \in {"running", "ending"}
<1> DEFINE s == Without(h, r)
           e == Event(Source(r.eff), type, val)
           g == Settle(h, r, type, val)
<1>1. /\ HandoffHost(s, none, alone) /\ s.run = h.run \ {r} /\ s.st = h.st /\ h.st \in {"running", "ending"}
  BY HandoffWithout
<1>2. /\ h.run \subseteq Submitted /\ r.eff \in HandoffEffs
      /\ r.mode = "live" => h.st = "running"  BY HandoffRuns
<1>3. g = IF r.mode = "live" THEN Emit(s, e) ELSE s  BY DEF Settle, Without
<1>4. e = Event(r.eff, type, val) /\ e.of = r.eff  BY <1>2 DEF Event, Source, Results, HandoffEffs
<1> HIDE DEF s, e, g
<1>5. CASE r.mode # "live"  BY <1>1, <1>3, <1>5 DEF g
<1>6. CASE r.mode = "live"
  <2>1. \A q \in h.run : q.mode = "live"  BY <1>2, <1>6 DEF HandoffHost, HostShape
  <2>2. \A q \in s.run : q.eff # r.eff  BY <1>1, <1>2, <1>6, <2>1 DEF Submitted
  <2>3. HandoffHost(Emit(s, e), none, alone) /\ Emit(s, e).st \in {"running", "ending"}
    BY <1>1, <1>2, <1>4, <1>6, <2>2, HandoffEmit
  <2> QED  BY <1>3, <1>6, <2>3 DEF g
<1> QED  BY <1>5, <1>6

\* The failure of an effect ends the hand-off, or is what its end waits for.
LEMMA HandoffFails ==
  ASSUME NEW h, NEW none, NEW alone, HandoffHost(h, none, alone), NEW r \in h.run
  PROVE  HandoffHost(SettleFailed(h, r, "Failed"), none, alone)
         /\ SettleFailed(h, r, "Failed").st \in {"running", "ending"}
<1>1. r \in Submitted  BY HandoffRuns
<1>2. HandoffTrue(Event(r.eff, "Failed", 0), none, alone)  BY DEF HandoffTrue, Event
<1>3. CASE r.mode \in {"live", "stale"}
  <2>1. SettleFailed(h, r, "Failed") = Settle(h, r, "Failed", 0)  BY <1>3 DEF SettleFailed, Settle
  <2> QED  BY <1>2, <2>1, HandoffSettles
<1>4. CASE r.mode = "clean"
  <2> DEFINE s == Without(h, r)
             g == [s EXCEPT !.dirty = ~OnApple(h)]
  <2>1. HandoffHost(s, none, alone) /\ s.st = h.st  BY HandoffWithout
  <2>0. s = Without(h, r)  OBVIOUS
  <2> HIDE DEF s
  <2>2. h.st = "ending"  BY <1>4, HandoffRuns
  <2>3. SettleFailed(h, r, "Failed") = g  BY <1>4, <2>0 DEF SettleFailed, Without
  <2>4. s \in HostType /\ (~OnApple(h)) \in BOOLEAN  BY <2>1 DEF HandoffHost, HostShape
  <2>5. g \in HostType /\ g.st = s.st /\ g.wf = s.wf /\ g.outcome = s.outcome /\ g.run = s.run
    BY <2>4 DEF HostType
  <2> HIDE DEF g
  <2>6. HandoffHost(g, none, alone)
    BY <2>1, <2>2, <2>5 DEF HandoffHost, HostShape, HandoffInv, HandoffEnding, Has
  <2> QED  BY <2>1, <2>2, <2>3, <2>5, <2>6
<1> QED  BY <1>1, <1>3, <1>4 DEF Submitted

\* The application or the host gives up the handoff.
LEMMA HandoffCancelled ==
  ASSUME NEW h, NEW none, NEW alone, HandoffHost(h, none, alone), h.st \in {"running", "ending"},
         NEW outcome \in {"failed", "cancelled"}
  PROVE  HandoffHost(CancelOperation(h, outcome), none, alone)
         /\ CancelOperation(h, outcome).st \in {"running", "ending"}
<1> DEFINE g == CancelOperation(h, outcome)
           w == h.wf
<1>1. HostShape(h, "handoff") /\ w.kind = "handoff" /\ w \in HandoffWf  BY HandoffRuns DEF HandoffHost
<1>2. CancelAnswer(w) = Cleanup(w)  BY <1>1 DEF CancelAnswer, HandoffCancel
<1>3. /\ HostShape(g, "handoff")
      /\ h.st = "running" => Ended(g, h, Cleanup(w), outcome)
      /\ h.st = "ending" => \/ g = h
                            \/ /\ g.st = "ending" /\ g.outcome = "failed" /\ g.wf = h.wf
                               /\ g.run = h.run
  BY <1>1, <1>2, CancelShape
<1> HIDE DEF g
<1>4. CASE h.st = "running"
  <2>1. \A q \in g.run : q.eff \in HostEffects  BY <1>3 DEF HostShape, HostType, Submitted
  <2>2. \A x \in HostEffects : x \in Cleanup(w) => x = "Unsubscribe"
    BY DEF Cleanup, HostEffects, Writes, Reads, Saves, Results, SinkWork
  <2>3. \A q \in g.run : q.eff = "Unsubscribe" \/ \E p \in h.run : p.eff = q.eff
    BY <1>3, <1>4, <2>1, <2>2 DEF Ended
  <2>4. g.st = "ending" /\ g.outcome = outcome /\ g.wf = w /\ Decided(outcome, none, alone)
    BY <1>3, <1>4 DEF Ended, Decided
  <2>5. HandoffHost(g, none, alone)  BY <1>1, <1>3, <1>4, <2>3, <2>4, HandoffCloses
  <2> QED  BY <2>4, <2>5 DEF g
<1>5. CASE h.st = "ending"
  <2>1. HandoffHost(g, none, alone) /\ g.st = "ending"
    BY <1>3, <1>5 DEF HandoffHost, HandoffInv, HandoffEnding, Has, Decided
  <2> QED  BY <2>1 DEF g
<1> QED  BY <1>4, <1>5

-----------------------------------------------------------------------------
(* The upload handoff: every step *)

\* What the proofs use of the invariant of a hand-off.
LEMMA HandoffKnown ==
  ASSUME HandoffState
  PROVE  HandoffFacts
<1>1. HandoffHost(host, dev.pending = 0, ~dev.sync)  BY DEF HandoffState, HandoffFamily
<1>2. /\ host \in HostType /\ host.run \subseteq Submitted
      /\ \A r \in host.run : r.eff \in HandoffEffs
      /\ host.run # {} => host.st \in {"running", "ending"}
      /\ host.st \in {"running", "ending"} => host.wf.kind = "handoff"  BY <1>1, HandoffRuns
<1> QED  BY <1>1, <1>2 DEF HandoffState, HandoffFamily, HandoffHost, Ambient, AmbientType, NoStream, NoReset,
            HandoffFacts

\* What was decided stays so.
LEMMA HandoffHolds ==
  ASSUME HandoffState, HandoffWorld
  PROVE  HandoffThere(host) /\ Decided(told, dev'.pending = 0, ~dev'.sync)
<1>1. HandoffFacts  BY HandoffKnown
<1>2. (\E r \in host.run : r.eff = "WriteTrigger") =>
         /\ told = "none"
         /\ host.st = "ending" => host.outcome \notin {"fallback", "preserved"}
  BY <1>1, HandoffRuns DEF HandoffFacts
<1>3. host.st = "ending" => Decided(host.outcome, dev'.pending = 0, ~dev'.sync)
  <2>1. host.st = "ending" => Decided(host.outcome, dev.pending = 0, ~dev.sync)
    BY <1>1 DEF HandoffFacts, HandoffHost, HandoffInv
  <2> QED  BY <1>2, <2>1 DEF Decided, HandoffWorld
<1>4. HandoffThere(host)  BY <1>1, <1>3 DEF HandoffThere, HandoffHost, HandoffInv, HandoffFacts
<1>5. Decided(told, dev'.pending = 0, ~dev'.sync)
  BY <1>2 DEF Decided, HandoffWorld, HandoffState, HandoffFamily
<1> QED  BY <1>4, <1>5

\* An effect was executed, or an event was heard.
LEMMA HandoffKeeps ==
  ASSUME HandoffState, AmbientType', HandoffWorld, HandoffThere(host'),
         host.st \in {"running", "ending"}, host'.st \in {"running", "ending"}
  PROVE  HandoffState'
<1>1. HandoffFacts /\ Decided(told, dev'.pending = 0, ~dev'.sync)  BY HandoffKnown, HandoffHolds
<1>2. HandoffFamily'  BY <1>1 DEF HandoffFamily, HandoffThere, HandoffWorld, HandoffFacts
<1>3. Ambient' /\ NoReset' /\ NoStream'  BY <1>1 DEF Ambient, NoReset, NoStream, HandoffWorld, HandoffFacts
<1> QED  BY <1>2, <1>3 DEF HandoffState

\* A host that is left alone.
LEMMA HandoffStays ==
  ASSUME HandoffState, AmbientType', HandoffWorld, UNCHANGED host,
         host.st = "idle" /\ link'.cccd => link.cccd
  PROVE  HandoffState'
<1>1. HandoffFacts /\ HandoffThere(host) /\ Decided(told, dev'.pending = 0, ~dev'.sync)
  BY HandoffKnown, HandoffHolds
<1>2. HandoffFamily'  BY <1>1 DEF HandoffFamily, HandoffThere, HandoffWorld, HandoffFacts
<1>3. Ambient' /\ NoReset' /\ NoStream'
  BY <1>1 DEF Ambient, NoReset, NoStream, HandoffWorld, HandoffFacts, HandoffState
<1> QED  BY <1>2, <1>3 DEF HandoffState

\* The trigger reaches the device.
LEMMA HandoffDevice ==
  ASSUME HandoffState, NEW r \in host.run, r.eff = "WriteTrigger", DeviceTakes(r.eff),
         UNCHANGED <<sink, told>>, link'.cccd = link.cccd
  PROVE  HandoffWorld
<1>1. HandoffFacts  BY HandoffKnown
<1>2. DeviceTook("WriteTrigger")  BY <1>1, DeviceTakesStep DEF Writes, HandoffFacts
<1>3. inbox' = inbox \/ (link.cccd /\ \E n \in HandoffNotes : inbox' = Append(inbox, n))
  <2>1. Notifies("accepted") \/ Notifies("refused") \/ Notifies("busy") \/ UNCHANGED inbox
    BY DEF DeviceTakes
  <2> QED  BY <2>1 DEF Notifies, HandoffNotes
<1>4. inbox' \in Seq(HandoffNotes) /\ (~link'.cccd => inbox' = <<>>)
  BY <1>1, <1>3, AppendProperties DEF HandoffFacts
<1> QED  BY <1>1, <1>2, <1>4 DEF HandoffWorld, HandoffFacts, DeviceTook

\* The trigger of a hand-off is written.
LEMMA HandoffWrite ==
  ASSUME HandoffState, AmbientType', NEW r \in host.run, Write(r)
  PROVE  HandoffState'
<1>1. HandoffFacts /\ r.eff = "WriteTrigger" /\ host.st \in {"running", "ending"}
  BY HandoffKnown DEF HandoffFacts, Write, Writes, HandoffEffs
<1>2. UNCHANGED <<sink, told>> /\ link'.cccd = link.cccd  BY <1>1 DEF Write, Radio, LinkType, HandoffFacts
<1>3. UNCHANGED <<dev, inbox>> => HandoffWorld  BY <1>1, <1>2 DEF HandoffWorld, HandoffFacts
<1>4. HandoffWorld  BY <1>1, <1>2, <1>3, HandoffDevice DEF Write
<1>5. HandoffThere(host)  BY <1>4, HandoffHolds
<1>6. HandoffTrue(Event(r.eff, "WriteCompleted", 0), dev'.pending = 0, ~dev'.sync)
  BY DEF HandoffTrue, Event
<1>7. HandoffThere(host') /\ host'.st \in {"running", "ending"}
  <2>1. CASE host' = Settle(host, r, "WriteCompleted", 0)
    BY <1>5, <1>6, <2>1, HandoffSettles DEF HandoffThere
  <2>2. CASE host' = SettleFailed(host, r, "Failed")  BY <1>5, <2>2, HandoffFails DEF HandoffThere
  <2> QED  BY <2>1, <2>2 DEF Write
<1> QED  BY <1>1, <1>4, <1>7, HandoffKeeps

\* The device says how much it has to upload and whether it does.
LEMMA HandoffRead ==
  ASSUME HandoffState, AmbientType', NEW r \in host.run, Read(r)
  PROVE  HandoffState'
<1>1. HandoffFacts /\ host.st \in {"running", "ending"} /\ UNCHANGED <<sink, told, link, inbox, dev>>
  BY HandoffKnown DEF HandoffFacts, Read, Radio
<1>2. HandoffWorld  BY <1>1 DEF HandoffWorld, HandoffFacts
<1>3. HandoffThere(host)  BY <1>2, HandoffHolds
<1> DEFINE status == [pending |-> dev.pending, sync |-> dev.sync, net |-> dev.net]
<1>4. HandoffTrue(Event(r.eff, "ReadCompleted", status), dev'.pending = 0, ~dev'.sync)
  <2>1. dev.pending \in Nat /\ dev.sync \in BOOLEAN /\ dev.net \in BOOLEAN /\ dev' = dev
    BY <1>1 DEF HandoffFacts, DevType
  <2> QED  BY <2>1 DEF HandoffTrue, Event
<1>5. HandoffThere(host') /\ host'.st \in {"running", "ending"}
  <2>1. CASE host' = Settle(host, r, "ReadCompleted", status)
    <3> HIDE DEF status
    <3> QED  BY <1>3, <1>4, <2>1, HandoffSettles DEF HandoffThere
  <2>2. CASE host' = SettleFailed(host, r, "Failed")  BY <1>3, <2>2, HandoffFails DEF HandoffThere
  <2> QED  BY <2>1, <2>2 DEF Read
<1> QED  BY <1>1, <1>2, <1>5, HandoffKeeps

\* The subscription of a hand-off answers, late or not.
LEMMA HandoffSubscribe ==
  ASSUME HandoffState, AmbientType', NEW r \in host.run, Subscribe(r)
  PROVE  HandoffState'
<1>1. HandoffFacts /\ host.st \in {"running", "ending"} /\ UNCHANGED <<sink, told, dev>>
  BY HandoffKnown DEF HandoffFacts, Subscribe, Radio
<1>2. link \in LinkType  BY <1>1 DEF HandoffFacts
<1>3. HandoffWorld
  <2>1. \/ inbox' = inbox /\ (link.cccd => link'.cccd)
        \/ inbox' = <<>>  BY <1>1, <1>2 DEF Subscribe, HandoffFacts, LinkType
  <2>2. CASE inbox' = <<>>  BY <1>1, <2>2 DEF HandoffWorld, HandoffFacts
  <2>3. CASE inbox' = inbox /\ (link.cccd => link'.cccd)  BY <1>1, <2>3 DEF HandoffWorld, HandoffFacts
  <2> QED  BY <2>1, <2>2, <2>3
<1>4. HandoffThere(host)  BY <1>3, HandoffHolds
<1>5. CASE UNCHANGED host  BY <1>1, <1>3, <1>4, <1>5, HandoffKeeps
<1>6. CASE host' = SettleFailed(host, r, "Failed")
  BY <1>1, <1>3, <1>4, <1>6, HandoffFails, HandoffKeeps DEF HandoffThere
<1>7. CASE host' = Settle(IF r.mode = "live" THEN [host EXCEPT !.sub = "on"] ELSE host, r, "Subscribed", 0)
  <2> DEFINE h == IF r.mode = "live" THEN Opened(host) ELSE host
             s == Opened(host)
  <2>1. /\ HostShape(s, "handoff") /\ s.run = host.run /\ s.st = host.st /\ s.wf = host.wf
        /\ s.outcome = host.outcome  BY <1>1, OpenedShape DEF HandoffFacts
  <2>0. h = (IF r.mode = "live" THEN s ELSE host) /\ host' = Settle(h, r, "Subscribed", 0)
    BY <1>7 DEF Opened
  <2> HIDE DEF s, h
  <2>2. HandoffThere(s)
    BY <1>4, <2>1 DEF HandoffThere, HandoffHost, HandoffInv, HandoffRunning, HandoffEnding, Has
  <2>3. HandoffThere(h) /\ r \in h.run  BY <1>4, <2>0, <2>1, <2>2
  <2>4. HandoffTrue(Event(r.eff, "Subscribed", 0), dev'.pending = 0, ~dev'.sync)  BY DEF HandoffTrue, Event
  <2>5. HandoffThere(host') /\ host'.st \in {"running", "ending"}
    BY <2>0, <2>3, <2>4, HandoffSettles DEF HandoffThere
  <2> QED  BY <1>1, <1>3, <2>5, HandoffKeeps
<1> QED  BY <1>5, <1>6, <1>7 DEF Subscribe

\* The subscription of a hand-off is removed, or its removal fails.
LEMMA HandoffUnsubscribe ==
  ASSUME HandoffState, AmbientType', NEW r \in host.run, Unsubscribe(r)
  PROVE  HandoffState'
<1>1. HandoffFacts /\ host.st \in {"running", "ending"} /\ UNCHANGED <<sink, told, dev>>
      /\ inbox' = <<>> /\ host' = Without(host, r)
  BY HandoffKnown DEF HandoffFacts, Unsubscribe, Radio, Done, Without
<1>2. HandoffWorld  BY <1>1 DEF HandoffWorld, HandoffFacts
<1>3. HandoffThere(host') /\ host'.st \in {"running", "ending"}
  BY <1>1, <1>2, HandoffHolds, HandoffWithout DEF HandoffThere
<1> QED  BY <1>1, <1>2, <1>3, HandoffKeeps

\* Every effect of a hand-off keeps its invariant.
LEMMA HandoffEffect ==
  ASSUME HandoffState, AmbientType', Effect
  PROVE  HandoffState'
<1>1. PICK r \in host.run :
        \/ Write(r) \/ Read(r) \/ Subscribe(r) \/ Unsubscribe(r) \/ Scan(r)
        \/ Save(r) \/ DeleteCheckpoint(r) \/ SaveResult(r) \/ SaveJournal(r) \/ AskApp(r)
        \/ PrepareGrant(r) \/ SinkBegins(r) \/ Discard(r)  BY DEF Effect
<1>2. r.eff \in HandoffEffs  BY HandoffKnown DEF HandoffFacts
<1>3. ~(Scan(r) \/ Save(r) \/ DeleteCheckpoint(r) \/ SaveResult(r) \/ SaveJournal(r) \/ AskApp(r)
        \/ PrepareGrant(r) \/ SinkBegins(r) \/ Discard(r))
  BY <1>2 DEF HandoffEffs, Scan, Save, DeleteCheckpoint, SaveResult, SaveJournal, AskApp,
        PrepareGrant, SinkBegins, Discard, Saves, SinkWork
<1> QED  BY <1>1, <1>3, HandoffWrite, HandoffRead, HandoffSubscribe, HandoffUnsubscribe

\* The device may answer the trigger before the write is reported.
LEMMA HandoffAhead ==
  ASSUME HandoffState, AmbientType', Ahead
  PROVE  HandoffState'
<1>1. PICK r \in host.run : WriteExecutes(r)  BY DEF Ahead
<1>2. HandoffFacts /\ r.eff = "WriteTrigger" /\ host.st \in {"running", "ending"}
  BY <1>1, HandoffKnown DEF HandoffFacts, WriteExecutes, HandoffEffs
<1>3. UNCHANGED <<host, sink, told>> /\ link'.cccd = link.cccd /\ DeviceTakes(r.eff)
  BY <1>1, <1>2 DEF WriteExecutes, Radio, LinkType, HandoffFacts
<1> QED  BY <1>2, <1>3, HandoffDevice, HandoffStays

\* The application asks who sends the recordings.
LEMMA HandoffStarts ==
  ASSUME HandoffState, AmbientType', used.family = "handoff", StartOperation
  PROVE  HandoffState'
<1>1. /\ HandoffFacts /\ host.st = "idle" /\ host' = Begin(Idle, HandoffStart) /\ told' = "none"
      /\ UNCHANGED <<sink, link, inbox, dev>>
  BY HandoffKnown DEF StartOperation, FactoryReset, ResumeFactoryReset, StartStreaming,
        ObserveUploadOwnership, ReadDeviceLogs, StartScan, StartOp
<1> DEFINE n == [ kind |-> "handoff", phase |-> "ReadingStatus", purpose |-> "initial",
                  outcome |-> "none", waits |-> {} ]
           i == [n EXCEPT !.purpose = "initial"]
           w == [i EXCEPT !.phase = "ReadingStatus", !.waits = @ \cup {"ReadStatus"}]
           r == HandoffStart
<1>2. n \in HandoffWf /\ n.waits = {}  BY DEF HandoffWf, HandoffPhases, HandoffEffects, Purposes
<1>3. r.wf = w /\ r.out = {"ReadStatus"}  BY DEF HandoffStart, ReadStatus
<1> HIDE DEF n
<1>8. i \in HandoffWf /\ i.waits = {}  BY <1>2 DEF HandoffWf, Purposes
<1> HIDE DEF i
<1>4. w \in HandoffWf /\ w.waits = {"ReadStatus"} /\ w.kind = "handoff"
  BY <1>8 DEF HandoffWf, HandoffPhases, HandoffEffects
<1>5. w.phase = "ReadingStatus"  BY <1>8 DEF HandoffWf
<1> HIDE DEF w, r
<1>6. r.wf \in Workflow /\ r.wf.kind = "handoff" /\ ~Terminal(r.wf)
  BY <1>3, <1>4, <1>5 DEF Workflow, Terminal
<1>7. /\ HostShape(host', "handoff") /\ host'.st = "running" /\ host'.wf = w /\ host'.outcome = "none"
      /\ \A q \in host'.run : q.eff = "ReadStatus"
  <2>1. host' = Begin(Idle, r)  BY <1>1 DEF r
  <2>2. /\ HostShape(Begin(Idle, r), "handoff") /\ Begin(Idle, r).st = "running" /\ Begin(Idle, r).wf = r.wf
        /\ Begin(Idle, r).outcome = "none" /\ \A q \in Begin(Idle, r).run : q.eff \in r.out
    BY SMTT(60), <1>6, IdleBegins
  <2> QED  BY <1>3, <2>1, <2>2
<1>11. HandoffRunning(host')  BY <1>4, <1>5, <1>7 DEF HandoffRunning, HandoffWaits, HandoffWork
<1>9. HandoffFamily'
  BY <1>1, <1>4, <1>7, <1>11 DEF HandoffFamily, HandoffHost, HandoffInv, HandoffFacts, Decided
<1>10. Ambient' /\ NoReset' /\ NoStream'  BY <1>1, <1>7 DEF Ambient, NoReset, NoStream, HandoffFacts
<1> QED  BY <1>9, <1>10 DEF HandoffState

\* The application cancels a hand-off.
LEMMA HandoffCancels ==
  ASSUME HandoffState, AmbientType', AppCancels
  PROVE  HandoffState'
<1>1. /\ HandoffFacts /\ host.st \in {"running", "ending"} /\ UNCHANGED <<sink, link, inbox, dev, told>>
  BY HandoffKnown DEF AppCancels
<1>2. host' = CancelOperation(host, "cancelled")  BY <1>1 DEF AppCancels, OnApple, HandoffFacts
<1>3. HandoffWorld  BY <1>1 DEF HandoffWorld, HandoffFacts
<1>4. HandoffThere(host') /\ host'.st \in {"running", "ending"}
  BY <1>1, <1>2, <1>3, HandoffHolds, HandoffCancelled DEF HandoffThere
<1> QED  BY <1>1, <1>3, <1>4, HandoffKeeps

\* A timer, the loss of the link, a notification.
LEMMA HandoffHears ==
  ASSUME HandoffState, AmbientType', TimerElapses \/ HearDrop \/ Deliver
  PROVE  HandoffState'
<1>1. HandoffFacts  BY HandoffKnown
<1>2. /\ UNCHANGED <<sink, dev, told>> /\ link'.cccd = link.cccd
  BY <1>1 DEF TimerElapses, HearDrop, Deliver, Radio, LinkType, HandoffFacts
<1>3. inbox' = inbox \/ (inbox # <<>> /\ inbox' = Tail(inbox))  BY DEF TimerElapses, HearDrop, Deliver
<1>4. HandoffWorld
  <2>1. inbox' \in Seq(HandoffNotes) /\ (~link'.cccd => inbox' = <<>>)
    BY <1>1, <1>2, <1>3, HeadTailProperties DEF HandoffFacts
  <2> QED  BY <1>1, <1>2, <2>1 DEF HandoffWorld, HandoffFacts
<1>5. HandoffThere(host)  BY <1>4, HandoffHolds
<1>6. CASE host' = host  BY <1>2, <1>4, <1>6, HandoffStays
<1>7. CASE host.st = "running" /\ host' = CancelOperation(host, "failed")
  <2>1. HandoffThere(host') /\ host'.st \in {"running", "ending"}
    BY <1>5, <1>7, HandoffCancelled DEF HandoffThere
  <2> QED  BY <1>4, <1>7, <2>1, HandoffKeeps
<1>8. CASE /\ host.st = "running"
           /\ \E e : /\ HandoffTrue(e, dev'.pending = 0, ~dev'.sync)
                     /\ \A q \in host.run : q.eff = e.of => e.type \in {"Notification", "Disconnected"}
                     /\ host' = Emit(host, e)
  <2>1. HandoffThere(host') /\ host'.st \in {"running", "ending"}
    BY <1>5, <1>8, HandoffEmit DEF HandoffThere
  <2> QED  BY <1>4, <1>8, <2>1, HandoffKeeps
<1>9. \/ host' = host
      \/ host.st = "running" /\ host' = CancelOperation(host, "failed")
      \/ /\ host.st = "running"
         /\ \E e : /\ HandoffTrue(e, dev'.pending = 0, ~dev'.sync)
                   /\ \A q \in host.run : q.eff = e.of => e.type \in {"Notification", "Disconnected"}
                   /\ host' = Emit(host, e)
  <2>1. CASE TimerElapses
    <3>1. PICK t \in Timers : host' = Emit(host, Event(t, "TimerFired", 0))  BY <2>1 DEF TimerElapses
    <3>2. HandoffTrue(Event(t, "TimerFired", 0), dev'.pending = 0, ~dev'.sync)  BY DEF HandoffTrue, Event
    <3>3. \A q \in host.run : q.eff # Event(t, "TimerFired", 0).of
      BY <1>1 DEF Event, Timers, HandoffEffs, HandoffFacts
    <3>4. host.st # "running" => host' = host  BY <3>1 DEF Emit
    <3> QED  BY <3>1, <3>2, <3>3, <3>4
  <2>2. CASE HearDrop
    <3> DEFINE e == Event("Subscribe", "Disconnected", 0)
    <3>1. HandoffTrue(e, dev'.pending = 0, ~dev'.sync) /\ e.type = "Disconnected"  BY DEF HandoffTrue, Event
    <3>2. \/ host' = host
          \/ host.st = "running" /\ host' = CancelOperation(host, "failed")
          \/ host.st = "running" /\ host' = Emit(host, e)
      <4>1. host.st = "running" => ~OnApple(host)  BY <1>1 DEF HandoffFacts, OnApple
      <4> QED  BY <2>2, <4>1 DEF HearDrop, Disconnected
    <3> HIDE DEF e
    <3> QED  BY <3>1, <3>2
  <2>3. CASE Deliver
    <3> DEFINE e == Event("Subscribe", "Notification", Head(inbox))
    <3>1. HandoffTrue(e, dev'.pending = 0, ~dev'.sync) /\ e.type = "Notification"
      <4>1. Head(inbox) \in HandoffNotes  BY <1>1, <2>3, HeadTailProperties DEF Deliver, HandoffFacts
      <4> QED  BY <4>1 DEF HandoffTrue, Event
    <3>2. host' = host \/ (host.st = "running" /\ host' = Emit(host, e))
      <4>1. host.st # "running" => Emit(host, e) = host  BY DEF Emit
      <4>2. host' = host \/ host' = Emit(host, e)  BY <2>3 DEF Deliver
      <4> HIDE DEF e
      <4> QED  BY <4>1, <4>2
    <3> HIDE DEF e
    <3> QED  BY <3>1, <3>2
  <2> QED  BY <2>1, <2>2, <2>3
<1> QED  BY <1>6, <1>7, <1>8, <1>9

\* The link is lost or is back; the device uploads on its own.
LEMMA HandoffLink ==
  ASSUME HandoffState, AmbientType', LinkLost \/ Reconnect \/ DeviceUploads
  PROVE  HandoffState'
<1>1. HandoffFacts /\ link \in LinkType /\ dev \in DevType  BY HandoffKnown DEF HandoffFacts
<1>2. /\ UNCHANGED <<host, sink, told>> /\ (link'.cccd => link.cccd)
      /\ inbox' = <<>> \/ (inbox' = inbox /\ link'.cccd = link.cccd)
      /\ dev.pending = 0 => dev'.pending = 0
      /\ ~dev.sync => ~dev'.sync
      /\ dev'.held = NoResult /\ dev'.next = 0 /\ ~dev'.logging
  <2>1. CASE LinkLost  BY <1>1, <2>1, DetachedType DEF LinkLost, Radio, LinkType, HandoffFacts
  <2>2. CASE Reconnect  BY <1>1, <2>2 DEF Reconnect, Radio, LinkType, HandoffFacts
  <2>3. CASE DeviceUploads
    <3>1. \/ dev' = [dev EXCEPT !.sync = FALSE]
          \/ dev.pending > 0 /\ dev' = [dev EXCEPT !.pending = @ - 1, !.sync = dev.pending > 1]
      BY <2>3 DEF DeviceUploads
    <3>2. dev.sync /\ dev.pending \in Nat  BY <1>1, <2>3 DEF DeviceUploads, DevType
    <3>3. /\ dev'.held = dev.held /\ dev'.next = dev.next /\ dev'.logging = dev.logging
          /\ dev.pending = 0 => dev'.pending = 0
      <4>1. CASE dev' = [dev EXCEPT !.sync = FALSE]  BY <1>1, <4>1 DEF DevType
      <4>2. CASE dev.pending > 0 /\ dev' = [dev EXCEPT !.pending = @ - 1, !.sync = dev.pending > 1]
        BY <1>1, <3>2, <4>2 DEF DevType
      <4> QED  BY <3>1, <4>1, <4>2
    <3> QED  BY <1>1, <2>3, <3>2, <3>3 DEF DeviceUploads, HandoffFacts
  <2> QED  BY <2>1, <2>2, <2>3
<1>3. HandoffWorld
  <2>1. inbox' \in Seq(HandoffNotes) /\ (~link'.cccd => inbox' = <<>>)
    <3>1. CASE inbox' = <<>>  BY <3>1
    <3>2. CASE inbox' = inbox /\ link'.cccd = link.cccd  BY <1>1, <3>2 DEF HandoffFacts
    <3> QED  BY <1>2, <3>1, <3>2
  <2> QED  BY <1>2, <2>1 DEF HandoffWorld
<1> QED  BY <1>2, <1>3, HandoffStays

\* The handoff is over, or the process ends.
LEMMA HandoffEnds ==
  ASSUME HandoffState, AmbientType', Finish \/ Restart
  PROVE  HandoffState'
<1>1. /\ HandoffFacts /\ link \in LinkType /\ dev \in DevType
      /\ Decided(told, dev.pending = 0, ~dev.sync)
  BY HandoffKnown DEF HandoffFacts, HandoffState, HandoffFamily
<1>2. /\ sink' = NoSink /\ inbox' = <<>> /\ ~link'.cccd
      /\ dev'.pending = dev.pending /\ dev'.sync = dev.sync /\ dev'.held = NoResult /\ dev'.next = 0 /\ ~dev'.logging
      /\ host'.st \in {"idle", "stuck"} /\ HostShape(host', "handoff")
      /\ Decided(told', dev'.pending = 0, ~dev'.sync)
  <2>1. CASE Restart
    <3>1. Decided(told', dev'.pending = 0, ~dev'.sync)  BY <2>1 DEF Restart, Decided
    <3> QED  BY <1>1, <2>1, <3>1, DetachedType, IdleShape DEF Restart, HandoffFacts
  <2>2. CASE Finish
    <3>1. host.st = "ending" /\ host.wf.kind = "handoff" /\ UNCHANGED dev /\ inbox' = <<>>
          /\ sink' = NoSink /\ ~link'.cccd
      BY <1>1, <2>2 DEF Finish, LinkType, HandoffFacts
    <3>2. \/ host' = [Idle EXCEPT !.st = "stuck"] /\ told' = "failed"
          \/ host' = Idle /\ told' = host.outcome
      BY <2>2, <3>1 DEF Finish
    <3>3. Decided(told', dev'.pending = 0, ~dev'.sync)
      <4>1. Decided(host.outcome, dev.pending = 0, ~dev.sync)
        BY <1>1, <3>1 DEF HandoffFacts, HandoffHost, HandoffInv
      <4> QED  BY <3>1, <3>2, <4>1 DEF Decided
    <3>4. host'.st \in {"idle", "stuck"} /\ HostShape(host', "handoff")
      <4> DEFINE s == [Idle EXCEPT !.st = "stuck"]
      <4> HIDE DEF Idle
      <4>1. s \in HostType /\ s.st = "stuck" /\ s.run = {} /\ s.wf = [kind |-> "none"]
        BY IdleShape DEF HostType
      <4> HIDE DEF s
      <4>2. HostShape(s, "handoff")  BY <4>1 DEF HostShape
      <4>3. host' = s \/ host' = Idle  BY <3>2 DEF s
      <4> QED  BY <4>1, <4>2, <4>3, IdleShape
    <3> QED  BY <1>1, <3>1, <3>3, <3>4 DEF HandoffFacts
  <2> QED  BY <2>1, <2>2
<1>3. HandoffFamily'  BY <1>2 DEF HandoffFamily, HandoffHost
<1>4. Ambient' /\ NoReset' /\ NoStream'  BY <1>2 DEF Ambient, NoReset, NoStream
<1> QED  BY <1>3, <1>4 DEF HandoffState

\* No step of the others is one of the handoff.
LEMMA HandoffNext ==
  ASSUME HandoffState, used.family = "handoff", NativeNext
  PROVE  HandoffState'
<1>1. HandoffFacts  BY HandoffKnown
<1>2. AmbientType'  BY <1>1, AmbientStep DEF HandoffFacts
<1>3. CASE StartOperation  BY <1>2, <1>3, HandoffStarts
<1>4. CASE AppCancels  BY <1>2, <1>4, HandoffCancels
<1>5. CASE Effect  BY <1>2, <1>5, HandoffEffect
<1>6. CASE Ahead  BY <1>2, <1>6, HandoffAhead
<1>7. CASE TimerElapses \/ HearDrop \/ Deliver  BY <1>2, <1>7, HandoffHears
<1>8. CASE LinkLost \/ Reconnect \/ DeviceUploads  BY <1>2, <1>8, HandoffLink
<1>9. CASE Finish \/ Restart  BY <1>2, <1>9, HandoffEnds
<1>10. ~Refused  BY <1>1 DEF Refused, Quarantined, HandoffEffs, HandoffFacts
<1>11. ~SinkSteps
  BY <1>1 DEF SinkSteps, BackgroundFlush, UploadChunk, FinalizeAsked, JobStops, NoSink, HandoffFacts
<1>12. ~Candidate /\ ~DeviceSends /\ ~DeviceLogs
  BY <1>1 DEF Candidate, DeviceSends, DeviceLogs, HandoffFacts
<1>13. ~ClearResetOwner  BY DEF ClearResetOwner, HandoffState, NoReset
<1> QED  BY <1>3, <1>4, <1>5, <1>6, <1>7, <1>8, <1>9, <1>10, <1>11, <1>12, <1>13 DEF NativeNext

-----------------------------------------------------------------------------
(* Discovery *)

\* What an accepted transition of a scan asks for (discovery.rs).
LEMMA DiscoverDispatchStep ==
  ASSUME NEW w \in DiscoverWf, NEW e, ~DiscoverDispatch(w, e).rejected
  PROVE  DiscoverStep(DiscoverDispatch(w, e))
<1> DEFINE r == DiscoverDispatch(w, e)
<1>1. CASE w.phase = "Scanning" /\ e.type = "ScanResult"
  <2>1. r = [wf |-> w, out |-> {}, rejected |-> FALSE]  BY <1>1 DEF DiscoverDispatch
  <2> QED  BY <2>1 DEF DiscoverStep
<1>2. CASE w.phase = "Scanning" /\ e.type = "TimerFired"
  <2> DEFINE u == [w EXCEPT !.phase = "Stopping", !.waits = @ \cup {"StopScan"}]
  <2>1. r = [wf |-> u, out |-> {"StopScan"}, rejected |-> FALSE]  BY <1>2 DEF DiscoverDispatch
  <2>2. u \in DiscoverWf  BY DEF DiscoverWf, DiscoverPhases, DiscoverEffects
  <2> QED  BY <2>1, <2>2 DEF DiscoverStep
<1>3. CASE w.phase = "Stopping" /\ e.of = "StopScan" /\ e.type = "ScanStopped"
  <2> DEFINE u == [w EXCEPT !.phase = "Completed"]
  <2>1. r = [wf |-> u, out |-> {}, rejected |-> FALSE]  BY <1>3 DEF DiscoverDispatch
  <2>2. u \in DiscoverWf  BY DEF DiscoverWf, DiscoverPhases
  <2> QED  BY <2>1, <2>2 DEF DiscoverStep
<1>4. CASE /\ ~(w.phase = "Scanning" /\ e.type \in {"ScanResult", "TimerFired"})
           /\ ~(w.phase = "Stopping" /\ e.of = "StopScan" /\ e.type = "ScanStopped")
  <2>1. r = [wf |-> w, out |-> {}, rejected |-> TRUE]  BY <1>4 DEF DiscoverDispatch
  <2> QED  BY <2>1
<1> QED  BY <1>1, <1>2, <1>3, <1>4

\* The scan ends: what runs, and the scan that is stopped.
LEMMA DiscoverCloses ==
  ASSUME NEW h, DiscoverHost(h), h.st = "running", NEW outcome \in {"failed", "cancelled"}
  PROVE  LET g == Ending(h, CancelAnswer(h.wf), outcome)
         IN DiscoverHost(g) /\ g.st = "ending"
<1> DEFINE out == CancelAnswer(h.wf)
           g == Ending(h, out, outcome)
<1>1. HostShape(h, "discover") /\ h.wf.kind = "discover" /\ h.wf \in DiscoverWf
      /\ \A r \in h.run : r.eff \in {"StartScan", "StopScan"}  BY DEF DiscoverHost, DiscoverInv, HostShape
<1>2. \A x \in out : x \in {"CancelScanTimer", "StopScan"}  BY <1>1 DEF CancelAnswer, DiscoverCancel
<1>3. "CancelScanTimer" \notin HostEffects  BY DEF HostEffects, Writes, Reads, Saves, Results, SinkWork
<1>4. HostShape(g, "discover") /\ Ended(g, h, out, outcome)  BY <1>1, EndingShape DEF Outcomes
<1> HIDE DEF out, g
<1>5. \A q \in g.run : q.eff \in HostEffects  BY <1>4 DEF HostShape, HostType, Submitted
<1>6. \A q \in g.run : q.eff \in {"StartScan", "StopScan"}  BY <1>1, <1>2, <1>3, <1>4, <1>5 DEF Ended
<1>7. DiscoverHost(g) /\ g.st = "ending"  BY <1>1, <1>4, <1>6 DEF DiscoverHost, DiscoverInv, Ended
<1> QED  BY <1>7 DEF g, out

\* The discovery hears an event.
LEMMA DiscoverEmit ==
  ASSUME NEW h, DiscoverHost(h), h.st = "running", NEW e
  PROVE  DiscoverHost(Emit(h, e)) /\ Emit(h, e).st \in {"running", "ending"}
<1> DEFINE r == EngineAnswer(h.wf, e)
<1>1. HostShape(h, "discover") /\ h.wf.kind = "discover" /\ h.wf \in DiscoverWf
      /\ \A q \in h.run : q.eff \in {"StartScan", "StopScan"}
      /\ h.outcome \in {"none", "done", "failed", "cancelled"}  BY DEF DiscoverHost, DiscoverInv, HostShape
<1>2. r = DiscoverDispatch(h.wf, e)  BY <1>1 DEF EngineAnswer
<1>3. \/ Emit(h, e) = Ending(h, CancelAnswer(h.wf), "failed")
      \/ ~r.rejected /\ \E pend \in SUBSET (HostEffects \cup Timers) : Emit(h, e) = Accept(h, r, pend)
  BY <1>1, EmitCases
<1> HIDE DEF r
<1>4. CASE Emit(h, e) = Ending(h, CancelAnswer(h.wf), "failed")  BY <1>4, DiscoverCloses
<1>5. CASE ~r.rejected /\ \E pend \in SUBSET (HostEffects \cup Timers) : Emit(h, e) = Accept(h, r, pend)
  <2>1. PICK pend \in SUBSET (HostEffects \cup Timers) : Emit(h, e) = Accept(h, r, pend)  BY <1>5
  <2> DEFINE g == Accept(h, r, pend)
             a == [h EXCEPT !.wf = r.wf]
  <2>2. /\ r.wf \in DiscoverWf /\ r.out \cap HostEffects \subseteq {"StartScan", "StopScan"}
        /\ r.wf.kind = "discover" /\ r.wf \in Workflow
    BY <1>1, <1>2, <1>5, DiscoverDispatchStep DEF DiscoverStep, DiscoverWf, Workflow
  <2>3. /\ HostShape(g, "discover")
        /\ IF Terminal(r.wf) THEN Ended(g, a, r.out, Outcome(r.wf)) /\ g.wf = r.wf ELSE Went(g, h, r)
    BY <1>1, <2>2, AcceptShape
  <2>4. Outcome(r.wf) \in {"failed", "done"}  BY <2>2 DEF Outcome
  <2>5. a.run = h.run  BY <1>1 DEF HostShape, HostType
  <2> HIDE DEF g, a
  <2>6. \A q \in g.run : q.eff \in HostEffects  BY <2>3 DEF HostShape, HostType, Submitted
  <2>7. \A q \in g.run : q.eff \in {"StartScan", "StopScan"}
    BY <1>1, <2>2, <2>3, <2>5, <2>6 DEF Ended, Went
  <2>8. DiscoverHost(g) /\ g.st \in {"running", "ending"}
    BY <1>1, <2>2, <2>3, <2>4, <2>7 DEF DiscoverHost, DiscoverInv, Ended, Went
  <2> QED  BY <2>1, <2>8 DEF g
<1> QED  BY <1>3, <1>4, <1>5

\* An effect of the scan leaves the host, settles or fails.
LEMMA DiscoverSettles ==
  ASSUME NEW h, DiscoverHost(h), NEW r \in h.run, NEW type, NEW val
  PROVE  /\ DiscoverHost(Without(h, r)) /\ Without(h, r).st \in {"running", "ending"}
         /\ DiscoverHost(Settle(h, r, type, val)) /\ Settle(h, r, type, val).st \in {"running", "ending"}
<1> DEFINE s == Without(h, r)
           e == Event(Source(r.eff), type, val)
           g == Settle(h, r, type, val)
<1>1. HostShape(h, "discover") /\ h.st \in {"running", "ending"} /\ r \in Submitted
      /\ (r.mode = "live" => h.st = "running")  BY DEF DiscoverHost, HostShape, HostType
<1>2. /\ HostShape(s, "discover") /\ s.run = h.run \ {r}
      /\ s.st = h.st /\ s.wf = h.wf /\ s.outcome = h.outcome  BY <1>1, WithoutShape
<1>3. g = IF r.mode = "live" THEN Emit(s, e) ELSE s  BY DEF Settle, Without
<1> HIDE DEF s, e, g
<1>4. DiscoverHost(s)  BY <1>1, <1>2 DEF DiscoverHost, DiscoverInv
<1>5. DiscoverHost(g) /\ g.st \in {"running", "ending"}  BY <1>1, <1>2, <1>3, <1>4, DiscoverEmit
<1> QED  BY <1>1, <1>2, <1>4, <1>5 DEF s, g

\* A failed stop keeps the owner.
LEMMA DiscoverFails ==
  ASSUME NEW h, DiscoverHost(h), NEW r \in h.run, NEW type
  PROVE  DiscoverHost(SettleFailed(h, r, type)) /\ SettleFailed(h, r, type).st \in {"running", "ending"}
<1>1. r \in Submitted  BY DEF DiscoverHost, HostShape, HostType
<1>2. CASE r.mode \in {"live", "stale"}
  <2>1. SettleFailed(h, r, type) = Settle(h, r, type, 0)  BY <1>2 DEF SettleFailed, Settle
  <2> QED  BY <2>1, DiscoverSettles
<1>3. CASE r.mode = "clean"
  <2> DEFINE s == Without(h, r)
             g == [s EXCEPT !.dirty = ~OnApple(h)]
  <2>1. DiscoverHost(s) /\ s.st = h.st  BY DiscoverSettles, WithoutShape DEF DiscoverHost
  <2>2. h.st = "ending"  BY <1>3 DEF DiscoverHost, HostShape, HostType
  <2>0. SettleFailed(h, r, type) = g  BY <1>3 DEF SettleFailed, Without
  <2> HIDE DEF s
  <2>3. s \in HostType /\ (~OnApple(h)) \in BOOLEAN  BY <2>1 DEF DiscoverHost, HostShape
  <2>4. g \in HostType /\ g.st = s.st /\ g.wf = s.wf /\ g.outcome = s.outcome /\ g.run = s.run
    BY <2>3 DEF HostType
  <2> HIDE DEF g
  <2>5. DiscoverHost(g)  BY <2>1, <2>2, <2>4 DEF DiscoverHost, HostShape, DiscoverInv
  <2> QED  BY <2>0, <2>1, <2>2, <2>4, <2>5
<1> QED  BY <1>1, <1>2, <1>3 DEF Submitted

\* The host or the application gives up.
LEMMA DiscoverCancelled ==
  ASSUME NEW h, DiscoverHost(h), h.st \in {"running", "ending"}, NEW outcome \in {"failed", "cancelled"}
  PROVE  DiscoverHost(CancelOperation(h, outcome)) /\ CancelOperation(h, outcome).st \in {"running", "ending"}
<1>1. CASE h.st = "running"
  <2>1. CancelOperation(h, outcome) = Ending(h, CancelAnswer(h.wf), outcome)  BY <1>1 DEF CancelOperation
  <2> QED  BY <1>1, <2>1, DiscoverCloses
<1>2. CASE h.st = "ending"
  <2> DEFINE g == CancelOperation(h, outcome)
  <2>1. HostShape(h, "discover")  BY DEF DiscoverHost
  <2>2. HostShape(g, "discover")
        /\ (g = h \/ (g.st = "ending" /\ g.outcome = "failed" /\ g.wf = h.wf /\ g.run = h.run))
    BY <1>2, <2>1, CancelShape
  <2> HIDE DEF g
  <2>3. DiscoverHost(g) /\ g.st = "ending"  BY <1>2, <2>2 DEF DiscoverHost, DiscoverInv
  <2> QED  BY <2>3 DEF g
<1> QED  BY <1>1, <1>2

\* A step that leaves the world of a scan alone keeps its invariant when the host does.
LEMMA DiscoverKeeps ==
  ASSUME DiscoverState, AmbientType', DiscoverWorld, DiscoverHost(host'),
         host'.st \in {"running", "ending"} \/ (UNCHANGED <<told, host>> /\ (link'.cccd => link.cccd))
  PROVE  DiscoverState'
<1>1. host'.st # "clearing"  BY DEF DiscoverState, NoReset
<1>2. host'.st = "idle" /\ told' = "cancelled" => ~link'.cccd  BY DEF DiscoverState, Ambient
<1> QED  BY <1>1, <1>2 DEF DiscoverState, DiscoverWorld, Ambient, NoReset, NoStream, NoEarly

\* The timer, a candidate and the end of the link keep the invariant of a scan.
LEMMA DiscoverHears ==
  ASSUME DiscoverState, AmbientType', TimerElapses \/ Candidate \/ HearDrop \/ Deliver
  PROVE  DiscoverState'
<1>1. /\ DiscoverHost(host) /\ Ambient /\ link \in LinkType /\ ~link.ahead
      /\ sink = NoSink /\ dev.held = NoResult /\ dev.next = 0 /\ ~dev.logging
  BY DEF DiscoverState, Ambient, AmbientType, NoReset, NoStream, NoEarly
<1>2. UNCHANGED <<sink, dev, told>> /\ link'.cccd = link.cccd /\ ~link'.ahead
  BY <1>1 DEF TimerElapses, Candidate, HearDrop, Deliver, Radio, LinkType
<1>3. DiscoverWorld
  <2>1. ~link'.cccd => inbox' = <<>>  BY <1>1, <1>2 DEF TimerElapses, Candidate, HearDrop, Deliver, Ambient
  <2> QED  BY <1>1, <1>2, <2>1 DEF DiscoverWorld
<1>4. \/ host' = host
      \/ host.st = "running" /\ host' = CancelOperation(host, "failed")
      \/ host.st = "running" /\ \E e : host' = Emit(host, e)
  <2>1. \A e : host.st # "running" => Emit(host, e) = host  BY DEF Emit
  <2>2. host.st = "running" => ~OnApple(host) /\ host.wf.kind = "discover"
    BY <1>1 DEF OnApple, DiscoverHost, HostShape
  <2>3. Disconnected(host) = host
        \/ (host.st = "running" /\ Disconnected(host) = CancelOperation(host, "failed"))
    BY <2>2 DEF Disconnected
  <2>4. HearDrop => \/ host' = host
                    \/ host.st = "running" /\ host' = CancelOperation(host, "failed")
    BY <2>3 DEF HearDrop
  <2>5. TimerElapses \/ Candidate \/ Deliver => host' = host \/ \E e : host' = Emit(host, e)
    BY DEF TimerElapses, Candidate, Deliver
  <2> QED  BY <2>1, <2>4, <2>5
<1>5. host' = host \/ (DiscoverHost(host') /\ host'.st \in {"running", "ending"})
  BY <1>1, <1>4, DiscoverEmit, DiscoverCancelled
<1> QED  BY <1>1, <1>2, <1>3, <1>5, DiscoverKeeps

\* The effects of a scan and its cancellation keep its invariant.
LEMMA DiscoverEffect ==
  ASSUME DiscoverState, AmbientType', Effect \/ AppCancels
  PROVE  DiscoverState'
<1>1. /\ DiscoverHost(host) /\ Ambient /\ ~link.ahead
      /\ sink = NoSink /\ dev.held = NoResult /\ dev.next = 0 /\ ~dev.logging
  BY DEF DiscoverState, Ambient, NoReset, NoStream, NoEarly
<1>2. \A r \in host.run : r.eff \in {"StartScan", "StopScan"}
  BY <1>1 DEF DiscoverHost, HostShape, DiscoverInv, HostType
<1>3. CASE Effect
  <2>1. PICK r \in host.run :
          \/ Write(r) \/ Read(r) \/ Subscribe(r) \/ Unsubscribe(r) \/ Scan(r)
          \/ Save(r) \/ DeleteCheckpoint(r) \/ SaveResult(r) \/ SaveJournal(r) \/ AskApp(r)
          \/ PrepareGrant(r) \/ SinkBegins(r) \/ Discard(r)
    BY <1>3 DEF Effect
  <2>2. ~(\/ Write(r) \/ Read(r) \/ Subscribe(r) \/ Unsubscribe(r) \/ Save(r) \/ DeleteCheckpoint(r)
          \/ SaveResult(r) \/ SaveJournal(r) \/ AskApp(r) \/ PrepareGrant(r) \/ SinkBegins(r) \/ Discard(r))
    BY <1>2 DEF Write, Writes, Read, Reads, Subscribe, Unsubscribe, Save, Saves, DeleteCheckpoint,
          SaveResult, SaveJournal, AskApp, PrepareGrant, SinkBegins, SinkWork, Discard
  <2>3. UNCHANGED <<link, inbox, dev, sink>>
        /\ (\/ host' = Without(host, r) \/ host' = SettleFailed(host, r, "Failed")
            \/ host' = Settle(host, r, "ScanStopped", 0))
    BY <2>1, <2>2 DEF Scan, Radio, Done, Without
  <2>4. DiscoverHost(host') /\ host'.st \in {"running", "ending"}
    BY <1>1, <2>3, DiscoverSettles, DiscoverFails
  <2>5. DiscoverWorld  BY <1>1, <2>3 DEF DiscoverWorld, Ambient
  <2> QED  BY <2>4, <2>5, DiscoverKeeps
<1>4. CASE AppCancels
  <2>1. host.st \in {"running", "ending"} /\ ~OnApple(host)
    BY <1>1, <1>4 DEF AppCancels, OnApple, DiscoverHost, HostShape
  <2>2. UNCHANGED <<link, inbox, dev, sink>> /\ host' = CancelOperation(host, "cancelled")
    BY <1>4, <2>1 DEF AppCancels
  <2>3. DiscoverHost(host') /\ host'.st \in {"running", "ending"}  BY <1>1, <2>1, <2>2, DiscoverCancelled
  <2>4. DiscoverWorld  BY <1>1, <2>2 DEF DiscoverWorld, Ambient
  <2> QED  BY <2>3, <2>4, DiscoverKeeps
<1> QED  BY <1>3, <1>4

\* The application starts a scan.
LEMMA DiscoverStarts ==
  ASSUME DiscoverState, AmbientType', used.family = "discover", StartOperation
  PROVE  DiscoverState'
<1> DEFINE w == [kind |-> "discover", phase |-> "Scanning", waits |-> {"StartScan", "ScanTimer"}]
           r == DiscoverStart
<1>1. host' = Begin(Idle, r) /\ UNCHANGED <<sink, link, inbox, dev>>
  BY DEF StartOperation, FactoryReset, ResumeFactoryReset, StartStreaming,
        ObserveUploadOwnership, ReadDeviceLogs, StartScan, StartOp
<1>2. w \in DiscoverWf /\ w.kind = "discover"  BY DEF DiscoverWf, DiscoverPhases, DiscoverEffects
<1>3. r.wf = w /\ r.out = {"StartScan", "ScanTimer"}  BY DEF DiscoverStart
<1>4. r.wf \in Workflow /\ r.wf.kind = "discover" /\ ~Terminal(r.wf)  BY <1>2, <1>3 DEF Workflow, Terminal
<1> HIDE DEF r, w
<1>5. /\ HostShape(host', "discover") /\ host'.st = "running" /\ host'.wf = w /\ host'.outcome = "none"
      /\ \A q \in host'.run : q.eff \in {"StartScan", "ScanTimer"} /\ q \in Submitted
  <2>1. /\ HostShape(Begin(Idle, r), "discover") /\ Begin(Idle, r).st = "running" /\ Begin(Idle, r).wf = r.wf
        /\ Begin(Idle, r).outcome = "none" /\ \A q \in Begin(Idle, r).run : q.eff \in r.out
    BY SMTT(60), <1>4, IdleBegins
  <2>2. Begin(Idle, r).run \subseteq Submitted  BY <2>1 DEF HostShape, HostType
  <2> QED  BY <1>1, <1>3, <2>1, <2>2
<1>6. "ScanTimer" \notin HostEffects  BY DEF HostEffects, Writes, Reads, Saves, Results, SinkWork
<1>7. DiscoverHost(host')  BY <1>2, <1>5, <1>6 DEF DiscoverHost, DiscoverInv, Submitted
<1>8. DiscoverWorld  BY <1>1 DEF DiscoverWorld, DiscoverState, Ambient, NoReset, NoStream, NoEarly
<1> QED  BY <1>5, <1>7, <1>8, DiscoverKeeps

\* No step of the others is one of a scan.
LEMMA DiscoverNext ==
  ASSUME DiscoverState, used.family = "discover", NativeNext
  PROVE  DiscoverState'
<1>1. /\ DiscoverHost(host) /\ HostShape(host, "discover") /\ Ambient /\ AmbientType /\ ~link.ahead
      /\ link \in LinkType /\ dev \in DevType
      /\ sink = NoSink /\ dev.held = NoResult /\ dev.next = 0 /\ ~dev.logging /\ host.st # "clearing"
  BY DEF DiscoverState, DiscoverHost, Ambient, AmbientType, NoReset, NoStream, NoEarly
<1>2. AmbientType'  BY <1>1, AmbientStep
<1>12. \A r \in host.run : r.eff \in {"StartScan", "StopScan"}
  BY <1>1 DEF DiscoverHost, HostShape, DiscoverInv, HostType
<1>3. CASE StartOperation  BY <1>2, <1>3, DiscoverStarts
<1>4. CASE Effect \/ AppCancels  BY <1>2, <1>4, DiscoverEffect
<1>5. CASE TimerElapses \/ Candidate \/ HearDrop \/ Deliver  BY <1>2, <1>5, DiscoverHears
<1>6. CASE Reconnect \/ DeviceUploads
  <2>1. UNCHANGED <<host, sink, told>>  BY <1>6 DEF Reconnect, DeviceUploads, Radio
  <2>2. DiscoverWorld /\ (link'.cccd => link.cccd)
    <3>1. CASE Reconnect  BY <1>1, <3>1 DEF Reconnect, Radio, DiscoverWorld, Ambient, LinkType
    <3>2. CASE DeviceUploads  BY <1>1, <3>2 DEF DeviceUploads, DiscoverWorld, Ambient, DevType
    <3> QED  BY <1>6, <3>1, <3>2
  <2> QED  BY <1>1, <1>2, <2>1, <2>2, DiscoverKeeps
<1>7. CASE Finish \/ Restart
  <2>1. /\ sink' = NoSink /\ inbox' = <<>> /\ ~link'.cccd /\ ~link'.ahead
        /\ dev'.held = NoResult /\ dev'.next = 0 /\ ~dev'.logging
    <3>1. CASE Finish  BY <1>1, <3>1 DEF Finish, LinkType
    <3>2. CASE Restart  BY <1>1, <3>2, DetachedType DEF Restart
    <3> QED  BY <1>7, <3>1, <3>2
  <2>2. host'.st \in {"idle", "stuck"} /\ HostShape(host', "discover")
    <3> DEFINE s == [Idle EXCEPT !.st = "stuck"]
    <3>1. host' = s \/ host' = Idle
      <4>1. host.st = "ending" => host.wf.kind = "discover"  BY <1>1 DEF HostShape
      <4> QED  BY <1>7, <4>1 DEF Finish, Restart
    <3> HIDE DEF Idle
    <3>2. s \in HostType /\ s.st = "stuck" /\ s.run = {} /\ s.wf = [kind |-> "none"]
      BY IdleShape DEF HostType
    <3> HIDE DEF s
    <3>3. HostShape(s, "discover")  BY <3>2 DEF HostShape
    <3> QED  BY <3>1, <3>2, <3>3, IdleShape
  <2> QED  BY <1>2, <2>1, <2>2 DEF DiscoverState, DiscoverHost, Ambient, NoReset, NoStream, NoEarly
<1>8. ~Ahead /\ ~Refused  BY <1>12 DEF Ahead, WriteExecutes, Refused, Quarantined
<1>9. ~SinkSteps  BY <1>1 DEF SinkSteps, BackgroundFlush, UploadChunk, FinalizeAsked, JobStops, NoSink
<1>10. ~DeviceSends /\ ~DeviceLogs /\ ~LinkLost /\ ~ClearResetOwner
  BY <1>1 DEF DeviceSends, DeviceLogs, LinkLost, ClearResetOwner
<1> QED  BY <1>3, <1>4, <1>5, <1>6, <1>7, <1>8, <1>9, <1>10 DEF NativeNext

-----------------------------------------------------------------------------
(* The stream: the answers of the engine *)

\* The packets of a streamed recording: data with its sequence number, then the end.
LEMMA PacketShape ==
  ASSUME NEW sealed \in BOOLEAN, NEW p \in PacketsOf(sealed)
  PROVE  PacketIs(p, sealed)
<1>1. /\ EndOf(sealed).type = IF sealed THEN "sealedEof" ELSE "eof"
      /\ \A q : /\ DataOf(sealed, q).type = IF sealed THEN "sealedData" ELSE "data"
                /\ DataOf(sealed, q).seq = q
  BY DEF EndOf, DataOf
<1>2. CASE \E q \in 0 .. Units - 1 : p = DataOf(sealed, q)  BY <1>1, <1>2 DEF PacketIs
<1>3. CASE p = EndOf(sealed)  BY <1>1, <1>3 DEF PacketIs
<1>4. CASE p = [type |-> "error"] \/ (sealed /\ p = [type |-> "sealed"])
  <2>1. p.type = "error" \/ (sealed /\ p.type = "sealed")  BY <1>4
  <2> QED  BY <1>1, <2>1 DEF PacketIs
<1> QED  BY <1>2, <1>3, <1>4 DEF PacketsOf

\* StreamFail: the sink is discarded.
LEMMA StreamFailStep ==
  ASSUME NEW w \in StreamWf, NEW e, NEW sealed, NEW whole, NEW deleted
  PROVE  /\ StreamStep(w, e, StreamFail(w), sealed, whole, deleted)
         /\ ~StreamFail(w).rejected /\ StreamFail(w).wf.phase = "Failed"
<1> DEFINE f == [w EXCEPT !.phase = "Failed", !.waits = @ \ {"Subscribe"}]
<1>1. f \in StreamWf /\ f.phase = "Failed"  BY DEF StreamWf, StreamPhases, StreamEffects
<1>2. StreamFail(w).wf = f /\ StreamFail(w).out \subseteq {"Unsubscribe", "Discard"} /\ ~StreamFail(w).rejected
  BY DEF StreamFail
<1> HIDE DEF f
<1> QED  BY <1>1, <1>2 DEF StreamStep

\* The packet that follows is taken, and waits for the service.
LEMMA TakePacketShape ==
  ASSUME NEW s \in StreamWf, NEW seq \in Int, NEW effect \in {"AppendPlain", "BeginSealed", "AppendSealed"}
  PROVE  TakenBy(s, seq, effect, TakePacket(s, seq, effect))
<1> DEFINE t == [s EXCEPT !.next = seq]
           u == [t EXCEPT !.phase = "Accepting", !.waits = @ \cup {effect}]
<1>1. /\ t \in StreamWf /\ t.next = seq /\ t.last = s.last /\ t.units = s.units
      /\ t.header = s.header /\ t.profile = s.profile /\ t.waits = s.waits  BY DEF StreamWf
<1>2. TakePacket(s, seq, effect) = [wf |-> u, out |-> {effect}, rejected |-> FALSE]  BY DEF TakePacket
<1> HIDE DEF t
<1>3. /\ u \in StreamWf /\ u.phase = "Accepting" /\ u.waits = t.waits \cup {effect}
      /\ u.next = t.next /\ u.last = t.last /\ u.units = t.units
      /\ u.header = t.header /\ u.profile = t.profile  BY <1>1 DEF StreamWf, StreamPhases, StreamEffects
<1> HIDE DEF u
<1> QED  BY <1>1, <1>2, <1>3 DEF TakenBy

\* A packet taken in that state leads to one accepted by the sink.
LEMMA TakenStep ==
  ASSUME NEW w, NEW e, NEW sealed \in BOOLEAN, NEW whole, NEW deleted, NEW s, NEW r, NEW seq, NEW effect,
         w.phase = "Transferring", e.type = "Notification",
         s \in StreamWf, s.waits \subseteq {"Subscribe"}, s.last = w.last, s.units = w.units,
         Between(w, sealed), seq \in -1 .. Units - 1, TakenBy(s, seq, effect, r),
         s.profile = IF sealed THEN "sealed" ELSE "plain",
         effect = IF ~sealed THEN "AppendPlain" ELSE IF seq = NoSequence THEN "BeginSealed" ELSE "AppendSealed",
         ~sealed => ~s.header /\ seq = s.last + 1,
         IF seq = NoSequence THEN ~IsData(e.val) ELSE IsData(e.val) /\ e.val.seq = seq /\ w.last <= seq
  PROVE  StreamStep(w, e, r, sealed, whole, deleted)
<1> DEFINE u == r.wf
<1>1. /\ u \in StreamWf /\ u.phase = "Accepting" /\ u.waits = s.waits \cup {effect}
      /\ u.next = seq /\ u.last = s.last /\ u.units = s.units
      /\ u.header = s.header /\ u.profile = s.profile /\ r.out = {effect}  BY DEF TakenBy
<1> HIDE DEF u
<1>2. StreamWork(u) = {effect}  BY <1>1 DEF StreamWork, Taking
<1>3. Counted(u, sealed)  BY <1>1 DEF Counted, Between
<1>4. StreamFlow(u, sealed)  BY <1>1, <1>2, <1>3 DEF StreamFlow
<1>5. Hears(w, e.val, u, sealed)  BY <1>1 DEF Hears, Between, Reached
<1>6. StreamWork(w) = {}  BY DEF StreamWork
<1> QED  BY <1>1, <1>2, <1>4, <1>5, <1>6 DEF StreamStep, u

\* A packet that is only noted, or not even that.
LEMMA NotedStep ==
  ASSUME NEW w, NEW e, NEW sealed \in BOOLEAN, NEW whole, NEW deleted, NEW s,
         e.type = "Notification", Between(w, sealed), s \in StreamWf, s.phase = "Transferring",
         s.waits = w.waits, s.last = w.last, s.next = w.next, s.units = w.units, s.header = w.header,
         s.profile = w.profile \/ (sealed /\ s.profile = "sealed"),
         IsData(e.val) => e.val.seq <= w.last
  PROVE  StreamStep(w, e, [wf |-> s, out |-> {}, rejected |-> FALSE], sealed, whole, deleted)
<1>1. StreamWork(s) = {} /\ StreamWork(w) = {}  BY DEF StreamWork, Between
<1>2. Counted(s, sealed)  BY NativeConstants DEF Counted, Between, NoSequence
<1>3. StreamFlow(s, sealed)  BY <1>2 DEF StreamFlow, Between
<1>4. Hears(w, e.val, s, sealed)  BY DEF Hears, Between, Reached
<1> QED  BY <1>1, <1>3, <1>4 DEF StreamStep, Between

\* A remainder is no larger than its number.
LEMMA Remainder ==
  ASSUME NEW n \in Nat, NEW m \in Nat \ {0}
  PROVE  n % m \in 0 .. n
<1>1. CASE n < m  BY <1>1, SMTT(30)
<1>2. CASE n >= m  BY <1>2, SMTT(30)
<1> QED  BY <1>1, <1>2

\* A packet of a plain recording.
LEMMA PlainDataStep ==
  ASSUME NEW w, NEW e, NEW whole, NEW deleted, e.type = "Notification", Between(w, FALSE),
         NEW seq \in 0 .. Units - 1, IsData(e.val), e.val.seq = seq
  PROVE  StreamStep(w, e, PlainData(w, seq), FALSE, whole, deleted)
<1> DEFINE r == PlainData(w, seq)
           s == [w EXCEPT !.profile = "plain"]
<1>1. /\ w \in StreamWf /\ w.phase = "Transferring" /\ w.waits \subseteq {"Subscribe"} /\ w.last \in -1 .. Units - 1
      /\ w.next = NoSequence /\ w.profile # "sealed" /\ ~w.header /\ w.units = w.last + 1  BY DEF Between
<1>2. CASE Stale(w, seq)
  <2>1. r = [wf |-> w, out |-> {}, rejected |-> FALSE]  BY <1>1, <1>2 DEF PlainData
  <2>2. e.val.seq <= w.last  BY <1>2 DEF Stale
  <2> HIDE DEF r
  <2>3. StreamStep(w, e, [wf |-> w, out |-> {}, rejected |-> FALSE], FALSE, whole, deleted)
    BY <1>1, <2>2, NotedStep
  <2> QED  BY <2>1, <2>3 DEF r
<1>3. CASE ~Stale(w, seq) /\ seq # (w.last + 1) % SeqMod
  <2>1. r = StreamFail(w)  BY <1>1, <1>3 DEF PlainData
  <2>2. StreamStep(w, e, StreamFail(w), FALSE, whole, deleted)  BY <1>1, StreamFailStep
  <2> QED  BY <2>1, <2>2
<1>4. CASE ~Stale(w, seq) /\ seq = (w.last + 1) % SeqMod
  <2>1. r = TakePacket(s, seq, "AppendPlain")  BY <1>1, <1>4 DEF PlainData
  <2>2. seq = w.last + 1
    <3>1. w.last + 1 \in Nat /\ SeqMod \in Nat \ {0}  BY <1>1, NativeConstants
    <3>2. seq \in 0 .. w.last + 1  BY <1>4, <3>1, Remainder
    <3>3. w.last = -1 \/ seq > w.last  BY <1>1, <1>4 DEF Stale, NoSequence
    <3> QED  BY <1>1, <3>2, <3>3
  <2>3. /\ s \in StreamWf /\ s.waits = w.waits /\ s.last = w.last /\ s.units = w.units
        /\ s.header = w.header /\ s.profile = "plain"  BY <1>1 DEF StreamWf, Profiles
  <2> HIDE DEF s, r
  <2>4. TakenBy(s, seq, "AppendPlain", r)  BY <2>1, <2>3, TakePacketShape, NativeConstants
  <2>5. seq \in -1 .. Units - 1 /\ seq # NoSequence /\ w.last <= seq
    BY <1>1, <2>2, NativeConstants DEF NoSequence
  <2>6. StreamStep(w, e, r, FALSE, whole, deleted)  BY <1>1, <2>2, <2>3, <2>4, <2>5, TakenStep
  <2> QED  BY <2>6 DEF r
<1> QED  BY <1>2, <1>3, <1>4

\* The header of a sealed recording.
LEMMA SealedHeaderStep ==
  ASSUME NEW w, NEW e, NEW whole, NEW deleted, e.type = "Notification", Between(w, TRUE),
         ~IsData(e.val)
  PROVE  StreamStep(w, e, SealedHeader(w), TRUE, whole, deleted)
<1> DEFINE r == SealedHeader(w)
           p == [w EXCEPT !.profile = "sealed"]
           s == [w EXCEPT !.profile = "sealed", !.header = TRUE]
<1>1. /\ w \in StreamWf /\ w.phase = "Transferring" /\ w.waits \subseteq {"Subscribe"} /\ w.last \in -1 .. Units - 1
      /\ w.next = NoSequence /\ w.profile # "plain"  BY DEF Between
<1>2. CASE w.header
  <2>1. r = [wf |-> p, out |-> {}, rejected |-> FALSE]  BY <1>1, <1>2 DEF SealedHeader
  <2>2. /\ p \in StreamWf /\ p.phase = "Transferring" /\ p.waits = w.waits /\ p.last = w.last /\ p.next = w.next
        /\ p.units = w.units /\ p.header = w.header /\ p.profile = "sealed"  BY <1>1 DEF StreamWf, Profiles
  <2> HIDE DEF r, p
  <2>3. StreamStep(w, e, [wf |-> p, out |-> {}, rejected |-> FALSE], TRUE, whole, deleted)
    BY <2>2, NotedStep
  <2> QED  BY <2>1, <2>3 DEF r
<1>3. CASE ~w.header
  <2>1. r = TakePacket(s, NoSequence, "BeginSealed")  BY <1>1, <1>3 DEF SealedHeader
  <2>2. /\ s \in StreamWf /\ s.waits = w.waits /\ s.last = w.last
        /\ s.units = w.units /\ s.profile = "sealed"  BY <1>1 DEF StreamWf, Profiles
  <2>3. NoSequence \in Int /\ NoSequence \in -1 .. Units - 1  BY NativeConstants DEF NoSequence
  <2> HIDE DEF r, s
  <2>4. TakenBy(s, NoSequence, "BeginSealed", r)  BY <2>1, <2>2, <2>3, TakePacketShape
  <2>6. StreamStep(w, e, r, TRUE, whole, deleted)  BY <1>1, <2>2, <2>3, <2>4, TakenStep
  <2> QED  BY <2>6 DEF r
<1> QED  BY <1>2, <1>3

\* A packet of a sealed recording.
LEMMA SealedDataStep ==
  ASSUME NEW w, NEW e, NEW whole, NEW deleted, e.type = "Notification", Between(w, TRUE),
         NEW seq \in 0 .. Units - 1, IsData(e.val), e.val.seq = seq
  PROVE  StreamStep(w, e, SealedData(w, seq), TRUE, whole, deleted)
<1> DEFINE r == SealedData(w, seq)
<1>1. /\ w \in StreamWf /\ w.phase = "Transferring" /\ w.waits \subseteq {"Subscribe"} /\ w.last \in -1 .. Units - 1
      /\ w.next = NoSequence /\ w.profile # "plain"  BY DEF Between
<1>2. CASE w.profile # "sealed" \/ ~w.header
  <2>1. r = StreamFail(w)  BY <1>2 DEF SealedData
  <2>2. StreamStep(w, e, StreamFail(w), TRUE, whole, deleted)  BY <1>1, StreamFailStep
  <2> QED  BY <2>1, <2>2
<1>3. CASE w.profile = "sealed" /\ w.header /\ Stale(w, seq)
  <2>1. r = [wf |-> w, out |-> {}, rejected |-> FALSE]  BY <1>3 DEF SealedData
  <2>2. e.val.seq <= w.last  BY <1>3 DEF Stale
  <2> HIDE DEF r
  <2>3. StreamStep(w, e, [wf |-> w, out |-> {}, rejected |-> FALSE], TRUE, whole, deleted)
    BY <1>1, <2>2, NotedStep
  <2> QED  BY <2>1, <2>3 DEF r
<1>4. CASE w.profile = "sealed" /\ w.header /\ ~Stale(w, seq)
  <2>1. r = TakePacket(w, seq, "AppendSealed")  BY <1>4 DEF SealedData
  <2>2. seq \in Int /\ seq \in -1 .. Units - 1 /\ seq # NoSequence /\ w.last <= seq
    BY <1>1, <1>4, NativeConstants DEF NoSequence, Stale
  <2> HIDE DEF r
  <2>3. TakenBy(w, seq, "AppendSealed", r)  BY <1>1, <2>1, <2>2, TakePacketShape
  <2>4. StreamStep(w, e, r, TRUE, whole, deleted)  BY <1>1, <1>4, <2>2, <2>3, TakenStep
  <2> QED  BY <2>4 DEF r
<1> QED  BY <1>2, <1>3, <1>4

\* A transition of the stream that asks for one effect, and what it leaves as it was.
LEMMA StreamEntersShape ==
  ASSUME NEW w, NEW s, NEW e, NEW r, NEW phase, NEW eff, StreamEnters(w, s, e, r, phase, eff)
  PROVE  /\ r.wf \in StreamWf /\ r.wf.phase = phase /\ r.wf.waits \subseteq {"Subscribe", eff}
         /\ r.wf.next = s.next /\ r.wf.last = s.last /\ r.wf.units = s.units
         /\ r.wf.header = s.header /\ r.wf.profile = s.profile
         /\ r.out = {eff} /\ StreamWork(r.wf) = {eff}
<1> DEFINE u == [s EXCEPT !.phase = phase, !.waits = @ \cup {eff}]
<1>1. /\ s \in StreamWf /\ s.waits \subseteq {"Subscribe"} /\ phase \in StreamPhases /\ eff \in StreamEffects
      /\ <<phase, eff>> \in {<<"Starting", "WriteStart">>, <<"Finalizing", "Finalize">>,
                             <<"Acknowledging", "WriteAck">>, <<"Confirming", "WriteConfirm">>}
      /\ r.out = {eff} /\ r.wf = u  BY DEF StreamEnters, StreamPhases, StreamEffects
<1>2. /\ u \in StreamWf /\ u.phase = phase /\ u.waits = s.waits \cup {eff}
      /\ u.next = s.next /\ u.last = s.last /\ u.units = s.units /\ u.header = s.header /\ u.profile = s.profile
  BY <1>1 DEF StreamWf
<1> HIDE DEF u
<1>3. StreamWork(u) = {eff}  BY <1>1, <1>2 DEF StreamWork
<1> QED  BY <1>1, <1>2, <1>3

\* The end of the recording.
LEMMA EndOfDataStep ==
  ASSUME NEW w, NEW e, NEW sealed \in BOOLEAN, NEW whole, NEW deleted,
         e.type = "Notification", Between(w, sealed), e.val = EndOf(sealed)
  PROVE  StreamStep(w, e, EndOfData(w, IF sealed THEN "sealed" ELSE "plain"), sealed, whole, deleted)
<1> DEFINE profile == IF sealed THEN "sealed" ELSE "plain"
           r == EndOfData(w, profile)
           s == [w EXCEPT !.profile = profile]
<1>1. /\ w \in StreamWf /\ w.phase = "Transferring" /\ w.waits \subseteq {"Subscribe"} /\ w.last \in -1 .. Units - 1
      /\ w.next = NoSequence
      /\ IF sealed THEN w.profile # "plain"
                   ELSE w.profile # "sealed" /\ ~w.header /\ w.units = w.last + 1
  BY DEF Between
<1>2. CASE sealed /\ (w.profile # "sealed" \/ ~w.header)
  <2>1. r = StreamFail(w)  BY <1>2 DEF EndOfData
  <2> QED  BY <1>1, <2>1, StreamFailStep
<1>3. CASE ~(sealed /\ (w.profile # "sealed" \/ ~w.header))
  <2>1. r = [wf |-> [s EXCEPT !.phase = "Finalizing", !.waits = @ \cup {"Finalize"}],
             out |-> {"Finalize"}, rejected |-> FALSE]
    BY <1>1, <1>3 DEF EndOfData
  <2>2. /\ s \in StreamWf /\ s.waits = w.waits /\ s.last = w.last /\ s.next = w.next /\ s.units = w.units
        /\ s.header = w.header /\ s.profile = profile  BY <1>1 DEF StreamWf, Profiles
  <2> HIDE DEF s
  <2>3. StreamEnters(w, s, e, r, "Finalizing", "Finalize")  BY <1>1, <2>1, <2>2 DEF StreamEnters
  <2> HIDE DEF r
  <2>4. /\ r.wf \in StreamWf /\ r.wf.phase = "Finalizing" /\ r.wf.waits \subseteq {"Subscribe", "Finalize"}
        /\ r.wf.next = w.next /\ r.wf.last = w.last /\ r.wf.units = w.units
        /\ r.wf.header = w.header /\ r.wf.profile = profile
        /\ r.out = {"Finalize"} /\ StreamWork(r.wf) = {"Finalize"}  BY <2>2, <2>3, StreamEntersShape
  <2>5. Counted(r.wf, sealed)  BY <1>1, <2>4, NativeConstants DEF Counted, NoSequence
  <2>7. StreamFlow(r.wf, sealed)  BY <2>4, <2>5 DEF StreamFlow
  <2>6. ~IsData(e.val)  BY DEF IsData, EndOf
  <2>8. StreamWork(w) = {} /\ Hears(w, e.val, r.wf, sealed)
    BY <1>1, <2>4, <2>6 DEF StreamWork, Hears, Reached
  <2>9. StreamStep(w, e, r, sealed, whole, deleted)  BY <1>1, <2>4, <2>7, <2>8 DEF StreamStep
  <2> QED  BY <2>9 DEF r, profile
<1> QED  BY <1>2, <1>3

\* A notification, in the state between two packets.
LEMMA PacketStep ==
  ASSUME NEW w, NEW e, NEW sealed \in BOOLEAN, NEW whole, NEW deleted,
         e.type = "Notification", Between(w, sealed), e.val \in PacketsOf(sealed)
  PROVE  StreamStep(w, e, Packet(w, e.val), sealed, whole, deleted)
<1> DEFINE p == e.val
           r == Packet(w, p)
<1>1. PacketIs(p, sealed)  BY PacketShape
<1>2. w \in StreamWf  BY DEF Between
<1>3. CASE p.type = "error"
  <2>1. r = StreamFail(w)  BY <1>3 DEF Packet
  <2>2. StreamStep(w, e, StreamFail(w), sealed, whole, deleted)  BY <1>2, StreamFailStep
  <2> QED  BY <2>1, <2>2
<1>4. CASE p.type = "data"
  <2>1. ~sealed /\ p.seq \in 0 .. Units - 1 /\ IsData(p)  BY <1>1, <1>4 DEF PacketIs, IsData
  <2>2. r = PlainData(w, p.seq)  BY <1>4 DEF Packet
  <2>3. StreamStep(w, e, PlainData(w, p.seq), FALSE, whole, deleted)  BY <2>1, PlainDataStep
  <2> QED  BY <2>1, <2>2, <2>3
<1>5. CASE p.type = "sealedData"
  <2>1. sealed /\ p.seq \in 0 .. Units - 1 /\ IsData(p)  BY <1>1, <1>5 DEF PacketIs, IsData
  <2>2. r = SealedData(w, p.seq)  BY <1>5 DEF Packet
  <2>3. StreamStep(w, e, SealedData(w, p.seq), TRUE, whole, deleted)  BY <2>1, SealedDataStep
  <2> QED  BY <2>1, <2>2, <2>3
<1>6. CASE p.type = "sealed"
  <2>1. sealed /\ ~IsData(e.val)  BY <1>1, <1>6 DEF PacketIs, IsData
  <2>2. r = SealedHeader(w)  BY <1>6 DEF Packet
  <2>3. StreamStep(w, e, SealedHeader(w), TRUE, whole, deleted)  BY <2>1, SealedHeaderStep
  <2> QED  BY <2>1, <2>2, <2>3
<1>7. CASE p.type \in {"eof", "sealedEof"}
  <2>1. p = EndOf(sealed) /\ p.type = (IF sealed THEN "sealedEof" ELSE "eof")  BY <1>1, <1>7 DEF PacketIs
  <2>2. r = EndOfData(w, IF sealed THEN "sealed" ELSE "plain")  BY <1>7, <2>1 DEF Packet
  <2>3. StreamStep(w, e, EndOfData(w, IF sealed THEN "sealed" ELSE "plain"), sealed, whole, deleted)
    BY <2>1, EndOfDataStep
  <2> HIDE DEF r
  <2> QED  BY <2>2, <2>3 DEF r
<1> QED  BY <1>1, <1>3, <1>4, <1>5, <1>6, <1>7 DEF PacketIs

\* StreamingSinkAccepted.
LEMMA AcceptedStep ==
  ASSUME NEW w, NEW e, NEW sealed \in BOOLEAN, NEW whole, NEW deleted,
         StreamReady(w, e, sealed, whole, deleted), w.phase = "Accepting", e.type = "SinkAccepted",
         e.of \in w.waits
  PROVE  StreamStep(w, e, Accepted([w EXCEPT !.waits = @ \ {e.of}], e.val), sealed, whole, deleted)
<1> DEFINE s == [w EXCEPT !.waits = @ \ {e.of}]
           r == Accepted(s, e.val)
           units == s.units + (IF s.next = NoSequence THEN 0 ELSE 1)
           last == IF s.next = NoSequence THEN s.last ELSE s.next
           u == [s EXCEPT !.phase = "Transferring", !.units = units, !.next = NoSequence, !.last = last]
<1>1. /\ w \in StreamWf /\ w.waits \subseteq {"Subscribe", Taking(w)} /\ Counted(w, sealed)
      /\ e.of \in SinkWork /\ w.profile = IF sealed THEN "sealed" ELSE "plain"
  BY Answered DEF StreamReady, StreamFlow, StreamWork, Counted
<1>2. StreamWork(w) = {e.of} /\ "Subscribe" \notin SinkWork  BY <1>1 DEF StreamWork, SinkWork
<1>3. /\ s \in StreamWf /\ s.waits \subseteq {"Subscribe"} /\ s.units = w.units /\ s.next = w.next /\ s.last = w.last
      /\ s.header = w.header /\ s.profile = w.profile  BY <1>1, <1>2 DEF StreamWf, StreamWork
<1>0. s = [w EXCEPT !.waits = @ \ {e.of}]  OBVIOUS
<1> HIDE DEF s
<1>4. CASE e.val # units
  <2>1. r = StreamFail(s)  BY <1>4 DEF Accepted
  <2>2. StreamFail(s).wf \in StreamWf /\ StreamStep(s, e, StreamFail(s), sealed, whole, deleted)
        /\ StreamFail(s).wf.phase = "Failed"  BY <1>3, StreamFailStep DEF StreamStep
  <2>3. StreamStep(w, e, StreamFail(s), sealed, whole, deleted)  BY <2>2 DEF StreamStep
  <2> QED  BY <2>1, <2>3 DEF s
<1>5. CASE e.val = units
  <2>1. r = [wf |-> u, out |-> {}, rejected |-> FALSE]  BY <1>5 DEF Accepted
  <2>2. units \in Nat /\ last \in -1 .. Units - 1 /\ last \in Int /\ NoSequence \in Int
    BY <1>1, <1>3, NativeConstants DEF StreamWf, Counted, NoSequence
  <2>3. last = Reached(w)  BY <1>3 DEF Reached
  <2>7. units = w.units + (IF w.next = NoSequence THEN 0 ELSE 1) /\ w.units \in Nat
    BY <1>1, <1>3 DEF StreamWf
  <2> HIDE DEF units, last
  <2>4. /\ u \in StreamWf /\ u.phase = "Transferring" /\ u.waits = s.waits /\ u.units = units
        /\ u.next = NoSequence /\ u.last = last /\ u.header = s.header /\ u.profile = s.profile
    BY <1>3, <2>2 DEF StreamWf, StreamPhases
  <2> HIDE DEF u
  <2>5. StreamWork(u) = {} /\ Reached(u) = last  BY <2>4 DEF StreamWork, Reached
  <2>6. Counted(u, sealed)
    BY <1>1, <1>3, <2>2, <2>3, <2>4, <2>7, NativeConstants DEF Counted, Reached, NoSequence
  <2>8. StreamFlow(u, sealed)  BY <1>3, <2>4, <2>6 DEF StreamFlow
  <2>10. Unheard(w, e, u)  BY <2>3, <2>4, <2>5 DEF Unheard
  <2>9. StreamStep(w, e, [wf |-> u, out |-> {}, rejected |-> FALSE], sealed, whole, deleted)
    BY <1>2, <1>3, <2>4, <2>5, <2>8, <2>10 DEF StreamStep
  <2> QED  BY <2>1, <2>9 DEF s
<1> QED  BY <1>4, <1>5

\* Entering the next phase by a callback of the last one.
LEMMA AdvanceStep ==
  ASSUME NEW w, NEW e, NEW sealed \in BOOLEAN, NEW whole, NEW deleted,
         StreamReady(w, e, sealed, whole, deleted), NEW s, NEW r, NEW phase, NEW eff,
         StreamEnters(w, s, e, r, phase, eff), StreamWork(w) \subseteq {e.of},
         s.last = w.last, s.next = w.next, s.units = w.units, s.header = w.header, s.profile = w.profile,
         e.type \in {"Subscribed", "SinkFinalized", "WriteCompleted"},
         \/ w.phase = "Subscribing" /\ phase = "Starting" /\ e.type = "Subscribed"
         \/ w.phase = "Finalizing" /\ phase = "Acknowledging" /\ e.type = "SinkFinalized"
         \/ w.phase = "Acknowledging" /\ phase = "Confirming" /\ e.type = "WriteCompleted"
  PROVE  StreamStep(w, e, r, sealed, whole, deleted)
<1>1. /\ r.wf \in StreamWf /\ r.wf.phase = phase /\ r.wf.waits \subseteq {"Subscribe", eff}
      /\ r.wf.next = w.next /\ r.wf.last = w.last /\ r.wf.units = w.units
      /\ r.wf.header = w.header /\ r.wf.profile = w.profile
      /\ r.out = {eff} /\ StreamWork(r.wf) = {eff}  BY StreamEntersShape
<1>2. Counted(w, sealed) /\ StreamFlow(w, sealed)
      /\ (w.phase \in {"Acknowledging", "Confirming"} => whole) /\ (e.type = "SinkFinalized" => whole)
  BY DEF StreamReady, StreamFlow, StreamTrue
<1>3. Counted(r.wf, sealed)  BY <1>1, <1>2 DEF Counted, Fresh
<1>4. StreamFlow(r.wf, sealed)  BY <1>1, <1>2, <1>3 DEF StreamFlow
<1>5. Unheard(w, e, r.wf)  BY <1>1 DEF Unheard
<1> QED  BY <1>1, <1>2, <1>4, <1>5 DEF StreamStep

\* The sink and the writes.
LEMMA StreamAdvanceStep ==
  ASSUME NEW w, NEW e, NEW sealed \in BOOLEAN, NEW whole, NEW deleted,
         StreamReady(w, e, sealed, whole, deleted), e.of \in w.waits,
         e.type \notin {"Disconnected", "Subscribed", "Notification", "Failed", "SinkFailed"},
         NEW r, r = StreamAdvance([w EXCEPT !.waits = @ \ {e.of}], e), ~r.rejected
  PROVE  StreamStep(w, e, r, sealed, whole, deleted)
<1> DEFINE s == [w EXCEPT !.waits = @ \ {e.of}]
<1>1. /\ w \in StreamWf /\ StreamFlow(w, sealed) /\ Counted(w, sealed) /\ Matches(e.of, e.type)
      /\ w.waits \subseteq {"Subscribe"} \cup StreamWork(w) /\ w.phase \notin {"Completed", "Failed"}
      /\ (w.phase \in {"Acknowledging", "Confirming"} => whole)
      /\ StreamTrue(w, e, sealed, whole, deleted)  BY DEF StreamReady, StreamFlow
<1>2. /\ s \in StreamWf /\ s.waits = w.waits \ {e.of} /\ s.phase = w.phase /\ s.last = w.last /\ s.next = w.next
      /\ s.units = w.units /\ s.header = w.header /\ s.profile = w.profile  BY <1>1 DEF StreamWf
<1>0. s = [w EXCEPT !.waits = @ \ {e.of}]  OBVIOUS
<1>3. w.phase \in {"Starting", "Finalizing", "Acknowledging", "Confirming"}
      /\ e.type \in {"WriteCompleted", "SinkFinalized"} =>
        StreamWork(w) = {e.of} /\ s.waits \subseteq {"Subscribe"}
  <2>1. e.type \in {"WriteCompleted", "SinkFinalized"} => e.of # "Subscribe"  BY <1>1, Answered DEF Writes
  <2> QED  BY <1>1, <1>2, <2>1 DEF StreamWork
<1> HIDE DEF s
<1>4. CASE w.phase = "Starting" /\ e.type = "WriteCompleted"
  <2> DEFINE u == [s EXCEPT !.phase = "Transferring"]
  <2>1. r = [wf |-> u, out |-> {}, rejected |-> FALSE]  BY <1>0, <1>2, <1>4 DEF StreamAdvance
  <2>2. /\ u \in StreamWf /\ u.phase = "Transferring" /\ u.waits = s.waits /\ u.units = s.units
        /\ u.next = s.next /\ u.last = s.last /\ u.header = s.header /\ u.profile = s.profile
    BY <1>2 DEF StreamWf, StreamPhases
  <2> HIDE DEF u
  <2>3. StreamWork(u) = {} /\ Reached(u) = Reached(w) /\ r.wf = u /\ r.out = {}
    BY SMTT(60), <1>2, <2>1, <2>2 DEF StreamWork, Reached
  <2>4. Counted(u, sealed)  BY <1>1, <1>2, <1>4, <2>2 DEF Counted, Fresh
  <2>5. StreamFlow(u, sealed)  BY <1>3, <1>4, <2>2, <2>4 DEF StreamFlow
  <2>6. Unheard(w, e, u)  BY <1>1, <1>2, <1>4, <2>2, <2>3 DEF Unheard, Counted
  <2> QED  BY <1>2, <1>3, <1>4, <2>2, <2>3, <2>5, <2>6 DEF StreamStep
<1>5. CASE w.phase = "Accepting" /\ e.type = "SinkAccepted"
  <2>1. r = Accepted(s, e.val)  BY <1>0, <1>2, <1>5 DEF StreamAdvance
  <2> QED  BY <1>0, <1>5, <2>1, AcceptedStep
<1>6. CASE w.phase = "Finalizing" /\ e.type = "SinkFinalized"
  <2>1. r = IF e.val # s.units THEN StreamFail(s)
            ELSE [wf |-> [s EXCEPT !.phase = "Acknowledging", !.waits = @ \cup {"WriteAck"}],
                  out |-> {"WriteAck"}, rejected |-> FALSE]
    BY <1>0, <1>2, <1>6 DEF StreamAdvance, Finalized
  <2>2. CASE e.val # s.units
    <3>1. StreamStep(s, e, StreamFail(s), sealed, whole, deleted) /\ StreamFail(s).wf.phase = "Failed"
      BY <1>2, StreamFailStep
    <3>2. StreamStep(w, e, StreamFail(s), sealed, whole, deleted)  BY <3>1 DEF StreamStep
    <3> QED  BY <2>1, <2>2, <3>2
  <2>3. CASE e.val = s.units
    <3>1. StreamEnters(w, s, e, r, "Acknowledging", "WriteAck")
      BY <1>2, <1>3, <1>6, <2>1, <2>3 DEF StreamEnters
    <3> QED  BY <1>2, <1>3, <1>6, <3>1, AdvanceStep
  <2> QED  BY <2>2, <2>3
<1>7. CASE w.phase = "Acknowledging" /\ e.type = "WriteCompleted"
  <2>1. r = [wf |-> [s EXCEPT !.phase = "Confirming", !.waits = @ \cup {"WriteConfirm"}],
             out |-> {"WriteConfirm"}, rejected |-> FALSE]
    BY <1>0, <1>2, <1>7 DEF StreamAdvance
  <2>3. s \in StreamWf /\ s.waits \subseteq {"Subscribe"}  BY <1>2, <1>3, <1>7
  <2>2. StreamEnters(w, s, e, r, "Confirming", "WriteConfirm")  BY <2>1, <2>3 DEF StreamEnters
  <2> QED  BY <1>2, <1>3, <1>7, <2>2, AdvanceStep
<1>8. CASE w.phase = "Confirming" /\ e.type = "WriteCompleted"
  <2> DEFINE u == [s EXCEPT !.phase = "Completed", !.waits = @ \ {"Subscribe"}]
  <2>1. r.wf = u /\ r.out \subseteq {"Unsubscribe"}  BY <1>0, <1>2, <1>8 DEF StreamAdvance
  <2>2. u \in StreamWf /\ u.phase = "Completed"  BY <1>2 DEF StreamWf, StreamPhases
  <2>3. e.of = "WriteConfirm"  BY <1>3, <1>8 DEF StreamWork
  <2>4. whole /\ deleted  BY <1>1, <1>8, <2>3 DEF StreamTrue
  <2> HIDE DEF u
  <2> QED  BY <1>8, <2>1, <2>2, <2>4 DEF StreamStep
<1>9. CASE /\ ~(w.phase \in {"Starting", "Acknowledging", "Confirming"} /\ e.type = "WriteCompleted")
           /\ ~(w.phase = "Accepting" /\ e.type = "SinkAccepted")
           /\ ~(w.phase = "Finalizing" /\ e.type = "SinkFinalized")
  <2>1. r = [wf |-> s, out |-> {}, rejected |-> TRUE]  BY <1>0, <1>2, <1>9 DEF StreamAdvance
  <2> QED  BY <2>1
<1> QED  BY <1>4, <1>5, <1>6, <1>7, <1>8, <1>9

\* dispatch.
LEMMA StreamDispatchStep ==
  ASSUME NEW w, NEW e, NEW sealed \in BOOLEAN, NEW whole, NEW deleted,
         StreamReady(w, e, sealed, whole, deleted), ~StreamDispatch(w, e).rejected
  PROVE  StreamStep(w, e, StreamDispatch(w, e), sealed, whole, deleted)
<1> DEFINE r == StreamDispatch(w, e)
<1>1. /\ w \in StreamWf /\ StreamFlow(w, sealed) /\ Counted(w, sealed) /\ Matches(e.of, e.type)
      /\ w.waits \subseteq {"Subscribe"} \cup StreamWork(w)
      /\ StreamTrue(w, e, sealed, whole, deleted)  BY DEF StreamReady, StreamFlow
<1>2. CASE e.type = "Disconnected" \/ (e.type \in {"Failed", "SinkFailed"} /\ e.of \in w.waits)
  <2>1. r = StreamFail(w)  BY <1>2 DEF StreamDispatch
  <2>2. StreamStep(w, e, StreamFail(w), sealed, whole, deleted)  BY <1>1, StreamFailStep
  <2> QED  BY <2>1, <2>2
<1>3. CASE e.type = "Subscribed"
  <2>1. e.of = "Subscribe" /\ e.of \in w.waits /\ w.phase = "Subscribing"
    BY <1>1, <1>3, Answered DEF StreamDispatch
  <2>2. r = [wf |-> [w EXCEPT !.phase = "Starting", !.waits = @ \cup {"WriteStart"}],
             out |-> {"WriteStart"}, rejected |-> FALSE]
    BY <1>3, <2>1 DEF StreamDispatch
  <2> HIDE DEF r
  <2>3. StreamWork(w) = {"Subscribe"}  BY <2>1 DEF StreamWork
  <2>4. StreamEnters(w, w, e, r, "Starting", "WriteStart")  BY <1>1, <2>2, <2>3 DEF StreamEnters
  <2>5. StreamStep(w, e, r, sealed, whole, deleted)  BY <1>3, <2>1, <2>3, <2>4, AdvanceStep
  <2> QED  BY <2>5 DEF r
<1>4. CASE e.type = "Notification"
  <2>1. e.of \in w.waits /\ w.phase = "Transferring" /\ r = Packet(w, e.val)  BY <1>4 DEF StreamDispatch
  <2>2. Between(w, sealed)  BY <1>1, <2>1 DEF Between, Counted, StreamWork
  <2>3. e.val \in PacketsOf(sealed)  BY <1>1, <1>4 DEF StreamTrue
  <2>4. StreamStep(w, e, Packet(w, e.val), sealed, whole, deleted)  BY <1>4, <2>2, <2>3, PacketStep
  <2> QED  BY <2>1, <2>4
<1>5. CASE e.type \notin {"Disconnected", "Subscribed", "Notification", "Failed", "SinkFailed"}
  <2>1. e.of \in w.waits /\ r = StreamAdvance([w EXCEPT !.waits = @ \ {e.of}], e)
    BY <1>5 DEF StreamDispatch
  <2> HIDE DEF r
  <2>2. StreamStep(w, e, r, sealed, whole, deleted)  BY <1>5, <2>1, StreamAdvanceStep DEF r
  <2> QED  BY <2>2 DEF r
<1>6. e.of \notin w.waits => e.type = "Disconnected"  BY DEF StreamDispatch
<1> QED  BY <1>2, <1>3, <1>4, <1>5, <1>6

-----------------------------------------------------------------------------
(* The stream: the host *)

\* What is known of a stream that runs.
LEMMA StreamRuns ==
  ASSUME NEW h, NEW sealed, NEW whole, NEW deleted, NEW silent,
         StreamHost(h, sealed, whole, deleted, silent)
  PROVE  /\ HostShape(h, "stream") /\ h \in HostType /\ h.run \subseteq Submitted
         /\ h.run # {} => h.st \in {"running", "ending"}
         /\ h.st \in {"running", "ending"} => h.wf.kind = "stream" /\ h.wf \in StreamWf
         /\ h.st = "running" => StreamRunning(h, sealed)
         /\ h.st = "ending" => StreamEnding(h, whole, silent)
         /\ \A r \in h.run : /\ r.eff \in StreamEffs
                             /\ r.mode = "live" => h.st = "running"
                             /\ r.mode # "live" => h.st = "ending"
                             /\ r.mode = "clean" => r.eff \in {"WriteAbort", "Discard", "Unsubscribe"}
                             /\ h.st = "running" => r.eff \in StreamWork(h.wf)
<1>1. /\ HostShape(h, "stream") /\ h \in HostType /\ h.run \subseteq Submitted
      /\ h.run # {} => h.st \in {"running", "ending"}
      /\ h.st \in {"running", "ending"} => h.wf.kind = "stream" /\ h.wf \in StreamWf
      /\ h.st = "running" => StreamRunning(h, sealed)
      /\ h.st = "ending" => StreamEnding(h, whole, silent)
  BY DEF StreamHost, StreamInv, HostShape, HostType
<1>2. CASE h.st = "running"
  <2>1. /\ \A r \in h.run : r.eff \in StreamWork(h.wf)
        /\ \A r \in h.run : r.mode = "live"  BY <1>1, <1>2 DEF StreamRunning, HostShape
  <2>2. StreamWork(h.wf) \subseteq StreamEffs  BY DEF StreamWork, Taking, StreamEffs, StreamEffects
  <2> QED  BY <1>1, <1>2, <2>1, <2>2
<1>3. CASE h.st = "ending"
  <2>1. \A r \in h.run : r.mode # "live"  BY <1>1, <1>3 DEF HostShape
  <2> QED  BY <1>1, <1>3, <2>1 DEF StreamEnding
<1>4. CASE h.run = {}  BY <1>1, <1>4
<1> QED  BY <1>1, <1>2, <1>3, <1>4

\* A stream that ran is ending.
LEMMA StreamCloses ==
  ASSUME NEW h, NEW sealed, NEW whole, NEW deleted, NEW silent,
         StreamHost(h, sealed, whole, deleted, silent), h.st = "running",
         NEW g, HostShape(g, "stream"), g.st = "ending", g.wf \in StreamWf,
         g.wf.phase \in {"Acknowledging", "Confirming", "Completed"} => whole,
         g.wf.phase = "Completed" => deleted,
         g.wf.phase \in {h.wf.phase, "Failed"} \/ (g.wf.phase = "Completed" /\ h.wf.phase = "Confirming"),
         g.outcome \in {"done", "failed", "cancelled"},
         g.outcome = "done" => g.wf.phase = "Completed",
         g.outcome = "cancelled" => [eff |-> "WriteAbort", mode |-> "clean"] \in g.run,
         \A r \in g.run : \/ r.mode = "clean" /\ r.eff \in {"WriteAbort", "Discard", "Unsubscribe"}
                          \/ r.mode = "stale" /\ \E q \in h.run : q.eff = r.eff
  PROVE  StreamHost(g, sealed, whole, deleted, silent)
<1>1. /\ \A q \in h.run : q.eff \in StreamEffs /\ q.eff \in StreamWork(h.wf)
      /\ h.wf.phase = "Confirming" => whole  BY StreamRuns DEF StreamHost, StreamInv
<1>2. \A r \in g.run : r.eff \in StreamEffs  BY <1>1 DEF StreamEffs
<1>3. Has(g, "WriteConfirm") => whole
  <2>1. "WriteConfirm" \in StreamWork(h.wf) => h.wf.phase = "Confirming"  BY DEF StreamWork, Taking
  <2> QED  BY <1>1, <2>1 DEF Has
<1>5. Has(g, "WriteStart") => ~Has(g, "WriteConfirm") /\ g.wf.phase \in {"Starting", "Failed"}
  <2>1. "WriteStart" \in StreamWork(h.wf) => h.wf.phase = "Starting" /\ "WriteConfirm" \notin StreamWork(h.wf)
    BY DEF StreamWork, Taking
  <2> QED  BY <1>1, <2>1 DEF Has
<1>4. StreamEnding(g, whole, silent)  BY <1>2, <1>3, <1>5 DEF StreamEnding, Has
<1> QED  BY <1>4 DEF StreamHost, StreamInv

\* The answer of the engine is accepted.
LEMMA StreamAccepts ==
  ASSUME NEW h, NEW sealed, NEW whole, NEW deleted, NEW silent,
         StreamHost(h, sealed, whole, deleted, silent), h.st = "running",
         NEW e, NEW r, StreamStep(h.wf, e, r, sealed, whole, deleted),
         e.type = "Subscribed" => h.sub = "on",
         r.wf.phase \notin {"Completed", "Failed"} => \A q \in h.run : q.eff # e.of,
         NEW pend \in SUBSET (HostEffects \cup Timers)
  PROVE  /\ StreamHost(Accept(h, r, pend), sealed, whole, deleted, silent)
         /\ Accept(h, r, pend).st \in {"running", "ending"}
         /\ StreamMoved(Accept(h, r, pend), h, e, sealed)
         /\ HasStart(h) => HasStart(Accept(h, r, pend))
<1> DEFINE g == Accept(h, r, pend)
           a == [h EXCEPT !.wf = r.wf]
<1>1. /\ r.wf \in StreamWf /\ r.wf.kind = "stream" /\ r.wf \in Workflow /\ HostShape(h, "stream")
      /\ h \in HostType /\ h.run \subseteq Submitted /\ \A q \in h.run : q.mode = "live"
      /\ StreamRunning(h, sealed)
      /\ r.wf.phase \in {"Acknowledging", "Confirming", "Completed"} => whole
      /\ r.wf.phase = "Completed" => deleted /\ h.wf.phase = "Confirming"
      /\ h.outcome \in {"none", "done", "failed", "cancelled"}
  BY StreamRuns DEF StreamStep, StreamWf, Workflow, HostShape, StreamHost, StreamInv
<1>2. a.run = h.run  BY <1>1 DEF HostType
<1>3. Terminal(r.wf) = (r.wf.phase \in {"Completed", "Failed"})  BY DEF Terminal
<1>4. /\ HostShape(g, "stream")
      /\ IF Terminal(r.wf) THEN Ended(g, a, r.out, Outcome(r.wf)) /\ g.wf = r.wf ELSE Went(g, h, r)
  BY <1>1, AcceptShape
<1>5. \A q \in g.run : q.eff \in HostEffects  BY <1>4 DEF HostShape, HostType, Submitted
<1> HIDE DEF g, a
<1>6. CASE r.wf.phase \in {"Completed", "Failed"}
  <2>1. Ended(g, a, r.out, Outcome(r.wf)) /\ g.wf = r.wf  BY <1>3, <1>4, <1>6
  <2>2. Outcome(r.wf) = IF r.wf.phase = "Failed" THEN "failed" ELSE "done"  BY <1>1 DEF Outcome
  <2>3. r.out \cap HostEffects \subseteq {"Unsubscribe", "Discard"}  BY <1>6 DEF StreamStep
  <2>4. /\ g.st = "ending" /\ g.outcome \in {"done", "failed"}
        /\ g.outcome = "done" => g.wf.phase = "Completed"
        /\ \A q \in g.run : \/ q.mode = "clean" /\ q.eff \in {"WriteAbort", "Discard", "Unsubscribe"}
                            \/ q.mode = "stale" /\ \E p \in h.run : p.eff = q.eff
    BY <1>2, <1>5, <1>6, <2>1, <2>2, <2>3 DEF Ended
  <2>5. StreamHost(g, sealed, whole, deleted, silent)  BY <1>1, <1>4, <1>6, <2>1, <2>4, StreamCloses
  <2>6. HasStart(h) => HasStart(g)  BY <1>2, <2>1 DEF HasStart, Ended
  <2> QED  BY <2>4, <2>5, <2>6 DEF g, StreamMoved
<1>7. CASE r.wf.phase \notin {"Completed", "Failed"}
  <2>1. Went(g, h, r)  BY <1>3, <1>4, <1>7
  <2>2. /\ StreamFlow(r.wf, sealed) /\ r.wf.phase # "Subscribing"
        /\ StreamWork(h.wf) \subseteq {e.of} /\ r.out \subseteq StreamWork(r.wf)
        /\ (h.wf.phase = "Subscribing") = (e.type = "Subscribed")  BY <1>7 DEF StreamStep
  <2>3. \A q \in h.run : FALSE  BY <1>1, <1>7, <2>2 DEF StreamRunning
  <2>4. \A q \in g.run : q.eff \in StreamWork(r.wf)  BY <2>1, <2>2, <2>3 DEF Went
  <2>5. "Unsubscribe" \notin r.out /\ "Subscribe" \notin r.out  BY <2>2 DEF StreamWork, Taking
  <2>6. h.sub = "on" /\ g.sub = "on"  BY <1>1, <2>1, <2>2, <2>5 DEF Went, StreamRunning
  <2>7. StreamRunning(g, sealed) /\ g.st = "running" /\ g.wf = r.wf /\ g.outcome = h.outcome
    BY <1>7, <2>1, <2>2, <2>4, <2>6 DEF StreamRunning, Went
  <2>8. StreamHost(g, sealed, whole, deleted, silent)  BY <1>1, <1>4, <1>7, <2>7 DEF StreamHost, StreamInv
  <2>9. StreamMoved(g, h, e, sealed)  BY <1>7, <2>7 DEF StreamMoved, StreamStep
  <2>10. ~HasStart(h)  BY <2>3 DEF HasStart
  <2> QED  BY <2>7, <2>8, <2>9, <2>10 DEF g
<1> QED  BY <1>6, <1>7

\* What the cancellation of a stream does: the device is told to abort.
LEMMA StreamAborts ==
  ASSUME NEW h, NEW sealed, NEW whole, NEW deleted, NEW silent,
         StreamHost(h, sealed, whole, deleted, silent), h.st = "running",
         NEW outcome \in {"failed", "cancelled"}
  PROVE  LET g == Ending(h, CancelAnswer(h.wf), outcome)
         IN /\ StreamHost(g, sealed, whole, deleted, silent)
            /\ g.st = "ending" /\ (HasStart(h) => HasStart(g))
<1> DEFINE out == CancelAnswer(h.wf)
           g == Ending(h, out, outcome)
<1>1. /\ HostShape(h, "stream") /\ h.wf.kind = "stream" /\ h.wf \in StreamWf
      /\ h.wf.phase \in {"Acknowledging", "Confirming", "Completed"} => whole
      /\ h.wf.phase = "Completed" => deleted  BY StreamRuns DEF StreamHost, StreamInv
<1>2. out \subseteq {"WriteAbort", "Discard", "Unsubscribe"} /\ "WriteAbort" \in out \cap HostEffects
  BY <1>1 DEF CancelAnswer, StreamCancel, HostEffects, Writes
<1>3. HostShape(g, "stream") /\ Ended(g, h, out, outcome)  BY <1>1, EndingShape DEF Outcomes
<1> HIDE DEF out, g
<1>4. /\ g.st = "ending" /\ g.wf = h.wf /\ g.outcome = outcome
      /\ [eff |-> "WriteAbort", mode |-> "clean"] \in g.run
      /\ \A q \in g.run : \/ q.mode = "clean" /\ q.eff \in {"WriteAbort", "Discard", "Unsubscribe"}
                          \/ q.mode = "stale" /\ \E p \in h.run : p.eff = q.eff
  BY <1>2, <1>3 DEF Ended
<1>5. StreamHost(g, sealed, whole, deleted, silent)  BY <1>1, <1>3, <1>4, StreamCloses
<1>6. HasStart(h) => HasStart(g)  BY <1>3 DEF HasStart, Ended
<1> QED  BY <1>4, <1>5, <1>6 DEF g, out

\* The stream hears an event.
LEMMA StreamEmit ==
  ASSUME NEW h, NEW sealed \in BOOLEAN, NEW whole, NEW deleted, NEW silent,
         StreamHost(h, sealed, whole, deleted, silent), h.st = "running",
         NEW e, StreamTrue(h.wf, e, sealed, whole, deleted),
         e.type = "Subscribed" => h.sub = "on",
         \A q \in h.run : q.eff = e.of => e.type \in {"Notification", "Disconnected"}
  PROVE  /\ StreamHost(Emit(h, e), sealed, whole, deleted, silent)
         /\ Emit(h, e).st \in {"running", "ending"}
         /\ StreamMoved(Emit(h, e), h, e, sealed)
         /\ HasStart(h) => HasStart(Emit(h, e))
<1> DEFINE r == EngineAnswer(h.wf, e)
           w == h.wf
<1>1. /\ HostShape(h, "stream") /\ w \in StreamWf /\ w.kind = "stream" /\ StreamRunning(h, sealed)
      /\ w.phase \in {"Acknowledging", "Confirming"} => whole  BY StreamRuns DEF StreamHost, StreamInv
<1>2. r = StreamDispatch(w, e)  BY <1>1 DEF EngineAnswer
<1>3. \/ Emit(h, e) = Ending(h, CancelAnswer(w), "failed")
      \/ /\ ~r.rejected /\ Matches(e.of, e.type)
         /\ \E pend \in SUBSET (HostEffects \cup Timers) : Emit(h, e) = Accept(h, r, pend)
  BY <1>1, EmitCases
<1> HIDE DEF r
<1>4. CASE Emit(h, e) = Ending(h, CancelAnswer(w), "failed")
  <2>1. LET g == Ending(h, CancelAnswer(h.wf), "failed")
        IN /\ StreamHost(g, sealed, whole, deleted, silent)
           /\ g.st = "ending" /\ (HasStart(h) => HasStart(g))
    BY StreamAborts
  <2> QED  BY <1>4, <2>1 DEF StreamMoved
<1>5. CASE ~r.rejected /\ Matches(e.of, e.type)
           /\ \E pend \in SUBSET (HostEffects \cup Timers) : Emit(h, e) = Accept(h, r, pend)
  <2>1. StreamReady(w, e, sealed, whole, deleted)  BY <1>1, <1>5 DEF StreamReady, StreamRunning
  <2>2. StreamStep(w, e, r, sealed, whole, deleted)  BY <1>2, <1>5, <2>1, StreamDispatchStep
  <2>3. r.wf.phase \notin {"Completed", "Failed"} => \A q \in h.run : q.eff # e.of
    <3> SUFFICES ASSUME r.wf.phase \notin {"Completed", "Failed"}, NEW q \in h.run, q.eff = e.of
                 PROVE  FALSE
      OBVIOUS
    <3>1. e.type = "Notification"  BY <2>2 DEF StreamStep
    <3>2. w.phase # "Subscribing" /\ e.of = "Subscribe"  BY <1>5, <2>2, <3>1, Answered DEF StreamStep
    <3>3. q.eff \in StreamWork(w)  BY <1>1 DEF StreamRunning
    <3> QED  BY <3>2, <3>3 DEF StreamWork, Taking
  <2>4. PICK pend \in SUBSET (HostEffects \cup Timers) : Emit(h, e) = Accept(h, r, pend)  BY <1>5
  <2>5. /\ StreamHost(Accept(h, r, pend), sealed, whole, deleted, silent)
        /\ Accept(h, r, pend).st \in {"running", "ending"}
        /\ StreamMoved(Accept(h, r, pend), h, e, sealed)
        /\ HasStart(h) => HasStart(Accept(h, r, pend))  BY <2>2, <2>3, StreamAccepts
  <2> QED  BY <2>4, <2>5
<1> QED  BY <1>3, <1>4, <1>5

\* Some effects of the stream are over.
LEMMA StreamLess ==
  ASSUME NEW h, NEW sealed, NEW whole, NEW deleted, NEW silent,
         StreamHost(h, sealed, whole, deleted, silent), NEW rest \in SUBSET h.run, NEW g,
         g = [h EXCEPT !.run = rest],
         h.outcome = "cancelled" /\ ~h.dirty /\ h.st = "ending"
           /\ [eff |-> "WriteAbort", mode |-> "clean"] \in h.run \ rest => silent /\ ~Has(h, "WriteStart")
  PROVE  /\ StreamHost(g, sealed, whole, deleted, silent) /\ g.run = rest
         /\ g.st = h.st /\ g.wf = h.wf /\ g.outcome = h.outcome /\ g.dirty = h.dirty /\ g.sub = h.sub
<1>1. /\ HostShape(h, "stream") /\ h \in HostType /\ h.run \subseteq Submitted
      /\ h.st = "running" => StreamRunning(h, sealed)
      /\ h.st = "ending" => StreamEnding(h, whole, silent)  BY StreamRuns
<1>2. rest \in SUBSET Submitted  BY <1>1
<1>3. /\ g \in HostType /\ g.run = rest
      /\ g.st = h.st /\ g.wf = h.wf /\ g.outcome = h.outcome /\ g.dirty = h.dirty /\ g.sub = h.sub
  BY <1>1, <1>2 DEF HostType
<1>4. HostShape(g, "stream")  BY <1>1, <1>3 DEF HostShape
<1>5. h.st = "running" => StreamRunning(g, sealed)  BY <1>1, <1>3 DEF StreamRunning
<1>6. h.st = "ending" => StreamEnding(g, whole, silent)  BY <1>1, <1>3 DEF StreamEnding, Has
<1> QED  BY <1>3, <1>4, <1>5, <1>6 DEF StreamHost, StreamInv

\* An effect of the stream settles.
LEMMA StreamSettles ==
  ASSUME NEW h, NEW sealed \in BOOLEAN, NEW whole, NEW deleted, NEW silent,
         StreamHost(h, sealed, whole, deleted, silent), NEW r \in h.run, NEW type, NEW val,
         r.mode = "live" => StreamTrue(h.wf, Event(r.eff, type, val), sealed, whole, deleted),
         type = "Subscribed" /\ r.mode = "live" => h.sub = "on",
         r.mode = "clean" /\ r.eff = "WriteAbort" => silent /\ ~Has(h, "WriteStart")
  PROVE  LET g == Settle(h, r, type, val)
         IN /\ StreamHost(g, sealed, whole, deleted, silent) /\ g.st \in {"running", "ending"}
            /\ StreamMoved(g, h, Event(r.eff, type, val), sealed)
            /\ r.eff # "WriteStart" /\ HasStart(h) => HasStart(g)
<1> DEFINE rest == h.run \ {r}
           s == Without(h, r)
           e == Event(Source(r.eff), type, val)
           g == Settle(h, r, type, val)
<1>1. /\ HostShape(h, "stream") /\ h \in HostType /\ h.run \subseteq Submitted
      /\ h.st \in {"running", "ending"} /\ r.eff \in StreamEffs
      /\ r.mode = "live" => h.st = "running"
      /\ r.mode # "live" => h.st = "ending"
      /\ h.st = "running" => \A q \in h.run : q.mode = "live"  BY StreamRuns DEF HostShape
<1>2. s = [h EXCEPT !.run = rest] /\ rest \in SUBSET h.run  BY DEF Without
<1>3. g = IF r.mode = "live" THEN Emit(s, e) ELSE s  BY DEF Settle, Without
<1>4. e = Event(r.eff, type, val) /\ e.of = r.eff /\ e.type = type
  BY <1>1 DEF Event, Source, Results, StreamEffs, StreamEffects
<1>0. rest = h.run \ {r}  OBVIOUS
<1> HIDE DEF s, e, g, rest
<1>5. [eff |-> "WriteAbort", mode |-> "clean"] \in h.run \ rest => silent /\ ~Has(h, "WriteStart")  BY <1>0
<1>6. /\ StreamHost(s, sealed, whole, deleted, silent) /\ s.run = rest
      /\ s.st = h.st /\ s.wf = h.wf /\ s.outcome = h.outcome /\ s.dirty = h.dirty /\ s.sub = h.sub
  BY <1>2, <1>5, StreamLess
<1>7. r.eff # "WriteStart" /\ HasStart(h) => HasStart(s)  BY <1>0, <1>6 DEF HasStart
<1>8. CASE r.mode # "live"
  <2>1. g = s /\ h.st = "ending"  BY <1>1, <1>3, <1>8
  <2>2. StreamMoved(s, h, Event(r.eff, type, val), sealed)  BY <1>6, <2>1 DEF StreamMoved
  <2> QED  BY <1>1, <1>6, <1>7, <2>1, <2>2 DEF g
<1>9. CASE r.mode = "live"
  <2>1. g = Emit(s, e) /\ s.st = "running"  BY <1>1, <1>3, <1>6, <1>9
  <2>2. \A q \in s.run : q.eff # e.of  BY <1>0, <1>1, <1>4, <1>6, <1>9 DEF Submitted
  <2>3. StreamTrue(s.wf, e, sealed, whole, deleted) /\ (e.type = "Subscribed" => s.sub = "on")
    BY <1>4, <1>6, <1>9
  <2>4. /\ StreamHost(Emit(s, e), sealed, whole, deleted, silent)
        /\ Emit(s, e).st \in {"running", "ending"}
        /\ StreamMoved(Emit(s, e), s, e, sealed)
        /\ HasStart(s) => HasStart(Emit(s, e))  BY <1>6, <2>1, <2>2, <2>3, StreamEmit
  <2>5. StreamMoved(g, h, e, sealed)  BY <1>6, <2>1, <2>4 DEF StreamMoved
  <2> QED  BY <1>4, <1>7, <2>1, <2>4, <2>5 DEF g
<1> QED  BY <1>8, <1>9

\* An effect of the stream fails: the operation ends.
LEMMA StreamFails ==
  ASSUME NEW h, NEW sealed \in BOOLEAN, NEW whole, NEW deleted, NEW silent,
         StreamHost(h, sealed, whole, deleted, silent), NEW r \in h.run,
         NEW type \in {"Failed", "SinkFailed"}
  PROVE  LET g == SettleFailed(h, r, type)
         IN /\ StreamHost(g, sealed, whole, deleted, silent) /\ g.st = "ending"
            /\ r.eff # "WriteStart" /\ HasStart(h) => HasStart(g)
<1> DEFINE g == SettleFailed(h, r, type)
<1>1. /\ HostShape(h, "stream") /\ h \in HostType /\ r \in Submitted
      /\ h.st \in {"running", "ending"} /\ h.wf.kind = "stream"
      /\ r.mode = "live" => h.st = "running"
      /\ r.mode # "live" => h.st = "ending"  BY StreamRuns
<1>2. CASE r.mode \in {"live", "stale"}
  <2>1. g = Settle(h, r, type, 0)  BY <1>2 DEF SettleFailed, Settle
  <2>2. StreamTrue(h.wf, Event(r.eff, type, 0), sealed, whole, deleted)  BY DEF StreamTrue, Event
  <2> DEFINE t == Settle(h, r, type, 0)
  <2>3. /\ StreamHost(t, sealed, whole, deleted, silent) /\ t.st \in {"running", "ending"}
        /\ StreamMoved(t, h, Event(r.eff, type, 0), sealed)
        /\ r.eff # "WriteStart" /\ HasStart(h) => HasStart(t)  BY <1>2, <2>2, StreamSettles
  <2>4. Event(r.eff, type, 0).type = type  BY DEF Event
  <2> HIDE DEF t
  <2>5. t.st = "ending"  BY <2>3, <2>4 DEF StreamMoved
  <2> QED  BY <2>1, <2>3, <2>5 DEF t, g
<1>3. CASE r.mode = "clean"
  <2> DEFINE s == Without(h, r)
             t == [s EXCEPT !.dirty = TRUE]
  <2>1. /\ HostShape(s, "stream") /\ s.run = h.run \ {r} /\ s.st = h.st /\ s.wf = h.wf /\ s.outcome = h.outcome
    BY <1>1, WithoutShape
  <2>0. s = Without(h, r)  OBVIOUS
  <2> HIDE DEF s
  <2>2. g = t  BY <1>1, <1>3, <2>0 DEF SettleFailed, Without, OnApple
  <2>3. t \in HostType /\ t.st = s.st /\ t.wf = s.wf /\ t.outcome = s.outcome /\ t.run = s.run /\ t.dirty
    BY <2>1 DEF HostShape, HostType
  <2> HIDE DEF t, g
  <2>4. h.st = "ending" /\ StreamEnding(h, whole, silent)  BY <1>1, <1>3, StreamRuns
  <2>5. HostShape(t, "stream") /\ t.st = "ending"  BY <2>1, <2>3, <2>4 DEF HostShape
  <2>6. StreamEnding(t, whole, silent)  BY <2>1, <2>3, <2>4 DEF StreamEnding, Has
  <2>7. StreamHost(t, sealed, whole, deleted, silent)
    BY <2>1, <2>3, <2>4, <2>5, <2>6 DEF StreamHost, StreamInv
  <2>8. HasStart(h) => HasStart(t)  BY <1>3, <2>1, <2>3 DEF HasStart
  <2> QED  BY <2>2, <2>5, <2>7, <2>8 DEF g
<1> QED  BY <1>1, <1>2, <1>3 DEF Submitted

\* The application or the host gives the stream up.
LEMMA StreamCancelled ==
  ASSUME NEW h, NEW sealed \in BOOLEAN, NEW whole, NEW deleted, NEW silent,
         StreamHost(h, sealed, whole, deleted, silent), h.st \in {"running", "ending"},
         NEW outcome \in {"failed", "cancelled"}
  PROVE  LET g == CancelOperation(h, outcome)
         IN /\ StreamHost(g, sealed, whole, deleted, silent) /\ g.st = "ending"
            /\ HasStart(h) => HasStart(g)
<1> DEFINE g == CancelOperation(h, outcome)
<1>1. HostShape(h, "stream")  BY StreamRuns
<1>2. CASE h.st = "running"
  <2>1. g = Ending(h, CancelAnswer(h.wf), outcome)  BY <1>2 DEF CancelOperation
  <2>2. LET f == Ending(h, CancelAnswer(h.wf), outcome)
        IN /\ StreamHost(f, sealed, whole, deleted, silent)
           /\ f.st = "ending" /\ (HasStart(h) => HasStart(f))
    BY <1>2, StreamAborts
  <2> QED  BY <2>1, <2>2
<1>3. CASE h.st = "ending"
  <2>1. /\ HostShape(g, "stream")
        /\ \/ g = h
           \/ g.st = "ending" /\ g.outcome = "failed" /\ g.wf = h.wf /\ g.run = h.run
    BY <1>1, <1>3, CancelShape
  <2> HIDE DEF g
  <2>2. CASE g = h  BY <1>3, <2>2 DEF g
  <2>3. CASE g.st = "ending" /\ g.outcome = "failed" /\ g.wf = h.wf /\ g.run = h.run
    <3>1. StreamEnding(h, whole, silent)  BY <1>3, StreamRuns
    <3>2. StreamEnding(g, whole, silent)  BY <2>3, <3>1 DEF StreamEnding, Has
    <3>3. StreamHost(g, sealed, whole, deleted, silent)  BY <1>3, <2>1, <2>3, <3>2 DEF StreamHost, StreamInv
    <3>4. HasStart(h) => HasStart(g)  BY <2>3 DEF HasStart
    <3> QED  BY <2>3, <3>3, <3>4 DEF g
  <2> QED  BY <2>1, <2>2, <2>3
<1> QED  BY <1>2, <1>3

-----------------------------------------------------------------------------
(* The stream: every step *)

\* What the proofs use of the invariant of a stream.
LEMMA StreamKnown ==
  ASSUME StreamState
  PROVE  StreamFacts
<1>1. StreamHost(host, dev.sealed, Whole, dev.deleted, dev.next = 0)  BY DEF StreamState, StreamFamily
<1>2. /\ HostShape(host, "stream") /\ host \in HostType /\ host.run \subseteq Submitted
      /\ host.run # {} => host.st \in {"running", "ending"}
      /\ host.st \in {"running", "ending"} => host.wf.kind = "stream"
      /\ host.st = "running" => StreamRunning(host, dev.sealed)
      /\ \A r \in host.run : /\ r.eff \in StreamEffs
                             /\ r.mode = "live" => host.st = "running"
                             /\ r.mode # "live" => host.st = "ending"
                             /\ r.mode = "clean" => r.eff \in {"WriteAbort", "Discard", "Unsubscribe"}
                             /\ host.st = "running" => r.eff \in StreamWork(host.wf)
  BY <1>1, StreamRuns
<1>3. AmbientType /\ dev \in DevType /\ link \in LinkType /\ used \in UsedType /\ dev.sealed \in BOOLEAN
  BY DEF StreamState, Ambient, AmbientType, DevType
<1> QED  BY <1>1, <1>2, <1>3 DEF StreamState, StreamFamily, StreamFacts, Ambient, NoReset

\* What is known of the host stays known.
LEMMA StreamHolds ==
  ASSUME StreamFacts, StreamWorld
  PROVE  StreamThere(host)
<1>1. StreamHost(host, dev.sealed, Whole, dev.deleted, dev.next = 0)  BY DEF StreamFacts
<1>2. /\ dev'.sealed = dev.sealed /\ (Whole => Whole' \/ Has(host, "WriteStart")) /\ (dev.deleted => dev'.deleted)
      /\ dev.next = 0 => dev'.next = 0 \/ HasStart(host)  BY DEF StreamWorld
<1>5. HasStart(host) => Has(host, "WriteStart")  BY DEF HasStart, Has
<1>6. StreamEnding(host, Whole, dev.next = 0) => StreamEnding(host, Whole', dev'.next = 0)
  BY <1>2, <1>5 DEF StreamEnding
<1>3. host.st \in {"running", "ending"} /\ Has(host, "WriteStart") => host.wf.phase \in {"Starting", "Failed"}
  <2>1. host.st = "running" /\ Has(host, "WriteStart") => "WriteStart" \in StreamWork(host.wf)
    BY DEF StreamFacts, StreamRunning, Has
  <2>2. "WriteStart" \in StreamWork(host.wf) => host.wf.phase = "Starting"  BY DEF StreamWork, Taking
  <2>3. host.st = "ending" => StreamEnding(host, Whole, dev.next = 0)  BY <1>1 DEF StreamHost, StreamInv
  <2> QED  BY <2>1, <2>2, <2>3 DEF StreamEnding
<1>7. host.st \in {"running", "ending"} /\ StreamInv(host, dev.sealed, Whole, dev.deleted, dev.next = 0) =>
        StreamInv(host, dev'.sealed, Whole', dev'.deleted, dev'.next = 0)  BY <1>2, <1>3, <1>6 DEF StreamInv
<1> QED  BY <1>1, <1>7 DEF StreamHost, StreamThere

\* A step of the stream keeps its invariant, when what it did to the host, to the
\* sink and to the packets does.
LEMMA StreamKeeps ==
  ASSUME StreamState, AmbientType', StreamWorld, StreamThere(host'),
         host'.st \in {"running", "ending"} \/ host'.st = host.st,
         host'.st = "running" => SinkHolds(sink', svc', host'.wf, dev'.sealed),
         Intact' => InOrder', StartAhead'
  PROVE  StreamState'
<1>1. StreamFacts  BY StreamKnown
<1>2. host'.st \notin {"running", "ending"} => host.run = {} /\ ~HasStart(host)
  BY <1>1 DEF StreamFacts, HostShape, HostType, HasStart
<1>3. StreamHost(host', dev'.sealed, Whole', dev'.deleted, (dev.next = 0)')  BY DEF StreamThere
<1>4. (told' = "done" => dev'.deleted) /\ (host'.st = "idle" /\ told' = "cancelled" => dev'.next = 0)
  BY <1>2 DEF StreamState, StreamFamily, StreamWorld
<1>5. host'.st = "idle" /\ told' = "cancelled" => ~link'.cccd  BY <1>2 DEF StreamState, Ambient, StreamWorld
<1>6. StreamFamily'  BY <1>3, <1>4 DEF StreamFamily, StreamWorld
<1>7. Ambient'  BY <1>5 DEF Ambient, StreamWorld
<1>8. NoReset'  BY <1>3 DEF NoReset, StreamWorld, StreamHost
<1> QED  BY <1>6, <1>7, <1>8 DEF StreamState

\* The sink is what it was for a workflow that does not finalize.
LEMMA SinkMoved ==
  ASSUME NEW k, NEW v, NEW w, NEW sealed, SinkHolds(k, v, w, sealed), w.phase # "Finalizing", NEW x
  PROVE  SinkHolds(k, v, x, sealed)
BY DEF SinkHolds, PlainSink, SealedSink

\* No packet was sent or taken, and the packets stay or are gone with the subscription.
LEMMA OrderKept ==
  ASSUME StreamFacts, StreamWorld, PacketsKept, StreamSame(host', host),
         svc.units \subseteq svc'.units, link'.ahead => link.ahead
  PROVE  Intact' => InOrder'
<1> SUFFICES ASSUME Intact', Flowing(host)'
             PROVE  (Ordered(inbox, dev.next) /\ Arrives(host.wf) /\ Keyed(host.wf))'
  BY DEF InOrder
<1>1. host'.st = "running" /\ host.st = "running" /\ host'.wf = host.wf /\ Flowing(host)
  BY DEF Flowing, StreamSame
<1>2. Ordered(inbox, dev.next) /\ Arrives(host.wf) /\ Keyed(host.wf)
  BY <1>1 DEF StreamFacts, InOrder, Intact, StreamWorld
<1>3. /\ dev'.sealed = dev.sealed /\ dev'.heard = dev.heard /\ dev'.next \in {dev.next, 0}
      /\ \/ inbox' = <<>> /\ ~link'.cccd
         \/ inbox' = inbox /\ link'.cccd = link.cccd
  BY DEF StreamWorld, PacketsKept
<1>4. /\ Sent(dev.next) <= Sent(dev'.next) /\ Sent(dev.next) \in Int /\ Sent(dev'.next) \in Int
      /\ Reached(host.wf) \in Int
  <2>1. Units \in Nat /\ Units > 0 /\ dev.next \in -1 .. Units + 1
    BY NativeConstants DEF StreamFacts, DevType
  <2>2. host.wf \in StreamWf  BY <1>1, StreamRuns DEF StreamFacts
  <2> QED  BY <1>3, <2>1, <2>2 DEF Sent, Reached, StreamWf
<1>5. Ordered(inbox, dev.next)'
  <2>1. CASE inbox' = <<>>  BY <2>1 DEF Ordered
  <2>2. CASE inbox' = inbox
    <3>1. \A i \in DOMAIN inbox : IsData(inbox[i]) => inbox[i].seq \in Int
      BY PacketShape DEF StreamFacts, PacketIs, IsData
    <3> QED  BY <1>2, <1>3, <1>4, <2>2, <3>1 DEF Ordered
  <2> QED  BY <1>3, <2>1, <2>2
<1>6. Arrives(host.wf)'  BY <1>1, <1>2, <1>3, <1>4 DEF Arrives
<1>7. Keyed(host.wf)'  BY <1>1, <1>2, <1>3 DEF Keyed
<1> QED  BY <1>5, <1>6, <1>7

\* The device sends the recording from its first packet.
LEMMA OrderFresh ==
  ASSUME Renewed, Flowing(host)' => Reached(host'.wf) = NoSequence /\ host'.wf.phase # "Finalizing"
  PROVE  Intact' => InOrder'
<1> SUFFICES ASSUME Intact', Flowing(host)'
             PROVE  (Ordered(inbox, dev.next) /\ Arrives(host.wf) /\ Keyed(host.wf))'
  BY DEF InOrder
<1>1. inbox' = <<>> /\ dev'.heard = {} /\ Sent(dev'.next) = 1 /\ Reached(host'.wf) = -1
      /\ host'.wf.phase # "Finalizing"  BY DEF Renewed, Sent, NoSequence
<1>2. Ordered(inbox, dev.next)'  BY <1>1 DEF Ordered
<1>3. Arrives(host.wf)'  BY <1>1 DEF Arrives
<1>4. Keyed(host.wf)'  BY <1>1 DEF Keyed
<1> QED  BY <1>2, <1>3, <1>4

\* A step without the sink.
LEMMA StreamGoes ==
  ASSUME StreamState, AmbientType', StreamWorld, UNCHANGED <<sink, svc>>,
         StreamThere(host'), Intact' => InOrder',
         host'.st = "running" =>
           host.st = "running" /\ (host'.wf = host.wf \/ host.wf.phase # "Finalizing"),
         host'.st \in {"running", "ending"} \/ host'.st = host.st, StartAhead'
  PROVE  StreamState'
<1>1. StreamFacts  BY StreamKnown
<1>3. host'.st = "running" => SinkHolds(sink', svc', host'.wf, dev'.sealed)
  <2> SUFFICES ASSUME host'.st = "running"
               PROVE  SinkHolds(sink, svc, host'.wf, dev.sealed)
    BY DEF StreamWorld
  <2>1. SinkHolds(sink, svc, host.wf, dev.sealed)  BY <1>1 DEF StreamFacts
  <2>2. CASE host.wf.phase # "Finalizing"  BY <2>1, <2>2, SinkMoved
  <2>3. CASE host'.wf = host.wf  BY <2>1, <2>3
  <2> QED  BY <2>2, <2>3
<1> QED  BY <1>3, StreamKeeps

\* A step without the sink and without a packet.
LEMMA StreamRests ==
  ASSUME StreamState, AmbientType', StreamWorld, PacketsKept, UNCHANGED <<sink, svc>>,
         StreamThere(host'), StreamSame(host', host), link'.ahead => link.ahead,
         host'.st \in {"running", "ending"} \/ host'.st = host.st, StartAhead'
  PROVE  StreamState'
<1>1. Intact' => InOrder'  BY StreamKnown, OrderKept
<1> QED  BY <1>1, StreamGoes DEF StreamSame

\* A host as it was is the same.
LEMMA SameHost ==
  ASSUME NEW g, NEW h, NEW e, NEW sealed, StreamMoved(g, h, e, sealed) \/ g = h \/ g.st = "ending",
         e.type \notin {"Notification", "Subscribed", "WriteCompleted", "SinkAccepted", "SinkFinalized"}
  PROVE  StreamSame(g, h)
BY DEF StreamSame, StreamMoved, Unheard

\* A step that leaves the device, the sink and the packets.
LEMMA StreamUnmoved ==
  ASSUME StreamFacts, UNCHANGED <<dev, sink, svc, told>>, link'.cccd => link.cccd \/ host.run # {},
         \/ inbox' = <<>> /\ ~link'.cccd
         \/ inbox' = inbox /\ link'.cccd = link.cccd
  PROVE  StreamWorld /\ PacketsKept
<1>1. PacketsKept  BY DEF PacketsKept
<1>2. Whole => Whole'  BY DEF Whole, Covered
<1>3. inbox' \in Seq(PacketsOf(dev.sealed)) /\ (~link'.cccd => inbox' = <<>>)
  <2>1. CASE inbox' = <<>>  BY <2>1
  <2>2. CASE inbox' = inbox /\ link'.cccd = link.cccd  BY <2>2 DEF StreamFacts
  <2> QED  BY <2>1, <2>2
<1> QED  BY <1>1, <1>2, <1>3 DEF StreamWorld, StreamFacts

\* A write of the stream reaches the device.
LEMMA StreamDevice ==
  ASSUME StreamFacts, NEW eff \in {"WriteStart", "WriteAck", "WriteConfirm", "WriteAbort"},
         DeviceTakes(eff), UNCHANGED <<sink, svc, told>>, link'.cccd = link.cccd,
         eff = "WriteStart" => HasStart(host)
  PROVE  /\ StreamWorld
         /\ IF eff = "WriteStart" THEN Intact' => Renewed ELSE PacketsKept
<1>1. DeviceTook(eff) /\ Units \in Nat /\ Units > 0
  BY DeviceTakesStep, NativeConstants DEF StreamFacts, Writes
<1>2. /\ dev'.sealed = dev.sealed /\ (dev.deleted => dev'.deleted) /\ dev'.held = NoResult /\ ~dev'.logging
      /\ eff # "WriteStart" => UNCHANGED inbox /\ dev'.next \in {dev.next, 0} /\ dev'.heard = dev.heard
  BY <1>1 DEF DeviceTook, StreamFacts
<1>3. eff = "WriteStart" =>
        \/ dev.deleted /\ dev' = dev /\ Notifies([type |-> "error"])
        \/ dev'.next = (IF dev.sealed THEN -1 ELSE 1) /\ dev'.heard = {} /\ inbox = <<>> /\ UNCHANGED inbox
  BY DEF DeviceTakes, StreamFacts, DevType
<1>4. Whole => Whole' \/ Has(host, "WriteStart")
  <2>1. CASE eff = "WriteStart"  BY <2>1 DEF HasStart, Has
  <2>2. CASE eff # "WriteStart"
    <3>1. Covered => Covered'  BY <1>2, <2>2 DEF Covered
    <3> QED  BY <1>2, <2>2, <3>1 DEF Whole
  <2> QED  BY <2>1, <2>2
<1>5. inbox' \in Seq(PacketsOf(dev.sealed)) /\ (~link'.cccd => inbox' = <<>>)
  <2>1. CASE inbox' = inbox  BY <2>1 DEF StreamFacts
  <2>2. CASE Notifies([type |-> "error"])
    <3>1. [type |-> "error"] \in PacketsOf(dev.sealed)  BY DEF PacketsOf
    <3>2. CASE link.cccd  BY <2>2, <3>1, <3>2, AppendProperties DEF Notifies, StreamFacts
    <3>3. CASE ~link.cccd  BY <2>2, <3>3 DEF Notifies, StreamFacts
    <3> QED  BY <3>2, <3>3
  <2> QED  BY <1>2, <1>3, <2>1, <2>2
<1>6. eff = "WriteStart" => (Intact' => Renewed)  BY <1>3 DEF Intact, Renewed
<1>9. eff # "WriteStart" => PacketsKept  BY <1>2 DEF PacketsKept
<1>7. dev'.next = 0 \/ dev.next # 0 \/ HasStart(host)  BY <1>2
<1>8. dev'.next = -1 => dev.sealed  BY <1>2, <1>3 DEF StreamFacts
<1> QED  BY <1>2, <1>4, <1>5, <1>6, <1>7, <1>8, <1>9 DEF StreamWorld, StreamFacts

\* A clean effect begins when nothing else of the stream is left.
LEMMA StreamMute ==
  ASSUME StreamFacts, NEW r \in host.run, Ready(r), r.mode = "clean"
  PROVE  ~Has(host, "WriteStart") /\ ~HasStart(host) /\ ~link.ahead
<1>1. host.st = "ending"  BY DEF StreamFacts
<1>2. \A q \in host.run : q.mode = "clean"  BY <1>1 DEF StreamFacts, Ready, Barrier, Submitted
<1> QED  BY <1>2 DEF Has, HasStart, StartAhead, StreamFacts

\* A write settles, or its callback is lost.
LEMMA StreamWrite ==
  ASSUME StreamState, AmbientType', NEW r \in host.run, Ready(r), Write(r)
  PROVE  StreamState'
<1>1. /\ StreamFacts /\ host.st \in {"running", "ending"} /\ UNCHANGED <<sink, svc, told>>
      /\ r.eff \in {"WriteStart", "WriteAck", "WriteConfirm", "WriteAbort"}
  BY StreamKnown DEF StreamFacts, Write, Radio, Writes, StreamEffs, StreamEffects
<1>2. link'.cccd = link.cccd /\ ~link'.ahead  BY <1>1 DEF Write, StreamFacts, LinkType
<1>3. r.eff = "WriteStart" => HasStart(host)  BY <1>1 DEF HasStart, StreamFacts
<1>4. \/ UNCHANGED <<dev, inbox>>
      \/ ~link.ahead /\ DeviceTakes(r.eff)  BY DEF Write
<1>5. /\ StreamWorld
      /\ PacketsKept \/ (r.eff = "WriteStart" /\ (Intact' => Renewed))
  <2>1. CASE UNCHANGED <<dev, inbox>>  BY <1>1, <1>2, <2>1, StreamUnmoved
  <2>2. CASE DeviceTakes(r.eff)  BY <1>1, <1>2, <1>3, <2>2, StreamDevice
  <2> QED  BY <1>4, <2>1, <2>2
<1>6. StreamThere(host) /\ dev'.sealed \in BOOLEAN  BY <1>1, <1>5, StreamHolds DEF StreamWorld, StreamFacts
<1>7. StartAhead'  BY <1>2 DEF StartAhead
<1>8. CASE host' = SettleFailed(host, r, "Failed")
  <2>1. StreamThere(host') /\ host'.st = "ending"  BY <1>6, <1>8, StreamFails DEF StreamThere
  <2>2. Intact' => InOrder'  BY <2>1 DEF InOrder, Flowing
  <2> QED  BY <1>1, <1>5, <1>7, <2>1, <2>2, StreamGoes
<1>9. CASE /\ link.up /\ host' = Settle(host, r, "WriteCompleted", 0)
           /\ IF link.ahead THEN UNCHANGED <<dev, inbox>> ELSE DeviceTakes(r.eff)
  <2> DEFINE e == Event(r.eff, "WriteCompleted", 0)
  <2>1. r.mode = "live" => StreamTrue(host.wf, e, dev'.sealed, Whole', dev'.deleted)
    <3>1. r.mode = "live" /\ r.eff = "WriteConfirm" => dev'.deleted
      <4> SUFFICES ASSUME r.mode = "live", r.eff = "WriteConfirm"
                   PROVE  dev'.deleted
        OBVIOUS
      <4>1. host.st = "running" /\ \A q \in host.run : q.eff \in StreamWork(host.wf)
        BY <1>1 DEF StreamFacts
      <4>2. "WriteConfirm" \in StreamWork(host.wf)  BY <4>1
      <4>3. StreamWork(host.wf) = {"WriteConfirm"}  BY <4>2 DEF StreamWork, Taking
      <4>4. ~link.ahead  BY <1>1, <4>1, <4>3 DEF StreamFacts, StartAhead
      <4> QED  BY <1>1, <1>9, <4>4, DeviceTakesStep DEF DeviceTook, StreamFacts, Writes
    <3>2. e.of = r.eff /\ e.type = "WriteCompleted"  BY DEF Event
    <3> HIDE DEF e
    <3> QED  BY <3>1, <3>2 DEF StreamTrue
  <2>2. r.mode = "clean" /\ r.eff = "WriteAbort" => (dev.next = 0)' /\ ~Has(host, "WriteStart")
    <3> SUFFICES ASSUME r.mode = "clean", r.eff = "WriteAbort"
                 PROVE  (dev.next = 0)' /\ ~Has(host, "WriteStart")
      OBVIOUS
    <3>1. ~Has(host, "WriteStart") /\ ~link.ahead  BY <1>1, StreamMute
    <3> QED  BY <1>1, <1>9, <3>1, DeviceTakesStep DEF DeviceTook, StreamFacts, Writes
  <2>3. /\ StreamThere(host') /\ host'.st \in {"running", "ending"}
        /\ StreamMoved(host', host, e, dev'.sealed)
    BY ZenonT(60), <1>6, <1>9, <2>1, <2>2, StreamSettles DEF StreamThere
  <2>4. e.type = "WriteCompleted" /\ e.of = r.eff  BY DEF Event
  <2> HIDE DEF e
  <2>5. host'.st = "running" => /\ host.st = "running" /\ Unheard(host.wf, e, host'.wf)
                                /\ host.wf.phase # "Finalizing"
    BY <2>3, <2>4 DEF StreamMoved
  <2>6. Intact' => InOrder'
    <3> SUFFICES ASSUME Intact', Flowing(host)', host'.st = "running"
                 PROVE  (Ordered(inbox, dev.next) /\ Arrives(host.wf) /\ Keyed(host.wf))'
      BY DEF InOrder, Flowing
    <3>1. host.wf.phase = "Starting" /\ host'.wf.phase = "Transferring"
          /\ Reached(host'.wf) = Reached(host.wf) /\ host'.wf.next = NoSequence
      BY <1>2, <2>4, <2>5 DEF Flowing, Unheard
    <3>2. Reached(host.wf) = NoSequence
      BY <1>1, <2>5, <3>1 DEF StreamFacts, StreamRunning, StreamFlow, Counted, Fresh, Reached
    <3>3. r.eff = "WriteStart"
      <4>1. r.eff \in StreamWork(host.wf)  BY <1>1, <2>5 DEF StreamFacts
      <4> QED  BY <3>1, <4>1 DEF StreamWork
    <3>4. CASE link.ahead
      <4>1. Flowing(host) /\ UNCHANGED <<dev, inbox>> /\ Intact
        BY <1>9, <2>5, <3>1, <3>4 DEF Flowing, Intact
      <4>2. Ordered(inbox, dev.next) /\ Arrives(host.wf) /\ Keyed(host.wf)
        BY <1>1, <4>1 DEF StreamFacts, InOrder
      <4>3. Ordered(inbox, dev.next)'  BY <4>1, <4>2 DEF Ordered
      <4>4. Arrives(host.wf)'  BY <1>2, <3>1, <4>1, <4>2 DEF Arrives
      <4>5. Keyed(host.wf)'  BY <3>1, <3>2 DEF Keyed
      <4> QED  BY <4>3, <4>4, <4>5
    <3>5. CASE ~link.ahead
      <4>1. Intact' => Renewed  BY <1>1, <1>2, <1>3, <1>9, <3>3, <3>5, StreamDevice
      <4>2. Intact' => InOrder'  BY <3>1, <3>2, <4>1, OrderFresh
      <4> QED  BY <4>2 DEF InOrder
    <3> QED  BY <3>4, <3>5
  <2> QED  BY <1>1, <1>5, <1>7, <2>3, <2>5, <2>6, StreamGoes
<1> QED  BY <1>8, <1>9 DEF Write

\* The start is being executed as long as something else settles.
LEMMA StartsAhead ==
  ASSUME StreamFacts, link'.ahead => link.ahead, HasStart(host) => HasStart(host')
  PROVE  StartAhead'
BY DEF StreamFacts, StartAhead, HasStart

\* The subscription is made, is reported, or fails.
LEMMA StreamSubscribe ==
  ASSUME StreamState, AmbientType', NEW r \in host.run, Subscribe(r)
  PROVE  StreamState'
<1>1. /\ StreamFacts /\ host.st \in {"running", "ending"} /\ UNCHANGED <<dev, sink, svc, told>>
      /\ r.eff = "Subscribe" /\ dev.held = NoResult /\ link \in LinkType /\ host.run # {}
  BY StreamKnown DEF StreamFacts, Subscribe, Radio
<1>2. link'.ahead = link.ahead  BY <1>1 DEF Subscribe, LinkType
<1>6. host.st = "running" => host.wf.phase = "Subscribing" /\ ~link.ahead
  <2> SUFFICES ASSUME host.st = "running"
               PROVE  host.wf.phase = "Subscribing" /\ ~link.ahead
    OBVIOUS
  <2>1. \A q \in host.run : q.eff \in StreamWork(host.wf)  BY <1>1 DEF StreamFacts
  <2>2. "Subscribe" \in StreamWork(host.wf)  BY <1>1, <2>1
  <2>3. host.wf.phase = "Subscribing" /\ StreamWork(host.wf) = {"Subscribe"}  BY <2>2 DEF StreamWork, Taking
  <2> QED  BY <1>1, <2>1, <2>3 DEF StreamFacts, StartAhead
<1>3. CASE ~link.cccd /\ link' = [link EXCEPT !.cccd = TRUE] /\ inbox' = inbox /\ UNCHANGED host
  <2>1. inbox' = <<>> /\ link'.cccd  BY <1>1, <1>3 DEF StreamFacts, LinkType
  <2>2. Whole => Whole'  BY <1>1 DEF Whole, Covered
  <2>3. StreamWorld  BY <1>1, <2>1, <2>2 DEF StreamWorld, StreamFacts
  <2>4. StreamThere(host')  BY <1>1, <1>3, <2>3, StreamHolds
  <2>5. Intact' => InOrder'
    <3>1. ~Flowing(host)'  BY <1>3, <1>6 DEF Flowing
    <3> QED  BY <3>1 DEF InOrder
  <2>6. StartAhead'  BY <1>1, <1>2, <1>3, StartsAhead
  <2> QED  BY <1>1, <1>3, <2>3, <2>4, <2>5, <2>6, StreamGoes
<1>4. CASE /\ UNCHANGED <<link, inbox>>
           /\ host' = Settle(IF r.mode = "live" THEN [host EXCEPT !.sub = "on"] ELSE host, r, "Subscribed", 0)
  <2> DEFINE s == Opened(host)
             h == IF r.mode = "live" THEN s ELSE host
             e == Event(r.eff, "Subscribed", 0)
  <2>1. StreamWorld /\ PacketsKept  BY <1>1, <1>4, StreamUnmoved
  <2>2. StreamThere(host) /\ dev'.sealed \in BOOLEAN  BY <1>1, <2>1, StreamHolds DEF StreamFacts
  <2>3. /\ HostShape(s, "stream") /\ s.run = host.run /\ s.st = host.st /\ s.wf = host.wf
        /\ s.outcome = host.outcome /\ s.dirty = host.dirty /\ s.sub = "on"
    BY <1>1, OpenedShape DEF StreamFacts
  <2>4. host' = Settle(h, r, "Subscribed", 0)  BY <1>4 DEF Opened
  <2>0. h = IF r.mode = "live" THEN s ELSE host  OBVIOUS
  <2> HIDE DEF s, h
  <2>5. StreamThere(s)
    BY <2>2, <2>3 DEF StreamThere, StreamHost, StreamInv, StreamRunning, StreamEnding, Has
  <2>6. StreamThere(h) /\ r \in h.run /\ h.st = host.st /\ h.wf = host.wf /\ h.run = host.run
        /\ (r.mode = "live" => h.sub = "on")  BY <2>0, <2>2, <2>3, <2>5
  <2>7. StreamTrue(h.wf, e, dev'.sealed, Whole', dev'.deleted)
        /\ e.type = "Subscribed"  BY DEF StreamTrue, Event
  <2>8. /\ StreamThere(host') /\ host'.st \in {"running", "ending"}
        /\ StreamMoved(host', h, e, dev'.sealed)
        /\ HasStart(h) => HasStart(host')
    <3> HIDE DEF e
    <3>1. r.mode = "live" => StreamTrue(h.wf, Event(r.eff, "Subscribed", 0), dev'.sealed, Whole', dev'.deleted)
      BY <2>7 DEF e
    <3> QED  BY <1>1, <2>2, <2>4, <2>6, <3>1, StreamSettles DEF StreamThere, e
  <2> HIDE DEF e
  <2>9. StreamSame(host', host)  BY <1>2, <1>6, <2>6, <2>7, <2>8 DEF StreamSame, StreamMoved, Unheard
  <2>10. StartAhead'  BY <1>1, <1>2, <2>6, <2>8, StartsAhead DEF HasStart
  <2> QED  BY <1>1, <1>2, <2>1, <2>8, <2>9, <2>10, StreamRests
<1>5. CASE link' = [link EXCEPT !.cccd = FALSE] /\ inbox' = <<>> /\ host' = SettleFailed(host, r, "Failed")
  <2>1. ~link'.cccd  BY <1>1, <1>5 DEF LinkType
  <2>2. StreamWorld /\ PacketsKept  BY <1>1, <1>5, <2>1, StreamUnmoved
  <2>3. StreamThere(host) /\ dev'.sealed \in BOOLEAN  BY <1>1, <2>2, StreamHolds DEF StreamFacts
  <2>4. StreamThere(host') /\ host'.st = "ending" /\ (HasStart(host) => HasStart(host'))
    BY <1>1, <1>5, <2>3, StreamFails DEF StreamThere
  <2>5. StartAhead' /\ StreamSame(host', host)  BY <1>1, <1>2, <2>4, StartsAhead DEF StreamSame
  <2> QED  BY <1>1, <1>2, <2>2, <2>4, <2>5, StreamRests
<1> QED  BY <1>1, <1>3, <1>4, <1>5 DEF Subscribe

\* The stream stops listening.
LEMMA StreamUnsubscribe ==
  ASSUME StreamState, AmbientType', NEW r \in host.run, Unsubscribe(r)
  PROVE  StreamState'
<1>1. /\ StreamFacts /\ host.st \in {"running", "ending"} /\ UNCHANGED <<dev, sink, svc, told>>
      /\ r.eff = "Unsubscribe" /\ link \in LinkType /\ inbox' = <<>>
      /\ link' = [link EXCEPT !.cccd = FALSE] /\ host' = [host EXCEPT !.run = @ \ {r}]
  BY StreamKnown DEF StreamFacts, Unsubscribe, Radio, Done
<1>2. ~link'.cccd /\ link'.ahead = link.ahead  BY <1>1 DEF LinkType
<1>3. StreamWorld /\ PacketsKept  BY <1>1, <1>2, StreamUnmoved
<1>4. StreamThere(host)  BY <1>1, <1>3, StreamHolds
<1> DEFINE rest == host.run \ {r}
<1>5. host' = [host EXCEPT !.run = rest] /\ rest \in SUBSET host.run
      /\ [eff |-> "WriteAbort", mode |-> "clean"] \notin host.run \ rest  BY <1>1
<1>0. rest = host.run \ {r}  OBVIOUS
<1> HIDE DEF rest
<1>6. /\ StreamThere(host') /\ host'.run = rest /\ host'.st = host.st /\ host'.wf = host.wf
  BY <1>4, <1>5, StreamLess DEF StreamThere
<1>7. StreamSame(host', host)  BY <1>6 DEF StreamSame
<1>8. StartAhead'  BY <1>0, <1>1, <1>2, <1>6, StartsAhead DEF HasStart
<1> QED  BY <1>1, <1>2, <1>3, <1>6, <1>7, <1>8, StreamRests

\* The file of the stream is removed, or is not.
LEMMA StreamDiscard ==
  ASSUME StreamState, AmbientType', NEW r \in host.run, Discard(r)
  PROVE  StreamState'
<1>1. /\ StreamFacts /\ host.st \in {"running", "ending"} /\ UNCHANGED <<dev, sink, svc, told, link, inbox>>
      /\ r.eff = "Discard"
      /\ host' = [host EXCEPT !.run = @ \ {r}] \/ host' = SettleFailed(host, r, "SinkFailed")
  BY StreamKnown DEF StreamFacts, Discard, Sinks, Done
<1>2. StreamWorld /\ PacketsKept  BY <1>1, StreamUnmoved
<1>3. StreamThere(host) /\ dev'.sealed \in BOOLEAN  BY <1>1, <1>2, StreamHolds DEF StreamFacts
<1>4. StreamThere(host') /\ StreamSame(host', host) /\ host'.st \in {"running", "ending"}
      /\ (HasStart(host) => HasStart(host'))
  <2>1. CASE host' = SettleFailed(host, r, "SinkFailed")
    <3>1. StreamThere(host') /\ host'.st = "ending" /\ (HasStart(host) => HasStart(host'))
      BY <1>1, <1>3, <2>1, StreamFails DEF StreamThere
    <3> QED  BY <3>1 DEF StreamSame
  <2>2. CASE host' = [host EXCEPT !.run = @ \ {r}]
    <3> DEFINE rest == host.run \ {r}
    <3>1. host' = [host EXCEPT !.run = rest] /\ rest \in SUBSET host.run
          /\ [eff |-> "WriteAbort", mode |-> "clean"] \notin host.run \ rest
      BY <1>1, <2>2
    <3>0. rest = host.run \ {r}  OBVIOUS
    <3> HIDE DEF rest
    <3>2. StreamThere(host') /\ host'.run = rest /\ host'.st = host.st /\ host'.wf = host.wf
      BY <1>3, <3>1, StreamLess DEF StreamThere
    <3> QED  BY <1>1, <3>0, <3>2 DEF StreamSame, HasStart
  <2> QED  BY <1>1, <2>1, <2>2
<1>5. StartAhead'  BY <1>1, <1>4, StartsAhead
<1> QED  BY <1>1, <1>2, <1>4, <1>5, StreamRests

\* The device may answer the start before the write is reported.
LEMMA StreamAhead ==
  ASSUME StreamState, AmbientType', Ahead
  PROVE  StreamState'
<1>1. PICK r \in host.run : WriteExecutes(r)  BY DEF Ahead
<1>2. StreamFacts /\ r.eff = "WriteStart" /\ r.mode # "clean" /\ HasStart(host)
  BY <1>1, StreamKnown DEF StreamFacts, WriteExecutes, StreamEffs, StreamEffects, HasStart
<1>3. UNCHANGED <<host, sink, svc, told>> /\ link'.cccd = link.cccd /\ DeviceTakes(r.eff)
  BY <1>1, <1>2 DEF WriteExecutes, Radio, LinkType, StreamFacts
<1>4. StreamWorld /\ (Intact' => Renewed)  BY <1>2, <1>3, StreamDevice
<1>5. StreamThere(host')  BY <1>2, <1>3, <1>4, StreamHolds
<1>6. StartAhead'  BY <1>2, <1>3 DEF StartAhead, HasStart
<1>7. host.st = "running" => host.wf.phase = "Starting" /\ Reached(host.wf) = NoSequence
  <2> SUFFICES ASSUME host.st = "running"
               PROVE  host.wf.phase = "Starting" /\ Reached(host.wf) = NoSequence
    OBVIOUS
  <2>1. "WriteStart" \in StreamWork(host.wf) /\ Counted(host.wf, dev.sealed)
    BY <1>2 DEF StreamFacts, StreamRunning, StreamFlow
  <2>2. host.wf.phase = "Starting"  BY <2>1 DEF StreamWork, Taking
  <2> QED  BY <2>1, <2>2 DEF Counted, Fresh, Reached
<1>8. Intact' => InOrder'
  <2>1. Flowing(host)' => Reached(host'.wf) = NoSequence /\ host'.wf.phase # "Finalizing"
    BY <1>3, <1>7 DEF Flowing
  <2>2. CASE Intact'  BY <1>4, <2>1, <2>2, OrderFresh
  <2> QED  BY <2>2
<1> QED  BY <1>3, <1>4, <1>5, <1>6, <1>8, StreamGoes

\* The application gives the stream up.
LEMMA StreamCancels ==
  ASSUME StreamState, AmbientType', AppCancels
  PROVE  StreamState'
<1>1. /\ StreamFacts /\ host.st \in {"running", "ending"} /\ UNCHANGED <<sink, link, inbox, dev, svc, told>>
  BY StreamKnown DEF AppCancels
<1>2. host' = CancelOperation(host, "cancelled")  BY <1>1 DEF AppCancels, OnApple, StreamFacts
<1>3. StreamWorld /\ PacketsKept  BY <1>1, StreamUnmoved
<1>4. StreamThere(host) /\ dev'.sealed \in BOOLEAN  BY <1>1, <1>3, StreamHolds DEF StreamFacts
<1>5. StreamThere(host') /\ host'.st = "ending" /\ (HasStart(host) => HasStart(host'))
  BY <1>1, <1>2, <1>4, StreamCancelled DEF StreamThere
<1>6. StreamSame(host', host) /\ StartAhead'  BY <1>1, <1>5, StartsAhead DEF StreamSame
<1> QED  BY <1>1, <1>3, <1>5, <1>6, StreamRests

\* A timer or the loss of the link: no packet, and nothing of the sink.
LEMMA StreamDrops ==
  ASSUME StreamState, AmbientType', TimerElapses \/ HearDrop
  PROVE  StreamState'
<1>1. /\ StreamFacts /\ UNCHANGED <<sink, svc, dev, told, inbox>> /\ link'.cccd = link.cccd /\ link'.ahead = link.ahead
  BY StreamKnown DEF TimerElapses, HearDrop, Radio, LinkType, StreamFacts
<1>2. StreamWorld /\ PacketsKept  BY <1>1, StreamUnmoved
<1>3. StreamThere(host) /\ dev'.sealed \in BOOLEAN  BY <1>1, <1>2, StreamHolds DEF StreamFacts
<1>4. \/ host' = host
      \/ host.st = "running" /\ host' = CancelOperation(host, "failed")
      \/ /\ host.st = "running"
         /\ \E e : /\ e.type \in {"TimerFired", "Disconnected"} /\ host' = Emit(host, e)
                   /\ \A q \in host.run : q.eff = e.of => e.type = "Disconnected"
  <2>1. CASE TimerElapses
    <3>1. PICK t \in Timers : host' = Emit(host, Event(t, "TimerFired", 0))  BY <2>1 DEF TimerElapses
    <3>2. Event(t, "TimerFired", 0).of = t /\ Event(t, "TimerFired", 0).type = "TimerFired"  BY DEF Event
    <3>3. \A q \in host.run : q.eff # t  BY <1>1 DEF Timers, StreamEffs, StreamEffects, StreamFacts
    <3>4. host.st # "running" => host' = host  BY <3>1 DEF Emit
    <3> QED  BY <3>1, <3>2, <3>3, <3>4
  <2>2. CASE HearDrop
    <3> DEFINE e == Event("Subscribe", "Disconnected", 0)
    <3>1. e.type = "Disconnected"  BY DEF Event
    <3>2. \/ host' = host
          \/ host.st = "running" /\ host' = CancelOperation(host, "failed")
          \/ host.st = "running" /\ host' = Emit(host, e)
      <4>1. host.st = "running" => ~OnApple(host)  BY <1>1 DEF StreamFacts, OnApple
      <4> QED  BY <2>2, <4>1 DEF HearDrop, Disconnected
    <3> HIDE DEF e
    <3> QED  BY <3>1, <3>2
  <2> QED  BY <2>1, <2>2
<1>5. /\ StreamThere(host') /\ StreamSame(host', host) /\ (HasStart(host) => HasStart(host'))
      /\ host'.st \in {"running", "ending"} \/ host'.st = host.st
  <2>1. CASE host' = host  BY <1>3, <2>1 DEF StreamSame
  <2>2. CASE host.st = "running" /\ host' = CancelOperation(host, "failed")
    <3>1. StreamThere(host') /\ host'.st = "ending" /\ (HasStart(host) => HasStart(host'))
      BY <1>3, <2>2, StreamCancelled DEF StreamThere
    <3> QED  BY <3>1 DEF StreamSame
  <2>3. CASE /\ host.st = "running"
             /\ \E e : /\ e.type \in {"TimerFired", "Disconnected"} /\ host' = Emit(host, e)
                       /\ \A q \in host.run : q.eff = e.of => e.type = "Disconnected"
    <3>1. PICK e : /\ e.type \in {"TimerFired", "Disconnected"} /\ host' = Emit(host, e)
                   /\ \A q \in host.run : q.eff = e.of => e.type = "Disconnected"
      BY <2>3
    <3>2. StreamTrue(host.wf, e, dev'.sealed, Whole', dev'.deleted)  BY <3>1 DEF StreamTrue
    <3>3. /\ StreamThere(host') /\ host'.st \in {"running", "ending"}
          /\ StreamMoved(host', host, e, dev'.sealed)
          /\ HasStart(host) => HasStart(host')
      BY <1>3, <2>3, <3>1, <3>2, StreamEmit DEF StreamThere
    <3>4. StreamSame(host', host)  BY <3>1, <3>3, SameHost
    <3> QED  BY <3>3, <3>4
  <2> QED  BY <1>4, <2>1, <2>2, <2>3
<1>6. StartAhead'  BY <1>1, <1>5, StartsAhead
<1> QED  BY <1>1, <1>2, <1>5, <1>6, StreamRests

\* What is heard is in order.
LEMMA OrderHeard ==
  ASSUME StreamFacts, host.st = "running", inbox # <<>>, inbox' = Tail(inbox), UNCHANGED <<dev, svc, link>>,
         host'.st = "running" => Hears(host.wf, Head(inbox), host'.wf, dev.sealed)
  PROVE  Intact' => InOrder'
<1> DEFINE p == Head(inbox)
           rest == Tail(inbox)
           w == host.wf
           v == host'.wf
           end == EndOf(dev.sealed)
<1> SUFFICES ASSUME Intact', Flowing(host)'
             PROVE  (Ordered(inbox, dev.next) /\ Arrives(host.wf) /\ Keyed(host.wf))'
  BY DEF InOrder
<1>1. /\ w.phase = "Transferring" /\ w.next = NoSequence /\ Reached(w) <= Reached(v)
      /\ IsData(p) => p.seq <= Reached(v)
      /\ \/ Reached(v) = Reached(w) /\ v.next = NoSequence
         \/ IsData(p) /\ Reached(v) = p.seq /\ v.next = p.seq
      /\ v.phase = "Finalizing" => p = end  BY DEF Flowing, Hears
<1>2. Intact /\ Flowing(host)  BY <1>1 DEF Intact, Flowing
<1>3. Ordered(inbox, dev.next) /\ Arrives(w) /\ Keyed(w)  BY <1>2 DEF StreamFacts, InOrder
<1>4. /\ Len(inbox) \in Nat /\ 1 \in DOMAIN inbox /\ p = inbox[1] /\ Len(rest) = Len(inbox) - 1
      /\ DOMAIN inbox = 1 .. Len(inbox) /\ DOMAIN rest = 1 .. Len(rest)
      /\ \A i \in DOMAIN rest : rest[i] = inbox[i + 1]
      /\ link.cccd
  <2>1. inbox \in Seq(PacketsOf(dev.sealed)) /\ link.cccd  BY DEF StreamFacts
  <2>2. Len(inbox) \in Nat /\ Len(inbox) > 0 /\ Head(inbox) = inbox[1] /\ DOMAIN inbox = 1 .. Len(inbox)
    BY <2>1
  <2>3. Tail(inbox) \in Seq(PacketsOf(dev.sealed)) /\ Len(Tail(inbox)) = Len(inbox) - 1
        /\ \A i \in 1 .. Len(Tail(inbox)) : Tail(inbox)[i] = inbox[i + 1]  BY <2>1, HeadTailProperties
  <2>4. DOMAIN Tail(inbox) = 1 .. Len(Tail(inbox))
    <3> DEFINE t == Tail(inbox)
    <3>1. t \in Seq(PacketsOf(dev.sealed))  BY <2>3
    <3> HIDE DEF t
    <3>2. DOMAIN t = 1 .. Len(t)  BY <3>1
    <3> QED  BY <3>2 DEF t
  <2> QED  BY <2>1, <2>2, <2>3, <2>4
<1>5. \A i \in DOMAIN rest : i + 1 \in DOMAIN inbox /\ i \in Int  BY <1>4
<1>6. /\ \A i \in DOMAIN inbox : PacketIs(inbox[i], dev.sealed)
      /\ Units \in Nat /\ Reached(w) \in Int /\ dev.heard \subseteq 1 .. Units
  <2>1. \A i \in DOMAIN inbox : inbox[i] \in PacketsOf(dev.sealed)  BY DEF StreamFacts
  <2>2. w \in StreamWf  BY StreamRuns DEF StreamFacts
  <2> QED  BY <2>1, <2>2, PacketShape, NativeConstants DEF StreamFacts, DevType, Reached, StreamWf
<1>7. \A i \in DOMAIN inbox : IsData(inbox[i]) => inbox[i].seq \in Nat  BY <1>6 DEF PacketIs, IsData
<1>8. \A u : /\ IsData(DataOf(dev.sealed, u)) /\ DataOf(dev.sealed, u).seq = u  BY DEF IsData, DataOf
<1>9. v.phase = "Finalizing" => dev.next = 0 /\ DOMAIN rest = {}
  <2>1. p = end => dev.next = 0 /\ 1 = Len(inbox)  BY <1>3, <1>4 DEF Ordered
  <2> HIDE DEF rest, v, p, w, end
  <2>2. 1 = Len(inbox) => Len(rest) = 0  BY <1>4
  <2>3. Len(rest) = 0 => DOMAIN rest = {}  BY <1>4
  <2> QED  BY <1>1, <2>1, <2>2, <2>3
<1>10. Reached(v) \in Int  BY <1>1, <1>4, <1>6, <1>7
<1> HIDE DEF p, rest, w, v, end
<1>11. Ordered(rest, dev.next)
  <2>1. \A i, j \in DOMAIN rest : i < j /\ IsData(rest[i]) /\ IsData(rest[j]) => rest[i].seq < rest[j].seq
    <3> TAKE i, j \in DOMAIN rest
    <3>1. rest[i] = inbox[i + 1] /\ rest[j] = inbox[j + 1] /\ i + 1 \in DOMAIN inbox /\ j + 1 \in DOMAIN inbox
          /\ (i < j => i + 1 < j + 1)
      BY <1>4, <1>5
    <3> QED  BY <1>3, <3>1 DEF Ordered
  <2>2. \A i \in DOMAIN rest : /\ IsData(rest[i]) => rest[i].seq + 1 < Sent(dev.next)
                               /\ rest[i] = end => dev.next = 0 /\ i = Len(rest)
    <3> TAKE i \in DOMAIN rest
    <3>1. rest[i] = inbox[i + 1] /\ i + 1 \in DOMAIN inbox  BY <1>4, <1>5
    <3>2. inbox[i + 1] = end => dev.next = 0 /\ i + 1 = Len(inbox)  BY <1>3, <3>1 DEF Ordered, end
    <3>3. IsData(inbox[i + 1]) => inbox[i + 1].seq + 1 < Sent(dev.next)  BY <1>3, <3>1 DEF Ordered
    <3> QED  BY <1>4, <1>5, <3>1, <3>2, <3>3
  <2> QED  BY <2>1, <2>2 DEF Ordered, end
<1>12. \A u \in dev.heard : u <= Reached(v) + 1 \/ \E i \in DOMAIN rest : rest[i] = DataOf(dev.sealed, u - 1)
  <2> TAKE u \in dev.heard
  <2>1. u \in Int  BY <1>6
  <2>2. CASE u <= Reached(w) + 1  BY <1>1, <1>6, <1>10, <2>1, <2>2
  <2>3. CASE \E i \in DOMAIN inbox : inbox[i] = DataOf(dev.sealed, u - 1)
    <3>1. PICK i \in DOMAIN inbox : inbox[i] = DataOf(dev.sealed, u - 1)  BY <2>3
    <3>2. CASE i = 1  BY <1>1, <1>4, <1>8, <1>10, <2>1, <3>1, <3>2
    <3>3. CASE i # 1
      <4>1. i - 1 \in DOMAIN rest /\ rest[i - 1] = inbox[i]
        <5>1. i - 1 \in DOMAIN rest /\ (i - 1) + 1 = i  BY <1>4, <3>3
        <5> QED  BY <1>4, <5>1
      <4> QED  BY <3>1, <4>1
    <3> QED  BY <3>2, <3>3
  <2> QED  BY <1>3, <1>4, <2>2, <2>3 DEF Arrives
<1>13. Reached(v) + 1 < Sent(dev.next)
  <2>1. Reached(w) + 1 < Sent(dev.next)  BY <1>3 DEF Arrives
  <2>2. IsData(p) => p.seq + 1 < Sent(dev.next)  BY <1>3, <1>4 DEF Ordered
  <2> QED  BY <1>1, <2>1, <2>2
<1>14. Arrives(host.wf)'
  <2>1. v.phase = "Finalizing" => dev.next = 0 /\ \A u \in dev.heard : u <= Reached(v) + 1  BY <1>9, <1>12
  <2> QED  BY <1>12, <1>13, <2>1 DEF Arrives, v, rest
<1>15. Keyed(host.wf)'
  <2> SUFFICES ASSUME dev.sealed, 1 \in dev.heard, Reached(v) # NoSequence
               PROVE  1 \in svc.units \/ v.next = 0
    BY DEF Keyed, v
  <2>1. CASE Reached(w) # NoSequence  BY <1>1, <1>3, <2>1 DEF Keyed, NoSequence
  <2>2. CASE Reached(w) = NoSequence
    <3>1. IsData(p) /\ v.next = p.seq  BY <1>1, <2>2
    <3>2. \E i \in DOMAIN inbox : inbox[i] = DataOf(dev.sealed, 0)
      <4>1. 1 <= Reached(w) + 1 \/ \E i \in DOMAIN inbox : inbox[i] = DataOf(dev.sealed, 1 - 1)
        BY <1>3, <1>4 DEF Arrives
      <4>2. ~(1 <= Reached(w) + 1) /\ 1 - 1 = 0  BY <2>2 DEF NoSequence
      <4> QED  BY <4>1, <4>2
    <3>3. PICK i \in DOMAIN inbox : inbox[i] = DataOf(dev.sealed, 0)  BY <3>2
    <3>4. IsData(inbox[i]) /\ inbox[i].seq = 0  BY <1>8, <3>3
    <3>5. CASE i = 1  BY <1>4, <3>1, <3>4, <3>5
    <3>6. CASE i # 1
      <4>1. 1 < i  BY <1>4, <3>6
      <4>2. p.seq < 0 /\ p.seq \in Nat  BY <1>3, <1>4, <1>7, <3>1, <3>4, <4>1 DEF Ordered
      <4> QED  BY <4>2
    <3> QED  BY <3>5, <3>6
  <2> QED  BY <2>1, <2>2
<1>16. Ordered(inbox, dev.next)'  BY <1>11 DEF Ordered, rest, end
<1> QED  BY <1>14, <1>15, <1>16

\* A packet is heard, or dropped.
LEMMA StreamDelivers ==
  ASSUME StreamState, AmbientType', Deliver
  PROVE  StreamState'
<1>1. /\ StreamFacts /\ UNCHANGED <<sink, svc, dev, told, link>> /\ inbox # <<>> /\ inbox' = Tail(inbox)
      /\ host' = IF host.sub = "on" THEN Emit(host, Event("Subscribe", "Notification", Head(inbox))) ELSE host
  BY StreamKnown DEF Deliver, Radio
<1> DEFINE e == Event("Subscribe", "Notification", Head(inbox))
<1>2. e.of = "Subscribe" /\ e.type = "Notification" /\ e.val = Head(inbox)  BY DEF Event
<1>0. host' = IF host.sub = "on" THEN Emit(host, e) ELSE host  BY <1>1
<1> HIDE DEF e
<1>3. Head(inbox) \in PacketsOf(dev.sealed) /\ Tail(inbox) \in Seq(PacketsOf(dev.sealed)) /\ Head(inbox) = inbox[1]
  BY <1>1, HeadTailProperties DEF StreamFacts
<1>4. StreamWorld
  <2>1. Whole => Whole'  BY <1>1 DEF Whole, Covered
  <2>2. ~link'.cccd => inbox' = <<>>  BY <1>1 DEF StreamFacts
  <2> QED  BY <1>1, <1>3, <2>1, <2>2 DEF StreamWorld, StreamFacts
<1>5. StreamThere(host) /\ dev'.sealed \in BOOLEAN  BY <1>1, <1>4, StreamHolds DEF StreamFacts
<1>6. CASE host.sub = "on" /\ host.st = "running"
  <2>1. StreamTrue(host.wf, e, dev'.sealed, Whole', dev'.deleted)  BY <1>1, <1>2, <1>3 DEF StreamTrue
  <2>2. /\ StreamThere(Emit(host, e)) /\ Emit(host, e).st \in {"running", "ending"}
        /\ StreamMoved(Emit(host, e), host, e, dev'.sealed)
        /\ HasStart(host) => HasStart(Emit(host, e))  BY <1>2, <1>5, <1>6, <2>1, StreamEmit DEF StreamThere
  <2>3. host' = Emit(host, e)  BY <1>0, <1>6
  <2>4. host'.st = "running" => Hears(host.wf, Head(inbox), host'.wf, dev.sealed)
    BY <1>1, <1>2, <2>2, <2>3 DEF StreamMoved
  <2>5. Intact' => InOrder'  BY <1>1, <1>6, <2>4, OrderHeard
  <2>6. host'.st = "running" => host.wf.phase # "Finalizing"  BY <2>4 DEF Hears
  <2>7. StartAhead'  BY <1>1, <2>2, <2>3, StartsAhead
  <2> QED  BY <1>1, <1>4, <1>6, <2>2, <2>3, <2>5, <2>6, <2>7, StreamGoes
<1>7. CASE ~(host.sub = "on" /\ host.st = "running")
  <2>1. host' = host  BY <1>0, <1>7 DEF Emit
  <2>2. ~Flowing(host)'
    <3>1. host.st = "running" => host.wf.phase = "Subscribing"  BY <1>1, <1>7 DEF StreamFacts, StreamRunning
    <3> QED  BY <2>1, <3>1 DEF Flowing
  <2>3. Intact' => InOrder'  BY <2>2 DEF InOrder
  <2>4. StartAhead'  BY <1>1, <2>1, StartsAhead
  <2> QED  BY <1>1, <1>4, <1>5, <2>1, <2>3, <2>4, StreamGoes
<1> QED  BY <1>6, <1>7

\* The packets come one after another.
LEMMA PacketPlace ==
  ASSUME StreamFacts, dev.next # 0
  PROVE  /\ PacketAt(dev.next) \in PacketsOf(dev.sealed)
         /\ IsData(PacketAt(dev.next)) <=> dev.next \in 1 .. Units
         /\ Short /\ dev.next \in 1 .. Units => PacketAt(dev.next) = DataOf(dev.sealed, dev.next - 1)
         /\ PacketAt(dev.next) = EndOf(dev.sealed) => After(dev.next) = 0
         /\ dev.next \in 1 .. Units => After(dev.next) = dev.next + 1
         /\ Sent(dev.next) \in Int /\ Sent(After(dev.next)) \in Int /\ Sent(dev.next) <= Sent(After(dev.next))
         /\ dev.next \in 1 .. Units => Sent(dev.next) = dev.next /\ Sent(After(dev.next)) = dev.next + 1
         /\ After(dev.next) # -1
<1>1. /\ Units \in Nat /\ Units > 0 /\ dev.next \in -1 .. Units + 1 /\ dev.sealed \in BOOLEAN
      /\ dev.next = -1 => dev.sealed
      /\ SeqMod \in Nat /\ SeqMod > 0  BY NativeConstants DEF StreamFacts, DevType
<1>2. CASE dev.next = -1
  <2>1. PacketAt(dev.next) = [type |-> "sealed"] /\ After(dev.next) = 1
    <3>1. -1 \notin 1 .. Units /\ -1 # Units + 1  BY <1>1
    <3> QED  BY <1>2, <3>1 DEF PacketAt, After
  <2>2. PacketAt(dev.next) # EndOf(dev.sealed) /\ ~IsData(PacketAt(dev.next))  BY <2>1 DEF EndOf, IsData
  <2>3. Sent(dev.next) = 1 /\ Sent(After(dev.next)) = 1  BY <1>2, <2>1 DEF Sent
  <2> QED  BY <1>1, <1>2, <2>1, <2>2, <2>3 DEF PacketsOf
<1>3. CASE dev.next \in 1 .. Units
  <2>1. PacketAt(dev.next) = DataOf(dev.sealed, (dev.next - 1) % SeqMod) /\ After(dev.next) = dev.next + 1
    BY <1>1, <1>3 DEF PacketAt, After, DataOf
  <2>2. (dev.next - 1) % SeqMod \in 0 .. Units - 1
    <3>1. dev.next - 1 \in Nat /\ dev.next - 1 <= Units - 1  BY <1>1, <1>3
    <3>2. (dev.next - 1) % SeqMod \in 0 .. dev.next - 1  BY <1>1, <3>1, Remainder
    <3> QED  BY <1>1, <3>1, <3>2
  <2>3. Short => (dev.next - 1) % SeqMod = dev.next - 1
    <3>1. Short => dev.next - 1 \in Nat /\ dev.next - 1 < SeqMod  BY <1>1, <1>3 DEF Short
    <3> QED  BY <1>1, <3>1, SMTT(30)
  <2>4. PacketAt(dev.next) \in PacketsOf(dev.sealed)  BY <2>1, <2>2 DEF PacketsOf
  <2>5. PacketAt(dev.next) # EndOf(dev.sealed) /\ IsData(PacketAt(dev.next))
    <3>1. PacketAt(dev.next).type = (IF dev.sealed THEN "sealedData" ELSE "data")  BY <2>1 DEF DataOf
    <3>2. EndOf(dev.sealed).type = (IF dev.sealed THEN "sealedEof" ELSE "eof")  BY DEF EndOf
    <3> QED  BY <3>1, <3>2 DEF IsData
  <2>6. Sent(dev.next) = dev.next /\ Sent(After(dev.next)) = dev.next + 1  BY <1>1, <1>3, <2>1 DEF Sent
  <2> QED  BY <1>1, <1>3, <2>1, <2>3, <2>4, <2>5, <2>6
<1>4. CASE dev.next = Units + 1
  <2>1. PacketAt(dev.next) = EndOf(dev.sealed) /\ After(dev.next) = 0
    <3>1. Units + 1 # -1 /\ Units + 1 \notin 1 .. Units  BY <1>1
    <3> QED  BY <1>4, <3>1 DEF PacketAt, After, EndOf
  <2>2. ~IsData(PacketAt(dev.next))  BY <2>1 DEF EndOf, IsData
  <2>3. Sent(dev.next) = Units + 1 /\ Sent(After(dev.next)) = Units + 1  BY <1>1, <1>4, <2>1 DEF Sent
  <2> QED  BY <1>1, <1>4, <2>1, <2>2, <2>3 DEF PacketsOf
<1>5. dev.next = -1 \/ dev.next \in 1 .. Units \/ dev.next = Units + 1  BY <1>1
<1> QED  BY <1>2, <1>3, <1>4, <1>5

\* What is sent is in order.
LEMMA OrderSent ==
  ASSUME StreamFacts, dev.next # 0, UNCHANGED <<host, svc, link>>,
         dev'.sealed = dev.sealed, dev'.deleted = dev.deleted, dev'.next = After(dev.next),
         \/ inbox' = inbox /\ dev'.heard = dev.heard
         \/ /\ link.cccd /\ inbox' = Append(inbox, PacketAt(dev.next))
            /\ dev'.heard = dev.heard \cup (1 .. Units \cap {dev.next})
  PROVE  Intact' => InOrder'
<1> DEFINE n == dev.next
           p == PacketAt(n)
           w == host.wf
           end == EndOf(dev.sealed)
<1> SUFFICES ASSUME Intact', Flowing(host)'
             PROVE  (Ordered(inbox, dev.next) /\ Arrives(host.wf) /\ Keyed(host.wf))'
  BY DEF InOrder
<1>1. Intact /\ Flowing(host) /\ Short  BY DEF Intact, Flowing
<1>2. Ordered(inbox, n) /\ Arrives(w) /\ Keyed(w)  BY <1>1 DEF StreamFacts, InOrder
<1>3. /\ p \in PacketsOf(dev.sealed)
      /\ IsData(p) <=> n \in 1 .. Units
      /\ n \in 1 .. Units => p = DataOf(dev.sealed, n - 1) /\ p.seq = n - 1
      /\ p = end => After(n) = 0
      /\ Sent(n) \in Int /\ Sent(After(n)) \in Int /\ Sent(n) <= Sent(After(n))
      /\ n \in 1 .. Units => Sent(n) = n /\ Sent(After(n)) = n + 1
      /\ n \in Int  BY <1>1, PacketPlace DEF DataOf, StreamFacts, DevType
<1>4. /\ Units \in Nat /\ Reached(w) \in Int /\ Reached(w) >= -1 /\ dev.heard \subseteq 1 .. Units
      /\ \A i \in DOMAIN inbox : IsData(inbox[i]) => inbox[i].seq \in Nat
  <2>1. \A i \in DOMAIN inbox : inbox[i] \in PacketsOf(dev.sealed)  BY DEF StreamFacts
  <2>2. \A i \in DOMAIN inbox : PacketIs(inbox[i], dev.sealed)  BY <2>1, PacketShape DEF StreamFacts
  <2>3. w \in StreamWf /\ Counted(w, dev.sealed)
    BY <1>1, StreamRuns DEF StreamFacts, Flowing, StreamRunning, StreamFlow
  <2>4. Reached(w) \in Int /\ Reached(w) >= -1  BY <2>3, NativeConstants DEF Counted, Reached, NoSequence
  <2> QED  BY <2>2, <2>4, NativeConstants DEF StreamFacts, DevType, PacketIs, IsData
<1>5. \A i \in DOMAIN inbox : inbox[i] # end  BY <1>2 DEF Ordered
<1>6. w.phase # "Finalizing"  BY <1>2 DEF Arrives
<1>7. Keyed(host.wf)'
  <2> SUFFICES ASSUME dev.sealed, 1 \in dev'.heard, Reached(w) # NoSequence
               PROVE  1 \in svc.units \/ w.next = 0
    BY DEF Keyed
  <2>1. CASE 1 \in dev.heard  BY <1>2, <2>1 DEF Keyed
  <2>2. CASE n = 1
    <3>1. Reached(w) + 1 < 1  BY <1>2, <2>2 DEF Arrives, Sent
    <3> QED  BY <1>4, <3>1 DEF NoSequence
  <2> QED  BY <2>1, <2>2
<1>8. CASE inbox' = inbox /\ dev'.heard = dev.heard
  <2>1. Ordered(inbox, dev.next)'  BY <1>2, <1>3, <1>4, <1>5, <1>8 DEF Ordered
  <2>2. Arrives(host.wf)'  BY <1>2, <1>3, <1>4, <1>6, <1>8 DEF Arrives
  <2> QED  BY <1>7, <2>1, <2>2
<1>9. CASE /\ link.cccd /\ inbox' = Append(inbox, p)
           /\ dev'.heard = dev.heard \cup (1 .. Units \cap {n})
  <2>1. /\ Len(inbox) \in Nat /\ Len(inbox') = Len(inbox) + 1 /\ inbox'[Len(inbox) + 1] = p
        /\ DOMAIN inbox = 1 .. Len(inbox) /\ DOMAIN inbox' = 1 .. Len(inbox) + 1
        /\ \A i \in DOMAIN inbox : inbox'[i] = inbox[i]
    <3>1. inbox \in Seq(PacketsOf(dev.sealed))  BY DEF StreamFacts
    <3> QED  BY <1>3, <1>9, <3>1, AppendProperties
  <2>2. \A i \in DOMAIN inbox' : (i \in DOMAIN inbox /\ i < Len(inbox) + 1) \/ i = Len(inbox) + 1  BY <2>1
  <2>3. \A i \in DOMAIN inbox : IsData(inbox[i]) => inbox[i].seq + 1 < Sent(n)  BY <1>2 DEF Ordered
  <2> HIDE DEF p, n, w, end
  <2>4. \A i, j \in DOMAIN inbox' : i < j /\ IsData(inbox'[i]) /\ IsData(inbox'[j]) => inbox'[i].seq < inbox'[j].seq
    <3> TAKE i, j \in DOMAIN inbox'
    <3>1. CASE i \in DOMAIN inbox /\ j \in DOMAIN inbox  BY <1>2, <2>1, <3>1 DEF Ordered
    <3>2. CASE i \in DOMAIN inbox /\ j = Len(inbox) + 1  BY <1>3, <1>4, <2>1, <2>3, <3>2
    <3>3. CASE i = Len(inbox) + 1  BY <2>1, <2>2, <3>3
    <3> QED  BY <2>2, <3>1, <3>2, <3>3
  <2>5. \A i \in DOMAIN inbox' : /\ IsData(inbox'[i]) => inbox'[i].seq + 1 < Sent(After(n))
                                 /\ inbox'[i] = end => After(n) = 0 /\ i = Len(inbox')
    <3> TAKE i \in DOMAIN inbox'
    <3>1. CASE i \in DOMAIN inbox  BY <1>3, <1>4, <1>5, <2>1, <2>3, <3>1
    <3>2. CASE i = Len(inbox) + 1  BY <1>3, <2>1, <3>2
    <3> QED  BY <2>2, <3>1, <3>2
  <2>6. Ordered(inbox, dev.next)'  BY <2>4, <2>5 DEF Ordered, n, end
  <2>7. \A u \in dev'.heard : u <= Reached(w) + 1 \/ \E i \in DOMAIN inbox' : inbox'[i] = DataOf(dev.sealed, u - 1)
    <3> TAKE u \in dev'.heard
    <3>1. CASE u \in dev.heard
      <4>1. u <= Reached(w) + 1 \/ \E i \in DOMAIN inbox : inbox[i] = DataOf(dev.sealed, u - 1)
        BY <1>2, <1>9, <3>1 DEF Arrives
      <4>2. DOMAIN inbox \subseteq DOMAIN inbox'  BY <2>1
      <4> QED  BY <2>1, <4>1, <4>2
    <3>2. CASE u = n /\ n \in 1 .. Units
      <4>1. Len(inbox) + 1 \in DOMAIN inbox'  BY <2>1
      <4> QED  BY <1>3, <2>1, <3>2, <4>1
    <3> QED  BY <1>9, <3>1, <3>2
  <2>8. Reached(w) + 1 < Sent(After(n))  BY <1>2, <1>3, <1>4 DEF Arrives, n
  <2>9. Arrives(host.wf)'  BY <1>6, <2>7, <2>8 DEF Arrives, n, w
  <2> QED  BY <1>7, <2>6, <2>9
<1> QED  BY <1>8, <1>9

\* The device sends a packet, which may be lost.
LEMMA StreamSends ==
  ASSUME StreamState, AmbientType', DeviceSends
  PROVE  StreamState'
<1>1. /\ StreamFacts /\ UNCHANGED <<host, sink, link, svc, told>> /\ dev.next # 0 /\ dev \in DevType
  BY StreamKnown DEF DeviceSends, StreamFacts
<1> DEFINE p == PacketAt(dev.next)
<1>2. \/ /\ Notifies(p)
         /\ dev' = [dev EXCEPT !.next = After(@),
                               !.heard = IF link.cccd THEN @ \cup (1 .. Units \cap {dev.next}) ELSE @]
      \/ UNCHANGED inbox /\ dev' = [dev EXCEPT !.next = After(@)]  BY DEF DeviceSends
<1>3. /\ dev'.sealed = dev.sealed /\ dev'.deleted = dev.deleted /\ dev'.held = dev.held
      /\ dev'.logging = dev.logging /\ dev'.next = After(dev.next)
      /\ \/ inbox' = inbox /\ dev'.heard = dev.heard
         \/ /\ link.cccd /\ inbox' = Append(inbox, p)
            /\ dev'.heard = dev.heard \cup (1 .. Units \cap {dev.next})
  <2>1. CASE UNCHANGED inbox /\ dev' = [dev EXCEPT !.next = After(@)]  BY <1>1, <2>1 DEF DevType
  <2>2. CASE /\ Notifies(p)
             /\ dev' = [dev EXCEPT !.next = After(@),
                                   !.heard = IF link.cccd THEN @ \cup (1 .. Units \cap {dev.next}) ELSE @]
    BY <1>1, <2>2 DEF DevType, Notifies
  <2> QED  BY <1>2, <2>1, <2>2
<1>4. p \in PacketsOf(dev.sealed) /\ After(dev.next) # -1  BY <1>1, PacketPlace
<1>5. Intact' => InOrder'  BY <1>1, <1>3, OrderSent
<1> HIDE DEF p
<1>6. inbox' \in Seq(PacketsOf(dev.sealed)) /\ (~link'.cccd => inbox' = <<>>)
  <2>1. inbox \in Seq(PacketsOf(dev.sealed)) /\ (~link.cccd => inbox = <<>>)  BY <1>1 DEF StreamFacts
  <2> QED  BY <1>1, <1>3, <1>4, <2>1, AppendProperties
<1>7. StreamWorld
  <2>1. Whole => Whole'  BY <1>1, <1>3 DEF Whole, Short
  <2> QED  BY <1>1, <1>3, <1>4, <1>6, <2>1 DEF StreamWorld, StreamFacts
<1>8. StreamThere(host')  BY <1>1, <1>7, StreamHolds
<1>9. StartAhead'  BY <1>1, StartsAhead
<1> QED  BY <1>1, <1>5, <1>7, <1>8, <1>9, StreamGoes

\* The link is lost or is back; the device uploads on its own.
LEMMA StreamLink ==
  ASSUME StreamState, AmbientType', LinkLost \/ Reconnect \/ DeviceUploads
  PROVE  StreamState'
<1>1. StreamFacts /\ link \in LinkType /\ dev \in DevType  BY StreamKnown DEF StreamFacts
<1>2. /\ UNCHANGED <<host, sink, svc, told>> /\ (link'.cccd => link.cccd) /\ link'.ahead = link.ahead
      /\ \/ inbox' = <<>> /\ ~link'.cccd
         \/ inbox' = inbox /\ link'.cccd = link.cccd
      /\ dev'.sealed = dev.sealed /\ dev'.deleted = dev.deleted /\ dev'.held = dev.held
      /\ dev'.next \in {dev.next, 0} /\ dev'.heard = dev.heard /\ ~dev'.logging
  <2>1. CASE LinkLost  BY <1>1, <2>1, DetachedType DEF LinkLost, Radio, LinkType
  <2>2. CASE Reconnect  BY <1>1, <2>2 DEF Reconnect, Radio, LinkType, StreamFacts
  <2>3. CASE DeviceUploads
    <3>1. \/ dev' = [dev EXCEPT !.sync = FALSE]
          \/ dev' = [dev EXCEPT !.pending = @ - 1, !.sync = dev.pending > 1]
      BY <2>3 DEF DeviceUploads
    <3>2. /\ dev'.sealed = dev.sealed /\ dev'.deleted = dev.deleted /\ dev'.held = dev.held
          /\ dev'.next = dev.next /\ dev'.heard = dev.heard /\ dev'.logging = dev.logging
      <4>1. CASE dev' = [dev EXCEPT !.sync = FALSE]  BY <1>1, <4>1 DEF DevType
      <4>2. CASE dev' = [dev EXCEPT !.pending = @ - 1, !.sync = dev.pending > 1]  BY <1>1, <4>2 DEF DevType
      <4> QED  BY <3>1, <4>1, <4>2
    <3> QED  BY <1>1, <2>3, <3>2 DEF DeviceUploads, StreamFacts
  <2> QED  BY <2>1, <2>2, <2>3
<1>3. inbox' \in Seq(PacketsOf(dev.sealed)) /\ (~link'.cccd => inbox' = <<>>)
  <2>1. CASE inbox' = <<>>  BY <2>1
  <2>2. CASE inbox' = inbox /\ link'.cccd = link.cccd  BY <1>1, <2>2 DEF StreamFacts
  <2> QED  BY <1>2, <2>1, <2>2
<1>4. StreamWorld
  <2>1. Whole => Whole'  BY <1>2 DEF Whole, Covered
  <2> QED  BY <1>1, <1>2, <1>3, <2>1 DEF StreamWorld, StreamFacts
<1>5. PacketsKept  BY <1>2 DEF PacketsKept
<1>6. StreamThere(host') /\ StreamSame(host', host) /\ StartAhead'
  BY <1>1, <1>2, <1>4, StreamHolds, StartsAhead DEF StreamSame
<1> QED  BY <1>2, <1>4, <1>5, <1>6, StreamRests

\* A stream begins: a sink and a session of its own.
LEMMA StreamStarts ==
  ASSUME StreamState, AmbientType', used.family = "stream", StartOperation
  PROVE  StreamState'
<1>1. /\ StreamFacts /\ host.st = "idle" /\ host' = Begin(Idle, StreamStart) /\ told' = "none"
      /\ UNCHANGED <<link, inbox, dev>> /\ sink' = NoSink /\ svc' = [units |-> {}, final |-> FALSE]
  BY StreamKnown DEF StartOperation, FactoryReset, ResumeFactoryReset, StartStreaming,
        ObserveUploadOwnership, ReadDeviceLogs, StartScan, StartOp
<1> DEFINE r == StreamStart
           w == r.wf
<1>2. /\ w.kind = "stream" /\ w.phase = "Subscribing" /\ w.waits = {"Subscribe"} /\ Fresh(w)
      /\ w.next = NoSequence /\ r.out = {"Subscribe"}  BY DEF StreamStart, Fresh
<1>3. w \in StreamWf
  <2>1. NoSequence \in Int /\ 0 \in Nat /\ "unknown" \in Profiles /\ "Subscribing" \in StreamPhases
        /\ {"Subscribe"} \in SUBSET StreamEffects  BY DEF NoSequence, Profiles, StreamPhases, StreamEffects
  <2> QED  BY <2>1 DEF StreamStart, StreamWf
<1>0. StreamStart = r  OBVIOUS
<1> HIDE DEF r
<1>4. r.wf \in Workflow /\ r.wf.kind = "stream" /\ ~Terminal(r.wf)  BY <1>2, <1>3 DEF Workflow, Terminal
<1>5. /\ HostShape(host', "stream") /\ host'.st = "running" /\ host'.wf = w /\ host'.outcome = "none"
      /\ \A q \in host'.run : q.eff = "Subscribe"
  <2>1. host' = Begin(Idle, r)  BY <1>0, <1>1
  <2>2. /\ HostShape(Begin(Idle, r), "stream") /\ Begin(Idle, r).st = "running" /\ Begin(Idle, r).wf = r.wf
        /\ Begin(Idle, r).outcome = "none" /\ \A q \in Begin(Idle, r).run : q.eff \in r.out
    BY SMTT(60), <1>4, IdleBegins
  <2> QED  BY <1>2, <2>1, <2>2
<1> HIDE DEF w
<1>6. StreamWork(w) = {"Subscribe"}  BY <1>2 DEF StreamWork
<1>7. Counted(w, dev.sealed)
  <2>1. -1 \in -1 .. Units - 1  BY NativeConstants
  <2> QED  BY <1>2, <2>1 DEF Counted, Fresh, NoSequence
<1>8. StreamRunning(host', dev'.sealed)
  <2>1. StreamFlow(w, dev.sealed)  BY <1>2, <1>6, <1>7 DEF StreamFlow
  <2> QED  BY <1>1, <1>2, <1>5, <1>6, <2>1 DEF StreamRunning
<1>9. StreamHost(host', dev'.sealed, Whole', dev'.deleted, (dev.next = 0)')
  BY <1>2, <1>3, <1>5, <1>8 DEF StreamHost, StreamInv
<1>10. SinkHolds(sink', svc', host'.wf, dev'.sealed) /\ sink' \in SinkType /\ svc' \in SvcType
  <2>1. \A n : n \notin 1 .. 0  OBVIOUS
  <2> QED  BY <1>1, <2>1 DEF SinkHolds, PlainSink, SealedSink, NoSink, SinkType, SvcType
<1>11. Intact' => InOrder'  BY <1>2, <1>5 DEF InOrder, Flowing
<1>12. StartAhead'
  <2>1. host.run = {}  BY <1>1 DEF StreamFacts
  <2> QED  BY <1>1, <2>1 DEF StreamFacts, StartAhead
<1>13. StreamFamily'  BY <1>1, <1>5, <1>9, <1>10, <1>11, <1>12 DEF StreamFamily, StreamFacts
<1>14. Ambient' /\ NoReset'  BY <1>1, <1>5 DEF Ambient, NoReset, StreamFacts
<1> QED  BY <1>13, <1>14 DEF StreamState

\* The stream is over, or the process ends.
LEMMA StreamEnds ==
  ASSUME StreamState, AmbientType', Finish \/ Restart
  PROVE  StreamState'
<1>1. /\ StreamFacts /\ link \in LinkType /\ dev \in DevType  BY StreamKnown DEF StreamFacts
<1>2. /\ sink' = NoSink /\ inbox' = <<>> /\ ~link'.cccd /\ ~link'.ahead /\ UNCHANGED svc
      /\ dev'.sealed = dev.sealed /\ dev'.deleted = dev.deleted /\ dev'.next \in {dev.next, 0}
      /\ dev'.held = NoResult /\ ~dev'.logging
      /\ host'.st \in {"idle", "stuck"} /\ HostShape(host', "stream")
      /\ told' = "done" => dev.deleted
      /\ told' = "cancelled" => dev'.next = 0
  <2>1. CASE Restart  BY <1>1, <2>1, DetachedType, IdleShape DEF Restart, StreamFacts
  <2>2. CASE Finish
    <3>1. /\ host.st = "ending" /\ host.run = {} /\ host.wf.kind = "stream" /\ UNCHANGED <<dev, svc>> /\ inbox' = <<>>
          /\ sink' = NoSink /\ ~link'.cccd /\ ~link'.ahead
      BY <1>1, <2>2 DEF Finish, LinkType, StreamFacts
    <3>2. \/ host' = [Idle EXCEPT !.st = "stuck"] /\ told' = "failed"
          \/ host' = Idle /\ told' = host.outcome /\ ~host.dirty
      BY <2>2, <3>1 DEF Finish
    <3>3. (told' = "done" => dev.deleted) /\ (told' = "cancelled" => dev'.next = 0)
      <4>1. StreamEnding(host, Whole, dev.next = 0) /\ (host.wf.phase = "Completed" => dev.deleted)
        BY <1>1, <3>1 DEF StreamFacts, StreamHost, StreamInv
      <4>2. CASE told' = "failed"  BY <4>2
      <4>3. CASE told' = host.outcome /\ ~host.dirty  BY <3>1, <4>1, <4>3 DEF StreamEnding
      <4> QED  BY <3>2, <4>2, <4>3
    <3>4. host'.st \in {"idle", "stuck"} /\ HostShape(host', "stream")
      <4> DEFINE s == [Idle EXCEPT !.st = "stuck"]
      <4> HIDE DEF Idle
      <4>1. s \in HostType /\ s.st = "stuck" /\ s.run = {} /\ s.wf = [kind |-> "none"]
        BY IdleShape DEF HostType
      <4> HIDE DEF s
      <4>2. HostShape(s, "stream")  BY <4>1 DEF HostShape
      <4>3. host' = s \/ host' = Idle  BY <3>2 DEF s
      <4> QED  BY <4>1, <4>2, <4>3, IdleShape
    <3> QED  BY <1>1, <3>1, <3>3, <3>4 DEF StreamFacts
  <2> QED  BY <2>1, <2>2
<1>3. sink' \in SinkType  BY <1>2 DEF NoSink, SinkType
<1>4. Intact' => InOrder'  BY <1>2 DEF InOrder, Flowing
<1>5. StreamFamily'
  <2>1. inbox' \in Seq(PacketsOf(dev'.sealed)) /\ (dev'.next = -1 => dev'.sealed)
    BY <1>1, <1>2 DEF StreamFacts
  <2>2. StreamHost(host', dev'.sealed, Whole', dev'.deleted, (dev.next = 0)')  BY <1>2 DEF StreamHost
  <2>3. StartAhead'  BY <1>2 DEF StartAhead
  <2> QED  BY <1>1, <1>2, <1>3, <1>4, <2>1, <2>2, <2>3 DEF StreamFamily, StreamFacts
<1>6. Ambient' /\ NoReset'  BY <1>2 DEF Ambient, NoReset
<1> QED  BY <1>5, <1>6 DEF StreamState

-----------------------------------------------------------------------------
(* The stream: the steps of the sink *)

\* It is a step of the stream that leaves the packets.
LEMMA SinkFrame ==
  ASSUME StreamFacts, SinkWorld
  PROVE  StreamWorld /\ PacketsKept /\ StreamThere(host) /\ dev'.sealed = dev.sealed
<1>1. PacketsKept  BY DEF PacketsKept, SinkWorld
<1>2. Whole => Whole'
  <2>1. Covered => Covered'  BY DEF Covered, SinkWorld
  <2> QED  BY <2>1 DEF Whole, SinkWorld
<1>3. StreamWorld  BY <1>2 DEF StreamWorld, SinkWorld, StreamFacts
<1> QED  BY <1>1, <1>3, StreamHolds DEF SinkWorld

\* A step of the sink keeps the invariant of the stream.
LEMMA SinkKeeps ==
  ASSUME StreamState, AmbientType', SinkWorld, StreamThere(host'), StreamSame(host', host),
         host'.st \in {"running", "ending"} \/ host'.st = host.st,
         HasStart(host) => HasStart(host'),
         host'.st = "running" => SinkHolds(sink', svc', host'.wf, dev'.sealed)
  PROVE  StreamState'
<1>1. StreamFacts  BY StreamKnown
<1>2. StreamWorld /\ PacketsKept  BY <1>1, SinkFrame
<1>3. (Intact' => InOrder') /\ StartAhead'  BY <1>1, <1>2, OrderKept, StartsAhead DEF SinkWorld
<1> QED  BY <1>2, <1>3, StreamKeeps

\* The host goes on as it was.
LEMMA SinkStays ==
  ASSUME StreamState, AmbientType', SinkWorld, UNCHANGED host,
         host.st = "running" => SinkHolds(sink', svc', host.wf, dev.sealed)
  PROVE  StreamState'
<1>1. StreamFacts  BY StreamKnown
<1>2. StreamThere(host') /\ dev'.sealed = dev.sealed  BY <1>1, SinkFrame
<1>3. StreamSame(host', host) /\ (HasStart(host) => HasStart(host'))  BY DEF StreamSame
<1> QED  BY <1>2, <1>3, SinkKeeps

\* The sink without a job is what it is for every workflow.
LEMMA SinkResting ==
  ASSUME NEW k, NEW v, NEW w, NEW sealed, SinkHolds(k, v, w, sealed), k.job \notin {"Finalize", "Asking"}, NEW x
  PROVE  SinkHolds(k, v, x, sealed)
BY DEF SinkHolds, PlainSink, SealedSink

\* An append ends.
LEMMA SinkAccepts ==
  ASSUME StreamState, AmbientType', SinkWorld, NEW r \in host.run, r.eff # "WriteStart", r.eff # "WriteAbort",
         NEW val, host' = Settle(host, r, "SinkAccepted", val), sink'.job = "idle",
         host.st = "running" => SinkHolds(sink', svc', host.wf, dev.sealed),
         host.st = "running" /\ dev.sealed /\ host.wf.next = 0 => 1 \in svc'.units
  PROVE  StreamState'
<1> DEFINE e == Event(r.eff, "SinkAccepted", val)
<1>1. StreamFacts /\ dev.sealed \in BOOLEAN  BY StreamKnown DEF StreamFacts
<1>2. StreamWorld /\ StreamThere(host) /\ dev'.sealed = dev.sealed  BY <1>1, SinkFrame
<1>3. e.type = "SinkAccepted"  BY DEF Event
<1>4. StreamTrue(host.wf, e, dev'.sealed, Whole', dev'.deleted)  BY <1>3 DEF StreamTrue
<1>5. /\ StreamThere(host') /\ host'.st \in {"running", "ending"}
      /\ StreamMoved(host', host, e, dev'.sealed)
      /\ HasStart(host) => HasStart(host')  BY <1>1, <1>2, <1>4, StreamSettles DEF StreamThere
<1> HIDE DEF e
<1>6. host'.st = "running" => host.st = "running" /\ Unheard(host.wf, e, host'.wf)
  BY <1>3, <1>5 DEF StreamMoved
<1>7. host'.st = "running" => SinkHolds(sink', svc', host'.wf, dev'.sealed)
  <2> SUFFICES ASSUME host'.st = "running"
               PROVE  SinkHolds(sink', svc', host'.wf, dev.sealed)
    BY <1>2
  <2>1. SinkHolds(sink', svc', host.wf, dev.sealed)  BY <1>6
  <2> QED  BY <2>1, SinkResting
<1>8. Intact' => InOrder'
  <2> SUFFICES ASSUME Intact', Flowing(host)'
               PROVE  (Ordered(inbox, dev.next) /\ Arrives(host.wf) /\ Keyed(host.wf))'
    BY DEF InOrder
  <2>1. /\ host.st = "running" /\ host.wf.phase = "Accepting" /\ host'.wf.phase = "Transferring"
        /\ Reached(host'.wf) = Reached(host.wf)  BY <1>3, <1>6 DEF Flowing, Unheard
  <2>2. Intact /\ Flowing(host) /\ UNCHANGED <<link, inbox, dev>> /\ svc.units \subseteq svc'.units
    BY <2>1 DEF Intact, Flowing, SinkWorld
  <2>3. Ordered(inbox, dev.next) /\ Arrives(host.wf) /\ Keyed(host.wf)
    BY <1>1, <2>2 DEF StreamFacts, InOrder
  <2>4. Ordered(inbox, dev.next)'  BY <2>2, <2>3 DEF Ordered
  <2>5. Arrives(host.wf)'  BY <2>1, <2>2, <2>3 DEF Arrives
  <2>6. Keyed(host.wf)'  BY <2>1, <2>2, <2>3 DEF Keyed
  <2> QED  BY <2>4, <2>5, <2>6
<1>9. StartAhead'  BY <1>1, <1>5, StartsAhead DEF SinkWorld
<1> QED  BY <1>2, <1>5, <1>7, <1>8, <1>9, StreamKeeps

\* A job of the sink fails.
LEMMA SinkRefuses ==
  ASSUME StreamState, AmbientType', SinkWorld, NEW r \in host.run, r.eff # "WriteStart",
         host' = SettleFailed(host, r, "SinkFailed")
  PROVE  StreamState'
<1>1. StreamFacts /\ dev.sealed \in BOOLEAN  BY StreamKnown DEF StreamFacts
<1>2. StreamThere(host) /\ dev'.sealed = dev.sealed  BY <1>1, SinkFrame
<1>3. StreamThere(host') /\ host'.st = "ending" /\ (HasStart(host) => HasStart(host'))
  BY <1>1, <1>2, StreamFails DEF StreamThere
<1>4. StreamSame(host', host)  BY <1>3 DEF StreamSame
<1> QED  BY <1>3, <1>4, SinkKeeps

\* What the sink works on, by the effect it works for.
LEMMA SinkProfile ==
  ASSUME StreamFacts, host.st = "running", NEW r \in host.run, r.eff \in SinkWork
  PROVE  /\ Sealed = dev.sealed
         /\ r.eff = "AppendPlain" => ~dev.sealed
         /\ r.eff \in {"BeginSealed", "AppendSealed"} => dev.sealed
         /\ r.eff = "BeginSealed" => host.wf.next = NoSequence
         /\ r.eff = "Finalize" => host.wf.phase = "Finalizing"
<1>1. /\ r.eff \in StreamWork(host.wf) /\ StreamFlow(host.wf, dev.sealed) /\ dev.sealed \in BOOLEAN
  BY DEF StreamFacts, StreamRunning
<1>2. /\ host.wf.phase \in {"Accepting", "Finalizing"}
      /\ r.eff = "Finalize" => host.wf.phase = "Finalizing"
      /\ r.eff # "Finalize" => host.wf.phase = "Accepting" /\ r.eff = Taking(host.wf)
  BY <1>1 DEF StreamWork, SinkWork, Taking
<1>3. host.wf.profile = IF dev.sealed THEN "sealed" ELSE "plain"  BY <1>1, <1>2 DEF StreamFlow, Counted
<1>4. Sealed = dev.sealed  BY <1>1, <1>3 DEF Sealed
<1> QED  BY <1>2, <1>3, <1>4 DEF Taking

\* The sink takes the next job.
LEMMA StreamSink ==
  ASSUME StreamState, AmbientType', NEW r \in host.run, SinkBegins(r)
  PROVE  StreamState'
<1>1. /\ StreamFacts /\ r.eff \in SinkWork /\ sink.job = "idle" /\ sink \in SinkType /\ UNCHANGED svc
      /\ UNCHANGED <<link, inbox, dev, told>> /\ svc \in SvcType /\ dev.sealed \in BOOLEAN
  BY StreamKnown DEF StreamFacts, SinkBegins, Sinks
<1>2. r.eff # "WriteStart" /\ r.eff # "WriteAbort"  BY <1>1 DEF SinkWork
<1>3. sink.durable \in Nat /\ sink.uploaded \in Nat /\ sink.units \in Nat  BY <1>1 DEF SinkType
<1>4. /\ Refuses(sink, r) => SinkWorld
      /\ \A s \in SinkType : sink' = s => SinkWorld
  <2>1. Refuses(sink, r) => sink' \in SinkType  BY <1>1 DEF Refuses, SinkType
  <2> QED  BY <1>1, <2>1 DEF SinkWorld
<1>5. CASE Refuses(sink, r)  BY <1>2, <1>4, <1>5, SinkRefuses DEF Refuses
<1>6. CASE r.mode = "live" /\ ~Refuses(sink, r)
  <2>1. host.st = "running" /\ SinkHolds(sink, svc, host.wf, dev.sealed)  BY <1>1, <1>6 DEF StreamFacts
  <2>2. /\ Sealed = dev.sealed
        /\ r.eff = "AppendPlain" => ~dev.sealed
        /\ r.eff \in {"BeginSealed", "AppendSealed"} => dev.sealed
        /\ r.eff = "BeginSealed" => host.wf.next # 0
        /\ r.eff = "Finalize" => host.wf.phase = "Finalizing"  BY <1>1, <2>1, SinkProfile DEF NoSequence
  <2>3. CASE r.eff = "AppendPlain"
    <3> DEFINE n == sink.durable + 1
               m == sink.units + 1
               s == [sink EXCEPT !.durable = n, !.units = m, !.timer = FALSE]
               busy == [s EXCEPT !.job = "AppendPlain", !.tries = 0]
               flush == s.durable # s.uploaded
               idle == [s EXCEPT !.job = "idle", !.timer = flush]
    <3>a. n = sink.durable + 1 /\ m = sink.units + 1 /\ n \in Nat /\ m \in Nat  BY <1>3
    <3> HIDE DEF n, m
    <3>b. /\ s \in SinkType /\ s.durable = n /\ s.units = m
          /\ s.uploaded = sink.uploaded /\ s.job = sink.job
      BY <1>1, <3>a DEF SinkType
    <3>1. /\ s \in SinkType /\ s.durable = sink.durable + 1 /\ s.units = sink.units + 1
          /\ s.uploaded = sink.uploaded /\ s.job = sink.job
      BY <3>a, <3>b
    <3>2. PlainSink(sink, svc, host.wf) /\ ~dev.sealed  BY <2>1, <2>2, <2>3 DEF SinkHolds
    <3>3. \/ sink' = busy /\ UNCHANGED host
          \/ sink' = idle /\ host' = Settle(host, r, "SinkAccepted", s.units)
      BY <1>6, <2>2, <2>3, <3>2 DEF SinkBegins, Accepts, SinkWork, n, m
    <3>0. flush \in BOOLEAN  OBVIOUS
    <3> HIDE DEF s, flush
    <3>4. /\ busy \in SinkType /\ busy.job = "AppendPlain" /\ busy.durable = s.durable /\ busy.units = s.units
          /\ busy.uploaded = s.uploaded
          /\ idle \in SinkType /\ idle.job = "idle" /\ idle.durable = s.durable /\ idle.units = s.units
          /\ idle.uploaded = s.uploaded
      BY <3>0, <3>1 DEF SinkType
    <3> HIDE DEF busy, idle
    <3>5. SinkWorld /\ sink'.job \in {"AppendPlain", "idle"} /\ sink'.durable = s.durable
          /\ sink'.units = s.units /\ sink'.uploaded = s.uploaded
      BY <1>4, <3>3, <3>4
    <3>6. SinkHolds(sink', svc', host.wf, dev.sealed)
      BY <1>1, <1>3, <3>1, <3>2, <3>5 DEF SinkHolds, PlainSink
    <3>7. CASE sink' = busy /\ UNCHANGED host  BY <3>5, <3>6, <3>7, SinkStays
    <3>8. CASE sink' = idle /\ host' = Settle(host, r, "SinkAccepted", s.units)
      BY <1>2, <3>2, <3>4, <3>5, <3>6, <3>8, SinkAccepts
    <3> QED  BY <3>3, <3>7, <3>8
  <2>4. CASE r.eff = "BeginSealed"
    <3> DEFINE idle == [sink EXCEPT !.job = "idle", !.timer = FALSE]
    <3>1. idle \in SinkType /\ idle.job = "idle" /\ idle.durable = sink.durable /\ idle.units = sink.units /\ ~idle.timer
      BY <1>1 DEF SinkType
    <3>2. sink' = idle /\ host' = Settle(host, r, "SinkAccepted", sink.units) /\ dev.sealed
      BY <1>6, <2>2, <2>4 DEF SinkBegins, Accepts, SinkWork
    <3> HIDE DEF idle
    <3>3. SinkWorld /\ SinkHolds(sink', svc', host.wf, dev.sealed)
      BY <1>1, <1>4, <2>1, <3>1, <3>2 DEF SinkHolds, SealedSink
    <3> QED  BY <1>2, <2>2, <2>4, <3>1, <3>2, <3>3, SinkAccepts
  <2>5. CASE r.eff = "AppendSealed"
    <3> DEFINE n == sink.durable + 1
               busy == [sink EXCEPT !.durable = n, !.job = "AppendSealed", !.tries = 0]
    <3>a. n = sink.durable + 1 /\ n \in Nat  BY <1>3
    <3> HIDE DEF n
    <3>b. /\ busy \in SinkType /\ busy.job = "AppendSealed" /\ busy.durable = n
          /\ busy.units = sink.units /\ busy.timer = sink.timer
      BY <1>1, <3>a DEF SinkType
    <3>1. /\ busy \in SinkType /\ busy.job = "AppendSealed" /\ busy.durable = sink.durable + 1
          /\ busy.units = sink.units /\ busy.timer = sink.timer
      BY <3>a, <3>b
    <3>2. sink' = busy /\ UNCHANGED host /\ dev.sealed  BY <1>6, <2>2, <2>5 DEF SinkBegins, SinkWork, n
    <3> HIDE DEF busy
    <3>3. SinkWorld /\ SinkHolds(sink', svc', host.wf, dev.sealed)
      BY <1>1, <1>3, <1>4, <2>1, <3>1, <3>2 DEF SinkHolds, SealedSink
    <3> QED  BY <3>2, <3>3, SinkStays
  <2>6. CASE r.eff = "Finalize"
    <3> DEFINE job == IF ~Sealed /\ ChunkDue(sink, TRUE) THEN "Finalize" ELSE "Asking"
               busy == [sink EXCEPT !.timer = FALSE, !.tries = 0, !.job = job]
    <3>1. /\ sink' = busy /\ UNCHANGED host /\ sink.units = host.wf.units /\ (Sealed \/ sink.units # 0)
      BY <1>6, <2>6 DEF SinkBegins, SinkWork
    <3>2. job \in {"Finalize", "Asking"} /\ (Sealed => job = "Asking")
          /\ (~Sealed /\ job = "Asking" => ~ChunkDue(sink, TRUE))
      OBVIOUS
    <3> HIDE DEF job
    <3>3. /\ busy \in SinkType /\ busy.job = job /\ busy.durable = sink.durable /\ busy.units = sink.units
          /\ busy.uploaded = sink.uploaded /\ ~busy.timer
      BY <1>1, <3>2 DEF SinkType
    <3> HIDE DEF busy
    <3>4. SinkWorld  BY <1>4, <3>1, <3>3
    <3>5. CASE dev.sealed
      BY <1>1, <2>1, <2>2, <2>6, <3>1, <3>2, <3>3, <3>4, <3>5, SinkStays DEF SinkHolds, SealedSink
    <3>6. CASE ~dev.sealed
      <4>1. PlainSink(sink, svc, host.wf)  BY <2>1, <3>6 DEF SinkHolds
      <4>2. job = "Asking" => sink.uploaded = sink.durable
        BY <1>3, <2>2, <3>2, <3>6, <4>1 DEF ChunkDue, PlainSink
      <4>3. PlainSink(sink', svc', host.wf)
        BY <1>1, <2>2, <2>6, <3>1, <3>2, <3>3, <3>6, <4>1, <4>2 DEF PlainSink
      <4>4. SinkHolds(sink', svc', host.wf, dev.sealed)  BY <3>6, <4>3 DEF SinkHolds
      <4> QED  BY <3>1, <3>4, <4>4, SinkStays
    <3> QED  BY <1>1, <3>5, <3>6
  <2> QED  BY <1>1, <2>3, <2>4, <2>5, <2>6 DEF SinkWork
<1> QED  BY <1>5, <1>6 DEF SinkBegins

\* The flush timer.
LEMMA StreamFlush ==
  ASSUME StreamState, AmbientType', BackgroundFlush
  PROVE  StreamState'
<1> DEFINE busy == [sink EXCEPT !.timer = FALSE, !.job = "Background", !.tries = 0]
<1>1. /\ StreamFacts /\ sink.job = "idle" /\ sink.timer /\ sink \in SinkType /\ UNCHANGED <<svc, host>>
      /\ UNCHANGED <<link, inbox, dev, told>> /\ svc \in SvcType /\ sink' = busy
      /\ SinkHolds(sink, svc, host.wf, dev.sealed)  BY StreamKnown DEF StreamFacts, BackgroundFlush, Sinks
<1>2. /\ busy \in SinkType /\ busy.job = "Background" /\ busy.durable = sink.durable /\ busy.units = sink.units
      /\ busy.uploaded = sink.uploaded  BY <1>1 DEF SinkType
<1> HIDE DEF busy
<1>3. SinkWorld  BY <1>1, <1>2 DEF SinkWorld
<1>4. SinkHolds(sink', svc', host.wf, dev.sealed)  BY <1>1, <1>2 DEF SinkHolds, PlainSink, SealedSink
<1> QED  BY <1>1, <1>3, <1>4, SinkStays

\* The chunk of a plaintext recording continues what was uploaded.
LEMMA ChunkPlain ==
  ASSUME sink \in SinkType, sink.job # "AppendSealed", sink.uploaded <= sink.durable
  PROVE  /\ Chunk \in SUBSET Int
         /\ sink.uploaded + Cardinality(Chunk) \in Nat
         /\ sink.uploaded + Cardinality(Chunk) <= sink.durable
         /\ 1 .. sink.uploaded + Cardinality(Chunk) \subseteq (1 .. sink.uploaded) \cup Chunk
<1> DEFINE a == sink.uploaded
           d == sink.durable
           m == IF d <= a + ChunkSize THEN d ELSE a + ChunkSize
<1>1. a \in Nat /\ d \in Nat /\ a <= d /\ ChunkSize \in Nat /\ ChunkSize > 0
  BY NativeConstants DEF SinkType
<1>2. Chunk = {u \in a + 1 .. d : u <= a + ChunkSize}  BY DEF Chunk
<1> HIDE DEF a, d
<1>3. m \in Nat /\ a <= m /\ m <= d  BY <1>1
<1>4. {u \in a + 1 .. d : u <= a + ChunkSize} = a + 1 .. m  BY <1>1
<1> HIDE DEF m
<1>5. Cardinality(a + 1 .. m) = m - a
  <2>1. a + 1 \in Int /\ m \in Int  BY <1>1, <1>3
  <2>2. Cardinality(a + 1 .. m) = IF a + 1 > m THEN 0 ELSE m - (a + 1) + 1  BY <2>1, FS_Interval
  <2> QED  BY <1>1, <1>3, <2>2
<1>6. Chunk = a + 1 .. m /\ a + Cardinality(Chunk) = m
  <2>1. Chunk = a + 1 .. m  BY <1>2, <1>4
  <2>2. Cardinality(Chunk) = m - a  BY <1>5, <2>1
  <2> QED  BY <1>1, <1>3, <2>1, <2>2
<1>7. Chunk \in SUBSET Int /\ 1 .. m \subseteq (1 .. a) \cup Chunk  BY <1>1, <1>3, <1>6
<1> QED  BY <1>1, <1>3, <1>6, <1>7 DEF a, d

\* A chunk may arrive, as it is told or not.
LEMMA ChunkArrives ==
  ASSUME StreamFacts, UNCHANGED <<link, inbox, dev, told>>, sink' \in SinkType, Chunk \in SUBSET Int,
         svc' = svc \/ svc' = [svc EXCEPT !.units = @ \cup Chunk]
  PROVE  SinkWorld /\ (svc'.units = svc.units \/ svc'.units = svc.units \cup Chunk)
<1> DEFINE all == svc.units \cup Chunk
           v == [svc EXCEPT !.units = all]
<1>1. svc \in SvcType /\ all \in SUBSET Int  BY DEF StreamFacts, SvcType
<1>2. v \in SvcType /\ v.units = all /\ v.final = svc.final
  <2> HIDE DEF all
  <2> QED  BY <1>1 DEF SvcType
<1>3. svc' = svc \/ svc' = v  OBVIOUS
<1> HIDE DEF v
<1> QED  BY <1>1, <1>2, <1>3 DEF SinkWorld

\* A chunk of a plaintext recording was uploaded.
LEMMA UploadedPlain ==
  ASSUME StreamState, AmbientType', UNCHANGED <<link, inbox, dev, told>>, host.st = "running",
         sink.job \in {"AppendPlain", "Finalize", "Background"}, Uploaded
  PROVE  StreamState'
<1> DEFINE m == sink.uploaded + Cardinality(Chunk)
           s == [sink EXCEPT !.uploaded = sink.durable, !.chunks = @ + 1, !.tries = 0]
           p == [s EXCEPT !.uploaded = m]
<1>1. /\ StreamFacts /\ sink \in SinkType /\ SinkHolds(sink, svc, host.wf, dev.sealed)
      /\ dev.sealed \in BOOLEAN  BY StreamKnown DEF StreamFacts
<1>2. ~dev.sealed /\ PlainSink(sink, svc, host.wf)  BY <1>1 DEF SinkHolds, SealedSink
<1>3. /\ m \in Nat /\ m <= sink.durable /\ 1 .. m \subseteq (1 .. sink.uploaded) \cup Chunk
      /\ Chunk \in SUBSET Int  BY <1>1, <1>2, ChunkPlain DEF PlainSink
<1>0. m = sink.uploaded + Cardinality(Chunk)  OBVIOUS
<1> HIDE DEF m
<1>4. /\ p \in SinkType /\ p.uploaded = m /\ p.durable = sink.durable /\ p.units = sink.units /\ p.job = sink.job
  <2> DEFINE c == sink.chunks + 1
             t == [sink EXCEPT !.uploaded = sink.durable, !.chunks = c, !.tries = 0]
  <2>1. c \in Nat  BY <1>1 DEF SinkType
  <2>2. s = t  OBVIOUS
  <2> HIDE DEF c
  <2>3. t \in SinkType /\ t.durable = sink.durable /\ t.units = sink.units /\ t.job = sink.job
    BY <1>1, <2>1 DEF SinkType
  <2> HIDE DEF t, s
  <2> QED  BY <1>3, <2>2, <2>3 DEF SinkType
<1>5. svc' = [svc EXCEPT !.units = @ \cup Chunk]  BY DEF Uploaded
<1>6. PICK job \in {"idle", "AppendPlain", "Finalize", "Background", "Asking"}, timer \in BOOLEAN :
        /\ sink' = [p EXCEPT !.job = job, !.timer = timer]
        /\ job \in {"Finalize", "Asking"} => sink.job = "Finalize"
        /\ job = "Asking" => p.durable <= p.uploaded
        /\ \/ UNCHANGED host
           \/ /\ job = "idle"
              /\ \E r \in host.run : Working(r) /\ host' = Settle(host, r, "SinkAccepted", p.units)
  <2>1. /\ p.uploaded \in Nat /\ p.durable \in Nat /\ p.timer \in BOOLEAN
        /\ \A j : [p EXCEPT !.job = j] = [p EXCEPT !.job = j, !.timer = p.timer]
        /\ p = [p EXCEPT !.job = p.job, !.timer = p.timer]
    <3> HIDE DEF p
    <3> QED  BY <1>4 DEF SinkType
  <2>2. CASE sink.job = "Background"
    <3> DEFINE j == IF ChunkDue(p, TRUE) THEN "Background" ELSE "idle"
    <3>1. sink' = [p EXCEPT !.job = j] /\ UNCHANGED host  BY <1>0, <1>4, <2>2 DEF Uploaded
    <3>2. j \in {"idle", "Background"}  OBVIOUS
    <3> HIDE DEF p, j
    <3>3. sink' = [p EXCEPT !.job = j, !.timer = p.timer]  BY <2>1, <3>1
    <3> QED  BY <2>1, <3>1, <3>2, <3>3
  <2>3. CASE sink.job = "Finalize"
    <3> DEFINE j == IF ChunkDue(p, TRUE) THEN "Finalize" ELSE "Asking"
    <3>1. sink' = [p EXCEPT !.job = j] /\ UNCHANGED host  BY <1>0, <1>4, <2>3 DEF Uploaded
    <3>2. j \in {"Asking", "Finalize"} /\ (j = "Asking" => ~(p.durable > p.uploaded))  BY DEF ChunkDue
    <3> HIDE DEF p, j
    <3>3. sink' = [p EXCEPT !.job = j, !.timer = p.timer] /\ (j = "Asking" => p.durable <= p.uploaded)
      <4>1. [p EXCEPT !.job = j] = [p EXCEPT !.job = j, !.timer = p.timer]  BY <2>1
      <4>2. j = "Asking" => p.durable <= p.uploaded
        <5>1. p.uploaded \in Nat /\ p.durable \in Nat  BY <2>1
        <5> QED  BY <3>2, <5>1
      <4> QED  BY <3>1, <4>1, <4>2
    <3> QED  BY <2>1, <2>3, <3>1, <3>2, <3>3
  <2>4. CASE sink.job = "AppendPlain"
    <3> DEFINE timer == ~Sealed /\ p.durable # p.uploaded
    <3>1. \/ sink' = p /\ UNCHANGED host
          \/ \E r \in host.run : /\ Working(r) /\ host' = Settle(host, r, "SinkAccepted", p.units)
                                 /\ sink' = [p EXCEPT !.job = "idle", !.timer = timer]
      <4>1. \/ sink' = p /\ UNCHANGED host
            \/ \E r \in host.run : Working(r) /\ Accepts(p, r)
        BY <1>0, <2>4 DEF Uploaded
      <4> HIDE DEF p
      <4> QED  BY <4>1 DEF Accepts
    <3>2. timer \in BOOLEAN  OBVIOUS
    <3> HIDE DEF p, timer
    <3>3. CASE sink' = p /\ UNCHANGED host
      <4>1. sink' = [p EXCEPT !.job = "AppendPlain", !.timer = p.timer]  BY <1>4, <2>1, <2>4, <3>3
      <4> QED  BY <2>1, <3>3, <4>1
    <3>4. CASE \E r \in host.run : /\ Working(r) /\ host' = Settle(host, r, "SinkAccepted", p.units)
                                   /\ sink' = [p EXCEPT !.job = "idle", !.timer = timer]
      BY <3>2, <3>4
    <3> QED  BY <3>1, <3>3, <3>4
  <2> QED  BY <2>2, <2>3, <2>4
<1> HIDE DEF p
<1>7. sink' \in SinkType /\ sink'.job = job /\ sink'.durable = sink.durable /\ sink'.units = sink.units
      /\ sink'.uploaded = m  BY <1>4, <1>6 DEF SinkType
<1>8. SinkWorld /\ svc'.units = svc.units \cup Chunk
  <2>1. SinkWorld  BY <1>1, <1>3, <1>5, <1>7, ChunkArrives
  <2> QED  BY <1>1, <1>5, <2>1 DEF StreamFacts, SvcType
<1>9. SinkHolds(sink', svc', host.wf, dev.sealed)
  <2>1. 1 .. m \subseteq svc'.units  BY <1>2, <1>3, <1>8 DEF PlainSink
  <2>2. job = "Asking" => m = sink.durable  BY <1>1, <1>3, <1>4, <1>6 DEF SinkType
  <2>3. PlainSink(sink', svc', host.wf)  BY <1>2, <1>3, <1>6, <1>7, <2>1, <2>2 DEF PlainSink
  <2> QED  BY <1>2, <2>3 DEF SinkHolds
<1>10. CASE UNCHANGED host  BY <1>8, <1>9, <1>10, SinkStays
<1>11. CASE job = "idle" /\ \E r \in host.run : Working(r) /\ host' = Settle(host, r, "SinkAccepted", p.units)
  <2>1. PICK r \in host.run : Working(r) /\ host' = Settle(host, r, "SinkAccepted", p.units)  BY <1>11
  <2>2. r.eff # "WriteStart" /\ r.eff # "WriteAbort"  BY <1>1, <2>1 DEF Working, JobOf, SinkType
  <2> QED  BY <1>2, <1>7, <1>8, <1>9, <1>11, <2>1, <2>2, SinkAccepts
<1> QED  BY <1>6, <1>10, <1>11

\* A unit of a sealed recording was uploaded, or one with another number than 0 is given up.
LEMMA UploadedSealed ==
  ASSUME StreamState, AmbientType', UNCHANGED <<link, inbox, dev, told>>, host.st = "running",
         sink.job = "AppendSealed",
         (svc' = svc /\ host.wf.next > 0) \/ svc' = [svc EXCEPT !.units = @ \cup Chunk],
         NEW s \in SinkType, s.durable = sink.durable, s.units = sink.units + 1,
         NEW r \in host.run, Working(r), Accepts(s, r)
  PROVE  StreamState'
<1> DEFINE timer == ~Sealed /\ s.durable # s.uploaded
<1>1. /\ StreamFacts /\ sink \in SinkType /\ SinkHolds(sink, svc, host.wf, dev.sealed)
      /\ dev.sealed \in BOOLEAN /\ svc \in SvcType  BY StreamKnown DEF StreamFacts
<1>2. dev.sealed /\ SealedSink(sink, svc, host.wf)  BY <1>1 DEF SinkHolds, PlainSink
<1>3. r.eff = "AppendSealed" /\ Sealed
  <2>1. r.eff = "AppendSealed"  BY DEF Working, JobOf
  <2> QED  BY <1>1, <1>2, <2>1, SinkProfile DEF SinkWork
<1>4. ~timer /\ timer \in BOOLEAN  BY <1>3
<1>5. sink' = [s EXCEPT !.job = "idle", !.timer = timer] /\ host' = Settle(host, r, "SinkAccepted", s.units)
  BY DEF Accepts
<1> HIDE DEF timer
<1>6. /\ sink' \in SinkType /\ sink'.job = "idle" /\ ~sink'.timer
      /\ sink'.durable = sink.durable /\ sink'.units = sink.units + 1  BY <1>4, <1>5 DEF SinkType
<1>7. sink.durable \in Nat /\ sink.units \in Nat /\ sink.durable = sink.units + 1
  BY <1>1, <1>2 DEF SinkType, SealedSink
<1>8. Chunk = {host.wf.next + 1} /\ Chunk \in SUBSET Int
  <2>1. host.wf \in StreamWf  BY <1>1, StreamRuns DEF StreamFacts
  <2> QED  BY <2>1 DEF Chunk, StreamWf
<1>9. SinkWorld /\ (svc'.units = svc.units \/ svc'.units = svc.units \cup Chunk)
  BY <1>1, <1>6, <1>8, ChunkArrives
<1>10. host.wf.next = 0 => 1 \in svc'.units
  <2> SUFFICES ASSUME host.wf.next = 0
               PROVE  1 \in svc'.units
    OBVIOUS
  <2>1. svc' = [svc EXCEPT !.units = @ \cup Chunk]  OBVIOUS
  <2>2. svc'.units = svc.units \cup Chunk  BY <1>1, <2>1 DEF SvcType
  <2>3. host.wf.next + 1 = 1  OBVIOUS
  <2> QED  BY <1>8, <2>2, <2>3
<1>11. SinkHolds(sink', svc', host.wf, dev.sealed)  BY <1>2, <1>6, <1>7 DEF SinkHolds, SealedSink
<1> QED  BY <1>3, <1>5, <1>6, <1>9, <1>10, <1>11, SinkAccepts

\* A chunk is uploaded, is tried again, or is given up.
LEMMA StreamUploads ==
  ASSUME StreamState, AmbientType', UploadChunk
  PROVE  StreamState'
<1>1. /\ StreamFacts /\ sink \in SinkType /\ SinkHolds(sink, svc, host.wf, dev.sealed)
      /\ dev.sealed \in BOOLEAN /\ svc \in SvcType /\ host.st = "running"
      /\ UNCHANGED <<link, inbox, dev, told>>
      /\ sink.job \in {"AppendPlain", "AppendSealed", "Finalize", "Background"}
  BY StreamKnown DEF StreamFacts, UploadChunk, Sinks
<1>2. sink.durable \in Nat /\ sink.uploaded \in Nat /\ sink.units \in Nat /\ sink.tries \in Nat /\ sink.chunks \in Nat
  BY <1>1 DEF SinkType
<1>3. CASE Uploaded /\ sink.job # "AppendSealed"  BY <1>1, <1>3, UploadedPlain
<1>4. CASE Uploaded /\ sink.job = "AppendSealed"
  <2> DEFINE c == sink.chunks + 1
             n == sink.units + 1
             d == sink.durable
             t == [sink EXCEPT !.uploaded = d, !.chunks = c, !.tries = 0]
             s == [t EXCEPT !.units = n]
  <2>1. svc' = [svc EXCEPT !.units = @ \cup Chunk]  BY <1>4 DEF Uploaded
  <2>a. c \in Nat /\ n \in Nat /\ d \in Nat /\ d = sink.durable /\ n = sink.units + 1  BY <1>2
  <2>3. t \in SinkType /\ t.durable = sink.durable /\ t.units = sink.units
    <3> HIDE DEF c, n, d
    <3> QED  BY <1>1, <2>a DEF SinkType
  <2>2. PICK r \in host.run : Working(r) /\ Accepts(s, r)
    <3>1. [t EXCEPT !.units = @ + 1] = s
      <4> HIDE DEF t
      <4> QED  BY <2>3
    <3>2. \E r \in host.run : Working(r) /\ Accepts([t EXCEPT !.units = @ + 1], r)
      <4> HIDE DEF s
      <4> QED  BY <1>4 DEF Uploaded
    <3> HIDE DEF t, s
    <3> QED  BY <3>1, <3>2
  <2> HIDE DEF t
  <2>4. s \in SinkType /\ s.durable = sink.durable /\ s.units = sink.units + 1
    <3> HIDE DEF c, n, d
    <3> QED  BY <2>a, <2>3 DEF SinkType
  <2> HIDE DEF s
  <2> QED  BY <1>1, <1>4, <2>1, <2>2, <2>4, UploadedSealed
<1>5. CASE svc' \in {svc, [svc EXCEPT !.units = @ \cup Chunk]}
           /\ IF sink.tries + 1 < Attempts THEN sink' = [sink EXCEPT !.tries = @ + 1] /\ UNCHANGED host ELSE GaveUp
  <2>1. Chunk \in SUBSET Int
    <3>1. CASE sink.job = "AppendSealed"
      <4>1. host.wf \in StreamWf  BY <1>1, StreamRuns DEF StreamFacts
      <4> QED  BY <3>1, <4>1 DEF Chunk, StreamWf
    <3>2. CASE sink.job # "AppendSealed"  BY <1>2, <3>2 DEF Chunk
    <3> QED  BY <3>1, <3>2
  <2>2. svc' = svc \/ svc' = [svc EXCEPT !.units = @ \cup Chunk]  BY <1>5
  <2>3. sink' \in SinkType => SinkWorld /\ (svc'.units = svc.units \/ svc'.units = svc.units \cup Chunk)
    BY <1>1, <2>1, <2>2, ChunkArrives
  <2>4. CASE sink' = [sink EXCEPT !.tries = @ + 1] /\ UNCHANGED host
    <3> DEFINE n == sink.tries + 1
    <3>1. n \in Nat  BY <1>2
    <3>0. sink' = [sink EXCEPT !.tries = n]  BY <2>4
    <3> HIDE DEF n
    <3>2. /\ sink' \in SinkType /\ sink'.job = sink.job /\ sink'.durable = sink.durable /\ sink'.units = sink.units
          /\ sink'.uploaded = sink.uploaded /\ sink'.timer = sink.timer
      BY <1>1, <3>0, <3>1 DEF SinkType
    <3>3. svc.units \subseteq svc'.units  BY <2>3, <3>2
    <3>4. SinkHolds(sink', svc', host.wf, dev.sealed)
      BY <1>1, <3>2, <3>3 DEF SinkHolds, PlainSink, SealedSink
    <3> QED  BY <2>3, <2>4, <3>2, <3>4, SinkStays
  <2>5. CASE GaveUp
    <3>1. CASE sink.job = "Background"
      <4>1. sink' = [sink EXCEPT !.job = "idle", !.bad = TRUE] /\ UNCHANGED host  BY <2>5, <3>1 DEF GaveUp
      <4>2. /\ sink' \in SinkType /\ sink'.job = "idle" /\ sink'.durable = sink.durable /\ sink'.units = sink.units
            /\ sink'.uploaded = sink.uploaded /\ sink'.timer = sink.timer
        BY <1>1, <4>1 DEF SinkType
      <4>3. svc.units \subseteq svc'.units  BY <2>3, <4>2
      <4>4. SinkHolds(sink', svc', host.wf, dev.sealed)
        BY <1>1, <3>1, <4>2, <4>3 DEF SinkHolds, PlainSink, SealedSink
      <4> QED  BY <2>3, <4>1, <4>2, <4>4, SinkStays
    <3>2. CASE sink.job = "AppendSealed" /\ host.wf.next > 0
      <4> DEFINE d == sink.durable
                 n == sink.units + 1
                 s == [sink EXCEPT !.uploaded = d, !.units = n]
      <4>a. d \in Nat /\ n \in Nat /\ n = sink.units + 1  BY <1>2
      <4>2. PICK r \in host.run : Working(r) /\ Accepts(s, r)  BY <2>5, <3>2 DEF GaveUp
      <4>3. s \in SinkType /\ s.durable = sink.durable /\ s.units = sink.units + 1
        <5> HIDE DEF d, n
        <5> QED  BY <1>1, <4>a DEF SinkType
      <4> HIDE DEF s
      <4> QED  BY <1>1, <2>2, <3>2, <4>2, <4>3, UploadedSealed
    <3>3. CASE sink.job # "Background" /\ ~(sink.job = "AppendSealed" /\ host.wf.next > 0)
      <4>1. PICK r \in host.run : Working(r) /\ Refuses(sink, r)  BY <2>5, <3>3 DEF GaveUp
      <4>2. r.eff # "WriteStart"  BY <1>1, <4>1 DEF Working, JobOf
      <4>3. sink' \in SinkType  BY <1>1, <4>1 DEF Refuses, SinkType
      <4> QED  BY <2>3, <4>1, <4>2, <4>3, SinkRefuses DEF Refuses
    <3> QED  BY <3>1, <3>2, <3>3
  <2> QED  BY <1>5, <2>4, <2>5
<1> QED  BY <1>3, <1>4, <1>5 DEF UploadChunk

\* The service has finalized a recording that is whole.
LEMMA FinalizedWhole ==
  ASSUME StreamFacts, host.st = "running", sink.job = "Asking", UNCHANGED dev,
         svc' = [svc EXCEPT !.final = TRUE]
  PROVE  Whole' /\ svc'.final /\ svc'.units = svc.units /\ svc' \in SvcType
<1>1. /\ SinkHolds(sink, svc, host.wf, dev.sealed) /\ StreamFlow(host.wf, dev.sealed)
      /\ dev.sealed \in BOOLEAN /\ svc \in SvcType  BY DEF StreamFacts, StreamRunning
<1>2. svc' \in SvcType /\ svc'.final /\ svc'.units = svc.units  BY <1>1 DEF SvcType
<1>3. CASE dev.sealed
  <2>1. host.wf.phase = "Finalizing"  BY <1>1, <1>3 DEF SinkHolds, SealedSink
  <2>2. Intact => dev.next = 0 /\ (1 \in dev.heard => 1 \in svc.units)
    <3> SUFFICES ASSUME Intact
                 PROVE  dev.next = 0 /\ (1 \in dev.heard => 1 \in svc.units)
      OBVIOUS
    <3>1. Arrives(host.wf) /\ Keyed(host.wf)  BY <2>1 DEF StreamFacts, InOrder, Flowing
    <3>2. host.wf.next = -1  BY <1>1, <2>1 DEF StreamFlow, Counted, NoSequence
    <3>3. 1 \in dev.heard => 1 <= Reached(host.wf) + 1  BY <2>1, <3>1 DEF Arrives
    <3>4. 1 \in dev.heard => Reached(host.wf) # -1  BY <3>3
    <3> QED  BY <1>3, <2>1, <3>1, <3>2, <3>4 DEF Arrives, Keyed, NoSequence
  <2> QED  BY <1>2, <1>3, <2>2 DEF Whole, Intact, Covered, Short
<1>4. CASE ~dev.sealed
  <2>1. /\ host.wf.phase = "Finalizing" /\ sink.units = host.wf.units /\ host.wf.units # 0
        /\ sink.units = sink.durable /\ sink.uploaded = sink.durable /\ 1 .. sink.uploaded \subseteq svc.units
    BY <1>1, <1>4 DEF SinkHolds, PlainSink
  <2>2. host.wf.units = Reached(host.wf) + 1 /\ host.wf.units \in Nat
    <3>1. host.wf \in StreamWf  BY StreamRuns DEF StreamFacts
    <3> QED  BY <1>1, <1>4, <2>1, <3>1 DEF StreamFlow, Counted, Reached, StreamWf
  <2>3. Intact => dev.next = 0 /\ \A u \in dev.heard : u <= host.wf.units
    BY <2>1, <2>2 DEF StreamFacts, InOrder, Flowing, Arrives
  <2>4. dev.heard \subseteq Int  BY DEF StreamFacts, DevType
  <2>5. Intact => \A u \in dev.heard : 1 .. u \subseteq svc.units  BY <2>1, <2>2, <2>3, <2>4
  <2> QED  BY <1>2, <1>4, <2>3, <2>5 DEF Whole, Intact, Covered, Short
<1> QED  BY <1>1, <1>2, <1>3, <1>4

\* The application is asked to finalize.
LEMMA StreamFinalizes ==
  ASSUME StreamState, AmbientType', FinalizeAsked
  PROVE  StreamState'
<1>1. /\ StreamFacts /\ sink \in SinkType /\ host.st = "running" /\ sink.job = "Asking"
      /\ dev.sealed \in BOOLEAN /\ UNCHANGED <<link, inbox, dev, told>>
      /\ SinkHolds(sink, svc, host.wf, dev.sealed) /\ svc \in SvcType
  BY StreamKnown DEF StreamFacts, FinalizeAsked, Sinks
<1>2. PICK r \in host.run :
        /\ Working(r)
        /\ \/ /\ svc' = [svc EXCEPT !.final = TRUE] /\ sink' = [sink EXCEPT !.job = "idle"]
              /\ host' = Settle(host, r, "SinkFinalized", sink.units)
           \/ Refuses(sink, r) /\ UNCHANGED svc
  BY DEF FinalizeAsked
<1>3. r.eff = "Finalize"  BY <1>1, <1>2 DEF Working, JobOf
<1>4. CASE Refuses(sink, r) /\ UNCHANGED svc
  <2>1. sink' \in SinkType  BY <1>1, <1>4 DEF Refuses, SinkType
  <2>2. SinkWorld  BY <1>1, <1>4, <2>1 DEF SinkWorld
  <2> QED  BY <1>3, <1>4, <2>2, SinkRefuses DEF Refuses
<1>5. CASE /\ svc' = [svc EXCEPT !.final = TRUE] /\ sink' = [sink EXCEPT !.job = "idle"]
           /\ host' = Settle(host, r, "SinkFinalized", sink.units)
  <2> DEFINE e == Event(r.eff, "SinkFinalized", sink.units)
  <2>1. Whole' /\ svc'.final /\ svc'.units = svc.units /\ svc' \in SvcType  BY <1>1, <1>5, FinalizedWhole
  <2>2. /\ sink' \in SinkType /\ sink'.job = "idle" /\ sink'.durable = sink.durable /\ sink'.units = sink.units
        /\ sink'.uploaded = sink.uploaded /\ sink'.timer = sink.timer  BY <1>1, <1>5 DEF SinkType
  <2>3. SinkWorld  BY <1>1, <2>1, <2>2 DEF SinkWorld
  <2>4. StreamWorld /\ PacketsKept /\ StreamThere(host) /\ dev'.sealed = dev.sealed
    BY <1>1, <2>3, SinkFrame
  <2>5. e.of = "Finalize" /\ e.type = "SinkFinalized"  BY <1>3 DEF Event
  <2>6. StreamTrue(host.wf, e, dev'.sealed, Whole', dev'.deleted)  BY <2>1, <2>5 DEF StreamTrue
  <2>7. /\ StreamThere(host') /\ host'.st \in {"running", "ending"}
        /\ StreamMoved(host', host, e, dev'.sealed)
        /\ HasStart(host) => HasStart(host')  BY <1>1, <1>3, <1>5, <2>4, <2>6, StreamSettles DEF StreamThere
  <2> HIDE DEF e
  <2>8. SinkHolds(sink', svc', host.wf, dev.sealed)
    BY <1>1, <2>1, <2>2 DEF SinkHolds, PlainSink, SealedSink
  <2>9. SinkHolds(sink', svc', host'.wf, dev'.sealed)
    <3>1. SinkHolds(sink', svc', host'.wf, dev.sealed)  BY <2>2, <2>8, SinkResting
    <3> QED  BY <2>4, <3>1
  <2>10. Intact' => InOrder'
    <3>1. host'.st = "running" => host'.wf.phase \in {"Acknowledging", "Confirming"}
      BY <2>5, <2>7 DEF StreamMoved, Unheard
    <3> QED  BY <3>1 DEF InOrder, Flowing
  <2>11. StartAhead'  BY <1>1, <2>7, StartsAhead
  <2> QED  BY <2>4, <2>7, <2>9, <2>10, <2>11, StreamKeeps
<1> QED  BY <1>2, <1>4, <1>5

\* A job that was aborted ends; what it sent may have arrived.
LEMMA StreamStops ==
  ASSUME StreamState, AmbientType', JobStops
  PROVE  StreamState'
<1> DEFINE rest == {r \in host.run : ~Working(r)}
<1>1. /\ StreamFacts /\ sink \in SinkType /\ host.st = "ending" /\ dev.sealed \in BOOLEAN
      /\ UNCHANGED <<link, inbox, dev, told>> /\ svc \in SvcType
      /\ sink' = [sink EXCEPT !.job = "idle"] /\ host' = [host EXCEPT !.run = rest]
      /\ \/ svc' = svc \/ svc' = [svc EXCEPT !.final = TRUE]
         \/ svc' = [svc EXCEPT !.units = @ \cup Chunk]
  BY StreamKnown DEF StreamFacts, JobStops, Sinks
<1>2. /\ rest \in SUBSET host.run
      /\ \A r \in host.run : r.eff \in {"WriteStart", "WriteAbort"} => r \in rest
  BY <1>1 DEF Working, JobOf, SinkType
<1> HIDE DEF rest
<1>3. sink' \in SinkType  BY <1>1 DEF SinkType
<1>4. Chunk \in SUBSET Int
  <2>1. sink.durable \in Nat /\ sink.uploaded \in Nat  BY <1>1 DEF SinkType
  <2>2. CASE sink.job = "AppendSealed"
    <3>1. host.wf \in StreamWf  BY <1>1 DEF StreamFacts, StreamHost, StreamInv
    <3> QED  BY <2>2, <3>1 DEF Chunk, StreamWf
  <2>3. CASE sink.job # "AppendSealed"  BY <2>1, <2>3 DEF Chunk
  <2> QED  BY <2>2, <2>3
<1>5. SinkWorld
  <2>1. CASE svc' = [svc EXCEPT !.final = TRUE]
    <3>1. svc' \in SvcType /\ svc'.final /\ svc'.units = svc.units  BY <1>1, <2>1 DEF SvcType
    <3> QED  BY <1>1, <1>3, <3>1 DEF SinkWorld
  <2>2. CASE svc' = svc \/ svc' = [svc EXCEPT !.units = @ \cup Chunk]
    BY <1>1, <1>3, <1>4, <2>2, ChunkArrives
  <2> QED  BY <1>1, <2>1, <2>2
<1>6. StreamThere(host)  BY <1>1, <1>5, SinkFrame
<1>7. StreamThere(host') /\ host'.run = rest /\ host'.st = host.st
  <2>1. [eff |-> "WriteAbort", mode |-> "clean"] \notin host.run \ rest  BY <1>2
  <2> QED  BY <1>1, <1>2, <1>6, <2>1, StreamLess DEF StreamThere
<1>8. StreamSame(host', host) /\ (HasStart(host) => HasStart(host'))
  BY <1>1, <1>2, <1>7 DEF StreamSame, HasStart
<1> QED  BY <1>1, <1>5, <1>7, <1>8, SinkKeeps

\* An effect of the stream.
LEMMA StreamEffect ==
  ASSUME StreamState, AmbientType', Effect
  PROVE  StreamState'
<1>1. PICK r \in host.run :
        /\ Ready(r)
        /\ \/ Write(r) \/ Read(r) \/ Subscribe(r) \/ Unsubscribe(r) \/ Scan(r)
           \/ Save(r) \/ DeleteCheckpoint(r) \/ SaveResult(r) \/ SaveJournal(r) \/ AskApp(r)
           \/ PrepareGrant(r) \/ SinkBegins(r) \/ Discard(r)
  BY DEF Effect
<1>2. r.eff \in StreamEffs  BY StreamKnown DEF StreamFacts
<1>3. ~(Read(r) \/ Scan(r) \/ Save(r) \/ DeleteCheckpoint(r) \/ SaveResult(r) \/ SaveJournal(r) \/ AskApp(r)
        \/ PrepareGrant(r))
  BY <1>2 DEF StreamEffs, StreamEffects, Read, Reads, Scan, Save, DeleteCheckpoint, SaveResult, SaveJournal,
        AskApp, PrepareGrant, Saves
<1> QED  BY <1>1, <1>3, StreamWrite, StreamSubscribe, StreamUnsubscribe, StreamSink, StreamDiscard

\* No step of the others is one of the stream.
LEMMA StreamNext ==
  ASSUME StreamState, used.family = "stream", NativeNext
  PROVE  StreamState'
<1>1. StreamFacts  BY StreamKnown
<1>2. AmbientType'  BY <1>1, AmbientStep DEF StreamFacts
<1>3. CASE StartOperation  BY <1>2, <1>3, StreamStarts
<1>4. CASE AppCancels  BY <1>2, <1>4, StreamCancels
<1>5. CASE Effect  BY <1>2, <1>5, StreamEffect
<1>6. CASE Ahead  BY <1>2, <1>6, StreamAhead
<1>7. CASE SinkSteps  BY <1>2, <1>7, StreamFlush, StreamUploads, StreamFinalizes, StreamStops DEF SinkSteps
<1>8. CASE TimerElapses \/ HearDrop  BY <1>2, <1>8, StreamDrops
<1>9. CASE Deliver  BY <1>2, <1>9, StreamDelivers
<1>10. CASE DeviceSends  BY <1>2, <1>10, StreamSends
<1>11. CASE LinkLost \/ Reconnect \/ DeviceUploads  BY <1>2, <1>11, StreamLink
<1>12. CASE Finish \/ Restart  BY <1>2, <1>12, StreamEnds
<1>13. ~Refused  BY <1>1 DEF Refused, Quarantined, StreamEffs, StreamEffects, StreamFacts
<1>14. ~Candidate /\ ~DeviceLogs  BY <1>1 DEF Candidate, DeviceLogs, StreamFacts
<1>15. ~ClearResetOwner  BY DEF ClearResetOwner, StreamState, NoReset
<1> QED  BY <1>3, <1>4, <1>5, <1>6, <1>7, <1>8, <1>9, <1>10, <1>11, <1>12, <1>13, <1>14, <1>15 DEF NativeNext

-----------------------------------------------------------------------------
(* Every family *)

\* The host has a shape, and what it executes belongs to the family.
LEMMA NativeShape ==
  ASSUME NativeInv
  PROVE  /\ HostShape(host, used.family) /\ host \in HostType /\ host.run \subseteq Submitted
         /\ AmbientType /\ dev \in DevType
         /\ used.family # "handoff" /\ host.st = "ending" => host.outcome \in Plainly
<1>1. used.family \in {"reset", "stream", "handoff", "logs", "discover"}  BY DEF NativeInv, UsedType
<1>2. CASE used.family = "reset"
  <2>1. ResetHost(host, Saved, Kept(host), dev.wiped, Acked) /\ AmbientType
    BY <1>2, ResetFacts DEF NativeInv
  <2> QED  BY <1>2, <2>1 DEF ResetHost, ResetInv, HostShape, HostType, AmbientType, Plainly
<1>3. CASE used.family = "stream"
  <2>1. StreamHost(host, dev.sealed, Whole, dev.deleted, dev.next = 0) /\ AmbientType
    BY <1>3, StreamKnown DEF NativeInv, StreamFacts
  <2> QED  BY <1>3, <2>1 DEF StreamHost, StreamInv, HostShape, HostType, AmbientType, Plainly
<1>4. CASE used.family = "handoff"
  <2>1. HostShape(host, "handoff") /\ AmbientType  BY <1>4, HandoffKnown DEF NativeInv, HandoffFacts
  <2> QED  BY <1>4, <2>1 DEF HostShape, HostType, AmbientType
<1>5. CASE used.family = "logs"
  <2>1. LogsHost(host, Calm) /\ AmbientType  BY <1>5, LogsFacts DEF NativeInv
  <2> QED  BY <1>5, <2>1 DEF LogsHost, LogsInv, HostShape, HostType, AmbientType, Plainly
<1>6. CASE used.family = "discover"
  <2>1. DiscoverHost(host) /\ AmbientType  BY <1>6 DEF NativeInv, DiscoverState, Ambient
  <2> QED  BY <1>6, <2>1 DEF DiscoverHost, DiscoverInv, HostShape, HostType, AmbientType, Plainly
<1> QED  BY <1>1, <1>2, <1>3, <1>4, <1>5, <1>6

\* Who sends the recordings is only told after a handoff.
LEMMA ToldRightStep ==
  ASSUME NativeInv, NativeNext, used'.family = used.family
  PROVE  ToldRight'
<1> SUFFICES ASSUME used.family # "handoff"
             PROVE  told' \in Plainly
  BY DEF ToldRight, Plainly
<1>1. told \in Plainly /\ (host.st = "ending" => host.outcome \in Plainly)
  BY NativeShape DEF NativeInv, ToldRight, Plainly
<1>2. UNCHANGED told => told' \in Plainly  BY <1>1
<1>3. {"none", "failed", "done"} \subseteq Plainly  BY DEF Plainly
<1>4. Effect => told' \in Plainly
  BY <1>2 DEF Effect, Write, Read, Subscribe, Unsubscribe, Scan, Save, DeleteCheckpoint,
        SaveResult, SaveJournal, AskApp, PrepareGrant, SinkBegins, Discard, Files, Sinks, Radio
<1>5. StartOperation => told' \in Plainly
  BY <1>3 DEF StartOperation, FactoryReset, ResumeFactoryReset, StartStreaming,
        ObserveUploadOwnership, ReadDeviceLogs, StartScan, StartOp
<1>6. Finish \/ ClearResetOwner \/ Restart => told' \in Plainly
  BY <1>1, <1>3 DEF Finish, ClearResetOwner, Restart
<1>7. AppCancels \/ Ahead \/ Refused \/ SinkSteps \/ Candidate \/ TimerElapses \/ Deliver
      \/ LinkLost \/ HearDrop \/ Reconnect \/ DeviceSends \/ DeviceLogs \/ DeviceUploads => told' \in Plainly
  BY <1>2 DEF AppCancels, Ahead, WriteExecutes, Refused, Quarantined, Radio,
        SinkSteps, BackgroundFlush, UploadChunk, FinalizeAsked, JobStops, Sinks,
        Candidate, TimerElapses, Deliver, LinkLost, HearDrop, Reconnect,
        DeviceSends, DeviceLogs, DeviceUploads
<1> QED  BY <1>4, <1>5, <1>6, <1>7 DEF NativeNext

\* Every step keeps the invariant of the family the behaviour keeps to.
LEMMA NativeStep ==
  ASSUME NativeInv, NativeNext
  PROVE  NativeInv'
<1>1. AmbientType' /\ used'.family = used.family  BY NativeShape, AmbientStep
<1>2. ToldRight'  BY <1>1, ToldRightStep
<1>3. used' \in UsedType  BY <1>1 DEF AmbientType
<1>4. used.family = "reset" => ResetState'  BY ResetNext DEF NativeInv
<1>5. used.family = "stream" => StreamState'  BY StreamNext DEF NativeInv
<1>6. used.family = "handoff" => HandoffState'  BY HandoffNext DEF NativeInv
<1>7. used.family = "logs" => LogsState'  BY LogsNext DEF NativeInv
<1>8. used.family = "discover" => DiscoverState'  BY DiscoverNext DEF NativeInv
<1> QED  BY <1>1, <1>2, <1>3, <1>4, <1>5, <1>6, <1>7, <1>8 DEF NativeInv

\* The device at first.
LEMMA DeviceShape ==
  ASSUME NativeInit
  PROVE  /\ dev \in DevType /\ dev.held = NoResult /\ dev.next = 0 /\ ~dev.logging /\ dev.log = 1
<1> DEFINE d == Device
<1>1. 0 \in -1 .. Units + 1 /\ Pending \in Nat  BY NativeConstants, NativeWorkflowsAssumption
<1>2. /\ d \in DevType /\ d.held = NoResult /\ d.next = 0 /\ ~d.logging /\ d.log = 1
  BY <1>1 DEF Device, DevType, Results2
<1> HIDE DEF d
<1>3. \/ dev = d
      \/ \E b \in BOOLEAN : dev = [d EXCEPT !.sealed = b]
      \/ \E b, c \in BOOLEAN : dev = [d EXCEPT !.sync = b, !.net = c]
  <2>1. PICK f \in Families : DeviceAtFirst(f)  BY DEF NativeInit
  <2> QED  BY <2>1 DEF DeviceAtFirst, d
<1>4. CASE dev = d  BY <1>2, <1>4
<1>5. CASE \E b \in BOOLEAN : dev = [d EXCEPT !.sealed = b]  BY <1>2, <1>5 DEF DevType
<1>6. CASE \E b, c \in BOOLEAN : dev = [d EXCEPT !.sync = b, !.net = c]  BY <1>2, <1>6 DEF DevType
<1> QED  BY <1>3, <1>4, <1>5, <1>6

\* The invariant holds at first.
LEMMA NativeStart ==
  ASSUME NativeInit
  PROVE  NativeInv
<1>1. /\ dev \in DevType /\ dev.held = NoResult /\ dev.next = 0 /\ ~dev.logging /\ dev.log = 1
  BY DeviceShape
<1>2. /\ host.st = "idle" /\ \A family : HostShape(host, family)
  <2>1. host = Idle  BY DEF NativeInit
  <2> HIDE DEF Idle
  <2> QED  BY <2>1, IdleShape
<1>3. /\ sink = NoSink /\ told = "none" /\ inbox = <<>> /\ ~link.cccd /\ ~link.ahead /\ link \in LinkType
      /\ disk \in DiskType /\ svc \in SvcType
  BY DEF NativeInit, LinkType, DiskType, SvcType, NoJournal, Results2
<1>4. used \in UsedType
  <2>1. PICK f \in Families :
          used = [ family |-> f, ops |-> 0, faults |-> 0, lost |-> 0, drops |-> 0, cancels |-> 0, restarts |-> 0 ]
    BY DEF NativeInit
  <2>2. f \in {"reset", "stream", "handoff", "logs", "discover"} /\ 0 \in Nat  BY NativeWorkflowsAssumption
  <2> QED  BY <2>1, <2>2 DEF UsedType
<1>5. Ambient /\ NoReset /\ NoStream /\ NoEarly
  BY <1>1, <1>2, <1>3, <1>4 DEF Ambient, AmbientType, NoReset, NoStream, NoEarly, Outcomes
<1>6. ResetFamily
  <2>1. ResetTold
    <3>1. <<>> \in Seq(Results2) /\ \A i : i \notin DOMAIN <<>>  OBVIOUS
    <3>2. dev.held # Count  BY <1>1, NativeConstants
    <3> QED  BY <1>3, <3>1, <3>2 DEF ResetTold
  <2> QED  BY <1>1, <1>2, <1>3, <2>1 DEF ResetFamily, ResetHost, OpcodeAhead
<1>7. StreamFamily
  <2>1. sink \in SinkType  BY <1>3 DEF NoSink, SinkType
  <2>2. InOrder  BY <1>2 DEF InOrder, Flowing
  <2> QED  BY <1>1, <1>2, <1>3, <2>1, <2>2 DEF StreamFamily, StreamHost, StartAhead
<1>8. HandoffFamily  BY <1>1, <1>2, <1>3 DEF HandoffFamily, HandoffHost, Decided
<1>9. LogsFamily
  <2>1. LogInOrder(inbox, dev.log) /\ inbox \in Seq(LogPackets)
    <3>1. <<>> \in Seq(LogPackets) /\ \A i : i \notin DOMAIN <<>>  OBVIOUS
    <3> QED  BY <1>3, <3>1 DEF LogInOrder
  <2> QED  BY <1>1, <1>2, <1>3, <2>1 DEF LogsFamily, LogsHost
<1>10. DiscoverHost(host)  BY <1>2 DEF DiscoverHost
<1> QED  BY <1>1, <1>3, <1>4, <1>5, <1>6, <1>7, <1>8, <1>9, <1>10
     DEF NativeInv, ResetState, StreamState, HandoffState, LogsState, DiscoverState, ToldRight

\* Nothing happens, and the invariant stays.
LEMMA NativeStutter ==
  ASSUME NativeInv, UNCHANGED nativeVars
  PROVE  NativeInv'
<1>1. UNCHANGED <<host, sink, disk, link, inbox, dev, svc, told, used>>  BY DEF nativeVars
<1>2. ResetState => ResetState'
  BY <1>1 DEF ResetState, ResetFamily, Ambient, AmbientType, NoStream, ResetTold, OpcodeAhead, Saved, Kept, Acked
<1>3. StreamState => StreamState'
  BY <1>1 DEF StreamState, StreamFamily, Ambient, AmbientType, NoReset, Whole, Covered,
        Intact, InOrder, Flowing, Ordered, Arrives, Keyed, StartAhead
<1>4. HandoffState => HandoffState'
  BY <1>1 DEF HandoffState, HandoffFamily, Ambient, AmbientType, NoReset, NoStream
<1>5. LogsState => LogsState'
  BY <1>1 DEF LogsState, LogsFamily, Ambient, AmbientType, NoReset, NoStream, NoEarly, Calm
<1>6. DiscoverState => DiscoverState'
  BY <1>1 DEF DiscoverState, Ambient, AmbientType, NoReset, NoStream, NoEarly
<1> QED  BY <1>1, <1>2, <1>3, <1>4, <1>5, <1>6 DEF NativeInv, ToldRight

\* The inductive invariant of the operations on a native host: for every family,
\* what the host, the device, the sink and the service may hold together.
THEOREM NativeInvariant == NativeSpec => []NativeInv
<1>1. NativeInit => NativeInv  BY NativeStart
<1>2. NativeInv /\ [NativeNext]_nativeVars => NativeInv'  BY NativeStep, NativeStutter
<1> QED  BY <1>1, <1>2, PTL DEF NativeSpec

\* What the application is told of a reset, a stream or a handoff is so on the
\* device, whatever was lost, cancelled or started again.
THEOREM ToldTruthfully == NativeSpec => []Truthful
<1>1. NativeInv => Truthful
  <2> SUFFICES ASSUME NativeInv
               PROVE  Truthful
    OBVIOUS
  <2>1. told \in {"direct", "fallback", "preserved"} => used.family = "handoff"  BY DEF NativeInv, ToldRight
  <2>2. used.family = "handoff" => Decided(told, dev.pending = 0, ~dev.sync)
    BY DEF NativeInv, HandoffState, HandoffFamily
  <2>3. told = "done" /\ used.family = "reset" => dev.wiped /\ dev.held = NoResult
    BY DEF NativeInv, ResetState, ResetFamily, Acked
  <2>4. told = "done" /\ used.family = "stream" => dev.deleted  BY DEF NativeInv, StreamState, StreamFamily
  <2> QED  BY <2>1, <2>2, <2>3, <2>4 DEF Truthful, Decided
<1> QED  BY <1>1, NativeInvariant, PTL

\* The decoder never joins the fragments of two lines, whatever the radio drops.
THEOREM LinesWhole == NativeSpec => []NoSplicedLine
<1>1. NativeInv => NoSplicedLine
  <2> SUFFICES ASSUME NativeInv, host.wf.kind = "logs"
               PROVE  \A line \in host.wf.lines : \A i, j \in DOMAIN line : line[i] = line[j]
    BY DEF NoSplicedLine
  <2>1. host.st \in {"running", "ending"} /\ used.family = "logs"
    <3>1. HostShape(host, used.family)  BY NativeShape
    <3>2. host.st \notin {"idle", "stuck", "clearing"}  BY <3>1 DEF HostShape
    <3> QED  BY <3>1, <3>2 DEF HostShape, HostType
  <2>2. LogsInv(host, Calm)  BY <2>1 DEF NativeInv, LogsState, LogsFamily, LogsHost
  <2> QED  BY <2>2 DEF LogsInv, Unspliced
<1> QED  BY <1>1, NativeInvariant, PTL

\* Nobody listens and nothing is sent once a cancelled operation is over.
THEOREM CancelledQuiet == NativeSpec => []Quiet
<1>1. NativeInv => Quiet
  <2> SUFFICES ASSUME NativeInv
               PROVE  Quiet
    OBVIOUS
  <2>1. used.family \in {"reset", "stream", "handoff", "logs", "discover"}  BY DEF NativeInv, UsedType
  <2>2. host.st = "idle" /\ told = "cancelled" => ~link.cccd /\ dev.next = 0
    BY <2>1 DEF NativeInv, ResetState, StreamState, HandoffState, LogsState, DiscoverState, Ambient,
                NoStream, StreamFamily
  <2>3. used.family # "logs" => ~dev.logging
    BY <2>1 DEF NativeInv, ResetState, ResetFamily, StreamState, StreamFamily, HandoffState, HandoffFamily,
                DiscoverState
  <2>4. ASSUME used.family = "logs", host.st = "ending", host.outcome = "cancelled", host.run = {},
               used.faults = 0
        PROVE  ~(dev.logging /\ host.wf.phase = "Active")
    <3>1. LogsEnding(host, Calm)  BY <2>4 DEF NativeInv, LogsState, LogsFamily, LogsHost, LogsInv
    <3>2. used.faults \in Nat  BY DEF NativeInv, UsedType
    <3> QED  BY <2>4, <3>1, <3>2 DEF LogsEnding, Calm, Has
  <2> QED  BY <2>2, <2>3, <2>4 DEF Quiet
<1> QED  BY <1>1, NativeInvariant, PTL

-----------------------------------------------------------------------------
(* What a step may do to the device *)

\* Only a write that reached the device makes it forget a result or delete a recording.
LEMMA DeviceChanges ==
  ASSUME NativeInv, NativeNext,
         (dev'.held = NoResult /\ dev.held # NoResult) \/ (dev'.deleted /\ ~dev.deleted)
  PROVE  \E r \in host.run : MadeBy(r.eff)
<1> DEFINE Goal == \E r \in host.run : MadeBy(r.eff)
           Kept2 == dev'.held = dev.held /\ dev'.deleted = dev.deleted
<1>1. dev \in DevType /\ host.run \subseteq Submitted /\ Count # NoResult  BY NativeShape, NativeConstants
<1>2. ~Kept2  OBVIOUS
<1>3. UNCHANGED dev => Kept2  OBVIOUS
<1>4. ASSUME NEW r \in host.run, r.eff \in Writes, DeviceTakes(r.eff)
      PROVE  Goal
  <2>1. DeviceTook(r.eff)  BY <1>1, <1>4, DeviceTakesStep
  <2>2. dev'.held = NoResult /\ dev.held # NoResult => r.eff = "WriteReceipt"  BY <1>1, <2>1 DEF DeviceTook
  <2>3. dev'.deleted /\ ~dev.deleted => r.eff = "WriteConfirm"  BY <2>1 DEF DeviceTook
  <2> QED  BY <2>2, <2>3 DEF MadeBy
<1> HIDE DEF Goal
<1>5. Effect => Goal \/ Kept2
  <2> SUFFICES ASSUME Effect
               PROVE  Goal \/ UNCHANGED dev
    BY <1>3
  <2> HIDE DEF Kept2
  <2>1. PICK r \in host.run :
          \/ Write(r) \/ Read(r) \/ Subscribe(r) \/ Unsubscribe(r) \/ Scan(r)
          \/ Save(r) \/ DeleteCheckpoint(r) \/ SaveResult(r) \/ SaveJournal(r) \/ AskApp(r)
          \/ PrepareGrant(r) \/ SinkBegins(r) \/ Discard(r)
    BY DEF Effect
  <2>2. Write(r) => r.eff \in Writes /\ (DeviceTakes(r.eff) \/ UNCHANGED dev)  BY DEF Write
  <2>3. ~Write(r) => UNCHANGED dev
    BY <2>1 DEF Read, Subscribe, Unsubscribe, Scan, Save, DeleteCheckpoint, SaveResult, SaveJournal, AskApp,
          PrepareGrant, SinkBegins, Discard, Files, Sinks
  <2> QED  BY <1>4, <2>2, <2>3
<1>6. Ahead => Goal  BY <1>4 DEF Ahead, WriteExecutes, Writes
<1>7. LinkLost \/ Restart => Kept2  BY <1>1 DEF LinkLost, Restart, Detached, DevType
<1>8. DeviceSends => Kept2  BY <1>1 DEF DeviceSends, DevType
<1>9. DeviceLogs => Kept2
  <2>1. DeviceLogs => dev' = [dev EXCEPT !.log = @ + 1] \/ dev' = [dev EXCEPT !.log = @ + 2]
    BY DEF DeviceLogs
  <2> QED  BY <1>1, <2>1 DEF DevType
<1>10. DeviceUploads => Kept2
  <2>1. DeviceUploads => \/ dev' = [dev EXCEPT !.sync = FALSE]
                         \/ dev' = [dev EXCEPT !.pending = @ - 1, !.sync = dev.pending > 1]
    BY DEF DeviceUploads
  <2> QED  BY <1>1, <2>1 DEF DevType
<1>11. StartOperation \/ AppCancels \/ Refused \/ SinkSteps \/ Candidate \/ TimerElapses \/ Deliver
       \/ HearDrop \/ Reconnect \/ Finish \/ ClearResetOwner => UNCHANGED dev
  BY DEF StartOperation, FactoryReset, ResumeFactoryReset, StartStreaming,
        ObserveUploadOwnership, ReadDeviceLogs, StartScan, StartOp, AppCancels, Refused, Quarantined,
        SinkSteps, BackgroundFlush, UploadChunk, FinalizeAsked, JobStops, Sinks,
        Candidate, TimerElapses, Deliver, HearDrop, Reconnect, Finish, ClearResetOwner
<1>12. Goal  BY <1>2, <1>3, <1>5, <1>6, <1>7, <1>8, <1>9, <1>10, <1>11 DEF NativeNext
<1> QED  BY <1>12 DEF Goal

\* A result is forgotten only when it was kept.
LEMMA ReceiptStep ==
  ASSUME NativeInv, NativeNext, dev.held # NoResult, dev'.held = NoResult
  PROVE  /\ disk.journal # NoJournal /\ disk.journal[2] = dev.held
         /\ host.ask => disk.app = dev.held
<1>0. \E r \in host.run : MadeBy(r.eff)  BY DeviceChanges
<1>1. PICK r \in host.run : r.eff = "WriteReceipt"  BY <1>0 DEF MadeBy
<1>2. used.family = "reset" /\ dev.held = Count
  <2>1. dev \in DevType  BY NativeShape
  <2>2. used.family = "reset"
    BY DEF NativeInv, UsedType, StreamState, HandoffState, LogsState, DiscoverState, NoReset
  <2> QED  BY <2>1, <2>2 DEF DevType, Results2
<1>3. ResetHost(host, Saved, Kept(host), dev.wiped, Acked) /\ disk \in DiskType
  BY <1>2, ResetFacts DEF NativeInv
<1>4. Kept(host)  BY <1>1, <1>3, ResetRuns
<1>5. disk.journal \in Owners \X {Count}  BY <1>3, <1>4 DEF Kept, Saved, DiskType
<1>6. disk.journal[2] = Count  BY <1>5
<1> QED  BY <1>2, <1>4, <1>6 DEF Kept, Saved

\* A recording is deleted only when the service finalized it and has what was heard.
LEMMA DeletedStep ==
  ASSUME NativeInv, NativeNext, ~dev.deleted, dev'.deleted
  PROVE  /\ svc.final
         /\ Short => \A u \in dev.heard : (IF dev.sealed THEN {1} \cap {u} ELSE 1..u) \subseteq svc.units
<1>1. PICK r \in host.run : r.eff = "WriteConfirm"  BY DeviceChanges DEF MadeBy
<1>2. used.family = "stream"
  <2>1. used.family # "reset"  BY <1>1, ResetFacts DEF NativeInv, ResetEffs, ResetEffects
  <2>2. used.family # "handoff"  BY <1>1, HandoffKnown DEF NativeInv, HandoffFacts, HandoffEffs
  <2>3. used.family # "logs"  BY <1>1, LogsFacts DEF NativeInv, LogEffs, LogEffects
  <2>4. used.family # "discover"
    BY <1>1 DEF NativeInv, DiscoverState, DiscoverHost, DiscoverInv, HostShape, HostType
  <2> QED  BY <2>1, <2>2, <2>3, <2>4 DEF NativeInv, UsedType
<1>3. StreamHost(host, dev.sealed, Whole, dev.deleted, dev.next = 0) /\ host.run # {}
  BY <1>1, <1>2, StreamKnown DEF NativeInv, StreamFacts
<1>4. Whole
  <2>1. CASE host.st = "running"
    <3>1. "WriteConfirm" \in StreamWork(host.wf)  BY <1>1, <1>3, <2>1, StreamRuns
    <3>2. host.wf.phase = "Confirming"  BY <3>1 DEF StreamWork, Taking
    <3> QED  BY <1>3, <2>1, <3>2 DEF StreamHost, StreamInv
  <2>2. CASE host.st = "ending"
    <3>1. Has(host, "WriteConfirm") /\ StreamEnding(host, Whole, dev.next = 0)
      BY <1>1, <1>3, <2>2, StreamRuns DEF Has
    <3> QED  BY <3>1 DEF StreamEnding
  <2> QED  BY <1>3, <2>1, <2>2, StreamRuns
<1> QED  BY <1>4 DEF Whole, Covered

\* The device forgets the result of its reset only when the journal has exactly
\* that result, and the application that asked for it has kept it too.
THEOREM ReceiptSafe == NativeSpec => ReceiptCovered
<1>1. NativeInv /\ [NativeNext]_nativeVars =>
        [ dev.held # NoResult /\ dev'.held = NoResult =>
            /\ disk.journal # NoJournal /\ disk.journal[2] = dev.held
            /\ host.ask => disk.app = dev.held ]_nativeVars
  BY ReceiptStep
<1> QED  BY <1>1, NativeInvariant, PTL DEF NativeSpec, ReceiptCovered

\* The device is told to delete a recording only when the service finalized it,
\* whatever the radio lost and however long the recording is.
THEOREM DeletedFinalized ==
  NativeSpec => [][~dev.deleted /\ dev'.deleted => svc.final]_nativeVars
<1>1. NativeInv /\ [NativeNext]_nativeVars => [~dev.deleted /\ dev'.deleted => svc.final]_nativeVars
  BY DeletedStep
<1> QED  BY <1>1, NativeInvariant, PTL DEF NativeSpec

\* A recording with a sequence number of its own for each unit is deleted only when
\* the service has what the radio delivered of it: of a plaintext all up to the last
\* packet heard, of a sealed one the unit with the key when that was heard. A longer
\* recording is not: the engine ignores its packets from the wrap on.
THEOREM DeletedWhole ==
  ASSUME Units <= SeqMod
  PROVE  NativeSpec => StreamWhole
<1>1. NativeInv /\ [NativeNext]_nativeVars =>
        [ ~dev.deleted /\ dev'.deleted =>
            /\ svc.final
            /\ \A u \in dev.heard :
                 (IF dev.sealed THEN {1} \cap {u} ELSE 1..u) \subseteq svc.units ]_nativeVars
  BY DeletedStep DEF Short
<1> QED  BY <1>1, NativeInvariant, PTL DEF NativeSpec, StreamWhole

=============================================================================
