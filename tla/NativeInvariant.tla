--------------------------- MODULE NativeInvariant ----------------------------
(***************************************************************************)
(* The inductive invariant of NativeWorkflows: for each family of          *)
(* workflows what every phase knows of the device, the journal, the        *)
(* service and the notifications on their way, and which of its effects    *)
(* may still be running.  NativeWorkflows_proofs proves it.                *)
(***************************************************************************)
EXTENDS NativeWorkflows

-----------------------------------------------------------------------------
(* Types *)

Modes    == {"live", "stale", "clean"}
Outcomes == {"none", "done", "failed", "cancelled", "direct", "fallback", "preserved"}
Results2 == {NoResult, Count}
Owners   == Commands \cup {"none", "rn-resume"}

ResetWf ==
  [kind : {"reset"}, mode : {"start", "resume"}, expected : Results2, result : Results2,
   settling : BOOLEAN, waits : SUBSET ResetEffects, phase : ResetPhases]
StreamWf ==
  [kind : {"stream"}, phase : StreamPhases, waits : SUBSET StreamEffects, last : Int,
   next : Int, units : Nat, header : BOOLEAN, profile : Profiles]
HandoffWf ==
  [kind : {"handoff"}, phase : HandoffPhases, purpose : Purposes,
   outcome : {"none", "direct", "fallback", "preserved"}, waits : SUBSET HandoffEffects]
LogsWf ==
  [kind : {"logs"}, phase : LogPhases, waits : SUBSET LogEffects, expected : Int,
   buffer : Seq(Int), lines : SUBSET Seq(Int)]
DiscoverWf ==
  [kind : {"discover"}, phase : DiscoverPhases, waits : SUBSET DiscoverEffects]
NoWf == [kind : {"none"}]

Workflow == ResetWf \cup StreamWf \cup HandoffWf \cup LogsWf \cup DiscoverWf \cup NoWf

HostType ==
  [st : {"idle", "running", "ending", "stuck", "clearing"}, wf : Workflow, ask : BOOLEAN,
   cmd : Owners, pend : SUBSET (HostEffects \cup Timers), run : SUBSET Submitted,
   sub : {"off", "opening", "on"}, outcome : Outcomes, dirty : BOOLEAN]
DevType ==
  [grant : BOOLEAN, wiped : BOOLEAN, held : Results2, deleted : BOOLEAN, sealed : BOOLEAN,
   next : -1 .. Units + 1, heard : SUBSET (1 .. Units), pending : Nat, sync : BOOLEAN, net : BOOLEAN,
   logging : BOOLEAN, log : Nat \ {0}]
SinkType ==
  [job : {"idle", "AppendPlain", "AppendSealed", "Finalize", "Background", "Asking"},
   durable : Nat, uploaded : Nat, units : Nat, chunks : Nat, tries : Nat, bad : BOOLEAN,
   timer : BOOLEAN]
LinkType == [up : BOOLEAN, known : BOOLEAN, cccd : BOOLEAN, ahead : BOOLEAN]
DiskType == [journal : {NoJournal} \cup (Owners \X {Count}), app : Results2]
UsedType ==
  [family : {"reset", "stream", "handoff", "logs", "discover"}, ops : Nat, faults : Nat,
   lost : Nat, drops : Nat, cancels : Nat, restarts : Nat]
SvcType == [units : SUBSET Int, final : BOOLEAN]

\* The packets of a recording, and what a log packet says of its line.
DataOf(sealed, q) == [type |-> IF sealed THEN "sealedData" ELSE "data", seq |-> q]
EndOf(sealed) == [type |-> IF sealed THEN "sealedEof" ELSE "eof"]
PacketsOf(sealed) ==
  {DataOf(sealed, q) : q \in 0 .. Units - 1} \cup {EndOf(sealed), [type |-> "error"]}
  \cup (IF sealed THEN {[type |-> "sealed"]} ELSE {})
LogPackets ==
  {p \in [seq : Nat, dropped : BOOLEAN, line : Int, end : BOOLEAN] :
     /\ ~p.dropped => p.line = (p.seq + 1) \div 2 /\ p.end = (p.seq % 2 = 0)
     /\ p.dropped  => p.line = (p.seq + 2) \div 2 /\ p.end = ((p.seq + 1) % 2 = 0)}

-----------------------------------------------------------------------------
(* What was submitted *)

Has(h, x)  == \E r \in h.run : r.eff = x
Stopping(h) == h.st = "ending"

\* The application works while an operation runs: all it submitted is live, and
\* nothing is when the operation is ending.
HostShape(h, family) ==
  /\ h \in HostType
  /\ h.st \in {"idle", "stuck", "clearing"} => h.run = {} /\ h.wf = [kind |-> "none"]
  /\ h.st \in {"running", "ending"} => h.wf.kind = family
  /\ h.st = "running" => ~h.dirty /\ \A r \in h.run : r.mode = "live"
  /\ h.st = "ending" => \A r \in h.run : r.mode # "live"

-----------------------------------------------------------------------------
(* The reset *)

ResetWork(w) ==
  CASE w.phase = "ReadingNonce"     -> {"ReadNonce"}
    [] w.phase = "PreparingGrant"   -> {"PrepareGrant"}
    [] w.phase = "Subscribing"      -> {"Subscribe"}
    [] w.phase = "WritingGrant"     -> {"WriteGrant"}
    [] w.phase = "WritingOpcode"    -> {"WriteOpcode"}
    [] w.phase = "PersistingResult" -> {"SaveResult"}
    [] w.phase = "WritingReceipt"   -> {"WriteReceipt"}
    [] w.phase = "DeletingResult"   -> {"DeleteResult"}
    [] OTHER -> {}

Watched == {"Subscribing", "WritingGrant", "WritingOpcode", "AwaitingResult"}

\* The identifiers a phase waits for.
ResetWaits(w) ==
  w.waits \subseteq {"ResetTimer", "SaveStart", "SaveAwait"} \cup ResetWork(w)
                    \cup (IF w.phase \in Watched THEN {"Subscribe"} ELSE {})

\* The effect x may be executing.
ResetLive(w, x) ==
  \/ x \in {"SaveStart", "SaveAwait", "Unsubscribe"}
  \/ x \in ResetWork(w) \ {"SaveResult"}
  \/ x = "WriteOpcode" /\ w.settling
  \/ x \in Results /\ w.phase = "PersistingResult" /\ "SaveResult" \in w.waits

ResetEffs ==
  (ResetEffects \ {"ResetTimer"}) \cup {"Unsubscribe", "SaveJournal", "AskApp", "DeleteCheckpoint"}

\* saved: the journal is there; kept: the application has the result too, when
\* it asked for it; wiped, acked: of the device.
ResetRunning(h, saved) ==
  LET w == h.wf
  IN /\ w.phase \notin {"Completed", "Failed"}
     /\ ResetWaits(w)
     /\ w.settling => w.phase = "PersistingResult"
     /\ w.phase \in {"PersistingResult", "WritingReceipt", "DeletingResult"} => w.result = Count
     /\ \A r \in h.run : ResetLive(w, r.eff)
     /\ \A q, r \in h.run : q.eff \in Results /\ r.eff \in Results => q = r
     /\ Has(h, "AskApp") => saved

ResetEnding(h, kept) ==
  /\ \A r \in h.run : /\ r.eff \in ResetEffs
                      /\ r.mode = "clean" => r.eff \in {"Unsubscribe", "DeleteCheckpoint"}
  /\ Has(h, "WriteReceipt") => kept /\ ~Has(h, "WriteOpcode")
  /\ (\E r \in h.run : r.eff \in Results) => h.wf.result = Count
  /\ h.outcome = "done" => h.wf.phase = "Completed"

ResetInv(h, saved, kept, wiped, acked) ==
  LET w == h.wf
  IN /\ w \in ResetWf
     /\ w.result = Count => wiped
     /\ w.phase \in {"WritingReceipt", "DeletingResult", "Completed"} => kept
     /\ w.phase = "PersistingResult" /\ "SaveResult" \notin w.waits => kept
     /\ w.phase \in {"DeletingResult", "Completed"} => acked
     /\ h.outcome \in {"none", "done", "failed", "cancelled"}
     /\ h.st = "running" => ResetRunning(h, saved)
     /\ h.st = "ending" => ResetEnding(h, kept)

Saved == disk.journal # NoJournal
Kept(h) == Saved /\ (h.ask => disk.app = Count)
Acked == dev.wiped /\ dev.held = NoResult

ResetHost(h, saved, kept, wiped, acked) ==
  HostShape(h, "reset")
  /\ (h.st \in {"running", "ending"} => ResetInv(h, saved, kept, wiped, acked))

\* Nothing tells of a wipe that was not.
ResetTold ==
  /\ dev.held = Count => dev.wiped
  /\ inbox \in Seq(Results2) /\ \A i \in DOMAIN inbox : inbox[i] = Count => dev.wiped

\* Only the opcode is answered before its callback.
OpcodeAhead == link.ahead => \E r \in host.run : r.eff = "WriteOpcode" /\ r.mode # "clean"

ResetFamily ==
  /\ ResetHost(host, Saved, Kept(host), dev.wiped, Acked)
  /\ host.st = "clearing" \/ told = "done" => Acked
  /\ ResetTold /\ OpcodeAhead /\ disk \in DiskType /\ ~dev.logging

-----------------------------------------------------------------------------
(* The stream *)

\* What the sink does with the packet taken.
Taking(w) ==
  IF w.profile = "plain" THEN "AppendPlain"
  ELSE IF w.next = NoSequence THEN "BeginSealed" ELSE "AppendSealed"

StreamWork(w) ==
  CASE w.phase = "Subscribing"   -> {"Subscribe"}
    [] w.phase = "Starting"      -> {"WriteStart"}
    [] w.phase = "Accepting"     -> {Taking(w)}
    [] w.phase = "Finalizing"    -> {"Finalize"}
    [] w.phase = "Acknowledging" -> {"WriteAck"}
    [] w.phase = "Confirming"    -> {"WriteConfirm"}
    [] OTHER -> {}

StreamEffs == StreamEffects \cup {"Unsubscribe", "Discard", "WriteAbort"}

Fresh(w) ==
  w.last = NoSequence /\ w.next = NoSequence /\ w.units = 0 /\ ~w.header /\ w.profile = "unknown"

\* The packets taken, by their sequence numbers.
Reached(w) == IF w.next = NoSequence THEN w.last ELSE w.next

Counted(w, sealed) ==
  /\ w.last \in -1 .. Units - 1 /\ w.next \in -1 .. Units - 1
  /\ w.phase # "Accepting" => w.next = NoSequence
  /\ w.phase \in {"Subscribing", "Starting"} => Fresh(w)
  /\ w.phase = "Accepting" => w.profile = IF sealed THEN "sealed" ELSE "plain"
  /\ IF sealed THEN w.profile # "plain"
               ELSE /\ w.profile # "sealed" /\ ~w.header
                    /\ w.units = w.last + 1
                    /\ w.next # NoSequence => w.next = w.last + 1

StreamFlow(w, sealed) ==
  /\ w.phase \notin {"Completed", "Failed"}
  /\ w.waits \subseteq {"Subscribe"} \cup StreamWork(w)
  /\ Counted(w, sealed)
  /\ w.phase \in {"Finalizing", "Acknowledging", "Confirming"} =>
       w.profile = IF sealed THEN "sealed" ELSE "plain"

StreamRunning(h, sealed) ==
  /\ StreamFlow(h.wf, sealed)
  /\ \A r \in h.run : r.eff \in StreamWork(h.wf)
  /\ h.sub = "on" \/ h.wf.phase = "Subscribing"

StreamEnding(h, whole, silent) ==
  /\ \A r \in h.run : /\ r.eff \in StreamEffs
                      /\ r.mode = "clean" => r.eff \in {"WriteAbort", "Discard", "Unsubscribe"}
  /\ Has(h, "WriteConfirm") => whole
  /\ Has(h, "WriteStart") => ~Has(h, "WriteConfirm") /\ h.wf.phase \in {"Starting", "Failed"}
  /\ h.outcome = "done" => h.wf.phase = "Completed"
  /\ h.outcome = "cancelled" /\ ~h.dirty =>
       \/ [eff |-> "WriteAbort", mode |-> "clean"] \in h.run
       \/ silent /\ ~Has(h, "WriteStart")

StreamInv(h, sealed, whole, deleted, silent) ==
  /\ h.wf \in StreamWf
  /\ h.wf.phase \in {"Acknowledging", "Confirming", "Completed"} => whole
  /\ h.wf.phase = "Completed" => deleted
  /\ h.outcome \in {"none", "done", "failed", "cancelled"}
  /\ h.st = "running" => StreamRunning(h, sealed)
  /\ h.st = "ending" => StreamEnding(h, whole, silent)

StreamHost(h, sealed, whole, deleted, silent) ==
  /\ HostShape(h, "stream") /\ h.st # "clearing"
  /\ h.st \in {"running", "ending"} => StreamInv(h, sealed, whole, deleted, silent)

\* What the sink k holds and the service v has.
PlainSink(k, v, w) ==
  /\ k.job # "AppendSealed"
  /\ k.units = k.durable /\ k.uploaded <= k.durable
  /\ 1 .. k.uploaded \subseteq v.units
  /\ k.job \in {"Finalize", "Asking"} => w.phase = "Finalizing" /\ k.units = w.units /\ w.units # 0
  /\ k.job = "Asking" => k.uploaded = k.durable

SealedSink(k, v, w) ==
  /\ k.job \in {"idle", "AppendSealed", "Asking"} /\ ~k.timer
  /\ k.durable = IF k.job = "AppendSealed" THEN k.units + 1 ELSE k.units
  /\ k.job = "Asking" => w.phase = "Finalizing" /\ k.units = w.units

SinkHolds(k, v, w, sealed) ==
  IF sealed THEN SealedSink(k, v, w) ELSE PlainSink(k, v, w)

\* The service has what was heard of the recording: all of a plaintext up to there,
\* of a sealed one the unit with the key.
Covered ==
  \A u \in dev.heard : (IF dev.sealed THEN {1} \cap {u} ELSE 1..u) \subseteq svc.units

\* A recording with a sequence number of its own for each unit.
Short == Units <= SeqMod

\* The service finalized what was heard, and no more is sent, or it was so when
\* the recording was deleted.
Whole == dev.deleted \/ (svc.final /\ (Short => dev.next = 0 /\ Covered))

Intact == Short /\ ~dev.deleted

IsData(p) == p.type \in {"data", "sealedData"}

\* The units below this one were sent, the device sending from next.
Sent(next) == CASE next = -1 -> 1 [] next = 0 -> Units + 1 [] OTHER -> next

\* The packets on their way are in order, and the end is the last.
Ordered(notes, next) ==
  /\ \A i, j \in DOMAIN notes : i < j /\ IsData(notes[i]) /\ IsData(notes[j]) => notes[i].seq < notes[j].seq
  /\ \A i \in DOMAIN notes : /\ IsData(notes[i]) => notes[i].seq + 1 < Sent(next)
                             /\ notes[i] = EndOf(dev.sealed) => next = 0 /\ i = Len(notes)

\* What was heard is on its way or was taken, before the end is.
Arrives(w) ==
  /\ Reached(w) + 1 < Sent(dev.next)
  /\ link.cccd => \A u \in dev.heard :
       u <= Reached(w) + 1 \/ \E i \in DOMAIN inbox : inbox[i] = DataOf(dev.sealed, u - 1)
  /\ w.phase = "Finalizing" => dev.next = 0 /\ \A u \in dev.heard : u <= Reached(w) + 1

\* The unit with the key is uploaded before another one is taken.
Keyed(w) ==
  dev.sealed /\ 1 \in dev.heard /\ Reached(w) # NoSequence => 1 \in svc.units \/ w.next = 0

\* The device sends what this operation asked for.
Flowing(h) ==
  /\ h.st = "running"
  /\ \/ h.wf.phase \in {"Transferring", "Accepting", "Finalizing"}
     \/ h.wf.phase = "Starting" /\ link.ahead

InOrder == Flowing(host) => Ordered(inbox, dev.next) /\ Arrives(host.wf) /\ Keyed(host.wf)

\* Only the start is answered before its callback.
StartAhead == link.ahead => \E r \in host.run : r.eff = "WriteStart" /\ r.mode # "clean"

StreamFamily ==
  /\ StreamHost(host, dev.sealed, Whole, dev.deleted, dev.next = 0)
  /\ host.st = "running" => SinkHolds(sink, svc, host.wf, dev.sealed)
  /\ Intact => InOrder
  /\ told = "done" => dev.deleted
  /\ host.st = "idle" /\ told = "cancelled" => dev.next = 0
  /\ StartAhead
  /\ inbox \in Seq(PacketsOf(dev.sealed)) /\ sink \in SinkType /\ svc \in SvcType /\ ~dev.logging
  /\ dev.next = -1 => dev.sealed

-----------------------------------------------------------------------------
(* The handoff *)

HandoffWork(w) ==
  CASE w.phase = "ReadingStatus" -> {"ReadStatus"}
    [] w.phase = "Subscribing"   -> {"Subscribe"}
    [] w.phase = "Triggering"    -> {"WriteTrigger"}
    [] OTHER -> {}

HandoffWaits(w) ==
  w.waits \subseteq HandoffWork(w)
     \cup (IF w.phase \in {"Subscribing", "Triggering", "AwaitingTrigger"} THEN {"Subscribe"} ELSE {})
     \cup (CASE w.phase = "AwaitingTrigger" -> {"TriggerTimer"}
             [] w.phase = "WaitingToMonitor" -> {"MonitorTimer"} [] OTHER -> {})

HandoffEffs == {"ReadStatus", "Subscribe", "WriteTrigger", "Unsubscribe"}

Decided(outcome, none, alone) ==
  /\ outcome = "direct" => none
  /\ outcome \in {"fallback", "preserved"} => alone

HandoffRunning(h) ==
  /\ h.wf.phase \notin {"Completed", "Failed"}
  /\ HandoffWaits(h.wf)
  /\ \A r \in h.run : r.eff \in HandoffWork(h.wf) \cup {"Unsubscribe"}

HandoffEnding(h) ==
  /\ \A r \in h.run : r.eff \in HandoffEffs
  /\ h.outcome \in {"fallback", "preserved"} => ~Has(h, "WriteTrigger")

\* none: nothing is pending; alone: the device does not upload by itself.
HandoffInv(h, none, alone) ==
  /\ h.wf \in HandoffWf
  /\ h.outcome \in {"none", "failed", "cancelled", "direct", "fallback", "preserved"}
  /\ h.st = "running" => HandoffRunning(h)
  /\ h.st = "ending" => HandoffEnding(h) /\ Decided(h.outcome, none, alone)

HandoffHost(h, none, alone) ==
  /\ HostShape(h, "handoff") /\ h.st # "clearing"
  /\ h.st \in {"running", "ending"} => HandoffInv(h, none, alone)

HandoffNotes == {"accepted", "refused", "busy"}

HandoffFamily ==
  /\ HandoffHost(host, dev.pending = 0, ~dev.sync)
  /\ host.st \in {"running", "ending"} => told = "none"
  /\ Decided(told, dev.pending = 0, ~dev.sync)
  /\ inbox \in Seq(HandoffNotes) /\ ~dev.logging

-----------------------------------------------------------------------------
(* The device log *)

LogWork(w) ==
  CASE w.phase = "Subscribing" -> {"Subscribe"}
    [] w.phase = "Starting"    -> {"WriteLogStart"}
    [] OTHER -> {}

LogEffs == LogEffects \cup {"Unsubscribe", "WriteLogStop"}

Unspliced(w) == \A line \in w.lines : \A i, j \in DOMAIN line : line[i] = line[j]

\* The buffer has fragments of the line the expected packet belongs to, or that
\* packet does not come any more: notes are on their way, log is sent next.
Unbroken(w, notes, log) ==
  \/ \A i \in DOMAIN w.buffer : w.buffer[i] = (w.expected + 1) \div 2
  \/ w.expected < log /\ \A i \in DOMAIN notes : w.expected < notes[i].seq

LogInOrder(notes, log) ==
  /\ \A i, j \in DOMAIN notes : i < j => notes[i].seq < notes[j].seq
  /\ \A i \in DOMAIN notes : notes[i].seq < log

LogsRunning(h) ==
  /\ h.wf.phase # "Failed"
  /\ h.wf.waits \subseteq {"Subscribe"} \cup LogWork(h.wf)
  /\ \A r \in h.run : r.eff \in LogWork(h.wf) \cup {"Unsubscribe"}

LogsEnding(h, calm) ==
  /\ \A r \in h.run : r.eff \in LogEffs
  /\ h.outcome = "cancelled" /\ h.wf.phase = "Active" =>
       /\ ~Has(h, "WriteLogStart")
       /\ calm \/ Has(h, "WriteLogStop")

\* calm: the device does not log, or an effect has failed.
LogsInv(h, calm) ==
  /\ h.wf \in LogsWf
  /\ Unspliced(h.wf)
  /\ h.wf.expected = -1 => h.wf.buffer = <<>>
  /\ h.outcome \in {"none", "failed", "cancelled"}
  /\ h.st = "running" => LogsRunning(h)
  /\ h.st = "ending" => LogsEnding(h, calm)

LogsHost(h, calm) ==
  HostShape(h, "logs") /\ (h.st \in {"running", "ending"} => LogsInv(h, calm))

Calm == used.faults > 0 \/ ~dev.logging

LogsFamily ==
  /\ LogsHost(host, Calm) /\ host.st # "clearing"
  /\ host.st = "running" => Unbroken(host.wf, inbox, dev.log)
  /\ LogInOrder(inbox, dev.log) /\ inbox \in Seq(LogPackets)
  /\ ~link.up => ~dev.logging
  /\ told \in {"none", "failed", "cancelled"}

-----------------------------------------------------------------------------
(* The scan *)

DiscoverInv(h) ==
  /\ h.wf \in DiscoverWf /\ h.outcome \in {"none", "done", "failed", "cancelled"}
  /\ \A r \in h.run : r.eff \in {"StartScan", "StopScan"}

DiscoverHost(h) ==
  HostShape(h, "discover") /\ (h.st \in {"running", "ending"} => DiscoverInv(h))

-----------------------------------------------------------------------------
(* The invariant *)

AmbientType == dev \in DevType /\ link \in LinkType /\ used \in UsedType /\ told \in Outcomes

\* Nobody is notified without a subscription.
Ambient ==
  /\ AmbientType
  /\ ~link.cccd => inbox = <<>>
  /\ host.st = "idle" /\ told = "cancelled" => ~link.cccd

\* What only a reset, only a stream and only a reset, stream or handoff touch.
NoReset  == dev.held = NoResult /\ host.st # "clearing"
NoStream == sink = NoSink /\ dev.next = 0
NoEarly  == ~link.ahead

LogsState == LogsFamily /\ Ambient /\ NoReset /\ NoStream /\ NoEarly

ResetState == ResetFamily /\ Ambient /\ NoStream

StreamState == StreamFamily /\ Ambient /\ NoReset

HandoffState == HandoffFamily /\ Ambient /\ NoReset /\ NoStream

DiscoverState ==
  DiscoverHost(host) /\ Ambient /\ NoReset /\ NoStream /\ NoEarly /\ ~dev.logging

\* Only a handoff ends with who sends the recordings.
ToldRight == used.family # "handoff" => told \in {"none", "done", "failed", "cancelled"}

NativeInv ==
  /\ used \in UsedType
  /\ used.family = "reset"    => ResetState
  /\ used.family = "stream"   => StreamState
  /\ used.family = "handoff"  => HandoffState
  /\ used.family = "logs"     => LogsState
  /\ used.family = "discover" => DiscoverState
  /\ ToldRight

-----------------------------------------------------------------------------
(* What the handlers and the steps of each family do to it *)

\* What ends an operation: stale effects and the last ones, nothing else.
Ended(g, h, out, outcome) ==
  /\ g.st = "ending" /\ g.outcome = outcome /\ g.wf = h.wf /\ g.ask = h.ask /\ g.cmd = h.cmd
  /\ g.dirty = h.dirty /\ g.sub = "off"
  /\ \A r \in g.run : \/ r.mode = "stale" /\ \E q \in h.run : q.eff = r.eff
                      \/ r.mode = "clean" /\ r.eff \in out
  /\ \A q \in h.run : \E r \in g.run : r.eff = q.eff /\ r.mode # "clean"
  /\ \A x \in out \cap HostEffects : [eff |-> x, mode |-> "clean"] \in g.run

\* What goes on with an operation: its effects and the new ones, all live.
Went(g, h, r) ==
  /\ g.st = "running" /\ g.wf = r.wf /\ g.ask = h.ask /\ g.cmd = h.cmd /\ g.outcome = h.outcome
  /\ g.dirty = h.dirty
  /\ \A q \in g.run : q \in h.run \/ (q.eff \in r.out /\ q.mode = "live")
  /\ h.run \subseteq g.run
  /\ g.sub = IF "Unsubscribe" \in r.out THEN "off"
             ELSE IF "Subscribe" \in r.out THEN "opening" ELSE h.sub

\* An effect leaves the run of the host.
Without(h, r) == [h EXCEPT !.run = @ \ {r}]

\* What an answer of the reset keeps: the workflow after it is as its phase says,
\* and what goes on and what is submitted belongs to that phase.
ResetFlow(w) ==
  /\ ResetWaits(w)
  /\ w.settling => w.phase = "PersistingResult"
  /\ w.phase \in {"PersistingResult", "WritingReceipt", "DeletingResult"} => w.result = Count

ResetStep(w, of, r, kept, wiped, acked) ==
  /\ r.wf \in ResetWf
  /\ r.wf.result = Count => wiped
  /\ r.wf.phase \in {"WritingReceipt", "DeletingResult", "Completed"} => kept
  /\ r.wf.phase = "PersistingResult" /\ "SaveResult" \notin r.wf.waits => kept
  /\ r.wf.phase \in {"DeletingResult", "Completed"} => acked
  /\ IF r.wf.phase \in {"Completed", "Failed"}
     THEN /\ r.out \cap HostEffects \subseteq {"Unsubscribe", "DeleteCheckpoint"}
          /\ r.wf.phase = "Completed" => w.phase = "DeletingResult"
          /\ r.wf.result = w.result
     ELSE /\ ResetFlow(r.wf)
          /\ \A x \in HostEffects : ResetLive(w, x) /\ Source(x) # of => ResetLive(r.wf, x)
          /\ \A x \in r.out \cap HostEffects :
               /\ ResetLive(r.wf, x) /\ x \notin {"SaveJournal", "AskApp"}
               /\ x = "SaveResult" => w.phase # "PersistingResult"

\* Before an answer: the workflow is under way, and the environment is what the
\* event says of it.
ResetReady(w, e, kept, wiped, acked) ==
  /\ w \in ResetWf /\ w.phase \notin {"Completed", "Failed"} /\ ResetFlow(w)
  /\ w.result = Count => wiped
  /\ w.phase \in {"WritingReceipt", "DeletingResult"} => kept
  /\ w.phase = "PersistingResult" /\ "SaveResult" \notin w.waits => kept
  /\ w.phase = "DeletingResult" => acked
  /\ Matches(e.of, e.type)
  /\ e.type = "ResultSaved" => kept
  /\ e.of = "WriteReceipt" /\ e.type = "WriteCompleted" => acked
  /\ e.type = "Notification" => e.val \in Results2 /\ (e.val = Count => wiped)

\* Entering a phase whose work is one effect, from one without a subscription
\* under way: w is before the answer, v without the callback.
ResetEnters(w, v, of, r, kept, wiped, acked, phase, eff) ==
  /\ w \in ResetWf /\ v \in ResetWf /\ ResetFlow(v) /\ ~v.settling
  /\ v.result = w.result /\ (w.result = Count => wiped)
  /\ phase \in ResetPhases \ {"Completed", "Failed", "PersistingResult"}
  /\ eff \in HostEffects /\ eff \in ResetEffects \ {"SaveResult"}
  /\ r.wf = [v EXCEPT !.phase = phase, !.waits = @ \cup {eff}] /\ r.out = {eff}
  /\ \A x \in HostEffects : ResetLive(w, x) /\ Source(x) # of =>
                                x \in {"SaveStart", "SaveAwait", "Unsubscribe"}
  /\ ResetWork(r.wf) = {eff}
  /\ v.waits \subseteq {"ResetTimer", "SaveStart", "SaveAwait"}
                  \cup (IF phase \in Watched THEN {"Subscribe"} ELSE {})
  /\ phase \in {"WritingReceipt", "DeletingResult"} => kept /\ v.result = Count
  /\ phase = "DeletingResult" => acked

Bounds == {"ops", "faults", "lost", "drops", "cancels", "restarts"}

\* A write reaches the device: what it does to it.
DeviceTook(eff) ==
  /\ dev' \in DevType
  /\ eff \notin {"WriteOpcode", "WriteReceipt"} => dev'.held = dev.held
  /\ eff # "WriteOpcode" => dev'.wiped = dev.wiped /\ dev'.held \in {dev.held, NoResult}
  /\ eff = "WriteOpcode" => \/ dev'.wiped /\ dev'.held = Count
                            \/ dev'.wiped = dev.wiped /\ dev'.held = dev.held
  /\ eff = "WriteReceipt" => dev'.held = NoResult
  /\ eff \notin {"WriteStart", "WriteAbort"} => dev'.next = dev.next
  /\ eff = "WriteAbort" => dev'.next = 0
  /\ eff # "WriteStart" => dev'.heard = dev.heard
  /\ eff # "WriteConfirm" => dev'.deleted = dev.deleted
  /\ eff = "WriteConfirm" => dev'.deleted
  /\ dev'.sealed = dev.sealed /\ dev'.pending = dev.pending /\ dev'.log = dev.log
  /\ eff # "WriteTrigger" => dev'.sync = dev.sync
  /\ eff \notin {"WriteLogStart", "WriteLogStop"} => dev'.logging = dev.logging
  /\ eff = "WriteLogStop" => ~dev'.logging
  /\ eff \notin {"WriteOpcode", "WriteStart", "WriteTrigger"} => UNCHANGED inbox

\* A workflow of the log under way.
LogFlow(w) ==
  /\ w \in LogsWf /\ Unspliced(w) /\ w.phase # "Failed"
  /\ w.expected = -1 => w.buffer = <<>>
  /\ w.waits \subseteq {"Subscribe"} \cup LogWork(w)

\* What an answer keeps, of being the effect of the event.
LogStep(w, e, r) ==
  /\ r.wf \in LogsWf /\ Unspliced(r.wf)
  /\ r.wf.expected = -1 => r.wf.buffer = <<>>
  /\ IF r.wf.phase = "Failed"
     THEN r.out \cap HostEffects \subseteq {"Unsubscribe", "WriteLogStop"}
     ELSE /\ LogFlow(r.wf)
          /\ \A x \in LogWork(w) : x \in LogWork(r.wf)
                                   \/ (x = e.of /\ e.type \in {"Subscribed", "WriteCompleted"})
          /\ r.out \cap HostEffects \subseteq LogWork(r.wf)
          /\ e.type # "Notification" => r.wf.buffer = w.buffer /\ r.wf.expected = w.expected

\* The answer to any event but a packet, in the host: the operation goes on with
\* the lines it has, or ends.
LogEvent(e) ==
  e.type # "Notification" /\ (e.type = "WriteCompleted" => e.of \in Writes)

\* A host without effects of the log that the event answered.
LogSettled(h, e) ==
  e.type \in {"Subscribed", "WriteCompleted"} => \A q \in h.run : q.eff # e.of

\* While a cancelled log ends, its stop is what makes it calm.
Calms(h, r, calm, later) ==
  h.st = "ending" /\ h.outcome = "cancelled" /\ h.wf.phase = "Active"
    => (calm => later) /\ (r.eff = "WriteLogStop" => later)

\* What an effect of the log leaves alone, and what remains to show of it.
LogsKept ==
  /\ LogsHost(host', Calm') /\ host'.st \in {"running", "ending"}
  /\ host'.st = "running" => /\ host.st = "running"
                             /\ host'.wf.buffer = host.wf.buffer /\ host'.wf.expected = host.wf.expected
  /\ inbox' = inbox \/ inbox' = <<>>
  /\ dev'.log = dev.log /\ dev'.held = dev.held /\ dev'.next = dev.next
  /\ ~link'.cccd => inbox' = <<>>
  /\ ~link'.up => ~dev'.logging
  /\ ~link'.ahead
  /\ UNCHANGED <<sink, told>>

\* The host has heard that its subscription is open.
Opened(h) == [h EXCEPT !.sub = "on"]

\* What is known of the workflow, whether the operation runs or ends.
ResetKnown(w, kept, wiped, acked) ==
  /\ w \in ResetWf
  /\ w.result = Count => wiped
  /\ w.phase \in {"WritingReceipt", "DeletingResult", "Completed"} => kept
  /\ w.phase = "PersistingResult" /\ "SaveResult" \notin w.waits => kept
  /\ w.phase \in {"DeletingResult", "Completed"} => acked

\* An operation that ran is ending: what was submitted, and the last effects.
ResetCloses(g, h, kept, wiped, acked) ==
  /\ g.st = "ending" /\ ResetKnown(g.wf, kept, wiped, acked) /\ g.wf.result = h.wf.result
  /\ g.outcome \in {"done", "failed", "cancelled"}
  /\ g.outcome = "done" => g.wf.phase = "Completed"
  /\ \A r \in g.run : \/ r.mode # "clean" /\ \E q \in h.run : q.eff = r.eff
                      \/ r.eff \in {"Unsubscribe", "DeleteCheckpoint"}

\* What the device or the files have done when they say so.
ResetTrue(e, kept, wiped, acked) ==
  /\ e.type = "ResultSaved" => kept
  /\ e.of = "WriteReceipt" /\ e.type = "WriteCompleted" => acked
  /\ e.type = "Notification" => e.val \in Results2 /\ (e.val = Count => wiped)

\* The effect of the event is over, but for what a subscription tells.
ResetSettled(h, e) ==
  \A q \in h.run : Source(q.eff) = e.of => e.type \in {"Notification", "Disconnected"}

\* What was submitted is still there, and so is what the operation is for.
Keeping(g, h) ==
  /\ g.ask = h.ask /\ g.cmd = h.cmd /\ g.st \in {"running", "ending"}
  /\ \A q \in h.run : \E r \in g.run : r.eff = q.eff /\ (q.mode # "clean" => r.mode # "clean")

\* An effect of the kind x has left the host, perhaps, and no other.
Gone(g, h, x) ==
  /\ g.ask = h.ask /\ g.cmd = h.cmd /\ g.st \in {"running", "ending"}
  /\ \A q \in h.run : q.eff # x =>
        \E r \in g.run : r.eff = q.eff /\ (q.mode # "clean" => r.mode # "clean")

Later == Saved' /\ (host.ask => disk'.app = Count)

\* What a step leaves of everything but the host.
ResetWorld ==
  /\ Saved => Saved'
  /\ disk.app = Count => disk'.app = Count
  /\ dev.wiped => dev'.wiped
  /\ Acked => Acked'
  /\ ResetTold' /\ disk' \in DiskType /\ ~dev'.logging /\ dev'.next = 0
  /\ ~link'.cccd => inbox' = <<>>
  /\ UNCHANGED sink

ResetThere(h) == ResetHost(h, Saved', Later, dev'.wiped, Acked')

\* An effect of the kind x was executed.
ResetDone(x) ==
  /\ ResetWorld /\ UNCHANGED told
  /\ ResetThere(host') /\ Gone(host', host, x)
  /\ link'.ahead => link.ahead /\ x # "WriteOpcode"

\* What an answer of the handoff keeps, and what it decides by a status just read.
HandoffStep(w, of, r, none, alone) ==
  /\ r.wf \in HandoffWf
  /\ IF r.wf.phase \in {"Completed", "Failed"}
     THEN /\ r.out \cap HostEffects \subseteq {"Unsubscribe"}
          /\ r.wf.phase = "Completed" => /\ w.phase = "ReadingStatus"
                                         /\ r.wf.outcome \in {"direct", "fallback", "preserved"}
                                         /\ Decided(r.wf.outcome, none, alone)
     ELSE /\ HandoffWaits(r.wf)
          /\ HandoffWork(w) \ {of} \subseteq HandoffWork(r.wf)
          /\ r.out \cap HostEffects \subseteq HandoffWork(r.wf) \cup {"Unsubscribe"}

\* What an event says of the device is so.
HandoffTrue(e, none, alone) ==
  /\ e.type = "ReadCompleted" => /\ e.val.sync \in BOOLEAN /\ e.val.pending \in Nat /\ e.val.net \in BOOLEAN
                                 /\ (e.val.pending = 0) = none /\ (~e.val.sync) = alone
  /\ e.type = "Notification" => e.val \in HandoffNotes

HandoffReady(w, e, none, alone) ==
  /\ w \in HandoffWf /\ w.phase \notin {"Completed", "Failed"} /\ HandoffWaits(w)
  /\ Matches(e.of, e.type) /\ HandoffTrue(e, none, alone)

\* The handoff enters a phase: what it waits for there is submitted.
HandoffEnters(w, s, of, r, phase, eff) ==
  /\ s \in HandoffWf
  /\ phase \in HandoffPhases \ {"Completed", "Failed"} /\ eff \in HandoffEffects
  /\ r.wf.phase = phase /\ r.wf \in HandoffWf /\ r.wf.waits = s.waits \cup {eff}
  /\ r.out \cap HostEffects \subseteq {eff, "Unsubscribe"}
  /\ eff \in HandoffWork(r.wf) \/ eff \notin HostEffects
  /\ eff \in HandoffWork(r.wf) \/ (phase = "AwaitingTrigger" /\ eff = "TriggerTimer")
       \/ (phase = "WaitingToMonitor" /\ eff = "MonitorTimer")
  /\ HandoffWork(w) \ {of} = {}
  /\ s.waits \subseteq IF phase \in {"Subscribing", "Triggering", "AwaitingTrigger"} THEN {"Subscribe"} ELSE {}

\* What a step leaves of everything but the host: nothing is recorded any more,
\* and only a trigger starts the device.
HandoffWorld ==
  /\ dev.pending = 0 => dev'.pending = 0
  /\ (~dev.sync => ~dev'.sync) \/ \E r \in host.run : r.eff = "WriteTrigger"
  /\ inbox' \in Seq(HandoffNotes) /\ (~link'.cccd => inbox' = <<>>)
  /\ dev'.held = NoResult /\ dev'.next = 0 /\ ~dev'.logging
  /\ UNCHANGED <<sink, told>>

HandoffThere(h) == HandoffHost(h, dev'.pending = 0, ~dev'.sync)

HandoffFacts ==
  /\ HandoffHost(host, dev.pending = 0, ~dev.sync) /\ HostShape(host, "handoff")
  /\ host \in HostType /\ host.run \subseteq Submitted
  /\ AmbientType /\ dev \in DevType /\ link \in LinkType /\ used \in UsedType
  /\ sink = NoSink /\ dev.next = 0 /\ dev.held = NoResult /\ ~dev.logging
  /\ inbox \in Seq(HandoffNotes) /\ (~link.cccd => inbox = <<>>)
  /\ \A r \in host.run : r.eff \in HandoffEffs
  /\ host.run # {} => host.st \in {"running", "ending"}
  /\ host.st \in {"running", "ending"} => told = "none" /\ host.wf.kind = "handoff"

\* What an answer of the discovery keeps.
DiscoverStep(r) ==
  r.wf \in DiscoverWf /\ r.out \cap HostEffects \subseteq {"StartScan", "StopScan"}

\* What is left of everything but the host: nothing is sent to a scan.
DiscoverWorld ==
  /\ ~link'.cccd => inbox' = <<>>
  /\ ~link'.ahead /\ dev'.held = NoResult /\ dev'.next = 0 /\ ~dev'.logging
  /\ sink' = NoSink

\* What a packet of the recording is.
PacketIs(p, sealed) ==
  /\ p.type \in (IF sealed THEN {"sealed", "sealedData", "sealedEof"} ELSE {"data", "eof"}) \cup {"error"}
  /\ p.type \in {"data", "sealedData"} => p.seq \in 0 .. Units - 1 /\ p # EndOf(sealed)
  /\ p.type \in {"eof", "sealedEof"} => p = EndOf(sealed)

\* What a packet does: its data are taken, or were, and the end is not data.
Hears(w, p, u, sealed) ==
  /\ w.phase = "Transferring" /\ w.next = NoSequence /\ Reached(w) <= Reached(u)
  /\ IsData(p) => p.seq <= Reached(u)
  /\ \/ Reached(u) = Reached(w) /\ u.next = NoSequence
     \/ IsData(p) /\ Reached(u) = p.seq /\ u.next = p.seq
  /\ u.phase = "Finalizing" => p = EndOf(sealed)

\* What anything else does: the next packet may come, or there is none.
Unheard(w, e, u) ==
  \/ u.phase \in {"Acknowledging", "Confirming"}
  \/ u.phase = "Starting" /\ e.type = "Subscribed"
  \/ /\ u.phase = "Transferring" /\ Reached(u) = Reached(w) /\ u.next = NoSequence
     /\ \/ w.phase = "Starting" /\ e.type = "WriteCompleted"
        \/ w.phase = "Accepting" /\ e.type = "SinkAccepted"

\* What an answer of the stream keeps.
StreamStep(w, e, r, sealed, whole, deleted) ==
  /\ r.wf \in StreamWf
  /\ r.wf.phase \in {"Acknowledging", "Confirming", "Completed"} => whole
  /\ r.wf.phase = "Completed" => deleted /\ w.phase = "Confirming"
  /\ IF r.wf.phase \in {"Completed", "Failed"}
     THEN r.out \cap HostEffects \subseteq {"Unsubscribe", "Discard"}
     ELSE /\ StreamFlow(r.wf, sealed) /\ r.wf.phase # "Subscribing"
          /\ StreamWork(w) \subseteq {e.of} /\ r.out \subseteq StreamWork(r.wf)
          /\ e.type \notin {"Disconnected", "Failed", "SinkFailed"}
          /\ IF e.type = "Notification" THEN Hears(w, e.val, r.wf, sealed) ELSE Unheard(w, e, r.wf)
          /\ w.phase = "Finalizing" => e.type = "SinkFinalized"
          /\ (w.phase = "Subscribing") = (e.type = "Subscribed")

\* Before an answer: the workflow is under way, and what the event says is so.
StreamTrue(w, e, sealed, whole, deleted) ==
  /\ e.type = "SinkFinalized" => whole
  /\ e.of = "WriteConfirm" /\ e.type = "WriteCompleted" => deleted
  /\ e.type = "Notification" => e.val \in PacketsOf(sealed)

StreamReady(w, e, sealed, whole, deleted) ==
  /\ w \in StreamWf /\ StreamFlow(w, sealed)
  /\ w.phase \in {"Acknowledging", "Confirming"} => whole
  /\ Matches(e.of, e.type) /\ StreamTrue(w, e, sealed, whole, deleted)

\* A packet is taken: the sink has it first.
TakenBy(s, seq, effect, r) ==
  /\ r.wf \in StreamWf /\ r.wf.phase = "Accepting" /\ r.wf.waits = s.waits \cup {effect}
  /\ r.wf.next = seq /\ r.wf.last = s.last /\ r.wf.units = s.units
  /\ r.wf.header = s.header /\ r.wf.profile = s.profile
  /\ r.out = {effect} /\ ~r.rejected

\* The workflow between two packets.
Between(w, sealed) ==
  /\ w \in StreamWf /\ w.phase = "Transferring" /\ w.waits \subseteq {"Subscribe"}
  /\ w.last \in -1 .. Units - 1 /\ w.next = NoSequence
  /\ IF sealed THEN w.profile # "plain"
               ELSE w.profile # "sealed" /\ ~w.header /\ w.units = w.last + 1

\* The stream enters a phase: what it waits for there is submitted.
StreamEnters(w, s, e, r, phase, eff) ==
  /\ s \in StreamWf /\ s.waits \subseteq {"Subscribe"}
  /\ <<phase, eff>> \in {<<"Starting", "WriteStart">>, <<"Finalizing", "Finalize">>,
                         <<"Acknowledging", "WriteAck">>, <<"Confirming", "WriteConfirm">>}
  /\ r.wf = [s EXCEPT !.phase = phase, !.waits = @ \cup {eff}] /\ r.out = {eff}

\* The start is being executed.
HasStart(h) == \E r \in h.run : r.eff = "WriteStart" /\ r.mode # "clean"

\* What an event changes of a stream that goes on.
StreamMoved(g, h, e, sealed) ==
  g.st = "running" =>
    /\ h.st = "running" /\ e.type \notin {"Disconnected", "Failed", "SinkFailed"}
    /\ IF e.type = "Notification" THEN Hears(h.wf, e.val, g.wf, sealed) ELSE Unheard(h.wf, e, g.wf)
    /\ h.wf.phase = "Finalizing" => e.type = "SinkFinalized"

\* What a step leaves of everything but the host: a recording stays as it was, or
\* is deleted, what the service has stays, and only the start makes the device send.
StreamWorld ==
  /\ dev'.sealed = dev.sealed /\ (dev.deleted => dev'.deleted)
  /\ Whole => Whole' \/ Has(host, "WriteStart")
  /\ dev'.next = 0 \/ dev.next # 0 \/ HasStart(host)
  /\ dev'.next = -1 => dev.sealed
  /\ inbox' \in Seq(PacketsOf(dev.sealed)) /\ (~link'.cccd => inbox' = <<>>)
  /\ ~link.cccd => ~link'.cccd \/ host.run # {}
  /\ dev'.held = NoResult /\ ~dev'.logging /\ told' = told
  /\ sink' \in SinkType /\ svc' \in SvcType

StreamThere(h) == StreamHost(h, dev'.sealed, Whole', dev'.deleted, (dev.next = 0)')

StreamFacts ==
  /\ StreamHost(host, dev.sealed, Whole, dev.deleted, dev.next = 0) /\ HostShape(host, "stream")
  /\ host \in HostType /\ host.run \subseteq Submitted
  /\ AmbientType /\ dev \in DevType /\ link \in LinkType /\ used \in UsedType
  /\ dev.held = NoResult /\ ~dev.logging /\ dev.sealed \in BOOLEAN /\ (dev.next = -1 => dev.sealed)
  /\ inbox \in Seq(PacketsOf(dev.sealed)) /\ (~link.cccd => inbox = <<>>)
  /\ sink \in SinkType /\ svc \in SvcType /\ StartAhead
  /\ host.st = "running" => SinkHolds(sink, svc, host.wf, dev.sealed)
  /\ Intact => InOrder
  /\ \A r \in host.run : /\ r.eff \in StreamEffs
                         /\ r.mode = "live" => host.st = "running"
                         /\ r.mode # "live" => host.st = "ending"
                         /\ r.mode = "clean" => r.eff \in {"WriteAbort", "Discard", "Unsubscribe"}
                         /\ host.st = "running" => r.eff \in StreamWork(host.wf)
  /\ host.run # {} => host.st \in {"running", "ending"}
  /\ host.st \in {"running", "ending"} => host.wf.kind = "stream"
  /\ host.st = "running" => StreamRunning(host, dev.sealed)

\* What the host hears but packets, the end of the start and that of the sink's work.
StreamSame(g, h) ==
  g.st = "running" => /\ h.st = "running"
                      /\ \/ g.wf = h.wf
                         \/ /\ h.wf.phase # "Finalizing" /\ g.wf.phase \notin {"Transferring", "Accepting", "Finalizing"}
                            /\ g.wf.phase = "Starting" => ~link'.ahead

\* The packets stay, or are gone with the subscription.
PacketsKept ==
  /\ dev'.heard = dev.heard /\ dev'.next \in {dev.next, 0}
  /\ \/ inbox' = <<>> /\ ~link'.cccd
     \/ inbox' = inbox /\ link'.cccd = link.cccd

\* The device took a start and sends the recording from its first packet.
Renewed == inbox' = <<>> /\ dev'.heard = {} /\ dev'.next \in {-1, 1}

\* What a step of the sink leaves, and what only grows.
SinkWorld ==
  /\ UNCHANGED <<link, inbox, dev, told>>
  /\ svc.units \subseteq svc'.units /\ (svc.final => svc'.final)
  /\ sink' \in SinkType /\ svc' \in SvcType

\* What ends an operation, but a handoff, is one of four.
Plainly == {"none", "done", "failed", "cancelled"}

\* The write eff did what the step did to the result and to the recording.
MadeBy(eff) ==
  /\ dev'.held = NoResult /\ dev.held # NoResult => eff = "WriteReceipt"
  /\ dev'.deleted /\ ~dev.deleted => eff = "WriteConfirm"

=============================================================================
