-------------------------- MODULE RecordingReducer --------------------------
(***************************************************************************)
(* The batch recording transfer of the core, as pure operators: what       *)
(* RecordingTransferWorkflow (workflow/recording_transfer.rs) answers to   *)
(* one host event.  A handler takes the workflow record and returns        *)
(*    [wf       |-> the workflow after the event,                          *)
(*     out      |-> the kinds of the effects it requests,                  *)
(*     rejected |-> TRUE when dispatch returns Err: the effects gathered   *)
(*                  so far are lost, the mutations of wf are not].         *)
(* RecordingTransfer puts these handlers between a host and a device.      *)
(*                                                                         *)
(* Data is abstracted to units: one DATA payload is one unit, named by its *)
(* index in the recording, and the E2E header of a relayed recording is    *)
(* the unit Header.  A sequence number is the index modulo SeqMod (2^16 in *)
(* the code).                                                              *)
(***************************************************************************)
EXTENDS Integers, Sequences, FiniteSets, FiniteSetsExt

CONSTANTS
  N,                    \* DATA packets in the recording
  Relay,                \* the device streams E2E-encrypted packets
  ConfirmOnCompletion,  \* confirm_on_completion of the command
  SeqMod,               \* modulus of the packet sequence (u16)
  QueueCap,             \* MAX_PENDING_PACKETS
  BatchCap              \* MAX_APPEND_BATCH_BYTES, in units

ASSUME ReducerAssumption ==
  /\ N \in Nat \ {0}
  /\ Relay \in BOOLEAN /\ ConfirmOnCompletion \in BOOLEAN
  /\ SeqMod \in Nat \ {0}
  /\ QueueCap \in Nat \ {0}
  /\ BatchCap \in Nat \ {0}

None   == -1      \* last_sequence or pending_sequence is None
Header == -1      \* the unit of the E2E header
Hole   == -2      \* a unit of zeros, never sent by the device

Phases == { "LoadingCheckpoint", "TruncatingSink", "Subscribing", "Starting",
            "Transferring", "Appending", "Finalizing", "WaitingForSha",
            "Acknowledging", "Confirming", "Completed", "Failed" }

PlainTypes  == { "Data", "Eof" }
RelayTypes  == { "E2eStart", "EncryptedData", "EncryptedEof" }
SharedTypes == { "Sha256", "Error", "Malformed" }
PacketTypes == PlainTypes \cup RelayTypes \cup SharedTypes
Packets     == [t : PacketTypes, n : Int]
Seq16(p)    == p.n % SeqMod

EffectKinds == { "Load", "Truncate", "Append", "Finalize", "Discard", "Save",
                 "Delete", "Subscribe", "START", "ACK", "NACK", "ABORT", "CONFIRM" }

\* The whole recording as the sink should hold it.
Full == IF Relay THEN [i \in 1..(N + 1) |-> i - 2] ELSE [i \in 1..N |-> i - 1]

Workflows ==
  [ phase : Phases,
    completed : Nat,                      \* completed_units
    last : Int,                           \* last_sequence
    pendSeq : Int,                        \* pending_sequence
    pend : Seq(Int),                      \* the payload handed to the sink
    enc : {"unknown", "no", "yes"},       \* encrypted; "yes" iff e2e_header_received
    sha : BOOLEAN,                        \* sha256 is Some
    shaTimer : BOOLEAN,                   \* sha_grace_timer_scheduled
    shaElapsed : BOOLEAN,                 \* sha_grace_elapsed
    queue : Seq(Packets) ]                \* pending_packets

NewWorkflow ==
  [ phase |-> "LoadingCheckpoint", completed |-> 0, last |-> None,
    pendSeq |-> None, pend |-> <<>>, enc |-> "unknown", sha |-> FALSE,
    shaTimer |-> FALSE, shaElapsed |-> FALSE, queue |-> <<>> ]

Step(w, out) == [wf |-> w, out |-> out, rejected |-> FALSE]
Reject(w)    == [wf |-> w, out |-> {}, rejected |-> TRUE]

-----------------------------------------------------------------------------
(* Ends of the workflow. *)

\* fail keeps the sink and the checkpoint for a retry.
Fail(w, out) ==
  Step([w EXCEPT !.phase = "Failed", !.shaTimer = FALSE, !.queue = <<>>], out)

\* fail_integrity gives up the bytes received so far.
FailIntegrity(w) == Fail(w, {"NACK", "Discard", "Delete"})

Complete(w) == Step([w EXCEPT !.phase = "Completed", !.queue = <<>>], {"Delete"})

\* The effects of cancel.
CancelEffects == {"ABORT", "Discard", "Delete"}

-----------------------------------------------------------------------------
(* Before the stream: checkpoint, sink, subscription, START. *)

\* Mutant: the units resume without their sequence.
CheckpointLoaded_ForgetsLast(w, checkpoint) ==
  Step([w EXCEPT !.phase = "TruncatingSink", !.completed = checkpoint.units], {"Truncate"})

CheckpointLoaded(w, checkpoint) ==
  Step([w EXCEPT !.phase = "TruncatingSink",
                 !.completed = checkpoint.units,
                 !.last = checkpoint.last], {"Truncate"})

SinkTruncated(w) == Step([w EXCEPT !.phase = "Subscribing"], {"Subscribe"})

Subscribed(w) == Step([w EXCEPT !.phase = "Starting"], {"START"})

-----------------------------------------------------------------------------
(* Packets of the stream. *)

\* The sequence the next packet must carry.
Expected(w) == IF w.last = None THEN 0 ELSE (w.last + 1) % SeqMod

\* The packet repeats one that is already durable.
Stale(w, p) == w.last # None /\ Seq16(p) <= w.last

AppendUnits(w, sequence, units) ==
  Step([w EXCEPT !.phase = "Appending", !.pendSeq = sequence, !.pend = units], {"Append"})

\* append_legacy_batch: p and the queued DATA that continue it, as one append.
\* Top(j) is the sequence reached after the first j queued packets.
AppendBatch(w, p) ==
  LET q      == w.queue
      Top(j) == Max({Seq16(p)} \cup {Seq16(q[i]) : i \in 1..j})
      Joins(i) ==
        /\ q[i].t = "Data"
        /\ Seq16(q[i]) <= Top(i - 1) + 1
        /\ Seq16(q[i]) > Top(i - 1) => Top(i - 1) - Seq16(p) + 2 <= BatchCap
      taken == Max({j \in 0..Len(q) : \A i \in 1..j : Joins(i)})
      size  == Top(taken) - Seq16(p) + 1
  IN AppendUnits([w EXCEPT !.queue = SubSeq(q, taken + 1, Len(q))],
                 Top(taken), [i \in 1..size |-> p.n + i - 1])

AfterEofTypes == {"Sha256", "Eof", "EncryptedEof"}

\* finalize, then the rest of the queue as packets after EOF.  A packet that
\* may not follow EOF makes drain_packets return Err and drops the effects.
FinalizeSink(w) ==
  LET q   == w.queue
      odd == {i \in 1..Len(q) : q[i].t \notin AfterEofTypes}
      end == IF odd = {} THEN Len(q) ELSE Min(odd) - 1
      s   == [w EXCEPT !.phase = "Finalizing", !.shaTimer = TRUE, !.queue = <<>>,
                       !.sha = @ \/ \E i \in 1..end : q[i].t = "Sha256"]
  IN IF odd = {} THEN Step(s, {"Finalize"})
     ELSE IF q[end + 1].t = "Malformed" THEN Fail(s, {})
     ELSE Reject(s)

\* A packet that dispatch absorbs in phase Transferring without leaving it.
Quiet(w, p) ==
  \/ p.t = "Sha256"
  \/ p.t = "Data" /\ Stale(w, p)
  \/ p.t = "EncryptedData" /\ w.enc = "yes" /\ Stale(w, p)
  \/ p.t = "E2eStart" /\ (w.enc = "yes" \/ (w.enc = "unknown" /\ w.completed > 0))

\* The workflow after absorbing the first k packets of its queue.
Absorb(w, k) ==
  LET q == w.queue
      Has(t) == \E i \in 1..k : q[i].t = t
  IN [w EXCEPT !.sha = @ \/ Has("Sha256"),
               !.enc = IF Has("E2eStart") THEN "yes" ELSE @,
               !.queue = SubSeq(q, k + 1, Len(q))]

\* A packet that leaves phase Transferring.
TakePacket(w, p) ==
  CASE p.t = "Data" ->
         IF Seq16(p) # Expected(w) THEN FailIntegrity(w)
         ELSE IF w.enc = "yes" THEN Fail(w, {})
         ELSE AppendBatch([w EXCEPT !.enc = "no"], p)
    [] p.t = "Eof" ->
         IF w.enc = "yes" THEN Fail(w, {}) ELSE FinalizeSink([w EXCEPT !.enc = "no"])
    [] p.t = "E2eStart" ->
         IF w.enc = "no" THEN Fail(w, {})
         ELSE AppendUnits([w EXCEPT !.enc = "yes"], None, <<Header>>)
    [] p.t = "EncryptedData" ->
         IF w.enc # "yes" THEN Fail(w, {})
         ELSE IF Seq16(p) # Expected(w) THEN FailIntegrity(w)
         ELSE AppendUnits(w, Seq16(p), <<p.n>>)
    [] p.t = "EncryptedEof" -> IF w.enc # "yes" THEN Fail(w, {}) ELSE FinalizeSink(w)
    [] OTHER -> Fail(w, {})

\* drain_packets in phase Transferring: the queue up to and including the
\* first packet that leaves the phase.
Drain(w) ==
  LET q    == w.queue
      loud == {k \in 1..Len(q) : ~ Quiet(Absorb(w, k - 1), q[k])}
      k    == Min(loud)
  IN IF loud = {} THEN Step(Absorb(w, Len(q)), {})
     ELSE TakePacket([Absorb(w, k - 1) EXCEPT !.queue = SubSeq(q, k + 1, Len(q))], q[k])

StartWritten(w) == Drain([w EXCEPT !.phase = "Transferring"])

-----------------------------------------------------------------------------
(* Sink and acknowledgement. *)

Acknowledge(w) == Step([w EXCEPT !.phase = "Acknowledging", !.shaTimer = FALSE], {"ACK"})

\* The effects of the drain join the checkpoint of the units now durable.
AppendCompleted(w, durable) ==
  LET s == [w EXCEPT !.phase = "Transferring", !.completed = durable, !.pendSeq = None,
                     !.pend = <<>>, !.last = IF w.pendSeq = None THEN @ ELSE w.pendSeq]
      r == Drain(s)
  IN IF durable < w.completed + Len(w.pend) THEN Fail(w, {})
     ELSE IF r.rejected THEN r
     ELSE [r EXCEPT !.out = @ \cup {"Save"}]

\* Mutant: the grace timer that fired during the finalization is forgotten.
SinkFinalized_ForgetsTimer(w, durable) ==
  LET s == [w EXCEPT !.completed = durable]
  IN IF w.sha THEN Acknowledge(s) ELSE Step([s EXCEPT !.phase = "WaitingForSha"], {})

SinkFinalized(w, durable) ==
  LET s == [w EXCEPT !.completed = durable]
  IN IF w.sha \/ w.shaElapsed THEN Acknowledge(s)
     ELSE Step([s EXCEPT !.phase = "WaitingForSha"], {})

AckWritten(w) ==
  IF ConfirmOnCompletion THEN Step([w EXCEPT !.phase = "Confirming"], {"CONFIRM"})
  ELSE Complete(w)

ConfirmWritten(w) == Complete(w)

\* Mutant: the grace period ends the finalization as well.
TimerFired_EagerAck(w) == Acknowledge([w EXCEPT !.shaElapsed = TRUE])

TimerFired(w) ==
  LET s == [w EXCEPT !.shaTimer = FALSE, !.shaElapsed = TRUE]
  IN CASE w.phase = "WaitingForSha" -> Acknowledge(s)
       [] w.phase = "Finalizing"    -> Step(s, {})
       [] OTHER                     -> Reject(w)

-----------------------------------------------------------------------------
(* A notification of the transfer characteristic, in every phase. *)

AfterEof(w, p) ==
  CASE p.t = "Sha256" ->
         LET s == [w EXCEPT !.sha = TRUE]
         IN IF w.phase = "WaitingForSha" THEN Acknowledge(s) ELSE Step(s, {})
    [] p.t \in {"Eof", "EncryptedEof"} -> Step(w, {})
    [] p.t = "Malformed" -> Fail(w, {})
    [] OTHER -> Reject(w)

Enqueue(w, p) ==
  IF Len(w.queue) >= QueueCap THEN FailIntegrity(w)
  ELSE Step([w EXCEPT !.queue = Append(@, p)], {})

Notification(w, p) ==
  CASE w.phase \in {"Starting", "Appending"} -> Enqueue(w, p)
    [] w.phase = "Transferring" -> Drain([w EXCEPT !.queue = <<p>>])
    [] w.phase \in {"Finalizing", "WaitingForSha"} -> AfterEof(w, p)
    [] OTHER -> Reject(w)
=============================================================================
