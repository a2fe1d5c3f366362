--------------------------- MODULE StreamReducer ---------------------------
(***************************************************************************)
(* The live transfer of a recording, as pure operators: what               *)
(* StreamingTransferWorkflow (workflow/streaming_transfer.rs) answers to   *)
(* one host event.  Events, answers and w.waits are those of ResetReducer. *)
(* A packet is [type, seq]; each DATA packet carries one unit, so the units*)
(* accepted are counted in packets.  PAUSED only makes a notification, and *)
(* the digest of the packets is ignored: both are left out.                *)
(***************************************************************************)
EXTENDS Integers

CONSTANT SeqMod    \* sequence numbers are modulo this: 65536

ASSUME StreamReducerAssumption == SeqMod \in Nat \ {0}

NoSequence == -1

StreamPhases == { "Subscribing", "Starting", "Transferring", "Accepting", "Finalizing",
                  "Acknowledging", "Confirming", "Completed", "Failed" }

StreamEffects == { "Subscribe", "WriteStart", "AppendPlain", "BeginSealed", "AppendSealed",
                   "Finalize", "WriteAck", "WriteConfirm" }

Profiles == {"unknown", "plain", "sealed"}   \* encrypted: None, Some(false), Some(true)

LOCAL Step(w, out) == [wf |-> w, out |-> out, rejected |-> FALSE]
LOCAL Reject(w)    == [wf |-> w, out |-> {}, rejected |-> TRUE]
LOCAL Enter(w, phase, effect) ==
  Step([w EXCEPT !.phase = phase, !.waits = @ \cup {effect}], {effect})

LOCAL Unsubscribe(w) == IF "Subscribe" \in w.waits THEN {"Unsubscribe"} ELSE {}

\* fail: the sink is discarded and the device keeps the recording.
StreamFail(w) ==
  Step([w EXCEPT !.phase = "Failed", !.waits = @ \ {"Subscribe"}],
       Unsubscribe(w) \cup {"Discard"})

\* Mutant: the device is told to abort only between two packets.
StreamCancel_Transferring(w) ==
  (IF w.phase = "Transferring" THEN {"WriteAbort"} ELSE {}) \cup {"Discard"} \cup Unsubscribe(w)

\* cancel: the device is told to abort.
StreamCancel(w) == {"WriteAbort", "Discard"} \cup Unsubscribe(w)

StreamStart ==
  Step([ kind |-> "stream", phase |-> "Subscribing", waits |-> {"Subscribe"},
         last |-> NoSequence, next |-> NoSequence, units |-> 0, header |-> FALSE,
         profile |-> "unknown" ], {"Subscribe"})

-----------------------------------------------------------------------------
(* dispatch: a packet, in Transferring *)

\* accept: the sink takes the packet before another one is allowed.
TakePacket(w, seq, effect) == Enter([w EXCEPT !.next = seq], "Accepting", effect)

\* A sequence number seen before, by its value alone.
Stale(w, seq) == w.last # NoSequence /\ seq <= w.last

\* Mutant: a packet after a gap is accepted.
PlainData_Gap(w, seq) ==
  IF w.profile = "sealed" THEN StreamFail(w)
  ELSE IF Stale(w, seq) THEN Step(w, {})
  ELSE TakePacket([w EXCEPT !.profile = "plain"], seq, "AppendPlain")

PlainData(w, seq) ==
  IF w.profile = "sealed" THEN StreamFail(w)
  ELSE IF Stale(w, seq) THEN Step(w, {})
  ELSE IF seq # (w.last + 1) % SeqMod THEN StreamFail(w)
  ELSE TakePacket([w EXCEPT !.profile = "plain"], seq, "AppendPlain")

SealedHeader(w) ==
  IF w.profile = "plain" THEN StreamFail(w)
  ELSE IF w.header THEN Step([w EXCEPT !.profile = "sealed"], {})
  ELSE TakePacket([w EXCEPT !.profile = "sealed", !.header = TRUE], NoSequence, "BeginSealed")

\* No comparison with the sequence expected: a gap is the service's to find.
SealedData(w, seq) ==
  IF w.profile # "sealed" \/ ~w.header THEN StreamFail(w)
  ELSE IF Stale(w, seq) THEN Step(w, {})
  ELSE TakePacket(w, seq, "AppendSealed")

\* The sequence of a plaintext end is not compared with the last packet either.
EndOfData(w, profile) ==
  IF profile = "plain" /\ w.profile = "sealed" THEN StreamFail(w)
  ELSE IF profile = "sealed" /\ (w.profile # "sealed" \/ ~w.header) THEN StreamFail(w)
  ELSE Enter([w EXCEPT !.profile = profile], "Finalizing", "Finalize")

Packet(w, p) ==
  CASE p.type = "data"       -> PlainData(w, p.seq)
    [] p.type = "eof"        -> EndOfData(w, "plain")
    [] p.type = "sealed"     -> SealedHeader(w)
    [] p.type = "sealedData" -> SealedData(w, p.seq)
    [] p.type = "sealedEof"  -> EndOfData(w, "sealed")
    [] p.type = "error"      -> StreamFail(w)

-----------------------------------------------------------------------------
(* dispatch: the sink and the writes *)

\* StreamingSinkAccepted: the units must be those of the packet taken.
Accepted(w, received) ==
  LET units == w.units + (IF w.next = NoSequence THEN 0 ELSE 1)
  IN IF received # units THEN StreamFail(w)
     ELSE Step([w EXCEPT !.phase = "Transferring", !.units = units, !.next = NoSequence,
                         !.last = IF w.next = NoSequence THEN @ ELSE w.next], {})

Finalized(w, total) ==
  IF total # w.units THEN StreamFail(w) ELSE Enter(w, "Acknowledging", "WriteAck")

StreamAdvance(w, e) ==
  CASE w.phase = "Starting"   /\ e.type = "WriteCompleted" -> Step([w EXCEPT !.phase = "Transferring"], {})
    [] w.phase = "Accepting"  /\ e.type = "SinkAccepted"   -> Accepted(w, e.val)
    [] w.phase = "Finalizing" /\ e.type = "SinkFinalized"  -> Finalized(w, e.val)
    [] w.phase = "Acknowledging" /\ e.type = "WriteCompleted" -> Enter(w, "Confirming", "WriteConfirm")
    [] w.phase = "Confirming" /\ e.type = "WriteCompleted" ->
         Step([w EXCEPT !.phase = "Completed", !.waits = @ \ {"Subscribe"}], Unsubscribe(w))
    [] OTHER -> Reject(w)

StreamDispatch(w, e) ==
  LET s == [w EXCEPT !.waits = @ \ {e.of}]
  IN IF e.type = "Disconnected" THEN StreamFail(w)
     ELSE IF e.of \notin w.waits THEN Reject(w)
     ELSE CASE e.type = "Subscribed"   -> IF w.phase = "Subscribing" THEN Enter(w, "Starting", "WriteStart")
                                          ELSE Reject(w)
            [] e.type = "Notification" -> IF w.phase = "Transferring" THEN Packet(w, e.val) ELSE Reject(w)
            [] e.type \in {"Failed", "SinkFailed"} -> StreamFail(w)
            [] OTHER -> StreamAdvance(s, e)
=============================================================================
