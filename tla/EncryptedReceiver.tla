------------------------- MODULE EncryptedReceiver -------------------------
(***************************************************************************)
(* The receiver of the encrypted-upload-v2 transfer                        *)
(* (core/.../protocol/encrypted_upload_v2_receiver.rs) as operators on its *)
(* record: New, Start, Receive (a frame) and Apply (the result of an I/O   *)
(* request). Each yields the next record and the action asked of the host. *)
(*                                                                         *)
(* Offsets count packets: every DATA frame holds one unit of ciphertext.   *)
(* The revision of a boundary grows with its offset and digests agree when *)
(* offsets do, so the offset stands for the three of them. The manifest is *)
(* one chunk, a marker document several.                                   *)
(***************************************************************************)
EXTENDS Integers, FiniteSets, FiniteSetsExt

CONSTANTS Units,      \* packets of ciphertext in the recording
          Window,     \* maximum_window_packets
          MaxMissing, \* maximum_missing_sequences
          MaxAppend,  \* units of one AppendCiphertext (MAXIMUM_APPEND_BYTES)
          Chunks      \* chunks of a marker document

ASSUME ReceiverAssumption ==
    {Units, Window, MaxMissing, MaxAppend, Chunks} \subseteq Nat \ {0}

\* The fewest documents of a marked recording: the seal and a page.
MinMarkers == 2

NoFrame == [k |-> "none", seq |-> 0, last |-> 0, off |-> 0]
NoWindow == [frame |-> NoFrame, missing |-> {}, highest |-> 0, contig |-> 0]

New_Historic(ckpt, last, marked) ==
    [ckpt |-> ckpt, highest |-> last, packets |-> {}, staged |-> ckpt, pending |-> NoWindow,
     acked |-> NoFrame, ackedPackets |-> {}, manifest |-> FALSE, io |-> "none", next |-> 0,
     marked |-> marked, count |-> 0, documents |-> 0, slot |-> 0,
     prepared |-> FALSE, terminal |-> FALSE]

\* A receiver that resumes from the checkpoint `ckpt`, whose last packet had
\* the number `last`. Numbers begin anew with every attempt, and so do the
\* marker documents: how many there are, how many are kept, the chunks of the
\* open one.
New(ckpt, last, marked) ==
    [ckpt |-> ckpt, highest |-> 0, packets |-> {}, staged |-> ckpt, pending |-> NoWindow,
     acked |-> NoFrame, ackedPackets |-> {}, manifest |-> FALSE, io |-> "none", next |-> 0,
     marked |-> marked, count |-> 0, documents |-> 0, slot |-> 0,
     prepared |-> FALSE, terminal |-> FALSE]

Nothing == [k |-> "none", off |-> 0, flush |-> FALSE, missing |-> {}]
Yields(rx, action) == [rx |-> rx, action |-> action]
Silent(rx) == Yields(rx, Nothing)

\* finish_result: an error ends the receiver.
Refuse(rx, why) == Yields([rx EXCEPT !.terminal = TRUE, !.io = "none"], [Nothing EXCEPT !.k = why])

\* request: one I/O request at a time, with what its result is for.
Request(rx, purpose, action) == Yields([rx EXCEPT !.io = purpose], action)

Inspect(rx, purpose, prefix, flush) ==
    Request(rx, purpose, [Nothing EXCEPT !.k = "inspect", !.off = prefix, !.flush = flush])

Ack(rx, missing) == Yields(rx, [Nothing EXCEPT !.k = "control", !.missing = missing])

Start(rx) == Inspect(rx, "initialProof", rx.ckpt, FALSE)

-----------------------------------------------------------------------------
(* The I/O of a window *)

InspectWindow_Unflushed(rx) == Inspect(rx, "windowProof", rx.pending.contig, FALSE)
InspectWindow(rx) == Inspect(rx, "windowProof", rx.pending.contig, TRUE)

\* What is contiguous and not yet staged is appended, a bounded part at a time;
\* then the synchronized prefix is proved.
AdvanceWindow(rx) ==
    IF rx.pending.contig > rx.staged
    THEN LET next == Min({rx.pending.contig, rx.staged + MaxAppend}) IN
         Request([rx EXCEPT !.next = next], "windowAppend",
                 [Nothing EXCEPT !.k = "append", !.off = rx.staged])
    ELSE InspectWindow(rx)

\* A window that lacks packets is answered with what it lacks and stays
\* pending; a whole one asks for its checkpoint to be saved.
WindowProved(rx, length) ==
    IF length # rx.pending.contig THEN Refuse(rx, "integrity")
    ELSE IF rx.pending.missing # {} THEN Ack(rx, rx.pending.missing)
    ELSE Request(rx, "windowPersist", [Nothing EXCEPT !.k = "persist", !.off = rx.pending.frame.off])

\* Only the saved checkpoint advances the receiver.
WindowPersisted(rx) ==
    Ack([rx EXCEPT !.ckpt = rx.pending.frame.off, !.highest = rx.pending.frame.last,
                   !.acked = rx.pending.frame, !.ackedPackets = rx.packets,
                   !.packets = {}, !.pending = NoWindow], {})

\* apply, apply_inner: the result of the I/O request under way; `length` is
\* that of the sink.
Apply(rx, length) ==
    LET done == [rx EXCEPT !.io = "none"] IN
    CASE rx.io = "initialProof" ->
           IF length < rx.ckpt THEN Refuse(done, "integrity")
           ELSE IF length > rx.ckpt
           THEN Request(done, "initialTruncate", [Nothing EXCEPT !.k = "truncate", !.off = rx.ckpt])
           ELSE Silent([done EXCEPT !.prepared = TRUE])
      [] rx.io = "initialTruncate" -> Silent([done EXCEPT !.prepared = TRUE])
      [] rx.io = "windowAppend"    -> AdvanceWindow([done EXCEPT !.staged = rx.next])
      [] rx.io = "windowProof"     -> WindowProved(done, length)
      [] rx.io = "windowPersist"   -> WindowPersisted(done)
      [] rx.io = "markerPersist"   -> Silent([done EXCEPT !.documents = @ + 1, !.slot = 0])
      [] rx.io = "finalProof"      ->
           IF length # Units THEN Refuse(done, "integrity")
           ELSE Yields([done EXCEPT !.terminal = TRUE], [Nothing EXCEPT !.k = "complete"])

-----------------------------------------------------------------------------
(* Frames *)

Numbers(packets) == {p.seq : p \in packets}
Packet(f) == [seq |-> f.seq, off |-> f.off]

\* A packet of the acknowledged window or one already buffered is repeated.
Repeats(rx, f) == f.seq \in Numbers(rx.ackedPackets) \cup Numbers(rx.packets)

\* Within the window and the recording; of a window under repair only what is missing.
Admitted(rx, f) ==
    /\ f.off >= rx.ckpt /\ f.off < Units
    /\ f.seq \in rx.highest + 1 .. rx.highest + Window
    /\ ~rx.manifest
    /\ rx.pending # NoWindow => f.seq \in rx.pending.missing /\ f.off < rx.pending.frame.off
    /\ \A p \in rx.packets : p.off # f.off

ReceiveData(rx, f) ==
    IF Repeats(rx, f)
    THEN IF Packet(f) \in rx.ackedPackets \cup rx.packets THEN Silent(rx) ELSE Refuse(rx, "protocol")
    ELSE IF Admitted(rx, f) THEN Silent([rx EXCEPT !.packets = @ \cup {Packet(f)}])
    ELSE Refuse(rx, "protocol")

Follows_Strict(rx, f) ==
    /\ f.seq = rx.highest + 1 /\ f.last \in f.seq .. rx.highest + Window - 1
    /\ f.off \in rx.ckpt + 1 .. Units
    /\ ~rx.manifest
    /\ rx.pending \in {NoWindow, [rx.pending EXCEPT !.frame = f]}
    /\ \A p \in rx.packets : p.seq \in f.seq .. f.last /\ p.off < f.off

\* The boundary follows what is acknowledged and covers what is buffered.
Follows(rx, f) ==
    /\ f.seq = rx.highest + 1 /\ f.last \in f.seq .. rx.highest + Window
    /\ f.off \in rx.ckpt + 1 .. Units
    /\ ~rx.manifest
    /\ rx.pending \in {NoWindow, [rx.pending EXCEPT !.frame = f]}
    /\ \A p \in rx.packets : p.seq \in f.seq .. f.last /\ p.off < f.off

\* The contiguous prefix of the window, and what it lacks: no more than was
\* admitted. A boundary that was acknowledged is acknowledged again.
ReceiveWindow(rx, f) ==
    IF f = rx.acked THEN Ack(rx, {})
    ELSE LET missing == (f.seq .. f.last) \ Numbers(rx.packets)
             highest == IF missing = {} THEN f.last ELSE Min(missing) - 1
             contig == rx.ckpt + highest - rx.highest
         IN IF ~Follows(rx, f) THEN Refuse(rx, "protocol")
            ELSE IF Cardinality(missing) > MaxMissing THEN Refuse(rx, "missing")
            ELSE IF /\ \A p \in rx.packets : p.seq <= highest => p.off = rx.ckpt + p.seq - f.seq
                    /\ contig >= rx.staged
                    /\ missing = {} => contig = f.off
            THEN AdvanceWindow([rx EXCEPT !.pending = [frame |-> f, missing |-> missing,
                                                       highest |-> highest, contig |-> contig]])
            ELSE Refuse(rx, "protocol")

\* Between the last window and the manifest nothing is open.
Drained(rx) == rx.pending = NoWindow /\ rx.packets = {} /\ rx.ckpt = Units

ReceiveManifest(rx, f) ==
    IF Drained(rx) THEN Silent([rx EXCEPT !.manifest = TRUE]) ELSE Refuse(rx, "protocol")

\* MarkerSlot.push: a chunk beyond the next one of the open document means that
\* one was lost; an earlier one is repeated; the last one makes it whole, and a
\* whole document is kept before another is accepted.
Push(rx, f) ==
    IF f.seq > rx.slot THEN Refuse(rx, "markers")
    ELSE IF f.seq < rx.slot THEN Silent(rx)
    ELSE IF f.seq + 1 < Chunks THEN Silent([rx EXCEPT !.slot = f.seq + 1])
    ELSE Request([rx EXCEPT !.slot = Chunks], "markerPersist", [Nothing EXCEPT !.k = "marker", !.off = f.off])

\* The documents of a marked recording follow its manifest in their order; one
\* that is not the next one means that some chunk was lost.
ReceiveMarker(rx, f) ==
    IF ~rx.manifest THEN Refuse(rx, "manifest")
    ELSE IF ~rx.marked \/ ~Drained(rx) \/ f.last < MinMarkers \/ rx.count \notin {0, f.last}
    THEN Refuse(rx, "protocol")
    ELSE IF f.off # rx.documents THEN Refuse(rx, "markers")
    ELSE Push([rx EXCEPT !.count = f.last], f)

\* The number of documents was heard and all of them are kept.
MarkersWhole(rx) == rx.marked => rx.count # 0 /\ rx.documents = rx.count /\ rx.slot = 0

\* The end of the file: everything acknowledged, manifest and markers whole, the
\* number of the last packet that of this attempt (0 if it sent none).
ReceiveEof(rx, f) ==
    IF ~rx.manifest THEN Refuse(rx, "manifest")
    ELSE IF ~MarkersWhole(rx) THEN Refuse(rx, "markers")
    ELSE IF Drained(rx) /\ f.seq = rx.highest THEN Inspect(rx, "finalProof", Units, TRUE)
    ELSE Refuse(rx, "protocol")

\* receive, receive_inner. No frame is accepted while an I/O result is owed.
Receive(rx, f) ==
    CASE rx.terminal \/ rx.io # "none" \/ ~rx.prepared -> Yields(rx, [Nothing EXCEPT !.k = "protocol"])
      [] OTHER -> CASE f.k = "data"     -> ReceiveData(rx, f)
                    [] f.k = "end"      -> ReceiveWindow(rx, f)
                    [] f.k = "manifest" -> ReceiveManifest(rx, f)
                    [] f.k = "marker"   -> ReceiveMarker(rx, f)
                    [] f.k = "eof"      -> ReceiveEof(rx, f)
                    [] OTHER            -> Refuse(rx, "protocol")
=============================================================================
