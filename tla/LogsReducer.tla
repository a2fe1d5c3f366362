---------------------------- MODULE LogsReducer ----------------------------
(***************************************************************************)
(* The device log and the discovery of the core, as pure operators: what   *)
(* DeviceLogsWorkflow (workflow/device_logs.rs), with the decoder of its   *)
(* packets (protocol/logs.rs), and DiscoveryWorkflow                       *)
(* (workflow/discovery.rs) answer to one host event.  Events, answers and  *)
(* w.waits are those of ResetReducer.  A log packet is                     *)
(* [seq, dropped, line, end]: one fragment of a line, the last if end.     *)
(***************************************************************************)
EXTENDS Integers, Sequences

CONSTANT LogSeqMod    \* sequence numbers are modulo this: 65536

ASSUME LogsReducerAssumption == LogSeqMod \in Nat \ {0}

LogPhases       == {"Subscribing", "Starting", "Active", "Failed"}
LogEffects      == {"Subscribe", "WriteLogStart"}
DiscoverPhases  == {"Scanning", "Stopping", "Completed"}
DiscoverEffects == {"StartScan", "StopScan", "ScanTimer"}

LOCAL Step(w, out) == [wf |-> w, out |-> out, rejected |-> FALSE]
LOCAL Reject(w)    == [wf |-> w, out |-> {}, rejected |-> TRUE]
LOCAL Enter(w, phase, effect) ==
  Step([w EXCEPT !.phase = phase, !.waits = @ \cup {effect}], {effect})

-----------------------------------------------------------------------------
(* DeviceLogDecoder: expected is -1 before the first packet. *)

\* Mutant: a gap keeps the fragment before it.
Decode_KeepsFragment(w, p) ==
  LET buffer == Append(IF p.dropped THEN <<>> ELSE w.buffer, p.line)
      s == [w EXCEPT !.expected = (p.seq + 1) % LogSeqMod]
  IN IF p.end THEN [s EXCEPT !.buffer = <<>>, !.lines = @ \cup {buffer}]
     ELSE [s EXCEPT !.buffer = buffer]

\* push: a gap, or the flag of the device, drops the fragment of a line.
Decode(w, p) ==
  LET gap    == w.expected # -1 /\ p.seq # w.expected
      buffer == Append(IF gap \/ p.dropped THEN <<>> ELSE w.buffer, p.line)
      s == [w EXCEPT !.expected = (p.seq + 1) % LogSeqMod]
  IN IF p.end THEN [s EXCEPT !.buffer = <<>>, !.lines = @ \cup {buffer}]
     ELSE [s EXCEPT !.buffer = buffer]

-----------------------------------------------------------------------------
(* The device log *)

LogStart ==
  Step([ kind |-> "logs", phase |-> "Subscribing", waits |-> {"Subscribe"}, expected |-> -1,
         buffer |-> <<>>, lines |-> {} ], {"Subscribe"})

\* cleanup.
LogCleanup(w, stop) ==
  (IF stop THEN {"WriteLogStop"} ELSE {})
  \cup (IF "Subscribe" \in w.waits THEN {"Unsubscribe"} ELSE {})

LogFail(w, stop) ==
  Step([w EXCEPT !.phase = "Failed", !.waits = {}, !.buffer = <<>>, !.expected = -1],
       LogCleanup(w, stop))

LogCancel(w) == LogCleanup(w, w.phase \in {"Starting", "Active"})

LogDispatch(w, e) ==
  LET s == [w EXCEPT !.waits = @ \ {e.of}]
  IN IF e.type = "Disconnected" THEN LogFail(w, FALSE)
     ELSE IF e.of \notin w.waits THEN Reject(w)
     ELSE CASE e.type = "Subscribed"   -> IF w.phase = "Subscribing" THEN Enter(w, "Starting", "WriteLogStart")
                                          ELSE Reject(w)
            [] e.type = "Notification" -> IF w.phase \in {"Starting", "Active"} THEN Step(Decode(w, e.val), {})
                                          ELSE Reject(w)
            [] e.type = "WriteCompleted" -> Step([s EXCEPT !.phase = "Active"], {})
            [] e.type = "Failed" -> LogFail(w, e.of = "Subscribe" /\ w.phase = "Active")
            [] OTHER -> Reject(w)

-----------------------------------------------------------------------------
(* Discovery *)

DiscoverStart ==
  Step([kind |-> "discover", phase |-> "Scanning", waits |-> {"StartScan", "ScanTimer"}],
       {"StartScan", "ScanTimer"})

DiscoverDispatch(w, e) ==
  CASE w.phase = "Scanning" /\ e.type = "ScanResult" -> Step(w, {})
    [] w.phase = "Scanning" /\ e.type = "TimerFired" -> Enter(w, "Stopping", "StopScan")
    [] w.phase = "Stopping" /\ e.of = "StopScan" /\ e.type = "ScanStopped" ->
         Step([w EXCEPT !.phase = "Completed"], {})
    [] OTHER -> Reject(w)

DiscoverCancel(w) ==
  {"CancelScanTimer"} \cup (IF w.phase = "Scanning" THEN {"StopScan"} ELSE {})
=============================================================================
