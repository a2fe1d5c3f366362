------------------------- MODULE ConnectionReducer -------------------------
(***************************************************************************)
(* The connection of the core, as pure operators: what ConnectionWorkflow  *)
(* (workflow/connection.rs) answers to one host event.  A handler takes    *)
(* the workflow record and returns                                         *)
(*    [wf       |-> the workflow after the event,                          *)
(*     out      |-> the effects it requests, each a kind and a peripheral, *)
(*     rejected |-> TRUE when dispatch returns Err].                       *)
(* Connection puts these handlers between a host and the radio.            *)
(*                                                                         *)
(* A peripheral is a number, and a smaller number has a stronger signal.   *)
(* The request identifiers the workflow waits for are the kinds in wf.waits*)
(* (of the effects on wf.active): a peripheral is tried once in a workflow,*)
(* so a kind and a peripheral name one request.                            *)
(***************************************************************************)
EXTENDS Integers, FiniteSets

CONSTANTS
  Peripherals,   \* the peripherals that may be in range
  Named,         \* those whose advertised name passes the filter of the hint
  Serials,       \* serial numbers
  AnySerial      \* in the place of one that is not known yet

ASSUME ConnectionReducerAssumption ==
  /\ Peripherals \subseteq Nat \ {0}
  /\ Named \subseteq Peripherals
  /\ AnySerial \notin Serials

Nobody == 0   \* no peripheral

Modes  == {"manual", "reconnect"}
Phases == { "Scanning", "StoppingScan", "Connecting", "Discovering", "ReadingSerial",
            "Disconnecting", "Persisting", "Completed", "Failed" }

Awaited     == {"scan", "stop", "connect", "timer", "discover", "read", "disconnect", "persist"}
EffectKinds == { "StartScan", "StopScan", "Connect", "Discover", "Read", "Disconnect",
                 "Save", "Checkpoint", "Delete", "Release" }
Effects     == EffectKinds \X (Peripherals \cup {Nobody})

Workflows ==
  [ mode : Modes,
    device : Serials \cup {AnySerial},
    hint : SUBSET Peripherals,              \* those is_exact_candidate accepts
    phase : Phases,
    found : SUBSET Peripherals,             \* discovered
    probes : SUBSET Peripherals,            \* probe_candidates, strongest first
    index : Nat,                            \* candidate_index
    tried : SUBSET Peripherals,             \* attempted_peripheral_ids
    active : Peripherals \cup {Nobody},     \* active_candidate
    outcome : {"none", "probe", "fail"},    \* disconnect_outcome
    waits : SUBSET Awaited ]                \* the request ids that are Some

Step(w, out) == [wf |-> w, out |-> out, rejected |-> FALSE]
Reject(w)    == [wf |-> w, out |-> {}, rejected |-> TRUE]

\* push_checkpoint: nothing to save for a device that is not known.
Checkpoint(w) == IF w.device = AnySerial THEN {} ELSE {<<"Checkpoint", Nobody>>}

-----------------------------------------------------------------------------
(* Moves between the phases. *)

\* Timers are the host's mirror of waits: "scan" and "timer" are armed while
\* the workflow waits for them.
Fail(w) == Step([w EXCEPT !.phase = "Failed", !.waits = @ \ {"timer"}], {})

BeginScan(w) ==
  Step([w EXCEPT !.phase = "Scanning", !.waits = {"scan"}],
       {<<"StartScan", Nobody>>} \cup Checkpoint(w))

StopScan(w) ==
  Step([w EXCEPT !.phase = "StoppingScan", !.waits = {"scan", "stop"}],
       {<<"StopScan", Nobody>>} \cup Checkpoint(w))

\* Mutant: the attempt has no deadline.
BeginConnection_NoTimer(w, p) ==
  Step([w EXCEPT !.phase = "Connecting", !.tried = @ \cup {p}, !.active = p,
                 !.waits = (@ \ {"discover", "read", "disconnect", "persist"})
                           \cup {"connect"}],
       {<<"Connect", p>>} \cup Checkpoint(w))

BeginConnection(w, p) ==
  Step([w EXCEPT !.phase = "Connecting", !.tried = @ \cup {p}, !.active = p,
                 !.waits = (@ \ {"discover", "read", "disconnect", "persist"})
                           \cup {"connect", "timer"}],
       {<<"Connect", p>>} \cup Checkpoint(w))

BeginPersist(w) ==
  Step([w EXCEPT !.phase = "Persisting", !.waits = (@ \ {"timer"}) \cup {"persist"}],
       {<<"Save", w.active>>} \cup Checkpoint(w))

BeginDisconnect(w) ==
  Step([w EXCEPT !.phase = "Disconnecting",
                 !.outcome = IF w.mode = "manual" THEN "fail" ELSE "probe",
                 !.waits = (@ \ {"timer"}) \cup {"disconnect"}],
       {<<"Disconnect", w.active>>} \cup Checkpoint(w))

PrepareProbeCandidates(w) ==
  [w EXCEPT !.probes = ((w.found \cap Named) \ {w.active}) \ w.tried, !.index = 0]

\* probe_candidates.get(i), as a set of at most one.
Probe(w, i) == {p \in w.probes : Cardinality({q \in w.probes : q < p}) = i}

\* Mutant: the candidate after the next one.
BeginNextProbe_Skips(w) ==
  IF Probe(w, w.index + 1) = {} THEN Fail(w)
  ELSE BeginConnection(w, CHOOSE p \in Probe(w, w.index + 1) : TRUE)

BeginNextProbe(w) ==
  IF Probe(w, w.index) = {} THEN Fail(w)
  ELSE BeginConnection(w, CHOOSE p \in Probe(w, w.index) : TRUE)

FinishDisconnect(w) ==
  LET s == [w EXCEPT !.outcome = "none", !.waits = @ \ {"disconnect"}]
  IN IF w.outcome = "fail" THEN Fail(s)
     ELSE IF w.probes = {} THEN BeginNextProbe(PrepareProbeCandidates(s))
     ELSE BeginNextProbe([s EXCEPT !.index = @ + 1])

-----------------------------------------------------------------------------
(* The commands. *)

Base(mode, device, hint, active) ==
  [ mode |-> mode, device |-> device, hint |-> hint, phase |-> "Scanning", found |-> {},
    probes |-> {}, index |-> 0, tried |-> {}, active |-> active, outcome |-> "none",
    waits |-> {} ]

\* manual, or selected when the device is AnySerial.
StartManual(device, p) ==
  LET w == Base("manual", device, {}, p) IN BeginConnection(w, p)

StartReconnect(device, hint) == BeginScan(Base("reconnect", device, hint, Nobody))

\* The effects of cancel.
CancelEffects(w) ==
  (IF w.phase = "Scanning" THEN {<<"StopScan", Nobody>>} ELSE {})
  \cup (IF w.active # Nobody THEN {<<"Release", w.active>>} ELSE {})

-----------------------------------------------------------------------------
(* dispatch: the scan. *)

ScanResult(w, p) ==
  CASE w.phase = "Scanning" ->
         LET s == [w EXCEPT !.found = @ \cup {p}]
         IN IF p \in w.hint THEN StopScan([s EXCEPT !.active = p]) ELSE Step(s, {})
    [] w.phase = "StoppingScan" -> Step(w, {})
    [] OTHER -> Reject(w)

\* A deadline that fires late is consumed in StoppingScan, without effect.
ScanTimerFired(w) == IF w.phase = "Scanning" THEN StopScan(w) ELSE Step(w, {})

ScanStopped(w) ==
  LET s == [w EXCEPT !.waits = @ \ {"scan", "stop"}]
  IN IF w.phase # "StoppingScan" \/ "stop" \notin w.waits THEN Reject(w)
     ELSE IF w.active # Nobody THEN BeginConnection(s, w.active)
     ELSE BeginNextProbe(PrepareProbeCandidates(s))

-----------------------------------------------------------------------------
(* dispatch: an attempt on a candidate.  Results of an attempt that was given  *)
(* up are consumed while its Disconnect is under way.                          *)

Expects(w, kind, p) == kind \in w.waits /\ w.active = p

Connected(w, p) ==
  LET s == [w EXCEPT !.waits = @ \ {"connect"}]
  IN IF ~ Expects(w, "connect", p) THEN Reject(w)
     ELSE IF w.phase = "Connecting"
          THEN Step([s EXCEPT !.phase = "Discovering", !.waits = @ \cup {"discover"}],
                    {<<"Discover", p>>} \cup Checkpoint(w))
     ELSE IF w.phase = "Disconnecting" THEN Step(s, {})
     ELSE Reject(w)

ServicesDiscovered(w, p) ==
  LET s == [w EXCEPT !.waits = @ \ {"discover"}]
  IN IF ~ Expects(w, "discover", p) THEN Reject(w)
     ELSE IF w.phase = "Discovering"
          THEN Step([s EXCEPT !.phase = "ReadingSerial", !.waits = @ \cup {"read"}],
                    {<<"Read", p>>})
     ELSE IF w.phase = "Disconnecting" THEN Step(s, {})
     ELSE Reject(w)

\* Mutant: a late answer verifies the identity although its attempt is over.
ReadCompleted_Late(w, p, serial) ==
  LET s == [w EXCEPT !.waits = @ \ {"read"}]
  IN IF ~ Expects(w, "read", p) THEN Reject(w)
     ELSE IF serial \in Serials /\ w.device \in {AnySerial, serial}
          THEN BeginPersist([s EXCEPT !.device = serial])
     ELSE BeginDisconnect(s)

\* Mutant: any well-formed serial number is accepted.
ReadCompleted_AnyDevice(w, p, serial) ==
  LET s == [w EXCEPT !.waits = @ \ {"read"}]
  IN IF ~ Expects(w, "read", p) THEN Reject(w)
     ELSE IF w.phase = "Disconnecting" THEN Step(s, {})
     ELSE IF serial \in Serials THEN BeginPersist([s EXCEPT !.device = serial])
     ELSE BeginDisconnect(s)

\* A serial number outside Serials is one parse_serial refuses.
ReadCompleted(w, p, serial) ==
  LET s == [w EXCEPT !.waits = @ \ {"read"}]
  IN IF ~ Expects(w, "read", p) THEN Reject(w)
     ELSE IF w.phase = "Disconnecting" THEN Step(s, {})
     ELSE IF w.phase # "ReadingSerial" THEN Reject(w)
     ELSE IF serial \in Serials /\ w.device \in {AnySerial, serial}
          THEN BeginPersist([s EXCEPT !.device = serial])
     ELSE BeginDisconnect(s)

Disconnected(w, p) ==
  IF w.phase = "Disconnecting" /\ Expects(w, "disconnect", p) THEN FinishDisconnect(w)
  ELSE Reject(w)

IdentitySaved(w) ==
  IF w.phase = "Persisting" /\ "persist" \in w.waits
  THEN Step([w EXCEPT !.phase = "Completed", !.waits = @ \ {"persist"}],
            {<<"Delete", Nobody>>})
  ELSE Reject(w)

AttemptTimerFired(w) == IF "timer" \in w.waits THEN BeginDisconnect(w) ELSE Reject(w)

-----------------------------------------------------------------------------
(* dispatch: failures.  A connection that failed is not disconnected, a        *)
(* disconnection that failed is taken for done, and no arm expects a failure   *)
(* of the scan or of persistence.                                              *)

ConnectFailed(w, p) ==
  LET s == [w EXCEPT !.waits = @ \ {"connect"}]
  IN IF ~ Expects(w, "connect", p) THEN Reject(w)
     ELSE IF w.phase = "Disconnecting" THEN Step(s, {})
     ELSE IF w.mode = "reconnect"
          THEN BeginNextProbe(PrepareProbeCandidates([s EXCEPT !.waits = @ \ {"timer"}]))
     ELSE Fail(s)

\* Of DiscoverServices or of the read of the serial number.
AttemptFailed(w, kind, p) ==
  IF ~ Expects(w, kind, p) THEN Reject(w)
  ELSE IF w.phase = "Disconnecting" THEN Step([w EXCEPT !.waits = @ \ {kind}], {})
  ELSE BeginDisconnect([w EXCEPT !.waits = @ \ {"discover", "read"}])

DisconnectFailed(w, p) ==
  IF Expects(w, "disconnect", p) THEN FinishDisconnect(w) ELSE Reject(w)

\* Of the scan, of StopScan, or of persistence.
UnexpectedFailure(w) == Reject(w)
=============================================================================
