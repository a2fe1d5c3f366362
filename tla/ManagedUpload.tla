--------------------------- MODULE ManagedUpload ---------------------------
(***************************************************************************)
(* The managed upload of one encrypted recording: the journal by which the *)
(* SDK creates a recording and an upload session with the service at most  *)
(* once, recovers a session that expired or whose device nonce changed,    *)
(* and forgets both only after the receipt reached the device              *)
(* (core/.../model/managed_upload.rs, driven by                            *)
(* frameworks/react-native/src/jsHost/uploadBackendV2.ts).                 *)
(*                                                                         *)
(* One recording and one lease on its journal: the slot's copy of the      *)
(* journal is the stored one. A session is named by its owner revision. An *)
(* await that changes nothing is part of the step after it.                *)
(***************************************************************************)
EXTENDS Integers, Sequences, FiniteSets

CONSTANTS MaxSessions,  \* upload sessions the service opens
          MaxNonces,    \* nonces the device goes through
          MaxExpired,   \* sessions that expire
          MaxFaults,    \* crashes, failed saves, answers lost or refused
          MaximumRecoveryHops,  \* recoveries within one operation (3 in the code)
          MaxCancels,   \* cancellations by the application
          LocalWifi     \* the transfer runs over the device's own Wi-Fi

ASSUME ManagedAssumption ==
    /\ MaxSessions \in Nat \ {0} /\ MaxNonces \in Nat \ {0} /\ LocalWifi \in BOOLEAN
    /\ MaximumRecoveryHops \in Nat /\ MaxExpired \in Nat /\ MaxFaults \in Nat /\ MaxCancels \in Nat

VARIABLES
    journal,  \* the stored record of the recording
    ckpt,     \* the session of the transfer's stored checkpoint, 0 for none
    slot,     \* the operation under way
    net,      \* its HTTP request
    stray,    \* requests whose caller is gone and that the service may still execute
    cloud,    \* the service
    dev,      \* the device
    left      \* what may still happen

vars == <<journal, ckpt, slot, net, stray, cloud, dev, left>>
outside == <<cloud, dev, left>>

NoJournal == [phase |-> "absent", rec |-> FALSE, ses |-> 0, auth |-> 0, recovery |-> 0, parents |-> {}]
NoSlot == [pc |-> "none", cancelled |-> FALSE, nonce |-> 0, hop |-> 0,
           upload |-> TRUE, manifest |-> TRUE, receipt |-> 0]
NoRequest == [k |-> "none", ses |-> 0, nonce |-> 0]
NoAnswer == [is |-> "none", ses |-> 0, state |-> "none"]
Idle == [req |-> NoRequest, ans |-> NoAnswer]

Goto(pc) == slot' = [slot EXCEPT !.pc = pc]

\* What was sent and not answered may still be executed.
Abandon ==
    /\ net' = Idle
    /\ stray' = IF net.req # NoRequest /\ net.ans = NoAnswer THEN stray \cup {net.req} ELSE stray

\* release: the slot and its lease are given back; the journal stays.
Release == slot' = NoSlot /\ Abandon

-----------------------------------------------------------------------------
(* The journal *)

\* SaveJournal: the nonce of an authorization stays with its session; the
\* owners that a recovery left behind are kept for a local transfer.
Record(rec, ses, phase, auth, recovery, recovered) ==
    [phase |-> phase, rec |-> rec, ses |-> ses,
     auth |-> IF auth = 0 /\ journal.ses = ses THEN journal.auth ELSE auth,
     recovery |-> recovery,
     parents |-> IF recovered
                 THEN IF LocalWifi THEN journal.parents \cup {journal.ses} ELSE journal.parents
                 ELSE IF <<journal.rec, journal.ses>> = <<rec, ses>> THEN journal.parents ELSE {}]

\* validate_journal: an authorization and a recovery belong to a session, a
\* recovery to a journal that is ready, and owners only ever grow.
ValidJournal(j) ==
    /\ j.auth # 0 => j.ses # 0
    /\ j.recovery # 0 => j.phase = "ready" /\ j.ses # 0
    /\ \A p \in j.parents : LocalWifi /\ p < j.ses

\* save: written and read back, under a signal of its own.
Save(record) == ValidJournal(record) /\ journal' = record

\* checkpoint_agrees: no checkpoint of an owner that the journal does not know.
CheckpointAgrees == ckpt <= journal.ses

\* LocalWifiRecovery: the checkpoint is of this owner or of one it recovered from.
LocalWifiRecovery == LocalWifi => ckpt \in {0, journal.ses} \cup journal.parents

\* Inspect: a creation whose outcome is unknown is never repeated.
MayResume == journal.phase = "ready" /\ CheckpointAgrees

\* RollbackRejectedCreate: of the creation that was rejected.
MayRollBack ==
    journal.phase = IF journal.rec THEN "session_create_unknown" ELSE "recording_create_unknown"

\* CompleteJournal: of the session whose receipt was delivered.
MayComplete(ses) == journal.phase = "ready" /\ journal.ses = ses

-----------------------------------------------------------------------------
(* prepare() up to the session *)

\* The application syncs a recording that the device lists.
Prepare ==
    /\ slot.pc = "none" /\ dev.holds
    /\ slot' = [NoSlot EXCEPT !.pc = "load"]
    /\ UNCHANGED <<journal, ckpt, net, stray, outside>>

\* The record is loaded and inspected; one that is unknown stays pending.
Inspect ==
    /\ slot.pc = "load" /\ ~slot.cancelled
    /\ IF journal.phase = "absent" THEN Goto("createRecording") /\ UNCHANGED <<net, stray>>
       ELSE IF MayResume THEN Goto("resave") /\ UNCHANGED <<net, stray>>
       ELSE Release
    /\ UNCHANGED <<journal, ckpt, outside>>

\* The journal is stored again as it was read, its recovery included.
Resave ==
    /\ slot.pc = "resave"
    /\ Save(Record(journal.rec, journal.ses, "ready", 0, journal.recovery, FALSE))
    /\ Goto(IF journal.ses = 0 THEN "nonce" ELSE "get")
    /\ UNCHANGED <<ckpt, net, stray, outside>>

BeforeRecording_Skips ==
    /\ slot.pc = "createRecording" /\ ~slot.cancelled
    /\ Goto("sendRecording")
    /\ UNCHANGED <<journal, ckpt, net, stray, outside>>

\* beforeDispatch: the journal says "unknown" before the request leaves.
BeforeRecording ==
    /\ slot.pc = "createRecording" /\ ~slot.cancelled
    /\ Save(Record(FALSE, 0, "recording_create_unknown", 0, 0, FALSE))
    /\ Goto("sendRecording")
    /\ UNCHANGED <<ckpt, net, stray, outside>>

\* http: checked once more, then dispatched.
Send(from, to, request) ==
    /\ slot.pc = from /\ ~slot.cancelled
    /\ net' = [Idle EXCEPT !.req = request]
    /\ Goto(to)
    /\ UNCHANGED <<journal, ckpt, stray, outside>>

Request(k) == [NoRequest EXCEPT !.k = k, !.ses = journal.ses]

SendRecording == Send("sendRecording", "waitRecording", Request("recording"))

\* A dispatched creation is drained: its answer is recorded although the
\* operation was cancelled meanwhile.
Answered(pc, is) == slot.pc = pc /\ net.ans.is = is

AcceptRecording ==
    /\ Answered("waitRecording", "ok")
    /\ Save(Record(TRUE, 0, "ready", 0, 0, FALSE))
    /\ net' = Idle /\ Goto("nonce")
    /\ UNCHANGED <<ckpt, stray, outside>>

\* The nonce of the device, read over Bluetooth.
ReadNonce ==
    /\ slot.pc = "nonce" /\ ~slot.cancelled
    /\ slot' = [slot EXCEPT !.pc = "createSession", !.nonce = dev.nonce]
    /\ UNCHANGED <<journal, ckpt, net, stray, outside>>

BeforeSession ==
    /\ slot.pc = "createSession" /\ ~slot.cancelled
    /\ Save(Record(journal.rec, 0, "session_create_unknown", 0, 0, FALSE))
    /\ Goto("sendSession")
    /\ UNCHANGED <<ckpt, net, stray, outside>>

SendSession == Send("sendSession", "waitSession", [Request("session") EXCEPT !.nonce = slot.nonce])

AcceptSession ==
    /\ Answered("waitSession", "ok")
    /\ Save(Record(journal.rec, net.ans.ses, "ready", slot.nonce, 0, FALSE))
    /\ net' = Idle /\ Goto("register")
    /\ UNCHANGED <<ckpt, stray, outside>>

Rollback_Always ==
    /\ slot.pc \in {"waitRecording", "waitSession"} /\ net.ans.is \in {"rejected", "lost"}
    /\ ~slot.cancelled
    /\ IF journal.rec THEN Save(Record(TRUE, 0, "ready", 0, 0, FALSE)) ELSE journal' = NoJournal
    /\ Release
    /\ UNCHANGED <<ckpt, outside>>

\* rollback: only an answer that proves that nothing was created (HTTP 401 or
\* 403) takes the "unknown" back.
Rollback ==
    /\ slot.pc \in {"waitRecording", "waitSession"} /\ net.ans.is = "rejected"
    /\ ~slot.cancelled /\ MayRollBack
    /\ IF journal.rec THEN Save(Record(TRUE, 0, "ready", 0, 0, FALSE)) ELSE journal' = NoJournal
    /\ Release
    /\ UNCHANGED <<ckpt, outside>>

-----------------------------------------------------------------------------
(* restore(): the session of an earlier operation *)

Get == Send("get", "waitGet", Request("get"))

Pre == {"staging", "staged"}

\* RestoreDecision. A recovery that was begun goes on with the nonce it was
\* begun with; otherwise a session that is not uploaded must still be for the
\* nonce of the device.
Selected == IF journal.recovery # 0 THEN journal.recovery ELSE dev.nonce
Changed == net.ans.state \in Pre /\ journal.auth # 0 /\ Selected # journal.auth
Recovers_NotExpired == journal.recovery # 0 \/ Changed
Recovers == journal.recovery # 0 \/ net.ans.state = "expired" \/ Changed

RestoreRecovers ==
    /\ Answered("waitGet", "ok") /\ ~slot.cancelled
    /\ Recovers /\ slot.hop < MaximumRecoveryHops
    /\ net' = Idle
    /\ slot' = [slot EXCEPT !.pc = "saveRecovery", !.nonce = Selected]
    /\ UNCHANGED <<journal, ckpt, stray, outside>>

\* ManagedUploadSession::actions: what is left to be uploaded.
Actions == [staging |-> [upload |-> TRUE, manifest |-> TRUE],
            staged |-> [upload |-> FALSE, manifest |-> TRUE],
            processing |-> [upload |-> FALSE, manifest |-> FALSE],
            published |-> [upload |-> FALSE, manifest |-> FALSE]]

RestoreKeeps ==
    /\ Answered("waitGet", "ok") /\ ~slot.cancelled
    /\ ~Recovers /\ net.ans.state \in DOMAIN Actions
    /\ net' = Idle
    /\ slot' = [slot EXCEPT !.pc = "register", !.upload = Actions[net.ans.state].upload,
                            !.manifest = Actions[net.ans.state].manifest]
    /\ UNCHANGED <<journal, ckpt, stray, outside>>

RestoreExpired ==
    /\ Answered("waitGet", "ok") /\ ~slot.cancelled
    /\ IF Recovers THEN slot.hop >= MaximumRecoveryHops
       ELSE net.ans.state \notin DOMAIN Actions
    /\ Release
    /\ UNCHANGED <<journal, ckpt, outside>>

\* The nonce is stored before the request that uses it.
SaveRecovery ==
    /\ slot.pc = "saveRecovery"
    /\ Save(Record(journal.rec, journal.ses, "ready", 0, slot.nonce, FALSE))
    /\ Goto("recover")
    /\ UNCHANGED <<ckpt, net, stray, outside>>

SendRecover == Send("recover", "waitRecover", [Request("recover") EXCEPT !.nonce = slot.nonce])

\* AcceptRecovery: the successor has a later owner.
Later == net.ans.ses > journal.ses

AcceptRecovery_Orphans ==
    /\ Answered("waitRecover", "ok") /\ Later
    /\ Save(Record(journal.rec, net.ans.ses, "ready", slot.nonce, 0, FALSE))
    /\ net' = Idle
    /\ slot' = [slot EXCEPT !.pc = "get", !.hop = @ + 1]
    /\ UNCHANGED <<ckpt, stray, outside>>

\* The successor takes the place of its parent and is examined in turn.
AcceptRecovery ==
    /\ Answered("waitRecover", "ok") /\ Later
    /\ Save(Record(journal.rec, net.ans.ses, "ready", slot.nonce, 0, TRUE))
    /\ net' = Idle
    /\ slot' = [slot EXCEPT !.pc = "get", !.hop = @ + 1]
    /\ UNCHANGED <<ckpt, stray, outside>>

\* retry: an answer that was lost is asked for again, up to three times. A
\* creation is not repeated.
Retried == [waitGet |-> "get", waitRecover |-> "recover", waitReconcile |-> "reconcile",
            waitManifest |-> "submit", waitStatus |-> "finalize"]

Retry ==
    /\ slot.pc \in DOMAIN Retried /\ net.ans.is = "lost" /\ ~slot.cancelled
    /\ net' = Idle /\ Goto(Retried[slot.pc])
    /\ UNCHANGED <<journal, ckpt, stray, outside>>

\* Any other answer, or one lost for good, ends the operation.
Refused ==
    /\ \/ net.ans.is \in {"refused", "lost"}
       \/ net.ans.is = "rejected" /\ (slot.cancelled \/ slot.pc \notin {"waitRecording", "waitSession"})
    /\ Release
    /\ UNCHANGED <<journal, ckpt, outside>>

-----------------------------------------------------------------------------
(* The material: what the transfer asks of the operation *)

Register ==
    /\ slot.pc = "register" /\ ~slot.cancelled
    /\ Goto("ready")
    /\ UNCHANGED <<journal, ckpt, net, stray, outside>>

\* The device takes an authorization for its own nonce, and one that it has
\* taken before. The transfer leaves checkpoints under the session.
Admits(ses) == dev.known = ses \/ cloud.sessions[ses].nonce = dev.nonce

Transfer ==
    /\ slot.pc = "ready" /\ ~slot.cancelled
    /\ IF LocalWifiRecovery /\ Admits(journal.ses)
       THEN /\ Goto("reconcile") /\ dev' = [dev EXCEPT !.auth = journal.ses, !.known = journal.ses]
            /\ ckpt' = journal.ses /\ UNCHANGED <<net, stray>>
       ELSE Release /\ UNCHANGED <<ckpt, dev>>
    /\ UNCHANGED <<journal, cloud, left>>

\* reconcileStaging: the manifest is offered first; the service says whether
\* it lacks the ciphertext.
Reconcile == slot.upload /\ Send("reconcile", "waitReconcile", Request("manifest"))

Reconciled ==
    /\ Answered("waitReconcile", "ok") /\ ~slot.cancelled
    /\ net' = Idle
    /\ slot' = [slot EXCEPT !.pc = "submit", !.upload = FALSE, !.manifest = FALSE]
    /\ UNCHANGED <<journal, ckpt, stray, outside>>

NothingToStage ==
    /\ slot.pc = "reconcile" /\ ~slot.upload /\ ~slot.cancelled
    /\ Goto("submit")
    /\ UNCHANGED <<journal, ckpt, net, stray, outside>>

StagingMissing ==
    /\ Answered("waitReconcile", "missing") /\ ~slot.cancelled
    /\ net' = Idle /\ Goto("stage")
    /\ UNCHANGED <<journal, ckpt, stray, outside>>

\* stageCiphertext: the target, then the file; neither is repeated.
StageCiphertext == Send("stage", "waitStage", Request("put"))

Staged ==
    /\ Answered("waitStage", "ok") /\ ~slot.cancelled
    /\ net' = Idle /\ Goto("submit")
    /\ UNCHANGED <<journal, ckpt, stray, outside>>

SubmitManifest ==
    IF slot.manifest THEN Send("submit", "waitManifest", Request("manifest"))
    ELSE /\ slot.pc = "submit" /\ ~slot.cancelled
         /\ Goto("finalize")
         /\ UNCHANGED <<journal, ckpt, net, stray, outside>>

ManifestTaken ==
    /\ Answered("waitManifest", "ok") /\ ~slot.cancelled
    /\ net' = Idle
    /\ slot' = [slot EXCEPT !.pc = "finalize", !.upload = FALSE, !.manifest = FALSE]
    /\ UNCHANGED <<journal, ckpt, stray, outside>>

\* Finalize: the receipt of a session that is published, or wait for it.
Decision == [staging |-> "wait", staged |-> "wait", processing |-> "wait", published |-> "receipt"]

\* finalize: polled until the session is published.
Poll == Send("finalize", "waitStatus", Request("get"))

Finalize ==
    /\ Answered("waitStatus", "ok") /\ ~slot.cancelled
    /\ IF net.ans.state \in DOMAIN Decision
       THEN /\ slot' = IF Decision[net.ans.state] = "wait" THEN [slot EXCEPT !.pc = "finalize"]
                       ELSE [slot EXCEPT !.pc = "confirm", !.receipt = journal.ses]
            /\ net' = Idle /\ UNCHANGED stray
       ELSE Release
    /\ UNCHANGED <<journal, ckpt, outside>>

\* The receipt and CONFIRM reach the device, the transfer deletes its checkpoint.
Confirm ==
    /\ slot.pc = "confirm" /\ ~slot.cancelled
    /\ IF dev.auth = slot.receipt
       THEN dev' = [dev EXCEPT !.holds = FALSE] /\ Goto("delivered") /\ ckpt' = 0 /\ UNCHANGED <<net, stray>>
       ELSE Release /\ UNCHANGED <<dev, ckpt>>
    /\ UNCHANGED <<journal, cloud, left>>

\* complete(): once the receipt is delivered, the journal goes.
Complete ==
    /\ slot.pc = "delivered" /\ ~slot.cancelled
    /\ MayComplete(slot.receipt)
    /\ journal' = NoJournal /\ Release
    /\ UNCHANGED <<ckpt, outside>>

-----------------------------------------------------------------------------
(* Cancellation and faults *)

Drained == {"waitRecording", "waitSession", "waitRecover"}

\* cancel(), dispose() and the end of the owner's signal.
Cancel ==
    /\ slot.pc # "none" /\ ~slot.cancelled /\ left.cancels > 0
    /\ slot' = [slot EXCEPT !.cancelled = TRUE]
    /\ left' = [left EXCEPT !.cancels = @ - 1]
    /\ UNCHANGED <<journal, ckpt, net, stray, cloud, dev>>

\* The next check of a cancelled operation ends it; saves that are under way
\* and requests that are drained come first.
GivesUp ==
    /\ slot.cancelled /\ slot.pc \notin Drained \cup {"resave", "saveRecovery"}
    /\ Release
    /\ UNCHANGED <<journal, ckpt, outside>>

Fault == left.faults > 0 /\ left' = [left EXCEPT !.faults = @ - 1]

Crash ==
    /\ Fault /\ slot.pc # "none"
    /\ Release
    /\ UNCHANGED <<journal, ckpt, cloud, dev>>

\* A save that fails, before it is written or when it is read back.
SaveFails ==
    /\ Fault
    /\ \/ UNCHANGED journal /\ slot.pc \in {"resave", "createRecording", "createSession",
                                            "saveRecovery", "delivered"}
       \/ UNCHANGED journal /\ slot.pc \in Drained /\ net.ans.is = "ok"
       \/ slot.pc = "saveRecovery" /\ journal' = [journal EXCEPT !.recovery = slot.nonce]
       \/ slot.pc = "delivered" /\ journal' = NoJournal
    /\ Release
    /\ UNCHANGED <<ckpt, cloud, dev>>

\* The device executes CONFIRM and its callback is lost.
ConfirmUncertain ==
    /\ Fault /\ slot.pc = "confirm" /\ dev.auth = slot.receipt
    /\ dev' = [dev EXCEPT !.holds = FALSE]
    /\ Release
    /\ UNCHANGED <<journal, ckpt, cloud>>

-----------------------------------------------------------------------------
(* The service and the device *)

Successors(ses, nonce) ==
    {s \in DOMAIN cloud.sessions : cloud.sessions[s].parent = ses /\ cloud.sessions[s].nonce = nonce}

StateOf(ses) == IF ses \in DOMAIN cloud.sessions THEN cloud.sessions[ses].state ELSE "none"

Opened(parent, nonce) == Append(cloud.sessions, [parent |-> parent, nonce |-> nonce, state |-> "staging"])

\* A recovery is idempotent by its nonce; it takes the session from its owner.
Recovered(r) ==
    LET taken == [s \in DOMAIN cloud.sessions |->
                    IF s = r.ses /\ cloud.sessions[s].state \in Pre \cup {"expired"}
                    THEN [cloud.sessions[s] EXCEPT !.state = "superseded"] ELSE cloud.sessions[s]]
    IN Append(taken, [parent |-> r.ses, nonce |-> r.nonce, state |-> "staging"])

MayOpen == Len(cloud.sessions) < MaxSessions

Effect(r) ==
    CASE r.k = "recording" -> [cloud EXCEPT !.recordings = @ + 1]
      [] r.k = "session"   -> [cloud EXCEPT !.sessions = Opened(0, r.nonce)]
      [] r.k = "recover" /\ Successors(r.ses, r.nonce) = {} -> [cloud EXCEPT !.sessions = Recovered(r)]
      [] r.k = "put" /\ StateOf(r.ses) = "staging"     -> [cloud EXCEPT !.sessions[r.ses].state = "staged"]
      [] r.k = "manifest" /\ StateOf(r.ses) = "staged" -> [cloud EXCEPT !.sessions[r.ses].state = "processing"]
      [] OTHER -> cloud

Opens(r) == r.k = "session" \/ (r.k = "recover" /\ Successors(r.ses, r.nonce) = {})

Answer(r) ==
    CASE Opens(r)        -> [is |-> "ok", ses |-> Len(cloud.sessions) + 1, state |-> "staging"]
      [] r.k = "recover" /\ ~Opens(r) -> [is |-> "ok", ses |-> CHOOSE s \in Successors(r.ses, r.nonce) : TRUE,
                                          state |-> "staging"]
      [] r.k \in {"recording", "get"} -> [is |-> "ok", ses |-> r.ses, state |-> StateOf(r.ses)]
      [] r.k = "manifest" /\ StateOf(r.ses) = "staging" -> [NoAnswer EXCEPT !.is = "missing"]
      [] r.k \in {"put", "manifest"} /\ StateOf(r.ses) \in {"superseded", "expired"}
                                                        -> [NoAnswer EXCEPT !.is = "refused"]
      [] OTHER -> [is |-> "ok", ses |-> r.ses, state |-> StateOf(r.ses)]

Waiting == net.req # NoRequest /\ net.ans = NoAnswer

Serve ==
    /\ Waiting /\ (Opens(net.req) => MayOpen)
    /\ cloud' = Effect(net.req) /\ net' = [net EXCEPT !.ans = Answer(net.req)]
    /\ UNCHANGED <<journal, ckpt, slot, stray, dev, left>>

\* Executed or not, the answer is lost; or the credentials are rejected.
ServeFails ==
    /\ Fault /\ Waiting
    /\ \/ /\ stray' = stray \cup {net.req}
          /\ net' = [net EXCEPT !.ans.is = "lost"]
       \/ net' = [net EXCEPT !.ans.is = "rejected"] /\ UNCHANGED stray
    /\ UNCHANGED <<journal, ckpt, slot, cloud, dev>>

ServeStray ==
    /\ \E r \in stray : /\ Opens(r) => MayOpen
                        /\ stray' = stray \ {r} /\ cloud' = Effect(r)
    /\ UNCHANGED <<journal, ckpt, slot, net, dev, left>>

Publish ==
    /\ \E s \in DOMAIN cloud.sessions :
        /\ cloud.sessions[s].state = "processing"
        /\ cloud' = [cloud EXCEPT !.sessions[s].state = "published"]
    /\ UNCHANGED <<journal, ckpt, slot, net, stray, dev, left>>

Expire ==
    /\ left.expired > 0 /\ left' = [left EXCEPT !.expired = @ - 1]
    /\ \E s \in DOMAIN cloud.sessions :
        /\ cloud.sessions[s].state \in Pre
        /\ cloud' = [cloud EXCEPT !.sessions[s].state = "expired"]
    /\ UNCHANGED <<journal, ckpt, slot, net, stray, dev>>

\* The device starts anew: another nonce, no authorization.
DeviceRestarts ==
    /\ dev.nonce < MaxNonces
    /\ dev' = [dev EXCEPT !.nonce = @ + 1, !.auth = 0]
    /\ UNCHANGED <<journal, ckpt, slot, net, stray, cloud, left>>

-----------------------------------------------------------------------------
Init ==
    /\ journal = NoJournal /\ ckpt = 0 /\ slot = NoSlot /\ net = Idle /\ stray = {}
    /\ cloud = [recordings |-> 0, sessions |-> <<>>]
    /\ dev = [nonce |-> 1, auth |-> 0, known |-> 0, holds |-> TRUE]
    /\ left = [faults |-> MaxFaults, cancels |-> MaxCancels, expired |-> MaxExpired]

Host == \/ Inspect \/ Resave \/ BeforeRecording \/ SendRecording \/ AcceptRecording \/ ReadNonce
        \/ BeforeSession \/ SendSession \/ AcceptSession \/ Rollback \/ Get \/ RestoreRecovers
        \/ RestoreKeeps \/ RestoreExpired \/ SaveRecovery \/ SendRecover \/ AcceptRecovery
        \/ Register \/ Transfer \/ Reconcile \/ Reconciled \/ NothingToStage \/ StagingMissing
        \/ StageCiphertext \/ Staged \/ SubmitManifest \/ ManifestTaken \/ Poll \/ Finalize
        \/ Confirm \/ Complete \/ GivesUp \/ Refused

Service == Serve \/ Publish

Next == \/ Host \/ Retry \/ Service \/ Prepare
        \/ Cancel \/ Crash \/ SaveFails \/ ConfirmUncertain \/ ServeFails \/ ServeStray
        \/ Expire \/ DeviceRestarts

Spec == Init /\ [][Next]_vars

\* The host runs, the service answers and publishes, the application tries again.
LiveSpec == Spec /\ WF_vars(Host) /\ WF_vars(Serve) /\ WF_vars(Publish) /\ WF_vars(Prepare)

-----------------------------------------------------------------------------
(* Properties *)

\* No creation is ever repeated, whatever is lost, cancelled or restarted: the
\* service holds one recording, one first session, one successor of each.
SingleCreate ==
    /\ cloud.recordings <= 1
    /\ \A s, t \in DOMAIN cloud.sessions :
          cloud.sessions[s].parent = cloud.sessions[t].parent => s = t

\* Nothing the service created is forgotten while the device has the recording:
\* the journal names it, says that it may exist, or holds the nonce that names it.
NothingForgotten ==
    dev.holds /\ cloud.recordings > 0 =>
        /\ (journal.rec \/ journal.phase = "recording_create_unknown")
        /\ \A s \in DOMAIN cloud.sessions :
              \/ s <= journal.ses \/ journal.phase = "session_create_unknown"
              \/ cloud.sessions[s].parent = journal.ses /\ cloud.sessions[s].nonce = journal.recovery

\* A checkpoint of a local transfer stays usable over every recovery of its session.
LocalResumable ==
    LocalWifi /\ dev.holds /\ journal.phase = "ready" => LocalWifiRecovery

\* A session that the journal names is uploaded and confirmed in the end, over
\* expiry, restarts of the device, crashes and cancellations.
Progresses == journal.phase = "ready" /\ journal.ses # 0 ~> ~dev.holds
=============================================================================
