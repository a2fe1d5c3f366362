--------------------------- MODULE WebRecordings ---------------------------
(***************************************************************************)
(* Recordings in the browser (frameworks/web/src/recordingManager.ts) with *)
(* the journal in IndexedDB and the staged body in OPFS: the operations    *)
(* sync, resume, confirm and cancel of plain recordings, over reloads of   *)
(* the page, failures of the storage, the service and the link.            *)
(*                                                                         *)
(* One recording of the connected device, operations that all transfer it. *)
(* One action is the code of a call between two of its awaits. What the    *)
(* runtime does for an owner is module WebRuntime; here it is a lock that  *)
(* fails whoever finds it taken.                                           *)
(***************************************************************************)
EXTENDS Integers, FiniteSets

CONSTANTS Ops,          \* operation identifiers
          Units,        \* units of the recording
          MaxFaults,    \* crashes, losses of the link, failures of an await
          MaxAborts,    \* cancellations by the application
          StaleCancel   \* may a call start while a cancellation of it deletes?

ASSUME RecordingsAssumption ==
    /\ Ops \subseteq Nat \ {0} /\ Units \in Nat \ {0}
    /\ MaxFaults \in Nat /\ MaxAborts \in Nat /\ StaleCancel \in BOOLEAN

VARIABLES
    journal,   \* IndexedDB: the phase of each recording journal
    blob,      \* OPFS: units in the staged body of each operation
    call,      \* activeOperations: the call of each operation
    idle,      \* a cancel() of an operation that is not active
    runtime,   \* runtime.activeOwner (0: null) and the verified connection
    device,    \* the device still holds the recording
    cloud,     \* what the service received and completed, per operation
    left,      \* faults and aborts that may still happen
    closed

durable == <<journal, blob>>
vars == <<journal, blob, call, idle, runtime, device, cloud, left, closed>>

Phases == <<"prepared", "transferring", "staged", "uploading", "cloud_completed", "confirmed">>
Rank(p) == CHOOSE i \in DOMAIN Phases : Phases[i] = p
Unverified == {"prepared", "transferring"}
NoCall == [pc |-> "idle", api |-> "none", held |-> "absent", aborted |-> FALSE,
           lost |-> FALSE, then |-> "none", got |-> 0]

-----------------------------------------------------------------------------
(* How a call moves, fails and settles *)

Goto(o, pc) == [call EXCEPT ![o].pc = pc]

\* The bodies of runExclusive and the workflow hold the runtime until they end.
Holding == {"verifying", "listing", "running", "owning", "confirm"}

Settle(o, outcome) == [call EXCEPT ![o] = [NoCall EXCEPT !.then = outcome]]

Release(o) == [runtime EXCEPT !.owner = IF @ = o THEN 0 ELSE @]

\* The handlers that delete what is not verified when the call was cancelled:
\* all of resume, sync once its journal is prepared, none in confirm.
CleansUp(o) == \/ call[o].api = "resume"
               \/ call[o].api = "sync"
                    /\ call[o].pc \notin {"load", "verify", "verifying", "authorize"}

Fail(o, error) ==
    /\ runtime' = Release(o)
    /\ call' = IF error # "error" /\ CleansUp(o)
               THEN [call EXCEPT ![o].pc = "reload",
                                 ![o].then = IF error = "cancelled" THEN error ELSE "error"]
               ELSE Settle(o, IF error = "cancelled" THEN error ELSE "error")

\* throwIfAborted.
Checked(o, pc) == IF call[o].aborted THEN Fail(o, "cancelled")
                  ELSE call' = Goto(o, pc) /\ UNCHANGED runtime

Fault == left.faults > 0 /\ left' = [left EXCEPT !.faults = @ - 1]

-----------------------------------------------------------------------------
(* The store *)

\* saveRecordingJournal: a first save is a preparation, a later one stays in
\* its phase or enters the next; an upload the service does not know restarts.
Accepts(old, new) ==
    IF old = "absent" THEN new = "prepared"
    ELSE \/ Rank(new) \in {Rank(old), Rank(old) + 1}
         \/ old = "uploading" /\ new = "staged"

\* saveJournal and what follows it: the abort is looked at when the code does.
Save(o, at, phase, pc, checked) ==
    /\ call[o].pc = at
    /\ IF Accepts(journal[o], phase)
       THEN /\ journal' = [journal EXCEPT ![o] = phase]
            /\ IF checked /\ call[o].aborted THEN Fail(o, "cancelled")
               ELSE call' = [call EXCEPT ![o].pc = pc, ![o].held = phase] /\ UNCHANGED runtime
       ELSE Fail(o, "error") /\ UNCHANGED journal
    /\ UNCHANGED <<blob, idle, device, cloud, left, closed>>

-----------------------------------------------------------------------------
(* The application *)

Begin(o, api) ==
    /\ call[o].pc = "idle" /\ ~closed
    /\ StaleCancel \/ idle.op # o
    /\ call' = [call EXCEPT ![o] = [NoCall EXCEPT !.pc = "load", !.api = api]]
    /\ UNCHANGED <<durable, idle, runtime, device, cloud, left, closed>>

Sync(o) == journal[o] = "absent" /\ device /\ Begin(o, "sync")
Resume(o) == journal[o] # "absent" /\ Begin(o, "resume")
Confirm(o) == journal[o] # "absent" /\ Begin(o, "confirm")

\* cancel(operationId) of an active operation, or its AbortSignal: the running
\* workflow is cancelled with it.
Cancel(o) ==
    /\ call[o].pc # "idle" /\ ~call[o].aborted /\ left.aborts > 0
    /\ call' = [call EXCEPT ![o].aborted = TRUE]
    /\ left' = [left EXCEPT !.aborts = @ - 1]
    /\ UNCHANGED <<durable, idle, runtime, device, cloud, closed>>

\* cancel(operationId) of an operation that is not active deletes its state.
CancelIdle(o) ==
    /\ call[o].pc = "idle" /\ idle.op = 0 /\ ~closed /\ left.aborts > 0
    /\ idle' = [op |-> o, pc |-> "load"]
    /\ left' = [left EXCEPT !.aborts = @ - 1]
    /\ UNCHANGED <<durable, call, runtime, device, cloud, closed>>

Destroy ==
    /\ ~closed /\ closed' = TRUE
    /\ call' = [o \in Ops |-> [call[o] EXCEPT !.aborted = call[o].pc # "idle"]]
    /\ UNCHANGED <<durable, idle, runtime, device, cloud, left>>

-----------------------------------------------------------------------------
(* A call up to its transfer *)

Finishing(o) == call' = [call EXCEPT ![o].pc = "dropBlob", ![o].then = "ok", ![o].held = "confirmed"]

Load_ConfirmsUploads(o) ==
    /\ call[o].pc = "load"
    /\ LET c == [call EXCEPT ![o].held = journal[o]] IN
       IF call[o].aborted THEN Fail(o, "cancelled")
       ELSE IF call[o].api = "sync" /\ journal[o] = "absent"
            THEN call' = Goto(o, "verify") /\ UNCHANGED runtime
       ELSE IF call[o].api = "sync" \/ journal[o] = "absent" THEN Fail(o, "error")
       ELSE CASE journal[o] = "confirmed" -> Finishing(o) /\ UNCHANGED runtime
              [] journal[o] \in {"uploading", "cloud_completed"} ->
                   call' = [c EXCEPT ![o].pc = "own"] /\ UNCHANGED runtime
              [] OTHER -> IF call[o].api = "confirm" THEN Fail(o, "error")
                          ELSE call' = [c EXCEPT ![o].pc = "list"] /\ UNCHANGED runtime
    /\ UNCHANGED <<durable, idle, device, cloud, left, closed>>

Load_ListsFirst(o) ==
    /\ call[o].pc = "load"
    /\ LET c == [call EXCEPT ![o].held = journal[o]] IN
       IF call[o].aborted THEN Fail(o, "cancelled")
       ELSE IF call[o].api = "sync" /\ journal[o] = "absent"
            THEN call' = Goto(o, "verify") /\ UNCHANGED runtime
       ELSE IF call[o].api = "sync" \/ journal[o] = "absent" THEN Fail(o, "error")
       ELSE CASE journal[o] = "confirmed" -> Finishing(o) /\ UNCHANGED runtime
              [] journal[o] = "cloud_completed" /\ call[o].api = "confirm" ->
                   call' = [c EXCEPT ![o].pc = "own"] /\ UNCHANGED runtime
              [] OTHER -> IF call[o].api = "confirm" THEN Fail(o, "error")
                          ELSE call' = [c EXCEPT ![o].pc = "list"] /\ UNCHANGED runtime
    /\ UNCHANGED <<durable, idle, device, cloud, left, closed>>

\* The journal is read; resume and confirm continue in its phase.
Load(o) ==
    /\ call[o].pc = "load"
    /\ LET c == [call EXCEPT ![o].held = journal[o]] IN
       IF call[o].aborted THEN Fail(o, "cancelled")
       ELSE IF call[o].api = "sync" /\ journal[o] = "absent"
            THEN call' = Goto(o, "verify") /\ UNCHANGED runtime
       ELSE IF call[o].api = "sync" \/ journal[o] = "absent" THEN Fail(o, "error")
       ELSE CASE journal[o] = "confirmed" -> Finishing(o) /\ UNCHANGED runtime
              [] journal[o] = "cloud_completed" ->
                   call' = [c EXCEPT ![o].pc = "own"] /\ UNCHANGED runtime
              [] OTHER -> IF call[o].api = "confirm" THEN Fail(o, "error")
                          ELSE call' = [c EXCEPT ![o].pc = "list"] /\ UNCHANGED runtime
    /\ UNCHANGED <<durable, idle, device, cloud, left, closed>>

\* withVerifiedConnection and runtime.run: without a connection, or with
\* another owner, the call fails.
Claims == [verify |-> "verifying", list |-> "listing", own |-> "owning", run |-> "running"]

Claim(o) ==
    /\ call[o].pc \in DOMAIN Claims
    /\ IF call[o].aborted THEN Fail(o, "cancelled")
       ELSE IF runtime.owner # 0 \/ ~runtime.connected THEN Fail(o, "error")
       ELSE /\ runtime' = [runtime EXCEPT !.owner = o]
            /\ call' = [call EXCEPT ![o].pc = Claims[call[o].pc], ![o].got = 0]
    /\ UNCHANGED <<durable, idle, device, cloud, left, closed>>

\* The serial number is read again, the recording is looked up.
Verified(o) ==
    /\ call[o].pc \in {"verifying", "listing", "owning"} /\ ~call[o].aborted
    /\ IF call[o].pc = "listing" /\ ~device THEN Fail(o, "error")
       ELSE IF call[o].pc = "owning" THEN call' = Goto(o, "confirm") /\ UNCHANGED runtime
       ELSE call' = Goto(o, "authorize") /\ runtime' = Release(o)
    /\ UNCHANGED <<durable, idle, device, cloud, left, closed>>

\* The provider authorizes; resume then continues in the phase it loaded.
Authorized(o) ==
    /\ call[o].pc = "authorize" /\ ~call[o].aborted
    /\ call' = Goto(o, IF call[o].api = "sync" THEN "prepare"
                       ELSE CASE call[o].held \in Unverified -> "sink"
                              [] call[o].held = "staged"     -> "read"
                              [] OTHER                       -> "reconcile")
    /\ UNCHANGED <<durable, idle, runtime, device, cloud, left, closed>>

Prepare(o) == Save(o, "prepare", "prepared", "sink", TRUE)

\* A transfer starts over: the checkpoint goes and the body is cut to nothing.
EmptySink(o) ==
    /\ call[o].pc = "sink"
    /\ blob' = IF call[o].aborted THEN blob ELSE [blob EXCEPT ![o] = 0]
    /\ Checked(o, "transferring")
    /\ UNCHANGED <<journal, idle, device, cloud, left, closed>>

Transferring(o) == Save(o, "transferring", "transferring", "run", TRUE)

-----------------------------------------------------------------------------
(* The transfer: the workflow runs with the sink of createRecordingSinkHost *)

\* An append lands at the end of the file; the engine compares the durable
\* length with what it has sent, and fails the integrity otherwise.
Receive(o) ==
    /\ call[o].pc = "running" /\ ~call[o].aborted /\ runtime.connected
    /\ device /\ call[o].got < Units
    /\ IF blob[o] < call[o].got
       THEN blob' = [blob EXCEPT ![o] = 0] /\ Fail(o, "integrity_failed")
       ELSE /\ blob' = [blob EXCEPT ![o] = @ + 1]
            /\ call' = [call EXCEPT ![o].got = @ + 1] /\ UNCHANGED runtime
    /\ UNCHANGED <<journal, idle, device, cloud, left, closed>>

\* The checksum is one of the units received, not of the file.
RunCompletes(o) ==
    /\ call[o].pc = "running" /\ call[o].got = Units
    /\ call' = Goto(o, "staged") /\ runtime' = Release(o)
    /\ UNCHANGED <<durable, idle, device, cloud, left, closed>>

\* The device has no such recording any more.
RunRejected(o) ==
    /\ call[o].pc = "running" /\ ~device /\ call[o].got < Units
    /\ Fail(o, "error")
    /\ UNCHANGED <<durable, idle, device, cloud, left, closed>>

\* A cancelled workflow discards its sink before the runtime is released.
RunCancelled(o) ==
    /\ call[o].pc = "running" /\ call[o].aborted
    /\ blob' = [blob EXCEPT ![o] = 0]
    /\ Fail(o, "cancelled")
    /\ UNCHANGED <<journal, idle, device, cloud, left, closed>>

Staged(o) == Save(o, "staged", "staged", "read", FALSE)

-----------------------------------------------------------------------------
(* The upload *)

\* legacyContext streams and hashes the staged body.
ReadBody(o) ==
    /\ call[o].pc = "read"
    /\ Checked(o, "offer")
    /\ UNCHANGED <<durable, idle, device, cloud, left, closed>>

UploadPrepared(o) ==
    /\ call[o].pc = "offer" /\ ~call[o].aborted
    /\ call' = Goto(o, "uploading")
    /\ UNCHANGED <<durable, idle, runtime, device, cloud, left, closed>>

Uploading(o) == Save(o, "uploading", "uploading", "put", FALSE)

\* uploadBlob streams what the file holds now.
Put(o) ==
    /\ call[o].pc = "put" /\ ~call[o].aborted
    /\ cloud' = [cloud EXCEPT ![o].body = blob[o]]
    /\ call' = Goto(o, "complete")
    /\ UNCHANGED <<durable, idle, runtime, device, left, closed>>

Complete(o) ==
    /\ call[o].pc = "complete" /\ ~call[o].aborted
    /\ cloud' = [cloud EXCEPT ![o].completed = TRUE]
    /\ call' = Goto(o, "cloud")
    /\ UNCHANGED <<durable, idle, runtime, device, left, closed>>

CloudCompleted(o) == Save(o, "cloud", "cloud_completed", "own", FALSE)

Reconcile_Trusts(o) ==
    /\ call[o].pc = "reconcile" /\ ~call[o].aborted
    /\ call' = Goto(o, IF cloud[o].body = Units THEN "cloud" ELSE "restage")
    /\ UNCHANGED <<durable, idle, runtime, device, cloud, left, closed>>

\* reconcileUpload: the service says what became of an upload that was cut.
Reconcile(o) ==
    /\ call[o].pc = "reconcile" /\ ~call[o].aborted
    /\ call' = Goto(o, IF cloud[o].completed THEN "cloud" ELSE "restage")
    /\ UNCHANGED <<durable, idle, runtime, device, cloud, left, closed>>

Restage(o) == Save(o, "restage", "staged", "read", FALSE)

-----------------------------------------------------------------------------
(* The confirmation *)

\* confirmJournal writes CONFIRM: the device deletes the recording.
DeviceConfirms(o) ==
    /\ call[o].pc = "confirm" /\ runtime.connected
    /\ device' = FALSE
    /\ call' = Goto(o, "confirmed")
    /\ UNCHANGED <<durable, idle, runtime, cloud, left, closed>>

Confirmed(o) == Save(o, "confirmed", "confirmed", "dropBlob", FALSE)

\* finishConfirmedJournal and deleteUnverifiedState: the body goes before the
\* journal that names it.
DropBlob(o) ==
    /\ call[o].pc = "dropBlob"
    /\ blob' = [blob EXCEPT ![o] = 0]
    /\ call' = [call EXCEPT ![o].pc = "dropJournal",
                            ![o].then = IF @ = "none" THEN "ok" ELSE @]
    /\ UNCHANGED <<journal, idle, runtime, device, cloud, left, closed>>

DropJournal(o) ==
    /\ call[o].pc = "dropJournal"
    /\ journal' = [journal EXCEPT ![o] = "absent"]
    /\ call' = Settle(o, IF call[o].then = "ok" /\ call[o].lost THEN "error" ELSE call[o].then)
    /\ runtime' = Release(o)
    /\ UNCHANGED <<blob, idle, device, cloud, left, closed>>

\* A cancelled call reads the journal again and deletes what is not verified.
Reload(o) ==
    /\ call[o].pc = "reload"
    /\ call' = IF journal[o] \in Unverified THEN Goto(o, "dropBlob") ELSE Settle(o, call[o].then)
    /\ UNCHANGED <<durable, idle, runtime, device, cloud, left, closed>>

-----------------------------------------------------------------------------
(* A cancellation of an operation that is not active *)

IdleLoad ==
    /\ idle.op # 0 /\ idle.pc = "load"
    /\ idle' = IF journal[idle.op] \in Unverified THEN [idle EXCEPT !.pc = "dropBlob"]
               ELSE [op |-> 0, pc |-> "load"]
    /\ UNCHANGED <<durable, call, runtime, device, cloud, left, closed>>

IdleDropBlob ==
    /\ idle.op # 0 /\ idle.pc = "dropBlob"
    /\ blob' = [blob EXCEPT ![idle.op] = 0]
    /\ idle' = [idle EXCEPT !.pc = "dropJournal"]
    /\ UNCHANGED <<journal, call, runtime, device, cloud, left, closed>>

IdleDropJournal ==
    /\ idle.op # 0 /\ idle.pc = "dropJournal"
    /\ journal' = [journal EXCEPT ![idle.op] = "absent"]
    /\ idle' = [op |-> 0, pc |-> "load"]
    /\ UNCHANGED <<blob, call, runtime, device, cloud, left, closed>>

-----------------------------------------------------------------------------
(* Faults *)

Storing == {"load", "prepare", "sink", "transferring", "staged", "read", "uploading", "cloud",
            "restage", "confirmed", "dropBlob", "dropJournal", "reload"}
Asking  == {"authorize", "offer", "put", "complete", "reconcile"}

\* An aborted call leaves an await that watches its signal.
Aborted(o) ==
    /\ call[o].aborted /\ call[o].pc \in Asking \cup {"verifying", "listing", "owning"}
    /\ Fail(o, "cancelled")
    /\ UNCHANGED <<durable, idle, device, cloud, left, closed>>

\* A failure of the storage. What a cancelled call fails to delete stays, and
\* the call still reports its cancellation.
StorageFails(o) ==
    /\ call[o].pc \in Storing /\ Fault
    /\ runtime' = Release(o)
    /\ call' = Settle(o, IF call[o].then = "cancelled" THEN "cancelled" ELSE "error")
    /\ UNCHANGED <<durable, idle, device, cloud, closed>>

\* The sink or a checkpoint fails under the workflow, which may discard the body.
RunFails(o) ==
    /\ call[o].pc = "running" /\ Fault
    /\ blob' \in {blob, [blob EXCEPT ![o] = 0]}
    /\ runtime' = Release(o) /\ call' = Settle(o, "error")
    /\ UNCHANGED <<journal, idle, device, cloud, closed>>

IdleFails ==
    /\ idle.op # 0 /\ Fault
    /\ idle' = [op |-> 0, pc |-> "load"]
    /\ UNCHANGED <<durable, call, runtime, device, cloud, closed>>

\* The provider or the upload fails, with or without its effect.
ProviderFails(o) ==
    /\ call[o].pc \in Asking /\ Fault
    /\ \/ UNCHANGED cloud
       \/ call[o].pc = "put" /\ cloud' = [cloud EXCEPT ![o].body = blob[o]]
       \/ call[o].pc = "complete" /\ cloud' = [cloud EXCEPT ![o].completed = TRUE]
    /\ Fail(o, IF call[o].aborted THEN "cancelled" ELSE "error")
    /\ UNCHANGED <<durable, idle, device, closed>>

\* The link goes down: the owner fails, unless it only has to record what the
\* device has done. CONFIRM may have been executed.
LinkDrops ==
    /\ runtime.connected /\ Fault
    /\ LET o == runtime.owner IN
       /\ \/ UNCHANGED device
          \/ o # 0 /\ call[o].pc = "confirm" /\ device' = FALSE
       /\ IF o = 0 \/ call[o].pc \notin Holding
          THEN /\ runtime' = [runtime EXCEPT !.connected = FALSE]
               /\ call' = IF o = 0 THEN call ELSE [call EXCEPT ![o].lost = TRUE]
          ELSE /\ runtime' = [owner |-> 0, connected |-> FALSE]
               /\ call' = Settle(o, "error")
    /\ UNCHANGED <<durable, idle, cloud, closed>>

Connect ==
    /\ ~runtime.connected
    /\ runtime' = [runtime EXCEPT !.connected = TRUE]
    /\ UNCHANGED <<durable, call, idle, device, cloud, left, closed>>

\* The page is closed or reloaded.
ReloadPage ==
    /\ Fault
    /\ call' = [o \in Ops |-> NoCall] /\ idle' = [op |-> 0, pc |-> "load"]
    /\ runtime' = [owner |-> 0, connected |-> FALSE] /\ closed' = FALSE
    /\ UNCHANGED <<durable, device, cloud>>

-----------------------------------------------------------------------------
Init ==
    /\ journal = [o \in Ops |-> "absent"] /\ blob = [o \in Ops |-> 0]
    /\ call = [o \in Ops |-> NoCall] /\ idle = [op |-> 0, pc |-> "load"]
    /\ runtime = [owner |-> 0, connected |-> TRUE] /\ device = TRUE
    /\ cloud = [o \in Ops |-> [body |-> 0, completed |-> FALSE]]
    /\ left = [faults |-> MaxFaults, aborts |-> MaxAborts] /\ closed = FALSE

Steps(o) == \/ Load(o) \/ Claim(o) \/ Verified(o) \/ Authorized(o) \/ Prepare(o) \/ EmptySink(o)
            \/ Transferring(o) \/ Receive(o) \/ RunCompletes(o) \/ RunRejected(o) \/ RunCancelled(o)
            \/ Staged(o) \/ ReadBody(o) \/ UploadPrepared(o) \/ Uploading(o) \/ Put(o) \/ Complete(o)
            \/ CloudCompleted(o) \/ Reconcile(o) \/ Restage(o) \/ DeviceConfirms(o) \/ Confirmed(o)
            \/ DropBlob(o) \/ DropJournal(o) \/ Reload(o) \/ Aborted(o)

Next == \/ \E o \in Ops : \/ Steps(o) \/ Sync(o) \/ Resume(o) \/ Confirm(o) \/ Cancel(o)
                          \/ CancelIdle(o) \/ StorageFails(o) \/ ProviderFails(o) \/ RunFails(o)
        \/ IdleLoad \/ IdleDropBlob \/ IdleDropJournal \/ IdleFails
        \/ LinkDrops \/ Connect \/ ReloadPage \/ Destroy

Spec == Init /\ [][Next]_vars

\* The page runs, the platform and the service answer; the application resumes
\* what is pending on a device it reconnects.
LiveSpec == /\ Spec
            /\ \A o \in Ops : WF_vars(Steps(o)) /\ SF_vars(Resume(o))
            /\ WF_vars(IdleLoad \/ IdleDropBlob \/ IdleDropJournal) /\ WF_vars(Connect)

-----------------------------------------------------------------------------
(* Properties *)

\* The device deletes a recording only when the service has all of it.
Custody == device \/ \E o \in Ops : cloud[o].completed /\ cloud[o].body = Units

\* What a journal claims is there: the whole body until the service completed,
\* then the completed upload of the whole body. And no body is left behind that
\* no journal names, not even by a crash.
JournalHonest ==
    \A o \in Ops :
        /\ journal[o] = "absent" => blob[o] = 0
        /\ journal[o] \in {"staged", "uploading"} => blob[o] = Units
        /\ journal[o] \in {"cloud_completed", "confirmed"}
             => cloud[o].completed /\ cloud[o].body = Units

\* An upload that the service has completed is confirmed to the device and
\* retired, whatever interrupts it, when the application resumes it and does not
\* give the runtime to other operations for ever.
CompletedRetires ==
    \A o \in Ops : <>[](\A p \in Ops \ {o} : call[p].pc = "idle")
        => ((journal[o] \in {"cloud_completed", "confirmed"})
              ~> (journal[o] = "absent" \/ closed))
=============================================================================
