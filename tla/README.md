# A formal model of the Bota App SDK

The SDK moves recordings from a wearable recorder to a phone or a browser. Its
behaviour lives in a Rust core (`core/device-sdk-core`) of pure reducers, one
per workflow, that turn host events into requested effects. Hosts execute the
effects: Swift actors on Apple platforms, coroutines on Android, one TypeScript
executor for React Native, a runtime of its own in the browser. This directory
models the reducers together with the hosts that run them, their durable
files, the service and the device, checks the models with TLC and proves the
central theorems with TLAPS.

    tlc -workers 2 -config rt_apple.cfg MCRecordingTransfer.tla
    tlc -workers 2 -config conn_both.cfg MCConnection.tla
    tlc -workers 2 -config native_workflows.cfg NativeWorkflows.tla
    tlapm RecordingTransfer_proofs.tla

The same commands run the other configurations (section 3 names the module of
each) and check the other modules whose name ends in `_proofs`.

## 1. Inventory

| Component | State it keeps | Operations | What is hard |
|---|---|---|---|
| Engine runtime (`engine/runtime.rs`) and its JavaScript binding (`bindings/device-sdk-js/src/engine.rs`) | the one active workflow, the last terminal status, the callbacks that are owned | start, dispatch, cancel | late results of an earlier workflow; an error of dispatch leaves the workflow active |
| Recording transfer (`workflow/recording_transfer.rs`) | phase, durable units, last and pending sequence, digest, grace timer, packet queue | one handler per event and phase, cancel | packets queued behind a write; append, checkpoint and acknowledgement in order; resumption; 16-bit sequences |
| Connection (`workflow/connection.rs`), discovery | phase, candidates with probe order, attempt timer | scan, probe, verify the serial number, persist, disconnect, retry | results of an attempt that was given up; timers against answers |
| Factory reset (`workflow/factory_reset.rs`) | phase, grant, result, requests outstanding | nonce, grant, opcode, durable result, receipt, resumption | a result that overtakes its write; a crash between result and receipt |
| Live transfer (`workflow/streaming_transfer.rs`) and its sink (`jsHost/streamingEffects.ts`) | phase, sequences, units accepted; chunks uploaded, flush timer | packets, accept, finalize, confirm | the device forgets the recording on the count of what arrived |
| Upload handoff (`workflow/upload_handoff.rs`) | phase, purpose of the read, timers | status, trigger, monitoring, fallback | answers against timers; who uploads |
| Device log (`workflow/device_logs.rs`, `protocol/logs.rs`) | phase; the partial line | start, packets, stop | gaps; stopping a device while a write is under way |
| Provisioning (`workflow/provisioning.rs`, `provisioningManager.ts`) | phase, chunk; a journal for every attempt | provision, deprovision, cancel | the device stores the credential and nobody hears of it |
| Firmware update (`workflow/firmware_update.rs`, `otaManager.ts`) | phase, windows; journal, image, checkpoint | download, transfer, reboot, resumption, cancel | the device reboots as it answers; resumption in every phase |
| Encrypted upload v2 (`workflow/encrypted_upload_v2.rs`, `protocol/encrypted_upload_v2_receiver.rs`; hosts `encryptedUploadV2Host.ts`, `jsHost/encryptedUploadV2.ts`) | coordinator, receiver, window checkpoint, receipt | windows, repair, staging, confirmation | checkpoint before the window's acknowledgement; receipt before confirmation; sessions replaced by the service |
| Managed uploads (`model/managed_upload.rs`, `jsHost/uploadBackendV2.ts`) | one journal record | create, recover, stage, complete | answers that are lost; restarts in every phase |
| Browser runtime (`workflowRuntime.ts`) | the owner with its pump, cancellation, failure and cleanup | run, exclusive calls, cancel, destroy | five threads of one owner that wait for one another |
| Browser recordings (`recordingManager.ts`, IndexedDB, OPFS) | journal and body of every operation | sync, resume, confirm, cancel | reloads between two steps |
| JavaScript executor (`jsHost/executor.ts`) | the owner, its outstanding effects, subscriptions, timers | admission, pump, cleanup barrier, cancel | effects of one batch run concurrently |
| Apple runtime (`Core/CoreEngineActor.swift`, `Host/*.swift`, `Bluetooth/CoreBluetoothHost.swift`) | the active stream, the drain flag, sink files, one checkpoint file | drain, dispatch, per-effect hosts | reentrant drain; one checkpoint for all workflows; padding by truncation |
| Protocol codecs, Android runtime, facades, bindings, tools | | | mostly marshalling |

The parts interact in one loop. An application command starts a workflow; the
reducer returns effects; the host executes them against GATT, files, timers and
the network and hands each result back as an event with the identifier of its
request; `dispatch` answers with further effects, or with an error. The hosts
differ where it matters: the Apple one drains sink and persistence effects one
after the other and ignores an event the workflow does not expect; the
JavaScript executor runs a batch concurrently, holds the effects of a terminal
or cancelled workflow back until the earlier ones have settled, and cancels its
owner when an event is refused; the browser runtime executes one effect after
the other and fails its owner.

`PROJECT.json` lists every component with its status and every hazard at its
line with the properties that guard it.

## 2. Modules

| Module | Models |
|---|---|
| `RecordingReducer` | `RecordingTransferWorkflow` as pure operators: what each handler answers to one event |
| `RecordingTransfer` | the reducer with a native host, its file and checkpoint, the device and the link, over several attempts |
| `RecordingCustody` | what a transfer promises: the recording is on the device, in full on the host, or both |
| `ConnectionReducer`, `Connection` | `ConnectionWorkflow`; with two hosts, the radio, saved identities and the peripherals, over several operations |
| `ResetReducer`, `StreamReducer`, `HandoffReducer`, `LogsReducer` | the workflows of factory reset, live transfer, upload handoff, and of the device log and discovery |
| `NativeWorkflows` | the four with the engine, its binding, the executor of React Native (for the log: the Apple host), the device, the service and the application |
| `EncryptedCoordinator`, `EncryptedReceiver` | the workflow of encrypted upload v2 and the receiver of its frames |
| `NativeEncryptedUpload` | the two with the host of React Native, its gate, pump, file and journal, the device and the service |
| `ManagedUpload` | the journal of a managed upload with its backend, the service and the device's nonces |
| `WebRuntime` | the browser runtime: one owner, its threads, the platform |
| `WebRecordings` | operations on plain recordings in the browser, over journal and staged body |
| `WebEncryptedUpload` | operations on encrypted recordings in the browser, with the transfer, the device and the service |
| `WebFirmware` | the firmware workflow with its browser manager, storage and the device |
| `WebProvisioning` | the provisioning workflow with its browser manager, journals, provider and the device; deprovisioning |
| `MCRecordingTransfer`, `MCConnection` | values for TLC |
| `RecordingTransfer_proofs` (with the lemmas about `RecordingReducer`), `Connection_proofs`, `NativeWorkflows_proofs` (with its reducers; the inductive invariant is in `NativeInvariant`), `ManagedUpload_proofs`, `WebProvisioning_proofs`, `WebFirmware_proofs`, `WebEncryptedUpload_proofs` | the theorems about the module of the name |
| `WebHosts_proofs` | the theorems about `WebRuntime` and `WebRecordings`, whose names do not meet |

A convention of all of them: one action is the code between two awaits (or, in
the core, one call of `dispatch`), the platform's answer included. Where a
module has an `Name_Variant` before `Name`, the variant is a plausible error of that
code that one of the properties rejects; the model does not use it.

### RecordingReducer

A handler takes the workflow record and returns the new record, the kinds of
the effects it requests and whether `dispatch` returned `Err`. That last bit
matters: an error loses the effects gathered so far and keeps the mutations, as
`?` does in `drain_packets`. The fields of the record are the fields of the
Rust struct; `pend` is the payload handed to the sink. A payload is a unit,
named by its index in the recording; a sequence is that index modulo `SeqMod`.
`Drain` states in one step what the loop of `drain_packets` does packet by
packet: absorb the quiet packets, then take the first that leaves the phase.
`AppendBatch` states `append_legacy_batch` the same way, as the longest prefix
of the queue that continues the packet.

### RecordingTransfer

`ops` holds the kinds of effects the host has not settled, `saves` the
checkpoints still to be written (several may be outstanding), `replies` the
writes the device has executed while their callback is still to come, so that
a write can take effect and its callback be lost. `MayRun` is the scheduler:
`JsMayRun` is the cleanup barrier of the executor, `AppleMayRun` the drain
order of the actor. `Settle` delivers the result of an effect only to a running
workflow, which is what the identifiers of requests achieve. `file` and
`journal` survive `Crash`; everything else of the host does not.

Actions and the code they stand for:

| Action | Code |
|---|---|
| `Start`, `Cancel` | `start`/`cancel` of the workflow, `checkControlAdmission`, `cancel` of the executor |
| `LoadCheckpoint`, `SaveCheckpoint`, `DeleteCheckpoint` | persistence effects |
| `TruncateSink`, `AppendSink`, `FinalizeFile`, `DiscardSink` | sink effects, `FileRecordingSinkHost` and `JsFileEffects` |
| `Subscribe`, `DeviceExecutes`, `WriteCallback`, `TimerFires` | GATT and timer effects |
| `EffectFails`, `SaveFails`, `LinkFails`, `Disconnect` | the failure arms of `dispatch` and of the hosts |
| `DeviceSends`, `DeviceStops`, `LosePacket`, `DuplicatePacket`, `StrayPacket`, `Reconnect`, `Crash` | device, link and operating system (external) |
| `OtherWorkflow` | another workflow deleting the shared checkpoint of a native host |

Simplifications, each of them an assumption:

- `Unsubscribe` effects are merged with the end of the workflow: notifications
  reach the workflow from its subscription until it ends.
- One packet carries one unit; an E2E header is one unit.
- The JavaScript persistence port applies a save and a delete that were started
  in the same batch in call order (`JsMayRun`: a delete waits for the saves).
- The application starts a transfer only for a recording the device lists.
- The device stops its stream when told to, or at its end, or when nobody
  listens; START sends it from the first packet (FIRMWARE_PROTOCOL.md).
- Destruction of the JavaScript executor is not modelled.
- Progress notifications, error details and the layout of packets are left out.

### ConnectionReducer

The same shape: a handler answers `[wf, out, rejected]`. An effect is a kind
and a peripheral. A peripheral is a number, and a smaller number has a stronger
signal, which is the order of `prepare_probe_candidates`; `Probe(w, i)` is the
candidate at an index of the list. The name filter is the set `Named`, and the
hint of a reconnection the set of peripherals `is_exact_candidate` accepts. The
field `waits` holds the request identifiers that are `Some`, by kind: a
peripheral is tried once in a workflow, so a kind and a peripheral name one
request. `waits` also tells which timer the host has armed.

### Connection

`host` and `serialOf` are chosen in `Init`: every assignment of serial numbers,
one that does not parse included, is considered. `ops` holds the effects the
host has not settled; `links` are the connections the platform holds; `radio`
is the one variable a read depends on, `peripheralId` of the React Native
executor and the owner in `RadioArbiter`; `saved` is durable. `stuck` stands
for a React Native executor that retains its owner because a cleanup failed.

| Action | Code |
|---|---|
| `Connect`, `Reconnect`, `Cancel`, `Disconnect` | `connect`, `reconnect`, `cancelCurrentOperation` of the managers; `clearConnection` |
| `StartScan`, `Advertise`, `ScanStops`, `ScanDeadline` | the scan of the host, `ScanResult`, `ScanStopped`, the timer of the scan |
| `StartScanFails`, `StopScanFails` | a failed scan; a subscription that cannot be removed |
| `Dial`, `ConnectUp`, `ConnectFails`, `ConnectUncertain` | the arbiter and the call of the platform; its answers; a connection that comes up after the abort |
| `Discovers`, `Reads`, `VerificationFails`, `DiscoverTimesOut` | discovery and the read of the serial number; the ten seconds of the Apple host |
| `AttemptDeadline` | the timer of the attempt |
| `Disconnects`, `DisconnectFails`, `DisconnectSkipped` | `Disconnect` of a retired attempt, the release of a cancelled workflow, `check` of the lane |
| `CheckpointSaved`, `CheckpointFails`, `SavesIdentity`, `SaveFails`, `DeletesCheckpoint` | persistence effects |
| `LinkLost` | `didDisconnect` (external) |

The two hosts differ in `MayRun` (one lane and a cleanup barrier on React
Native), in `Drop` (a disconnection fails the operations of its peripheral on
Apple), in `Dial` (the arbiter) and in `Refused` (a refused event cancels the
owner on React Native and is ignored on Apple).

Simplifications, each of them an assumption:

- An operation starts when the one before has settled and the application has
  no connection. React Native enforces both; of an application on Apple they
  are assumed, so a `Disconnect` of a cancelled operation that races the next
  one is not considered.
- Checkpoints of one workflow that are outstanding together are merged: they
  are advice only, and a reconnection never resumes one.
- `scanning` ends with the scan and nothing pauses it; Bluetooth that is
  switched off appears as a failure of what is under way.
- The attempt deadline is longer than the time to ask the platform for a
  connection: it fires only when nothing is left to be asked.
- Direct GATT operations of other managers, MTU and subscriptions are left out.
- Android is not considered; its host is a third scheduler.

### NativeWorkflows and its reducers

The four reducers have the shape of `RecordingReducer`: a handler answers with
the next record, a sequence of effect names and whether `dispatch` accepted.
An effect's name stands for the identifier of its request. A behaviour belongs
to one family of operations (`Families`); the application runs one operation
after the other.

`host` is the owner of the executor with the engine and the binding behind it:
`wf` the workflow, `pend` the callbacks the binding owns, `run` the effects that
execute, each live, stale after a cancellation, or part of the end. `sink` is the session of
`streamingEffects.ts`; `disk` the journal of a reset and what the application
keeps; `link`, `inbox`, `dev`, `svc` are connection, notifications, device and
service.

| Action | Code |
|---|---|
| `FactoryReset`, `ResumeFactoryReset`, `StartStreaming`, `ObserveUploadOwnership`, `StartScan` | the calls of `deviceAdapter.ts`; `StartOp`, `Begin` the admission in `executor.ts` and `runtime.rs` |
| `ReadDeviceLogs`, `CancelLog`, `Receive`, `Refused`, `Quarantined`, `KeepsEarly` | the log on Apple: `DeviceLogManager`, `CoreEngineActor`, `CoreBluetoothHost`, `CoreBluetoothDriver` |
| `Write`, `WriteExecutes`, `Read`, `Subscribe`, `Unsubscribe`, `Scan`, `TimerElapses`, `Save`, `DeleteCheckpoint` | `execute` of the executor, one arm each; `WriteExecutes` is the device taking a write before its callback |
| `SaveResult`, `SaveJournal`, `ClearResetOwner` | the journal of a reset, `deviceAdapter.ts:1034-1062` |
| `AskApp`, `PrepareGrant` | requests to the application, `materialEffects.ts` |
| `SinkBegins`, `Accepts`, `Refuses`, `BackgroundFlush`, `UploadChunk`, `FinalizeAsked`, `JobStops`, `Discard` | the session of `streamingEffects.ts`, one action per await |
| `Deliver`, `Candidate`, `HearDrop` | notifications, scan results, the callback of a disconnection |
| `AppCancels`, `Finish` | `cancel`, and the claim that settles the owner |
| `DeviceSends`, `DeviceLogs`, `DeviceUploads`, `DeviceTakes`, `LinkLost`, `Reconnect`, `Restart` | device, link, end of the process (external) |

Simplifications:

- The lane of GATT operations is reduced to the barrier before the effects of a
  terminal workflow (`Ready`). On Apple the end of an operation waits for its
  last effects; in the code those of the next operation queue behind them.
- A notification that comes before the subscription is known to the host is
  kept for a resumed reset (`replayStartup`) and on Apple, and dropped
  otherwise. Unsubscribing and stopping a scan do not fail.
- A failed cleanup leaves the owner `"stuck"` until the process restarts, as
  the executor does; on Apple its result is ignored.
- The application answers every request, or refuses it. The session of the
  service is new for every stream. The device uploads only after a trigger, or
  because it was doing so before.
- `reset/<cmd>`, checks of generation and scope, `destroy`, markers and the
  bounds of buffers are left out.
- Any header or DATA packet may be lost and is named on the wire by its index
  modulo `SeqMod`; EOF is not lost, because nothing would end the transfer
  (section 3). `dev.heard` is a history variable: the units that reached the
  phone while it listened. A sealed unit is uploaded under the number of its
  packet (`Chunk`, `streamingEffects.ts:101-114`), and it may be given up as a gap
  when that number is not zero (`GaveUp`, `planners.rs:251`).
- START is written when nothing is on its way (`WriteStart`): a packet of a
  stream that was given up does not reach the next one. The code has nothing
  that tells the two apart (section 3).

### EncryptedCoordinator, EncryptedReceiver, NativeEncryptedUpload

`EncryptedCoordinator` has the coordinator and the workflow over it as three
operators, `Begin`, `Dispatch` and `Cancel`; `EncryptedReceiver` has `New`,
`Start`, `Receive` (a frame) and `Apply` (the answer to an I/O request).
Offsets count packets, and an offset stands for the revision and the digest of
its boundary. `NativeEncryptedUpload` puts both into the host: the handlers of
the workflow's effects run one after the other, the pump takes notifications,
and the gate holds the pump while a window is saved, acknowledged or repaired.

| Action | Code |
|---|---|
| `Load`, `Delete`, `Truncate`, `SaveCheckpoint`, `Abort` | persistence, sink and abort, `jsHost/encryptedUploadV2.ts:518-570` |
| `PrepareSession`, `StartReceiver`, `ProvePrefix`, `Open`, `Opened`, `OpenRejected`, `OpenFails` | the session with the service and the opening of the transfer |
| `Deliver`, `Receiving`, `Act`, `Appending`, `Inspecting`, `Staged`, `PumpFails` | the pump and the actions of the receiver |
| `AppendMarker`, `MarkerConflicts`, `ProveMarker` | a marker document and its file, `:871-893`, `planners.rs:214` |
| `RepairWindow`, `Repairing`, `OpenGate`, `AcknowledgeWindow`, `Acknowledged` | the gate and the control writes |
| `StageCiphertext`, `SubmitManifest`, `SubmitMarkers`, `Finalize`, `CompletionReceipt`, `DeliverReceipt`, `SendConfirm`, `Confirmed` | upload, receipt and confirmation |
| `AwaitFails`, `PumpAwaitFails`, `PumpTimesOut`, `GateTimesOut`, `LinkDrops`, `Cancel`, `GiveUp`, `Recreate` | failures, timers, cancellation; a poisoned client that is created anew |
| `Device...`, `Begins`, `Connect`, `Lose`, `Crash`, `EndProcess`, `Kill` | device, link, operating system (external) |

The receiver refuses a window with more than `MaxMissing` packets missing, and so
does the coordinator (`encrypted_upload_v2_receiver.rs:589`,
`encrypted_upload_v2.rs:571`); the loss of a whole window in the run is more than
that. A crash loses what was appended and not flushed; a truncation is durable. A
restarted device may forget what was acknowledged. The manifest is one chunk, a
marker document `Chunks` of them; its content is the session it was made for,
because its header holds the digest of a context with the session in it
(`docs/firmware/recording-markers-security.md:24`). Of a part of a document the
model does not say whether it is more than the header that all share, so that
both outcomes of the comparison are possible. The local transfer, signed blobs,
contexts and bounds of buffers are left out.

### ManagedUpload

`journal` is the stored record (`managed_upload.rs`), `slot` the operation over
it (`uploadBackendV2.ts`), `net` its request, `stray` requests whose caller is
gone and which the service may still execute. A session is named by its owner
revision. `Prepare` to `AcceptSession` create recording and session, `Get` to
`AcceptRecovery` restore or recover a session, `StageCiphertext` to `Complete`
carry the upload to the receipt; `Retry`, `Refused`, `Register` and `GivesUp`
are what the backend does with an answer that is not the expected one.

Assumed of the service and the device, from the documents of the repository:
the service recovers a session once per nonce and supersedes its parent; a
superseded or expired session refuses bytes and manifest; the device takes an
authorization for its own nonce or for a session it took before. Creations
whose answer is unknown stay pending for ever, by design, and a cancellation
between the save of "unknown" and the request leaves one too. Markers, the
exchange of contexts, capability flags and the grant of a local transfer are
left out.

### WebRuntime

An owner (`op`) has a pump with a queue of effects, an inline executor for the
effects of a cancellation, and threads for success, cancellation, failure and
cleanup. The field `at` says what an executor awaits, `pending` what the
platform still owes. The engine and the hosts are abstract: any effect may be
asked for, any await may fail, so the module covers every workflow.

| Action | Code (`workflowRuntime.ts`) |
|---|---|
| `Run`, `RunExclusive`, `RunExclusiveDisconnect`, `DirectSettles`, `DirectHandsOff` | admission and exclusive calls |
| `PumpNext`, `PumpDrained`, `Execute`, `InlineNext`, `InlineDone`, `CoreCancel` | `pump`, `executeEffect`, the effects of a cancellation |
| `ConnectSettles`, `LateLinkSettles`, `GattSettles`, `DisconnectSettles`, `SubscribeSettles`, `DiscardSettles`, `RemoveSettles`, `HostSettles`, `ConfirmSettles` | the continuations of the awaits, in time or late |
| `TimerFires`, `Notified`, `LinkLost` | callbacks |
| `CancelRun`, `DestroyRuntime`, `CleanupStarts`, `HostsCancelled`, `CleanupSubscriptions`, `CleanedUp`, `SuccessReleases`, `EndReleases` | cancellation, cleanup, release |

Settling an owner is `FinishSuccess`, `FinishCancelled` and `FinishFailure`;
`EnterCancellation` and `FailOwner` start its end, `HasCompletionEvidence`
decides whether a confirmation under way is waited for.

### WebRecordings, WebEncryptedUpload

`journal` and `blob` (in the second module `store` and `body`) are durable and
survive `ReloadPage`. A call is a program counter; the guards of `Save` and
`Accepts` are those of the journal store, which accepts a phase only from
certain others. In `WebRecordings` one action is one await of
`recordingManager.ts`: `Load`, `Claim`, `Prepare`, `Transferring`, `Receive`,
`Staged`, `ReadBody`, `Uploading`, `Put`, `Complete`, `CloudCompleted`,
`Reconcile`, `DeviceConfirms`, `Confirmed`, `DropBlob`, `DropJournal`, and the
cancellation of an operation that is not active, `CancelIdle` to
`IdleDropJournal`. `WebEncryptedUpload` adds the transfer of
`encryptedUploadV2Host.ts`: `Open`, `Opened`, `ReceiveData`,
`WindowIncomplete`, `SendRepair`, `WindowStaged`, `SaveCheckpoint`, `SendAck`,
`Acked`, `ReceiveManifest`, `ReceiveEof`, then the upload, the receipt and the
confirmation, and the device's side of each.

The two signed documents, authorization and receipt, go through one writer
(`StartBlob`, `SendBlob`, `CommitBlob`, `Committed`, `DeliverResult`,
`BlobSent`): BEGIN, DATA and COMMIT one write after the other, then the result
of the device, which may overtake the callback of COMMIT, be lost, come after
the timer or belong to an earlier write. An ABORT or an unsubscription that
fails poisons the connection (`BlobAbortFails`, `ReleaseFails`), and only a new
one is used again.

Left out: several recordings, devices, tabs and tenants, identity mismatches,
the limits on results of other writes, the cleanup that does not wait for the
pump.
`StaleCancel = FALSE` says that the application does not resume an operation it
is cancelling; with `TRUE` `Custody` fails (section 3).

The device numbers its packets from one at every START and every accepted RESUME,
as the design document of the transfer says (`:716-726`) and the receivers of
the core expect (`encrypted_upload_v2_receiver.rs:29`); `dev.num` is the offset
it resumed from, zero after a START. The browser's receiver restores the
number of its checkpoint instead (section 3). Its bound on missing packets is not
modelled because it is not below the window: the host negotiates windows of at
most that many packets (`recordingManager.ts:1631`).

### WebFirmware, WebProvisioning

Both have the record of the core's workflow (`wf`), a queue of effects that the
pump settles one by one (`Settled`, `Dispatched`), the manager's call (`run`)
and its durable storage. A result and the reducer's answer are one action.

`WebFirmware`: `LoadCheckpoint`, `Stage` and the `Download...` actions obtain the
image; `SubscribeSettles`, `Write`, `WriteSettles`, `ReadChunk`, `Deliver` move
it to the device in windows of `AckWindow`; `ConnectSettles`, `ReadVersion`,
`Fire` follow the reboot; `CleanCheckpoint`, `CleanBlob`, `CleanJournal` retire
it. `UpdateFirmware`, `ResumeFirmwareUpdate`, `CancelActive` and `CancelIdle`
are the application. The device may lose data, acknowledge a window, refuse or
accept the image, and drops the link as it reboots.

`WebProvisioning`: `Provision`, `Begin`, `Load`, then the workflow, and after
its end `Completed`, `AppliedSaved`, `ConfirmBackend`, `ProviderConfirms`,
`ConfirmSaved` or `Cancelled`, `AbortBackend`, `ProviderAborts`, `AbortSaved`.
The device checks and stores the credential in `DeviceStores`, some time after
the last write, and answers with a notification that may be lost or overtake
the write's callback. Deprovisioning is a direct call: `Deprovision`,
`VerifyDevice`, `RemovalWrite`, `RemovalSettles`, `Listen`, `Taken`, `Deadline`,
`Unlisten`. Assumed: a provider handed a signal that has already fired does
nothing; the calls of a provider settle; the device executes writes one after
the other and not while it stores; one call of the manager runs at a time (in
the code a removal may run beside the provider's abort).

## 3. What the runs show

| Run | Properties | Shows |
|---|---|---|
| `rt_apple` | `Custody`, `KeepsCustody` | a native host, three attempts and three faults of any kind: the only copy of a plain recording is never lost, and the custody promised by `RecordingCustody` is implemented |
| `rt_relay` | `DeliveredWhole`, `CheckpointExact`, `Terminates` | the JavaScript host, whose effects run unordered: a relayed recording resumes after crashes, failures and disconnections without losing or repeating a unit, a checkpoint describes one point of the stream, and every started transfer ends, when no notification is lost |
| `rt_relay_wrap` | `Custody` violated | finding 1 |
| `conn_both` | `IdentityVerified`, `LinksOwned`, `RetiredFirst`, `Exhaustive`, `EveryRunEnds` | both hosts, two operations and one fault: what is saved and reported answered its serial number, candidates are probed one at a time and all of them before the device is reported missing, a link belongs to an operation or to the application, and every operation ends |
| `native_workflows` | `ReceiptCovered`, `StreamWhole`, `Truthful`, `NoSplicedLine`, `Quiet`, `OperationEnds` | two operations in turn of each family with two faults: the device is receipted only for a result that is kept and that the application has if it asked for it, a streamed recording is deleted only once the service finalized it and has what reached the phone: of a plaintext all up to the last unit heard, of a sealed one the unit with its key, what the application is told is so on the device, no line of the log is joined over a gap, a cancelled operation leaves the device silent, and every operation ends |
| `native_upload` | `WindowDurable`, `NeverRefused`, `Delivers` | the encrypted transfer on React Native: a window is acknowledged only when checkpoint and flushed ciphertext cover it, neither receiver nor workflow refuses a correct peer, and the recording, marked or not, is delivered and deleted in the end unless a marker document of a replaced session is in the way |
| `managed_upload` | `SingleCreate`, `NothingForgotten`, `LocalResumable`, `Progresses` | nothing is created twice, nothing created is forgotten, a checkpoint stays usable over recoveries of its session, a known session is uploaded in the end |
| `web_runtime` | `ReleasedClean`, `ConfirmedNotCancelled`, `TruthfulOutcome`, `EndingSettles` | every interleaving of pump, cancellation, failure, cleanup and callbacks: what is released is settled, a confirmed recording is never reported cancelled, an operation that begins to end ends |
| `web_recordings` | `Custody`, `JournalHonest`, `CompletedRetires` | two operations on one recording over reloads: the device deletes only what the service holds whole, a journal claims only what is there, what the service completed is retired |
| `web_upload` | `Custody`, `CheckpointBacked`, `FreshAgrees`, `RunsEnd` | the encrypted transfer in the browser: the same custody, a checkpoint never outruns the ciphertext, host and device agree on what is sent next in a transfer that begins with START, and every call ends; one that nothing interrupts has the recording released, unless a loss that is not repaired, a resumption or a journal still in "prepared" ends it (see the defects below) |
| `web_firmware` | `CheckpointBacked`, `Retires` | an update is skipped only for an image the device accepted, nothing is left behind and it ends, resumed as often as needed |
| `web_provisioning` | `OneUnresolved`, `JournalTruthful`, `HeardNotAborted`, `AppliedConfirms` | one attempt is open at a time, journal and provider never claim more than the device did (a removal included), a success that was heard is not aborted and is confirmed in the end |

### Bounds

Every module bounds its counters by constants of its configuration.

- Transfer. Three DATA packets make one append of a single packet, one batch of
  two and a rest; a queue of two and a batch of two reach both limits; `SeqMod`
  16 is out of reach of three packets, and the wrap is covered by
  `rt_relay_wrap` (`SeqMod` 2) and, for plain recordings, by the theorems,
  which hold for every modulus. Three attempts let a third one meet what a
  resumed second one left.
- Connection. Of three peripherals two pass the name filter and the third is
  named by a hint, so that a list of two probes, an exact candidate and an exact
  candidate that fails and falls back to the list all occur; two serial numbers
  and a malformed one give a wrong device, the right one and two with the same
  serial number. Two operations let a late result of the first meet the second.
- `native_workflows` (399 576 states). Three packets and chunks of two units
  give a full chunk and a rest; `SeqMod` 8 is not reached (see the limits below);
  five fragments are two lines and a half, so that a lost fragment can join two
  of them; `Attempts` 2 (3 in the code) is a failure and its repetition; two
  pending recordings let the device finish one and go on. A second operation
  meets what the first, cut off or cancelled, left on disk, in the radio and in
  the device. At most two troubles of any kind, one of each of loss of the link,
  cancellation, restart; two failed callbacks; one lost packet, whichever it is:
  the first, the header of a sealed recording or the last.
- `native_upload` (525 544 states). Three units in windows of two are a full
  window and a rest, each can be repaired; the recording is marked or not, and
  two documents of two chunks are the fewest of a marked one; two sessions let
  the service replace one that was interrupted, with two faults to interrupt
  it and its successor. Two losses in a window are one more than `MaxMissing`.
- `web_upload` (479 141 states). Five units in windows of two are two full windows and a rest;
  two sessions as above; two losses let a repair be needed twice. A signed
  document is two frames before its COMMIT, so that a failure can come between.
- `managed_upload` (230 880 states). Three sessions and one recovery hop within
  an operation (3 in the code) let two recoveries follow each other over two
  operations, with one expiry and one new nonce.
- `web_runtime`. Two owners, each answered with up to two rounds of effects: the
  second meets the late callbacks of the first.
- `web_recordings`. Two operations of one recording, one reload or failure and
  one cancellation between any two awaits; a fault after a fault adds a resumption
  of a state that one fault reaches too.
- `web_firmware`. Five chunks in windows of two, numbers modulo 4: an
  acknowledgement of an interrupted transfer fits a later window.
- `web_provisioning` (257 678 states). Two attempts, a credential of two chunks,
  three faults, one removal: a reload, a failure and the failure of the repair.

Deadlock is not checked where the system stops: after its operations or
attempts are spent, or when the recording is delivered.

### Fairness

Nothing forces the application to begin anything, a fault, a loss or a
cancellation, save where it is named below.

- `FairSpec` of the transfer: an effect that can be settled is eventually
  settled, as the event loops of the hosts and the operating system provide (a
  GATT operation on a dead link fails instead); a device that streams keeps
  streaming. `rt_relay` has no lost notification because phase Transferring has
  no deadline.
- `LiveSpec` of the connection: timers fire; the scan, persistence and a
  disconnection settle; the host asks the platform for the connection. A
  connection, a discovery or a read settles by itself only on React Native,
  whose lane has no other way out; on Apple the deadline of the attempt has to
  end it. `EveryRunEnds` excepts one state, `Hung`, by name: on Apple a failed
  `SaveConnectionIdentity` is refused by `dispatch`, the host ignores the
  refusal, and the workflow stays in Persisting.
- `native_workflows`: effects settle, timers fire, the sink steps, packets
  arrive or are lost, a device that streams or uploads goes on, the host hears
  of a disconnection. `OperationEnds` leaves out the device log, which runs
  until it is cancelled, and counts an owner that is stuck after a failed
  cleanup as ended (see the defects below).
- `native_upload`: host, pump, device and radio go on, and the user starts the
  transfer again, connects, gives up a transfer that stands still and ends a
  process that does not react: two limits of the code named below.
- `managed_upload`: the host steps, the service answers and publishes, the
  application starts the upload again.
- `web_runtime`: promises settle and the job queue runs; `EndingSettles` is
  about an operation whose cancellation has begun (`beginCancellation`).
- `web_upload`: awaits settle, the device answers, notifications arrive unless
  they are lost. Nobody has to call, resume or connect: `RunsEnd` is about a
  call that was made.
- `web_recordings`, `web_firmware`, `web_provisioning`: awaits settle, the device steps and connects, and the application repeats the
  resumption whenever it may (strong fairness, as another operation can hold the
  runtime in between). `CompletedRetires` asks in addition that the other
  operation does not occupy the runtime for ever.

### Finding

1. `rt_relay_wrap`. A packet whose sequence is not above the last one is dropped
   before it is compared with the expected, wrapped, one. Everything after the
   wrap is dropped; a plain recording then fails its checksum, and never
   transfers, but the encrypted EOF carries none: the relayed recording is
   acknowledged and deleted from the device, truncated. A notification lost at
   the end of a relayed stream does the same.

### Defects and limits without a run

Met while modelling; each is either excluded by an assumption that is named, or
modelled and accepted by the properties. They are listed for the owners of the
code.

Recording transfer and connection:

- The sink is discarded before its checkpoint is deleted
  (`recording_transfer.rs:363`): a crash between them leaves a checkpoint
  without bytes. On Apple the next attempt pads the file with zeros; the
  checksum catches a plain recording, nothing a relayed one.
- A cancellation while CONFIRM is under way (`:766`) discards the file of a
  recording the device is deleting. `Custody` assumes it does not happen.
- An EOF of the stream before, queued behind START with a packet that may not
  follow it, moves the workflow to Finalizing and drops the Finalize effect
  (`:130`).
- No timer runs in phase Transferring (`:503`).
- A `Disconnect` that failed is answered as one that succeeded
  (`connection.rs:718`): the next candidate is connected while the first link is
  up. `LinksOwned` is checked without that fault.
- On Apple a failed connection does not give the radio back
  (`CoreBluetoothHost.swift:180`): the candidates after it are refused by the
  arbiter without having been asked.

Factory reset, live transfer, handoff, log, discovery:

- A crash between receipt and `clearResetOwner`, or a lost callback of the
  receipt, leaves the journal: a resumption waits for a replay that never
  comes, and a reset under another command is refused for ever. A change of the
  binding generation locks out the same way. The file `reset/<cmd>` is written
  and not read on React Native.
- The failure of DeleteCheckpoint after Completed rejects a reset that was done
  and leaves the owner stuck.
- A live transfer takes packets above the last number only, on 16 bits; after
  65 535 they are ignored, EOF finalizes and CONFIRM deletes. The plaintext EOF
  is not compared with the last packet, so a lost tail is deleted too; of a
  sealed recording any packet, the one with number 0 and its key included, may be
  lost unnoticed. `StreamWhole` therefore speaks of what the phone heard, not
  of the recording; the run includes these losses. A lost EOF hangs: there is no
  timer. A failure sends no ABORT and the device's packets reach the next attempt.
- A packet while the sink accepts the one before is refused and React Native
  cancels the transfer; there is no queue as in the recording transfer.
- The answer to a trigger that overtakes its write's callback is refused:
  React Native cancels while the device uploads. A failed trigger of a device
  that is inactive falls back to the phone even when nothing is pending.
- A scan result while the scan is being stopped is refused: the discovery ends
  as failed.
- A cancellation on a dead link: the write of ABORT or LOG_STOP fails and the
  owner is stuck until the process restarts.
- On Apple a LOG_STOP behind a cancelled LOG_START is refused
  (`CoreBluetoothDriver.swift:435`) and a LOG_START whose callback was lost is
  not stopped: the device goes on logging. `Quiet` covers a log whose start was
  confirmed. On Apple the cancellation of a log that had failed keeps the owner;
  React Native's own reading of the log (`deviceControls.ts`) closes the
  observer without LOG_STOP.

Encrypted upload on React Native:

- The files of marker documents are named by recording and index
  (`encryptedUploadV2.ts:875`), not by session or hash, and nothing removes them.
  A session that the service replaces after a document was kept leaves it there;
  the documents of the successor are made for the new session, do not begin with
  it and are refused as a failure of integrity (`planners.rs:219`) at every
  attempt: the recording cannot be uploaded any more. The receiver's contract is
  that "ports retain by index/hash under the admitted scope"
  (`encrypted_upload_v2_receiver.rs:115`). Modelled: without its second disjunct
  `Delivers` is violated.
- An error of the subscription while the gate is closed resolves the gate and
  leaves it set: the pump loops in microtasks and starves the thread (modelled;
  the user ends the process).
- A gate that is held longer than `operationTimeoutMs` makes the pump report a
  failure under a request the coordinator does not expect; it is refused and the
  transfer stands until it is cancelled (modelled).
- The loss of the link fails the write of ABORT and poisons the client until it
  is created anew (modelled).
- A repeated WINDOW_END is acknowledged by the receiver again, but the host
  reports a staged window, which is refused as not monotonic. A refusal of
  CONFIRM after the unsubscription is missed. A checkpoint of another session is
  read as none, so that the old journal stays. The file is never deleted by this
  host.

Browser:

- `cancelOwner` waits for the result of a confirmation under way, whose failure
  waits for that cancellation (`workflowRuntime.ts:1561`): neither ends.
- A cancellation of an engine that has completed becomes an internal error
  (`:1673`).
- `cancel()` of an idle operation deletes by a journal it loaded before a
  resumption began (`recordingManager.ts:385`; `otaManager.ts:243` alike). With
  `StaleCancel = TRUE` it breaks `Custody`. A staged body whose journal does not
  say so blocks the operation (`:336`).
- Encrypted: the receiver takes the number of the next packet from the stored
  checkpoint (`encryptedUploadV2Host.ts:2023`); the design document of the transfer
  says that "restoring the historical checkpoint sequence as that counter is
  invalid" (`:723`). So every RESUME that the device accepts fails: at the first
  window as a violation of the protocol, or, when nothing is left to send, at the
  final number 0 as a mismatch (`:2120`). A recording whose upload the service
  completed before the confirmation was recorded stays on the device as long as
  its retries resume. Modelled: without `dev.num = 0` TLC refutes `FreshAgrees`.
- Encrypted: the journal is moved to "transferring" by its first call only
  (`recordingManager.ts:559`). If the page goes away before that, or the session of
  an operation in "prepared" is replaced (`:669`), the resumed operation
  transfers the whole recording and is then refused the phase "staged" (`:748`,
  `indexedDbWorkflowStore.ts:839`), at every attempt. Modelled: `RunsEnd` excepts it.
- Encrypted: a repair that is lost ends the transfer
  (`encryptedUploadV2Host.ts:763`); the pump is not joined by the cleanup (`:1642`,
  `:2067`); an unrecorded confirmation stays open until it is resumed (`:1598`).
- Firmware: a refused image leaves a verified journal without an image, from
  which no call leads on (`otaManager.ts:323`, `Lost`); a checkpoint
  "reconnecting" survives a rollback of the device (`firmware_update.rs:855`); a
  loss of the link before the write's callback fails an update the device
  accepted (`:653`).
- Provisioning: a result that is lost or late lets the manager abort an attempt
  the device has stored (`provisioningManager.ts:351`); a `prepare` of the
  provider that does not settle is ended neither by the timer nor by the loss of
  the link; a cancellation between completion and handoff leaves a journal
  "prepared" although the device has the credential. Deprovisioning listens
  after the command's callback (`:477`, `:503`): a result that overtakes it is
  not heard and the call times out although the credential is gone; and an
  attempt that was `device_applied` before is confirmed to the provider after
  it was removed.

## 4. What is proved

`RecordingTransfer_proofs`, for every number of packets, queue capacity, batch
size, modulus, set of faults and number of attempts, on both hosts:

- `TypeInvariant`: `Spec => []TypeOK`.
- `CustodyHolds`: `PlainTransfer => (Spec => []Custody)`.
- `CustodyRefinement`: `PlainTransfer => (Spec => KeepsCustody)`, the refinement
  of `RecordingCustody`.
- `CustodyInvariant`: the inductive invariant behind both.
- `DeliveredWholeHolds`: `PlainTransfer => (Spec => []DeliveredWhole)`.
- `CheckpointExactHolds`: `Strays \subseteq Streamed => (Spec => []CheckpointExact)`.
- `CountInvariant`: the inductive invariant behind it, under the same assumption.

`PlainTransfer` says that the recording is not relayed, that stray packets are
not relay packets, and that the application does not cancel in phase
Confirming: what finding 1 and the second defect of the transfer in section 3
show to be necessary. The other
assumptions are `ReducerAssumption` and `HostAssumption`, the types and ranges
of the constants, which TLC evaluates in every run.

`Custody` is not inductive: a CONFIRM under way could meet a file that is not
whole. `CustodyInv` adds what may be outstanding in each phase
(`OpsFollowPhase`), that from the verification on the file is whole and, on
Apple, no save is in flight whose failure could end the workflow
(`VerifiedIsWhole`), that CONFIRM is outstanding only in phase Confirming of a
running workflow, so that no cleanup of a later attempt can race it
(`ConfirmIsRunning`), and that after the release nothing is outstanding that
touches the file (`ReleasedIsFinal`). TLC checked `CustodyInv` before it was
proved. The lemmas about the handlers of the reducer say that each keeps the type
of the workflow and which effects it can request in which phase; the proof about
`RecordingTransfer` has one step per action on top of them.
`DeliveredWhole` needs one fact more: when a transfer completes, and as long as
it is reported as completed, nothing is outstanding that touches the file. The
run `rt_relay` checks it for a relayed recording, whose EOF carries no checksum;
the theorem is about plain ones.

`CheckpointExact` is proved for plain and relayed recordings. Its assumption is
that the device sends the packets of one kind of recording (`Streamed`), in any
order and with any numbers. `CountInv` says that the checkpoint, every save under
way and the workflow are each at a `Point` of the stream, that an append under
way reaches the next one, and that the file of a native host has the units the
workflow counts, which is what the code takes for the new offset there. The
proof goes through the queue: `AppendBatchCounted` shows that a batch has as
many units as sequences, `AbsorbPoint` that the packets which `Drain` passes over
move nothing, and `ExpectedFollows` that a number which wraps repeats a packet and is
dropped, so that no bound on the length of the recording is needed.

`Connection_proofs`, for every set of peripherals, names, serial numbers and
hints, every set of faults and number of operations, on both hosts:

- `TypeInvariant`: `Spec => []TypeOK`.
- `IdentityHolds`: `Spec => []IdentityVerified`.
- `RetiredFirstHolds`: `Spec => []RetiredFirst`.
- `ExhaustiveHolds`: `Spec => []Exhaustive`.
- `LinksOwnedHolds`: `"disconnect" \notin Faults` implies `Spec => []LinksOwned`.
- `LinkInvariant`: `Spec => [](IInv /\ LnkInv)`, the invariant behind the last
  two.

They rest on `ConnectionReducerAssumption` and `ConnectionAssumption` alone. The
first four hold when a `Disconnect` fails, which costs a second link and never
an identity; `LinksOwned` does not (`connection.rs:718`, section 3).
`IdentityVerified` is not inductive: a save under
way could be of a peripheral nobody read. `IInv` adds that a save is only
pending for the active candidate of a workflow whose device answered the read,
that in phases Discovering and ReadingSerial reads go to the active candidate
(`OnRadio`), what the host may still have to settle in each phase (`Owed`: an
operation on the active candidate, of the kind the phase waits for, of any kind
while it is disconnecting) and that the deadline of an attempt runs only during
one (`Armed`). The proof is modular: `Good(r, o, rad)` says what an answer `r`
must satisfy for the host to take it while the operations `o` remain and reads
go to `rad`; one lemma per handler shows that its answers are good,
`DispatchKeeps` and `DeliverKeeps` that a good answer keeps the invariant, and
one step per action puts the two together.

`LnkInv` adds the links, the scan and the candidates. Unless a `Disconnect` may
fail, the link of a running workflow is the one of its active candidate, and
there is none while it scans or connects (`Held`); a workflow that is over has
no link but the application's and none coming, or its release is still to come
or was refused (`Owned`). A scan is stopped or its workflow still waits for it
(`Scans`). The candidates a reconnection has not tried are on the list of
probes, at the index or after it (`Sought`): the code takes the candidate whose
rank in the list is the index, so the proof needs that ranks in a finite set
have no gaps and no repetitions (`RankNoGap`, `RankInjective`), from the
library's theorems on cardinality and well-founded orders. TLC checked `LnkInv`
with and without failing disconnections. The proofs have the same shape: `Tidy`
takes the place of `Good`.

`WebHosts_proofs` proves of `WebRuntime`, for every number of operations and of
events that the engine answers, from `BoundsAssumption` alone:

- `ReleasedCleanHolds`: `RuntimeSpec => []ReleasedClean`.
- `ConfirmedNotCancelledHolds`: `RuntimeSpec => ConfirmedNotCancelled`, a property
  of steps.
- `TruthfulOutcomeHolds`: `RuntimeSpec => TruthfulOutcome`, another.
- `RuntimeInvariant`: `RuntimeSpec => [](RuntimeInv /\ CoreOK)`, the invariant behind them.

What the caller is told at the release rests on everything the threads of the
owner did before. `Sound` says it of one owner: how far each of its ends may
have come (`Paths`); that a cancelled generation subscribes to nothing and, while
its engine has still to be cancelled, has no effect queued or under way unless
the link was lost (`QuietOwner`), which is why a late subscription cannot escape the
cleanup and a late event cannot complete an engine that is about to be
cancelled; that a confirmation that was sent has its pump waiting for it, and a
cancellation begins only before it is sent or after it is answered
(`Confirmation`); and that a success, its evidence and a cancellation are what
the engine says (`Evidence`). `Linked` adds that a link which `connectedDevice`
does not name is being taken down. One lemma for each helper
(`FinishSuccess`, `EnterCancellation`, `FailOwner`, `EnqueueEffects`, ...) shows
that it keeps an owner sound; `DispatchSound`, `ExecuteSound` and `AnswerSound`
combine them, and one step per action uses those.

and of `WebRecordings`, for every set of operations, length of the recording,
number of faults and of cancellations:

- `CustodyHolds`: `Spec => []Custody`.
- `JournalHonestHolds`: `Spec => []JournalHonest`.
- `TypeInvariant` and `Invariant`.

All assume `~StaleCancel`: the application does not start an operation anew
while its own cancellation of the same operation still deletes, the defect of
section 3 that breaks `Custody`. The invariant says for every operation what its journal
claims of the body and of the service (`Honest`) and, by the step of its call,
which phase the code has brought the journal to (`Follows`); between two awaits
nobody else writes that journal, which is what the exclusion of calls on one
operation gives.

`ManagedUpload_proofs`, for every number of sessions, nonces, expiries, faults,
cancellations and recovery hops, with and without a local transfer:

- `SingleCreateHolds`: `Spec => []SingleCreate`.
- `NothingForgottenHolds`: `Spec => []NothingForgotten`.
- `LocalResumableHolds`: `Spec => []LocalResumable`.
- `TypeInvariant`, and `Invariant`, the inductive invariant behind them.

None of the three is inductive: that the service creates nothing twice rests on
what the call has already written to its journal when the request leaves, and a
request may still be under way after its call was cancelled or its process
ended. `IInv` says what the journal holds at each step of the call
(`JournalFollows`), which request and answer may be under way there
(`NetFollows`), that a creation is requested, delayed or executed at most once
(`CreatedOnce`), that the sessions form one chain of successors and a recovery
continues it at the session of the journal (`Lineage`), and that the checkpoint
of a local transfer is of the journal's session or of one it recovered from
(`Backed`).

`WebProvisioning_proofs`, for every set of attempts, number of chunks, of
faults, of lost results and of removals:

- `OneUnresolvedHolds`: `Spec => []OneUnresolved`.
- `JournalTruthfulHolds`: `Spec => []JournalTruthful`.
- `HeardNotAbortedHolds`: `Spec => HeardNotAborted`, a property of steps.
- `TypeInvariant` and `Invariant`.

The device's result carries no attempt, so a result that is heard must be shown
to be about the attempt of the call. `IInv` therefore follows it from the
device to the workflow: whose credential the device is storing and whose results
are under way (`Heeds`), that a write under way is the one the workflow asked
for (`Busy`), which effects are outstanding in each phase (`Works`), where the
call has brought the journal (`Follows`) and that no other journal is open
(`Single`). `ProvisioningAssumption` makes attempts naturals, which tells them
from a removal.

`WebFirmware_proofs`, for every number of chunks, window, modulus and number of
faults, cancellations and losses:

- `CheckpointBackedHolds`: `Spec => []CheckpointBacked`.
- `TypeInvariant` and `Invariant`.

`IInv` says that a write of the image carries one that passed its checks, and
that "verified" is only notified by a device that accepted it (`OnAir`); that a
checkpoint is backed by a verified journal and is gone before that journal is
replaced (`Backed`); that an image called verified is not a wrong one, and whole
while a workflow runs (`Image`); and that every phase and effect beyond the
download rests on such an image (`Entitled`).

`WebEncryptedUpload_proofs`, for every size of recording, window and document,
number of sessions, faults, cancellations and losses, from `UploadAssumption`
alone:

- `CustodyHolds`: `Spec => []Custody`.
- `CheckpointBackedHolds`: `Spec => []CheckpointBacked`.
- `TypeInvariant` and `Invariant`.
- `FreshAgreesHolds`: `Spec => []FreshAgrees`.

The device deletes on a receipt it verified, and the verification is a write
with a result that is heard later, over a link that is lost and set up again.
`IInv` adds that a run works on the stored operation and its stored checkpoint
(`Fits`); that an unanswered request is the one the run waits for (`Asks`); that
what is staged or uploaded is whole, a completed session has its manifest and a
manifest a whole body (`Chain`); that a receipt, wherever it is (being written,
being verified, kept by the device), is of a completed session (`Receipts`);
and that the result which the writer of a document hears is about that document
(`Heard`). The last needs that `FreshId` never returns the identifier of a
document under way, a counting argument over the identifiers in use with the
library's theorems on finite sets.

`FreshAgreesHolds` is about a transfer that the device began with START, after
any history: an earlier transfer may have been resumed and refused, cancelled,
cut off or replaced. A resumption is refused (section 3), so the invariant must
know both. `Line` is the agreement of host and device and holds from the START
on; `Resumed` is what holds from the acceptance of a RESUME to the end of that
call, which comes at the first window or end of file; `Over` says what a
transfer leaves behind when its call is over, and `Verdict` which ends a call
can have had. The invariant is `IInv` with the last two and one of the first.
In `Line`, what is under way (`Coming`) are the frames held back during the
opening and then those in the air. `Due` says that they are what the control of
the transfer expects: the packets of the window that is wanted, or the
manifest, and then exactly one end; in a repair each missing packet at most
once; else nothing but results of earlier writes. `Queued` says the same of
what the pump has still to take, `Counts` that the packets collected and
missing are of the current window, `Places` which control a step of the run can
have, `Heeds` that the queue breaks for a repair that is lost again and for
nothing else. `Asked` and `Based` tie an unanswered request to what the device
will answer, `Travels` an answer under way to the checkpoint the request named,
`Stages` the staged body to the offset of receiver and checkpoint. Frames are
taken out of the middle of sequences when they are lost or delivered; the
lemmas about `Without` say what that preserves of `Ends` (one end, after frames
of its kind only) and `Once`.

`NativeWorkflows_proofs`, for every set of families, of commands, number of
packets, fragments, units of a chunk, repetitions, operations, faults,
cancellations, losses and restarts:

- `ToldTruthfully`: `NativeSpec => []Truthful`.
- `LinesWhole`: `NativeSpec => []NoSplicedLine`.
- `CancelledQuiet`: `NativeSpec => []Quiet`.
- `ReceiptSafe`: `NativeSpec => ReceiptCovered`, a property of steps.
- `DeletedFinalized`: a recording is deleted only when the service finalized it,
  whatever is lost and whatever the sequences do.
- `DeletedWhole`: `Units <= SeqMod` implies `NativeSpec => StreamWhole`: then the
  service has what the phone heard, too.
- `NativeInvariant`: `NativeSpec => []NativeInv`, the invariant behind them.

They rest on the types of the constants (`NativeWorkflowsAssumption`,
`StreamReducerAssumption`, `LogsReducerAssumption`). `DeletedWhole` alone needs
more: beyond the modulus of the sequence the workflow takes new packets for
repetitions (`streaming_transfer.rs:281`), and the number of a sealed unit no longer
names it. It says nothing of packets that the radio lost, which the code does not
notice.

A behaviour belongs to one family, so that `NativeInv` is one invariant for each
(`ResetState`, `StreamState`, `HandoffState`, `LogsState`, `DiscoverState`) and
what the application was told (`ToldRight`). The five share the executor:
`HostShape` says that all that is submitted is live while an operation runs and
that nothing is when it ends. What makes them inductive:

- Reset. In each phase the workflow waits for certain identifiers and certain
  effects may still run (`ResetWaits`, `ResetLive`); past the save of the result
  the journal has it and the application that asked for it, too (`Kept`), and
  past the receipt the device was wiped and holds no result (`Acked`). An opcode
  that the device executes before its callback (`OpcodeAhead`) and an early
  result may arrive in the same phases; neither tells of a wipe that was not
  (`ResetTold`).
- Stream. The workflow, the sink and the service count the same packets, the
  plaintext ones unit by unit (`Counted`, `SinkHolds`). Packets on their way are in
  order, and what was heard is taken or still to come when the end is (`InOrder`);
  the unit with the key is uploaded before another one is taken (`Keyed`). From the
  acknowledgement on the service has what was heard (`Whole`). A cancelled
  transfer has its abort still to write, or the device is silent and no start is
  under way (`StreamEnding`).
- Handoff. What was decided is so of the device (`Decided`), and stays so:
  nothing that could trigger an upload is under way once a fallback was chosen.
- Log. The buffer of the decoder has fragments of the line that the expected
  packet belongs to, or that packet does not come any more (`Unbroken`).

Every handler of a reducer answers with a step of its family (`ResetStep`,
`StreamStep`, ...), whatever the event; `Accept`, `CancelOperation`, `Settle` and
`SettleFailed` of the executor take such a step to a host that is sound again;
and one lemma for each action of the module applies those to the effect that the
action settles.

In each of these modules TLC checked the inductive invariant on the run's
instance before it was proved. The proofs have one lemma for every action; what
several actions need (an answer of the workflow, an effect that is done, the end
of a call) is a lemma about the operator they share.

Only model-checked, safety: `DeliveredWhole` of the relayed
recording, whose content no checksum covers, and the properties of
`NativeEncryptedUpload`. Only model-checked because
the prover does not reach them: the properties of liveness (`Terminates`,
`EveryRunEnds`, `EndingSettles`, `CompletedRetires`, `RunsEnd`,
`Retires`, `AppliedConfirms`, `Progresses`, `Delivers`, `OperationEnds`), which
rest on fairness and ENABLED, and whatever needs an induction over data.

## 5. Plan

Done: every workflow of the core with a host that runs it, the encrypted upload
on both JavaScript hosts, managed uploads, the browser's runtime and managers.
Left, in this order:

1. Theorems: `WindowDurable` and `NeverRefused` of `NativeEncryptedUpload`.
2. `WebEncryptedUpload` and `NativeEncryptedUpload` have a device of
   their own each; a common module of it would let one proof serve both.
3. The upload queue of React Native and its recovery, and the recovery record of
   an upload to a customer's own storage (`model/byo_upload.rs`).
4. Android as a third scheduler of `RecordingTransfer` and `Connection`.
5. The control, Wi-Fi and log managers, which run without the engine.

## 6. Not modelled

- Codecs, generated code, bindings, the facades of the managers and frameworks,
  the watch packaging and the build: marshalling without state of their own.
  `PROJECT.json` gives the reason for each.
- The Android runtime, which launches a coroutine per effect: a third scheduler.
- The controls of a device that do not use the engine (`deviceControls.ts`, the
  control, Wi-Fi and log managers of the browser, diagnostic events), settings,
  the signed documents and the upload queue of React Native, uploads to the
  storage of a customer.
- Several devices, tabs and tenants at once, and identity mismatches: the models
  have one recording, one operation or one device and what races within it.
- Cryptography is treated as perfect: a checksum or digest that matches means
  the bytes are the recording, and a receipt is what the service issued.
