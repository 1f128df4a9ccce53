# Formal models of the Mbed CE Azure IoT OTA client

This directory holds TLA+ models of the firmware-update code under
`src/mbed/COMPONENT_AZIOT_OTA/`. It also holds the TLC configurations that
model-check them and TLAPS proofs of their main safety properties.
`PROJECT.json` is the machine-readable index. It maps every model definition to
the source lines it translates, and lists every run, mutant, finding, hazard and
theorem.

## The system and its parts

| Part | Source | Model |
|---|---|---|
| Update lifecycle: `Download`, `Apply`, `IsInstalled`, and the post-reboot routine `Update_NVImgUpgSt_PostReboot` (a global constructor run at every boot), together with MCUboot's swap decision at boot and power loss | `mcubupdate_handler.cpp` | `McubUpdate` (instance `MC_McubUpdate`) |
| Non-volatile upgrade state: the KVStore record `OTA_NonVolatileImageUpgradeState_t` and the `nvImgUpgSt_*` routines | `mcubupdate_handler.cpp` 55-87, 1067-1286 | `NvImgUpgSt` |
| Aligned block writer: `CombinedDownloadInstall`, `bd_read_program_unit`, and the read-back in `VerifySignature` | `mcubupdate_handler.cpp` 598-954, 1290-1315 | `AlignedWriter` |
| Device-to-cloud messaging: pending store, processing context, retry table and response callback | `d2c_messaging.cpp` | `D2CMessaging` (instance `MC_D2CMessaging`) |
| Platform layer: the operation callbacks, `AsyncTaskCallback`'s worker thread, the `MbedPlatformLayer` wrappers with their cancellation flag, `Cancel`, `Idle`, `IsInstalled` | `mbed_adu_core_impl.hpp`, `mbed_adu_core_impl.cpp` | `PlatformLayer` |
| Extension manager: the content-handler cache of `LoadUpdateContentHandlerExtension` | `extension_manager.cpp` 127-207 | `PlatformLayer` |
| What `IsInstalled` promises, with resets and faults abstracted away | (abstract) | `InstalledCriteria`, refined by `McubUpdate` |
| Secondary block device factory, device info, diagnostics, header patches | see `PROJECT.json` | not modelled: configuration, formatting or stubs |

### How the parts interact

The ADU agent's workflow calls the update handler in this order:
- `Download` calls `OTACtx_Reinit`. That resets the record and erases the secondary slot.
- The HTTP body callback `CombinedDownloadInstall` writes each chunk. It saves the stage version when the MCUboot header is complete.
- `VerifySignature` reads the slot back.
- `Apply` stores the stage installed-criteria, marks the secondary image pending with `boot_set_pending(false)`, writes `installRebooted = false`, and requests a reboot.

At the next boot, MCUboot swaps the pending image in for a test. Then
`Update_NVImgUpgSt_PostReboot` does the following:
- it sets `installRebooted`;
- it confirms the image when the record's stage version equals the primary header's version;
- it either settles the criteria into the persistent field, or resets the record and calls `NVIC_SystemReset` so that MCUboot reverts.

`IsInstalled` compares the persistent criteria with the workflow's. The agent
reports the result to the cloud through D2C messaging.

The agent reaches the handler through the platform layer. Each operation
callback starts a worker thread (`AsyncTaskCallback`). The worker looks the
update-manifest handler up through the extension manager, runs the handler's
operation, and reports the result with `WorkCompletionCallback`.
`CancelCallback` runs on the agent's main thread, concurrently with the
worker. It sets `_IsCancellationRequested` and then calls the handler's
`Cancel`, which sets the workflow's cancel flag that `Download` and `Apply`
poll.

## Modules

### NvImgUpgSt

The record is modelled as a TLA+ record, plus the model value `NoRecord` for
"`kv_get` fails or the size differs". Each routine is an operator on the record:
- `nvImgUpgSt_reset` keeps the fields from `reserved` onward unless `includeReserved` is set;
- `nvImgUpgSt_settleInstalledCriteria` copies the stage criteria to the persistent field and clears the stage field;
- `nvImgUpgSt_installed` compares the stage version with the running image's version.

The guards (`setStageVersionGuard`, …) are the early returns of the setters. A
`kv_set` writes the whole record or fails and keeps the old one; this is
`StoreIf` in `McubUpdate`. Criteria strings are model values. `LongCriteria`
are those longer than `INSTALLEDCRITERIA_MAXCHAR`.

### McubUpdate

The variables are:
- `nv`: the record;
- `prim` and `sec`: the two slots, each with its image, whether it is whole, and the MCUboot trailer flags;
- `pc`: the agent's position;
- `wf`: the workflow's image, and whether `Download` succeeded;
- the history variable `everConfirmed`;
- the counters `crashes` and `deploys`.

Every persistent write is one action, so a power loss (`PowerLoss`) can fall
between any two. The persistent writes are a `kv_set`, a trailer write and the
erase. Each write may fail when `WriteFaults` is set; each flash read may fail
when `ReadFaults` is set. The actions are:
- `PostReboot1`…`PostReboot4`: the four writes of the post-reboot routine;
- `DownloadStart`, `DownloadErase`, `DownloadHeader`, `DownloadBody`, `DownloadAbort`, `DownloadVerify`: the steps of `Download`;
- `ApplyStageCriteria`, `ApplySetPending`, `ApplySetRebooted`: the three steps of `Apply`.

`McubootBoot` is modelled from the spec and MCUboot's swap table, because
MCUboot is not in this repository. It has three cases:
- REVERT an unconfirmed test image, without validating the secondary slot;
- TEST a pending, whole, signed image;
- otherwise do nothing.

### AlignedWriter

This module models the byte level. The device is NOR flash: a byte is a set of
bits, erased means all bits are set, and a program intersects. The variables
are `data` (the image), `dev` (the slot), `offset` and `phase`, plus
`lastReads`, the read operations of the last step.

`DownloadChunk` takes a chunk of any length up to `MaxChunk`. It is the whole of
`CombinedDownloadInstall`:
- the unaligned head: a read-modify-write of the program unit, splicing at the intra-unit position;
- the aligned middle;
- the unaligned tail: a read-modify-write of the unit at the aligned offset.

The tail unit is programmed again by the next chunk's head.

`VerifySignature` reads whole read blocks, then the last partial one. When the
copy in `bd_read_program_unit` falls outside the read-block buffer, the bytes
it copies are a nondeterministic choice (`Fills`). This is undefined behaviour
that the model makes explicit.

The constants are the program size `P`, the read-block size `R`, the slot size
`Slot`, the image length and the largest chunk. `WriterAssumption` asks only
what the code or the device guarantees: `R >= P` (asserted at line 1298) and a
slot that is a whole number of program units. The code takes
`R = max(FWU_READ_BLOCK_DEFSIZE, read_size)` (lines 996-1001) and never checks
that the slot is a whole number of read blocks, so the model does not assume it
either (finding 13).

### D2CMessaging

This module models one message type. The pending slot `pending` and the
processing context `ctx` are both modelled, with the context's message, retry
count and next retry time. It also models:
- `transport`;
- `inflight`: the requests the hub client accepted;
- `now`: the clock;
- `mutexAlive` and `initialized`.

Every function runs under its mutexes, so each one is a single action:
`Init_D2C`, `Uninit`, `SendAsync`, `SetTransport`, `ProcessMessage` (with the
default transport function inlined as `Send`) and `Respond`. `Respond` is the
callback on the hub client's thread. It uses the default retry table
(`RetryInfo`, scanned by `FirstRow`).

The responseCallback of a message owner may ask to stop, to retry, or to retry
at a time it sets. A response that locks the destroyed mutex sets `halted`,
which stands for an mbed fatal error.

The model also has history variables. `live` is the set of allocated contents.
`completions` counts the `OnMessageProcessingCompleted` runs for each content.
`answered` records which request a response answered, and which message the
response was applied to. `ownerRetry` holds an owner-requested retry time.

### PlatformLayer

The module has two threads: the worker (`worker`, a record of its operation,
deployment, pc and result) and the main thread inside `Cancel` (`mainPc`).
Each pc value is one step of the code between two points where the other
thread can run:
- `WorkerLoad` is the manifest-version test of `GetUpdateManifestHandler`.
- `WorkerInsert` is the cache lookup and emplace of the handler.
- `WorkerRun` and `WorkerStage` are the content handler's operation. `Apply`'s writes are a step of their own.
- `WorkerCheck` is the wrapper's test of `_IsCancellationRequested`.
- `WorkerPost` is `WorkCompletionCallback`.

`CancelCall`, `CancelLoad` and `CancelRequest` are the three steps of
`MbedPlatformLayer::Cancel`. `Idle` and `IsInstalled` are single steps.

The ADU agent is not in this repository, so it is the environment. It runs
one operation at a time, in the order Download, Backup, Install, Apply. It may
call Restore after a failed Install or Apply. It cancels only while it waits
for a completion. It starts the next deployment after `Idle`, or straight away
when it cancelled the last one to replace it.

The extension manager's cache is `cached`, the set of handler types in
`_contentHandlers`. `inMap` is the set of threads between their lookup and
their emplace. History variables record what went wrong: `leaked` (a created
handler neither cached nor freed) and `raced` (an emplace of a new key while
another thread was inside the map). `reported` is every result the agent
received, each with whether a cancel was called during its operation and
whether the image was left pending.

### InstalledCriteria

This is the abstract promise behind `IsInstalled`. It has two variables:
- `installed` is the settled criteria;
- `confirmed` is the set of images that have run confirmed.

An image joins `confirmed` by `Confirm`. `Settle` sets `installed` to the
criteria of an image already confirmed. Nothing else changes either variable,
so a settled criteria is never lost.

`McubUpdate` defines the mapping `Abs`:
- `installed` is `InstalledOf(nv)`, what `nvImgUpgSt_persistentInstalledCriteria` reads;
- `confirmed` is `everConfirmed`.

`AbsSpec == Abs!Spec` is checked as a property.

## Runs

| Run | Checks | Result | What it shows |
|---|---|---|---|
| `MC_McubUpdate.cfg` | TypeOK, SettleSound, IInv, AbsSpec | pass | With every write and read able to fail and one power loss anywhere, a settled criteria always belongs to an image that ran confirmed. The proof's inductive invariant also holds. The lifecycle implements `InstalledCriteria`: every step is a `Confirm`, a `Settle` of a confirmed image's criteria, or a stutter. No write loses the settled criteria, `nvImgUpgSt_reset(false)` included. |
| `MC_McubUpdate_crash.cfg` | SettledMatchesRunning, SettledIInv, RebootResolves | pass | With reliable writes and one power loss, the settled criteria equal the running image's criteria whenever the agent is idle on a kept image. The proof's inductive invariant `SettledIInv` also holds. A requested reboot always resolves to a kept image. |
| `MC_McubUpdate_brick.cfg` | NeverBricked | violation | Finding 1 below. |
| `MC_McubUpdate_collision.cfg` | SettleSound | violation | Finding 2 below. |
| `AlignedWriter.cfg` | TypeOK, WrittenIsImage, ReadsInBounds, AheadErased, WInv | pass | For every split of a 7-byte image into chunks of 1-3 bytes (P=2, R=4, an 8-byte slot), the slot ends holding the image, every read is inside its buffer, and no byte past the offset is programmed. The proofs' inductive invariant `WInv` also holds. |
| `AlignedWriter_overread.cfg` | ReadsInBounds | violation | Finding 4 below. |
| `MC_D2CMessaging.cfg` | CompletedOnce, ResponseMatches, D2CIInv, PendingTaken | pass | Every message is completed exactly once at most. Responses reach the message they answer. A pending message is never starved. The proofs' inductive invariant also holds. |
| `MC_D2CMessaging_uninit.cfg` | NoFatalError | violation | Finding 7 below. |
| `PlatformLayer.cfg` | TypeOK, CancelledNeverSucceeds, NoCancelSuccessLeak, PlatformIInv | pass | In every interleaving of a Cancel with the worker, an operation other than Restore that a cancel reached before its flag test is never reported as a success. The handler's own `Cancel_Success` never reaches the agent. The proofs' inductive invariant also holds. |
| `PlatformLayer_apply.cfg` | CancelledLeavesNoPending | violation | Finding 8 below. |
| `PlatformLayer_stale.cfg` | NoSpuriousCancel | violation | Finding 9 below. |
| `PlatformLayer_leak.cfg` | NoHandlerLeak | violation | Finding 10 below. |

For every property of a passing run, `PROJECT.json` names a mutant. A mutant is
a plausible bug in a mapped definition: a dropped guard, a wrong order, or a
missing status update. TLC finds the property violated under each one.

### Findings

Findings 3, 5, 6, 11, 12 and 13 have no violation run of their own. TLC finds each
property violated when it is checked on the instance named in the finding.

1. **Brick after a power loss in Apply.**
   - A power loss after `boot_set_pending` makes MCUboot test the new image. The reset happens before `installRebooted=false` is written.
   - The post-reboot routine does not confirm the image.
   - A new `Download` then erases the secondary slot (line 1009), which holds the only copy of the old image.
   - The next reset reverts to the erased slot.
2. **Version collision (spec gap).**
   - `nvImgUpgSt_installed` identifies the staged image by `ih_ver` alone (line 1184).
   - When two deployments carry the same version, the criteria of an image that never ran is settled.
3. **Unchecked `setInstallRebooted(true)`** (`RebootResolves` on the instance of `MC_McubUpdate.cfg` with `MaxCrashes = 0` and `ReadFaults = FALSE`).
   - The post-reboot routine ignores the result of this write (line 102).
   - If the `kv_set` fails, the test image is neither confirmed nor reverted until some later uncontrolled reset.
4. **Over-read in `bd_read_program_unit` (spec gap).**
   - The assertion `readblock_size >= progunit_size` is what spec.md calls the invariant, but it is not enough.
   - When the read block is not a multiple of the program unit, the copy at line 1310 reads past the buffer, and the garbage is programmed into the image.
   - With `R = max(1024, read_size)`, this needs a program size that does not divide `R`.
   - The assertion at line 1303 catches a unit that starts before its read block, but only in a debug build. A unit that starts inside its read block and ends past it is caught by neither assertion (offset 2 with `P = 2`, `R = 3`).
5. **Leak in `SendAsync`** (`NoLeak` on the instance of `MC_D2CMessaging.cfg`). A replaced pending message without a
   `completedCallback` is never freed (line 618).
6. **Owner retry time lost** (`OwnerRetryKept` on the instance of `MC_D2CMessaging.cfg`).
   - `previousRetryTimeStamp` is read after `responseCallback` ran (line 261).
   - So a retry time that the callback set is overwritten by the default back-off, against the comment at 275-277.
7. **Response after Uninit.**
   - The callback's comment says a late response is a no-op.
   - But the callback first locks the context mutex, which `Uninit` destroyed (line 560).

8. **A cancelled Apply leaves the image pending.**
   - `Apply` tests the workflow's cancel flag (handler line 470) before its writes and `boot_set_pending(false)` (line 484).
   - A `Cancel` that lands after that test and before the wrapper's test of `_IsCancellationRequested` (`mbed_adu_core_impl.cpp` line 235) makes the wrapper report `Failure_Cancelled`.
   - But the secondary image is already marked pending, and the next reset swaps it in.
   - Caveat: for the update-manifest types, the extension manager hands the wrapper a `StepsHandlerImpl` (`extension_manager.cpp` lines 162-168). Its source is not in this repository, and it runs the MCUboot handler as a child. The model lets the wrapper call the MCUboot handler's `Apply` directly. If the steps handler runs the child's writes inside its own `Install` instead, the same race sits between the handler's test and the wrapper's test in `Install` (line 211). The window is the same, but the operation named in the report differs.
9. **A stale cancel flag cancels the next deployment.**
   - When the manifest lookup fails, the wrapper jumps past its flag test (line 164).
   - A `Cancel` that arrives while that completion is pending leaves `_IsCancellationRequested` set.
   - The agent then replaces the deployment without calling `Idle`. The next deployment's `Download` is reported `Failure_Cancelled` although nobody cancelled it.
10. **The handler cache never hits, and leaks.**
    - `LoadUpdateContentHandlerExtension` tests the cached entry only when `result` is a success, and `result` is still a failure there (line 154).
    - So every lookup creates a new handler. The emplace at line 197 keeps the old one, and the new one is never freed.
11. **The handler cache races** (`NoMapRace` on the instance of `PlatformLayer.cfg`).
    - `_contentHandlers` is a static map with no lock.
    - `Cancel` on the main thread and a worker can be inside the lookup and the emplace at the same time (line 197).
12. **Two power losses make `IsInstalled` name the wrong image** (`SettledMatchesRunning` on the instance of `MC_McubUpdate_crash.cfg` with `MaxCrashes = 2`).
    - It starts like finding 1: a power loss inside Apply, after `boot_set_pending`, leaves the new image in test and unconfirmed. The old image is in the secondary slot.
    - A new `Download` writes a whole third image over that slot.
    - A second power loss makes MCUboot revert to the secondary slot, so the third image runs, marked image-ok.
    - The post-reboot routine finds nothing installed. So `IsInstalled` still reports the criteria of the image settled before, which does not run.
    - With `WriteFaults = TRUE` or `ReadFaults = TRUE` instead, TLC finds `SettledMatchesRunning` violated without any power loss.
      - With write faults, the `kv_set` of `nvImgUpgSt_settleInstalledCriteria` fails after the new image was confirmed. The agent then runs it idle under the old criteria.
      - With read faults, `boot_read_image_ok` reads false in `PostReboot3` although `PostReboot2` confirmed the image. The routine takes the revert path and resets the record. But MCUboot keeps the confirmed image, and its criteria is never settled.
13. **Reads past the end of the slot** (`ReadsInBounds` on the instance of `AlignedWriter.cfg` with `R = 4`, `Slot = 6`, `ImageLen = 5`).
    - `VerifySignature` reads its last partial block whole ("buffer size is aligned instead of actual", lines 887-890). `bd_read_program_unit` reads the whole block that holds the unit (line 1305).
    - Nothing checks that the slot size is a multiple of `R`. When it is not, the last such read starts inside the slot and ends past it. TLC's trace: a tail unit at offset 4 makes the next head read block 4..7 of a 6-byte slot.
    - On the usual devices the slot is a multiple of its erase sector, which is a multiple of 1024, so this stays latent. It is a missing check, not a fault of any shipped configuration. The writer run uses a slot of whole read blocks.

The modelling also settles one question that spec.md leaves open ("unflushed
trailing partial program unit"). The tail of every chunk is programmed
immediately, padded with what the device holds, so nothing is left unflushed.
`WrittenIsImage` holds for every chunk split.

## Bounds

- **`MC_McubUpdate`**: two signed images, a bad image, one or two power losses, and two deployments. Two deployments are the fewest that let an earlier update's record, slot contents or settled criteria meet a later download. One power loss reaches every "crash between two writes" case, because every persistent write is one action.
- **`AlignedWriter`**:
  - P=2 and R=4 give both aligned and unaligned heads and tails.
  - A read block holds two units, so a head and a tail can share a read block.
  - A 7-byte image in chunks of 1-3 bytes covers every head/middle/tail combination, with 2-bit bytes.
  - The 8-byte slot is two read blocks, as a slot of whole sectors is on real devices. The last partial verify block is then inside the slot.
- **`MC_D2CMessaging`**:
  - Three messages are enough for a replacement while one message is in flight.
  - The four status codes exercise each kind of table row: success, no-retry, max-retry-0 with a calculator, and back-off.
  - The clock runs to 2, with delays of 1 and 2, so a retry can be due or not due.

- **`PlatformLayer`**:
  - Two deployments let a cancel of the first one meet the second.
  - Manifest versions 3, 4 and 6 cover the three paths of `GetUpdateManifestHandler`: failure below 4, the versioned type, and the fallback.
  - Write faults and start faults are on, so every failure path of `Apply` and of the thread start is taken.
  - `CHECK_DEADLOCK FALSE`: after the last deployment, the agent waits for a new one.

## Fairness

- **`McubUpdate`**: weak fairness for the post-reboot steps and for the requested reset.
  - The post-reboot routine is a constructor that runs to its end unless power fails.
  - `NVIC_SystemReset`, and the reboot that `ADUC_RebootSystem` schedules, do happen.
  - Downloads, `Apply` and power loss get no fairness.
- **`D2CMessaging`**: weak fairness for `ProcessMessage` and for responses.
  - `DoWork` is called every 100-200 ms by the agent loop; see the comment at `d2c_messaging.cpp` 359-362.
  - `PendingTaken` also assumes that the hub client answers every request it accepted. Without that assumption, one lost response blocks the message type forever (hazard at line 389).

## Proofs

TLAPS checks every proof:

- `NvImgUpgStProofs`: lemmas that each routine maps a well-typed record to a well-typed record. There are also field lemmas (`ResetFields`, `SettleFields`, …) saying which fields each routine writes and which it keeps.
- `McubUpdateProofs`: `THEOREM TypeCorrect == Spec => []TypeOK`. It is proved through the inductive `TypeInv`, which is `TypeOK` plus two facts:
  - the workflow image is a signed image once its header is accepted;
  - unless the device is bricked, the primary slot holds a signed image.
- `SettleSoundProofs`: `THEOREM SettleSoundProved == ASSUME VerInjective PROVE Spec => []SettleSound`, for all images, versions, criteria and fault settings. `SettleSound` is not inductive by itself. The proof uses `IInv`, which TLC also checks in the first run. `IInv` adds the following to `TypeInv`:
  - `ConfirmedHistory`: an image-ok primary image was confirmed.
  - `DownloadClean`: during a download the record holds no stage criteria.
  - `WorkflowStaged`: once the header is accepted, the stage version is the workflow image's.
  - `NotDownloaded`.
  - `StageConsistent`: the stage criteria and the stage version describe the same image.

  The key step is `PostReboot3`. Settling happens only when the stage version equals the running image's version and the image is confirmed. By `StageConsistent` and `VerInjective`, the stage criteria is then the running image's, and that image is in `everConfirmed`. The collision run shows that `VerInjective` is needed.

- `McubRefinementProofs`: `THEOREM RefinesInstalledCriteria == ASSUME VerInjective PROVE Spec => AbsSpec`. It follows the usual refinement argument:
  - `AbsInit`: the initial states map to abstract initial states.
  - `AbsStep`: between two `IInv` states, every step maps to a `Confirm`, a `Settle` or a stutter.
    - A reset or `boot_set_confirmed` adds one image to the history.
    - The settle in `PostReboot3` is a `Settle`. Its image is in the history by `SettleSound` in the next state, which `IInv` gives.
    - Every other write keeps the persistent fields. This includes `nvImgUpgSt_reset(false)` (`ResetKeepsInstalled`).
  - The step fact and `IInvStep` combine by PTL.

- `SettleSoundProofs` also proves `THEOREM IInvProved == ASSUME VerInjective PROVE Spec => []IInv`, the whole invariant the lifecycle run checks.

- `SettledMatchesProofs`: `THEOREM SettledMatchesRunningProved == ASSUME VerInjective, NoFaults, MaxCrashes <= 1 PROVE Spec => []SettledMatchesRunning`. It also proves `SettledIInvProved`, which states the inductive invariant the crash run checks, for all images, versions and criteria. The hypotheses are those of the crash run: distinct versions, no write or read faults, and at most one power loss. Finding 12 shows that the bounds on faults and power losses are needed. `SettledIInv` (in `McubUpdate.tla`) follows the image that MCUboot would run after the next reset. It adds the following to `IInv`:
  - `RunningSettled`: outside the post-reboot routine, a kept image has its criteria settled.
  - `SettlePending`: inside the routine, a kept image whose criteria is not settled yet is confirmed and staged with its reboot flag, so `PostReboot3` settles it.
  - `RebootedStaged`: a reboot flag names a staged image whose stage criteria is still kept, or whose criteria is already settled.
  - `RevertSafe`: an image in test that a reset would revert swaps back a whole image whose criteria is settled or staged.
  - `TestConfirms`: while a power loss may still come, an image in test is the staged one, and the routine is about to confirm it.
  - `ConfirmedBeforeSettle`: `PostReboot3` never takes the revert path.
  - `DownloadUnflagged` and `WorkflowSlot`: the download and Apply bookkeeping that these need.

  The proof has one lemma per action. The key steps are `Boot` and `PostReboot3`.
  - A test swap after Apply puts the staged image in test. The old, settled image becomes the revert's source.
  - A test swap by the last power loss leaves nothing a later reset could revert to.
  - In `PostReboot3`, `VerInjective` makes the staged criteria the running image's.

- `PlatformLayerProofs`: four theorems, for every number of deployments and every set of manifest versions.
  - `PlatformIInvProved == Spec => []PlatformIInv`, the whole invariant the platform run checks.
  - `PlatformTypeCorrect == Spec => []TypeOK`.
  - `CancelledNeverSucceedsProved == Spec => []CancelledNeverSucceeds`.
  - `NoCancelSuccessLeakProved == Spec => []NoCancelSuccessLeak`.

  Neither cancel property is inductive. A step of the worker or the agent can break either one from a state that satisfies both. The inductive invariant is `PlatformIInv` in `PlatformLayer.tla`, which the platform run also checks. It adds:
  - `OneOperation`: a running worker or an unconsumed completion keeps the agent `Busy`. So `Idle` never clears `_IsCancellationRequested` under a worker. The worker, the completion and a `Cancel` in progress all belong to the current deployment. Later deployments' cancel flags are clear.
  - `CancelHonoured`: a worker that `Cancel` reached before its flag test finds the flag set. A finished one that it reached was not a success.
  - `CancelPending`: once `Cancel` has begun for the current deployment, one of two things holds. Either `_IsCancellationRequested` is still set, or the deployment is `Spent`. `Spent` means it is finished, rebooting, restoring, or holds a failed result. Nothing left in it polls the workflow's cancel flag and reaches the wrapper's test. Also, `Cancel_Success` exists only at the flag test, with the flag set.

  `CancelPending` is what rules out the leak. `Cancel` sets `_IsCancellationRequested` before it sets the workflow's flag. Only a flag test clears it, and that test turns the result into `Failure_Cancelled`, which ends the deployment or sends it to `Restore`. So a handler that sees the workflow's flag always runs under a wrapper that sees `_IsCancellationRequested`. The proof has one lemma per action, for all 14 actions.

- `D2CProofs`:
  - `THEOREM CompletedOnceProved == Spec => []CompletedOnce` holds for every number of messages, codes, delays and `Init` calls.
    - Its inductive invariant, `ContentsOwned`, says the following. A content in the pending slot or the context is allocated and uncompleted. The two slots never hold the same content. So the `OnMessageProcessingCompleted` calls of one step each end a different message.
    - The lemmas cover `Send` (the three outcomes of the transport), `ResponseOutcome` and `Completing`.
    - `ResponseOutcomeShape` says the response callback either keeps the context's message for a resend and ends nothing, or ends exactly that message.
  - `THEOREM ResponseMatchesProved == ASSUME MaxInits <= 1 PROVE Spec => []ResponseMatches`, and `D2CIInvProved` for the whole `D2CIInv` that the d2c run checks.
    - Its invariant, `RequestsOwned`, says a request the hub still owes an answer is for the context's message, which is `Waiting_For_Response`. The only other case is that `Uninit` destroyed the mutex for good.
    - The hypothesis is necessary. No caller of `ADUC_D2C_Messaging_Init` is in this repository. With `MaxInits = 2` on the `MC_D2CMessaging.cfg` instance, TLC finds `ResponseMatches` violated. A request sent before `Uninit` is answered after a new `Init` rebuilt the mutex, and the answer is applied to the new context's message.

- `AlignedWriterProofs`: under the hypotheses `UnitsInBlocks == R % P = 0` and `SlotInBlocks == Slot % R = 0`, and for every program size, read size, slot size, image length and largest chunk:
  - `WInvProved == Spec => []WInv`;
  - `WrittenIsImageProved`, `AheadErasedProved` and `ReadsInBoundsProved`, the three invariants of the writer run;
  - `WriterTypeCorrect == Spec => []TypeOK`. `TypeOK` also needs `UnitsInBlocks`. On the overread instance (R=3, P=2), TLC finds `TypeOK` violated: a read's copy position is -1, before its read block.

  `WrittenIsImage` is not inductive by itself: it only speaks of the last step. `WInv`, which the writer run also checks, adds `Good(dev, offset)`. This says the slot holds exactly the image below the offset and erased bytes from it on. The argument has four parts:
  - `ChunkSplit`: the head ends at the next unit boundary (or the chunk's end). The middle is a whole number of units. A non-empty tail starts on a unit boundary inside the slot and is shorter than a unit.
  - `UnitRead` and `UnitBytes`: for an address in the slot, `bd_read_program_unit` reads a block inside the slot, copies from inside its buffer, and returns the device's bytes from the start of the address's unit. This is where `R % P = 0` is needed: it makes every read block start on a unit boundary (`DivTrans`). `Slot % R = 0` makes the block that holds an address of the slot end inside the slot (`MultGap`). `VerifyInv` uses it the same way for the last partial block.
  - `ProgramGood`: a program that covers `[o, o2)` moves a good slot at `o` to a good slot at `o2`. The condition is that it rewrites the bytes below `o` with their own values, writes the image in `[o, o2)` and erased bytes from `o2` on. NOR intersection is harmless on such bytes.
  - Head, middle and tail are three such programs in turn, from `offset` to `offset + n`. `VerifySignature` then hashes exactly the image.

  Both hypotheses are necessary. The overread run (R=3, P=2) violates `ReadsInBounds`, and so does the instance of finding 13 (R=4, Slot=6).

Only TLC checks the following:
- the liveness properties (`RebootResolves`, `PendingTaken`);
- `SettledMatchesRunning` with two power losses or with faults, where finding 12 shows it false;
- the writer properties when `R % P # 0` or `Slot % R # 0`, which the overread run and finding 13 show false.

TLAPS cannot reason about fairness or ENABLED, so the liveness properties stay with TLC.

## Not modelled

- The MCUboot image validation beyond "signed, whole image" (not in this repository).
- The HTTP client, beyond chunking and failures.
- The exponential back-off arithmetic of `ADUC_Retry_Delay_Calculator` (not in this repository); it is modelled as a fixed delay.
- `ADUC_D2C_Messaging_Set_Retry_Strategy`: the code only ever uses the default strategy.
- Several message types: they share only the store mutex.
- The parts of the platform layer that only forward or format: the `Sandbox*` callbacks, `DoWork`, registration, and device information. Diagnostics too. `ADUC_RebootSystem` is `McubUpdate`'s requested reset.
- What `~Thread` does to a worker still running when `AsyncTaskCallback` replaces it (`mbed_adu_core_impl.hpp` line 357). The agent never starts an operation before the last one completed, so the model cannot reach it.
- The extension manager's other loaders: only the content-handler cache is shared between threads.
- `StepsHandlerImpl`, which the extension manager creates for the update-manifest types (`extension_manager.cpp` lines 162-168). Its source is not in this repository. The model does not include its lookup of the child handler `nuvoton/mcubupdate:1`, which passes through line 170 and so meets the same race and leak as findings 10 and 11. Its translation of the child's results, the operation under which it runs the child's `Apply`, and its `Cancel` (called at `mbed_adu_core_impl.cpp` line 289) are left out too. `PlatformLayer` lets each wrapper call the MCUboot handler directly; finding 8 says what that changes.
- In `McubUpdate`, some device failures are left out or folded into others:
  - `nvImgUpgSt_installed` returns false when `flash_area_open` of the primary area fails (line 1193). This is not modelled: the area is a fixed entry of MCUboot's flash map, and its open fails only for an unknown area id.
  - An erase either completes or fails; a power loss in the middle of an erase is not modelled.
  - A digest mismatch in `VerifySignature` counts as a read fault, since `AlignedWriter` proves the written bytes are the image.
