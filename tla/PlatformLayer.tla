---------------------------- MODULE PlatformLayer ----------------------------
(***************************************************************************)
(* The Mbed platform layer of the ADU agent (mbed_adu_core_impl.hpp/.cpp)  *)
(* and the content-handler cache of the extension manager it goes through *)
(* (extension_manager.cpp).                                               *)
(*                                                                         *)
(* The agent calls DownloadCallback ... RestoreCallback on its main        *)
(* thread; AsyncTaskCallback starts a worker thread that runs              *)
(* MbedPlatformLayer::Download ... Restore and reports the result through  *)
(* WorkCompletionCallback.  Each of these looks the update-manifest        *)
(* handler up with GetUpdateManifestHandler, runs the handler's operation  *)
(* and then, except Restore, turns the result into Failure_Cancelled when  *)
(* _IsCancellationRequested is set, clearing the flag.  CancelCallback, on *)
(* the main thread, sets _IsCancellationRequested, looks the handler up    *)
(* too and calls its Cancel, which sets the workflow's cancel flag that    *)
(* MCUbUpdateHandlerImpl::Download and ::Apply poll.  Idle clears          *)
(* _IsCancellationRequested.                                               *)
(*                                                                         *)
(* The agent itself is not part of this repository; it is the environment *)
(* of the model (the Agent* actions): it runs one operation at a time in   *)
(* the order Download, Backup, Install, Apply, may Restore after a failed  *)
(* Install or Apply, cancels only while it waits for a completion, and     *)
(* after a finished workflow either calls Idle or, when it cancelled the   *)
(* workflow to replace it, starts the next deployment without Idle (the    *)
(* case the comments at "For replacement, we can't call Idle" name).       *)
(***************************************************************************)
EXTENDS Naturals, FiniteSets

CONSTANTS
  NumWf,              \* deployments the agent receives, one after another
  ManifestVersions,   \* update-manifest versions a deployment may carry
  WriteFaults,        \* a kv_set or boot_set_pending in Apply may fail
  StartFaults         \* rtos::Thread::start may fail

ASSUME PlatformAssumption ==
  /\ NumWf \in Nat \ {0}
  /\ ManifestVersions \subseteq Nat
  /\ WriteFaults \in BOOLEAN
  /\ StartFaults \in BOOLEAN

VARIABLES
  cancelReq,      \* MbedPlatformLayer::_IsCancellationRequested
  wfCancel,       \* per deployment: workflow_request_cancel was called
  manifest,       \* per deployment: its update-manifest version
  criteria,       \* per deployment: handlerProperties has installedCriteria
  cached,         \* ExtensionManager::_contentHandlers: the cached types
  inMap,          \* threads between their lookup and their emplace
  leaked,         \* a created content handler was neither cached nor freed
  raced,          \* a new key was emplaced while another thread was inside
  worker,         \* the running worker thread, or pc "Off"
  mainPc,         \* where the main thread is inside MbedPlatformLayer::Cancel
  mainWf,         \* the deployment that Cancel was called for
  ag,             \* the agent: "Ready", "Busy", "Finished", "Idle", "Rebooting"
  cur,            \* the agent's current deployment
  nextOp,         \* the operation the agent calls next
  done,           \* the completion the worker reported, not yet consumed
  pending,        \* the secondary image is marked pending (boot_set_pending)
  cancelCalled,   \* history: CancelCallback was called for a deployment
  reported        \* history: every result the agent received

vars == <<cancelReq, wfCancel, manifest, criteria, cached, inMap, leaked,
          raced, worker, mainPc, mainWf, ag, cur, nextOp, done, pending,
          cancelCalled, reported>>

Wf == 1..NumWf
Kinds == {"Download", "Backup", "Install", "Apply", "Restore"}
Results == {"None", "Failure", "FailureCancelled", "CancelSuccess",
            "DownloadSuccess", "BackupSuccessUnsupported", "InstallSuccess",
            "ApplyRequiredReboot", "RestoreSuccessUnsupported"}

(* IsAducResultCodeSuccess: every code but Failure and Failure_Cancelled   *)
(* is positive, Cancel_Success included.                                   *)
Success(res) == res \notin {"Failure", "FailureCancelled"}

(* The wrappers that test _IsCancellationRequested after the handler       *)
(* returns; Restore deliberately does not.                                 *)
CheckedKinds_NoInstall == {"Download", "Backup", "Apply"}

CheckedKinds == {"Download", "Backup", "Install", "Apply"}

(* The order the agent calls the operations of one deployment in. *)
NextKind(k) == CASE k = "Download" -> "Backup"
                 [] k = "Backup"   -> "Install"
                 [] OTHER          -> "Apply"

Off == [kind |-> "Download", wf |-> 1, pc |-> "Off", res |-> "None",
        cancelled |-> FALSE, marked |-> FALSE]

(* Worker steps before the flag test: a Cancel that sets the flag during  *)
(* one of them is one the operation can still honour.                     *)
BeforeCheck == {"Load", "Insert", "Run", "Stage", "Check"}

-----------------------------------------------------------------------------
(* GetUpdateManifestHandler loads "microsoft/update-manifest:<v>" for a    *)
(* manifest of version v >= 4 and falls back to the unversioned default    *)
(* when the extension manager has no handler of that type.                 *)
UM == "microsoft/update-manifest"
(* The update-manifest handler types the extension manager can create. *)
HandlerTypes == {<<UM, 4>>, <<UM, 5>>, <<UM>>}

(* Faulty variant: no fallback to the default type. *)
LoadedType_NoFallback(v) == <<UM, v>>

LoadedType(v) == IF v \in {4, 5} THEN <<UM, v>> ELSE <<UM>>

(* LoadUpdateContentHandlerExtension, first half: the cache lookup.  Its  *)
(* test of the cached entry also needs result to be a success, which it    *)
(* never is there, so a new handler is always created.                     *)
LoadLookup(th) == inMap' = inMap \cup {th}

(* Second half: _contentHandlers.emplace of the new handler, which keeps  *)
(* the cached one when the type is already there; the new one is then     *)
(* returned to the caller, who never frees it.                             *)
LoadInsert(th, t) ==
  /\ raced' = (raced \/ (t \notin cached /\ inMap \ {th} # {}))
  /\ leaked' = (leaked \/ t \in cached)
  /\ cached' = cached \cup {t}
  /\ inMap' = inMap \ {th}

-----------------------------------------------------------------------------
(* Worker: GetUpdateManifestHandler.  A manifest below version 4 fails    *)
(* before any load, and the wrapper jumps to done past the flag test.     *)
WorkerLoad ==
  /\ worker.pc = "Load"
  /\ IF manifest[worker.wf] < 4
       THEN /\ worker' = [worker EXCEPT !.pc = "Post", !.res = "Failure"]
            /\ UNCHANGED inMap
       ELSE /\ worker' = [worker EXCEPT !.pc = "Insert"]
            /\ LoadLookup("worker")
  /\ UNCHANGED <<cancelReq, wfCancel, manifest, criteria, cached, leaked,
                 raced, mainPc, mainWf, ag, cur, nextOp, done, pending,
                 cancelCalled, reported>>

WorkerInsert ==
  /\ worker.pc = "Insert"
  /\ LoadInsert("worker", LoadedType(manifest[worker.wf]))
  /\ worker' = [worker EXCEPT !.pc = "Run"]
  /\ UNCHANGED <<cancelReq, wfCancel, manifest, criteria, mainPc, mainWf, ag,
                 cur, nextOp, done, pending, cancelCalled, reported>>

(* The content handler's operation (MCUbUpdateHandlerImpl): its possible *)
(* results, "Stage" standing for Apply going on to its writes.  Download   *)
(* polls the workflow's cancel flag at its start, in every chunk and after *)
(* the transfer, and then answers with Cancel's Cancel_Success; since that *)
(* flag is never cleared, the last poll decides.  Apply checks             *)
(* installedCriteria, then the cancel flag, and only then writes.          *)
HandlerRun(k, w) ==
  CASE k = "Download" ->
         IF wfCancel[w] THEN {"CancelSuccess"} ELSE {"DownloadSuccess", "Failure"}
    [] k = "Backup"  -> {"BackupSuccessUnsupported"}
    [] k = "Install" -> {"InstallSuccess"}
    [] k = "Restore" -> {"RestoreSuccessUnsupported"}
    [] k = "Apply"   -> IF ~criteria[w] THEN {"Failure"}
                        ELSE IF wfCancel[w] THEN {"CancelSuccess"} ELSE {"Stage"}

(* Where the worker goes when the handler returned: the flag test or the *)
(* completion.                                                             *)
AfterHandler(k) == IF k \in CheckedKinds THEN "Check" ELSE "Post"

WorkerRun ==
  /\ worker.pc = "Run"
  /\ \E r \in HandlerRun(worker.kind, worker.wf) :
       worker' = IF r = "Stage" THEN [worker EXCEPT !.pc = "Stage"]
                 ELSE [worker EXCEPT !.res = r, !.pc = AfterHandler(worker.kind)]
  /\ UNCHANGED <<cancelReq, wfCancel, manifest, criteria, cached, inMap,
                 leaked, raced, mainPc, mainWf, ag, cur, nextOp, done, pending,
                 cancelCalled, reported>>

(* Apply's writes: the stage criteria (kv_set), boot_set_pending(false)   *)
(* and installRebooted = false, stopping at the first that fails; then     *)
(* workflow_request_reboot and Apply_RequiredReboot.                       *)
StageOutcomes ==
  IF WriteFaults THEN {"StageFail", "PendingFail", "RebootedFail", "Ok"}
                 ELSE {"Ok"}

WorkerStage ==
  /\ worker.pc = "Stage"
  /\ \E o \in StageOutcomes :
       LET marks == o \in {"RebootedFail", "Ok"}
       IN  /\ pending' = (pending \/ marks)
           /\ worker' = [worker EXCEPT !.pc = AfterHandler("Apply"), !.marked = marks,
                           !.res = IF o = "Ok" THEN "ApplyRequiredReboot"
                                               ELSE "Failure"]
  /\ UNCHANGED <<cancelReq, wfCancel, manifest, criteria, cached, inMap,
                 leaked, raced, mainPc, mainWf, ag, cur, nextOp, done,
                 cancelCalled, reported>>

(* The wrapper's test after the handler returned. *)
WorkerCheck ==
  /\ worker.pc = "Check"
  /\ worker' = [worker EXCEPT !.pc = "Post",
                  !.res = IF cancelReq THEN "FailureCancelled" ELSE worker.res]
  /\ cancelReq' = FALSE
  /\ UNCHANGED <<wfCancel, manifest, criteria, cached, inMap, leaked, raced,
                 mainPc, mainWf, ag, cur, nextOp, done, pending, cancelCalled,
                 reported>>

(* The task lambda's WorkCompletionCallback; the thread then ends. *)
WorkerPost ==
  /\ worker.pc = "Post"
  /\ done' = {[kind |-> worker.kind, wf |-> worker.wf, res |-> worker.res,
               cancelled |-> worker.cancelled, marked |-> worker.marked]}
  /\ worker' = Off
  /\ UNCHANGED <<cancelReq, wfCancel, manifest, criteria, cached, inMap,
                 leaked, raced, mainPc, mainWf, ag, cur, nextOp, pending,
                 cancelCalled, reported>>

-----------------------------------------------------------------------------
(* Main thread: MbedPlatformLayer::Cancel, from CancelCallback.  It sets  *)
(* the flag first; a worker still before its flag test will honour it.    *)
CancelCall_NoFlag ==
  /\ mainPc = "Idle" /\ ag = "Busy" /\ ~cancelCalled[cur]
  /\ cancelCalled' = [cancelCalled EXCEPT ![cur] = TRUE]
  /\ worker' = IF worker.pc \in BeforeCheck
                 THEN [worker EXCEPT !.cancelled = TRUE] ELSE worker
  /\ mainPc' = "Load"
  /\ mainWf' = cur
  /\ UNCHANGED <<cancelReq, wfCancel, manifest, criteria, cached, inMap,
                 leaked, raced, ag, cur, nextOp, done, pending, reported>>

CancelCall ==
  /\ mainPc = "Idle" /\ ag = "Busy" /\ ~cancelCalled[cur]
  /\ cancelReq' = TRUE
  /\ cancelCalled' = [cancelCalled EXCEPT ![cur] = TRUE]
  /\ worker' = IF worker.pc \in BeforeCheck
                 THEN [worker EXCEPT !.cancelled = TRUE] ELSE worker
  /\ mainPc' = "Load"
  /\ mainWf' = cur
  /\ UNCHANGED <<wfCancel, manifest, criteria, cached, inMap, leaked, raced,
                 ag, cur, nextOp, done, pending, reported>>

(* Cancel's GetUpdateManifestHandler; on failure it logs and returns. *)
CancelLoad ==
  /\ mainPc = "Load"
  /\ IF manifest[mainWf] < 4
       THEN /\ mainPc' = "Idle"
            /\ UNCHANGED inMap
       ELSE /\ mainPc' = "Insert"
            /\ LoadLookup("main")
  /\ UNCHANGED <<cancelReq, wfCancel, manifest, criteria, cached, leaked,
                 raced, worker, mainWf, ag, cur, nextOp, done, pending,
                 cancelCalled, reported>>

(* The emplace, then contentHandler->Cancel: MCUbUpdateHandlerImpl::Cancel *)
(* calls workflow_request_cancel on the deployment's handle.              *)
CancelRequest ==
  /\ mainPc = "Insert"
  /\ LoadInsert("main", LoadedType(manifest[mainWf]))
  /\ wfCancel' = [wfCancel EXCEPT ![mainWf] = TRUE]
  /\ mainPc' = "Idle"
  /\ UNCHANGED <<cancelReq, manifest, criteria, worker, mainWf, ag, cur,
                 nextOp, done, pending, cancelCalled, reported>>

-----------------------------------------------------------------------------
(* Agent: an operation callback, i.e. AsyncTaskCallback: it replaces the  *)
(* worker thread object and starts it; a failed start returns Failure at  *)
(* once, with no worker and no completion.                                 *)
AsyncTaskCallback ==
  /\ ag = "Ready" /\ mainPc = "Idle" /\ worker.pc = "Off" /\ done = {}
  /\ \/ /\ StartFaults
        /\ reported' = reported \cup
             {[kind |-> nextOp, wf |-> cur, res |-> "Failure",
               cancelled |-> FALSE, marked |-> FALSE]}
        /\ ag' = "Finished"
        /\ UNCHANGED worker
     \/ /\ worker' = [Off EXCEPT !.kind = nextOp, !.wf = cur, !.pc = "Load"]
        /\ ag' = "Busy"
        /\ UNCHANGED reported
  /\ UNCHANGED <<cancelReq, wfCancel, manifest, criteria, cached, inMap,
                 leaked, raced, mainPc, mainWf, cur, nextOp, done, pending,
                 cancelCalled>>

(* The agent takes the reported result and decides what to call next. *)
AgentComplete ==
  /\ ag = "Busy" /\ mainPc = "Idle" /\ done # {}
  /\ \E d \in done :
       /\ reported' = reported \cup {d}
       /\ \/ /\ Success(d.res) /\ d.kind \in {"Download", "Backup", "Install"}
             /\ nextOp' = NextKind(d.kind) /\ ag' = "Ready"
          \/ /\ Success(d.res) /\ d.kind = "Apply"
             /\ ag' = "Rebooting" /\ UNCHANGED nextOp
          \/ /\ ~Success(d.res) /\ d.kind \in {"Install", "Apply"}
             /\ nextOp' = "Restore" /\ ag' = "Ready"
          \/ /\ ~Success(d.res) \/ d.kind = "Restore"
             /\ ag' = "Finished" /\ UNCHANGED nextOp
  /\ done' = {}
  /\ UNCHANGED <<cancelReq, wfCancel, manifest, criteria, cached, inMap,
                 leaked, raced, worker, mainPc, mainWf, cur, pending,
                 cancelCalled>>

(* IdleCallback: MbedPlatformLayer::Idle clears the flag. *)
Idle ==
  /\ ag = "Finished" /\ mainPc = "Idle"
  /\ cancelReq' = FALSE
  /\ ag' = "Idle"
  /\ UNCHANGED <<wfCancel, manifest, criteria, cached, inMap, leaked, raced,
                 worker, mainPc, mainWf, cur, nextOp, done, pending,
                 cancelCalled, reported>>

(* A new deployment: after Idle, or straight away when it replaces one the *)
(* agent cancelled.                                                        *)
AgentDeploy ==
  /\ mainPc = "Idle" /\ cur < NumWf
  /\ ag = "Idle" \/ (ag = "Finished" /\ cancelCalled[cur])
  /\ cur' = cur + 1
  /\ nextOp' = "Download"
  /\ ag' = "Ready"
  /\ UNCHANGED <<cancelReq, wfCancel, manifest, criteria, cached, inMap,
                 leaked, raced, worker, mainPc, mainWf, done, pending,
                 cancelCalled, reported>>

(* IsInstalledCallback before a deployment's download: MbedPlatformLayer  *)
(* ::IsInstalled looks the handler up on the main thread while no worker  *)
(* runs; the handler's IsInstalled itself only reads (McubUpdate).         *)
IsInstalled ==
  /\ ag = "Ready" /\ nextOp = "Download" /\ mainPc = "Idle"
  /\ manifest[cur] >= 4
  /\ LoadInsert("main", LoadedType(manifest[cur]))
  /\ UNCHANGED <<cancelReq, wfCancel, manifest, criteria, worker, mainPc,
                 mainWf, ag, cur, nextOp, done, pending, cancelCalled,
                 reported>>

-----------------------------------------------------------------------------
Init ==
  /\ cancelReq = FALSE
  /\ wfCancel = [w \in Wf |-> FALSE]
  /\ manifest \in [Wf -> ManifestVersions]
  /\ criteria \in [Wf -> BOOLEAN]
  /\ cached = {}
  /\ inMap = {}
  /\ leaked = FALSE
  /\ raced = FALSE
  /\ worker = Off
  /\ mainPc = "Idle"
  /\ mainWf = 1
  /\ ag = "Ready"
  /\ cur = 1
  /\ nextOp = "Download"
  /\ done = {}
  /\ pending = FALSE
  /\ cancelCalled = [w \in Wf |-> FALSE]
  /\ reported = {}

Next ==
  \/ WorkerLoad \/ WorkerInsert \/ WorkerRun \/ WorkerStage \/ WorkerCheck
  \/ WorkerPost
  \/ CancelCall \/ CancelLoad \/ CancelRequest
  \/ AsyncTaskCallback \/ AgentComplete \/ Idle \/ AgentDeploy \/ IsInstalled

Spec == Init /\ [][Next]_vars

-----------------------------------------------------------------------------
Report == [kind : Kinds, wf : Wf, res : Results, cancelled : BOOLEAN,
           marked : BOOLEAN]

Workers == [kind : Kinds, wf : Wf, pc : BeforeCheck \cup {"Post", "Off"},
            res : Results, cancelled : BOOLEAN, marked : BOOLEAN]

TypeOK ==
  /\ cancelReq \in BOOLEAN
  /\ wfCancel \in [Wf -> BOOLEAN] /\ cancelCalled \in [Wf -> BOOLEAN]
  /\ manifest \in [Wf -> ManifestVersions] /\ criteria \in [Wf -> BOOLEAN]
  /\ cached \subseteq HandlerTypes /\ inMap \subseteq {"main", "worker"}
  /\ leaked \in BOOLEAN /\ raced \in BOOLEAN /\ pending \in BOOLEAN
  /\ worker \in Workers
  /\ mainPc \in {"Idle", "Load", "Insert"}
  /\ ag \in {"Ready", "Busy", "Finished", "Idle", "Rebooting"}
  /\ cur \in Wf /\ mainWf \in Wf /\ nextOp \in Kinds
  /\ done \subseteq Report /\ reported \subseteq Report

(* A cancel honoured: when CancelCallback sets _IsCancellationRequested    *)
(* while an operation other than Restore has not yet passed its flag test, *)
(* the agent is never told that operation succeeded, whichever thread runs *)
(* first.                                                                  *)
CancelledNeverSucceeds ==
  \A r \in reported : r.cancelled /\ r.kind # "Restore" => ~Success(r.res)

(* The handler's own answer to a polled cancel, Cancel_Success, is a       *)
(* success code; it must never reach the agent as an operation's result.  *)
(* It holds because Cancel sets _IsCancellationRequested before it sets    *)
(* the workflow's cancel flag, so every handler that sees the latter runs  *)
(* under a wrapper that sees the former.                                   *)
NoCancelSuccessLeak ==
  \A r \in reported : r.res # "CancelSuccess"

(* A deployment reported cancelled leaves no pending image behind that    *)
(* the next reset would boot and confirm.                                  *)
CancelledLeavesNoPending ==
  \A r \in reported : r.res = "FailureCancelled" => ~r.marked

(* Only a deployment the agent cancelled is reported cancelled. *)
NoSpuriousCancel ==
  \A r \in reported : r.res = "FailureCancelled" => cancelCalled[r.wf]

(* Every content handler the extension manager creates is cached or freed. *)
NoHandlerLeak == ~leaked

(* _contentHandlers is never modified while another thread is inside it. *)
NoMapRace == ~raced
-----------------------------------------------------------------------------
(***************************************************************************)
(* The inductive invariant behind CancelledNeverSucceeds and              *)
(* NoCancelSuccessLeak.                                                    *)
(***************************************************************************)
(* One operation at a time: a running worker or an unconsumed completion  *)
(* means the agent waits (so Idle never clears the flag under a worker),   *)
(* and both belong to the current deployment, as does a Cancel in         *)
(* progress.                                                               *)
OneOperation ==
  /\ worker.pc # "Off" \/ done # {} => ag = "Busy"
  /\ done # {} => worker.pc = "Off"
  /\ worker.pc # "Off" => worker.wf = cur
  /\ \A d \in done : d.wf = cur
  /\ mainPc # "Idle" => mainWf = cur
  /\ \A w \in Wf : w > cur => ~wfCancel[w]
  /\ worker.pc = "Check" => worker.kind \in CheckedKinds
  /\ worker.pc = "Stage" => worker.kind = "Apply"

(* A worker that a Cancel reached before its flag test finds the flag set, *)
(* and a finished one that it reached was not a success.                   *)
CancelHonoured ==
  /\ worker.cancelled /\ worker.pc \in BeforeCheck => cancelReq
  /\ worker.pc = "Post" /\ worker.cancelled /\ worker.kind # "Restore"
       => ~Success(worker.res)
  /\ \A d \in done : d.cancelled /\ d.kind # "Restore" => ~Success(d.res)

(* What is left of a deployment whose cancel flag is gone: nothing that    *)
(* polls the workflow's cancel flag and reaches the wrapper's test.        *)
Spent ==
  \/ ag \in {"Finished", "Idle", "Rebooting"}
  \/ ag = "Ready" /\ nextOp = "Restore"
  \/ /\ ag = "Busy" /\ worker.pc # "Off"
     /\ \/ worker.kind = "Restore"
        \/ worker.pc = "Post" /\ ~Success(worker.res)
  \/ /\ ag = "Busy" /\ worker.pc = "Off"
     /\ \A d \in done : d.kind = "Restore" \/ ~Success(d.res)

(* Once Cancel has begun for the current deployment, either                *)
(* _IsCancellationRequested is still set or the deployment is spent; and   *)
(* Cancel_Success exists only at the flag test, with the flag set.         *)
CancelPending ==
  /\ (wfCancel[cur] \/ mainPc # "Idle") /\ ~cancelReq => Spent
  /\ worker.res = "CancelSuccess" => worker.pc = "Check" /\ cancelReq
  /\ \A d \in done : d.res # "CancelSuccess"

(* The inductive invariant; TLC checks it on the instance of PlatformLayer.cfg. *)
PlatformIInv ==
  /\ TypeOK
  /\ OneOperation
  /\ CancelHonoured
  /\ CancelPending
  /\ CancelledNeverSucceeds
  /\ NoCancelSuccessLeak

=============================================================================
