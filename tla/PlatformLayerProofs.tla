-------------------------- MODULE PlatformLayerProofs --------------------------
(***************************************************************************)
(* Proofs that the platform layer honours a cancel: the inductive        *)
(* invariant PlatformIInv holds in every reachable state for every number *)
(* of deployments and every set of manifest versions, and with it the     *)
(* type invariant, CancelledNeverSucceeds and NoCancelSuccessLeak.        *)
(***************************************************************************)
EXTENDS PlatformLayer, TLAPS

USE PlatformAssumption

(* The updates the worker's steps make to its record keep it a worker record. *)
LEMMA WorkerUpdate ==
  ASSUME NEW w \in Workers, NEW p \in BeforeCheck \cup {"Post", "Off"},
         NEW r \in Results, NEW m \in BOOLEAN
  PROVE  /\ [w EXCEPT !.pc = p] \in Workers
         /\ [w EXCEPT !.pc = p, !.res = r] \in Workers
         /\ [w EXCEPT !.res = r, !.pc = p] \in Workers
         /\ [w EXCEPT !.pc = p, !.marked = m, !.res = r] \in Workers
         /\ [w EXCEPT !.cancelled = TRUE] \in Workers
BY DEF Workers

(* WorkerLoad preserves the inductive invariant. *)
LEMMA WorkerLoadInv == PlatformIInv /\ WorkerLoad => PlatformIInv'
<1> SUFFICES ASSUME PlatformIInv, WorkerLoad PROVE PlatformIInv'
  OBVIOUS
<1>1. TypeOK'
  <2>1. worker' \in Workers
    <3>1. worker \in Workers
      BY DEF PlatformIInv, TypeOK
    <3>2. "Post" \in BeforeCheck \cup {"Post", "Off"} /\ "Insert" \in BeforeCheck \cup {"Post", "Off"}
          /\ "Failure" \in Results
      BY DEF BeforeCheck, Results
    <3>3. CASE manifest[worker.wf] < 4
      <4>1. [worker EXCEPT !.pc = "Post", !.res = "Failure"] \in Workers
        BY <3>1, <3>2, WorkerUpdate
      <4>2. QED
        BY <3>3, <4>1 DEF WorkerLoad
    <3>4. CASE ~(manifest[worker.wf] < 4)
      <4>1. [worker EXCEPT !.pc = "Insert"] \in Workers
        BY <3>1, <3>2, WorkerUpdate
      <4>2. QED
        BY <3>4, <4>1 DEF WorkerLoad
    <3>5. QED
      BY <3>3, <3>4
  <2>2. done' \subseteq Report /\ reported' \subseteq Report
    BY DEF PlatformIInv, TypeOK, Workers, Report, Success, Wf, Kinds, Results, BeforeCheck, CheckedKinds, Off, WorkerLoad, LoadLookup
  <2>3. /\ cancelReq' \in BOOLEAN
        /\ wfCancel' \in [Wf -> BOOLEAN] /\ cancelCalled' \in [Wf -> BOOLEAN]
        /\ manifest' \in [Wf -> ManifestVersions] /\ criteria' \in [Wf -> BOOLEAN]
        /\ cached' \subseteq HandlerTypes /\ inMap' \subseteq {"main", "worker"}
        /\ leaked' \in BOOLEAN /\ raced' \in BOOLEAN /\ pending' \in BOOLEAN
        /\ mainPc' \in {"Idle", "Load", "Insert"}
        /\ ag' \in {"Ready", "Busy", "Finished", "Idle", "Rebooting"}
        /\ cur' \in Wf /\ mainWf' \in Wf /\ nextOp' \in Kinds
    BY DEF PlatformIInv, TypeOK, Wf, Kinds, WorkerLoad, LoadLookup
  <2>4. QED
    BY <2>1, <2>2, <2>3 DEF TypeOK
<1>2. OneOperation'
  <2>1. /\ worker.pc = "Load"
        /\ worker'.wf = worker.wf /\ worker'.kind = worker.kind
        /\ worker'.pc \in {"Post", "Insert"}
    BY DEF PlatformIInv, TypeOK, Workers, WorkerLoad
  <2>2. UNCHANGED <<ag, done, cur, mainPc, mainWf, wfCancel>>
    BY DEF WorkerLoad
  <2>. QED
    BY <2>1, <2>2 DEF PlatformIInv, OneOperation
<1>3. CancelHonoured'
  BY DEF PlatformIInv, TypeOK, OneOperation, CancelHonoured, Workers, Report, Success, Wf, Kinds, Results, BeforeCheck, CheckedKinds, Off, WorkerLoad, LoadLookup
<1>4. CancelPending'
  BY DEF PlatformIInv, TypeOK, OneOperation, CancelHonoured, CancelPending, Spent, Workers, Report, Success, Wf, Kinds, Results, BeforeCheck, CheckedKinds, Off, WorkerLoad, LoadLookup
<1>5. CancelledNeverSucceeds'
  BY DEF PlatformIInv, TypeOK, CancelledNeverSucceeds, Workers, Report, Success, Wf, Kinds, Results, BeforeCheck, CheckedKinds, Off, WorkerLoad, LoadLookup
<1>6. NoCancelSuccessLeak'
  BY DEF PlatformIInv, TypeOK, NoCancelSuccessLeak, Workers, Report, Success, Wf, Kinds, Results, BeforeCheck, CheckedKinds, Off, WorkerLoad, LoadLookup
<1>7. QED
  BY <1>1, <1>2, <1>3, <1>4, <1>5, <1>6 DEF PlatformIInv

(* WorkerInsert preserves the inductive invariant. *)
LEMMA WorkerInsertInv == PlatformIInv /\ WorkerInsert => PlatformIInv'
<1> SUFFICES ASSUME PlatformIInv, WorkerInsert PROVE PlatformIInv'
  OBVIOUS
<1>1. TypeOK'
  <2>1. worker' \in Workers
    BY DEF PlatformIInv, TypeOK, Workers, Report, Success, Wf, Kinds, Results, BeforeCheck, CheckedKinds, Off, WorkerInsert, LoadInsert, LoadedType, HandlerTypes, UM
  <2>2. done' \subseteq Report /\ reported' \subseteq Report
    BY DEF PlatformIInv, TypeOK, Workers, Report, Success, Wf, Kinds, Results, BeforeCheck, CheckedKinds, Off, WorkerInsert, LoadInsert, LoadedType, HandlerTypes, UM
  <2>3. /\ cancelReq' \in BOOLEAN
        /\ wfCancel' \in [Wf -> BOOLEAN] /\ cancelCalled' \in [Wf -> BOOLEAN]
        /\ manifest' \in [Wf -> ManifestVersions] /\ criteria' \in [Wf -> BOOLEAN]
        /\ cached' \subseteq HandlerTypes /\ inMap' \subseteq {"main", "worker"}
        /\ leaked' \in BOOLEAN /\ raced' \in BOOLEAN /\ pending' \in BOOLEAN
        /\ mainPc' \in {"Idle", "Load", "Insert"}
        /\ ag' \in {"Ready", "Busy", "Finished", "Idle", "Rebooting"}
        /\ cur' \in Wf /\ mainWf' \in Wf /\ nextOp' \in Kinds
    BY DEF PlatformIInv, TypeOK, Wf, Kinds, WorkerInsert, LoadInsert, LoadedType, HandlerTypes, UM
  <2>4. QED
    BY <2>1, <2>2, <2>3 DEF TypeOK
<1>2. OneOperation'
  BY DEF PlatformIInv, TypeOK, OneOperation, Workers, Report, Success, Wf, Kinds, Results, BeforeCheck, CheckedKinds, Off, WorkerInsert, LoadInsert, LoadedType, HandlerTypes, UM
<1>3. CancelHonoured'
  BY DEF PlatformIInv, TypeOK, OneOperation, CancelHonoured, Workers, Report, Success, Wf, Kinds, Results, BeforeCheck, CheckedKinds, Off, WorkerInsert, LoadInsert, LoadedType, HandlerTypes, UM
<1>4. CancelPending'
  BY DEF PlatformIInv, TypeOK, OneOperation, CancelHonoured, CancelPending, Spent, Workers, Report, Success, Wf, Kinds, Results, BeforeCheck, CheckedKinds, Off, WorkerInsert, LoadInsert, LoadedType, HandlerTypes, UM
<1>5. CancelledNeverSucceeds'
  BY DEF PlatformIInv, TypeOK, CancelledNeverSucceeds, Workers, Report, Success, Wf, Kinds, Results, BeforeCheck, CheckedKinds, Off, WorkerInsert, LoadInsert, LoadedType, HandlerTypes, UM
<1>6. NoCancelSuccessLeak'
  BY DEF PlatformIInv, TypeOK, NoCancelSuccessLeak, Workers, Report, Success, Wf, Kinds, Results, BeforeCheck, CheckedKinds, Off, WorkerInsert, LoadInsert, LoadedType, HandlerTypes, UM
<1>7. QED
  BY <1>1, <1>2, <1>3, <1>4, <1>5, <1>6 DEF PlatformIInv

(* WorkerRun preserves the inductive invariant. *)
LEMMA WorkerRunInv == PlatformIInv /\ WorkerRun => PlatformIInv'
<1> SUFFICES ASSUME PlatformIInv, WorkerRun PROVE PlatformIInv'
  OBVIOUS
<1>1. TypeOK'
  <2>1. worker' \in Workers
    <3>1. worker \in Workers
      BY DEF PlatformIInv, TypeOK
    <3>2. PICK r \in HandlerRun(worker.kind, worker.wf) :
            worker' = IF r = "Stage" THEN [worker EXCEPT !.pc = "Stage"]
                      ELSE [worker EXCEPT !.res = r, !.pc = AfterHandler(worker.kind)]
      BY DEF WorkerRun
    <3>3. r # "Stage" => r \in Results
      BY <3>1 DEF HandlerRun, Results, Workers, Kinds
    <3>4. "Stage" \in BeforeCheck \cup {"Post", "Off"}
          /\ AfterHandler(worker.kind) \in BeforeCheck \cup {"Post", "Off"}
      BY DEF BeforeCheck, AfterHandler
    <3>5. CASE r = "Stage"
      <4>1. [worker EXCEPT !.pc = "Stage"] \in Workers
        BY <3>1 DEF Workers, BeforeCheck
      <4>2. QED
        BY <3>2, <3>5, <4>1
    <3>6. CASE r # "Stage"
      <4>1. [worker EXCEPT !.res = r, !.pc = AfterHandler(worker.kind)] \in Workers
        BY <3>1, <3>3, <3>4, <3>6, WorkerUpdate
      <4>2. QED
        BY <3>2, <3>6, <4>1
    <3>7. QED
      BY <3>5, <3>6
  <2>2. done' \subseteq Report /\ reported' \subseteq Report
    BY DEF PlatformIInv, TypeOK, Workers, Report, Success, Wf, Kinds, Results, BeforeCheck, CheckedKinds, Off, WorkerRun, HandlerRun, AfterHandler
  <2>3. /\ cancelReq' \in BOOLEAN
        /\ wfCancel' \in [Wf -> BOOLEAN] /\ cancelCalled' \in [Wf -> BOOLEAN]
        /\ manifest' \in [Wf -> ManifestVersions] /\ criteria' \in [Wf -> BOOLEAN]
        /\ cached' \subseteq HandlerTypes /\ inMap' \subseteq {"main", "worker"}
        /\ leaked' \in BOOLEAN /\ raced' \in BOOLEAN /\ pending' \in BOOLEAN
        /\ mainPc' \in {"Idle", "Load", "Insert"}
        /\ ag' \in {"Ready", "Busy", "Finished", "Idle", "Rebooting"}
        /\ cur' \in Wf /\ mainWf' \in Wf /\ nextOp' \in Kinds
    BY DEF PlatformIInv, TypeOK, Wf, Kinds, WorkerRun, HandlerRun, AfterHandler
  <2>4. QED
    BY <2>1, <2>2, <2>3 DEF TypeOK
<1>2. OneOperation'
  BY DEF PlatformIInv, TypeOK, OneOperation, Workers, Report, Success, Wf, Kinds, Results, BeforeCheck, CheckedKinds, Off, WorkerRun, HandlerRun, AfterHandler
<1>3. CancelHonoured'
  BY DEF PlatformIInv, TypeOK, OneOperation, CancelHonoured, Workers, Report, Success, Wf, Kinds, Results, BeforeCheck, CheckedKinds, Off, WorkerRun, HandlerRun, AfterHandler
<1>4. CancelPending'
  BY DEF PlatformIInv, TypeOK, OneOperation, CancelHonoured, CancelPending, Spent, Workers, Report, Success, Wf, Kinds, Results, BeforeCheck, CheckedKinds, Off, WorkerRun, HandlerRun, AfterHandler
<1>5. CancelledNeverSucceeds'
  BY DEF PlatformIInv, TypeOK, CancelledNeverSucceeds, Workers, Report, Success, Wf, Kinds, Results, BeforeCheck, CheckedKinds, Off, WorkerRun, HandlerRun, AfterHandler
<1>6. NoCancelSuccessLeak'
  BY DEF PlatformIInv, TypeOK, NoCancelSuccessLeak, Workers, Report, Success, Wf, Kinds, Results, BeforeCheck, CheckedKinds, Off, WorkerRun, HandlerRun, AfterHandler
<1>7. QED
  BY <1>1, <1>2, <1>3, <1>4, <1>5, <1>6 DEF PlatformIInv

(* WorkerStage preserves the inductive invariant. *)
LEMMA WorkerStageInv == PlatformIInv /\ WorkerStage => PlatformIInv'
<1> SUFFICES ASSUME PlatformIInv, WorkerStage PROVE PlatformIInv'
  OBVIOUS
<1>1. TypeOK'
  <2>1. worker' \in Workers
    <3>1. worker \in Workers
      BY DEF PlatformIInv, TypeOK
    <3>2. PICK o \in StageOutcomes :
            worker' = [worker EXCEPT !.pc = AfterHandler("Apply"),
                         !.marked = (o \in {"RebootedFail", "Ok"}),
                         !.res = IF o = "Ok" THEN "ApplyRequiredReboot" ELSE "Failure"]
      BY DEF WorkerStage
    <3>3. /\ AfterHandler("Apply") \in BeforeCheck \cup {"Post", "Off"}
          /\ (IF o = "Ok" THEN "ApplyRequiredReboot" ELSE "Failure") \in Results
          /\ (o \in {"RebootedFail", "Ok"}) \in BOOLEAN
      BY DEF BeforeCheck, AfterHandler, CheckedKinds, Results
    <3>4. QED
      BY <3>1, <3>2, <3>3, WorkerUpdate
  <2>2. done' \subseteq Report /\ reported' \subseteq Report
    BY DEF PlatformIInv, TypeOK, Workers, Report, Success, Wf, Kinds, Results, BeforeCheck, CheckedKinds, Off, WorkerStage, StageOutcomes, AfterHandler
  <2>3. /\ cancelReq' \in BOOLEAN
        /\ wfCancel' \in [Wf -> BOOLEAN] /\ cancelCalled' \in [Wf -> BOOLEAN]
        /\ manifest' \in [Wf -> ManifestVersions] /\ criteria' \in [Wf -> BOOLEAN]
        /\ cached' \subseteq HandlerTypes /\ inMap' \subseteq {"main", "worker"}
        /\ leaked' \in BOOLEAN /\ raced' \in BOOLEAN /\ pending' \in BOOLEAN
        /\ mainPc' \in {"Idle", "Load", "Insert"}
        /\ ag' \in {"Ready", "Busy", "Finished", "Idle", "Rebooting"}
        /\ cur' \in Wf /\ mainWf' \in Wf /\ nextOp' \in Kinds
    BY DEF PlatformIInv, TypeOK, Wf, Kinds, WorkerStage, StageOutcomes, AfterHandler
  <2>4. QED
    BY <2>1, <2>2, <2>3 DEF TypeOK
<1>2. OneOperation'
  BY DEF PlatformIInv, TypeOK, OneOperation, Workers, Report, Success, Wf, Kinds, Results, BeforeCheck, CheckedKinds, Off, WorkerStage, StageOutcomes, AfterHandler
<1>3. CancelHonoured'
  BY DEF PlatformIInv, TypeOK, OneOperation, CancelHonoured, Workers, Report, Success, Wf, Kinds, Results, BeforeCheck, CheckedKinds, Off, WorkerStage, StageOutcomes, AfterHandler
<1>4. CancelPending'
  BY DEF PlatformIInv, TypeOK, OneOperation, CancelHonoured, CancelPending, Spent, Workers, Report, Success, Wf, Kinds, Results, BeforeCheck, CheckedKinds, Off, WorkerStage, StageOutcomes, AfterHandler
<1>5. CancelledNeverSucceeds'
  BY DEF PlatformIInv, TypeOK, CancelledNeverSucceeds, Workers, Report, Success, Wf, Kinds, Results, BeforeCheck, CheckedKinds, Off, WorkerStage, StageOutcomes, AfterHandler
<1>6. NoCancelSuccessLeak'
  BY DEF PlatformIInv, TypeOK, NoCancelSuccessLeak, Workers, Report, Success, Wf, Kinds, Results, BeforeCheck, CheckedKinds, Off, WorkerStage, StageOutcomes, AfterHandler
<1>7. QED
  BY <1>1, <1>2, <1>3, <1>4, <1>5, <1>6 DEF PlatformIInv

(* WorkerCheck preserves the inductive invariant. *)
LEMMA WorkerCheckInv == PlatformIInv /\ WorkerCheck => PlatformIInv'
<1> SUFFICES ASSUME PlatformIInv, WorkerCheck PROVE PlatformIInv'
  OBVIOUS
<1>1. TypeOK'
  <2>1. worker' \in Workers
    BY DEF PlatformIInv, TypeOK, Workers, Report, Success, Wf, Kinds, Results, BeforeCheck, CheckedKinds, Off, WorkerCheck
  <2>2. done' \subseteq Report /\ reported' \subseteq Report
    BY DEF PlatformIInv, TypeOK, Workers, Report, Success, Wf, Kinds, Results, BeforeCheck, CheckedKinds, Off, WorkerCheck
  <2>3. /\ cancelReq' \in BOOLEAN
        /\ wfCancel' \in [Wf -> BOOLEAN] /\ cancelCalled' \in [Wf -> BOOLEAN]
        /\ manifest' \in [Wf -> ManifestVersions] /\ criteria' \in [Wf -> BOOLEAN]
        /\ cached' \subseteq HandlerTypes /\ inMap' \subseteq {"main", "worker"}
        /\ leaked' \in BOOLEAN /\ raced' \in BOOLEAN /\ pending' \in BOOLEAN
        /\ mainPc' \in {"Idle", "Load", "Insert"}
        /\ ag' \in {"Ready", "Busy", "Finished", "Idle", "Rebooting"}
        /\ cur' \in Wf /\ mainWf' \in Wf /\ nextOp' \in Kinds
    BY DEF PlatformIInv, TypeOK, Wf, Kinds, WorkerCheck
  <2>4. QED
    BY <2>1, <2>2, <2>3 DEF TypeOK
<1>2. OneOperation'
  BY DEF PlatformIInv, TypeOK, OneOperation, Workers, Report, Success, Wf, Kinds, Results, BeforeCheck, CheckedKinds, Off, WorkerCheck
<1>3. CancelHonoured'
  BY DEF PlatformIInv, TypeOK, OneOperation, CancelHonoured, Workers, Report, Success, Wf, Kinds, Results, BeforeCheck, CheckedKinds, Off, WorkerCheck
<1>4. CancelPending'
  BY DEF PlatformIInv, TypeOK, OneOperation, CancelHonoured, CancelPending, Spent, Workers, Report, Success, Wf, Kinds, Results, BeforeCheck, CheckedKinds, Off, WorkerCheck
<1>5. CancelledNeverSucceeds'
  BY DEF PlatformIInv, TypeOK, CancelledNeverSucceeds, Workers, Report, Success, Wf, Kinds, Results, BeforeCheck, CheckedKinds, Off, WorkerCheck
<1>6. NoCancelSuccessLeak'
  BY DEF PlatformIInv, TypeOK, NoCancelSuccessLeak, Workers, Report, Success, Wf, Kinds, Results, BeforeCheck, CheckedKinds, Off, WorkerCheck
<1>7. QED
  BY <1>1, <1>2, <1>3, <1>4, <1>5, <1>6 DEF PlatformIInv

(* WorkerPost preserves the inductive invariant. *)
LEMMA WorkerPostInv == PlatformIInv /\ WorkerPost => PlatformIInv'
BY DEF PlatformIInv, TypeOK, OneOperation, CancelHonoured, CancelPending, Spent, CancelledNeverSucceeds, NoCancelSuccessLeak, Workers, Report, Success, Wf, Kinds, Results, BeforeCheck, CheckedKinds, Off, WorkerPost

(* CancelCall preserves the inductive invariant. *)
LEMMA CancelCallInv == PlatformIInv /\ CancelCall => PlatformIInv'
<1> SUFFICES ASSUME PlatformIInv, CancelCall PROVE PlatformIInv'
  OBVIOUS
<1>1. TypeOK'
  <2>1. worker' \in Workers
    BY DEF PlatformIInv, TypeOK, Workers, Report, Success, Wf, Kinds, Results, BeforeCheck, CheckedKinds, Off, CancelCall
  <2>2. done' \subseteq Report /\ reported' \subseteq Report
    BY DEF PlatformIInv, TypeOK, Workers, Report, Success, Wf, Kinds, Results, BeforeCheck, CheckedKinds, Off, CancelCall
  <2>3. /\ cancelReq' \in BOOLEAN
        /\ wfCancel' \in [Wf -> BOOLEAN] /\ cancelCalled' \in [Wf -> BOOLEAN]
        /\ manifest' \in [Wf -> ManifestVersions] /\ criteria' \in [Wf -> BOOLEAN]
        /\ cached' \subseteq HandlerTypes /\ inMap' \subseteq {"main", "worker"}
        /\ leaked' \in BOOLEAN /\ raced' \in BOOLEAN /\ pending' \in BOOLEAN
        /\ mainPc' \in {"Idle", "Load", "Insert"}
        /\ ag' \in {"Ready", "Busy", "Finished", "Idle", "Rebooting"}
        /\ cur' \in Wf /\ mainWf' \in Wf /\ nextOp' \in Kinds
    BY DEF PlatformIInv, TypeOK, Wf, Kinds, CancelCall
  <2>4. QED
    BY <2>1, <2>2, <2>3 DEF TypeOK
<1>2. OneOperation'
  BY DEF PlatformIInv, TypeOK, OneOperation, Workers, Report, Success, Wf, Kinds, Results, BeforeCheck, CheckedKinds, Off, CancelCall
<1>3. CancelHonoured'
  BY DEF PlatformIInv, TypeOK, OneOperation, CancelHonoured, Workers, Report, Success, Wf, Kinds, Results, BeforeCheck, CheckedKinds, Off, CancelCall
<1>4. CancelPending'
  BY DEF PlatformIInv, TypeOK, OneOperation, CancelHonoured, CancelPending, Spent, Workers, Report, Success, Wf, Kinds, Results, BeforeCheck, CheckedKinds, Off, CancelCall
<1>5. CancelledNeverSucceeds'
  BY DEF PlatformIInv, TypeOK, CancelledNeverSucceeds, Workers, Report, Success, Wf, Kinds, Results, BeforeCheck, CheckedKinds, Off, CancelCall
<1>6. NoCancelSuccessLeak'
  BY DEF PlatformIInv, TypeOK, NoCancelSuccessLeak, Workers, Report, Success, Wf, Kinds, Results, BeforeCheck, CheckedKinds, Off, CancelCall
<1>7. QED
  BY <1>1, <1>2, <1>3, <1>4, <1>5, <1>6 DEF PlatformIInv

(* CancelLoad preserves the inductive invariant. *)
LEMMA CancelLoadInv == PlatformIInv /\ CancelLoad => PlatformIInv'
<1> SUFFICES ASSUME PlatformIInv, CancelLoad PROVE PlatformIInv'
  OBVIOUS
<1>1. TypeOK'
  <2>1. worker' \in Workers
    BY DEF PlatformIInv, TypeOK, Workers, Report, Success, Wf, Kinds, Results, BeforeCheck, CheckedKinds, Off, CancelLoad, LoadLookup
  <2>2. done' \subseteq Report /\ reported' \subseteq Report
    BY DEF PlatformIInv, TypeOK, Workers, Report, Success, Wf, Kinds, Results, BeforeCheck, CheckedKinds, Off, CancelLoad, LoadLookup
  <2>3. /\ cancelReq' \in BOOLEAN
        /\ wfCancel' \in [Wf -> BOOLEAN] /\ cancelCalled' \in [Wf -> BOOLEAN]
        /\ manifest' \in [Wf -> ManifestVersions] /\ criteria' \in [Wf -> BOOLEAN]
        /\ cached' \subseteq HandlerTypes /\ inMap' \subseteq {"main", "worker"}
        /\ leaked' \in BOOLEAN /\ raced' \in BOOLEAN /\ pending' \in BOOLEAN
        /\ mainPc' \in {"Idle", "Load", "Insert"}
        /\ ag' \in {"Ready", "Busy", "Finished", "Idle", "Rebooting"}
        /\ cur' \in Wf /\ mainWf' \in Wf /\ nextOp' \in Kinds
    BY DEF PlatformIInv, TypeOK, Wf, Kinds, CancelLoad, LoadLookup
  <2>4. QED
    BY <2>1, <2>2, <2>3 DEF TypeOK
<1>2. OneOperation'
  BY DEF PlatformIInv, TypeOK, OneOperation, Workers, Report, Success, Wf, Kinds, Results, BeforeCheck, CheckedKinds, Off, CancelLoad, LoadLookup
<1>3. CancelHonoured'
  BY DEF PlatformIInv, TypeOK, OneOperation, CancelHonoured, Workers, Report, Success, Wf, Kinds, Results, BeforeCheck, CheckedKinds, Off, CancelLoad, LoadLookup
<1>4. CancelPending'
  BY DEF PlatformIInv, TypeOK, OneOperation, CancelHonoured, CancelPending, Spent, Workers, Report, Success, Wf, Kinds, Results, BeforeCheck, CheckedKinds, Off, CancelLoad, LoadLookup
<1>5. CancelledNeverSucceeds'
  BY DEF PlatformIInv, TypeOK, CancelledNeverSucceeds, Workers, Report, Success, Wf, Kinds, Results, BeforeCheck, CheckedKinds, Off, CancelLoad, LoadLookup
<1>6. NoCancelSuccessLeak'
  BY DEF PlatformIInv, TypeOK, NoCancelSuccessLeak, Workers, Report, Success, Wf, Kinds, Results, BeforeCheck, CheckedKinds, Off, CancelLoad, LoadLookup
<1>7. QED
  BY <1>1, <1>2, <1>3, <1>4, <1>5, <1>6 DEF PlatformIInv

(* CancelRequest preserves the inductive invariant. *)
LEMMA CancelRequestInv == PlatformIInv /\ CancelRequest => PlatformIInv'
BY DEF PlatformIInv, TypeOK, OneOperation, CancelHonoured, CancelPending, Spent, CancelledNeverSucceeds, NoCancelSuccessLeak, Workers, Report, Success, Wf, Kinds, Results, BeforeCheck, CheckedKinds, Off, CancelRequest, LoadInsert, LoadedType, HandlerTypes, UM

(* AsyncTaskCallback preserves the inductive invariant. *)
LEMMA AsyncTaskCallbackInv == PlatformIInv /\ AsyncTaskCallback => PlatformIInv'
<1> SUFFICES ASSUME PlatformIInv, AsyncTaskCallback PROVE PlatformIInv'
  OBVIOUS
<1>1. TypeOK'
  <2>1. worker' \in Workers
    BY DEF PlatformIInv, TypeOK, Workers, Report, Success, Wf, Kinds, Results, BeforeCheck, CheckedKinds, Off, AsyncTaskCallback
  <2>2. done' \subseteq Report /\ reported' \subseteq Report
    <3>1. [kind |-> nextOp, wf |-> cur, res |-> "Failure",
           cancelled |-> FALSE, marked |-> FALSE] \in Report
      BY DEF PlatformIInv, TypeOK, Report, Results
    <3>2. QED
      BY <3>1 DEF PlatformIInv, TypeOK, AsyncTaskCallback
  <2>3. /\ cancelReq' \in BOOLEAN
        /\ wfCancel' \in [Wf -> BOOLEAN] /\ cancelCalled' \in [Wf -> BOOLEAN]
        /\ manifest' \in [Wf -> ManifestVersions] /\ criteria' \in [Wf -> BOOLEAN]
        /\ cached' \subseteq HandlerTypes /\ inMap' \subseteq {"main", "worker"}
        /\ leaked' \in BOOLEAN /\ raced' \in BOOLEAN /\ pending' \in BOOLEAN
        /\ mainPc' \in {"Idle", "Load", "Insert"}
        /\ ag' \in {"Ready", "Busy", "Finished", "Idle", "Rebooting"}
        /\ cur' \in Wf /\ mainWf' \in Wf /\ nextOp' \in Kinds
    BY DEF PlatformIInv, TypeOK, Wf, Kinds, AsyncTaskCallback
  <2>4. QED
    BY <2>1, <2>2, <2>3 DEF TypeOK
<1>2. OneOperation'
  BY DEF PlatformIInv, TypeOK, OneOperation, Workers, Report, Success, Wf, Kinds, Results, BeforeCheck, CheckedKinds, Off, AsyncTaskCallback
<1>3. CancelHonoured'
  BY DEF PlatformIInv, TypeOK, OneOperation, CancelHonoured, Workers, Report, Success, Wf, Kinds, Results, BeforeCheck, CheckedKinds, Off, AsyncTaskCallback
<1>4. CancelPending'
  BY DEF PlatformIInv, TypeOK, OneOperation, CancelHonoured, CancelPending, Spent, Workers, Report, Success, Wf, Kinds, Results, BeforeCheck, CheckedKinds, Off, AsyncTaskCallback
<1>5. CancelledNeverSucceeds'
  BY DEF PlatformIInv, TypeOK, CancelledNeverSucceeds, Workers, Report, Success, Wf, Kinds, Results, BeforeCheck, CheckedKinds, Off, AsyncTaskCallback
<1>6. NoCancelSuccessLeak'
  BY DEF PlatformIInv, TypeOK, NoCancelSuccessLeak, Workers, Report, Success, Wf, Kinds, Results, BeforeCheck, CheckedKinds, Off, AsyncTaskCallback
<1>7. QED
  BY <1>1, <1>2, <1>3, <1>4, <1>5, <1>6 DEF PlatformIInv

(* AgentComplete preserves the inductive invariant. *)
LEMMA AgentCompleteInv == PlatformIInv /\ AgentComplete => PlatformIInv'
BY DEF PlatformIInv, TypeOK, OneOperation, CancelHonoured, CancelPending, Spent, CancelledNeverSucceeds, NoCancelSuccessLeak, Workers, Report, Success, Wf, Kinds, Results, BeforeCheck, CheckedKinds, Off, AgentComplete, NextKind

(* Idle preserves the inductive invariant. *)
LEMMA IdleInv == PlatformIInv /\ Idle => PlatformIInv'
<1> SUFFICES ASSUME PlatformIInv, Idle PROVE PlatformIInv'
  OBVIOUS
<1>1. TypeOK'
  <2>1. worker' \in Workers
    BY DEF PlatformIInv, TypeOK, Workers, Report, Success, Wf, Kinds, Results, BeforeCheck, CheckedKinds, Off, Idle
  <2>2. done' \subseteq Report /\ reported' \subseteq Report
    BY DEF PlatformIInv, TypeOK, Workers, Report, Success, Wf, Kinds, Results, BeforeCheck, CheckedKinds, Off, Idle
  <2>3. /\ cancelReq' \in BOOLEAN
        /\ wfCancel' \in [Wf -> BOOLEAN] /\ cancelCalled' \in [Wf -> BOOLEAN]
        /\ manifest' \in [Wf -> ManifestVersions] /\ criteria' \in [Wf -> BOOLEAN]
        /\ cached' \subseteq HandlerTypes /\ inMap' \subseteq {"main", "worker"}
        /\ leaked' \in BOOLEAN /\ raced' \in BOOLEAN /\ pending' \in BOOLEAN
        /\ mainPc' \in {"Idle", "Load", "Insert"}
        /\ ag' \in {"Ready", "Busy", "Finished", "Idle", "Rebooting"}
        /\ cur' \in Wf /\ mainWf' \in Wf /\ nextOp' \in Kinds
    BY DEF PlatformIInv, TypeOK, Wf, Kinds, Idle
  <2>4. QED
    BY <2>1, <2>2, <2>3 DEF TypeOK
<1>2. OneOperation'
  BY DEF PlatformIInv, TypeOK, OneOperation, Workers, Report, Success, Wf, Kinds, Results, BeforeCheck, CheckedKinds, Off, Idle
<1>3. CancelHonoured'
  BY DEF PlatformIInv, TypeOK, OneOperation, CancelHonoured, Workers, Report, Success, Wf, Kinds, Results, BeforeCheck, CheckedKinds, Off, Idle
<1>4. CancelPending'
  BY DEF PlatformIInv, TypeOK, OneOperation, CancelHonoured, CancelPending, Spent, Workers, Report, Success, Wf, Kinds, Results, BeforeCheck, CheckedKinds, Off, Idle
<1>5. CancelledNeverSucceeds'
  BY DEF PlatformIInv, TypeOK, CancelledNeverSucceeds, Workers, Report, Success, Wf, Kinds, Results, BeforeCheck, CheckedKinds, Off, Idle
<1>6. NoCancelSuccessLeak'
  BY DEF PlatformIInv, TypeOK, NoCancelSuccessLeak, Workers, Report, Success, Wf, Kinds, Results, BeforeCheck, CheckedKinds, Off, Idle
<1>7. QED
  BY <1>1, <1>2, <1>3, <1>4, <1>5, <1>6 DEF PlatformIInv

(* AgentDeploy preserves the inductive invariant. *)
LEMMA AgentDeployInv == PlatformIInv /\ AgentDeploy => PlatformIInv'
BY DEF PlatformIInv, TypeOK, OneOperation, CancelHonoured, CancelPending, Spent, CancelledNeverSucceeds, NoCancelSuccessLeak, Workers, Report, Success, Wf, Kinds, Results, BeforeCheck, CheckedKinds, Off, AgentDeploy

(* IsInstalled preserves the inductive invariant. *)
LEMMA IsInstalledInv == PlatformIInv /\ IsInstalled => PlatformIInv'
BY DEF PlatformIInv, TypeOK, OneOperation, CancelHonoured, CancelPending, Spent, CancelledNeverSucceeds, NoCancelSuccessLeak, Workers, Report, Success, Wf, Kinds, Results, BeforeCheck, CheckedKinds, Off, IsInstalled, LoadInsert, LoadedType, HandlerTypes, UM


(* The initial state: no worker, no cancel, nothing reported. *)
LEMMA IInvInit == Init => PlatformIInv
<1> SUFFICES ASSUME Init PROVE PlatformIInv
  OBVIOUS
<1>1. TypeOK
  <2>1. worker \in Workers
    BY DEF Init, Off, Workers, Kinds, Wf, Results
  <2>2. cur \in Wf /\ mainWf \in Wf /\ nextOp \in Kinds
    BY DEF Init, Wf, Kinds
  <2>3. QED
    BY <2>1, <2>2 DEF Init, TypeOK
<1>2. OneOperation /\ CancelHonoured
  BY DEF Init, OneOperation, CancelHonoured, Off, Wf
<1>3. CancelPending
  BY DEF Init, CancelPending, Off, Wf
<1>4. CancelledNeverSucceeds /\ NoCancelSuccessLeak
  BY DEF Init, CancelledNeverSucceeds, NoCancelSuccessLeak
<1>5. QED
  BY <1>1, <1>2, <1>3, <1>4 DEF PlatformIInv

(* A stuttering step changes none of the variables the invariant reads. *)
LEMMA IInvStutter == PlatformIInv /\ UNCHANGED vars => PlatformIInv'
BY DEF vars, PlatformIInv, TypeOK, OneOperation, CancelHonoured, CancelPending,
       Spent, CancelledNeverSucceeds, NoCancelSuccessLeak

(* Every step of the platform layer, of the agent or a stutter keeps the   *)
(* inductive invariant.                                                    *)
LEMMA IInvStep == PlatformIInv /\ [Next]_vars => PlatformIInv'
BY IInvStutter, WorkerLoadInv, WorkerInsertInv, WorkerRunInv, WorkerStageInv, WorkerCheckInv, WorkerPostInv, CancelCallInv, CancelLoadInv, CancelRequestInv, AsyncTaskCallbackInv, AgentCompleteInv, IdleInv, AgentDeployInv, IsInstalledInv DEF Next

(* The whole inductive invariant holds in every reachable state: one       *)
(* operation at a time on the current workflow, a cancel request behind    *)
(* every cancelled run, and no success reported after a cancel.            *)
THEOREM PlatformIInvProved == Spec => []PlatformIInv
BY IInvInit, IInvStep, PTL DEF Spec

(* The type invariant of the platform layer holds in every reachable state. *)
THEOREM PlatformTypeCorrect == Spec => []TypeOK
<1>1. PlatformIInv => TypeOK
  BY DEF PlatformIInv
<1>2. QED
  BY <1>1, IInvInit, IInvStep, PTL DEF Spec

(* A Cancel that reaches an operation other than Restore before its flag   *)
(* test is never followed by a success report of that operation, for every *)
(* number of deployments and every interleaving of the worker thread, the  *)
(* main thread's Cancel and the agent.                                     *)
THEOREM CancelledNeverSucceedsProved == Spec => []CancelledNeverSucceeds
<1>1. PlatformIInv => CancelledNeverSucceeds
  BY DEF PlatformIInv
<1>2. QED
  BY <1>1, IInvInit, IInvStep, PTL DEF Spec

(* The handler's Cancel_Success never reaches the agent: the wrapper's     *)
(* flag test always turns it into Failure_Cancelled.                       *)
THEOREM NoCancelSuccessLeakProved == Spec => []NoCancelSuccessLeak
<1>1. PlatformIInv => NoCancelSuccessLeak
  BY DEF PlatformIInv
<1>2. QED
  BY <1>1, IInvInit, IInvStep, PTL DEF Spec
===============================================================================
