------------------------- MODULE SettleSoundProofs -------------------------
(***************************************************************************)
(* SettleSound for every instance whose images have distinct header       *)
(* versions: IsInstalled(c) only ever holds for the criteria of an image   *)
(* that has run confirmed.  The argument follows the post-reboot routine:  *)
(* the settle in Update_NVImgUpgSt_PostReboot promotes the stage criteria  *)
(* only when nvImgUpgSt_installed matched the stage version against the    *)
(* primary header and the image-ok flag read true.  That is sound because *)
(* the stage criteria and the stage version always name the same image     *)
(* (StageConsistent), which holds because Apply stages the criteria only   *)
(* after Download staged the version of the same image (WorkflowStaged),   *)
(* and a download never runs with a stage criteria present                 *)
(* (DownloadClean).                                                        *)
(***************************************************************************)
EXTENDS McubUpdateProofs

USE NvAssumption, McubAssumption, NoRecordAssumption

(* The conjuncts of IInv beyond TypeInv. *)
Hist ==
  /\ ConfirmedHistory
  /\ DownloadClean
  /\ WorkflowStaged
  /\ NotDownloaded
  /\ StageConsistent
  /\ SettleSound

(* The initial states satisfy IInv. *)
LEMMA IInvInit == Init => IInv
<1> SUFFICES ASSUME Init PROVE IInv
  OBVIOUS
<1>1. TypeInv
  BY TypeInvInit
<1>2. ConfirmedHistory /\ DownloadClean /\ WorkflowStaged /\ NotDownloaded
  BY DEF Init, ConfirmedHistory, DownloadClean, DlPCs, WorkflowStaged,
         NotDownloaded, NoWorkflow
<1>3. StageConsistent /\ SettleSound
  <2>1. CASE Init!1!1
    BY <2>1 DEF StageConsistent, SettleSound, nvImgUpgSt_getAll
  <2>2. CASE Init!1!2
    BY <2>2 DEF StageConsistent, SettleSound, SettledRecord
  <2>3. QED BY <2>1, <2>2 DEF Init
<1>4. QED BY <1>1, <1>2, <1>3 DEF IInv

(* A reset leaves the record as it was, grows the confirmed history, and   *)
(* starts the post-reboot routine with no workflow.                        *)
LEMMA BootHist ==
  ASSUME TypeOK, Hist, Boot
  PROVE  Hist'
<1>1. nv' = nv /\ wf' = NoWorkflow /\ pc' \in {"PostReboot1", "Bricked"}
  BY DEF Boot
<1>2. everConfirmed \subseteq everConfirmed'
  BY DEF Boot, McubootBoot
<1>3. ConfirmedHistory'
  <2>1. CASE McubootBoot!1
    BY <2>1 DEF ConfirmedHistory
  <2>2. CASE McubootBoot!2
    BY <2>2 DEF ConfirmedHistory
  <2>3. CASE McubootBoot!3
    BY <2>3 DEF Hist, ConfirmedHistory
  <2>4. QED BY <2>1, <2>2, <2>3 DEF Boot, McubootBoot
<1>4. DownloadClean' /\ WorkflowStaged' /\ NotDownloaded'
  BY <1>1 DEF DownloadClean, DlPCs, WorkflowStaged, NotDownloaded, NoWorkflow
<1>5. StageConsistent'
  BY <1>1 DEF Hist, StageConsistent
<1>6. SettleSound'
  BY <1>1, <1>2 DEF Hist, SettleSound
<1>7. QED BY <1>3, <1>4, <1>5, <1>6 DEF Hist

(* Two stored states agree on what the lifecycle reads of them: whether a  *)
(* record is stored, its stage version, and both criteria fields.          *)
SameFields(a, b) ==
  /\ nvImgUpgSt_getAll(a) = nvImgUpgSt_getAll(b)
  /\ nvImgUpgSt_getAll(a) =>
       /\ a.stageVersion_valid = b.stageVersion_valid
       /\ a.stageVersion = b.stageVersion
       /\ a.stageInstalledCriteria_valid = b.stageInstalledCriteria_valid
       /\ a.stageInstalledCriteria = b.stageInstalledCriteria
       /\ a.persistentInstalledCriteria_valid =
            b.persistentInstalledCriteria_valid
       /\ a.persistentInstalledCriteria = b.persistentInstalledCriteria

(* nvImgUpgSt_setInstallRebooted changes nothing the lifecycle reads      *)
(* besides the flag, whether or not its kv_set succeeds.                  *)
LEMMA SetInstallRebootedSame ==
  ASSUME NEW st, RecordOK(st), nvImgUpgSt_getAll(st), NEW b \in BOOLEAN,
         NEW ok \in BOOLEAN
  PROVE  SameFields(st, IF ok THEN nvImgUpgSt_setInstallRebooted(st, b) ELSE st)
<1>1. SameFields(st, nvImgUpgSt_setInstallRebooted(st, b))
  BY SetInstallRebootedFields DEF SameFields
<1>2. SameFields(st, st)
  BY DEF SameFields
<1>3. QED BY <1>1, <1>2

(* A write that keeps what the lifecycle reads keeps the stage            *)
(* consistency and the soundness of the settled criteria.                 *)
LEMMA SameFieldsStage ==
  ASSUME StageConsistent, SettleSound, SameFields(nv, nv'),
         everConfirmed \subseteq everConfirmed'
  PROVE  StageConsistent' /\ SettleSound'
BY DEF StageConsistent, SettleSound, SameFields

(* Ending a workflow leaves nothing staged by a workflow to account for. *)
LEMMA FailHist ==
  ASSUME Fail
  PROVE  DownloadClean' /\ WorkflowStaged' /\ NotDownloaded'
BY DEF Fail, NoWorkflow, DownloadClean, DlPCs, WorkflowStaged, NotDownloaded

(* The post-reboot steps of a boot that has no workflow. *)
LEMMA PostRebootHist ==
  ASSUME Hist, pc \in {"PostReboot1", "PostReboot2", "PostReboot3",
                       "PostReboot4"},
         pc' \in {"PostReboot2", "PostReboot3", "PostReboot4", "SystemReset",
                  "Idle"},
         wf' = wf
  PROVE  DownloadClean' /\ WorkflowStaged' /\ NotDownloaded'
BY DEF Hist, NotDownloaded, DlPCs, DownloadClean, WorkflowStaged

(* PostReboot1 rewrites only the installRebooted flag. *)
LEMMA PostReboot1Hist ==
  ASSUME TypeInv, Hist, PostReboot1
  PROVE  Hist'
<1>1. SameFields(nv, nv')
  <2>1. CASE PostReboot1!2!1
    <3>1. PICK ok \in Outcomes :
            StoreIf(ok, nvImgUpgSt_setInstallRebooted(nv, TRUE))
      BY <2>1
    <3>2. RecordOK(nv) /\ nvImgUpgSt_getAll(nv)
      BY <2>1 DEF TypeInv, TypeOK, nvImgUpgSt_installRebooted
    <3>3. QED BY <3>1, <3>2, OutcomesBoolean, SetInstallRebootedSame DEF StoreIf
  <2>2. CASE PostReboot1!2!2
    BY <2>2 DEF SameFields
  <2>3. QED BY <2>1, <2>2 DEF PostReboot1
<1>2. StageConsistent' /\ SettleSound'
  BY <1>1, SameFieldsStage DEF PostReboot1, Hist
<1>3. ConfirmedHistory'
  BY DEF PostReboot1, Hist, ConfirmedHistory
<1>4. DownloadClean' /\ WorkflowStaged' /\ NotDownloaded'
  BY PostRebootHist DEF PostReboot1
<1>5. QED BY <1>2, <1>3, <1>4 DEF Hist

(* PostReboot2: boot_set_confirmed marks the running image ok, and the    *)
(* history records it.                                                     *)
LEMMA PostReboot2Hist ==
  ASSUME TypeInv, Hist, PostReboot2
  PROVE  Hist'
<1>1. everConfirmed \subseteq everConfirmed' /\ UNCHANGED <<nv, wf>>
  BY DEF PostReboot2
<1>2. StageConsistent' /\ SettleSound'
  BY <1>1, SameFieldsStage DEF SameFields, Hist
<1>3. ConfirmedHistory'
  <2>1. PICK confirmed \in ConfirmedReads : PostReboot2!2!(confirmed)
    BY DEF PostReboot2
  <2>2. CASE PostReboot2!2!(confirmed)!1
    <3>1. PICK ok \in Outcomes :
            /\ prim' = [prim EXCEPT !.imageOk = prim.imageOk \/ ok]
            /\ everConfirmed' =
                 IF ok THEN everConfirmed \cup {prim.img} ELSE everConfirmed
      BY <2>2
    <3>2. prim \in PrimSlots
      BY DEF TypeInv, TypeOK
    <3>3. QED BY <3>1, <3>2, OutcomesBoolean DEF PrimSlots, ConfirmedHistory, Hist
  <2>3. CASE PostReboot2!2!(confirmed)!2
    BY <2>3 DEF ConfirmedHistory, Hist
  <2>4. QED BY <2>1, <2>2, <2>3
<1>4. DownloadClean' /\ WorkflowStaged' /\ NotDownloaded'
  BY PostRebootHist DEF PostReboot2
<1>5. QED BY <1>2, <1>3, <1>4 DEF Hist

(* nvImgUpgSt_reset(false) leaves no stage criteria and keeps the settled *)
(* one, so it keeps the stage consistency and the soundness.              *)
LEMMA ResetStage ==
  ASSUME RecordOK(nv), StageConsistent, SettleSound, NEW ok \in BOOLEAN,
         StoreIf(ok, nvImgUpgSt_reset(nv, FALSE)),
         everConfirmed' = everConfirmed
  PROVE  StageConsistent' /\ SettleSound'
<1>1. CASE ok
  BY <1>1, ResetFields DEF StoreIf, StageConsistent, SettleSound
<1>2. CASE ~ok
  BY <1>2 DEF StoreIf, StageConsistent, SettleSound
<1>3. QED BY <1>1, <1>2

(* The settle step is sound.  nvImgUpgSt_installed matched the stage      *)
(* version against the header of the running image, so the staged image  *)
(* is the running one (versions are distinct), and a confirmed read means *)
(* it has run confirmed.                                                   *)
LEMMA SettleSoundStep ==
  ASSUME VerInjective, TypeInv, Hist, pc = "PostReboot3",
         NEW confirmed \in ConfirmedReads, confirmed,
         nvImgUpgSt_installed(nv, ActiveVersion),
         settleInstalledCriteriaGuard(nv),
         everConfirmed' = everConfirmed,
         nv' = nvImgUpgSt_settleInstalledCriteria(nv)
  PROVE  StageConsistent' /\ SettleSound'
<1>1. prim.img \in Images
  BY DEF TypeInv, RunningImage
<1>2. PICK i \in Images : /\ nv.stageInstalledCriteria = CritOf[i]
                          /\ nv.stageVersion = Ver[i]
  BY DEF Hist, StageConsistent, settleInstalledCriteriaGuard
<1>3. nv.stageVersion = Ver[prim.img]
  BY DEF nvImgUpgSt_installed, ActiveVersion
<1>4. i = prim.img
  BY <1>1, <1>2, <1>3 DEF VerInjective
<1>5. prim.imageOk
  BY DEF ConfirmedReads
<1>6. prim.img \in everConfirmed
  BY <1>1, <1>5 DEF Hist, ConfirmedHistory
<1>7. RecordOK(nv)
  BY DEF TypeInv, TypeOK
<1>8. /\ ~nv'.stageInstalledCriteria_valid
      /\ nv'.persistentInstalledCriteria = CritOf[i]
  BY <1>2, <1>7, SettleFields
<1>9. QED BY <1>4, <1>6, <1>8 DEF StageConsistent, SettleSound

(* PostReboot3: settle, revert, or nothing. *)
LEMMA PostReboot3Hist ==
  ASSUME VerInjective, TypeInv, Hist, PostReboot3
  PROVE  Hist'
<1>1. RecordOK(nv)
  BY DEF TypeInv, TypeOK
<1>2. StageConsistent' /\ SettleSound'
  <2>1. PICK confirmed \in ConfirmedReads : PostReboot3!2!(confirmed)
    BY DEF PostReboot3
  <2>2. everConfirmed' = everConfirmed
    BY DEF PostReboot3
  <2>3. CASE PostReboot3!2!(confirmed)!1
    <3>1. PICK ok \in Outcomes :
            StoreIf(ok /\ settleInstalledCriteriaGuard(nv),
                    nvImgUpgSt_settleInstalledCriteria(nv))
      BY <2>3
    <3>2. CASE ok /\ settleInstalledCriteriaGuard(nv)
      BY <2>2, <2>3, <3>1, <3>2, SettleSoundStep DEF StoreIf, PostReboot3
    <3>3. CASE ~(ok /\ settleInstalledCriteriaGuard(nv))
      BY <2>2, <3>1, <3>3 DEF StoreIf, StageConsistent, SettleSound, Hist
    <3>4. QED BY <3>2, <3>3
  <2>4. CASE PostReboot3!2!(confirmed)!2
    <3>1. PICK ok \in Outcomes : StoreIf(ok, nvImgUpgSt_reset(nv, FALSE))
      BY <2>4
    <3>2. QED BY <1>1, <2>2, <3>1, OutcomesBoolean, ResetStage DEF Hist
  <2>5. CASE PostReboot3!2!(confirmed)!3
    BY <2>2, <2>5 DEF StageConsistent, SettleSound, Hist
  <2>6. QED BY <2>1, <2>3, <2>4, <2>5
<1>3. ConfirmedHistory'
  BY DEF PostReboot3, Hist, ConfirmedHistory
<1>4. DownloadClean' /\ WorkflowStaged' /\ NotDownloaded'
  <2>1. pc' \in {"PostReboot4", "SystemReset", "Idle"}
    BY DEF PostReboot3
  <2>2. QED BY <2>1, PostRebootHist DEF PostReboot3
<1>5. QED BY <1>2, <1>3, <1>4 DEF Hist

(* PostReboot4: nvImgUpgSt_reset(false) after the settle. *)
LEMMA PostReboot4Hist ==
  ASSUME TypeInv, Hist, PostReboot4
  PROVE  Hist'
<1>1. StageConsistent' /\ SettleSound'
  <2>1. PICK ok \in Outcomes : StoreIf(ok, nvImgUpgSt_reset(nv, FALSE))
    BY DEF PostReboot4
  <2>2. QED BY <2>1, OutcomesBoolean, ResetStage
            DEF PostReboot4, Hist, TypeInv, TypeOK
<1>2. ConfirmedHistory'
  BY DEF PostReboot4, Hist, ConfirmedHistory
<1>3. DownloadClean' /\ WorkflowStaged' /\ NotDownloaded'
  BY PostRebootHist DEF PostReboot4
<1>4. QED BY <1>1, <1>2, <1>3 DEF Hist

(* Steps that leave the record and the history alone keep the stage       *)
(* consistency and the soundness.                                         *)
LEMMA UnchangedStage ==
  ASSUME Hist, nv' = nv, everConfirmed' = everConfirmed
  PROVE  StageConsistent' /\ SettleSound'
BY DEF Hist, StageConsistent, SettleSound

(* Steps that leave the primary slot and the history alone keep the       *)
(* confirmed history.                                                      *)
LEMMA UnchangedHistory ==
  ASSUME Hist, prim' = prim, everConfirmed' = everConfirmed
  PROVE  ConfirmedHistory'
BY DEF Hist, ConfirmedHistory

(* OTACtx_Reinit's nvImgUpgSt_reset(false) starts a download from a       *)
(* record without stage criteria.                                          *)
LEMMA DownloadStartHist ==
  ASSUME TypeInv, Hist, NEW i \in DeployImages, DownloadStart(i)
  PROVE  Hist'
<1>1. PICK ok \in Outcomes :
        /\ StoreIf(ok, nvImgUpgSt_reset(nv, FALSE))
        /\ IF ok THEN pc' = "DlErase" /\ wf' = [img |-> i, downloaded |-> FALSE]
                 ELSE Fail
  BY DEF DownloadStart
<1>2. RecordOK(nv)
  BY DEF TypeInv, TypeOK
<1>3. StageConsistent' /\ SettleSound'
  BY <1>1, <1>2, OutcomesBoolean, ResetStage DEF DownloadStart, Hist
<1>4. ConfirmedHistory'
  BY UnchangedHistory DEF DownloadStart
<1>5. DownloadClean' /\ WorkflowStaged' /\ NotDownloaded'
  <2>1. CASE ok
    <3>1. nv' = nvImgUpgSt_reset(nv, FALSE)
      BY <1>1, <2>1 DEF StoreIf
    <3>2. nvImgUpgSt_getAll(nv') /\ ~nv'.stageInstalledCriteria_valid
      BY <1>2, <3>1, ResetFields
    <3>3. pc' = "DlErase" /\ wf' = [img |-> i, downloaded |-> FALSE]
      BY <1>1, <2>1, OutcomesBoolean
    <3>4. QED BY <3>2, <3>3 DEF DownloadClean, WorkflowStaged, NotDownloaded
  <2>2. CASE ~ok
    BY <1>1, <2>2, OutcomesBoolean, FailHist
  <2>3. QED BY <2>1, <2>2
<1>6. QED BY <1>3, <1>4, <1>5 DEF Hist

(* OTACtx_Reinit's erase of the secondary slot. *)
LEMMA DownloadEraseHist ==
  ASSUME Hist, DownloadErase
  PROVE  Hist'
<1>1. StageConsistent' /\ SettleSound' /\ ConfirmedHistory'
  BY UnchangedStage, UnchangedHistory DEF DownloadErase
<1>2. CASE DownloadErase!2!1
  <2>1. DownloadClean' /\ WorkflowStaged' /\ NotDownloaded'
    BY <1>2 DEF DownloadErase, Hist, DownloadClean, DlPCs, WorkflowStaged,
               NotDownloaded
  <2>2. QED BY <1>1, <2>1 DEF Hist
<1>3. CASE DownloadErase!2!2
  BY <1>1, <1>3, FailHist DEF Hist
<1>4. QED BY <1>2, <1>3 DEF DownloadErase

(* The header chunk: nvImgUpgSt_setStageVersion stages the version of the *)
(* image being downloaded.                                                 *)
LEMMA DownloadHeaderHist ==
  ASSUME TypeInv, Hist, DownloadHeader
  PROVE  Hist'
<1>1. ConfirmedHistory'
  BY UnchangedHistory DEF DownloadHeader
<1>2. CASE DownloadHeader!2!1
  BY <1>1, <1>2, FailHist, UnchangedStage DEF Hist, DownloadHeader
<1>3. CASE DownloadHeader!2!2
  <2> DEFINE g == setStageVersionGuard(nv)
  <2>1. PICK ok \in Outcomes :
          /\ StoreIf(ok /\ g, nvImgUpgSt_setStageVersion(nv, Ver[wf.img]))
          /\ IF ok /\ g
               THEN /\ sec' = [img |-> wf.img, whole |-> FALSE,
                               pending |-> FALSE]
                    /\ pc' = "DlBody"
                    /\ UNCHANGED wf
               ELSE /\ UNCHANGED sec
                    /\ Fail
    BY <1>3
  <2>2. wf.img \in Images /\ RecordOK(nv) /\ pc = "DlHeader"
    BY <1>3 DEF TypeInv, TypeOK, DownloadHeader
  <2>3. CASE ok /\ g
    <3>1. nv' = nvImgUpgSt_setStageVersion(nv, Ver[wf.img])
      BY <2>1, <2>3 DEF StoreIf
    <3>2. nvImgUpgSt_getAll(nv)
      BY <2>3 DEF setStageVersionGuard
    <3>3. /\ nvImgUpgSt_getAll(nv')
          /\ nv'.stageVersion_valid /\ nv'.stageVersion = Ver[wf.img]
          /\ nv'.stageInstalledCriteria_valid = nv.stageInstalledCriteria_valid
          /\ nv'.persistentInstalledCriteria_valid =
               nv.persistentInstalledCriteria_valid
          /\ nv'.persistentInstalledCriteria = nv.persistentInstalledCriteria
      BY <2>2, <3>1, <3>2, SetStageVersionFields
    <3>4. ~nv.stageInstalledCriteria_valid /\ ~wf.downloaded
      BY <2>2 DEF Hist, DownloadClean, NotDownloaded, DlPCs
    <3>5. pc' = "DlBody" /\ wf' = wf /\ everConfirmed' = everConfirmed
      BY <1>3, <2>1, <2>3, OutcomesBoolean DEF DownloadHeader
    <3>6. StageConsistent' /\ SettleSound'
      BY <3>2, <3>3, <3>4, <3>5 DEF Hist, StageConsistent, SettleSound
    <3>7. DownloadClean' /\ WorkflowStaged' /\ NotDownloaded'
      BY <3>3, <3>4, <3>5 DEF DownloadClean, WorkflowStaged, NotDownloaded,
                              DlPCs
    <3>8. QED BY <1>1, <3>6, <3>7 DEF Hist
  <2>4. CASE ~(ok /\ g)
    <3>1. nv' = nv /\ Fail
      BY <2>1, <2>4 DEF StoreIf
    <3>2. QED BY <1>1, <1>3, <3>1, FailHist, UnchangedStage DEF DownloadHeader, Hist
  <2>5. QED BY <2>3, <2>4
<1>4. QED BY <1>2, <1>3 DEF DownloadHeader

(* The rest of the body, and an abort between chunks. *)
LEMMA DownloadBodyAbortHist ==
  ASSUME Hist, DownloadBody \/ DownloadAbort
  PROVE  Hist'
<1>1. StageConsistent' /\ SettleSound' /\ ConfirmedHistory'
  BY UnchangedStage, UnchangedHistory DEF DownloadBody, DownloadAbort
<1>2. CASE DownloadBody
  BY <1>1, <1>2 DEF DownloadBody, Hist, DownloadClean, DlPCs, WorkflowStaged,
                    NotDownloaded
<1>3. CASE DownloadAbort
  BY <1>1, <1>3, FailHist DEF DownloadAbort, Hist
<1>4. QED BY <1>2, <1>3

(* VerifySignature succeeds: the workflow is downloaded, and the version  *)
(* staged by its header is still in the record.                            *)
LEMMA DownloadVerifyHist ==
  ASSUME TypeInv, Hist, DownloadVerify
  PROVE  Hist'
<1>1. StageConsistent' /\ SettleSound' /\ ConfirmedHistory'
  BY UnchangedStage, UnchangedHistory DEF DownloadVerify
<1>2. CASE DownloadVerify!2!1
  <2>1. wf' = [wf EXCEPT !.downloaded = TRUE] /\ pc' = "Idle" /\ nv' = nv
    BY <1>2 DEF DownloadVerify
  <2>2. wf \in Workflows
    BY DEF TypeInv, TypeOK
  <2>3. wf'.img = wf.img /\ wf'.downloaded
    BY <2>1, <2>2 DEF Workflows
  <2>4. WorkflowStaged'
    BY <2>1, <2>3 DEF DownloadVerify, Hist, WorkflowStaged
  <2>5. DownloadClean' /\ NotDownloaded'
    BY <2>1 DEF DownloadClean, NotDownloaded, DlPCs
  <2>6. QED BY <1>1, <2>4, <2>5 DEF Hist
<1>3. CASE DownloadVerify!2!2
  BY <1>1, <1>3, FailHist DEF Hist
<1>4. QED BY <1>2, <1>3 DEF DownloadVerify

(* Apply stages the criteria of the downloaded image, whose version the   *)
(* header chunk staged.                                                    *)
LEMMA ApplyStageCriteriaHist ==
  ASSUME TypeInv, Hist, ApplyStageCriteria
  PROVE  Hist'
<1>1. ConfirmedHistory'
  BY UnchangedHistory DEF ApplyStageCriteria
<1>2. /\ wf.downloaded /\ wf.img \in Images /\ RecordOK(nv)
      /\ everConfirmed' = everConfirmed
  BY DEF ApplyStageCriteria, TypeInv, TypeOK, WorkflowImage
<1>3. /\ nvImgUpgSt_getAll(nv) /\ nv.stageVersion_valid
      /\ nv.stageVersion = Ver[wf.img]
  BY <1>2 DEF Hist, WorkflowStaged
<1>4. CASE ApplyStageCriteria!3!1
  <2> DEFINE g == setStageInstalledCriteriaGuard(nv, CritOf[wf.img])
  <2>1. PICK ok \in Outcomes :
          /\ StoreIf(ok /\ g,
                     nvImgUpgSt_setStageInstalledCriteria(nv, CritOf[wf.img]))
          /\ IF ok /\ g THEN pc' = "ApplySetPending" /\ UNCHANGED wf
                        ELSE Fail
    BY <1>4
  <2>2. CASE ok /\ g
    <3>1. nv' = nvImgUpgSt_setStageInstalledCriteria(nv, CritOf[wf.img])
      BY <2>1, <2>2 DEF StoreIf
    <3>0. PICK c \in Criteria : c = CritOf[wf.img]
      BY <1>2
    <3>2. /\ nvImgUpgSt_getAll(nv')
          /\ nv'.stageInstalledCriteria_valid
          /\ nv'.stageInstalledCriteria = CritOf[wf.img]
          /\ nv'.stageVersion_valid = nv.stageVersion_valid
          /\ nv'.stageVersion = nv.stageVersion
          /\ nv'.persistentInstalledCriteria_valid =
               nv.persistentInstalledCriteria_valid
          /\ nv'.persistentInstalledCriteria = nv.persistentInstalledCriteria
      <4>1. nv' = nvImgUpgSt_setStageInstalledCriteria(nv, c)
        BY <3>0, <3>1
      <4>2. LET r == nvImgUpgSt_setStageInstalledCriteria(nv, c)
            IN  /\ nvImgUpgSt_getAll(r)
                /\ r.stageInstalledCriteria_valid /\ r.stageInstalledCriteria = c
                /\ r.stageVersion_valid = nv.stageVersion_valid
                /\ r.stageVersion = nv.stageVersion
                /\ r.persistentInstalledCriteria_valid =
                     nv.persistentInstalledCriteria_valid
                /\ r.persistentInstalledCriteria = nv.persistentInstalledCriteria
        BY <1>2, <1>3, SetStageCriteriaFields
      <4>3. QED BY <3>0, <4>1, <4>2
    <3>3. pc' = "ApplySetPending" /\ wf' = wf
      BY <2>1, <2>2, OutcomesBoolean
    <3>4. StageConsistent'
      BY <1>2, <1>3, <3>2 DEF StageConsistent
    <3>5. SettleSound'
      BY <1>2, <1>3, <3>2 DEF Hist, SettleSound
    <3>6. DownloadClean' /\ WorkflowStaged' /\ NotDownloaded'
      BY <1>3, <3>2, <3>3 DEF DownloadClean, DlPCs, WorkflowStaged,
                              NotDownloaded
    <3>7. QED BY <1>1, <3>4, <3>5, <3>6 DEF Hist
  <2>3. CASE ~(ok /\ g)
    <3>1. nv' = nv /\ Fail
      BY <2>1, <2>3 DEF StoreIf
    <3>2. QED BY <1>1, <1>2, <3>1, FailHist, UnchangedStage DEF Hist
  <2>4. QED BY <2>2, <2>3
<1>5. CASE ApplyStageCriteria!3!2
  BY <1>1, <1>2, <1>5, FailHist, UnchangedStage DEF Hist
<1>6. QED BY <1>4, <1>5 DEF ApplyStageCriteria

(* boot_set_pending touches only the secondary slot. *)
LEMMA ApplySetPendingHist ==
  ASSUME Hist, ApplySetPending
  PROVE  Hist'
<1>1. StageConsistent' /\ SettleSound' /\ ConfirmedHistory'
  BY UnchangedStage, UnchangedHistory DEF ApplySetPending
<1>2. CASE ApplySetPending!2!1
  BY <1>1, <1>2 DEF ApplySetPending, Hist, DownloadClean, DlPCs,
                    WorkflowStaged, NotDownloaded
<1>3. CASE ApplySetPending!2!2
  BY <1>1, <1>3, FailHist DEF Hist
<1>4. QED BY <1>2, <1>3 DEF ApplySetPending

(* Apply's nvImgUpgSt_setInstallRebooted(false) keeps the staged fields. *)
LEMMA ApplySetRebootedHist ==
  ASSUME TypeInv, Hist, ApplySetRebooted
  PROVE  Hist'
<1>1. ConfirmedHistory'
  BY UnchangedHistory DEF ApplySetRebooted
<1>2. PICK ok \in Outcomes :
        /\ StoreIf(ok /\ setInstallRebootedGuard(nv),
                   nvImgUpgSt_setInstallRebooted(nv, FALSE))
        /\ IF ok /\ setInstallRebootedGuard(nv)
             THEN pc' = "RebootRequested" /\ UNCHANGED wf
             ELSE Fail
  BY DEF ApplySetRebooted
<1>3. RecordOK(nv) /\ everConfirmed' = everConfirmed
  BY DEF TypeInv, TypeOK, ApplySetRebooted
<1>4. CASE ok /\ setInstallRebootedGuard(nv)
  <2>1. SameFields(nv, nv')
    BY <1>2, <1>3, <1>4, OutcomesBoolean, SetInstallRebootedSame
    DEF StoreIf, setInstallRebootedGuard
  <2>2. StageConsistent' /\ SettleSound'
    BY <1>3, <2>1, SameFieldsStage DEF Hist
  <2>3. pc' = "RebootRequested" /\ wf' = wf
    BY <1>2, <1>4
  <2>4. DownloadClean' /\ WorkflowStaged' /\ NotDownloaded'
    BY <2>1, <2>3 DEF Hist, SameFields, DownloadClean, DlPCs, WorkflowStaged,
                      NotDownloaded
  <2>5. QED BY <1>1, <2>2, <2>4 DEF Hist
<1>5. CASE ~(ok /\ setInstallRebootedGuard(nv))
  <2>1. nv' = nv /\ Fail
    BY <1>2, <1>5 DEF StoreIf
  <2>2. QED BY <1>1, <1>3, <2>1, FailHist, UnchangedStage DEF Hist
<1>6. QED BY <1>4, <1>5

(* Every step preserves IInv, one action at a time. *)
LEMMA IInvStep ==
  ASSUME VerInjective, IInv, [Next]_vars
  PROVE  IInv'
<1>1. TypeInv /\ TypeInv' /\ Hist /\ TypeOK
  BY TypeInvStep DEF IInv, Hist, TypeInv
<1>2. Hist'
  <2>1. CASE RequestedReset \/ PowerLoss
    BY <1>1, <2>1, BootHist DEF RequestedReset, PowerLoss
  <2>2. CASE PostReboot1
    BY <1>1, <2>2, PostReboot1Hist
  <2>3. CASE PostReboot2
    BY <1>1, <2>3, PostReboot2Hist
  <2>4. CASE PostReboot3
    BY <1>1, <2>4, PostReboot3Hist
  <2>5. CASE PostReboot4
    BY <1>1, <2>5, PostReboot4Hist
  <2>6. CASE \E i \in DeployImages : DownloadStart(i)
    BY <1>1, <2>6, DownloadStartHist
  <2>7. CASE DownloadErase
    BY <1>1, <2>7, DownloadEraseHist
  <2>8. CASE DownloadHeader
    BY <1>1, <2>8, DownloadHeaderHist
  <2>9. CASE DownloadBody \/ DownloadAbort
    BY <1>1, <2>9, DownloadBodyAbortHist
  <2>10. CASE DownloadVerify
    BY <1>1, <2>10, DownloadVerifyHist
  <2>11. CASE ApplyStageCriteria
    BY <1>1, <2>11, ApplyStageCriteriaHist
  <2>12. CASE ApplySetPending
    BY <1>1, <2>12, ApplySetPendingHist
  <2>13. CASE ApplySetRebooted
    BY <1>1, <2>13, ApplySetRebootedHist
  <2>14. CASE UNCHANGED vars
    BY <1>1, <2>14 DEF vars, Hist, ConfirmedHistory, DownloadClean,
                       WorkflowStaged, NotDownloaded, StageConsistent,
                       SettleSound
  <2>15. QED
    BY <2>1, <2>2, <2>3, <2>4, <2>5, <2>6, <2>7, <2>8, <2>9, <2>10, <2>11,
       <2>12, <2>13, <2>14 DEF Next
<1>3. QED BY <1>1, <1>2 DEF IInv, Hist

(* When the deployable images have distinct header versions, the settled  *)
(* installed criteria that IsInstalled compares against is always that of *)
(* an image that has run confirmed in the primary slot, whatever kv_set,  *)
(* flash read or trailer write failed and wherever power was lost.        *)
THEOREM SettleSoundProved ==
  ASSUME VerInjective
  PROVE  Spec => []SettleSound
<1>1. Init => IInv
  BY IInvInit
<1>2. IInv /\ [Next]_vars => IInv'
  BY IInvStep
<1>3. IInv => SettleSound
  BY DEF IInv
<1>4. QED BY <1>1, <1>2, <1>3, PTL DEF Spec

(* The whole inductive invariant IInv that the lifecycle run checks holds  *)
(* in every reachable state of the update handler across resets, power    *)
(* losses and flash faults: the image history, the download and workflow  *)
(* bookkeeping and the settled installedCriteria stay consistent.          *)
THEOREM IInvProved ==
  ASSUME VerInjective
  PROVE  Spec => []IInv
BY IInvInit, IInvStep, PTL DEF Spec
=============================================================================
