------------------------ MODULE McubRefinementProofs ------------------------
(***************************************************************************)
(* The update lifecycle implements the abstract IsInstalled promise        *)
(* (InstalledCriteria, under the mapping Abs of McubUpdate) for every      *)
(* instance whose images have distinct header versions.  Every step of     *)
(* McubUpdate maps to a step of the abstract specification or to a         *)
(* stutter: a reset or boot_set_confirmed adds one image to the history,   *)
(* the post-reboot settle settles the criteria of an image of the history  *)
(* (by SettleSound in the next state, from the inductive invariant IInv),  *)
(* and every other write keeps the persistent fields that IsInstalled      *)
(* reads, nvImgUpgSt_reset(false) included.                                *)
(***************************************************************************)
EXTENDS SettleSoundProofs

USE NvAssumption, McubAssumption, NoRecordAssumption

(* Two readable records with the same persistent fields give IsInstalled  *)
(* the same answer.                                                        *)
LEMMA SamePersistent ==
  ASSUME NEW st, NEW r, nvImgUpgSt_getAll(st), nvImgUpgSt_getAll(r),
         r.persistentInstalledCriteria_valid =
           st.persistentInstalledCriteria_valid,
         r.persistentInstalledCriteria = st.persistentInstalledCriteria
  PROVE  InstalledOf(r) = InstalledOf(st)
BY DEF InstalledOf

(* nvImgUpgSt_reset(false) never changes what IsInstalled reports: with   *)
(* no readable record it writes ZeroRecord, which holds no criteria, and   *)
(* otherwise it zeroes only the fields before 'reserved'.                  *)
LEMMA ResetKeepsInstalled ==
  ASSUME NEW st, RecordOK(st)
  PROVE  InstalledOf(nvImgUpgSt_reset(st, FALSE)) = InstalledOf(st)
<1>1. CASE st = NoRecord
  <2>1. nvImgUpgSt_reset(st, FALSE) = ZeroRecord
    BY <1>1 DEF nvImgUpgSt_reset, nvImgUpgSt_getAll
  <2>2. ~ZeroRecord.persistentInstalledCriteria_valid
    BY DEF ZeroRecord
  <2>3. InstalledOf(ZeroRecord) = EmptyCriteria
    BY <2>2 DEF InstalledOf
  <2>4. InstalledOf(st) = EmptyCriteria
    BY <1>1 DEF InstalledOf, nvImgUpgSt_getAll
  <2>5. QED BY <2>1, <2>3, <2>4
<1>2. CASE st # NoRecord
  <2>1. st \in Record
    BY <1>2 DEF RecordOK
  <2> DEFINE r == nvImgUpgSt_reset(st, FALSE)
  <2>2. r = [st EXCEPT !.stageVersion_valid = FALSE,
                       !.stageVersion = ZeroVersion,
                       !.installRebooted_valid = FALSE,
                       !.installRebooted = FALSE,
                       !.stageInstalledCriteria_valid = FALSE,
                       !.stageInstalledCriteria = EmptyCriteria]
    BY <1>2 DEF nvImgUpgSt_reset, nvImgUpgSt_getAll
  <2>3. r \in Record
    BY <2>1, <2>2 DEF Record, CriteriaString
  <2>4. /\ r.persistentInstalledCriteria_valid =
             st.persistentInstalledCriteria_valid
        /\ r.persistentInstalledCriteria = st.persistentInstalledCriteria
    BY <2>1, <2>2 DEF Record
  <2>5. nvImgUpgSt_getAll(r) /\ nvImgUpgSt_getAll(st)
    BY <1>2, <2>3 DEF nvImgUpgSt_getAll
  <2>6. QED BY <2>4, <2>5, SamePersistent
<1>3. QED BY <1>1, <1>2

(* The mapped abstract variables. *)
AbsVars == <<InstalledOf(nv), everConfirmed>>

(* A step that keeps both the reported criteria and the history is an     *)
(* abstract stutter.                                                       *)
LEMMA AbsStutter ==
  ASSUME InstalledOf(nv') = InstalledOf(nv), everConfirmed' = everConfirmed
  PROVE  [Abs!Next]_AbsVars
BY DEF AbsVars

(* The initial states map to initial abstract states: the factory state   *)
(* reports nothing with an empty history, the settled one reports the      *)
(* criteria of the running, confirmed image.                               *)
LEMMA AbsInit == Init => Abs!Init
<1> SUFFICES ASSUME Init PROVE Abs!Init
  OBVIOUS
<1>1. CASE Init!1!1
  BY <1>1 DEF Abs!Init, InstalledOf, nvImgUpgSt_getAll
<1>2. CASE Init!1!2
  <2>0. CritOf[InitImage] \in CriteriaString
    BY DEF ValidCriteria, CriteriaString
  <2>1. SettledRecord(CritOf[InitImage]) # NoRecord
    <3>1. SettledRecord(CritOf[InitImage]) \in Record
      BY <2>0, NvAssumption DEF SettledRecord, Record, CriteriaString
    <3>2. QED BY <3>1
  <2>2. InstalledOf(nv) = CritOf[InitImage]
    BY <1>2, <2>1 DEF InstalledOf, nvImgUpgSt_getAll, SettledRecord
  <2>3. QED BY <1>2, <2>2 DEF Abs!Init
<1>3. QED BY <1>1, <1>2 DEF Init
(* The setters of the stage fields never change what IsInstalled reports. *)
LEMMA SettersKeepInstalled ==
  ASSUME NEW st, RecordOK(st), nvImgUpgSt_getAll(st),
         NEW v \in Versions, NEW b \in BOOLEAN, NEW c \in Criteria
  PROVE  /\ InstalledOf(nvImgUpgSt_setStageVersion(st, v)) = InstalledOf(st)
         /\ InstalledOf(nvImgUpgSt_setInstallRebooted(st, b)) = InstalledOf(st)
         /\ InstalledOf(nvImgUpgSt_setStageInstalledCriteria(st, c)) =
              InstalledOf(st)
<1>1. InstalledOf(nvImgUpgSt_setStageVersion(st, v)) = InstalledOf(st)
  BY SetStageVersionFields, SamePersistent
<1>2. InstalledOf(nvImgUpgSt_setInstallRebooted(st, b)) = InstalledOf(st)
  BY SetInstallRebootedFields, SamePersistent
<1>3. InstalledOf(nvImgUpgSt_setStageInstalledCriteria(st, c)) =
        InstalledOf(st)
  BY SetStageCriteriaFields, SamePersistent
<1>4. QED BY <1>1, <1>2, <1>3

(* A kv_set of a record that IsInstalled reads as the old one keeps the   *)
(* reported criteria, whether the write succeeds or fails.                *)
LEMMA StoreKeepsInstalled ==
  ASSUME NEW ok, NEW r, ok => InstalledOf(r) = InstalledOf(nv), StoreIf(ok, r)
  PROVE  InstalledOf(nv') = InstalledOf(nv)
BY DEF StoreIf

(* A kv_set of nvImgUpgSt_reset(false) keeps the reported criteria. *)
LEMMA StoreResetKeepsInstalled ==
  ASSUME RecordOK(nv), NEW ok, StoreIf(ok, nvImgUpgSt_reset(nv, FALSE))
  PROVE  InstalledOf(nv') = InstalledOf(nv)
BY ResetKeepsInstalled, StoreKeepsInstalled

(* A reset keeps the record and may add the reverted-to image to the      *)
(* history: an abstract Confirm or a stutter.                              *)
LEMMA BootAbs ==
  ASSUME Boot
  PROVE  [Abs!Next]_AbsVars
<1>1. nv' = nv
  BY DEF Boot
<1>2. CASE McubootBoot!1 /\ sec.img \in Images
  <2>1. everConfirmed' = everConfirmed \cup {sec.img}
    BY <1>2
  <2>2. Abs!Confirm(sec.img)
    BY <1>1, <2>1 DEF Abs!Confirm
  <2>3. QED BY <1>2, <2>2 DEF Abs!Next
<1>3. CASE McubootBoot!1 /\ sec.img \notin Images
  <2>1. everConfirmed' = everConfirmed
    BY <1>3
  <2>2. QED BY <1>1, <2>1, AbsStutter
<1>4. CASE McubootBoot!2 \/ McubootBoot!3
  BY <1>1, <1>4, AbsStutter
<1>5. QED BY <1>2, <1>3, <1>4 DEF Boot, McubootBoot

(* PostReboot1 rewrites only the installRebooted flag. *)
LEMMA PostReboot1Abs ==
  ASSUME TypeOK, PostReboot1
  PROVE  [Abs!Next]_AbsVars
<1>1. everConfirmed' = everConfirmed
  BY DEF PostReboot1
<1>2. CASE PostReboot1!2!1
  <2>1. PICK ok \in Outcomes :
          StoreIf(ok, nvImgUpgSt_setInstallRebooted(nv, TRUE))
    BY <1>2
  <2>2. RecordOK(nv) /\ nvImgUpgSt_getAll(nv)
    BY <1>2 DEF TypeOK, nvImgUpgSt_installRebooted
  <2>3. InstalledOf(nv') = InstalledOf(nv)
    BY <2>1, <2>2, SettersKeepInstalled, StoreKeepsInstalled, NvAssumption
  <2>4. QED BY <1>1, <2>3, AbsStutter
<1>3. CASE PostReboot1!2!2
  BY <1>1, <1>3, AbsStutter
<1>4. QED BY <1>2, <1>3 DEF PostReboot1

(* PostReboot2: boot_set_confirmed adds the running image to the history. *)
LEMMA PostReboot2Abs ==
  ASSUME TypeInv, PostReboot2
  PROVE  [Abs!Next]_AbsVars
<1>1. nv' = nv
  BY DEF PostReboot2
<1>2. prim.img \in Images
  BY DEF PostReboot2, TypeInv, RunningImage
<1>3. PICK confirmed \in ConfirmedReads : PostReboot2!2!(confirmed)
  BY DEF PostReboot2
<1>4. CASE PostReboot2!2!(confirmed)!1
  <2>1. PICK ok \in Outcomes :
          everConfirmed' =
            IF ok THEN everConfirmed \cup {prim.img} ELSE everConfirmed
    BY <1>4
  <2>2. CASE ok
    <3>1. Abs!Confirm(prim.img)
      BY <1>1, <2>1, <2>2 DEF Abs!Confirm
    <3>2. QED BY <1>2, <3>1 DEF Abs!Next
  <2>3. CASE ~ok
    BY <1>1, <2>1, <2>3, AbsStutter
  <2>4. QED BY <2>2, <2>3
<1>5. CASE PostReboot2!2!(confirmed)!2
  BY <1>1, <1>5, AbsStutter
<1>6. QED BY <1>3, <1>4, <1>5

(* PostReboot3: the settle is an abstract Settle, since SettleSound holds *)
(* of the settled criteria in the next state; the revert branch resets     *)
(* the record, and the branch with nothing installed writes nothing.      *)
LEMMA PostReboot3Abs ==
  ASSUME TypeOK, SettleSound', PostReboot3
  PROVE  [Abs!Next]_AbsVars
<1>1. everConfirmed' = everConfirmed /\ RecordOK(nv)
  BY DEF PostReboot3, TypeOK
<1>2. PICK confirmed \in ConfirmedReads : PostReboot3!2!(confirmed)
  BY DEF PostReboot3
<1>3. CASE PostReboot3!2!(confirmed)!1
  <2>1. PICK ok \in Outcomes :
          StoreIf(ok /\ settleInstalledCriteriaGuard(nv),
                  nvImgUpgSt_settleInstalledCriteria(nv))
    BY <1>3
  <2>2. CASE ok /\ settleInstalledCriteriaGuard(nv)
    <3>1. nv' = nvImgUpgSt_settleInstalledCriteria(nv)
      BY <2>1, <2>2 DEF StoreIf
    <3>2. nvImgUpgSt_getAll(nv') /\ nv'.persistentInstalledCriteria_valid
      BY <1>1, <2>2, <3>1, SettleFields
    <3>3. PICK i \in everConfirmed' :
            CritOf[i] = nv'.persistentInstalledCriteria
      BY <3>2 DEF SettleSound
    <3>4. i \in Images
      BY <1>1, <3>3 DEF TypeOK
    <3>5. Abs!Settle(i)
      BY <1>1, <3>2, <3>3 DEF Abs!Settle, InstalledOf
    <3>6. QED BY <3>4, <3>5 DEF Abs!Next
  <2>3. CASE ~(ok /\ settleInstalledCriteriaGuard(nv))
    BY <1>1, <2>1, <2>3, AbsStutter DEF StoreIf
  <2>4. QED BY <2>2, <2>3
<1>4. CASE PostReboot3!2!(confirmed)!2
  <2>1. PICK ok \in Outcomes : StoreIf(ok, nvImgUpgSt_reset(nv, FALSE))
    BY <1>4
  <2>2. QED BY <1>1, <2>1, StoreResetKeepsInstalled, AbsStutter
<1>5. CASE PostReboot3!2!(confirmed)!3
  BY <1>1, <1>5, AbsStutter
<1>6. QED BY <1>2, <1>3, <1>4, <1>5

(* The writes of the post-settle reset, of Download and of Apply keep the *)
(* reported criteria and the history.                                      *)
LEMMA WritesAbs ==
  ASSUME TypeInv,
         \/ PostReboot4
         \/ \E i \in DeployImages : DownloadStart(i)
         \/ DownloadHeader
         \/ ApplyStageCriteria
         \/ ApplySetRebooted
  PROVE  [Abs!Next]_AbsVars
<1>1. RecordOK(nv)
  BY DEF TypeInv, TypeOK
<1>2. InstalledOf(nv') = InstalledOf(nv)
  <2>1. CASE PostReboot4
    <3>1. PICK ok \in Outcomes : StoreIf(ok, nvImgUpgSt_reset(nv, FALSE))
      BY <2>1 DEF PostReboot4
    <3>2. QED BY <1>1, <3>1, StoreResetKeepsInstalled
  <2>2. CASE \E i \in DeployImages : DownloadStart(i)
    <3>1. PICK i \in DeployImages, ok \in Outcomes :
            StoreIf(ok, nvImgUpgSt_reset(nv, FALSE))
      BY <2>2 DEF DownloadStart
    <3>2. QED BY <1>1, <3>1, StoreResetKeepsInstalled
  <2>3. CASE DownloadHeader
    <3>1. CASE DownloadHeader!2!1
      BY <3>1
    <3>2. CASE DownloadHeader!2!2
      <4>1. PICK ok \in Outcomes :
              StoreIf(ok /\ setStageVersionGuard(nv),
                      nvImgUpgSt_setStageVersion(nv, Ver[wf.img]))
        BY <3>2
      <4>2. Ver[wf.img] \in Versions
        BY <3>2
      <4>3. QED BY <1>1, <4>1, <4>2, SettersKeepInstalled,
                   StoreKeepsInstalled DEF setStageVersionGuard
    <3>3. QED BY <2>3, <3>1, <3>2 DEF DownloadHeader
  <2>4. CASE ApplyStageCriteria
    <3>1. CASE ApplyStageCriteria!3!1
      <4>1. PICK ok \in Outcomes :
              StoreIf(ok /\ setStageInstalledCriteriaGuard(nv, CritOf[wf.img]),
                      nvImgUpgSt_setStageInstalledCriteria(nv, CritOf[wf.img]))
        BY <3>1
      <4>2. CritOf[wf.img] \in Criteria
        BY <2>4 DEF ApplyStageCriteria, TypeInv, WorkflowImage
      <4>3. QED BY <1>1, <4>1, <4>2, SettersKeepInstalled,
                   StoreKeepsInstalled DEF setStageInstalledCriteriaGuard
    <3>2. CASE ApplyStageCriteria!3!2
      BY <3>2
    <3>3. QED BY <2>4, <3>1, <3>2 DEF ApplyStageCriteria
  <2>5. CASE ApplySetRebooted
    <3>1. PICK ok \in Outcomes :
            StoreIf(ok /\ setInstallRebootedGuard(nv),
                    nvImgUpgSt_setInstallRebooted(nv, FALSE))
      BY <2>5 DEF ApplySetRebooted
    <3>2. QED BY <1>1, <3>1, SettersKeepInstalled, StoreKeepsInstalled,
                 NvAssumption DEF setInstallRebootedGuard
  <2>6. QED BY <2>1, <2>2, <2>3, <2>4, <2>5
<1>3. everConfirmed' = everConfirmed
  BY DEF PostReboot4, DownloadStart, DownloadHeader, ApplyStageCriteria,
         ApplySetRebooted
<1>4. QED BY <1>2, <1>3, AbsStutter

(* Every step of the lifecycle between two IInv states is an abstract     *)
(* step or an abstract stutter.                                            *)
LEMMA AbsStep ==
  ASSUME IInv, IInv', [Next]_vars
  PROVE  [Abs!Next]_AbsVars
<1>1. TypeInv /\ TypeOK /\ SettleSound'
  BY DEF IInv, TypeInv
<1>2. CASE RequestedReset \/ PowerLoss
  BY <1>2, BootAbs DEF RequestedReset, PowerLoss
<1>3. CASE PostReboot1
  BY <1>1, <1>3, PostReboot1Abs
<1>4. CASE PostReboot2
  BY <1>1, <1>4, PostReboot2Abs
<1>5. CASE PostReboot3
  BY <1>1, <1>5, PostReboot3Abs
<1>6. CASE \/ PostReboot4
           \/ \E i \in DeployImages : DownloadStart(i)
           \/ DownloadHeader
           \/ ApplyStageCriteria
           \/ ApplySetRebooted
  BY <1>1, <1>6, WritesAbs
<1>7. CASE \/ DownloadErase \/ DownloadBody \/ DownloadAbort
           \/ DownloadVerify \/ ApplySetPending
  <2>1. nv' = nv /\ everConfirmed' = everConfirmed
    BY <1>7 DEF DownloadErase, DownloadBody, DownloadAbort, DownloadVerify,
                ApplySetPending, Fail
  <2>2. QED BY <2>1, AbsStutter
<1>8. CASE UNCHANGED vars
  BY <1>8, AbsStutter DEF vars
<1>9. QED BY <1>2, <1>3, <1>4, <1>5, <1>6, <1>7, <1>8 DEF Next

(* When the deployable images have distinct header versions, the update   *)
(* lifecycle (Download, Apply, the post-reboot routine, MCUboot, resets   *)
(* and failing writes and reads) implements InstalledCriteria: the        *)
(* criteria IsInstalled reports is only ever set by the post-reboot       *)
(* settle to that of an image that has run confirmed, and never lost.     *)
THEOREM RefinesInstalledCriteria ==
  ASSUME VerInjective
  PROVE  Spec => AbsSpec
<1>1. Init => Abs!Init
  BY AbsInit
<1>2. Init => IInv
  BY IInvInit
<1>3. IInv /\ [Next]_vars => IInv'
  BY IInvStep
<1>4. IInv /\ IInv' /\ [Next]_vars => [Abs!Next]_AbsVars
  BY AbsStep
<1>5. QED BY <1>1, <1>2, <1>3, <1>4, PTL DEF Spec, AbsSpec, Abs!Spec, AbsVars,
                                          Abs!absvars
=============================================================================
