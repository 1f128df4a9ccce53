------------------------ MODULE SettledMatchesProofs ------------------------
(***************************************************************************)
(* SettledMatchesRunning for reliable flash and KVStore, distinct image    *)
(* versions and at most one power loss: whenever the agent is idle on an   *)
(* image MCUboot will keep, IsInstalled holds for that image's criteria.   *)
(*                                                                         *)
(* The argument follows the image a reset would run next (SettledIInv).    *)
(* A kept image has its criteria settled, or is inside the post-reboot     *)
(* routine with a record that makes the routine settle it.  An image in    *)
(* test is swapped back only onto a whole image whose criteria is settled  *)
(* or staged with its reboot flag.  With a power loss still to come, the   *)
(* image in test is the staged one, so the routine confirms it before the *)
(* agent can download over the slot a revert would swap back.  The bound  *)
(* on power losses is needed: with two, a power loss inside Apply leaves   *)
(* the old image in test, a new download replaces the revert's source,    *)
(* and a second power loss runs the new image under the old criteria.     *)
(***************************************************************************)
EXTENDS SettleSoundProofs

(* The hypotheses of the theorem: distinct versions, no write or read     *)
(* faults, at most one uncontrolled reset.                                *)
Hyp == VerInjective /\ NoFaults /\ MaxCrashes <= 1

(* The conjuncts of SettledIInv beyond IInv. *)
Extra ==
  /\ pc # "Bricked" => prim.whole
  /\ RebootedStaged
  /\ DownloadUnflagged
  /\ WorkflowSlot
  /\ RunningSettled
  /\ SettlePending
  /\ RevertSafe
  /\ TestConfirms
  /\ ConfirmedBeforeSettle

(* What IsInstalled reads from a stored state st about image i, and what  *)
(* the post-reboot routine reads about a staged reboot of image i.        *)
SettledIn(st, i) ==
  nvImgUpgSt_getAll(st) /\ st.persistentInstalledCriteria_valid
    => st.persistentInstalledCriteria = CritOf[i]

StagedIn(st, i) ==
  /\ nvImgUpgSt_getAll(st)
  /\ st.installRebooted_valid
  /\ st.stageVersion_valid
  /\ st.stageVersion = Ver[i]

(* With reliable writes every kv_set and trailer write succeeds, and      *)
(* boot_read_image_ok returns the image-ok flag.                          *)
LEMMA NoFaultsOutcomes ==
  ASSUME NoFaults
  PROVE  /\ Outcomes = {TRUE}
         /\ ConfirmedReads = {prim.imageOk}
         /\ ~WriteFaults /\ ~ReadFaults
BY DEF NoFaults, Outcomes, ConfirmedReads

(* nvImgUpgSt_reset(false) drops the reboot flag and keeps what           *)
(* IsInstalled reads.                                                      *)
LEMMA ResetSettled ==
  ASSUME NEW st, RecordOK(st), NEW i
  PROVE  LET r == nvImgUpgSt_reset(st, FALSE)
         IN  /\ nvImgUpgSt_getAll(r)
             /\ ~r.installRebooted_valid
             /\ SettledIn(st, i) => SettledIn(r, i)
<1>1. ZeroRecord.installRebooted_valid = FALSE
  BY DEF ZeroRecord
<1>2. CASE st = NoRecord
  BY <1>1, <1>2, ResetFields DEF nvImgUpgSt_reset, nvImgUpgSt_getAll, SettledIn
<1>3. CASE st # NoRecord
  <2>1. st \in Record
    BY <1>3 DEF RecordOK
  <2>2. nvImgUpgSt_reset(st, FALSE).installRebooted_valid = FALSE
    BY <1>3, <2>1 DEF nvImgUpgSt_reset, nvImgUpgSt_getAll, Record
  <2>3. QED BY <2>2, ResetFields DEF SettledIn
<1>4. QED BY <1>2, <1>3

(* nvImgUpgSt_setStageVersion keeps the reboot flag and what IsInstalled  *)
(* reads.                                                                  *)
LEMMA SetStageVersionSettled ==
  ASSUME NEW st, RecordOK(st), nvImgUpgSt_getAll(st), NEW v \in Versions,
         NEW i
  PROVE  LET r == nvImgUpgSt_setStageVersion(st, v)
         IN  /\ r.installRebooted_valid = st.installRebooted_valid
             /\ SettledIn(r, i) = SettledIn(st, i)
<1>1. st \in Record
  BY DEF RecordOK, nvImgUpgSt_getAll
<1>2. nvImgUpgSt_setStageVersion(st, v).installRebooted_valid =
        st.installRebooted_valid
  BY <1>1 DEF nvImgUpgSt_setStageVersion, Record
<1>3. QED BY <1>2, SetStageVersionFields DEF SettledIn

(* nvImgUpgSt_setInstallRebooted(b) sets the flag to b and keeps the      *)
(* stage fields and what IsInstalled reads.                               *)
LEMMA SetInstallRebootedSettled ==
  ASSUME NEW st, RecordOK(st), nvImgUpgSt_getAll(st), NEW b \in BOOLEAN,
         NEW i
  PROVE  LET r == nvImgUpgSt_setInstallRebooted(st, b)
         IN  /\ r.installRebooted_valid /\ r.installRebooted = b
             /\ r.stageInstalledCriteria_valid = st.stageInstalledCriteria_valid
             /\ StagedIn(r, i) = (st.stageVersion_valid /\ st.stageVersion = Ver[i])
             /\ SettledIn(r, i) = SettledIn(st, i)
<1>1. st \in Record
  BY DEF RecordOK, nvImgUpgSt_getAll
<1>2. /\ nvImgUpgSt_setInstallRebooted(st, b).installRebooted_valid
      /\ nvImgUpgSt_setInstallRebooted(st, b).installRebooted = b
  BY <1>1 DEF nvImgUpgSt_setInstallRebooted, Record
<1>3. QED BY <1>2, SetInstallRebootedFields DEF SettledIn, StagedIn

(* nvImgUpgSt_setStageInstalledCriteria keeps the reboot flag, the stage  *)
(* version and what IsInstalled reads.                                    *)
LEMMA SetStageCriteriaSettled ==
  ASSUME NEW st, RecordOK(st), nvImgUpgSt_getAll(st), NEW c \in Criteria,
         NEW i
  PROVE  LET r == nvImgUpgSt_setStageInstalledCriteria(st, c)
         IN  /\ r.stageInstalledCriteria_valid
             /\ r.installRebooted_valid = st.installRebooted_valid
             /\ StagedIn(r, i) = StagedIn(st, i)
             /\ SettledIn(r, i) = SettledIn(st, i)
<1>1. st \in Record
  BY DEF RecordOK, nvImgUpgSt_getAll
<1>2. nvImgUpgSt_setStageInstalledCriteria(st, c).installRebooted_valid =
        st.installRebooted_valid
  BY <1>1 DEF nvImgUpgSt_setStageInstalledCriteria, Record
<1>3. QED BY <1>2, SetStageCriteriaFields DEF SettledIn, StagedIn

(* nvImgUpgSt_settleInstalledCriteria keeps the reboot flag and the stage *)
(* version, and makes the stage criteria what IsInstalled reads.          *)
LEMMA SettleSettled ==
  ASSUME NEW st, RecordOK(st), settleInstalledCriteriaGuard(st), NEW i
  PROVE  LET r == nvImgUpgSt_settleInstalledCriteria(st)
         IN  /\ StagedIn(r, i) = StagedIn(st, i)
             /\ SettledIn(r, i) = (st.stageInstalledCriteria = CritOf[i])
<1>1. st \in Record
  BY DEF RecordOK, nvImgUpgSt_getAll, settleInstalledCriteriaGuard
<1>2. LET r == nvImgUpgSt_settleInstalledCriteria(st)
      IN  /\ r.installRebooted_valid = st.installRebooted_valid
          /\ r.stageVersion_valid = st.stageVersion_valid
          /\ r.stageVersion = st.stageVersion
  BY <1>1 DEF nvImgUpgSt_settleInstalledCriteria, Record
<1>3. QED BY <1>2, SettleFields DEF SettledIn, StagedIn,
                                    settleInstalledCriteriaGuard

-----------------------------------------------------------------------------
USE NvAssumption, McubAssumption, NoRecordAssumption

(* The factory state and the settled state both satisfy Extra: the        *)
(* running image is kept, and its criteria is settled or none is.         *)
LEMMA ExtraInit ==
  ASSUME Init
  PROVE  Extra
<1>1. ~Unconfirmed /\ prim.whole /\ pc = "PostReboot1" /\ wf = NoWorkflow
  BY DEF Init, Unconfirmed
<1>2. SettledFor(prim.img)
  <2>1. CASE Init!1!1
    BY <2>1 DEF SettledFor, nvImgUpgSt_getAll
  <2>2. CASE Init!1!2
    BY <2>2 DEF SettledFor, SettledRecord
  <2>3. QED BY <2>1, <2>2 DEF Init
<1>3. RebootedStaged
  <2>1. CASE Init!1!1
    BY <2>1 DEF RebootedStaged, nvImgUpgSt_getAll
  <2>2. CASE Init!1!2
    BY <2>2 DEF RebootedStaged, SettledRecord
  <2>3. QED BY <2>1, <2>2 DEF Init
<1>4. QED
  BY <1>1, <1>2, <1>3
  DEF Extra, DownloadUnflagged, DlPCs, WorkflowSlot, NoWorkflow,
      RunningSettled, SettlePending, RevertSafe, TestConfirms,
      ConfirmedBeforeSettle, PostRebootPCs

(* The parts of SettledIInv the steps below read, named once. *)
LEMMA SettledFacts ==
  ASSUME SettledIInv
  PROVE  /\ TypeOK /\ RunningImage /\ WorkflowImage
         /\ Hist /\ Extra
BY DEF SettledIInv, IInv, TypeInv, Hist, Extra

(* A step that keeps the record keeps what the invariant reads of it. *)
LEMMA SameRecord ==
  ASSUME nv' = nv
  PROVE  /\ \A i : SettledFor(i)' = SettledFor(i)
         /\ \A i : RebootStaged(i)' = RebootStaged(i)
         /\ RebootedStaged' = RebootedStaged
BY DEF SettledFor, RebootStaged, RebootedStaged

(* A reset, requested after Apply or by a power loss while one may still  *)
(* come.  A revert swaps back a whole image whose criteria is settled or  *)
(* staged (RevertSafe); a test swap after Apply, with a power loss still  *)
(* to come, puts the staged image in test and keeps the settled old image *)
(* as the revert's source; a test swap by the last power loss leaves      *)
(* nothing to revert until Apply stages a new image.                      *)
LEMMA BootExtra ==
  ASSUME Hyp, SettledIInv, Boot, pc # "Bricked", pc # "SystemReset",
         \/ pc = "RebootRequested" /\ crashes' = crashes
         \/ crashes < MaxCrashes /\ crashes' = crashes + 1
  PROVE  Extra'
<1>1. /\ TypeOK /\ RunningImage /\ WorkflowImage /\ Hist /\ Extra
  BY SettledFacts
<1>2. /\ nv' = nv /\ wf' = NoWorkflow
      /\ pc' = IF Bootable(prim') THEN "PostReboot1" ELSE "Bricked"
  BY DEF Boot
<1>3. /\ \A i : SettledFor(i)' = SettledFor(i)
      /\ \A i : RebootStaged(i)' = RebootStaged(i)
      /\ RebootedStaged' = RebootedStaged
  BY <1>2, SameRecord
<1>4. /\ (pc' # "Bricked" => prim'.whole)
      /\ RebootedStaged'
      /\ DownloadUnflagged' /\ WorkflowSlot' /\ RunningSettled'
      /\ ConfirmedBeforeSettle'
  BY <1>1, <1>2, <1>3
  DEF Extra, Bootable, DownloadUnflagged, DlPCs, WorkflowSlot, NoWorkflow,
      RunningSettled, PostRebootPCs, ConfirmedBeforeSettle
<1>5. crashes \in Nat /\ MaxCrashes \in Nat /\ MaxCrashes <= 1
  BY <1>1 DEF TypeOK, Hyp
<1>6. prim.img \in Images /\ prim.whole
  BY <1>1 DEF RunningImage, Extra
<1>7. SettlePending' /\ RevertSafe' /\ TestConfirms'
  <2>1. CASE McubootBoot!1
    <3>1. pc = "RebootRequested" \/ crashes < MaxCrashes
      BY <1>5
    <3>2. Bootable(sec) /\ (SettledFor(sec.img) \/ RebootStaged(sec.img))
      BY <2>1, <3>1, <1>1 DEF Extra, RevertSafe
    <3>3. /\ ~Unconfirmed' /\ prim'.img = sec.img /\ prim'.imageOk
          /\ pc' = "PostReboot1"
      BY <2>1, <3>2, <1>2 DEF Unconfirmed, Bootable
    <3>4. QED BY <1>3, <3>2, <3>3 DEF SettlePending, RevertSafe, TestConfirms
  <2>2. CASE McubootBoot!2
    <3>1. /\ ~Unconfirmed /\ Unconfirmed'
          /\ prim'.img = sec.img /\ sec'.img = prim.img /\ sec'.whole = prim.whole
          /\ sec.img \in Images /\ pc' = "PostReboot1"
      BY <2>2, <1>2 DEF Unconfirmed, Bootable
    <3>2. SettlePending'
      BY <3>1 DEF SettlePending
    <3>3. CASE crashes < MaxCrashes /\ crashes' = crashes + 1
      <4>1. ~(crashes' < MaxCrashes)
        BY <3>3, <1>5
      <4>2. QED BY <3>1, <3>2, <4>1 DEF RevertSafe, TestConfirms
    <3>4. CASE pc = "RebootRequested" /\ crashes' = crashes
      <4>1. wf.downloaded /\ sec.img = wf.img /\ nv.installRebooted_valid
        BY <3>4, <1>1 DEF Extra, WorkflowSlot
      <4>2. nvImgUpgSt_getAll(nv) /\ nv.stageVersion_valid
            /\ nv.stageVersion = Ver[wf.img]
        BY <4>1, <1>1 DEF Hist, WorkflowStaged
      <4>3. RebootStaged(sec.img)
        BY <4>1, <4>2 DEF RebootStaged
      <4>4. SettledFor(prim.img)
        BY <3>1, <3>4, <1>1 DEF Extra, RunningSettled, PostRebootPCs
      <4>5. Bootable(sec')
        BY <3>1, <1>6 DEF Bootable
      <4>6. QED
        BY <1>3, <3>1, <3>2, <4>3, <4>4, <4>5 DEF RevertSafe, TestConfirms
    <3>5. QED BY <3>3, <3>4
  <2>3. CASE McubootBoot!3
    <3>1. ~Unconfirmed /\ prim' = prim /\ ~Unconfirmed'
      BY <2>3 DEF Unconfirmed
    <3>2. SettlePending'
      <4>1. CASE pc \in PostRebootPCs
        <5>1. pc' \in {"PostReboot1", "Bricked"}
          BY <1>2
        <5>2. QED BY <1>1, <1>2, <3>1, <4>1, <5>1
                  DEF Extra, SettlePending, SettledFor, RebootStaged,
                      PostRebootPCs
      <4>2. CASE pc \notin PostRebootPCs
        BY <1>1, <1>2, <3>1, <4>2
        DEF Extra, RunningSettled, SettlePending, SettledFor
      <4>3. QED BY <4>1, <4>2
    <3>3. QED BY <3>1, <3>2 DEF RevertSafe, TestConfirms
  <2>4. QED BY <2>1, <2>2, <2>3 DEF Boot, McubootBoot
<1>8. QED BY <1>4, <1>7 DEF Extra


(* PostReboot1 turns a false reboot flag true and changes nothing else    *)
(* the invariant reads, so the routine moves on to confirming.            *)
LEMMA PostReboot1Extra ==
  ASSUME Hyp, SettledIInv, PostReboot1
  PROVE  Extra'
<1>1. /\ TypeOK /\ RunningImage /\ WorkflowImage /\ Hist /\ Extra
  BY SettledFacts
<1>2. /\ pc = "PostReboot1" /\ pc' = "PostReboot2"
      /\ UNCHANGED <<prim, sec, wf, everConfirmed, crashes, deploys>>
  BY DEF PostReboot1
<1>3. /\ \A i : SettledIn(nv', i) = SettledIn(nv, i)
      /\ \A i : StagedIn(nv', i) = StagedIn(nv, i)
      /\ nvImgUpgSt_getAll(nv') = nvImgUpgSt_getAll(nv)
      /\ nv'.installRebooted_valid = nv.installRebooted_valid
      /\ nv'.stageInstalledCriteria_valid = nv.stageInstalledCriteria_valid
      /\ nvImgUpgSt_getAll(nv) /\ nv.installRebooted_valid => nv'.installRebooted
  <2>1. RecordOK(nv)
    BY <1>1 DEF TypeOK
  <2>2. CASE PostReboot1!2!1
    <3>1. nv' = nvImgUpgSt_setInstallRebooted(nv, TRUE)
      <4>1. PICK ok \in Outcomes :
              StoreIf(ok, nvImgUpgSt_setInstallRebooted(nv, TRUE))
        BY <2>2
      <4>2. ok = TRUE
        BY NoFaultsOutcomes DEF Hyp
      <4>3. QED BY <4>1, <4>2 DEF StoreIf
    <3>2. nvImgUpgSt_getAll(nv) /\ nv.installRebooted_valid
      BY <2>2 DEF nvImgUpgSt_installRebooted
    <3>3. ASSUME NEW i
          PROVE  /\ SettledIn(nv', i) = SettledIn(nv, i)
                 /\ StagedIn(nv', i) = StagedIn(nv, i)
      <4>1. /\ SettledIn(nvImgUpgSt_setInstallRebooted(nv, TRUE), i) =
                 SettledIn(nv, i)
            /\ StagedIn(nvImgUpgSt_setInstallRebooted(nv, TRUE), i) =
                 (nv.stageVersion_valid /\ nv.stageVersion = Ver[i])
        BY <2>1, <3>2, SetInstallRebootedSettled
      <4>2. QED BY <3>1, <3>2, <4>1 DEF StagedIn
    <3>4. /\ nvImgUpgSt_getAll(nv')
          /\ nv'.installRebooted_valid /\ nv'.installRebooted
          /\ nv'.stageInstalledCriteria_valid = nv.stageInstalledCriteria_valid
      BY <2>1, <3>1, <3>2, SetInstallRebootedSettled, SetInstallRebootedFields
    <3>5. QED BY <3>2, <3>3, <3>4
  <2>3. CASE PostReboot1!2!2
    <3>1. nv' = nv
      BY <2>3
    <3>2. nvImgUpgSt_getAll(nv) /\ nv.installRebooted_valid => nv.installRebooted
      BY <2>1, <2>3 DEF RecordOK, Record, nvImgUpgSt_installRebooted,
                        nvImgUpgSt_getAll
    <3>3. QED BY <3>1, <3>2
  <2>4. QED BY <2>2, <2>3 DEF PostReboot1
<1>4. /\ (pc' # "Bricked" => prim'.whole)
      /\ DownloadUnflagged' /\ WorkflowSlot' /\ RunningSettled'
      /\ ConfirmedBeforeSettle'
  BY <1>1, <1>2
  DEF Extra, DownloadUnflagged, DlPCs, WorkflowSlot, RunningSettled,
      PostRebootPCs, ConfirmedBeforeSettle, Hist, NotDownloaded
<1>5. RebootedStaged'
  BY <1>1, <1>3 DEF Extra, RebootedStaged, RebootStaged, SettledFor,
                    SettledIn, StagedIn
<1>6. SettlePending' /\ RevertSafe' /\ TestConfirms'
  BY <1>1, <1>2, <1>3
  DEF Extra, SettlePending, RevertSafe, TestConfirms, PostRebootPCs,
      Unconfirmed, Bootable, SettledFor, RebootStaged, SettledIn, StagedIn
<1>7. QED BY <1>4, <1>5, <1>6 DEF Extra

(* PostReboot2 confirms an installed image in test: the staged one when a *)
(* power loss may still come, so no image is left in test after it.       *)
LEMMA PostReboot2Extra ==
  ASSUME Hyp, SettledIInv, PostReboot2
  PROVE  Extra'
<1>1. /\ TypeOK /\ RunningImage /\ WorkflowImage /\ Hist /\ Extra
  BY SettledFacts
<1>2. /\ pc = "PostReboot2" /\ pc' = "PostReboot3"
      /\ UNCHANGED <<nv, sec, wf, crashes, deploys>>
  BY DEF PostReboot2
<1>3. /\ prim'.img = prim.img /\ prim'.whole = prim.whole
      /\ prim'.testing = prim.testing
      /\ prim'.imageOk = (prim.imageOk \/ nvImgUpgSt_installed(nv, ActiveVersion))
  <2>1. prim \in PrimSlots
    BY <1>1 DEF TypeOK
  <2>2. PICK confirmed \in ConfirmedReads : PostReboot2!2!(confirmed)
    BY DEF PostReboot2
  <2>3. confirmed = prim.imageOk /\ Outcomes = {TRUE}
    BY <2>2, NoFaultsOutcomes DEF Hyp
  <2>4. CASE PostReboot2!2!(confirmed)!1
    <3>1. prim' = [prim EXCEPT !.imageOk = TRUE]
      BY <2>3, <2>4
    <3>2. QED BY <2>1, <2>3, <2>4, <3>1 DEF PrimSlots
  <2>5. CASE PostReboot2!2!(confirmed)!2
    <3>1. prim' = prim
      BY <2>5
    <3>2. prim.imageOk \in BOOLEAN
      BY <2>1 DEF PrimSlots
    <3>3. QED BY <2>3, <2>5, <3>1, <3>2
  <2>6. QED BY <2>2, <2>4, <2>5
<1>4. /\ (pc' # "Bricked" => prim'.whole)
      /\ RebootedStaged'
      /\ DownloadUnflagged' /\ WorkflowSlot' /\ RunningSettled'
      /\ ConfirmedBeforeSettle'
  BY <1>1, <1>2, <1>3
  DEF Extra, RebootedStaged, RebootStaged, SettledFor, DownloadUnflagged,
      DlPCs, WorkflowSlot, RunningSettled, PostRebootPCs,
      ConfirmedBeforeSettle, ActiveVersion, Hist, NotDownloaded
<1>5. SettlePending'
  <2>1. CASE ~Unconfirmed
    BY <1>1, <1>2, <1>3, <2>1
    DEF Extra, SettlePending, PostRebootPCs, Unconfirmed, SettledFor,
        RebootStaged
  <2>2. CASE Unconfirmed
    BY <1>2, <1>3, <2>2
    DEF SettlePending, PostRebootPCs, Unconfirmed, SettledFor, RebootStaged,
        nvImgUpgSt_installed, ActiveVersion
  <2>3. QED BY <2>1, <2>2
<1>6. RevertSafe' /\ TestConfirms'
  <2>1. Unconfirmed' => Unconfirmed
    BY <1>3 DEF Unconfirmed
  <2>2. ~(Unconfirmed' /\ crashes < MaxCrashes)
    BY <1>1, <1>2, <1>3, <2>1
    DEF Extra, TestConfirms, RebootStaged, nvImgUpgSt_installed,
        ActiveVersion, Unconfirmed
  <2>3. QED BY <1>2, <2>2 DEF RevertSafe, TestConfirms
<1>7. QED BY <1>4, <1>5, <1>6 DEF Extra


(* PostReboot3 with reliable reads: an installed image has been confirmed *)
(* by PostReboot2, so the routine settles the staged criteria, which is   *)
(* the running image's since versions are distinct; when the record says  *)
(* nothing is installed, the kept image's criteria is settled already.    *)
LEMMA PostReboot3Extra ==
  ASSUME Hyp, SettledIInv, PostReboot3
  PROVE  Extra'
<1>1. /\ TypeOK /\ RunningImage /\ WorkflowImage /\ Hist /\ Extra
  BY SettledFacts
<1>2. /\ pc = "PostReboot3"
      /\ pc' \in {"PostReboot4", "SystemReset", "Idle"}
      /\ UNCHANGED <<prim, sec, wf, everConfirmed, crashes, deploys>>
  BY DEF PostReboot3
<1>3. ~(Unconfirmed /\ crashes < MaxCrashes)
  BY <1>1, <1>2 DEF Extra, TestConfirms
<1>4. /\ (pc' # "Bricked" => prim'.whole)
      /\ DownloadUnflagged' /\ WorkflowSlot' /\ SettlePending'
      /\ RevertSafe' /\ TestConfirms'
  BY <1>1, <1>2, <1>3
  DEF Extra, DownloadUnflagged, DlPCs, WorkflowSlot, SettlePending,
      PostRebootPCs, RevertSafe, TestConfirms, Unconfirmed, Hist,
      NotDownloaded
<1>5. prim.img \in Images /\ RecordOK(nv)
  BY <1>1, <1>2 DEF RunningImage, TypeOK
<1>6. PICK confirmed \in ConfirmedReads : PostReboot3!2!(confirmed)
  BY DEF PostReboot3
<1>7. confirmed = prim.imageOk /\ Outcomes = {TRUE}
  BY <1>6, NoFaultsOutcomes DEF Hyp
<1>8. RunningSettled' /\ RebootedStaged' /\ ConfirmedBeforeSettle'
  <2>1. CASE PostReboot3!2!(confirmed)!1
    <3>1. /\ nvImgUpgSt_getAll(nv) /\ nv.installRebooted_valid
          /\ nv.installRebooted /\ nv.stageVersion_valid
          /\ nv.stageVersion = Ver[prim.img]
      BY <2>1 DEF nvImgUpgSt_installed, ActiveVersion
    <3>2. pc' = "PostReboot4"
      BY <2>1
    <3>3. PICK ok \in Outcomes :
            StoreIf(ok /\ settleInstalledCriteriaGuard(nv),
                    nvImgUpgSt_settleInstalledCriteria(nv))
      BY <2>1
    <3>4. ok = TRUE
      BY <1>7
    <3>5. CASE settleInstalledCriteriaGuard(nv)
      <4>1. nv' = nvImgUpgSt_settleInstalledCriteria(nv)
        BY <3>3, <3>4, <3>5 DEF StoreIf
      <4>2. PICK j \in Images : /\ nv.stageInstalledCriteria = CritOf[j]
                                /\ nv.stageVersion = Ver[j]
        BY <1>1, <3>1, <3>5 DEF Hist, StageConsistent,
                                settleInstalledCriteriaGuard
      <4>3. j = prim.img
        BY <1>5, <3>1, <4>2 DEF Hyp, VerInjective
      <4>4. /\ StagedIn(nvImgUpgSt_settleInstalledCriteria(nv), prim.img) =
                 StagedIn(nv, prim.img)
            /\ SettledIn(nvImgUpgSt_settleInstalledCriteria(nv), prim.img) =
                 (nv.stageInstalledCriteria = CritOf[prim.img])
        BY <1>5, <3>5, SettleSettled
      <4>5. StagedIn(nv', prim.img) /\ SettledIn(nv', prim.img)
        BY <3>1, <4>1, <4>2, <4>3, <4>4 DEF StagedIn
      <4>6. RunningSettled'
        BY <1>2, <4>5 DEF RunningSettled, SettledFor, SettledIn
      <4>7. RebootedStaged'
        BY <1>5, <4>5 DEF RebootedStaged, RebootStaged, SettledFor,
                          SettledIn, StagedIn
      <4>8. QED BY <3>2, <4>6, <4>7 DEF ConfirmedBeforeSettle
    <3>6. CASE ~settleInstalledCriteriaGuard(nv)
      <4>1. nv' = nv
        BY <3>3, <3>6 DEF StoreIf
      <4>2. ~nv.stageInstalledCriteria_valid
        BY <1>5, <3>1, <3>6 DEF RecordOK, ValidCriteria, nvImgUpgSt_getAll,
                                settleInstalledCriteriaGuard
      <4>3. PICK i \in Images :
              /\ RebootStaged(i)
              /\ nv.stageInstalledCriteria_valid \/ SettledFor(i)
        BY <1>1, <3>1 DEF Extra, RebootedStaged
      <4>4. i = prim.img
        BY <1>5, <3>1, <4>3 DEF RebootStaged, Hyp, VerInjective
      <4>5. SettledFor(prim.img)
        BY <4>2, <4>3, <4>4
      <4>6. QED
        BY <1>1, <1>2, <3>2, <4>1, <4>5, SameRecord
        DEF Extra, RunningSettled, SettledFor, ConfirmedBeforeSettle
    <3>7. QED BY <3>5, <3>6
  <2>2. CASE PostReboot3!2!(confirmed)!2
    BY <1>1, <1>2, <1>7, <2>2 DEF Extra, ConfirmedBeforeSettle
  <2>3. CASE PostReboot3!2!(confirmed)!3
    <3>1. nv' = nv /\ pc' = "Idle"
      BY <2>3
    <3>2. ~Unconfirmed => SettledFor(prim.img)
      BY <1>1, <1>2, <2>3
      DEF Extra, SettlePending, PostRebootPCs, RebootStaged,
          nvImgUpgSt_installed, ActiveVersion
    <3>3. QED
      BY <1>1, <1>2, <3>1, <3>2, SameRecord
      DEF Extra, RunningSettled, SettledFor, ConfirmedBeforeSettle,
          Unconfirmed, PostRebootPCs
  <2>4. QED BY <1>6, <2>1, <2>2, <2>3
<1>9. QED BY <1>4, <1>8 DEF Extra

(* A step of the agent outside the post-reboot routine that keeps the     *)
(* primary slot, requests no reset and keeps what IsInstalled reads of    *)
(* the running image: no image is in test while a power loss may come,    *)
(* so the settled criteria is the one that matters.                       *)
LEMMA AgentStep ==
  ASSUME SettledIInv, prim' = prim, crashes' = crashes,
         pc \notin PostRebootPCs \cup {"Bricked"},
         pc' \notin PostRebootPCs \cup {"RebootRequested", "SystemReset",
                                        "Bricked"},
         SettledIn(nv, prim.img) => SettledIn(nv', prim.img)
  PROVE  /\ pc' # "Bricked" => prim'.whole
         /\ RunningSettled' /\ SettlePending' /\ RevertSafe'
         /\ TestConfirms' /\ ConfirmedBeforeSettle'
<1>1. Extra
  BY SettledFacts
<1>2. ~(Unconfirmed /\ crashes < MaxCrashes)
  BY <1>1 DEF Extra, TestConfirms, PostRebootPCs
<1>3. ~Unconfirmed => SettledIn(nv', prim.img)
  BY <1>1 DEF Extra, RunningSettled, SettledFor, SettledIn
<1>4. QED
  BY <1>1, <1>2, <1>3
  DEF Extra, RunningSettled, SettlePending, RevertSafe, TestConfirms,
      ConfirmedBeforeSettle, Unconfirmed, SettledFor, SettledIn,
      PostRebootPCs


(* nvImgUpgSt_reset(false) written reliably: the record stays readable,  *)
(* loses its reboot flag and keeps the settled criteria.                  *)
LEMMA ResetStore ==
  ASSUME Hyp, RecordOK(nv), NEW ok \in Outcomes,
         StoreIf(ok, nvImgUpgSt_reset(nv, FALSE))
  PROVE  /\ ok = TRUE
         /\ nvImgUpgSt_getAll(nv') /\ ~nv'.installRebooted_valid
         /\ \A i : SettledIn(nv, i) => SettledIn(nv', i)
<1>1. ok = TRUE
  BY NoFaultsOutcomes DEF Hyp
<1>2. nv' = nvImgUpgSt_reset(nv, FALSE)
  BY <1>1 DEF StoreIf
<1>3. ASSUME NEW i
      PROVE  /\ nvImgUpgSt_getAll(nvImgUpgSt_reset(nv, FALSE))
             /\ ~nvImgUpgSt_reset(nv, FALSE).installRebooted_valid
             /\ SettledIn(nv, i) => SettledIn(nvImgUpgSt_reset(nv, FALSE), i)
  BY ResetSettled
<1>4. QED BY <1>1, <1>2, <1>3

(* PostReboot4 resets the record after the settle: the reboot flag goes,  *)
(* the settled criteria of the running image stays.                       *)
LEMMA PostReboot4Extra ==
  ASSUME Hyp, SettledIInv, PostReboot4
  PROVE  Extra'
<1>1. /\ TypeOK /\ Hist /\ Extra
  BY SettledFacts
<1>2. /\ pc = "PostReboot4" /\ pc' = "Idle"
      /\ UNCHANGED <<prim, sec, wf, everConfirmed, crashes, deploys>>
  BY DEF PostReboot4
<1>3. /\ nvImgUpgSt_getAll(nv') /\ ~nv'.installRebooted_valid
      /\ \A i : SettledIn(nv, i) => SettledIn(nv', i)
  <2>1. PICK ok \in Outcomes : StoreIf(ok, nvImgUpgSt_reset(nv, FALSE))
    BY DEF PostReboot4
  <2>2. QED BY <1>1, <2>1, ResetStore DEF TypeOK
<1>4. /\ pc' # "Bricked" => prim'.whole
      /\ RunningSettled' /\ SettlePending' /\ RevertSafe'
      /\ TestConfirms' /\ ConfirmedBeforeSettle'
  BY <1>2, <1>3, AgentStep DEF PostRebootPCs
<1>5. RebootedStaged' /\ DownloadUnflagged' /\ WorkflowSlot'
  BY <1>1, <1>2, <1>3
  DEF RebootedStaged, DownloadUnflagged, DlPCs, WorkflowSlot, Hist,
      NotDownloaded
<1>6. QED BY <1>4, <1>5 DEF Extra

(* DownloadStart resets the record (OTACtx_Reinit): the download starts   *)
(* with no reboot flag, and the idle agent's settled criteria stays.      *)
LEMMA DownloadStartExtra ==
  ASSUME Hyp, SettledIInv, NEW i \in DeployImages, DownloadStart(i)
  PROVE  Extra'
<1>1. /\ TypeOK /\ Hist /\ Extra
  BY SettledFacts
<1>2. /\ pc = "Idle"
      /\ UNCHANGED <<prim, sec, everConfirmed, crashes>>
  BY DEF DownloadStart
<1>3. PICK ok \in Outcomes :
        /\ StoreIf(ok, nvImgUpgSt_reset(nv, FALSE))
        /\ IF ok THEN pc' = "DlErase" /\ wf' = [img |-> i, downloaded |-> FALSE]
                 ELSE Fail
  BY DEF DownloadStart
<1>4. /\ ok = TRUE
      /\ nvImgUpgSt_getAll(nv') /\ ~nv'.installRebooted_valid
      /\ \A j : SettledIn(nv, j) => SettledIn(nv', j)
  BY <1>1, <1>3, ResetStore DEF TypeOK
<1>5. pc' = "DlErase" /\ wf' = [img |-> i, downloaded |-> FALSE]
  BY <1>3, <1>4
<1>6. /\ pc' # "Bricked" => prim'.whole
      /\ RunningSettled' /\ SettlePending' /\ RevertSafe'
      /\ TestConfirms' /\ ConfirmedBeforeSettle'
  BY <1>2, <1>4, <1>5, AgentStep DEF PostRebootPCs
<1>7. RebootedStaged' /\ DownloadUnflagged' /\ WorkflowSlot'
  BY <1>4, <1>5 DEF RebootedStaged, DownloadUnflagged, DlPCs, WorkflowSlot
<1>8. QED BY <1>6, <1>7 DEF Extra

(* With reliable flash the erase succeeds; the record is not written.     *)
LEMMA DownloadEraseExtra ==
  ASSUME Hyp, SettledIInv, DownloadErase
  PROVE  Extra'
<1>1. /\ TypeOK /\ Hist /\ Extra
  BY SettledFacts
<1>2. /\ pc = "DlErase" /\ pc' = "DlHeader" /\ sec' = Erased
      /\ UNCHANGED <<nv, prim, wf, crashes>>
  BY NoFaultsOutcomes DEF Hyp, DownloadErase
<1>3. /\ \A j : SettledFor(j)' = SettledFor(j)
      /\ RebootedStaged' = RebootedStaged
  BY <1>2, SameRecord
<1>4. /\ pc' # "Bricked" => prim'.whole
      /\ RunningSettled' /\ SettlePending' /\ RevertSafe'
      /\ TestConfirms' /\ ConfirmedBeforeSettle'
  BY <1>2, AgentStep DEF PostRebootPCs
<1>5. RebootedStaged' /\ DownloadUnflagged' /\ WorkflowSlot'
  BY <1>1, <1>2, <1>3
  DEF Extra, DownloadUnflagged, DlPCs, WorkflowSlot, Hist, NotDownloaded
<1>6. QED BY <1>4, <1>5 DEF Extra

(* The header of a signed image: its version is saved in the record,     *)
(* which has no reboot flag during a download, and the slot holds the    *)
(* workflow's image from now on; a bad magic ends the workflow.           *)
LEMMA DownloadHeaderExtra ==
  ASSUME Hyp, SettledIInv, DownloadHeader
  PROVE  Extra'
<1>1. /\ TypeOK /\ Hist /\ Extra
  BY SettledFacts
<1>2. /\ pc = "DlHeader"
      /\ UNCHANGED <<prim, crashes>>
  BY DEF DownloadHeader
<1>3. CASE DownloadHeader!2!1
  <2>1. /\ nv' = nv /\ pc' = "Idle" /\ wf' = NoWorkflow
    BY <1>3 DEF Fail
  <2>2. /\ pc' # "Bricked" => prim'.whole
        /\ RunningSettled' /\ SettlePending' /\ RevertSafe'
        /\ TestConfirms' /\ ConfirmedBeforeSettle'
    BY <1>2, <2>1, AgentStep DEF PostRebootPCs
  <2>3. RebootedStaged' /\ DownloadUnflagged' /\ WorkflowSlot'
    BY <1>1, <2>1, SameRecord
    DEF Extra, DownloadUnflagged, DlPCs, WorkflowSlot, NoWorkflow
  <2>4. QED BY <2>2, <2>3 DEF Extra
<1>4. CASE DownloadHeader!2!2
  <2>1. wf.img \in Images /\ Ver[wf.img] \in Versions
    BY <1>4
  <2>2. /\ RecordOK(nv) /\ nvImgUpgSt_getAll(nv)
        /\ ~nv.installRebooted_valid /\ ~wf.downloaded
    BY <1>1, <1>2 DEF TypeOK, Hist, DownloadClean, DlPCs, Extra,
                      DownloadUnflagged, NotDownloaded
  <2>3. PICK ok \in Outcomes :
          LET done == ok /\ setStageVersionGuard(nv)
          IN  /\ StoreIf(done, nvImgUpgSt_setStageVersion(nv, Ver[wf.img]))
              /\ IF done
                   THEN /\ sec' = [img |-> wf.img, whole |-> FALSE,
                                   pending |-> FALSE]
                        /\ pc' = "DlBody"
                        /\ UNCHANGED wf
                   ELSE /\ UNCHANGED sec
                        /\ Fail
    BY <1>4
  <2>4. ok = TRUE /\ setStageVersionGuard(nv)
    BY <2>2, NoFaultsOutcomes DEF Hyp, setStageVersionGuard
  <2>5. /\ nv' = nvImgUpgSt_setStageVersion(nv, Ver[wf.img])
        /\ sec' = [img |-> wf.img, whole |-> FALSE, pending |-> FALSE]
        /\ pc' = "DlBody" /\ wf' = wf
    BY <2>3, <2>4 DEF StoreIf
  <2>6. ASSUME NEW j
        PROVE  /\ nvImgUpgSt_setStageVersion(nv, Ver[wf.img]).installRebooted_valid
                    = nv.installRebooted_valid
               /\ SettledIn(nvImgUpgSt_setStageVersion(nv, Ver[wf.img]), j)
                    = SettledIn(nv, j)
    BY <2>1, <2>2, SetStageVersionSettled
  <2>7. /\ ~nv'.installRebooted_valid
        /\ \A j : SettledIn(nv', j) = SettledIn(nv, j)
    BY <2>2, <2>5, <2>6
  <2>8. /\ pc' # "Bricked" => prim'.whole
        /\ RunningSettled' /\ SettlePending' /\ RevertSafe'
        /\ TestConfirms' /\ ConfirmedBeforeSettle'
    BY <1>2, <2>5, <2>7, AgentStep DEF PostRebootPCs
  <2>9. RebootedStaged' /\ DownloadUnflagged' /\ WorkflowSlot'
    BY <2>2, <2>5, <2>7
    DEF RebootedStaged, DownloadUnflagged, DlPCs, WorkflowSlot
  <2>10. QED BY <2>8, <2>9 DEF Extra
<1>5. QED BY <1>3, <1>4 DEF DownloadHeader


(* The rest of the body makes the workflow's image whole; an abort ends  *)
(* the workflow.  Neither writes the record.                              *)
LEMMA DownloadBodyAbortExtra ==
  ASSUME Hyp, SettledIInv, DownloadBody \/ DownloadAbort
  PROVE  Extra'
<1>1. /\ TypeOK /\ Hist /\ Extra
  BY SettledFacts
<1>2. /\ pc \in {"DlHeader", "DlBody"} /\ pc' \in {"DlVerify", "Idle"}
      /\ UNCHANGED <<nv, prim, crashes>>
  BY DEF DownloadBody, DownloadAbort, Fail
<1>3. /\ pc' # "Bricked" => prim'.whole
      /\ RunningSettled' /\ SettlePending' /\ RevertSafe'
      /\ TestConfirms' /\ ConfirmedBeforeSettle'
  BY <1>2, AgentStep DEF PostRebootPCs
<1>4. RebootedStaged' = RebootedStaged
  BY <1>2, SameRecord
<1>5. RebootedStaged' /\ DownloadUnflagged' /\ WorkflowSlot'
  <2>1. CASE DownloadBody
    <3>1. /\ pc = "DlBody" /\ pc' = "DlVerify" /\ wf' = wf
          /\ sec' = [sec EXCEPT !.whole = TRUE]
      BY <2>1 DEF DownloadBody
    <3>2. sec'.img = sec.img /\ sec'.whole
      BY <1>1, <3>1 DEF TypeOK, SecSlots
    <3>3. QED BY <1>1, <1>2, <1>4, <3>1, <3>2
              DEF Extra, DownloadUnflagged, DlPCs, WorkflowSlot
  <2>2. CASE DownloadAbort
    <3>1. pc' = "Idle" /\ wf' = NoWorkflow
      BY <2>2 DEF DownloadAbort, Fail
    <3>2. QED BY <1>1, <1>4, <3>1
              DEF Extra, DownloadUnflagged, DlPCs, WorkflowSlot, NoWorkflow
  <2>3. QED BY <2>1, <2>2
<1>6. QED BY <1>3, <1>5 DEF Extra

(* With reliable reads the signature check succeeds: the workflow is     *)
(* downloaded with its whole image in the secondary slot.                 *)
LEMMA DownloadVerifyExtra ==
  ASSUME Hyp, SettledIInv, DownloadVerify
  PROVE  Extra'
<1>1. /\ TypeOK /\ Hist /\ Extra
  BY SettledFacts
<1>2. /\ pc = "DlVerify" /\ pc' = "Idle"
      /\ wf' = [wf EXCEPT !.downloaded = TRUE]
      /\ UNCHANGED <<nv, prim, sec, crashes>>
  BY NoFaultsOutcomes DEF Hyp, DownloadVerify
<1>3. /\ pc' # "Bricked" => prim'.whole
      /\ RunningSettled' /\ SettlePending' /\ RevertSafe'
      /\ TestConfirms' /\ ConfirmedBeforeSettle'
  BY <1>2, AgentStep DEF PostRebootPCs
<1>4. RebootedStaged' = RebootedStaged
  BY <1>2, SameRecord
<1>5. wf'.img = wf.img /\ wf'.downloaded
  BY <1>1, <1>2 DEF TypeOK, Workflows
<1>6. sec.img = wf.img /\ sec.whole
  BY <1>1, <1>2 DEF Extra, WorkflowSlot
<1>7. QED BY <1>1, <1>2, <1>3, <1>4, <1>5, <1>6
          DEF Extra, DownloadUnflagged, DlPCs, WorkflowSlot

(* Apply keeps the stage criteria of the downloaded image: a reboot flag *)
(* left in the record still names a staged image, now with a stage        *)
(* criteria; an empty, too long or cancelled criteria ends the workflow.  *)
LEMMA ApplyStageCriteriaExtra ==
  ASSUME Hyp, SettledIInv, ApplyStageCriteria
  PROVE  Extra'
<1>1. /\ TypeOK /\ WorkflowImage /\ Hist /\ Extra
  BY SettledFacts
<1>2. /\ pc = "Idle" /\ wf.downloaded
      /\ UNCHANGED <<prim, sec, crashes>>
  BY DEF ApplyStageCriteria
<1>3. CASE nv' = nv /\ pc' = "Idle" /\ wf' = NoWorkflow
  <2>1. /\ pc' # "Bricked" => prim'.whole
        /\ RunningSettled' /\ SettlePending' /\ RevertSafe'
        /\ TestConfirms' /\ ConfirmedBeforeSettle'
    BY <1>2, <1>3, AgentStep DEF PostRebootPCs
  <2>2. QED BY <1>1, <1>3, <2>1, SameRecord
            DEF Extra, DownloadUnflagged, DlPCs, WorkflowSlot, NoWorkflow
<1>4. CASE /\ nv' = nvImgUpgSt_setStageInstalledCriteria(nv, CritOf[wf.img])
           /\ setStageInstalledCriteriaGuard(nv, CritOf[wf.img])
           /\ pc' = "ApplySetPending" /\ wf' = wf
  <2>1. /\ RecordOK(nv) /\ nvImgUpgSt_getAll(nv)
        /\ wf.img \in Images /\ CritOf[wf.img] \in Criteria
    BY <1>1, <1>2, <1>4 DEF TypeOK, WorkflowImage,
                            setStageInstalledCriteriaGuard
  <2>2. ASSUME NEW j
        PROVE  LET r == nvImgUpgSt_setStageInstalledCriteria(nv, CritOf[wf.img])
               IN  /\ r.stageInstalledCriteria_valid
                   /\ r.installRebooted_valid = nv.installRebooted_valid
                   /\ StagedIn(r, j) = StagedIn(nv, j)
                   /\ SettledIn(r, j) = SettledIn(nv, j)
    BY <2>1, SetStageCriteriaSettled
  <2>3. /\ nvImgUpgSt_getAll(nv')
        /\ nv'.stageInstalledCriteria_valid
        /\ nv'.installRebooted_valid = nv.installRebooted_valid
        /\ \A j : StagedIn(nv', j) = StagedIn(nv, j)
        /\ \A j : SettledIn(nv', j) = SettledIn(nv, j)
    BY <1>4, <2>1, <2>2, SetStageCriteriaFields
  <2>4. /\ pc' # "Bricked" => prim'.whole
        /\ RunningSettled' /\ SettlePending' /\ RevertSafe'
        /\ TestConfirms' /\ ConfirmedBeforeSettle'
    BY <1>2, <1>4, <2>3, AgentStep DEF PostRebootPCs
  <2>5. RebootedStaged'
    BY <1>1, <2>1, <2>3
    DEF Extra, RebootedStaged, RebootStaged, StagedIn, SettledFor, SettledIn
  <2>6. DownloadUnflagged' /\ WorkflowSlot'
    BY <1>1, <1>2, <1>4, <2>3 DEF Extra, DownloadUnflagged, DlPCs, WorkflowSlot
  <2>7. QED BY <2>4, <2>5, <2>6 DEF Extra
<1>5. QED
  <2>1. CASE ApplyStageCriteria!3!1
    <3>1. PICK ok \in Outcomes :
            LET done == ok /\ setStageInstalledCriteriaGuard(nv, CritOf[wf.img])
            IN  /\ StoreIf(done,
                           nvImgUpgSt_setStageInstalledCriteria(nv, CritOf[wf.img]))
                /\ IF done THEN pc' = "ApplySetPending" /\ UNCHANGED wf
                           ELSE Fail
      BY <2>1
    <3>2. ok = TRUE
      BY NoFaultsOutcomes DEF Hyp
    <3>3. QED BY <1>3, <1>4, <3>1, <3>2 DEF StoreIf, Fail
  <2>2. CASE ApplyStageCriteria!3!2
    BY <1>3, <2>2 DEF Fail
  <2>3. QED BY <2>1, <2>2 DEF ApplyStageCriteria

(* boot_set_pending succeeds with reliable flash; the record is kept.    *)
LEMMA ApplySetPendingExtra ==
  ASSUME Hyp, SettledIInv, ApplySetPending
  PROVE  Extra'
<1>1. /\ TypeOK /\ Hist /\ Extra
  BY SettledFacts
<1>2. /\ pc = "ApplySetPending" /\ pc' = "ApplySetRebooted"
      /\ sec' = [sec EXCEPT !.pending = TRUE]
      /\ UNCHANGED <<nv, prim, wf, crashes>>
  BY NoFaultsOutcomes DEF Hyp, ApplySetPending
<1>3. /\ pc' # "Bricked" => prim'.whole
      /\ RunningSettled' /\ SettlePending' /\ RevertSafe'
      /\ TestConfirms' /\ ConfirmedBeforeSettle'
  BY <1>2, AgentStep DEF PostRebootPCs
<1>4. /\ sec'.img = sec.img /\ sec'.whole = sec.whole /\ sec'.pending
  BY <1>1, <1>2 DEF TypeOK, SecSlots
<1>5. QED BY <1>1, <1>2, <1>3, <1>4, SameRecord
          DEF Extra, DownloadUnflagged, DlPCs, WorkflowSlot


(* Apply flags the reboot of the staged, whole, pending image: the flag  *)
(* names it, and a revert after the requested reset would swap it back    *)
(* into the secondary slot, whose criteria the record has staged.         *)
LEMMA ApplySetRebootedExtra ==
  ASSUME Hyp, SettledIInv, ApplySetRebooted
  PROVE  Extra'
<1>1. /\ TypeOK /\ WorkflowImage /\ Hist /\ Extra
  BY SettledFacts
<1>2. /\ pc = "ApplySetRebooted"
      /\ UNCHANGED <<prim, sec, everConfirmed, crashes, deploys>>
  BY DEF ApplySetRebooted
<1>3. /\ wf.downloaded /\ nv.stageInstalledCriteria_valid /\ sec.pending
      /\ sec.img = wf.img /\ sec.whole
  BY <1>1, <1>2 DEF Extra, WorkflowSlot
<1>4. /\ RecordOK(nv) /\ nvImgUpgSt_getAll(nv)
      /\ nv.stageVersion_valid /\ nv.stageVersion = Ver[wf.img]
      /\ wf.img \in Images
  BY <1>1, <1>3 DEF TypeOK, Hist, WorkflowStaged, WorkflowImage
<1>5. nv' = nvImgUpgSt_setInstallRebooted(nv, FALSE)
      /\ pc' = "RebootRequested" /\ wf' = wf
  <2>1. PICK ok \in Outcomes :
          /\ StoreIf(ok /\ setInstallRebootedGuard(nv),
                     nvImgUpgSt_setInstallRebooted(nv, FALSE))
          /\ IF ok /\ setInstallRebootedGuard(nv)
               THEN pc' = "RebootRequested" /\ UNCHANGED wf
               ELSE Fail
    BY DEF ApplySetRebooted
  <2>2. ok = TRUE
    BY NoFaultsOutcomes DEF Hyp
  <2>3. QED BY <1>4, <2>1, <2>2 DEF StoreIf, setInstallRebootedGuard
<1>6. ASSUME NEW j
      PROVE  /\ nvImgUpgSt_setInstallRebooted(nv, FALSE).installRebooted_valid
             /\ nvImgUpgSt_setInstallRebooted(nv, FALSE).stageInstalledCriteria_valid
                  = nv.stageInstalledCriteria_valid
             /\ StagedIn(nvImgUpgSt_setInstallRebooted(nv, FALSE), j)
                  = (nv.stageVersion_valid /\ nv.stageVersion = Ver[j])
             /\ SettledIn(nvImgUpgSt_setInstallRebooted(nv, FALSE), j)
                  = SettledIn(nv, j)
  BY <1>4, SetInstallRebootedSettled
<1>7. /\ nvImgUpgSt_getAll(nv') /\ nv'.installRebooted_valid
      /\ nv'.stageInstalledCriteria_valid
      /\ StagedIn(nv', wf.img)
      /\ \A j : SettledIn(nv', j) = SettledIn(nv, j)
  BY <1>3, <1>4, <1>5, <1>6, SetInstallRebootedFields
<1>8. RebootedStaged'
  BY <1>4, <1>7 DEF RebootedStaged, RebootStaged, StagedIn, SettledFor,
                    SettledIn
<1>9. RunningSettled'
  <2>1. ~Unconfirmed => SettledIn(nv, prim.img)
    BY <1>1, <1>2 DEF Extra, RunningSettled, PostRebootPCs, SettledFor,
                      SettledIn
  <2>2. QED BY <1>2, <1>7, <2>1 DEF RunningSettled, Unconfirmed, SettledFor,
                                    SettledIn
<1>10. RevertSafe' /\ TestConfirms'
  <2>1. ~(Unconfirmed /\ crashes < MaxCrashes)
    BY <1>1, <1>2 DEF Extra, TestConfirms
  <2>2. Bootable(sec) /\ StagedIn(nv', sec.img)
    BY <1>3, <1>4, <1>7 DEF Bootable
  <2>3. QED BY <1>2, <1>5, <2>1, <2>2 DEF RevertSafe, TestConfirms,
                                          Unconfirmed, Bootable,
                                          RebootStaged, StagedIn
<1>11. /\ pc' # "Bricked" => prim'.whole
       /\ DownloadUnflagged' /\ WorkflowSlot' /\ SettlePending'
       /\ ConfirmedBeforeSettle'
  BY <1>1, <1>2, <1>3, <1>5, <1>7
  DEF Extra, DownloadUnflagged, DlPCs, WorkflowSlot, SettlePending,
      PostRebootPCs, ConfirmedBeforeSettle
<1>12. QED BY <1>8, <1>9, <1>10, <1>11 DEF Extra

(* Every step preserves SettledIInv, one action at a time.  A requested  *)
(* reset comes only after Apply (the revert reset of PostReboot3 is never *)
(* taken), and a power loss only while one is left.                       *)
LEMMA SettledIInvStep ==
  ASSUME Hyp, SettledIInv, [Next]_vars
  PROVE  SettledIInv'
<1>1. IInv'
  BY IInvStep DEF Hyp, SettledIInv
<1>2. TypeOK /\ Extra
  BY SettledFacts
<1>3. Extra'
  <2>1. CASE RequestedReset
    <3>1. pc = "RebootRequested" /\ crashes' = crashes
      BY <1>2, <2>1 DEF RequestedReset, Extra, ConfirmedBeforeSettle
    <3>2. QED BY <2>1, <3>1, BootExtra DEF RequestedReset
  <2>2. CASE PowerLoss
    <3>1. /\ pc # "Bricked" /\ pc # "SystemReset"
          /\ crashes < MaxCrashes /\ crashes' = crashes + 1
      BY <1>2, <2>2 DEF PowerLoss, Extra, ConfirmedBeforeSettle
    <3>2. QED BY <2>2, <3>1, BootExtra DEF PowerLoss
  <2>3. CASE PostReboot1
    BY <2>3, PostReboot1Extra
  <2>4. CASE PostReboot2
    BY <2>4, PostReboot2Extra
  <2>5. CASE PostReboot3
    BY <2>5, PostReboot3Extra
  <2>6. CASE PostReboot4
    BY <2>6, PostReboot4Extra
  <2>7. CASE \E i \in DeployImages : DownloadStart(i)
    BY <2>7, DownloadStartExtra
  <2>8. CASE DownloadErase
    BY <2>8, DownloadEraseExtra
  <2>9. CASE DownloadHeader
    BY <2>9, DownloadHeaderExtra
  <2>10. CASE DownloadBody \/ DownloadAbort
    BY <2>10, DownloadBodyAbortExtra
  <2>11. CASE DownloadVerify
    BY <2>11, DownloadVerifyExtra
  <2>12. CASE ApplyStageCriteria
    BY <2>12, ApplyStageCriteriaExtra
  <2>13. CASE ApplySetPending
    BY <2>13, ApplySetPendingExtra
  <2>14. CASE ApplySetRebooted
    BY <2>14, ApplySetRebootedExtra
  <2>15. CASE UNCHANGED vars
    BY <1>2, <2>15
    DEF vars, Extra, RebootedStaged, RebootStaged, SettledFor,
        DownloadUnflagged, WorkflowSlot, RunningSettled, SettlePending,
        RevertSafe, TestConfirms, ConfirmedBeforeSettle, Unconfirmed,
        Bootable, nvImgUpgSt_installed, ActiveVersion
  <2>16. QED
    BY <2>1, <2>2, <2>3, <2>4, <2>5, <2>6, <2>7, <2>8, <2>9, <2>10,
       <2>11, <2>12, <2>13, <2>14, <2>15 DEF Next
<1>4. QED BY <1>1, <1>3 DEF SettledIInv, Extra

(* SettledIInv, which the crash run checks, holds in every reachable     *)
(* state of the update handler when image versions are distinct, kv_set, *)
(* trailer writes and flash reads never fail, and at most one power loss *)
(* happens, wherever in Download, Apply or the post-reboot routine.       *)
THEOREM SettledIInvProved ==
  ASSUME Hyp
  PROVE  Spec => []SettledIInv
<1>1. Init => SettledIInv
  BY IInvInit, ExtraInit DEF SettledIInv, Extra
<1>2. SettledIInv /\ [Next]_vars => SettledIInv'
  BY SettledIInvStep
<1>3. QED BY <1>1, <1>2, PTL DEF Spec

(* With distinct image versions, reliable writes and reads and at most   *)
(* one power loss, IsInstalled never names another image's criteria:     *)
(* whenever the agent is idle on an image MCUboot will keep, the settled *)
(* installedCriteria is that image's.                                     *)
THEOREM SettledMatchesRunningProved ==
  ASSUME VerInjective, NoFaults, MaxCrashes <= 1
  PROVE  Spec => []SettledMatchesRunning
<1>1. Hyp
  BY DEF Hyp
<1>2. SettledIInv => SettledMatchesRunning
  BY DEF SettledIInv, RunningSettled, PostRebootPCs, SettledFor,
         SettledMatchesRunning
<1>3. QED BY <1>1, <1>2, SettledIInvProved, PTL

=============================================================================
