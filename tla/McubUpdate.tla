----------------------------- MODULE McubUpdate -----------------------------
(***************************************************************************)
(* The firmware-update lifecycle of MCUbUpdateHandlerImpl                  *)
(* (mcubupdate_handler.cpp) across resets: Download (OTACtx_Reinit, the    *)
(* chunk callback, VerifySignature), Apply, the post-reboot routine        *)
(* Update_NVImgUpgSt_PostReboot run by a global constructor at every boot, *)
(* and IsInstalled; together with the MCUboot swap decision taken at boot  *)
(* and uncontrolled power loss.                                            *)
(*                                                                         *)
(* Every persistent write (kv_set of the record, an MCUboot trailer write, *)
(* the erase of the secondary slot) is one step, so a power loss can fall *)
(* between any two of them.  The byte-level writing of the image is        *)
(* abstracted to "header written", "body written" (module AlignedWriter    *)
(* models it byte by byte).                                                *)
(***************************************************************************)
EXTENDS NvImgUpgSt, Naturals

CONSTANTS
  Images,         \* well-formed signed images the cloud may deploy
  BadImage,       \* a payload whose MCUboot header magic is wrong
  NoImage,        \* erased or unreadable slot content
  Ver,            \* Ver[i]: the ih_ver field of image i's header
  CritOf,         \* CritOf[i]: the installedCriteria of i's deployment
  InitImage,      \* image in the primary slot at the first state
  MaxCrashes,     \* bound on uncontrolled resets
  MaxDeploys,     \* bound on deployments started by the agent
  WriteFaults,    \* whether kv_set, flash erase and trailer writes may fail
  ReadFaults      \* whether flash reads (boot_read_image_ok, verify) may fail

ASSUME McubAssumption ==
  /\ Images # {}
  /\ BadImage \notin Images /\ NoImage \notin Images /\ BadImage # NoImage
  /\ Ver \in [Images -> Versions]
  /\ CritOf \in [Images -> Criteria]
  /\ InitImage \in Images
  /\ CritOf[InitImage] \in ValidCriteria   \* it was settled through the setter
  /\ MaxCrashes \in Nat /\ MaxDeploys \in Nat
  /\ WriteFaults \in BOOLEAN /\ ReadFaults \in BOOLEAN

VARIABLES
  nv,             \* the KVStore record, or NoRecord
  prim,           \* primary slot: image, whether it is whole, MCUboot trailer
  sec,            \* secondary slot: image, whether it is whole, pending flag
  pc,             \* where the single agent thread is
  wf,             \* the current workflow: image and whether Download succeeded
  everConfirmed,  \* history: images ever marked image-ok in the primary slot
  crashes,        \* uncontrolled resets so far
  deploys         \* deployments started so far

vars == <<nv, prim, sec, pc, wf, everConfirmed, crashes, deploys>>

DeployImages == Images \cup {BadImage}
SlotImages   == Images \cup {NoImage}

PrimSlots == [img : SlotImages, whole : BOOLEAN,
              testing : BOOLEAN, imageOk : BOOLEAN]
SecSlots  == [img : SlotImages, whole : BOOLEAN, pending : BOOLEAN]

Erased == [img |-> NoImage, whole |-> FALSE, pending |-> FALSE]

PCs == {"PostReboot1", "PostReboot2", "PostReboot3", "PostReboot4",
        "Idle", "DlErase", "DlHeader", "DlBody", "DlVerify",
        "ApplySetPending", "ApplySetRebooted",
        "RebootRequested", "SystemReset", "Bricked"}

NoWorkflow == [img |-> NoImage, downloaded |-> FALSE]

Workflows == [img : DeployImages \cup {NoImage}, downloaded : BOOLEAN]

(* A kv_set (or a flash write) succeeds; it may also fail when faults are  *)
(* allowed.  A failed kv_set leaves the stored record as it was.           *)
Outcomes == IF WriteFaults THEN BOOLEAN ELSE {TRUE}

(* A write of record r to KVStore whose outcome is ok. *)
StoreIf(ok, r) == nv' = IF ok THEN r ELSE nv

ActiveVersion == Ver[prim.img]

Bootable(p) == p.img \in Images /\ p.whole

(* The running image is a test swap that has not been confirmed: MCUboot  *)
(* will swap it back at the next boot.                                    *)
Unconfirmed == prim.testing /\ ~prim.imageOk

(* The 'confirmed' out-parameter of nvImgUpgSt_installed: the image-ok    *)
(* flag of the primary slot, or false when boot_read_image_ok fails.      *)
ConfirmedReads == IF ReadFaults THEN {prim.imageOk, FALSE} ELSE {prim.imageOk}

-----------------------------------------------------------------------------
(***************************************************************************)
(* MCUboot at boot (not in this repository; modelled from the spec and    *)
(* MCUboot's swap-type table).  A primary slot that was swapped in for a   *)
(* test and never marked image-ok is swapped back (REVERT) without any     *)
(* validation of what the secondary slot holds.  Otherwise a pending       *)
(* secondary image is validated and swapped in for a test (TEST).  MCUboot *)
(* erases an invalid pending image instead, but no state of this model has *)
(* one: Apply marks pending only a slot that Download wrote whole with a   *)
(* good header, and the erase in OTACtx_Reinit also clears the trailer.    *)
(***************************************************************************)
McubootBoot ==
  \/ /\ Unconfirmed
     /\ prim' = [img |-> sec.img, whole |-> sec.whole,
                 testing |-> FALSE, imageOk |-> TRUE]
     /\ sec'  = [img |-> prim.img, whole |-> prim.whole, pending |-> FALSE]
     /\ everConfirmed' = everConfirmed \cup ({sec.img} \cap Images)
  \/ /\ ~Unconfirmed
     /\ sec.pending
     /\ sec.img \in Images /\ sec.whole
     /\ prim' = [img |-> sec.img, whole |-> TRUE,
                 testing |-> TRUE, imageOk |-> FALSE]
     /\ sec'  = [img |-> prim.img, whole |-> prim.whole, pending |-> FALSE]
     /\ UNCHANGED everConfirmed
  \/ /\ ~Unconfirmed
     /\ ~sec.pending
     /\ UNCHANGED <<prim, sec, everConfirmed>>

(* A reset: volatile state is lost, MCUboot runs, then the image in the    *)
(* primary slot starts with the global constructor                         *)
(* update_nvImgUpgSt_postReboot, unless the primary slot is not bootable.  *)
Boot ==
  /\ McubootBoot
  /\ pc' = IF Bootable(prim') THEN "PostReboot1" ELSE "Bricked"
  /\ wf' = NoWorkflow
  /\ UNCHANGED nv

(* The reset the code asks for: ADUC_RebootSystem after Apply, or          *)
(* NVIC_SystemReset in the post-reboot routine.                            *)
RequestedReset ==
  /\ pc \in {"RebootRequested", "SystemReset"}
  /\ Boot
  /\ UNCHANGED <<crashes, deploys>>

(* Power loss or any uncontrolled reset, at any point. *)
PowerLoss ==
  /\ pc # "Bricked"
  /\ crashes < MaxCrashes
  /\ crashes' = crashes + 1
  /\ Boot
  /\ UNCHANGED deploys

-----------------------------------------------------------------------------
(***************************************************************************)
(* Update_NVImgUpgSt_PostReboot::Update_NVImgUpgSt_PostReboot, one step   *)
(* per persistent write.                                                   *)
(***************************************************************************)

(* Faulty variant: the flag is only rewritten when it is already true. *)
PostReboot1_WrongFlag ==
  /\ pc = "PostReboot1"
  /\ \/ /\ nvImgUpgSt_installRebooted(nv, TRUE)
        /\ \E ok \in Outcomes :
             StoreIf(ok, nvImgUpgSt_setInstallRebooted(nv, TRUE))
     \/ /\ ~nvImgUpgSt_installRebooted(nv, TRUE)
        /\ UNCHANGED nv
  /\ pc' = "PostReboot2"
  /\ UNCHANGED <<prim, sec, wf, everConfirmed, crashes, deploys>>

(* First boot after Apply: turn installRebooted from false to true. *)
PostReboot1 ==
  /\ pc = "PostReboot1"
  /\ \/ /\ nvImgUpgSt_installRebooted(nv, FALSE)
        /\ \E ok \in Outcomes :
             StoreIf(ok, nvImgUpgSt_setInstallRebooted(nv, TRUE))
     \/ /\ ~nvImgUpgSt_installRebooted(nv, FALSE)
        /\ UNCHANGED nv
  /\ pc' = "PostReboot2"
  /\ UNCHANGED <<prim, sec, wf, everConfirmed, crashes, deploys>>

(* Installed but not confirmed: boot_set_confirmed() marks the primary     *)
(* image ok; its result is ignored.                                        *)
PostReboot2 ==
  /\ pc = "PostReboot2"
  /\ \E confirmed \in ConfirmedReads :
       \/ /\ nvImgUpgSt_installed(nv, ActiveVersion)
          /\ ~confirmed
          /\ \E ok \in Outcomes :
               /\ prim' = [prim EXCEPT !.imageOk = prim.imageOk \/ ok]
               /\ everConfirmed' =
                    IF ok THEN everConfirmed \cup {prim.img} ELSE everConfirmed
       \/ /\ ~(nvImgUpgSt_installed(nv, ActiveVersion) /\ ~confirmed)
          /\ UNCHANGED <<prim, everConfirmed>>
  /\ pc' = "PostReboot3"
  /\ UNCHANGED <<nv, sec, wf, crashes, deploys>>

(* Installed and confirmed: settle the criteria (result ignored).          *)
(* Installed and still not confirmed: reset the record and NVIC reset so   *)
(* that MCUboot reverts.  Not installed: done.                             *)
PostReboot3 ==
  /\ pc = "PostReboot3"
  /\ \E confirmed \in ConfirmedReads :
       \/ /\ nvImgUpgSt_installed(nv, ActiveVersion)
          /\ confirmed
          /\ \E ok \in Outcomes :
               StoreIf(ok /\ settleInstalledCriteriaGuard(nv),
                       nvImgUpgSt_settleInstalledCriteria(nv))
          /\ pc' = "PostReboot4"
       \/ /\ nvImgUpgSt_installed(nv, ActiveVersion)
          /\ ~confirmed
          /\ \E ok \in Outcomes : StoreIf(ok, nvImgUpgSt_reset(nv, FALSE))
          /\ pc' = "SystemReset"
       \/ /\ ~nvImgUpgSt_installed(nv, ActiveVersion)
          /\ UNCHANGED nv
          /\ pc' = "Idle"
  /\ UNCHANGED <<prim, sec, wf, everConfirmed, crashes, deploys>>

(* After settling: nvImgUpgSt_reset(false). *)
PostReboot4 ==
  /\ pc = "PostReboot4"
  /\ \E ok \in Outcomes : StoreIf(ok, nvImgUpgSt_reset(nv, FALSE))
  /\ pc' = "Idle"
  /\ UNCHANGED <<prim, sec, wf, everConfirmed, crashes, deploys>>

-----------------------------------------------------------------------------
(***************************************************************************)
(* Download: OTACtx_Reinit, the body callback CombinedDownloadInstall and  *)
(* VerifySignature.  Every failure ends the workflow and leaves what was   *)
(* written in place.                                                       *)
(***************************************************************************)

Fail == /\ pc' = "Idle"
        /\ wf' = NoWorkflow

(* OTACtx_Reinit begins with nvImgUpgSt_reset(false). *)
DownloadStart(i) ==
  /\ pc = "Idle"
  /\ deploys < MaxDeploys
  /\ deploys' = deploys + 1
  /\ \E ok \in Outcomes :
       /\ StoreIf(ok, nvImgUpgSt_reset(nv, FALSE))
       /\ IF ok THEN pc' = "DlErase" /\ wf' = [img |-> i, downloaded |-> FALSE]
                ELSE Fail
  /\ UNCHANGED <<prim, sec, everConfirmed, crashes>>

(* OTACtx_Reinit then inits the secondary block device and erases it. *)
DownloadErase ==
  /\ pc = "DlErase"
  /\ \/ /\ sec' = Erased
        /\ pc' = "DlHeader"
        /\ UNCHANGED wf
     \/ /\ WriteFaults
        /\ UNCHANGED sec
        /\ Fail
  /\ UNCHANGED <<nv, prim, everConfirmed, crashes, deploys>>

(* The chunk that completes the MCUboot header: a bad magic fails before   *)
(* the chunk is written; otherwise the stage version is saved, then the    *)
(* chunk is written.                                                       *)
DownloadHeader ==
  /\ pc = "DlHeader"
  /\ \/ /\ wf.img = BadImage
        /\ UNCHANGED <<nv, sec>>
        /\ Fail
     \/ /\ wf.img \in Images
        /\ \E ok \in Outcomes :
             LET done == ok /\ setStageVersionGuard(nv)
             IN  /\ StoreIf(done, nvImgUpgSt_setStageVersion(nv, Ver[wf.img]))
                 /\ IF done
                      THEN /\ sec' = [img |-> wf.img, whole |-> FALSE,
                                      pending |-> FALSE]
                           /\ pc' = "DlBody"
                           /\ UNCHANGED wf
                      ELSE /\ UNCHANGED sec
                           /\ Fail
  /\ UNCHANGED <<prim, everConfirmed, crashes, deploys>>

(* The rest of the body is written and the length matches. *)
DownloadBody ==
  /\ pc = "DlBody"
  /\ sec' = [sec EXCEPT !.whole = TRUE]
  /\ pc' = "DlVerify"
  /\ UNCHANGED <<nv, prim, wf, everConfirmed, crashes, deploys>>

(* The transport fails, the download is cancelled, or a program() fails,   *)
(* between two chunks: nothing written is rolled back.                     *)
DownloadAbort ==
  /\ pc \in {"DlHeader", "DlBody"}
  /\ Fail
  /\ UNCHANGED <<nv, prim, sec, everConfirmed, crashes, deploys>>

(* VerifySignature re-reads the slot and compares the digest; the staged   *)
(* image is the deployed one, so only a read failure makes it fail.        *)
DownloadVerify ==
  /\ pc = "DlVerify"
  /\ \/ /\ pc' = "Idle"
        /\ wf' = [wf EXCEPT !.downloaded = TRUE]
     \/ /\ ReadFaults
        /\ Fail
  /\ UNCHANGED <<nv, prim, sec, everConfirmed, crashes, deploys>>

-----------------------------------------------------------------------------
(***************************************************************************)
(* Apply, called by the workflow after a successful Download.             *)
(***************************************************************************)

(* Keep the stage installedCriteria across reboot. *)
ApplyStageCriteria ==
  /\ pc = "Idle"
  /\ wf.downloaded
  /\ \/ /\ \E ok \in Outcomes :
             LET done == ok /\ setStageInstalledCriteriaGuard(nv, CritOf[wf.img])
             IN  /\ StoreIf(done,
                            nvImgUpgSt_setStageInstalledCriteria(nv, CritOf[wf.img]))
                 /\ IF done THEN pc' = "ApplySetPending" /\ UNCHANGED wf
                            ELSE Fail
     \/ /\ UNCHANGED nv    \* empty installedCriteria, or cancel requested
        /\ Fail
  /\ UNCHANGED <<prim, sec, everConfirmed, crashes, deploys>>

(* boot_set_pending(false): mark the secondary image pending for a test. *)
ApplySetPending ==
  /\ pc = "ApplySetPending"
  /\ \/ /\ sec' = [sec EXCEPT !.pending = TRUE]
        /\ pc' = "ApplySetRebooted"
        /\ UNCHANGED wf
     \/ /\ WriteFaults
        /\ UNCHANGED sec
        /\ Fail
  /\ UNCHANGED <<nv, prim, everConfirmed, crashes, deploys>>

(* nvImgUpgSt_setInstallRebooted(false), then request the reboot. *)
ApplySetRebooted ==
  /\ pc = "ApplySetRebooted"
  /\ \E ok \in Outcomes :
       /\ StoreIf(ok /\ setInstallRebootedGuard(nv),
                  nvImgUpgSt_setInstallRebooted(nv, FALSE))
       /\ IF ok /\ setInstallRebootedGuard(nv)
            THEN pc' = "RebootRequested" /\ UNCHANGED wf
            ELSE Fail
  /\ UNCHANGED <<prim, sec, everConfirmed, crashes, deploys>>

(* IsInstalled(c): the settled persistent criteria equals c. *)
IsInstalled(c) == nvImgUpgSt_persistentInstalledCriteria(nv, c)

(* The criteria for which IsInstalled reports true: the settled one when   *)
(* a record is readable and holds it, otherwise none.                      *)
InstalledOf(st) ==
  IF nvImgUpgSt_getAll(st) /\ st.persistentInstalledCriteria_valid
    THEN st.persistentInstalledCriteria
    ELSE EmptyCriteria

-----------------------------------------------------------------------------
(* The factory state, or the state left by an earlier update that settled. *)
Init ==
  /\ \/ /\ nv = NoRecord
        /\ prim = [img |-> InitImage, whole |-> TRUE,
                   testing |-> FALSE, imageOk |-> FALSE]
        /\ everConfirmed = {}
     \/ /\ nv = SettledRecord(CritOf[InitImage])
        /\ prim = [img |-> InitImage, whole |-> TRUE,
                   testing |-> FALSE, imageOk |-> TRUE]
        /\ everConfirmed = {InitImage}
  /\ sec = Erased
  /\ pc = "PostReboot1"
  /\ wf = NoWorkflow
  /\ crashes = 0
  /\ deploys = 0

Next ==
  \/ RequestedReset
  \/ PowerLoss
  \/ PostReboot1 \/ PostReboot2 \/ PostReboot3 \/ PostReboot4
  \/ \E i \in DeployImages : DownloadStart(i)
  \/ DownloadErase \/ DownloadHeader \/ DownloadBody \/ DownloadAbort
  \/ DownloadVerify
  \/ ApplyStageCriteria \/ ApplySetPending \/ ApplySetRebooted

(* The post-reboot routine runs to its end unless power is lost (it is a   *)
(* global constructor, run before main), and a requested reset happens     *)
(* (NVIC_SystemReset directly, or from the shared event queue 3 s after    *)
(* ADUC_RebootSystem).  Downloads, Apply and power loss need no fairness:  *)
(* the cloud may never deploy again and power may never fail.              *)
Fairness ==
  /\ WF_vars(PostReboot1) /\ WF_vars(PostReboot2)
  /\ WF_vars(PostReboot3) /\ WF_vars(PostReboot4)
  /\ WF_vars(RequestedReset)

Spec == Init /\ [][Next]_vars /\ Fairness

-----------------------------------------------------------------------------
(* Type invariant.  A valid criteria field holds a non-empty string that   *)
(* fits INSTALLEDCRITERIA_MAXCHAR.                                         *)
TypeOK ==
  /\ RecordOK(nv)
  /\ prim \in PrimSlots
  /\ sec \in SecSlots
  /\ pc \in PCs
  /\ wf \in Workflows
  /\ everConfirmed \subseteq Images
  /\ crashes \in 0..MaxCrashes
  /\ deploys \in 0..MaxDeploys

(* Settled criteria are sound: when IsInstalled(c) holds, c is the        *)
(* criteria of an image that MCUboot has, at some point, run as a         *)
(* confirmed (image-ok) image in the primary slot.  This is what the      *)
(* post-reboot routine's two-source check (stage version against the      *)
(* primary header, then the image-ok flag) exists for.                    *)
SettleSound ==
  nvImgUpgSt_getAll(nv) /\ nv.persistentInstalledCriteria_valid =>
    \E i \in everConfirmed : CritOf[i] = nv.persistentInstalledCriteria

(* The settled criteria name the image that runs: whenever the agent is   *)
(* idle on an image MCUboot will keep, IsInstalled(c) holds exactly for    *)
(* that image's criteria, whichever persistent write a reset interrupted.  *)
SettledMatchesRunning ==
  pc = "Idle" /\ ~Unconfirmed /\ nvImgUpgSt_getAll(nv)
  /\ nv.persistentInstalledCriteria_valid
    => nv.persistentInstalledCriteria = CritOf[prim.img]

(* The device never bricks: after every reset the primary slot holds a    *)
(* whole image, whatever point of Download, Apply or the post-reboot      *)
(* routine the reset interrupted.                                         *)
NeverBricked == pc # "Bricked"

(* After Apply has requested the reboot, the device eventually comes back *)
(* to the idle agent running an image MCUboot will keep: the new image    *)
(* confirmed by the post-reboot routine, or the old one after a revert.   *)
RebootResolves ==
  (pc = "RebootRequested") ~> (pc = "Idle" /\ ~Unconfirmed)
-----------------------------------------------------------------------------
(***************************************************************************)
(* The inductive invariant behind SettleSound.  It needs ih_ver to tell    *)
(* the deployable images apart (VerInjective): nvImgUpgSt_installed        *)
(* identifies the staged image by its version alone.                       *)
(***************************************************************************)
VerInjective == \A i, j \in Images : Ver[i] = Ver[j] => i = j

DlPCs == {"DlErase", "DlHeader", "DlBody", "DlVerify"}

(* The workflow's image is a signed one once its header has been accepted. *)
WorkflowImage ==
  wf.downloaded \/ pc \in {"DlBody", "DlVerify", "ApplySetPending",
                           "ApplySetRebooted"}
    => wf.img \in Images

(* Only a bootable primary slot runs code. *)
RunningImage == pc # "Bricked" => prim.img \in Images

(* An image-ok primary image has been confirmed at some point. *)
ConfirmedHistory ==
  prim.imageOk /\ prim.img \in Images => prim.img \in everConfirmed

(* During a download the record exists and holds no stage criteria. *)
DownloadClean ==
  pc \in DlPCs => nvImgUpgSt_getAll(nv) /\ ~nv.stageInstalledCriteria_valid

(* Once the header is accepted, the stage version is the workflow image's. *)
WorkflowStaged ==
  wf.downloaded \/ pc \in {"DlBody", "DlVerify"} =>
    /\ nvImgUpgSt_getAll(nv)
    /\ nv.stageVersion_valid
    /\ nv.stageVersion = Ver[wf.img]

(* Neither the post-reboot routine nor a download in progress has a       *)
(* downloaded workflow image.                                              *)
NotDownloaded ==
  pc \in DlPCs \cup {"PostReboot1", "PostReboot2", "PostReboot3",
                    "PostReboot4", "SystemReset"} => ~wf.downloaded

(* Stage criteria and stage version always describe the same image. *)
StageConsistent ==
  nvImgUpgSt_getAll(nv) /\ nv.stageInstalledCriteria_valid =>
    /\ nv.stageVersion_valid
    /\ \E i \in Images : /\ nv.stageInstalledCriteria = CritOf[i]
                        /\ nv.stageVersion = Ver[i]

(* The invariant that makes TypeOK inductive. *)
TypeInv == TypeOK /\ WorkflowImage /\ RunningImage

(* Inductive strengthening of SettleSound; TLC checks it as an invariant *)
(* of the instance with distinct versions.                               *)
IInv ==
  /\ TypeInv
  /\ ConfirmedHistory
  /\ DownloadClean
  /\ WorkflowStaged
  /\ NotDownloaded
  /\ StageConsistent
  /\ SettleSound
-----------------------------------------------------------------------------
(***************************************************************************)
(* The inductive invariant behind SettledMatchesRunning, for reliable      *)
(* flash and KVStore (NoFaults) and at most one power loss.  It follows    *)
(* the image MCUboot would run after the next reset: the running image's   *)
(* criteria is settled, or the record makes the post-reboot routine        *)
(* settle it, and an image left in test is confirmed before the agent      *)
(* can start another download while a power loss may still revert it.    *)
(***************************************************************************)
NoFaults == ~WriteFaults /\ ~ReadFaults

PostRebootPCs == {"PostReboot1", "PostReboot2", "PostReboot3"}

(* IsInstalled reports the criteria of image i, or nothing. *)
SettledFor(i) ==
  nvImgUpgSt_getAll(nv) /\ nv.persistentInstalledCriteria_valid
    => nv.persistentInstalledCriteria = CritOf[i]

(* The record says Apply staged image i and requested its reboot. *)
RebootStaged(i) ==
  /\ nvImgUpgSt_getAll(nv)
  /\ nv.installRebooted_valid
  /\ nv.stageVersion_valid
  /\ nv.stageVersion = Ver[i]

(* A reboot flag is only written after the stage criteria; the settle     *)
(* then moves that criteria to the persistent field.                       *)
RebootedStaged ==
  nvImgUpgSt_getAll(nv) /\ nv.installRebooted_valid =>
    \E i \in Images : /\ RebootStaged(i)
                      /\ nv.stageInstalledCriteria_valid \/ SettledFor(i)

(* A download starts from a record with no reboot flag. *)
DownloadUnflagged ==
  pc \in DlPCs => ~nv.installRebooted_valid

(* Once downloaded, the secondary slot holds the workflow's whole image;  *)
(* Apply keeps the stage criteria, marks the slot pending, then flags the *)
(* reboot.                                                                 *)
WorkflowSlot ==
  /\ wf.downloaded \/ pc \in {"DlBody", "DlVerify"} =>
       /\ sec.img = wf.img
       /\ pc # "DlBody" => sec.whole
  /\ pc \in {"ApplySetPending", "ApplySetRebooted", "RebootRequested"} =>
       wf.downloaded
  /\ pc \in {"ApplySetPending", "ApplySetRebooted"} =>
       nv.stageInstalledCriteria_valid
  /\ pc \in {"ApplySetRebooted", "RebootRequested"} => sec.pending
  /\ pc = "RebootRequested" => nv.installRebooted_valid

(* Outside the post-reboot routine, an image MCUboot keeps has its        *)
(* criteria settled.                                                       *)
RunningSettled ==
  ~Unconfirmed /\ pc \notin PostRebootPCs \cup {"Bricked"} =>
    SettledFor(prim.img)

(* Inside it, a kept image whose criteria is not settled yet is confirmed *)
(* and staged with its reboot flag, so the routine settles it.             *)
SettlePending ==
  ~Unconfirmed /\ pc \in PostRebootPCs /\ ~SettledFor(prim.img) =>
    /\ RebootStaged(prim.img)
    /\ prim.imageOk
    /\ pc # "PostReboot1" => nv.installRebooted

(* An image in test that a reset would revert swaps back a whole image    *)
(* whose criteria is settled or about to be.                               *)
RevertSafe ==
  Unconfirmed /\ (pc = "RebootRequested" \/ crashes < MaxCrashes) =>
    /\ Bootable(sec)
    /\ SettledFor(sec.img) \/ RebootStaged(sec.img)

(* While a power loss may still come, an image in test is the staged one  *)
(* and the post-reboot routine is about to confirm it.                    *)
TestConfirms ==
  Unconfirmed /\ crashes < MaxCrashes =>
    /\ pc \in {"PostReboot1", "PostReboot2"}
    /\ RebootStaged(prim.img)
    /\ pc = "PostReboot2" => nv.installRebooted

(* The routine has confirmed an installed image before it settles, so it  *)
(* never takes the revert path.                                            *)
ConfirmedBeforeSettle ==
  /\ pc = "PostReboot3" /\ nvImgUpgSt_installed(nv, ActiveVersion) =>
       prim.imageOk
  /\ pc # "SystemReset"

(* The strengthening of SettledMatchesRunning; TLC checks it on the crash *)
(* run.                                                                   *)
SettledIInv ==
  /\ IInv
  /\ pc # "Bricked" => prim.whole
  /\ RebootedStaged
  /\ DownloadUnflagged
  /\ WorkflowSlot
  /\ RunningSettled
  /\ SettlePending
  /\ RevertSafe
  /\ TestConfirms
  /\ ConfirmedBeforeSettle
-----------------------------------------------------------------------------
(***************************************************************************)
(* The refinement mapping: the abstract settled criteria is what          *)
(* IsInstalled reads from the record, and the abstract history of         *)
(* confirmed images is everConfirmed.                                      *)
(***************************************************************************)
Abs == INSTANCE InstalledCriteria
         WITH installed  <- InstalledOf(nv),
              confirmed  <- everConfirmed,
              NoCriteria <- EmptyCriteria

(* The lifecycle implements the abstract promise: across every reset,     *)
(* failed kv_set and failed flash read, the criteria IsInstalled reports   *)
(* only changes by the post-reboot settle, only to the criteria of an      *)
(* image that has run confirmed, and a settled criteria is never lost      *)
(* (nvImgUpgSt_reset(false) keeps it; only the persistent part survives).  *)
AbsSpec == Abs!Spec
=============================================================================
