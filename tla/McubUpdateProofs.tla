-------------------------- MODULE McubUpdateProofs --------------------------
(***************************************************************************)
(* Proofs about the update lifecycle of McubUpdate, for every value of the *)
(* constants that satisfies NvAssumption and McubAssumption.               *)
(***************************************************************************)
EXTENDS McubUpdate, NvImgUpgStProofs, TLAPS

USE NvAssumption, McubAssumption

(* The kv_set outcomes are Boolean. *)
LEMMA OutcomesBoolean == Outcomes \subseteq BOOLEAN
BY DEF Outcomes

(* Ending a workflow (Fail) leaves no workflow and the agent idle. *)
LEMMA FailTyped ==
  ASSUME Fail
  PROVE  wf' \in Workflows /\ pc' \in PCs /\ WorkflowImage'
<1>1. wf' = NoWorkflow /\ pc' = "Idle"
  BY DEF Fail
<1>2. NoWorkflow \in Workflows
  BY DEF NoWorkflow, Workflows
<1>3. QED BY <1>1, <1>2 DEF PCs, WorkflowImage, NoWorkflow

(* A reset, requested or not, leaves typed slots, no workflow, and a       *)
(* program counter that is PostReboot1 only when the primary slot holds a  *)
(* bootable image.                                                         *)
LEMMA BootTyped ==
  ASSUME TypeOK, Boot
  PROVE  /\ prim' \in PrimSlots /\ sec' \in SecSlots
         /\ everConfirmed' \subseteq Images
         /\ pc' \in PCs /\ RunningImage'
         /\ wf' \in Workflows /\ WorkflowImage'
         /\ nv' = nv
<1>1. prim \in PrimSlots /\ sec \in SecSlots /\ everConfirmed \subseteq Images
  BY DEF TypeOK
<1>2. prim' \in PrimSlots /\ sec' \in SecSlots /\ everConfirmed' \subseteq Images
  <2>1. CASE McubootBoot!1
    BY <1>1, <2>1 DEF PrimSlots, SecSlots, SlotImages
  <2>2. CASE McubootBoot!2
    BY <1>1, <2>2 DEF PrimSlots, SecSlots, SlotImages
  <2>3. CASE McubootBoot!3
    BY <1>1, <2>3
  <2>4. QED BY <2>1, <2>2, <2>3 DEF Boot, McubootBoot
<1>3. pc' \in PCs /\ RunningImage'
  BY DEF Boot, PCs, RunningImage, Bootable
<1>4. wf' \in Workflows /\ WorkflowImage'
  BY DEF Boot, NoWorkflow, Workflows, WorkflowImage
<1>5. QED BY <1>2, <1>3, <1>4 DEF Boot

(* The initial states satisfy TypeInv. *)
LEMMA TypeInvInit == Init => TypeInv
<1> SUFFICES ASSUME Init PROVE TypeInv
  OBVIOUS
<1>1. RecordOK(nv)
  BY SettledRecordOK DEF Init, RecordOK
<1>2. prim \in PrimSlots /\ everConfirmed \subseteq Images
  <2>1. InitImage \in SlotImages
    BY DEF SlotImages
  <2>2. CASE Init!1!1
    BY <2>1, <2>2 DEF PrimSlots
  <2>3. CASE Init!1!2
    BY <2>1, <2>3 DEF PrimSlots
  <2>4. QED BY <2>2, <2>3 DEF Init
<1>3. sec \in SecSlots
  BY DEF Init, SecSlots, SlotImages, Erased
<1>4. pc \in PCs /\ RunningImage
  BY DEF Init, PCs, RunningImage
<1>5. wf \in Workflows /\ WorkflowImage
  BY DEF Init, NoWorkflow, Workflows, WorkflowImage
<1>6. crashes \in 0..MaxCrashes /\ deploys \in 0..MaxDeploys
  BY DEF Init
<1>7. QED
  BY <1>1, <1>2, <1>3, <1>4, <1>5, <1>6 DEF TypeInv, TypeOK

(* Every step preserves TypeInv: Apply's stage criteria is CritOf[wf.img], *)
(* which is typed only because the workflow image of a successful          *)
(* download is a signed image (WorkflowImage).                             *)
LEMMA TypeInvStep == TypeInv /\ [Next]_vars => TypeInv'
<1> SUFFICES ASSUME TypeInv, [Next]_vars PROVE TypeInv'
  OBVIOUS
<1> USE DEF TypeInv, TypeOK
<1>1. CASE RequestedReset
  BY <1>1, BootTyped DEF RequestedReset
<1>2. CASE PowerLoss
  BY <1>2, BootTyped DEF PowerLoss
<1>3. CASE PostReboot1
  <2>1. RecordOK(nv')
    BY <1>3, OutcomesBoolean, StoreOK, SetInstallRebootedOK
    DEF PostReboot1, StoreIf, nvImgUpgSt_installRebooted,
        setInstallRebootedGuard
  <2>2. QED BY <1>3, <2>1 DEF PostReboot1, PCs, WorkflowImage, RunningImage
<1>4. CASE PostReboot2
  <2>1. /\ prim' \in PrimSlots /\ prim'.img = prim.img
        /\ everConfirmed' \subseteq Images
    BY <1>4, OutcomesBoolean DEF PostReboot2, PrimSlots, RunningImage
  <2>2. /\ pc' = "PostReboot3" /\ pc = "PostReboot2"
        /\ UNCHANGED <<nv, sec, wf, crashes, deploys>>
    BY <1>4 DEF PostReboot2
  <2>3. QED BY <2>1, <2>2 DEF PCs, WorkflowImage, RunningImage
<1>5. CASE PostReboot3
  <2>1. RecordOK(nv')
    BY <1>5, OutcomesBoolean, StoreOK, SettleOK, ResetOK DEF PostReboot3, StoreIf
  <2>2. QED BY <1>5, <2>1 DEF PostReboot3, PCs, WorkflowImage, RunningImage
<1>6. CASE PostReboot4
  <2>1. RecordOK(nv')
    BY <1>6, OutcomesBoolean, StoreOK, ResetOK DEF PostReboot4, StoreIf
  <2>2. QED BY <1>6, <2>1 DEF PostReboot4, PCs, WorkflowImage, RunningImage
<1>7. CASE \E i \in DeployImages : DownloadStart(i)
  <2>1. PICK i \in DeployImages : DownloadStart(i)
    BY <1>7
  <2>2. PICK ok \in Outcomes :
          /\ StoreIf(ok, nvImgUpgSt_reset(nv, FALSE))
          /\ IF ok THEN pc' = "DlErase" /\ wf' = [img |-> i, downloaded |-> FALSE]
                   ELSE Fail
    BY <2>1 DEF DownloadStart
  <2>3. RecordOK(nv')
    BY <2>2, OutcomesBoolean, StoreOK, ResetOK DEF StoreIf
  <2>4. wf' \in Workflows /\ pc' \in PCs /\ WorkflowImage'
    <3>1. CASE ok
      <4>1. pc' = "DlErase" /\ wf' = [img |-> i, downloaded |-> FALSE]
        BY <2>2, <3>1
      <4>2. QED BY <4>1 DEF Workflows, DeployImages, PCs, WorkflowImage
    <3>2. CASE ~ok
      BY <2>2, <3>2, FailTyped
    <3>3. QED BY <3>1, <3>2
  <2>5. QED BY <2>1, <2>3, <2>4 DEF DownloadStart, RunningImage
<1>8. CASE DownloadErase
  <2>1. CASE DownloadErase!2!1
    <3>1. sec' \in SecSlots
      BY <2>1 DEF Erased, SecSlots, SlotImages
    <3>2. QED BY <1>8, <2>1, <3>1 DEF DownloadErase, PCs, WorkflowImage,
                                      RunningImage
  <2>2. CASE DownloadErase!2!2
    BY <1>8, <2>2, FailTyped DEF DownloadErase, RunningImage
  <2>3. QED BY <1>8, <2>1, <2>2 DEF DownloadErase
<1>9. CASE DownloadHeader
  <2>1. UNCHANGED <<prim, everConfirmed, crashes, deploys>> /\ pc = "DlHeader"
    BY <1>9 DEF DownloadHeader
  <2>2. CASE DownloadHeader!2!1
    BY <2>1, <2>2, FailTyped DEF RunningImage
  <2>3. CASE DownloadHeader!2!2
    <3> DEFINE g == setStageVersionGuard(nv)
    <3>1. PICK ok \in Outcomes :
            /\ StoreIf(ok /\ g, nvImgUpgSt_setStageVersion(nv, Ver[wf.img]))
            /\ IF ok /\ g
                 THEN /\ sec' = [img |-> wf.img, whole |-> FALSE,
                                 pending |-> FALSE]
                      /\ pc' = "DlBody"
                      /\ UNCHANGED wf
                 ELSE /\ UNCHANGED sec
                      /\ Fail
      BY <2>3
    <3>2. wf.img \in Images
      BY <2>3
    <3>3. CASE ok /\ g
      <4>1. RecordOK(nv')
        BY <3>1, <3>2, <3>3, SetStageVersionOK DEF StoreIf
      <4>2. sec' = [img |-> wf.img, whole |-> FALSE, pending |-> FALSE]
        BY <3>1, <3>3
      <4>3. sec' \in SecSlots
        BY <3>2, <4>2 DEF SecSlots, SlotImages
      <4>4. QED BY <2>1, <3>1, <3>2, <3>3, <4>1, <4>3
                DEF PCs, WorkflowImage, RunningImage
    <3>4. CASE ~(ok /\ g)
      <4>1. nv' = nv /\ sec' = sec /\ Fail
        BY <3>1, <3>4 DEF StoreIf
      <4>2. QED BY <2>1, <4>1, FailTyped DEF RunningImage
    <3>5. QED BY <3>3, <3>4
  <2>4. QED BY <1>9, <2>2, <2>3 DEF DownloadHeader
<1>10. CASE DownloadBody
  BY <1>10 DEF DownloadBody, SecSlots, PCs, WorkflowImage, RunningImage
<1>11. CASE DownloadAbort
  BY <1>11, FailTyped DEF DownloadAbort, RunningImage
<1>12. CASE DownloadVerify
  <2>1. wf' \in Workflows /\ pc' \in PCs /\ WorkflowImage'
    BY <1>12, FailTyped DEF DownloadVerify, Workflows, PCs, WorkflowImage
  <2>2. QED BY <1>12, <2>1 DEF DownloadVerify, RunningImage
<1>13. CASE ApplyStageCriteria
  <2>1. wf.img \in Images
    BY <1>13 DEF ApplyStageCriteria, WorkflowImage
  <2>2. CritOf[wf.img] \in Criteria
    BY <2>1
  <2>3. RecordOK(nv')
    BY <1>13, <2>2, OutcomesBoolean, StoreOK, SetStageCriteriaOK
    DEF ApplyStageCriteria, StoreIf
  <2>4. wf' \in Workflows /\ pc' \in PCs /\ WorkflowImage'
    BY <1>13, FailTyped DEF ApplyStageCriteria, PCs, WorkflowImage
  <2>5. QED BY <1>13, <2>3, <2>4 DEF ApplyStageCriteria, RunningImage
<1>14. CASE ApplySetPending
  <2>1. sec' \in SecSlots
    BY <1>14 DEF ApplySetPending, SecSlots
  <2>2. wf' \in Workflows /\ pc' \in PCs /\ WorkflowImage'
    BY <1>14, FailTyped DEF ApplySetPending, PCs, WorkflowImage
  <2>3. QED BY <1>14, <2>1, <2>2 DEF ApplySetPending, RunningImage
<1>15. CASE ApplySetRebooted
  <2>1. RecordOK(nv')
    BY <1>15, OutcomesBoolean, StoreOK, SetInstallRebootedOK
    DEF ApplySetRebooted, StoreIf
  <2>2. wf' \in Workflows /\ pc' \in PCs /\ WorkflowImage'
    BY <1>15, FailTyped DEF ApplySetRebooted, PCs, WorkflowImage
  <2>3. QED BY <1>15, <2>1, <2>2 DEF ApplySetRebooted, RunningImage
<1>16. CASE UNCHANGED vars
  BY <1>16 DEF vars, WorkflowImage, RunningImage
<1>17. QED
  BY <1>1, <1>2, <1>3, <1>4, <1>5, <1>6, <1>7, <1>8, <1>9, <1>10, <1>11,
     <1>12, <1>13, <1>14, <1>15, <1>16 DEF Next

(* Every reachable state is well typed: the record's valid criteria fit   *)
(* their buffers, the slots hold images, and the agent is at a step of    *)
(* Download, Apply or the post-reboot routine.                            *)
THEOREM TypeCorrect == Spec => []TypeOK
<1>1. TypeInv => TypeOK
  BY DEF TypeInv
<1>2. QED BY TypeInvInit, TypeInvStep, <1>1, PTL DEF Spec
=============================================================================
