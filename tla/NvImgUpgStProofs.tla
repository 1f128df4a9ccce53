-------------------------- MODULE NvImgUpgStProofs --------------------------
(***************************************************************************)
(* Facts about the nvImgUpgSt_* routines: each one, called where its guard *)
(* lets it write, turns a well-typed record into a well-typed record, and  *)
(* a kv_set that may fail keeps the stored record well typed.  The         *)
(* lifecycle proofs cite these instead of expanding the routines.          *)
(***************************************************************************)
EXTENDS NvImgUpgSt, TLAPS

(* nvImgUpgSt_reset, with or without the reserved region, yields a record  *)
(* whose criteria fields are either cleared or kept as they were.          *)
LEMMA ResetOK ==
  ASSUME NEW st, RecordOK(st), NEW b \in BOOLEAN
  PROVE  RecordOK(nvImgUpgSt_reset(st, b))
BY NvAssumption DEF RecordOK, nvImgUpgSt_reset, nvImgUpgSt_getAll, ZeroRecord,
                   Record, CriteriaString, ValidCriteria

(* nvImgUpgSt_setStageVersion stores a version and touches no criteria. *)
LEMMA SetStageVersionOK ==
  ASSUME NEW st, RecordOK(st), setStageVersionGuard(st), NEW v \in Versions
  PROVE  RecordOK(nvImgUpgSt_setStageVersion(st, v))
BY DEF RecordOK, setStageVersionGuard, nvImgUpgSt_getAll,
       nvImgUpgSt_setStageVersion, Record

(* nvImgUpgSt_setInstallRebooted stores a flag and touches no criteria. *)
LEMMA SetInstallRebootedOK ==
  ASSUME NEW st, RecordOK(st), setInstallRebootedGuard(st), NEW b \in BOOLEAN
  PROVE  RecordOK(nvImgUpgSt_setInstallRebooted(st, b))
BY DEF RecordOK, setInstallRebootedGuard, nvImgUpgSt_getAll,
       nvImgUpgSt_setInstallRebooted, Record

(* nvImgUpgSt_setStageInstalledCriteria stores only a string that passed   *)
(* its length check, so the stage criteria it marks valid fits.           *)
LEMMA SetStageCriteriaOK ==
  ASSUME NEW st, RecordOK(st), NEW c \in Criteria,
         setStageInstalledCriteriaGuard(st, c)
  PROVE  RecordOK(nvImgUpgSt_setStageInstalledCriteria(st, c))
BY DEF RecordOK, setStageInstalledCriteriaGuard, nvImgUpgSt_getAll,
       nvImgUpgSt_setStageInstalledCriteria, Record, CriteriaString,
       ValidCriteria

(* nvImgUpgSt_settleInstalledCriteria copies a valid stage criteria, which *)
(* fits, to the persistent field and clears the stage field.               *)
LEMMA SettleOK ==
  ASSUME NEW st, RecordOK(st), settleInstalledCriteriaGuard(st)
  PROVE  RecordOK(nvImgUpgSt_settleInstalledCriteria(st))
BY NvAssumption DEF RecordOK, settleInstalledCriteriaGuard, nvImgUpgSt_getAll,
                   nvImgUpgSt_settleInstalledCriteria, Record,
                   CriteriaString, ValidCriteria

(* The record of a settled update is well typed when its criteria fits. *)
LEMMA SettledRecordOK ==
  ASSUME NEW c \in ValidCriteria
  PROVE  RecordOK(SettledRecord(c))
BY NvAssumption DEF RecordOK, SettledRecord, Record, CriteriaString,
                   ValidCriteria

(* A kv_set that either stores a well-typed record or fails and keeps the *)
(* old one leaves a well-typed record.                                    *)
LEMMA StoreOK ==
  ASSUME NEW old, NEW r, NEW ok \in BOOLEAN, RecordOK(old), ok => RecordOK(r)
  PROVE  RecordOK(IF ok THEN r ELSE old)
OBVIOUS

(* nvImgUpgSt_reset(false) always leaves a record without stage criteria,  *)
(* and a persistent criteria in it is the one the old record held.         *)
LEMMA ResetFields ==
  ASSUME NEW st, RecordOK(st)
  PROVE  LET r == nvImgUpgSt_reset(st, FALSE)
         IN  /\ nvImgUpgSt_getAll(r)
             /\ ~r.stageInstalledCriteria_valid
             /\ r.persistentInstalledCriteria_valid =>
                  /\ nvImgUpgSt_getAll(st)
                  /\ st.persistentInstalledCriteria_valid
                  /\ r.persistentInstalledCriteria = st.persistentInstalledCriteria
<1>1. ZeroRecord \in Record
  BY NvAssumption DEF ZeroRecord, Record, CriteriaString
<1>2. CASE st = NoRecord
  BY <1>1, <1>2, NoRecordAssumption DEF nvImgUpgSt_reset, nvImgUpgSt_getAll,
                                       ZeroRecord
<1>3. CASE st # NoRecord
  <2>1. st \in Record
    BY <1>3 DEF RecordOK
  <2>2. nvImgUpgSt_reset(st, FALSE) \in Record
    BY <1>3, <2>1, NvAssumption DEF nvImgUpgSt_reset, nvImgUpgSt_getAll, Record,
                             CriteriaString
  <2>3. QED BY <1>3, <2>1, <2>2, NoRecordAssumption
            DEF nvImgUpgSt_reset, nvImgUpgSt_getAll
<1>4. QED BY <1>2, <1>3

(* nvImgUpgSt_setStageVersion writes the stage version and keeps both     *)
(* criteria fields.                                                        *)
LEMMA SetStageVersionFields ==
  ASSUME NEW st, RecordOK(st), nvImgUpgSt_getAll(st), NEW v \in Versions
  PROVE  LET r == nvImgUpgSt_setStageVersion(st, v)
         IN  /\ nvImgUpgSt_getAll(r)
             /\ r.stageVersion_valid /\ r.stageVersion = v
             /\ r.stageInstalledCriteria_valid = st.stageInstalledCriteria_valid
             /\ r.persistentInstalledCriteria_valid =
                  st.persistentInstalledCriteria_valid
             /\ r.persistentInstalledCriteria = st.persistentInstalledCriteria
<1>1. st \in Record
  BY DEF RecordOK, nvImgUpgSt_getAll
<1>2. nvImgUpgSt_setStageVersion(st, v) \in Record
  BY <1>1 DEF nvImgUpgSt_setStageVersion, Record
<1>3. QED BY <1>1, <1>2, NoRecordAssumption
          DEF nvImgUpgSt_setStageVersion, nvImgUpgSt_getAll, Record

(* nvImgUpgSt_setInstallRebooted keeps the stage version and both         *)
(* criteria fields.                                                        *)
LEMMA SetInstallRebootedFields ==
  ASSUME NEW st, RecordOK(st), nvImgUpgSt_getAll(st), NEW b \in BOOLEAN
  PROVE  LET r == nvImgUpgSt_setInstallRebooted(st, b)
         IN  /\ nvImgUpgSt_getAll(r)
             /\ r.stageVersion_valid = st.stageVersion_valid
             /\ r.stageVersion = st.stageVersion
             /\ r.stageInstalledCriteria_valid = st.stageInstalledCriteria_valid
             /\ r.stageInstalledCriteria = st.stageInstalledCriteria
             /\ r.persistentInstalledCriteria_valid =
                  st.persistentInstalledCriteria_valid
             /\ r.persistentInstalledCriteria = st.persistentInstalledCriteria
<1>1. st \in Record
  BY DEF RecordOK, nvImgUpgSt_getAll
<1>2. nvImgUpgSt_setInstallRebooted(st, b) \in Record
  BY <1>1 DEF nvImgUpgSt_setInstallRebooted, Record
<1>3. QED BY <1>1, <1>2, NoRecordAssumption
          DEF nvImgUpgSt_setInstallRebooted, nvImgUpgSt_getAll, Record

(* nvImgUpgSt_setStageInstalledCriteria writes the stage criteria and     *)
(* keeps the stage version and the persistent criteria.                   *)
LEMMA SetStageCriteriaFields ==
  ASSUME NEW st, RecordOK(st), nvImgUpgSt_getAll(st), NEW c \in Criteria
  PROVE  LET r == nvImgUpgSt_setStageInstalledCriteria(st, c)
         IN  /\ nvImgUpgSt_getAll(r)
             /\ r.stageInstalledCriteria_valid /\ r.stageInstalledCriteria = c
             /\ r.stageVersion_valid = st.stageVersion_valid
             /\ r.stageVersion = st.stageVersion
             /\ r.persistentInstalledCriteria_valid =
                  st.persistentInstalledCriteria_valid
             /\ r.persistentInstalledCriteria = st.persistentInstalledCriteria
<1>1. st \in Record
  BY DEF RecordOK, nvImgUpgSt_getAll
<1>2. nvImgUpgSt_setStageInstalledCriteria(st, c) \in Record
  BY <1>1 DEF nvImgUpgSt_setStageInstalledCriteria, Record, CriteriaString
<1>3. QED BY <1>1, <1>2, NoRecordAssumption
          DEF nvImgUpgSt_setStageInstalledCriteria, nvImgUpgSt_getAll, Record

(* nvImgUpgSt_settleInstalledCriteria makes the stage criteria the        *)
(* persistent one and clears the stage criteria.                           *)
LEMMA SettleFields ==
  ASSUME NEW st, RecordOK(st), settleInstalledCriteriaGuard(st)
  PROVE  LET r == nvImgUpgSt_settleInstalledCriteria(st)
         IN  /\ nvImgUpgSt_getAll(r)
             /\ ~r.stageInstalledCriteria_valid
             /\ r.persistentInstalledCriteria_valid
             /\ r.persistentInstalledCriteria = st.stageInstalledCriteria
<1>1. st \in Record
  BY DEF RecordOK, nvImgUpgSt_getAll, settleInstalledCriteriaGuard
<1>2. nvImgUpgSt_settleInstalledCriteria(st) \in Record
  BY <1>1, NvAssumption DEF nvImgUpgSt_settleInstalledCriteria, Record,
                           CriteriaString
<1>3. QED BY <1>1, <1>2, NoRecordAssumption
          DEF nvImgUpgSt_settleInstalledCriteria, nvImgUpgSt_getAll, Record
=============================================================================
