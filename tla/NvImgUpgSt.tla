----------------------------- MODULE NvImgUpgSt -----------------------------
(***************************************************************************)
(* The in-storage record OTA_NonVolatileImageUpgradeState_t of             *)
(* mcubupdate_handler.cpp and the nvImgUpgSt_* routines that operate on    *)
(* it.  The record is kept in KVStore under one key and is always read and *)
(* written as a whole (nvImgUpgSt_getAll / nvImgUpgSt_setAll), so a        *)
(* routine is modelled by                                                  *)
(*   - its guard: the early returns that happen before nvImgUpgSt_setAll,  *)
(*   - the record it passes to nvImgUpgSt_setAll.                          *)
(* Whether kv_set itself succeeds is decided by the caller (the lifecycle  *)
(* module), since KVStore is power-fail safe: a failed or interrupted set  *)
(* leaves the previous record in place.                                    *)
(*                                                                         *)
(* Data is abstracted: a struct image_version is a member of Versions, an  *)
(* installed-criteria string is a member of Criteria, the zero-filled      *)
(* version and the empty string are ZeroVersion and EmptyCriteria, and     *)
(* LongCriteria are the strings longer than INSTALLEDCRITERIA_MAXCHAR.     *)
(***************************************************************************)

CONSTANTS
  Versions,       \* values of struct image_version
  ZeroVersion,    \* the all-zero image_version left by memset
  Criteria,       \* non-empty installed-criteria strings
  LongCriteria,   \* those longer than INSTALLEDCRITERIA_MAXCHAR (64)
  EmptyCriteria,  \* the all-zero char array left by memset
  NoRecord        \* no record under the key (kv_get fails or size differs)

ASSUME NvAssumption ==
  /\ ZeroVersion \in Versions
  /\ EmptyCriteria \notin Criteria
  /\ LongCriteria \subseteq Criteria

CriteriaString == Criteria \cup {EmptyCriteria}

(* OTA_NonVolatileImageUpgradeState_t, in layout order.  The uint32_t      *)
(* 'reserved' field only marks where the preserved region starts: every    *)
(* field before it is cleared by nvImgUpgSt_reset(false), every field      *)
(* after it is kept.                                                       *)
Record ==
  [stageVersion_valid                : BOOLEAN,
   stageVersion                      : Versions,
   installRebooted_valid             : BOOLEAN,
   installRebooted                   : BOOLEAN,
   stageInstalledCriteria_valid      : BOOLEAN,
   stageInstalledCriteria            : CriteriaString,
   persistentInstalledCriteria_valid : BOOLEAN,
   persistentInstalledCriteria       : CriteriaString]

(* An absent key is told apart from every stored record. *)
ASSUME NoRecordAssumption == NoRecord \notin Record

ZeroRecord ==
  [stageVersion_valid                |-> FALSE,
   stageVersion                      |-> ZeroVersion,
   installRebooted_valid             |-> FALSE,
   installRebooted                   |-> FALSE,
   stageInstalledCriteria_valid      |-> FALSE,
   stageInstalledCriteria            |-> EmptyCriteria,
   persistentInstalledCriteria_valid |-> FALSE,
   persistentInstalledCriteria       |-> EmptyCriteria]

(* A criteria string the setters accept: non-empty and at most           *)
(* INSTALLEDCRITERIA_MAXCHAR characters.                                   *)
ValidCriteria == Criteria \ LongCriteria

(* The stored state is a record or nothing, and a criteria field marked   *)
(* valid holds a string that fits its buffer.                             *)
RecordOK(st) ==
  /\ st \in Record \cup {NoRecord}
  /\ st # NoRecord =>
       /\ st.stageInstalledCriteria_valid =>
            st.stageInstalledCriteria \in ValidCriteria
       /\ st.persistentInstalledCriteria_valid =>
            st.persistentInstalledCriteria \in ValidCriteria

(* The record left by an update whose installed criteria c has settled  *)
(* (nvImgUpgSt_settleInstalledCriteria, then nvImgUpgSt_reset(false)).    *)
SettledRecord(c) ==
  [stageVersion_valid                |-> FALSE,
   stageVersion                      |-> ZeroVersion,
   installRebooted_valid             |-> FALSE,
   installRebooted                   |-> FALSE,
   stageInstalledCriteria_valid      |-> FALSE,
   stageInstalledCriteria            |-> EmptyCriteria,
   persistentInstalledCriteria_valid |-> TRUE,
   persistentInstalledCriteria       |-> c]

(* nvImgUpgSt_getAll succeeds only if a record of the full size is stored. *)
nvImgUpgSt_getAll(st) == st # NoRecord

(* Faulty variant: the whole record is zeroed, 'reserved' included. *)
reset_All(st, includeReserved) == ZeroRecord

(* nvImgUpgSt_reset: zero the whole record when includeReserved is set or  *)
(* no record can be read, otherwise zero only the region before            *)
(* 'reserved'.  It has no guard: it always calls nvImgUpgSt_setAll.        *)
nvImgUpgSt_reset(st, includeReserved) ==
  IF includeReserved \/ ~nvImgUpgSt_getAll(st)
    THEN ZeroRecord
    ELSE [st EXCEPT !.stageVersion_valid           = FALSE,
                    !.stageVersion                 = ZeroVersion,
                    !.installRebooted_valid        = FALSE,
                    !.installRebooted              = FALSE,
                    !.stageInstalledCriteria_valid = FALSE,
                    !.stageInstalledCriteria       = EmptyCriteria]

(* nvImgUpgSt_setStageVersion *)
setStageVersionGuard(st) == nvImgUpgSt_getAll(st)
nvImgUpgSt_setStageVersion(st, v) ==
  [st EXCEPT !.stageVersion = v, !.stageVersion_valid = TRUE]

(* nvImgUpgSt_setInstallRebooted *)
setInstallRebootedGuard(st) == nvImgUpgSt_getAll(st)
nvImgUpgSt_setInstallRebooted(st, b) ==
  [st EXCEPT !.installRebooted = b, !.installRebooted_valid = TRUE]

(* nvImgUpgSt_setStageInstalledCriteria: refuses a string longer than      *)
(* INSTALLEDCRITERIA_MAXCHAR.                                              *)
setStageInstalledCriteriaGuard(st, c) ==
  nvImgUpgSt_getAll(st) /\ c \notin LongCriteria
nvImgUpgSt_setStageInstalledCriteria(st, c) ==
  [st EXCEPT !.stageInstalledCriteria = c,
             !.stageInstalledCriteria_valid = TRUE]

(* nvImgUpgSt_settleInstalledCriteria: promote the stage criteria to the   *)
(* persistent one and clear the stage criteria; refused when no stage      *)
(* criteria is valid.                                                      *)
(* Faulty variants of the settle: clearing the stage field before copying *)
(* it, and promoting only when no persistent criteria is set yet.         *)
settle_ClearFirst(st) ==
  [st EXCEPT !.stageInstalledCriteria_valid      = FALSE,
             !.stageInstalledCriteria            = EmptyCriteria,
             !.persistentInstalledCriteria       = EmptyCriteria,
             !.persistentInstalledCriteria_valid = TRUE]
settle_FirstOnly(st) ==
  IF st.persistentInstalledCriteria_valid
    THEN [st EXCEPT !.stageInstalledCriteria_valid = FALSE,
                    !.stageInstalledCriteria       = EmptyCriteria]
    ELSE [st EXCEPT !.persistentInstalledCriteria       = st.stageInstalledCriteria,
                    !.persistentInstalledCriteria_valid = TRUE,
                    !.stageInstalledCriteria_valid      = FALSE,
                    !.stageInstalledCriteria            = EmptyCriteria]

settleInstalledCriteriaGuard(st) ==
  /\ nvImgUpgSt_getAll(st)
  /\ st.stageInstalledCriteria_valid
  /\ st.stageInstalledCriteria \notin LongCriteria
nvImgUpgSt_settleInstalledCriteria(st) ==
  [st EXCEPT !.persistentInstalledCriteria       = st.stageInstalledCriteria,
             !.persistentInstalledCriteria_valid = TRUE,
             !.stageInstalledCriteria_valid      = FALSE,
             !.stageInstalledCriteria            = EmptyCriteria]

(* nvImgUpgSt_installed returns true when the record says the device has   *)
(* rebooted into the staged version, i.e. the stage version equals the     *)
(* version in the header of the primary slot.  Its out-parameter           *)
(* 'confirmed' is then the image-ok flag of the primary slot, read by the  *)
(* caller from the bootloader state.                                       *)
(* Faulty variant: the stage version is not compared with the header. *)
installed_NoVersion(st, activeVersion) ==
  /\ nvImgUpgSt_getAll(st)
  /\ st.installRebooted_valid
  /\ st.installRebooted
  /\ st.stageVersion_valid

nvImgUpgSt_installed(st, activeVersion) ==
  /\ nvImgUpgSt_getAll(st)
  /\ st.installRebooted_valid
  /\ st.installRebooted
  /\ st.stageVersion_valid
  /\ st.stageVersion = activeVersion

(* nvImgUpgSt_installRebooted: the flag is readable and has value b. *)
nvImgUpgSt_installRebooted(st, b) ==
  /\ nvImgUpgSt_getAll(st)
  /\ st.installRebooted_valid
  /\ st.installRebooted = b

(* nvImgUpgSt_persistentInstalledCriteria: the persistent criteria is      *)
(* readable and equals c (the caller's buffer is always                    *)
(* INSTALLEDCRITERIA_MAXCHAR + 1 bytes, so the length check never fails    *)
(* for a string that was stored through the setter).                      *)
nvImgUpgSt_persistentInstalledCriteria(st, c) ==
  /\ nvImgUpgSt_getAll(st)
  /\ st.persistentInstalledCriteria_valid
  /\ st.persistentInstalledCriteria = c
=============================================================================
