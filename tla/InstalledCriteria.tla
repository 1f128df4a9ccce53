------------------------- MODULE InstalledCriteria -------------------------
(***************************************************************************)
(* What the update handler promises the ADU agent about IsInstalled, with  *)
(* resets, flash faults and the bootloader abstracted away.  The device    *)
(* keeps a history of the images that have run confirmed, and one settled  *)
(* installedCriteria that IsInstalled compares against.  An image joins    *)
(* the history when it is confirmed; the settled criteria only ever        *)
(* becomes the criteria of an image already in that history, and once set *)
(* it is never forgotten.                                                  *)
(***************************************************************************)
CONSTANTS
  Images,       \* the images that may be deployed
  CritOf,       \* CritOf[i]: the installedCriteria of i's deployment
  NoCriteria    \* nothing settled: IsInstalled reports false for every c

VARIABLES
  installed,    \* the settled criteria, or NoCriteria
  confirmed     \* the images that have run confirmed

absvars == <<installed, confirmed>>

Init ==
  /\ confirmed \subseteq Images
  /\ installed \in {NoCriteria} \cup {CritOf[i] : i \in confirmed}

(* Image i runs and is marked image-ok. *)
Confirm(i) ==
  /\ confirmed' = confirmed \cup {i}
  /\ UNCHANGED installed

(* The criteria of a confirmed image i becomes the settled one. *)
Settle(i) ==
  /\ i \in confirmed
  /\ installed' = CritOf[i]
  /\ UNCHANGED confirmed

Next == \E i \in Images : Confirm(i) \/ Settle(i)

Spec == Init /\ [][Next]_absvars
=============================================================================
