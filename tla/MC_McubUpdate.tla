--------------------------- MODULE MC_McubUpdate ---------------------------
(* Model-checking instance of McubUpdate: two deployable images with       *)
(* distinct versions and criteria, the first one running initially.        *)
EXTENDS McubUpdate

MC_Versions == {"v0", "v1", "v2"}
MC_Criteria == {"c1", "c2"}
MC_Ver      == [i \in Images |-> IF i = "img1" THEN "v1" ELSE "v2"]
(* A collision: every image is built with the same ih_ver. *)
MC_SameVer  == [i \in Images |-> "v1"]
MC_CritOf   == [i \in Images |-> IF i = "img1" THEN "c1" ELSE "c2"]
MC_Images   == {"img1", "img2"}
=============================================================================
