----------------------------- MODULE MCEtssFlashFs -----------------------------
(* Instances of EtssFlashFs for TLC. *)
EXTENDS EtssFlashFs, TLC

CONSTANTS f1, f2, f3, v1, v2

MCFid == {f1, f2}
MCFid3 == {f1, f2, f3}
MCValue == {v1, v2}
MCValue1 == {v1}
MCSymmetry == Permutations(MCFid3) \cup Permutations(MCValue)
MCSymmetry2 == Permutations(MCFid) \cup Permutations(MCValue)
===============================================================================
