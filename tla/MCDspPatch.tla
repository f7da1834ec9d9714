------------------------------ MODULE MCDspPatch ------------------------------
(* Three modules, so that one with neighbours on both sides can be removed;  *)
(* the ids are never compared, and may be exchanged.                         *)
EXTENDS DspPatch, TLC

CONSTANTS m1, m2, m3

IdSymmetry == Permutations(Ids)
=============================================================================
