------------------------------ MODULE MCTagging ------------------------------
(* One content, so that every run wants the same one.                      *)
EXTENDS Tagging, TLC

CONSTANTS r1, r2, r3

RunSymmetry == Permutations(Runs)
=============================================================================
