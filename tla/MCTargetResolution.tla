-------------------------- MODULE MCTargetResolution --------------------------
(***************************************************************************)
(* Three resources, names that equal, contain and ignore the selector,     *)
(* pages of one or two.                                                    *)
(***************************************************************************)
EXTENDS TargetResolution, TLC

IdSymmetry == Permutations(Ids)

===============================================================================
