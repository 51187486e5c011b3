---------------------------- MODULE MCStdioTransport ----------------------------
(***************************************************************************)
(* A peer with three ids against room for two requests and one or two      *)
(* pieces of an answer.                                                    *)
(***************************************************************************)
EXTENDS StdioTransport, TLC

TaskSymmetry == Permutations(Ids) \cup Permutations(Jobs)

===============================================================================
