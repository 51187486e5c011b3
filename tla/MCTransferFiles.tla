---------------------------- MODULE MCTransferFiles ----------------------------
(***************************************************************************)
(* Small stores: few files and transfers, lifetimes of a tick or two, room *)
(* for a file less than wanted.                                            *)
(***************************************************************************)
EXTENDS TransferFiles, TLC

StoreSymmetry ==
    Permutations(Files) \cup Permutations(Transfers) \cup Permutations(Owners)

===============================================================================
