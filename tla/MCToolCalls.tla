-------------------------------- MODULE MCToolCalls --------------------------------
(***************************************************************************)
(* Credentials that overlap: cutting the key out of 1 2 1 leaves the       *)
(* secret, and the token contains the key.                                 *)
(***************************************************************************)
EXTENDS ToolCalls

MCKey == <<2>>
MCSecret == <<1, 1>>
MCToken == <<1, 2, 1>>

=====================================================================================
