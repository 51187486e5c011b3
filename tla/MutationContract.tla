--------------------------- MODULE MutationContract ---------------------------
(***************************************************************************)
(* What the server promises a caller about one mutation of Komodo: it      *)
(* takes effect at most once, and what the caller is told never            *)
(* contradicts what happened or can still happen.  "unknown" is always an  *)
(* honest thing to say; a mutation may even take effect after the caller   *)
(* was told so, which is why the caller has to reconcile before writing    *)
(* again (docs/reconciliation.md).                                         *)
(***************************************************************************)
EXTENDS Naturals

CONSTANT Requests   \* the requests, one mutation each at most

VARIABLES
    effect,   \* effect[r]: how often Komodo accepted the mutation of r
    told      \* told[r]: what the caller of r has been told

contractVars == <<effect, told>>

Answers == {"pending", "applied", "notApplied", "unknown"}

ContractTypeOK ==
    /\ effect \in [Requests -> 0..1]
    /\ told \in [Requests -> Answers]

ContractInit ==
    /\ effect = [r \in Requests |-> 0]
    /\ told = [r \in Requests |-> "pending"]

\* Komodo accepts the mutation: never twice, and never once its caller was
\* told that it did not happen.
TakeEffect(r) ==
    /\ effect[r] = 0
    /\ told[r] # "notApplied"
    /\ effect' = [effect EXCEPT ![r] = 1]
    /\ UNCHANGED told

\* The caller is told, once, something that is true.
Tell(r, a) ==
    /\ told[r] = "pending"
    /\ a = "applied" => effect[r] = 1
    /\ a = "notApplied" => effect[r] = 0
    /\ told' = [told EXCEPT ![r] = a]
    /\ UNCHANGED effect

ContractNext ==
    \E r \in Requests :
        \/ TakeEffect(r)
        \/ \E a \in Answers \ {"pending"} : Tell(r, a)

ContractSpec == ContractInit /\ [][ContractNext]_contractVars

===============================================================================
