------------------------------ MODULE OneShotFile ------------------------------
(***************************************************************************)
(* What the transfer store promises about each credential file             *)
(* (docs/file-transfers.md, "Lifecycle"): its content is fixed when it is  *)
(* completed, it is handed out at most once, to its owner, and once handed *)
(* out or erased it never comes back.                                      *)
(***************************************************************************)
CONSTANTS
    Files,      \* file identifiers, each for one file ever
    Owners,     \* verified subjects
    Contents    \* what a file may contain

VARIABLES
    phase,      \* phase[f]: how far file f has come
    owner,      \* owner[f]: whose it is, once born
    content,    \* content[f]: what it contains, while stored
    receiver    \* receiver[f]: the set of those it was handed to

fileVars == <<phase, owner, content, receiver>>

Phases == {"unborn", "awaiting", "stored", "handed", "erased"}

OneShotInit ==
    /\ phase = [f \in Files |-> "unborn"]
    /\ owner \in [Files -> Owners]
    /\ content = [f \in Files |-> {}]
    /\ receiver = [f \in Files |-> {}]

\* A new file waits for its upload, or is published with its content.
Reserve(f) ==
    /\ phase[f] = "unborn" /\ phase'[f] = "awaiting"
    /\ content'[f] = {} /\ receiver'[f] = {}
Publish(f) ==
    /\ phase[f] = "unborn" /\ phase'[f] = "stored"
    /\ \E c \in Contents : content'[f] = {c}
    /\ receiver'[f] = {}

\* The one upload that counts.
Complete(f) ==
    /\ phase[f] = "awaiting" /\ phase'[f] = "stored"
    /\ \E c \in Contents : content'[f] = {c}
    /\ owner'[f] = owner[f] /\ receiver'[f] = {}

\* The whole content goes to the owner, and the store keeps nothing of it.
Hand(f) ==
    /\ phase[f] = "stored" /\ phase'[f] = "handed"
    /\ content'[f] = {}
    /\ owner'[f] = owner[f] /\ receiver'[f] = {owner[f]}

\* Expiry, shutdown.
Erase(f) ==
    /\ phase[f] \in {"awaiting", "stored"} /\ phase'[f] = "erased"
    /\ content'[f] = {}
    /\ owner'[f] = owner[f] /\ receiver'[f] = {}

Keep(f) ==
    /\ phase'[f] = phase[f] /\ content'[f] = content[f]
    /\ owner'[f] = owner[f] /\ receiver'[f] = receiver[f]

\* One step may concern several files: every operation sweeps what has expired.
OneShotNext ==
    \A f \in Files :
        \/ Reserve(f) \/ Publish(f) \/ Complete(f) \/ Hand(f) \/ Erase(f)
        \/ Keep(f)

OneShotSpec == OneShotInit /\ [][OneShotNext]_fileVars

===============================================================================
