-------------------------------- MODULE StackTools --------------------------------
(***************************************************************************)
(* The governed tools of one stack: which of them a process offers, what a *)
(* configuration write asks for and sends, what Core makes of it, and what *)
(* the tool that an uncertain answer names can tell about it.              *)
(*                                                                         *)
(* Calls run concurrently. How one is submitted and cut off at the end of  *)
(* its lifetime is in RequestLifecycle, how its stack is found in          *)
(* TargetResolution, how credential files come and go in TransferFiles.    *)
(***************************************************************************)
EXTENDS FiniteSets

CONSTANTS Calls, Empty   \* Empty: a text or list without content, or false
ASSUME ValuesDiffer == Empty # "old" /\ {Empty, "old"} \cap Calls = {}

VARIABLES
    profile, admin,     \* how the process was started
    native,             \* there is file transfer, which stdio does not have
    upload,             \* what is in the caller's uploaded file
    tool, ask, pc,      \* per call: its tool, what the caller set, where it stands
    patch,              \* per call: what is sent
    copy,               \* per call: what became of it at Core
    config,             \* the stack's configuration, at Core
    view, looked        \* per read: what it showed, the accepted copies it came after

process == <<profile, admin, native>>
calls == <<tool, ask, pc, patch, copy, view, looked>>
vars == <<process, upload, config, calls>>

-------------------------------------------------------------------------------
(* The registry *)

\* A configuration write and the fields it may set, a read and the fields it shows.
\* (config_patch is stacks.config.patch in the code, and so on.)
Sets ==
    [config_patch         |-> {"files_on_host", "run_directory", "file_paths",
                               "env_file_path"},
     compose_write        |-> {"file_contents"},
     environment_write    |-> {"environment"},
     commands_write       |-> {"pre_deploy", "post_deploy"},
     webhook_update       |-> {"webhook_enabled", "webhook_force_deploy"},
     webhook_secret_write |-> {"webhook_secret"}]
Fields == UNION {Sets[t] : t \in DOMAIN Sets}
Optional == {"config_patch", "commands_write", "webhook_update"}

Actions == {"deploy", "restart", "stop"}
Mutations == DOMAIN Sets \cup Actions \cup {"file_write"}

Shows ==
    [config_read         |-> Fields,
     compose_read        |-> {"file_contents"},
     environment_read    |-> {"environment"},
     commands_read       |-> {"pre_deploy", "post_deploy"},
     webhook_status      |-> {"webhook_enabled", "webhook_force_deploy",
                              "webhook_secret"},
     webhook_secret_read |-> {"webhook_secret"},
     operations_search   |-> {}]
Reads == DOMAIN Shows
Tools == Reads \cup Mutations

\* ToolProfile::permits
InProfile(p, t) ==
    \/ t \in Reads
    \/ p = "operations" /\ t \in Actions
    \/ p = "full"

\* KomodoMcp::permits, which dispatch asks, and available_tools, which the list is.
\* (Variant: the list forgets that there may be no administrative credentials.)
Permits(t) == InProfile(profile, t) /\ (admin \/ t \in Reads)
ListedByProfile == {t \in Tools : InProfile(profile, t)}
Listed == {t \in Tools : InProfile(IF admin THEN profile ELSE "read-only", t)}

-------------------------------------------------------------------------------
(* What is asked and what is sent *)

\* A call's own value stands for anything with content; Empty clears a field. An
\* empty secret in Core means that the shared token is inherited.
Requests(c, t) ==
    IF t \notin DOMAIN Sets THEN {<<>>}
    ELSE UNION {[F -> {v}] : F \in IF t \in Optional THEN SUBSET Sets[t] ELSE {Sets[t]},
                             v \in {c, Empty}}

Custom(c, t, a) == t = "webhook_secret_write" /\ a["webhook_secret"] = c

\* At least one field is set and no path is empty; a custom secret needs a
\* file with text in it. (Variant: an empty text will do.)
ValidEmptySecret(c, t, a) ==
    /\ t \in DOMAIN Sets => DOMAIN a # {}
    /\ \A f \in DOMAIN a \cap {"run_directory", "env_file_path"} : a[f] # Empty
    /\ Custom(c, t, a) => native /\ upload \in {"text", "empty"}
Valid(c, t, a) ==
    /\ t \in DOMAIN Sets => DOMAIN a # {}
    /\ \A f \in DOMAIN a \cap {"run_directory", "env_file_path"} : a[f] # Empty
    /\ Custom(c, t, a) => native /\ upload = "text"

\* StackConfigPatch: only what is set, with its value.
Patch(c, t, a) ==
    IF Custom(c, t, a) /\ upload = "empty" THEN [a EXCEPT !["webhook_secret"] = Empty]
    ELSE a

\* The tool that an uncertain answer names.
\* (Variant: the webhook's status for its secret.)
ReconcileWithStatus(t) ==
    CASE t = "config_patch" -> "config_read"
      [] t = "compose_write" -> "compose_read"
      [] t = "environment_write" -> "environment_read"
      [] t = "commands_write" -> "commands_read"
      [] t \in {"webhook_update", "webhook_secret_write"} -> "webhook_status"
      [] OTHER -> "operations_search"
ReconcileWith(t) ==
    CASE t = "config_patch" -> "config_read"
      [] t = "compose_write" -> "compose_read"
      [] t = "environment_write" -> "environment_read"
      [] t = "commands_write" -> "commands_read"
      [] t = "webhook_update" -> "webhook_status"
      [] t = "webhook_secret_write" -> "webhook_secret_read"
      [] OTHER -> "operations_search"

-------------------------------------------------------------------------------
(* The calls *)

Outcomes == {"refused", "applied", "failed", "unknown", "shown"}
Values == Calls \cup {Empty, "old", "custom"}
Accepted == {c \in Calls : copy[c] = "accepted"}

TypeOK ==
    /\ profile \in {"status", "read-only", "operations", "full"}
    /\ admin \in BOOLEAN /\ native \in BOOLEAN
    /\ upload \in {"text", "empty", "binary", "none"}
    /\ tool \in [Calls -> Tools]
    /\ pc \in [Calls -> {"idle", "resolving", "ready", "sent"} \cup Outcomes]
    /\ copy \in [Calls -> {"none", "flying", "accepted", "rejected", "lost"}]
    /\ config \in [Fields -> Calls \cup {Empty, "old"}]
    /\ looked \in [Calls -> SUBSET Calls]
    /\ \A c \in Calls :
        /\ DOMAIN ask[c] \subseteq Fields /\ DOMAIN patch[c] \subseteq Fields
        /\ \A f \in DOMAIN ask[c] : ask[c][f] \in {c, Empty}
        /\ \A f \in DOMAIN patch[c] : patch[c][f] \in {c, Empty}
        /\ \A f \in DOMAIN view[c].config : view[c].config[f] \in Values
        /\ view[c].operations \subseteq Calls
        /\ pc[c] \in {"sent", "applied", "failed", "unknown"} <=> copy[c] # "none"
        /\ pc[c] # "shown" => view[c] = [config |-> <<>>, operations |-> {}]
        /\ copy[c] # "none" /\ tool[c] \in DOMAIN Sets => DOMAIN patch[c] # {}

\* Only the operations and full profiles read administrative credentials.
Init ==
    /\ profile \in {"status", "read-only", "operations", "full"}
    /\ admin \in IF profile \in {"operations", "full"} THEN BOOLEAN ELSE {FALSE}
    /\ native \in BOOLEAN
    /\ upload \in IF native THEN {"text", "empty", "binary", "none"} ELSE {"none"}
    /\ tool = [c \in Calls |-> "operations_search"] /\ pc = [c \in Calls |-> "idle"]
    /\ ask = [c \in Calls |-> <<>>] /\ patch = [c \in Calls |-> <<>>]
    /\ copy = [c \in Calls |-> "none"]
    /\ config = [f \in Fields |-> "old"]
    /\ view = [c \in Calls |-> [config |-> <<>>, operations |-> {}]]
    /\ looked = [c \in Calls |-> {}]

\* Dispatch and validation, in one poll. A custom secret takes its file out of the
\* store, whatever is in it, before anything is known of the stack.
Begin(c) ==
    /\ pc[c] = "idle"
    /\ \E t \in Tools : \E a \in Requests(c, t) :
        /\ tool' = [tool EXCEPT ![c] = t]
        /\ ask' = [ask EXCEPT ![c] = a]
        /\ IF Permits(t) /\ Valid(c, t, a)
           THEN /\ pc' = [pc EXCEPT ![c] = IF t = "operations_search" THEN "ready"
                                           ELSE "resolving"]
                /\ patch' = [patch EXCEPT ![c] = Patch(c, t, a)]
           ELSE pc' = [pc EXCEPT ![c] = "refused"] /\ UNCHANGED patch
        /\ upload' = IF Permits(t) /\ native /\ Custom(c, t, a) THEN "none" ELSE upload
    /\ UNCHANGED <<process, config, copy, view, looked>>

\* The stack is found or not, by the read identity.
Resolve(c) ==
    /\ pc[c] = "resolving"
    /\ \E next \in {"ready", "refused"} : pc' = [pc EXCEPT ![c] = next]
    /\ UNCHANGED <<process, upload, config, tool, ask, patch, copy, view, looked>>

\* admin() and the post.
Submit(c) ==
    /\ pc[c] = "ready" /\ tool[c] \in Mutations
    /\ IF admin
       THEN pc' = [pc EXCEPT ![c] = "sent"] /\ copy' = [copy EXCEPT ![c] = "flying"]
       ELSE pc' = [pc EXCEPT ![c] = "refused"] /\ UNCHANGED copy
    /\ UNCHANGED <<process, upload, config, tool, ask, patch, view, looked>>

\* A read shows the literal secret only as a file, in the tool made for it.
Projected(t, f) ==
    IF f = "webhook_secret" /\ t # "webhook_secret_read"
    THEN IF config[f] = Empty THEN Empty ELSE "custom"
    ELSE config[f]

Look(c) ==
    /\ pc[c] = "ready" /\ tool[c] \in Reads
    /\ \/ pc' = [pc EXCEPT ![c] = "refused"] /\ UNCHANGED <<view, looked>>
       \/ /\ tool[c] = "webhook_secret_read" =>
                native \/ config["webhook_secret"] = Empty
          /\ pc' = [pc EXCEPT ![c] = "shown"]
          /\ view' = [view EXCEPT ![c] =
                [config |-> [f \in Shows[tool[c]] |-> Projected(tool[c], f)],
                 operations |-> IF tool[c] = "operations_search" THEN Accepted ELSE {}]]
          /\ looked' = [looked EXCEPT ![c] = Accepted]
    /\ UNCHANGED <<process, upload, config, tool, ask, patch, copy>>

\* A receipt, a refusal that is sure, or no answer that would settle it.
Finish(c) ==
    /\ pc[c] = "sent"
    /\ \E outcome \in {"applied", "failed", "unknown"} :
        /\ outcome = "applied" => copy[c] = "accepted"
        /\ outcome = "failed" => copy[c] = "rejected"
        /\ pc' = [pc EXCEPT ![c] = outcome]
    /\ UNCHANGED <<process, upload, config, tool, ask, patch, copy, view, looked>>

-------------------------------------------------------------------------------
(* Core *)

\* Core merges what a patch contains.
Settle(c) ==
    /\ copy[c] = "flying"
    /\ \/ /\ copy' = [copy EXCEPT ![c] = "accepted"]
          /\ config' = [f \in Fields |-> IF f \in DOMAIN patch[c] THEN patch[c][f]
                                         ELSE config[f]]
       \/ /\ \E fate \in {"rejected", "lost"} : copy' = [copy EXCEPT ![c] = fate]
          /\ UNCHANGED config
    /\ UNCHANGED <<process, upload, tool, ask, pc, patch, view, looked>>

Next == \E c \in Calls :
            Begin(c) \/ Resolve(c) \/ Submit(c) \/ Look(c) \/ Finish(c) \/ Settle(c)
Spec == Init /\ [][Next]_vars

-------------------------------------------------------------------------------
(* Correctness *)

\* The list and the dispatcher, which decide each for itself, agree on every tool,
\* and nothing that is not listed reaches Core's administrative side.
ToolsAsListed ==
    /\ \A t \in Tools : t \in Listed <=> Permits(t)
    /\ \A c \in Calls : copy[c] # "none" => tool[c] \in Listed \ Reads

\* A write changes the fields its caller set, to what the caller set, and no other,
\* however writes overlap; in particular a custom secret never becomes inheritance.
PartialUpdates ==
    [][\A c \in Calls : copy[c] = "flying" /\ copy'[c] = "accepted" =>
            \A f \in Fields :
                config'[f] = IF f \in DOMAIN ask[c] THEN ask[c][f] ELSE config[f]]_vars

\* What the named tool shows settles an uncertain write, if no other write came
\* between: it shows what was asked for exactly when the write had taken effect.
Evidence(w, shown) ==
    IF tool[w] \in DOMAIN Sets
    THEN \A f \in DOMAIN ask[w] : f \in DOMAIN shown.config /\ shown.config[f] = ask[w][f]
    ELSE w \in shown.operations

Reconcilable ==
    \A w \in Calls : pc[w] = "unknown" =>
        /\ ReconcileWith(tool[w]) \in Listed
        /\ \A r \in Calls :
            /\ pc[r] = "shown" /\ tool[r] = ReconcileWith(tool[w])
            /\ \A other \in Calls \ {w} : copy[other] # "accepted"
            => (Evidence(w, view[r]) <=> w \in looked[r])

===================================================================================
