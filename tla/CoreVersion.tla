-------------------------------- MODULE CoreVersion --------------------------------
(***************************************************************************)
(* Which form of request a client of Core uses. Core renamed its network   *)
(* reads and began to page its inventories with one release, so a read     *)
(* asks for Core's version first. The answer is kept for a while and       *)
(* shared by all reads, behind a mutex that is held while Core is asked.   *)
(* Meanwhile Core may be replaced by another release, back and forth.      *)
(*                                                                         *)
(* A tick is thirty seconds. Time is kept as what is left of each span.    *)
(***************************************************************************)
EXTENDS Naturals, Sequences

CONSTANTS
    Askers,       \* reads under way at a time
    VersionTTL,   \* CORE_VERSION_CACHE_TTL
    AttemptTime,  \* the client's timeout for one attempt
    ReuseTime     \* how long after its look at the version a read may send another request

ASSUME SpansPositive == {VersionTTL, AttemptTime, ReuseTime} \subseteq Nat \ {0}

VARIABLES
    release,      \* what Core is: before 2.3, or later
    cached,       \* the form that is remembered, and what is left of its life
    line,         \* reads at the mutex, the first one holding it
    asker,        \* asker[a]: where read a is
    since         \* since[f]: ticks since Core last understood form f (a history)

versionVars == <<release, cached, line, asker, since>>

Forms == {"legacy", "current"}

\* What the text of a version comes to: a form, or nothing that can be read.
Texts == Forms \cup {"unreadable"}

\* Waiting for the mutex, asking Core for the attempt-th time, having its answer on
\* the way, using a form, idle.
Blocked == {"waiting", "asking", "answered"}
Idle == [st |-> "idle", form |-> "none", attempt |-> 0, left |-> 0]

VersionInit ==
    /\ release \in Forms
    /\ cached = [form |-> "none", left |-> 0]
    /\ line = <<>>
    /\ asker = [a \in Askers |-> Idle]
    /\ since = [f \in Forms |-> IF f = release THEN 0
                                ELSE VersionTTL + AttemptTime + ReuseTime]

\* Nobody asks.
NobodyAsks ==
    /\ release = "current" /\ cached = [form |-> "none", left |-> 0] /\ line = <<>>
    /\ asker = [a \in Askers |-> Idle] /\ since = [f \in Forms |-> 0]

-------------------------------------------------------------------------------
(* One read *)

Holds(a) == line # <<>> /\ Head(line) = a
Fresh == cached.left > 0

Leave(a) == line' = SelectSeq(line, LAMBDA b : b # a)
Ends(a) == asker' = [asker EXCEPT ![a] = Idle]

\* A read of networks or of an inventory needs the version.
Want(a) ==
    /\ asker[a].st = "idle"
    /\ asker' = [asker EXCEPT ![a].st = "waiting"]
    /\ line' = Append(line, a)
    /\ UNCHANGED <<release, cached, since>>

\* It sends its first request in that form with the same poll; the retry of it and
\* the pages of a selector follow.
Uses(a, form) ==
    asker' = [asker EXCEPT ![a] = [st |-> "using", form |-> form, attempt |-> 0,
                                   left |-> ReuseTime]]

\* The version is remembered. (Variant: and for as long again.)
RecallRenewing(a) ==
    /\ asker[a].st = "waiting" /\ Holds(a) /\ Fresh
    /\ Uses(a, cached.form) /\ Leave(a)
    /\ cached' = [cached EXCEPT !.left = VersionTTL]
    /\ UNCHANGED <<release, since>>
Recall(a) ==
    /\ asker[a].st = "waiting" /\ Holds(a) /\ Fresh
    /\ Uses(a, cached.form) /\ Leave(a)
    /\ UNCHANGED <<release, cached, since>>

\* It is not, or no longer: Core is asked, and the mutex held.
Attempt(a, n) ==
    asker' = [asker EXCEPT ![a] = [st |-> "asking", form |-> "none", attempt |-> n,
                                   left |-> AttemptTime]]
Consult(a) ==
    /\ asker[a].st = "waiting" /\ Holds(a) /\ ~Fresh
    /\ Attempt(a, 1)
    /\ UNCHANGED <<release, cached, line, since>>

\* Core says which release it is at that moment.
Serve(a) ==
    /\ asker[a].st = "asking"
    /\ \E text \in {release, "unreadable"} :
        asker' = [asker EXCEPT ![a].st = "answered", ![a].form = text]
    /\ UNCHANGED <<release, cached, line, since>>

\* The answer is there. What cannot be read is an error, and is not remembered.
Learn(a) ==
    /\ asker[a].st = "answered"
    /\ Leave(a)
    /\ IF asker[a].form \in Forms
       THEN /\ Uses(a, asker[a].form)
            /\ cached' = [form |-> asker[a].form, left |-> VersionTTL]
       ELSE Ends(a) /\ UNCHANGED cached
    /\ UNCHANGED <<release, since>>

\* One attempt fails. A lost connection, an answer that is late or a 5xx is worth
\* another attempt; any other failure, or the second, ends the read.
Lose(a, again) ==
    /\ asker[a].st \in {"asking", "answered"}
    /\ IF again /\ asker[a].attempt = 1
       THEN Attempt(a, 2) /\ UNCHANGED line
       ELSE Ends(a) /\ Leave(a)
    /\ UNCHANGED <<release, cached, since>>

\* A read has sent its last request, or it is dropped at an await, and the mutex with it.
Abandon(a) ==
    /\ asker[a].st # "idle"
    /\ Ends(a) /\ Leave(a)
    /\ UNCHANGED <<release, cached, since>>

\* A timer fires. (Variant: an attempt may take as long as it takes.)
TimeOutUses(a) ==
    asker[a].left = 0 /\ asker[a].st = "using" /\ Abandon(a)
TimeOut(a) ==
    /\ asker[a].left = 0
    /\ \/ Lose(a, TRUE)
       \/ asker[a].st = "using" /\ Abandon(a)

-------------------------------------------------------------------------------
(* Core, and time *)

Replace ==
    /\ \E f \in Forms \ {release} : release' = f
    /\ since' = [since EXCEPT ![release'] = 0]
    /\ UNCHANGED <<cached, line, asker>>

\* What is due happens before the next tick: an attempt ends at its timeout, and a
\* selector with its thirty seconds.
Less(n) == IF n = 0 THEN 0 ELSE n - 1
Elapse ==
    /\ \A a \in Askers : asker[a].st \in {"asking", "answered", "using"} => asker[a].left > 0
    /\ cached' = [cached EXCEPT !.left = Less(cached.left)]
    /\ asker' = [a \in Askers |-> [asker[a] EXCEPT !.left = Less(asker[a].left)]]
    /\ since' = [f \in Forms |->
                    IF f = release THEN 0
                    ELSE IF since[f] < VersionTTL + AttemptTime + ReuseTime
                    THEN since[f] + 1 ELSE since[f]]
    /\ UNCHANGED <<release, line>>

VersionNext ==
    \/ \E a \in Askers :
        \/ Want(a) \/ Recall(a) \/ Consult(a) \/ Serve(a) \/ Learn(a)
        \/ Lose(a, TRUE) \/ Lose(a, FALSE) \/ TimeOut(a) \/ Abandon(a)
    \/ Replace \/ Elapse

VersionSpec == VersionInit /\ [][VersionNext]_versionVars

\* The mutex goes to the next in line, timers fire and time passes. Core need not
\* answer, and nobody need ask.
Progress(a) == Recall(a) \/ Consult(a) \/ Learn(a) \/ TimeOut(a)

-------------------------------------------------------------------------------
(* Correctness *)

\* A form that is sent fits a release that Core was within the life of a remembered
\* answer, the time it took to come and the time it is used for, whoever asked, however
\* often it was used since and whatever Core was replaced by (core_2_3_or_later).
FormFits ==
    \A a \in Askers :
        asker[a].st = "using" =>
            since[asker[a].form] < VersionTTL + AttemptTime + ReuseTime

=====================================================================================
