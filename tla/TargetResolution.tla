--------------------------- MODULE TargetResolution ---------------------------
(***************************************************************************)
(* How a selector becomes the id that a tool acts on, and what Core then   *)
(* acts on: a direct query for a stable id, the version of Core unless it  *)
(* is remembered, the whole inventory of an older Core or name-sorted      *)
(* pages of a newer one, every read retried once, all of it under a time   *)
(* limit, and then one write, while other clients change the inventory     *)
(* between any two of these.                                               *)
(*                                                                         *)
(* A name is a number, its rank in Core's order by name.  What matters of  *)
(* it is whether it equals the selector but for case, or contains it.      *)
(***************************************************************************)
EXTENDS Naturals, FiniteSets

CONSTANTS
    Ids,         \* resource ids
    Names,       \* ranks of the names that occur
    Similar,     \* names that contain the selector
    Exact,       \* names equal to the selector, case aside
    PageSize,    \* PAGE_SIZE
    MaxPages,    \* MAX_SELECTOR_PAGES
    MaxChanges,  \* bound of the model: changes of the inventory
    Gone         \* the name of a resource that does not exist

ASSUME NamesNested ==
    Exact \subseteq Similar /\ Similar \subseteq Names /\ Names \subseteq Nat
ASSUME PagesPositive == {PageSize, MaxPages} \subseteq Nat \ {0}
ASSUME IdsFinite == IsFiniteSet(Ids)
ASSUME GoneIsNothing == Gone \notin Ids \cup Names

VARIABLES
    inventory,   \* inventory[i]: the name Core has for i, or Gone
    modern,      \* is Core at 2.3 or later?
    sel,         \* the id that the selector is, if it is one, else Gone
    pc,          \* the read under way, "chosen" or "done"
    attempts,    \* times it was posted
    page,        \* the page it asks for
    matches,     \* the exact matches kept so far, each with the page it was on
    result,      \* what the resolution came to
    affected,    \* the resource that Core acted on, or Gone
    posts,       \* requests sent in all (a history)
    matched,     \* ids the selector fitted at some time since it began (a history)
    unclear,     \* has it meant two names and no id all that time? (a history)
    changes      \* changes of the inventory since it began (a history)

coreVars == <<inventory, modern, sel>>
histories == <<posts, matched, unclear, changes>>
vars == <<coreVars, pc, attempts, page, matches, result, affected, histories>>

MaxAttempts == 2

NoResult == [kind |-> "none", id |-> Gone]
Fail(kind) == [kind |-> kind, id |-> Gone]
Chosen(i) == [kind |-> "chosen", id |-> i]

-------------------------------------------------------------------------------
(* What a selector means *)

Present == {i \in Ids : inventory[i] # Gone}
NameMatches == {i \in Ids : inventory[i] \in Exact}

\* The resources the selector means in an inventory: the one with that id, or
\* else all those with that name.
Meant == IF sel \in Present THEN {sel} ELSE NameMatches

\* The resources it fits, by either.
Fitting == (Present \cap {sel}) \cup NameMatches

\* Those of a set that come before i in Core's order by name.
Preceding(i, S) == {j \in S : inventory[j] < inventory[i]}

\* The p-th page of Core's answer: of the resources whose names contain the
\* selector, those that so many of them precede.
Containing == {i \in Ids : inventory[i] \in Similar}
Page(p) ==
    {i \in Containing :
        Cardinality(Preceding(i, Containing)) \in p * PageSize..(p + 1) * PageSize - 1}

\* An item of an answer: a resource may be on two pages if the inventory moves.
Items(p, S) == {[page |-> p, id |-> i] : i \in S}

\* `select` among the items of an answer, `named` being those of them whose names,
\* as they were read, equal the selector: the item with that id, else the only
\* one with that name.
\* (Variant: the items are taken for what was asked for.)
SelectUnfiltered(items, named) ==
    IF \E x \in items : x.id = sel THEN Chosen(sel)
    ELSE IF items = {} THEN Fail("notFound")
    ELSE IF Cardinality(items) = 1 THEN Chosen((CHOOSE x \in items : TRUE).id)
    ELSE Fail("ambiguous")
Select(items, named) ==
    IF \E x \in items : x.id = sel THEN Chosen(sel)
    ELSE IF named = {} THEN Fail("notFound")
    ELSE IF Cardinality(named) = 1 THEN Chosen((CHOOSE x \in named : TRUE).id)
    ELSE Fail("ambiguous")

-------------------------------------------------------------------------------
(* The reads *)

Init ==
    /\ inventory \in [Ids -> Names \cup {Gone}]
    /\ \A i, j \in Present : i # j => inventory[i] # inventory[j]
    /\ modern \in BOOLEAN
    /\ sel \in Ids \cup {Gone}
    /\ pc = IF sel = Gone THEN "version" ELSE "id"
    /\ attempts = 1 /\ page = 0 /\ matches = {} /\ result = NoResult /\ affected = Gone
    /\ posts = 1 /\ changes = 0
    /\ matched = Fitting /\ unclear = (Cardinality(Meant) > 1)

\* The next read is posted.
Post(read) ==
    /\ pc' = read
    /\ attempts' = 1
    /\ posts' = posts + 1
    /\ UNCHANGED <<coreVars, result, affected, matched, unclear, changes>>

Finish(r) ==
    /\ pc' = IF r.kind = "chosen" THEN "chosen" ELSE "done"
    /\ result' = r
    /\ UNCHANGED <<coreVars, attempts, page, matches, affected, histories>>

Resolving == pc \notin {"chosen", "done"}

\* The read failed with e.  A failure to connect or to hear in time, and every
\* 5xx, is worth one more attempt; other failures are not.
\* (Variant: the second attempt is treated like the first.)
Failures == {"Unavailable", "server", "other"}
MayRetryForever(e) == e \in {"Unavailable", "server"}
MayRetry(e) == e \in {"Unavailable", "server"} /\ attempts < MaxAttempts
ReadFailed(e) ==
    /\ Resolving
    /\ IF MayRetry(e)
       THEN /\ attempts' = IF attempts < MaxAttempts THEN attempts + 1 ELSE attempts
            /\ posts' = posts + 1
            /\ UNCHANGED <<coreVars, pc, page, matches, result, affected, matched,
                           unclear, changes>>
       ELSE Finish(Fail("failed"))

\* The direct query finds the id, or the selector is tried as a name.
IdAnswered ==
    /\ pc = "id"
    /\ IF sel \in Present
       THEN Finish(Chosen(sel))
       ELSE Post("version") /\ UNCHANGED <<page, matches>>

VersionAnswered ==
    /\ pc = "version"
    /\ Post(IF modern THEN "page" ELSE "list")
    /\ UNCHANGED <<page, matches>>

\* The version may be remembered, and then it is not asked for.
VersionKnown ==
    /\ pc = "version" /\ attempts = 1
    /\ pc' = IF modern THEN "page" ELSE "list"
    /\ UNCHANGED <<coreVars, attempts, page, matches, result, affected, histories>>

\* An older Core lists everything.
ListAnswered ==
    /\ pc = "list"
    /\ Finish(Select(Items(0, Present), Items(0, NameMatches)))

\* The exact matches among a page's items are kept in their order until there are
\* two, which ends the search; so does a page that is not full.
\* (Variant: the first match is good enough.)
Kept(p) ==
    LET exact == Page(p) \cap NameMatches
    IN  {i \in exact : Cardinality(matches) + Cardinality(Preceding(i, exact)) < 2}
EnoughAtOne(ms) == Cardinality(ms) >= 1
Enough(ms) == Cardinality(ms) >= 2
LastPage(p) == p + 1 = MaxPages
PageAnswered ==
    /\ pc = "page"
    /\ LET found == matches \cup Items(page, Kept(page))
       IN  IF Enough(found) \/ Cardinality(Page(page)) < PageSize
           THEN Finish(Select(found, found))
           ELSE IF LastPage(page)
           THEN Finish(Fail("tooBroad"))
           ELSE /\ Post("page")
                /\ page' = page + 1
                /\ matches' = found

\* Thirty seconds are over.
TimeUp ==
    /\ Resolving
    /\ Finish(Fail("tooBroad"))

-------------------------------------------------------------------------------
(* The write *)

\* What Core finds under what the post names, if it still has it.
\* (Variant: the post names the selector, which Core resolves again.)
AddressedBySelector == Meant
Addressed == {result.id} \cap Present

\* admin() may refuse, and the one post may be lost or fail.
Submit ==
    /\ pc = "chosen"
    /\ pc' = "done"
    /\ \/ UNCHANGED affected
       \/ \E i \in Addressed : affected' = i
    /\ UNCHANGED <<coreVars, attempts, page, matches, result, histories>>

-------------------------------------------------------------------------------
(* Other clients of Core *)

\* Resource i gets name n, is created with it, or is deleted.
Change(i, n) ==
    /\ pc # "done"
    /\ changes < MaxChanges
    /\ n # inventory[i]
    /\ n # Gone => \A j \in Ids : inventory[j] # n
    /\ inventory' = [inventory EXCEPT ![i] = n]
    /\ changes' = changes + 1
    /\ UNCHANGED <<modern, sel, pc, attempts, page, matches, result, affected, posts>>
    /\ IF Resolving
       THEN /\ matched' = matched \cup Fitting'
            /\ unclear' = (unclear /\ Cardinality(Meant') > 1)
       ELSE UNCHANGED <<matched, unclear>>

Next ==
    \/ \E e \in Failures : ReadFailed(e)
    \/ IdAnswered \/ VersionAnswered \/ VersionKnown \/ ListAnswered \/ PageAnswered
    \/ TimeUp \/ Submit
    \/ \E i \in Ids, n \in Names \cup {Gone} : Change(i, n)

Spec == Init /\ [][Next]_vars

-------------------------------------------------------------------------------
(* Correctness *)

\* What is chosen fitted the selector at some time while it was being
\* resolved: no substring match, no neighbour on a page, whatever path was taken
\* and however the inventory moved under it (select, inventory_inner).
SoundChoice == result.kind = "chosen" => result.id \in matched

\* In an inventory that stays as it is, every path agrees with the definition of
\* what a selector means, short of a failure or of giving the search up.
Reference ==
    IF Meant = {} THEN Fail("notFound")
    ELSE IF Cardinality(Meant) > 1 THEN Fail("ambiguous")
    ELSE Chosen(CHOOSE i \in Meant : TRUE)
RightWhenQuiet ==
    pc = "done" /\ changes = 0 =>
        result \in {Reference, Fail("failed"), Fail("tooBroad")}

\* Core acts on the resource that the answer names, and that one fitted while the
\* selector was being resolved, whatever was renamed, created under its name or
\* deleted before the write arrived (mutate).
ActsOnTarget ==
    affected # Gone => affected = result.id /\ affected \in matched

\* A resolution sends a bounded number of requests, retries included: the id and
\* the version, and then one list or MAX_SELECTOR_PAGES pages.
ReadsBounded == posts <= MaxAttempts * (2 + MaxPages)

\* A selector that means several resources by name all the time it is being
\* resolved is refused: what docs/tool-surface.md:138-142 says.
FailsOnAmbiguity == result.kind = "chosen" => ~unclear

===============================================================================
