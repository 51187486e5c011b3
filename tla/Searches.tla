--------------------------------- MODULE Searches ---------------------------------
(***************************************************************************)
(* A client walks through everything a search finds, by the continuations  *)
(* of its answers: the next offset within what Core answered, and after    *)
(* that Core's next page, while others change what there is.               *)
(*                                                                         *)
(* Four kinds of tools differ in what Core answers and what is offered:    *)
(*   resources    pages of 2.3 or later, or all at once from an older Core *)
(*   operations   pages, the newest operation first                        *)
(*   networks     the networks of a server, all at once                    *)
(*   collection   a list of a stack or an operation, all at once           *)
(***************************************************************************)
EXTENDS Integers, Sequences, SequencesExt, FiniteSetsExt, TLC

CONSTANTS
    Items,        \* ids, which are ordered
    Names,        \* what there is of names in lower case, ordered
    Limits,       \* limits a caller may ask for
    PageSize,     \* PAGE_SIZE, of Core's pages
    MaxOffset,    \* MAX_OFFSET
    MaxWindow,    \* MAX_COLLECTION_OFFSET
    MaxChanges    \* bound: changes by others during a walk

\* A response of bounded size holds no more records than a window may start at.
ASSUME SearchNumbers ==
    /\ Items \subseteq Int /\ Names \subseteq Int /\ Limits \subseteq Nat
    /\ PageSize \in Nat \ {0} /\ {MaxOffset, MaxWindow, MaxChanges} \subseteq Nat
    /\ IsFiniteSet(Items) /\ Cardinality(Items) <= MaxWindow

VARIABLES
    tool, modern, limit,   \* which search, of which Core, with which limit
    name,                  \* name[i] in lower case, by which resources are sorted
    hits,                  \* items that match the query
    listing,               \* what there is, in Core's order
    page, offset, pc,      \* the walk
    seen,                  \* how often an item was in an answer
    cut,                   \* an answer said that it was truncated
    changes                \* changes so far

question == <<tool, modern, limit, name, hits>>
vars == <<question, listing, page, offset, pc, seen, cut, changes>>

Tools == {"resources", "operations", "networks", "collection"}
None == -1
OffsetLimit == IF tool \in {"resources", "operations"} THEN MaxOffset ELSE MaxWindow

Init ==
    /\ tool \in Tools /\ limit \in Limits
    /\ modern \in IF tool = "resources" THEN BOOLEAN ELSE {TRUE}
    /\ name \in IF tool \in {"resources", "networks"} THEN [Items -> Names]
                ELSE [Items -> {Min(Names)}]
    /\ hits \in SUBSET Items /\ (tool = "collection" => hits = Items)
    /\ \E present \in SUBSET Items : listing \in SetToSeqs(present)
    /\ page = 0 /\ offset = 0 /\ pc = "walking"
    /\ seen = [i \in Items |-> 0] /\ cut = FALSE /\ changes = 0

-------------------------------------------------------------------------------
(* Core's answers *)

Paged == tool = "operations" \/ (tool = "resources" /\ modern)

OnPage ==
    SubSeq(listing, page * PageSize + 1,
           Min({(page + 1) * PageSize, Len(listing)}))

\* Pages and collections have Core's order; what is answered all at once comes in
\* any order.
Answers ==
    CASE Paged -> {OnPage}
      [] tool = "collection" -> {listing}
      [] OTHER -> SetToSeqs(ToSet(listing))

\* The items that match the query.
Found(answer) == hits \cap ToSet(answer)

\* A full page has a next one. An older Core has no pages.
\* (Variant: no local match, no next page.)
MorePagesMatching(answer) == Paged /\ Len(answer) = PageSize /\ Found(answer) # {}
MorePages(answer) == Paged /\ Len(answer) = PageSize

-------------------------------------------------------------------------------
(* The local search *)

\* (Variant: equal names are left in Core's order.)
BeforeByName(i, j) == name[i] < name[j]
Before(i, j) == name[i] < name[j] \/ (name[i] = name[j] /\ i < j)

\* The sort is stable; operations and collections keep Core's order.
Sorted == tool \in {"resources", "networks"}
Earlier(answer, i, j) ==
    \E k, l \in DOMAIN answer : k < l /\ answer[k] = i /\ answer[l] = j
Precedes(answer, i, j) ==
    \/ Sorted /\ Before(i, j)
    \/ Earlier(answer, i, j) /\ ~(Sorted /\ Before(j, i))
Place(answer, i) == Cardinality({j \in Found(answer) : Precedes(answer, j, i)})

\* skip(offset).take(limit).
Shown(answer) == {i \in Found(answer) : Place(answer, i) \in offset..offset + limit - 1}
Consumed(answer) == offset + Cardinality(Shown(answer))
Exhausted(answer) == Consumed(answer) >= Cardinality(Found(answer))

NextOffset(answer) ==
    IF ~Exhausted(answer) /\ Consumed(answer) <= OffsetLimit THEN Consumed(answer) ELSE None
Truncated(answer) == ~Exhausted(answer) /\ NextOffset(answer) = None

\* A page of operations that is not exhausted advertises no next page.
NextPage(answer) == MorePages(answer) /\ (tool = "operations" => Exhausted(answer))

\* (Variant: every limit will do.)
AcceptsAnyLimit ==
    /\ offset <= OffsetLimit
    /\ page > 0 => Paged
Accepts ==
    /\ limit > 0 /\ offset <= OffsetLimit
    /\ page > 0 => Paged

-------------------------------------------------------------------------------
(* The walk *)

\* The client follows the next offset, and without one the next page from its
\* beginning, as docs/tool-surface.md:51-61 tells it to.
Call ==
    /\ pc = "walking" /\ Accepts
    /\ \E answer \in Answers :
        LET next == NextOffset(answer)
        IN /\ seen' = [i \in Items |-> IF i \in Shown(answer) THEN seen[i] + 1 ELSE seen[i]]
           /\ cut' = (cut \/ Truncated(answer))
           /\ IF next # None
              THEN offset' = next /\ UNCHANGED <<page, pc>>
              ELSE IF NextPage(answer)
              THEN page' = page + 1 /\ offset' = 0 /\ UNCHANGED pc
              ELSE pc' = "ended" /\ UNCHANGED <<page, offset>>
    /\ UNCHANGED <<question, listing, changes>>

Refuse ==
    /\ pc = "walking" /\ ~Accepts
    /\ pc' = "refused"
    /\ UNCHANGED <<question, listing, page, offset, seen, cut, changes>>

\* Operations only begin; anything else comes and goes. What a name and a query make
\* of an item stays, so one that is renamed is gone and another has come.
Change ==
    /\ pc = "walking" /\ changes < MaxChanges
    /\ changes' = changes + 1
    /\ \/ \E i \in Items \ ToSet(listing), k \in 1..Len(listing) + 1 :
            /\ tool = "operations" => k = 1
            /\ listing' = InsertAt(listing, k, i)
       \/ \E k \in DOMAIN listing :
            /\ tool # "operations"
            /\ listing' = RemoveAt(listing, k)
    /\ UNCHANGED <<question, page, offset, pc, seen, cut>>

Next == Call \/ Refuse \/ Change

-------------------------------------------------------------------------------
(* Correctness *)

\* If nothing changes meanwhile, a walk shows every match once and nothing else;
\* truncated is said exactly when some were left out, of one page or by stopping.
WalkIsExact ==
    pc = "ended" /\ changes = 0 =>
        LET wanted == hits \cap ToSet(listing)
        IN /\ \A i \in Items : seen[i] <= IF i \in wanted THEN 1 ELSE 0
           /\ cut <=> \E i \in wanted : seen[i] = 0

\* Whatever arrives during a walk through the operations, none that was there when
\* it began is passed over, be it on a page boundary or between two offsets.
NoOperationMissed ==
    tool = "operations" /\ pc = "ended" /\ ~cut =>
        \A k \in changes + 1..Len(listing) :
            listing[k] \in hits => seen[listing[k]] > 0

\* A walk comes to an end: no continuation leads back to where it came from, and
\* none that was advertised is refused, whatever has changed.
WalkEnds == <>(pc = "ended" \/ (pc = "refused" /\ limit = 0))

===============================================================================
