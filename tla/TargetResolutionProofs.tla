--------------------------- MODULE TargetResolutionProofs ---------------------------
(***************************************************************************)
(* For any inventory, names, page size and number of changes: what is      *)
(* chosen fitted the selector, Core acts on it or on nothing, an inventory *)
(* that stays as it is is resolved as defined, and the requests are        *)
(* bounded, whatever fails.                                                *)
(*                                                                         *)
(* What was kept of an inventory that stays as it is are the exact matches *)
(* on the pages read, up to two of them; and once a page is not full there *)
(* is nothing behind it, as the resources that match are counted through.  *)
(* An inventory that moves can hide an ambiguity only behind a turned page.*)
(***************************************************************************)
EXTENDS TargetResolution, FiniteSetTheorems, TLAPS

\* Reads that are over when the present one is posted, at most.
Before == CASE pc = "id" -> 0 [] pc = "version" -> 1 [] pc = "list" -> 2
            [] OTHER -> 2 + page

\* The present read has been posted attempts times, those before it twice at most;
\* and only a search by pages turns pages.
ReadsInv ==
    /\ pc \in {"id", "version", "list", "page", "chosen", "done"}
    /\ posts \in Nat /\ attempts \in 1..MaxAttempts /\ page \in 0..MaxPages - 1
    /\ pc \in {"id", "version", "list"} => page = 0
    /\ IF Resolving THEN posts <= 2 * Before + attempts
                    ELSE posts <= 2 * (2 + MaxPages)

LEMMA Pages == MaxPages \in Nat /\ MaxPages > 0 /\ MaxAttempts = 2
BY PagesPositive DEF MaxAttempts

\* A read that ends leaves the resolution within its bound.
LEMMA EndWithin ==
    ASSUME ReadsInv, Resolving, NEW r, Finish(r)
    PROVE  ReadsInv'
<1>1. /\ pc' \in {"chosen", "done"} /\ UNCHANGED <<posts, attempts, page>>
  BY DEF Finish, histories
<1>2. Before <= 1 + MaxPages
  BY Pages DEF ReadsInv, Before, Resolving
<1>3. Before \in Nat
  BY Pages DEF ReadsInv, Before, Resolving
<1>4. posts <= 2 * (2 + MaxPages)
  BY <1>2, <1>3, Pages DEF ReadsInv
<1> QED BY <1>1, <1>4, Pages DEF ReadsInv, Resolving

\* A next read is posted, one further on than the present one.
LEMMA NextWithin ==
    ASSUME ReadsInv, Resolving, pc' \in {"version", "list", "page"},
           attempts' = 1, posts' = posts + 1, page' \in 0..MaxPages - 1,
           pc' \in {"version", "list"} => page' = 0,
           Before' >= Before + 1
    PROVE  ReadsInv'
<1>1. Before \in Nat /\ Before' \in Nat
  BY Pages DEF ReadsInv, Before, Resolving
<1>2. posts' \in Nat /\ posts' <= 2 * Before' + attempts'
  <2>1. PICK b \in Nat, c \in Nat : b = Before /\ c = Before' /\ c >= b + 1
    BY <1>1
  <2>2. PICK n \in Nat, a \in {1, 2} : n = posts /\ a = attempts /\ n <= 2 * b + a
    BY <2>1, Pages DEF ReadsInv
  <2>3. n + 1 <= 2 * (b + 1) + 1
    BY <2>2
  <2>4. b + 1 <= c
    BY <2>1
  <2>5. n + 1 <= 2 * c + 1
    BY <2>3, <2>4
  <2>6. posts + 1 = n + 1 /\ n + 1 \in Nat
    BY <2>2
  <2> QED BY <2>1, <2>5, <2>6
<1> QED BY <1>2, Pages DEF ReadsInv, Resolving

LEMMA FailedWithin ==
    ASSUME ReadsInv, NEW e \in Failures, ReadFailed(e)
    PROVE  ReadsInv'
<1>1. CASE MayRetry(e)
  <2>1. /\ attempts < MaxAttempts /\ attempts' = attempts + 1 /\ posts' = posts + 1
        /\ UNCHANGED <<pc, page>> /\ Resolving
    BY <1>1 DEF ReadFailed, MayRetry
  <2>2. Before' = Before /\ Before \in Nat
    BY <2>1, Pages DEF ReadsInv, Before
  <2> QED BY <2>1, <2>2, Pages DEF ReadsInv, Resolving
<1>2. CASE ~MayRetry(e)
  BY <1>2, EndWithin DEF ReadFailed
<1> QED BY <1>1, <1>2

\* Another client's change is no business of the resolution.
LEMMA OthersWithin ==
    ASSUME ReadsInv, UNCHANGED <<pc, attempts, page, posts>>
    PROVE  ReadsInv'
BY DEF ReadsInv, Resolving, Before

LEMMA StepWithin == ReadsInv /\ [Next]_vars => ReadsInv'
<1> SUFFICES ASSUME ReadsInv, [Next]_vars PROVE ReadsInv'
  OBVIOUS
<1>1. CASE \E e \in Failures : ReadFailed(e)
  BY <1>1, FailedWithin
<1>2. CASE IdAnswered
  <2>1. CASE sel \in Present
    BY <1>2, <2>1, EndWithin DEF IdAnswered, Resolving
  <2>2. CASE sel \notin Present
    <3>1. /\ pc = "id" /\ pc' = "version" /\ attempts' = 1 /\ posts' = posts + 1
          /\ page' = page
      BY <1>2, <2>2 DEF IdAnswered, Post
    <3>2. Before = 0 /\ Before' = 1
      BY <3>1 DEF Before
    <3> QED BY <3>1, <3>2, NextWithin DEF ReadsInv, Resolving
  <2> QED BY <2>1, <2>2
<1>3. CASE VersionAnswered
  <2>1. /\ pc = "version" /\ pc' \in {"page", "list"} /\ attempts' = 1
        /\ posts' = posts + 1 /\ page' = page /\ page = 0
    BY <1>3 DEF VersionAnswered, Post, ReadsInv
  <2>2. Before = 1 /\ Before' = 2
    BY <2>1 DEF Before
  <2> QED BY <2>1, <2>2, NextWithin DEF ReadsInv, Resolving
<1>4. CASE VersionKnown
  <2>1. /\ pc = "version" /\ attempts = 1 /\ pc' \in {"page", "list"} /\ page = 0
        /\ UNCHANGED <<attempts, page, posts>>
    BY <1>4 DEF VersionKnown, ReadsInv, histories
  <2>2. Before = 1 /\ Before' = 2
    BY <2>1 DEF Before
  <2> QED BY <2>1, <2>2, Pages DEF ReadsInv, Resolving
<1>5. CASE ListAnswered
  <2>1. PICK r : Finish(r)
    BY <1>5 DEF ListAnswered
  <2> QED BY <1>5, <2>1, EndWithin DEF ListAnswered, Resolving
<1>6. CASE PageAnswered
  <2> DEFINE found == matches \cup Items(page, Kept(page))
  <2>1. CASE Enough(found) \/ Cardinality(Page(page)) < PageSize
    <3>1. PICK r : Finish(r)
      BY <1>6, <2>1 DEF PageAnswered
    <3> QED BY <1>6, <3>1, EndWithin DEF PageAnswered, Resolving
  <2>2. CASE LastPage(page) /\ ~(Enough(found) \/ Cardinality(Page(page)) < PageSize)
    BY <1>6, <2>2, EndWithin DEF PageAnswered, Resolving
  <2>3. CASE ~LastPage(page) /\ ~(Enough(found) \/ Cardinality(Page(page)) < PageSize)
    <3>1. /\ pc = "page" /\ pc' = "page" /\ attempts' = 1 /\ posts' = posts + 1
          /\ page' = page + 1 /\ page + 1 # MaxPages
      BY <1>6, <2>3 DEF PageAnswered, Post, LastPage
    <3>2. page' \in 0..MaxPages - 1 /\ Before = 2 + page /\ Before' = 3 + page
      BY <3>1, Pages DEF ReadsInv, Before
    <3> QED BY <3>1, <3>2, Pages, NextWithin DEF ReadsInv, Resolving
  <2> QED BY <2>1, <2>2, <2>3
<1>7. CASE TimeUp
  BY <1>7, EndWithin DEF TimeUp
<1>8. CASE Submit
  BY <1>8 DEF Submit, ReadsInv, Resolving, histories
<1>9. CASE \E i \in Ids, n \in Names \cup {Gone} : Change(i, n)
  BY <1>9, OthersWithin DEF Change
<1>10. CASE UNCHANGED vars
  BY <1>10, OthersWithin DEF vars, histories
<1> QED BY <1>1, <1>2, <1>3, <1>4, <1>5, <1>6, <1>7, <1>8, <1>9, <1>10 DEF Next

\* No resolution sends more than its id query, its version query and its pages, each
\* with one repetition.
THEOREM RequestsBounded == Spec => []ReadsBounded
<1>1. Init => ReadsInv
  BY Pages DEF Init, ReadsInv, Before, Resolving
<1>2. ReadsInv => ReadsBounded
  <2> SUFFICES ASSUME ReadsInv PROVE posts <= MaxAttempts * (2 + MaxPages)
    BY DEF ReadsBounded
  <2>1. CASE Resolving
    <3>1. Before \in Nat /\ Before <= 1 + MaxPages
      BY <2>1, Pages DEF ReadsInv, Before, Resolving
    <3> QED BY <2>1, <3>1, Pages DEF ReadsInv
  <2>2. CASE ~Resolving
    BY <2>2, Pages DEF ReadsInv
  <2> QED BY <2>1, <2>2
<1> QED BY <1>1, <1>2, StepWithin, PTL DEF Spec

-------------------------------------------------------------------------------
(* What is chosen *)

\* While a selector is being resolved, whatever fits it counts as matched; the exact
\* matches kept fitted it when they were read; what is chosen, and what Core acted
\* on, fitted it then.
ChoiceInv ==
    /\ Resolving => Fitting \subseteq matched /\ affected = Gone
    /\ \A x \in matches : x.id \in matched
    /\ result.kind = "chosen" => result.id \in matched
    /\ pc = "chosen" => result.kind = "chosen" /\ affected = Gone
    /\ affected # Gone => affected = result.id /\ affected \in matched

\* A selection takes the item with that id or one of those with that name.
LEMMA SelectIn ==
    ASSUME NEW items, NEW named, Select(items, named).kind = "chosen"
    PROVE  \/ Select(items, named).id = sel /\ \E x \in items : x.id = sel
           \/ \E x \in named : Select(items, named).id = x.id
<1>1. CASE \E x \in items : x.id = sel
  BY <1>1 DEF Select, Chosen
<1>2. CASE named # {} /\ ~(\E x \in items : x.id = sel) /\ Cardinality(named) = 1
  <2>1. PICK y : y = CHOOSE x \in named : TRUE
    OBVIOUS
  <2>2. y \in named
    BY <1>2, <2>1
  <2>3. Select(items, named) = Chosen(y.id)
    BY <1>2, <2>1 DEF Select
  <2> QED BY <2>2, <2>3 DEF Chosen
<1> QED BY <1>1, <1>2 DEF Select, Fail

LEMMA ItemIds ==
    ASSUME NEW p, NEW S
    PROVE  /\ \A x \in Items(p, S) : x.id \in S /\ x = [page |-> p, id |-> x.id]
           /\ \A i \in S : [page |-> p, id |-> i] \in Items(p, S)
BY DEF Items

\* The resolution ends with r.
LEMMA EndChooses ==
    ASSUME ChoiceInv, Resolving, NEW r, Finish(r), r.kind = "chosen" => r.id \in matched
    PROVE  ChoiceInv'
<1>1. /\ pc' = (IF r.kind = "chosen" THEN "chosen" ELSE "done") /\ result' = r
      /\ UNCHANGED <<matches, affected, matched>>
  BY DEF Finish, histories
<1> QED BY <1>1 DEF ChoiceInv, Resolving

\* The resolution goes on, and Core's resources stay as they are.
LEMMA OnChooses ==
    ASSUME ChoiceInv, Resolving, Resolving', UNCHANGED <<coreVars, result, affected, matched>>,
           \A x \in matches' : x.id \in matched
    PROVE  ChoiceInv'
<1>1. Fitting' = Fitting
  BY DEF coreVars, Fitting, Present, NameMatches
<1>2. pc' # "chosen"
  BY DEF Resolving
<1> QED BY <1>1, <1>2 DEF ChoiceInv

LEMMA ChoiceStep == ChoiceInv /\ [Next]_vars => ChoiceInv'
<1> SUFFICES ASSUME ChoiceInv, [Next]_vars PROVE ChoiceInv'
  OBVIOUS
<1>1. ASSUME NEW e \in Failures, ReadFailed(e) PROVE ChoiceInv'
  <2>1. CASE MayRetry(e)
    <3>1. Resolving /\ UNCHANGED <<coreVars, pc, matches, result, affected, matched>>
      BY <1>1, <2>1 DEF ReadFailed
    <3> QED BY <3>1, OnChooses DEF ChoiceInv, Resolving
  <2>2. CASE ~MayRetry(e)
    <3>1. Resolving /\ Finish(Fail("failed"))
      BY <1>1, <2>2 DEF ReadFailed
    <3> QED BY <3>1, EndChooses DEF Fail
  <2> QED BY <2>1, <2>2
<1>2. CASE IdAnswered
  <2>1. Resolving
    BY <1>2 DEF IdAnswered, Resolving
  <2>2. CASE sel \in Present
    <3>1. sel \in matched
      BY <2>1, <2>2 DEF ChoiceInv, Fitting
    <3> QED BY <1>2, <2>1, <2>2, <3>1, EndChooses DEF IdAnswered, Chosen
  <2>3. CASE sel \notin Present
    <3>1. Post("version") /\ UNCHANGED matches
      BY <1>2, <2>3 DEF IdAnswered
    <3> QED BY <2>1, <3>1, OnChooses DEF Post, Resolving, ChoiceInv
  <2> QED BY <2>2, <2>3
<1>3. CASE VersionAnswered
  BY <1>3, OnChooses DEF VersionAnswered, Post, Resolving, ChoiceInv
<1>4. CASE VersionKnown
  BY <1>4, OnChooses DEF VersionKnown, Resolving, ChoiceInv, histories
<1>5. CASE ListAnswered
  <2> DEFINE r == Select(Items(0, Present), Items(0, NameMatches))
  <2>1. Resolving /\ Finish(r)
    BY <1>5 DEF ListAnswered, Resolving
  <2>2. ASSUME r.kind = "chosen" PROVE r.id \in Fitting
    <3>1. \/ r.id = sel /\ \E x \in Items(0, Present) : x.id = sel
          \/ \E x \in Items(0, NameMatches) : r.id = x.id
      BY <2>2, SelectIn
    <3>2. \/ r.id = sel /\ sel \in Present
          \/ r.id \in NameMatches
      BY <3>1, ItemIds
    <3> QED BY <3>2 DEF Fitting
  <2> HIDE DEF r
  <2> QED BY <2>1, <2>2, EndChooses DEF ChoiceInv
<1>6. CASE PageAnswered
  <2> DEFINE found == matches \cup Items(page, Kept(page))
  <2>1. Resolving
    BY <1>6 DEF PageAnswered, Resolving
  <2>2. \A x \in found : x.id \in matched
    <3>1. Kept(page) \subseteq Fitting
      BY DEF Kept, Fitting
    <3> QED BY <2>1, <3>1, ItemIds DEF ChoiceInv
  <2>3. CASE Enough(found) \/ Cardinality(Page(page)) < PageSize
    <3>1. Finish(Select(found, found))
      BY <1>6, <2>3 DEF PageAnswered
    <3> HIDE DEF found
    <3>2. Select(found, found).kind = "chosen" => Select(found, found).id \in matched
      BY <2>2, SelectIn
    <3> QED BY <2>1, <3>1, <3>2, EndChooses
  <2>4. CASE LastPage(page) /\ ~(Enough(found) \/ Cardinality(Page(page)) < PageSize)
    <3>1. Finish(Fail("tooBroad"))
      BY <1>6, <2>4 DEF PageAnswered
    <3> QED BY <2>1, <3>1, EndChooses DEF Fail
  <2>5. CASE ~LastPage(page) /\ ~(Enough(found) \/ Cardinality(Page(page)) < PageSize)
    <3>1. Post("page") /\ matches' = found
      BY <1>6, <2>5 DEF PageAnswered
    <3> HIDE DEF found
    <3> QED BY <2>1, <2>2, <3>1, OnChooses DEF Post, Resolving
  <2> QED BY <2>3, <2>4, <2>5
<1>7. CASE TimeUp
  BY <1>7, EndChooses DEF TimeUp, Fail
<1>8. CASE Submit
  <2>1. /\ pc = "chosen" /\ pc' = "done" /\ UNCHANGED <<matches, result, matched>>
        /\ affected' = affected \/ affected' = result.id
    BY <1>8 DEF Submit, Addressed, histories
  <2> QED BY <2>1 DEF ChoiceInv, Resolving
<1>9. ASSUME NEW i \in Ids, NEW n \in Names \cup {Gone}, Change(i, n) PROVE ChoiceInv'
  <2>1. /\ UNCHANGED <<pc, matches, result, affected>>
        /\ matched \subseteq matched' /\ (Resolving => Fitting' \subseteq matched')
    BY <1>9 DEF Change
  <2> QED BY <2>1 DEF ChoiceInv, Resolving
<1>10. CASE UNCHANGED vars
  <2>1. Fitting' = Fitting
    BY <1>10 DEF vars, coreVars, Fitting, Present, NameMatches
  <2> QED BY <1>10, <2>1 DEF vars, histories, ChoiceInv, Resolving
<1> QED BY <1>1, <1>2, <1>3, <1>4, <1>5, <1>6, <1>7, <1>8, <1>9, <1>10 DEF Next

THEOREM Choices == Spec => []ChoiceInv
<1>1. Init => ChoiceInv
  BY DEF Init, ChoiceInv, Resolving, NoResult
<1> QED BY <1>1, ChoiceStep, PTL DEF Spec

\* Whatever is chosen fitted the selector, by its id or by its whole name, at some
\* time while it was being resolved (select, inventory_inner).
THEOREM ChoiceIsSound == Spec => []SoundChoice
<1>1. ChoiceInv => SoundChoice
  BY DEF ChoiceInv, SoundChoice
<1> QED BY <1>1, Choices, PTL

\* Core acts on the resource that the answer names and on no other, whatever became
\* of names meanwhile (mutate, resolve_stack_id).
THEOREM ActsOnChoice == Spec => []ActsOnTarget
<1>1. ChoiceInv => ActsOnTarget
  BY DEF ChoiceInv, ActsOnTarget
<1> QED BY <1>1, Choices, PTL

-------------------------------------------------------------------------------
(* The places of resources in Core's order *)

\* No two resources have one name.
NamesInv ==
    /\ inventory \in [Ids -> Names \cup {Gone}]
    /\ \A i, j \in Present : i # j => inventory[i] # inventory[j]

LEMMA PageSizes ==
    /\ PageSize \in Nat /\ PageSize > 0
    /\ \A p \in Nat : p * PageSize \in Nat /\ (p + 1) * PageSize = p * PageSize + PageSize
BY PagesPositive

LEMMA Sets ==
    ASSUME NamesInv
    PROVE  /\ NameMatches \subseteq Containing /\ Containing \subseteq Present
           /\ Present \subseteq Ids /\ IsFiniteSet(Present)
           /\ \A i \in Present : inventory[i] \in Nat
           /\ \A p : Page(p) \subseteq Containing
<1>1. NameMatches \subseteq Containing
  BY NamesNested DEF NameMatches, Containing
<1>2. Containing \subseteq Present
  BY NamesNested, GoneIsNothing DEF Containing, Present
<1>3. Present \subseteq Ids
  BY DEF Present
<1>4. IsFiniteSet(Present)
  BY <1>3, IdsFinite, FS_Subset
<1>5. \A i \in Present : inventory[i] \in Nat
  BY NamesNested DEF Present, NamesInv
<1> QED BY <1>1, <1>2, <1>3, <1>4, <1>5 DEF Page

\* The numbers of predecessors count a set of resources through.
LEMMA Places ==
    ASSUME NamesInv, NEW S, S \subseteq Present
    PROVE  LET place == [i \in S |-> Cardinality(Preceding(i, S))]
           IN  /\ IsFiniteSet(S) /\ Cardinality(S) \in Nat
               /\ place \in Bijection(S, 0..Cardinality(S) - 1)
<1> DEFINE place == [i \in S |-> Cardinality(Preceding(i, S))]
<1>1. IsFiniteSet(S) /\ Cardinality(S) \in Nat
  BY Sets, FS_Subset, FS_CardinalityType
<1>2. \A i \in S : inventory[i] \in Nat /\ \A j \in S : i # j => inventory[i] # inventory[j]
  BY Sets DEF NamesInv
<1>3. ASSUME NEW i \in S
      PROVE  /\ IsFiniteSet(Preceding(i, S)) /\ i \notin Preceding(i, S)
             /\ place[i] \in Nat /\ place[i] = Cardinality(Preceding(i, S))
  <2>1. Preceding(i, S) \subseteq S /\ i \notin Preceding(i, S)
    BY <1>2 DEF Preceding
  <2>2. IsFiniteSet(Preceding(i, S)) /\ Cardinality(Preceding(i, S)) \in Nat
    BY <1>1, <2>1, FS_Subset, FS_CardinalityType
  <2> QED BY <2>1, <2>2
<1>4. ASSUME NEW i \in S, NEW T \in SUBSET S, Preceding(i, S) \cup {i} \subseteq T
      PROVE  place[i] + 1 <= Cardinality(T)
  <2>1. IsFiniteSet(T)
    BY <1>1, FS_Subset
  <2>2. Cardinality(Preceding(i, S) \cup {i}) = place[i] + 1
    BY <1>3, FS_AddElement
  <2>3. Cardinality(Preceding(i, S) \cup {i}) <= Cardinality(T)
    BY <1>4, <2>1, FS_Subset
  <2> QED BY <2>2, <2>3
<1>5. \A i \in S : place[i] \in 0..Cardinality(S) - 1
  <2> SUFFICES ASSUME NEW i \in S PROVE place[i] \in 0..Cardinality(S) - 1
    OBVIOUS
  <2>1. Preceding(i, S) \cup {i} \subseteq S
    BY DEF Preceding
  <2>2. place[i] + 1 <= Cardinality(S)
    BY <1>4, <2>1
  <2> HIDE DEF place
  <2> QED BY <1>1, <1>3, <2>2
<1>6. ASSUME NEW i \in S, NEW j \in S, inventory[i] < inventory[j] PROVE place[i] < place[j]
  <2>1. Preceding(i, S) \cup {i} \subseteq Preceding(j, S)
    BY <1>2, <1>6 DEF Preceding
  <2>2. Preceding(j, S) \in SUBSET S
    BY DEF Preceding
  <2>3. place[i] + 1 <= place[j]
    BY <1>3, <1>4, <2>1, <2>2
  <2> HIDE DEF place
  <2> QED BY <1>3, <2>3
<1>7. \A i, j \in S : place[i] = place[j] => i = j
  <2> SUFFICES ASSUME NEW i \in S, NEW j \in S, i # j PROVE place[i] # place[j]
    OBVIOUS
  <2>1. inventory[i] < inventory[j] \/ inventory[j] < inventory[i]
    BY <1>2
  <2>2. place[i] < place[j] \/ place[j] < place[i]
    BY <1>6, <2>1
  <2> HIDE DEF place
  <2> QED BY <1>3, <2>2
<1>8. place \in Injection(S, 0..Cardinality(S) - 1)
  <2>1. place \in [S -> 0..Cardinality(S) - 1]
    BY <1>5
  <2> HIDE DEF place
  <2> QED BY <1>7, <2>1 DEF Injection, IsInjective
<1>9. /\ IsFiniteSet(0..Cardinality(S) - 1)
      /\ Cardinality(0..Cardinality(S) - 1) = Cardinality(S)
  <2>1. PICK n \in Nat : n = Cardinality(S)
    BY <1>1
  <2>2. IsFiniteSet(0..n - 1) /\ Cardinality(0..n - 1) = IF 0 > n - 1 THEN 0 ELSE n - 1 - 0 + 1
    BY FS_Interval
  <2> QED BY <2>1, <2>2
<1> HIDE DEF place
<1>10. place \in Surjection(S, 0..Cardinality(S) - 1)
  BY <1>8, <1>9, FS_Injection
<1> QED BY <1>1, <1>8, <1>10 DEF Bijection, place

\* The same, for use: each place is taken, by one resource.
LEMMA PlaceTaken ==
    ASSUME NamesInv, NEW S, S \subseteq Present
    PROVE  /\ IsFiniteSet(S) /\ Cardinality(S) \in Nat
           /\ \A i \in S : Cardinality(Preceding(i, S)) \in 0..Cardinality(S) - 1
           /\ \A k \in 0..Cardinality(S) - 1 :
                \E i \in S : Cardinality(Preceding(i, S)) = k
<1> DEFINE place == [i \in S |-> Cardinality(Preceding(i, S))]
<1>1. /\ IsFiniteSet(S) /\ Cardinality(S) \in Nat
      /\ place \in Bijection(S, 0..Cardinality(S) - 1)
  BY Places
<1>2. place \in [S -> 0..Cardinality(S) - 1]
  BY <1>1 DEF Bijection, Injection
<1>3. \A k \in 0..Cardinality(S) - 1 : \E i \in S : place[i] = k
  <2> HIDE DEF place
  <2> QED BY <1>1 DEF Bijection, Surjection
<1>4. \A i \in S : place[i] = Cardinality(Preceding(i, S))
  OBVIOUS
<1> HIDE DEF place
<1> QED BY <1>1, <1>2, <1>3, <1>4

-------------------------------------------------------------------------------
(* Pages *)

\* Where a resource is among those whose names contain the selector; the resources
\* on the pages before p.
Place(i) == Cardinality(Preceding(i, Containing))
Read(p) == {i \in Containing : Place(i) < p * PageSize}

LEMMA PlaceNatural ==
    ASSUME NamesInv
    PROVE  /\ \A i \in Containing : Place(i) \in Nat
           /\ \A i \in Containing, k \in Nat :
                k <= Place(i) => \E j \in Containing : Place(j) = k
<1>1. Containing \subseteq Present
  BY Sets
<1>2. Cardinality(Containing) \in Nat
  BY <1>1, PlaceTaken
<1>3. \A i \in Containing : Place(i) \in 0..Cardinality(Containing) - 1
  BY <1>1, PlaceTaken DEF Place
<1>4. \A k \in 0..Cardinality(Containing) - 1 : \E i \in Containing : Place(i) = k
  BY <1>1, PlaceTaken DEF Place
<1>5. ASSUME NEW i \in Containing, NEW k \in Nat, k <= Place(i)
      PROVE  k \in 0..Cardinality(Containing) - 1
  BY <1>2, <1>3, <1>5
<1> QED BY <1>2, <1>3, <1>4, <1>5

LEMMA ReadOn ==
    ASSUME NamesInv, NEW p \in Nat
    PROVE  /\ Read(p + 1) = Read(p) \cup Page(p) /\ Read(p) \cap Page(p) = {}
           /\ Read(0) = {}
<1>1. PICK a \in Nat : a = p * PageSize
  BY PageSizes
<1>2. (p + 1) * PageSize = a + PageSize /\ PageSize \in Nat
  BY <1>1, PageSizes
<1>3. Page(p) = {i \in Containing : Place(i) \in a..a + PageSize - 1}
  BY <1>1, <1>2 DEF Page, Place
<1>4. /\ Read(p) = {i \in Containing : Place(i) < a}
      /\ Read(p + 1) = {i \in Containing : Place(i) < a + PageSize}
  BY <1>1, <1>2 DEF Read
<1>5. \A i \in Containing : Place(i) \in Nat
  BY PlaceNatural
<1>6. Read(0) = {}
  BY <1>5, PagesPositive DEF Read
<1>7. Read(p + 1) = Read(p) \cup Page(p) /\ Read(p) \cap Page(p) = {}
  BY <1>2, <1>3, <1>4, <1>5
<1> QED BY <1>6, <1>7

\* After a page that is not full there is nothing more.
LEMMA AllRead ==
    ASSUME NamesInv, NEW p \in Nat, Cardinality(Page(p)) < PageSize
    PROVE  Read(p + 1) = Containing
<1>1. SUFFICES ASSUME NEW i \in Containing, ~(Place(i) < (p + 1) * PageSize) PROVE FALSE
  BY DEF Read
<1>2. PICK a \in Nat, n \in Nat : a = p * PageSize /\ n = PageSize /\ n > 0
  BY PageSizes
<1>3. (p + 1) * PageSize = a + n /\ Place(i) \in Nat /\ Place(i) >= a + n
  BY <1>1, <1>2, PageSizes, PlaceNatural
<1>4. Page(p) = {j \in Containing : Place(j) \in a..a + n - 1}
  BY <1>2, <1>3 DEF Page, Place
<1> DEFINE at == [k \in a..a + n - 1 |-> CHOOSE j \in Containing : Place(j) = k]
<1>5. ASSUME NEW k \in a..a + n - 1 PROVE at[k] \in Containing /\ Place(at[k]) = k
  <2>1. k \in Nat /\ k <= Place(i)
    BY <1>3
  <2>2. \E j \in Containing : Place(j) = k
    BY <2>1, PlaceNatural
  <2> QED BY <2>2
<1> HIDE DEF at
<1>6. at \in [a..a + n - 1 -> Page(p)]
  BY <1>4, <1>5 DEF at
<1>7. at \in Injection(a..a + n - 1, Page(p))
  BY <1>5, <1>6 DEF Injection, IsInjective
<1>8. IsFiniteSet(Page(p)) /\ Cardinality(Page(p)) \in Nat
  BY Sets, FS_Subset, FS_CardinalityType
<1>9. Cardinality(a..a + n - 1) <= Cardinality(Page(p))
  BY <1>7, <1>8, FS_Injection
<1>10. Cardinality(a..a + n - 1) = n
  <2>1. PICK b \in Int : b = a + n - 1
    OBVIOUS
  <2>2. Cardinality(a..b) = IF a > b THEN 0 ELSE b - a + 1
    BY FS_Interval
  <2> QED BY <1>2, <2>1, <2>2
<1> QED BY <1>2, <1>8, <1>9, <1>10

-------------------------------------------------------------------------------
(* What is found in an inventory that stays as it is *)

\* The exact matches on the pages before p; items that are just the resources of S.
SoFar(p) == NameMatches \cap Read(p)
Same(items, S) ==
    \/ items = {} /\ S = {}
    \/ \E x \in items : items = {x} /\ S = {x.id}
Many(items, S) ==
    /\ IsFiniteSet(items) /\ Cardinality(items) >= 2
    /\ \E i, j \in S : i # j

Answers == {Reference, Fail("failed"), Fail("tooBroad")}

\* While nothing changes: the selector is no id once it has been asked for as one;
\* what is kept is what there is on the pages that were read; and what the resolution
\* comes to is right.
QuietInv ==
    /\ NamesInv /\ sel \in Ids \cup {Gone} /\ changes \in Nat /\ page \in Nat
    /\ pc \in {"id", "version", "list", "page", "chosen", "done"}
    /\ pc \in {"id", "version"} => page = 0 /\ matches = {}
    /\ changes = 0 =>
        /\ Resolving /\ pc # "id" => sel \notin Present
        /\ pc = "page" => Same(matches, SoFar(page))
        /\ ~Resolving => result \in Answers

LEMMA TwoOrMore ==
    ASSUME NEW S, IsFiniteSet(S), NEW a \in S, NEW b \in S, a # b
    PROVE  Cardinality(S) \in Nat /\ Cardinality(S) >= 2
<1>1. Cardinality(S) \in Nat
  BY FS_CardinalityType
<1>2. Cardinality(S) # 0
  BY FS_EmptySet
<1>3. Cardinality(S) # 1
  <2>1. ~\E x : S = {x}
    OBVIOUS
  <2> QED BY <2>1, FS_Singleton
<1> QED BY <1>1, <1>2, <1>3

LEMMA ItemsFinite ==
    ASSUME NEW p, NEW S, IsFiniteSet(S)
    PROVE  IsFiniteSet(Items(p, S))
<1> DEFINE id == [x \in Items(p, S) |-> x.id]
<1>1. id \in [Items(p, S) -> S]
  BY ItemIds
<1>2. \A x, y \in Items(p, S) : id[x] = id[y] => x = y
  BY ItemIds
<1> HIDE DEF id
<1>3. id \in Injection(Items(p, S), S)
  BY <1>1, <1>2 DEF Injection, IsInjective
<1> QED BY <1>3, FS_Injection

\* The selection agrees with the definition when it is given what there is.
LEMMA SelectMeant ==
    ASSUME NamesInv, sel \notin Present, NEW items, NEW named,
           \A x \in items : x.id # sel, Same(named, NameMatches) \/ Many(named, NameMatches)
    PROVE  Select(items, named) = Reference
<1>1. Meant = NameMatches
  BY DEF Meant
<1>2. Select(items, named) = IF named = {} THEN Fail("notFound")
                             ELSE IF Cardinality(named) = 1
                             THEN Chosen((CHOOSE x \in named : TRUE).id)
                             ELSE Fail("ambiguous")
  BY DEF Select
<1>3. CASE named = {} /\ NameMatches = {}
  BY <1>1, <1>2, <1>3 DEF Reference
<1>4. CASE \E x : named = {x} /\ NameMatches = {x.id}
  <2>1. PICK x : named = {x} /\ NameMatches = {x.id}
    BY <1>4
  <2>2. Cardinality(named) = 1 /\ Cardinality(NameMatches) = 1
    BY <2>1, FS_Singleton
  <2>3. Select(items, named) = Chosen(x.id)
    BY <1>2, <2>1, <2>2
  <2>4. Reference = Chosen(x.id)
    BY <1>1, <2>1, <2>2 DEF Reference
  <2> QED BY <2>3, <2>4
<1>5. CASE Many(named, NameMatches)
  <2>1. IsFiniteSet(NameMatches)
    BY Sets, FS_Subset
  <2>2. Cardinality(NameMatches) \in Nat /\ Cardinality(NameMatches) >= 2
    BY <1>5, <2>1, TwoOrMore DEF Many
  <2>3. Cardinality(named) \in Nat /\ Cardinality(named) >= 2
    BY <1>5, FS_CardinalityType DEF Many
  <2>4. named # {}
    BY <2>3, FS_EmptySet
  <2>5. Select(items, named) = Fail("ambiguous")
    BY <1>2, <2>3, <2>4
  <2>6. NameMatches # {}
    BY <2>2, FS_EmptySet
  <2>7. Reference = Fail("ambiguous")
    BY <1>1, <2>2, <2>6 DEF Reference
  <2> QED BY <2>5, <2>7
<1> QED BY <1>3, <1>4, <1>5 DEF Same

\* What a page adds: what there is of it, or two matches.
LEMMA PageAdds ==
    ASSUME NamesInv, NEW p \in Nat, Same(matches, SoFar(p))
    PROVE  LET found == matches \cup Items(p, Kept(p))
           IN  /\ \A x \in found : x.id \in NameMatches
               /\ Same(found, SoFar(p + 1)) \/ Many(found, SoFar(p + 1))
<1> DEFINE E == Page(p) \cap NameMatches
           found == matches \cup Items(p, Kept(p))
<1>1. /\ E \subseteq Present /\ E \subseteq NameMatches
      /\ SoFar(p + 1) = SoFar(p) \cup E /\ SoFar(p) \cap E = {}
  BY Sets, ReadOn DEF SoFar
<1>2. Kept(p) = {i \in E : Cardinality(matches) + Cardinality(Preceding(i, E)) < 2}
  BY DEF Kept
<1> HIDE DEF E
<1>3. /\ IsFiniteSet(E) /\ Cardinality(E) \in Nat
      /\ \A i \in E : Cardinality(Preceding(i, E)) \in 0..Cardinality(E) - 1
      /\ \A k \in 0..Cardinality(E) - 1 : \E i \in E : Cardinality(Preceding(i, E)) = k
  BY <1>1, PlaceTaken
<1>4. \A x \in found : x.id \in NameMatches
  <2>1. \A x \in matches : x.id \in SoFar(p)
    BY DEF Same
  <2>2. Kept(p) \subseteq NameMatches
    BY <1>1, <1>2
  <2> QED BY <2>1, <2>2, ItemIds DEF SoFar
<1>5. IsFiniteSet(found)
  <2>1. IsFiniteSet(matches)
    <3>1. matches = {} \/ \E x : matches = {x}
      BY DEF Same
    <3> QED BY <3>1, FS_EmptySet, FS_Singleton
  <2>2. IsFiniteSet(Items(p, Kept(p)))
    <3>1. IsFiniteSet(Kept(p))
      BY <1>2, <1>3, FS_Subset
    <3> QED BY <3>1, ItemsFinite
  <2> QED BY <2>1, <2>2, FS_Union
<1>6. CASE E = {}
  <2>1. Kept(p) = {}
    BY <1>2, <1>6
  <2>2. found = matches
    BY <2>1 DEF Items
  <2> QED BY <1>1, <1>4, <1>6, <2>2
<1>7. CASE E # {}
  <2>1. Cardinality(E) # 0
    BY <1>3, <1>7, FS_EmptySet
  <2>2. PICK i \in E : Cardinality(Preceding(i, E)) = 0
    BY <1>3, <2>1
  <2>3. CASE \E x : matches = {x} /\ SoFar(p) = {x.id}
    <3>1. PICK x : matches = {x} /\ SoFar(p) = {x.id}
      BY <2>3
    <3>2. Cardinality(matches) = 1
      BY <3>1, FS_Singleton
    <3>3. i \in Kept(p)
      BY <1>2, <2>2, <3>2
    <3>4. PICK y : y = [page |-> p, id |-> i]
      OBVIOUS
    <3>5. x \in found /\ y \in found /\ y.id = i
      BY <3>1, <3>3, <3>4, ItemIds
    <3>6. i # x.id /\ i \in SoFar(p + 1) /\ x.id \in SoFar(p + 1)
      BY <1>1, <3>1
    <3> HIDE DEF found
    <3>7. Cardinality(found) >= 2
      BY <1>5, <3>5, <3>6, TwoOrMore
    <3>8. Many(found, SoFar(p + 1))
      BY <1>5, <3>6, <3>7 DEF Many
    <3> QED BY <1>4, <3>8 DEF found
  <2>4. CASE matches = {} /\ SoFar(p) = {}
    <3>1. Cardinality(matches) = 0
      BY <2>4, FS_EmptySet
    <3>2. i \in Kept(p)
      BY <1>2, <2>2, <3>1
    <3>3. CASE Cardinality(E) = 1
      <4>1. E = {i}
        BY <1>3, <3>3, FS_Singleton
      <4>2. Kept(p) = {i}
        BY <1>2, <3>2, <4>1
      <4>3. PICK y : y = [page |-> p, id |-> i]
        OBVIOUS
      <4>4. found = {y} /\ y.id = i
        BY <2>4, <4>2, <4>3 DEF Items
      <4>5. Same(found, SoFar(p + 1))
        BY <1>1, <2>4, <4>1, <4>4 DEF Same
      <4> QED BY <1>4, <4>5
    <3>4. CASE Cardinality(E) # 1
      <4>1. PICK j \in E : Cardinality(Preceding(j, E)) = 1
        BY <1>3, <2>1, <3>4
      <4>2. j \in Kept(p) /\ i # j
        BY <1>2, <2>2, <3>1, <4>1
      <4>3. PICK y, z : y = [page |-> p, id |-> i] /\ z = [page |-> p, id |-> j]
        OBVIOUS
      <4>4. y \in found /\ z \in found /\ y.id = i /\ z.id = j
        BY <3>2, <4>2, <4>3, ItemIds
      <4> HIDE DEF found
      <4>5. Cardinality(found) >= 2
        BY <1>5, <4>2, <4>4, TwoOrMore
      <4>6. Many(found, SoFar(p + 1))
        BY <1>1, <1>5, <4>2, <4>5 DEF Many
      <4> QED BY <1>4, <4>6 DEF found
    <3> QED BY <3>3, <3>4
  <2> QED BY <2>3, <2>4 DEF Same
<1> QED BY <1>6, <1>7

\* A search that ends with two matches or with its last page has found what there is.
LEMMA PageIsReference ==
    ASSUME NamesInv, page \in Nat, sel \notin Present, Same(matches, SoFar(page)),
           LET found == matches \cup Items(page, Kept(page))
           IN  Enough(found) \/ Cardinality(Page(page)) < PageSize
    PROVE  LET found == matches \cup Items(page, Kept(page))
           IN  Select(found, found) = Reference
<1> DEFINE found == matches \cup Items(page, Kept(page))
<1>1. /\ \A x \in found : x.id \in NameMatches
      /\ Same(found, SoFar(page + 1)) \/ Many(found, SoFar(page + 1))
  BY PageAdds
<1>2. \A x \in found : x.id # sel
  BY <1>1, Sets
<1>3. SoFar(page + 1) \subseteq NameMatches
  BY DEF SoFar
<1>4. Same(found, NameMatches) \/ Many(found, NameMatches)
  <2>1. CASE Many(found, SoFar(page + 1))
    BY <1>3, <2>1 DEF Many
  <2>2. CASE Same(found, SoFar(page + 1)) /\ Cardinality(Page(page)) < PageSize
    <3>1. Read(page + 1) = Containing
      BY <2>2, AllRead
    <3>2. SoFar(page + 1) = NameMatches
      BY <3>1, Sets DEF SoFar
    <3> QED BY <2>2, <3>2
  <2>3. CASE Same(found, SoFar(page + 1)) /\ Enough(found)
    <3>1. found = {} \/ \E x : found = {x}
      BY <2>3 DEF Same
    <3>2. Cardinality(found) = 0 \/ Cardinality(found) = 1
      BY <3>1, FS_EmptySet, FS_Singleton
    <3> QED BY <2>3, <3>2 DEF Enough
  <2> QED BY <1>1, <2>1, <2>2, <2>3
<1> HIDE DEF found
<1>5. Select(found, found) = Reference
  BY <1>2, <1>4, SelectMeant
<1> QED BY <1>5 DEF found

\* So has one list.
LEMMA ListIsReference ==
    ASSUME NamesInv, sel \notin Present
    PROVE  Select(Items(0, Present), Items(0, NameMatches)) = Reference
<1> DEFINE named == Items(0, NameMatches)
<1>1. \A x \in Items(0, Present) : x.id # sel
  BY ItemIds
<1>2. IsFiniteSet(NameMatches) /\ IsFiniteSet(named)
  BY Sets, FS_Subset, ItemsFinite
<1>3. CASE NameMatches = {}
  <2>1. named = {}
    BY <1>3 DEF Items
  <2> QED BY <1>1, <1>3, <2>1, SelectMeant DEF Same
<1>4. CASE \E i : NameMatches = {i}
  <2>1. PICK i, y : NameMatches = {i} /\ y = [page |-> 0, id |-> i]
    BY <1>4
  <2>2. named = {y} /\ y.id = i
    BY <2>1 DEF Items
  <2> QED BY <1>1, <2>1, <2>2, SelectMeant DEF Same
<1>5. CASE \E i, j \in NameMatches : i # j
  <2>1. PICK i, j \in NameMatches : i # j
    BY <1>5
  <2>2. PICK y, z : y = [page |-> 0, id |-> i] /\ z = [page |-> 0, id |-> j]
    OBVIOUS
  <2>3. y \in named /\ z \in named /\ y.id = i /\ z.id = j
    BY <2>1, <2>2, ItemIds
  <2> HIDE DEF named
  <2>4. Cardinality(named) >= 2
    BY <1>2, <2>1, <2>3, TwoOrMore
  <2>5. Many(named, NameMatches)
    BY <1>2, <2>1, <2>4 DEF Many
  <2> QED BY <1>1, <2>5, SelectMeant DEF named
<1> QED BY <1>3, <1>4, <1>5

\* The resolution ends with r, or goes on, or is left alone by another client.
LEMMA EndQuiet ==
    ASSUME QuietInv, Resolving, NEW r, Finish(r), changes = 0 => r \in Answers
    PROVE  QuietInv'
<1>1. /\ pc' \in {"chosen", "done"} /\ result' = r
      /\ UNCHANGED <<inventory, modern, sel, page, changes>>
  BY DEF Finish, coreVars, histories
<1>2. NamesInv' /\ Present' = Present /\ Answers' = Answers
  BY <1>1 DEF QuietInv, NamesInv, Present, Answers, Reference, Meant, NameMatches
<1> QED BY <1>1, <1>2 DEF QuietInv, Resolving

LEMMA OnQuiet ==
    ASSUME QuietInv, UNCHANGED <<inventory, sel, changes>>, page' \in Nat,
           pc' \in {"id", "version", "list", "page"},
           pc' \in {"id", "version"} => page' = 0 /\ matches' = {},
           changes = 0 /\ pc' # "id" => sel \notin Present,
           changes = 0 /\ pc' = "page" => Same(matches', SoFar(page'))
    PROVE  QuietInv'
<1>1. /\ NamesInv' /\ Present' = Present
      /\ SoFar(page)' = SoFar(page')
  BY DEF QuietInv, NamesInv, Present, SoFar, NameMatches, Read, Place, Preceding, Containing
<1>2. Resolving'
  BY DEF Resolving
<1> QED BY <1>1, <1>2 DEF QuietInv

LEMMA StillQuiet ==
    ASSUME QuietInv, UNCHANGED <<inventory, sel, changes, page, pc, matches, result>>
    PROVE  QuietInv'
<1>1. /\ NamesInv' /\ Present' = Present /\ Answers' = Answers /\ SoFar(page)' = SoFar(page)
      /\ Resolving' = Resolving
  BY DEF QuietInv, NamesInv, Present, SoFar, NameMatches, Read, Place, Preceding, Containing,
         Answers, Reference, Meant, Resolving
<1> QED BY <1>1 DEF QuietInv

LEMMA PageQuiet ==
    ASSUME QuietInv, PageAnswered
    PROVE  QuietInv'
<1> DEFINE found == matches \cup Items(page, Kept(page))
           full == ~(Enough(found) \/ Cardinality(Page(page)) < PageSize)
<1>1. Resolving /\ pc = "page" /\ page \in Nat
  BY DEF PageAnswered, Resolving, QuietInv
<1>2. ASSUME changes = 0
      PROVE  /\ sel \notin Present /\ \A x \in found : x.id \in NameMatches
             /\ Same(found, SoFar(page + 1)) \/ Many(found, SoFar(page + 1))
  <2>1. sel \notin Present /\ Same(matches, SoFar(page)) /\ NamesInv
    BY <1>1, <1>2 DEF QuietInv
  <2> QED BY <1>1, <2>1, PageAdds
<1>3. CASE ~full
  <2>1. Finish(Select(found, found))
    BY <1>3 DEF PageAnswered
  <2>2. ASSUME changes = 0 PROVE Select(found, found) \in Answers
    <3>1. NamesInv /\ sel \notin Present /\ Same(matches, SoFar(page))
      BY <1>1, <2>2 DEF QuietInv
    <3>2. Select(found, found) = Reference
      BY <1>1, <1>3, <3>1, PageIsReference
    <3> QED BY <3>2 DEF Answers
  <2> HIDE DEF found
  <2> QED BY <1>1, <2>1, <2>2, EndQuiet
<1>4. CASE full /\ LastPage(page)
  <2>1. Finish(Fail("tooBroad"))
    BY <1>4 DEF PageAnswered
  <2> QED BY <1>1, <2>1, EndQuiet DEF Answers
<1>5. CASE full /\ ~LastPage(page)
  <2>1. /\ pc' = "page" /\ page' = page + 1 /\ matches' = found
        /\ UNCHANGED <<inventory, sel, changes>>
    BY <1>5 DEF PageAnswered, Post, coreVars
  <2>2. ASSUME changes = 0 PROVE Same(found, SoFar(page + 1))
    <3> HIDE DEF found
    <3>1. ~(Cardinality(found) >= 2)
      BY <1>5 DEF Enough
    <3> QED BY <1>2, <2>2, <3>1 DEF Many
  <2> HIDE DEF found
  <2> QED BY <1>1, <1>2, <2>1, <2>2, OnQuiet
<1> QED BY <1>3, <1>4, <1>5

LEMMA ChangeQuiet ==
    ASSUME QuietInv, NEW i \in Ids, NEW n \in Names \cup {Gone}, Change(i, n)
    PROVE  QuietInv'
<1>1. /\ inventory' = [inventory EXCEPT ![i] = n] /\ changes' = changes + 1
      /\ UNCHANGED <<sel, pc, page, matches>>
      /\ n # Gone => \A j \in Ids : inventory[j] # n
  BY DEF Change
<1>2. inventory' \in [Ids -> Names \cup {Gone}]
  BY <1>1 DEF QuietInv, NamesInv
<1>3. ASSUME NEW j \in Present', NEW k \in Present', j # k PROVE inventory'[j] # inventory'[k]
  <2>1. j \in Ids /\ k \in Ids /\ inventory'[j] # Gone /\ inventory'[k] # Gone
    BY DEF Present
  <2>2. \A h \in Ids : inventory'[h] = IF h = i THEN n ELSE inventory[h]
    BY <1>1 DEF QuietInv, NamesInv
  <2>3. CASE j # i /\ k # i
    BY <1>3, <2>1, <2>2, <2>3 DEF QuietInv, NamesInv, Present
  <2>4. CASE j = i
    BY <1>1, <1>3, <2>1, <2>2, <2>4
  <2>5. CASE k = i
    BY <1>1, <1>3, <2>1, <2>2, <2>5
  <2> QED BY <2>3, <2>4, <2>5
<1>4. NamesInv'
  BY <1>2, <1>3 DEF NamesInv
<1>5. changes' \in Nat /\ changes' # 0
  BY <1>1 DEF QuietInv
<1>6. UNCHANGED <<sel, pc, page, matches>>
  BY <1>1
<1> QED BY <1>4, <1>5, <1>6 DEF QuietInv

LEMMA QuietStep == QuietInv /\ [Next]_vars => QuietInv'
<1> SUFFICES ASSUME QuietInv, [Next]_vars PROVE QuietInv'
  OBVIOUS
<1> USE DEF QuietInv
<1>1. ASSUME NEW e \in Failures, ReadFailed(e) PROVE QuietInv'
  <2>1. CASE MayRetry(e)
    BY <1>1, <2>1, StillQuiet DEF ReadFailed, coreVars
  <2>2. CASE ~MayRetry(e)
    <3>1. Resolving /\ Finish(Fail("failed"))
      BY <1>1, <2>2 DEF ReadFailed
    <3> QED BY <3>1, EndQuiet DEF Answers
  <2> QED BY <2>1, <2>2
<1>2. CASE IdAnswered
  <2>1. Resolving /\ pc = "id"
    BY <1>2 DEF IdAnswered, Resolving
  <2>2. CASE sel \in Present
    <3>1. Meant = {sel} /\ Cardinality({sel}) = 1
      BY <2>2, FS_Singleton DEF Meant
    <3>2. Reference = Chosen(sel)
      BY <3>1 DEF Reference
    <3>3. Finish(Chosen(sel))
      BY <1>2, <2>2 DEF IdAnswered
    <3> QED BY <2>1, <3>2, <3>3, EndQuiet DEF Answers
  <2>3. CASE sel \notin Present
    <3>1. pc' = "version" /\ UNCHANGED <<inventory, sel, changes, page, matches>>
      BY <1>2, <2>3 DEF IdAnswered, Post, coreVars
    <3> QED BY <2>1, <2>3, <3>1, OnQuiet
  <2> QED BY <2>2, <2>3
<1>3. CASE VersionAnswered \/ VersionKnown
  <2>1. /\ pc = "version" /\ pc' \in {"page", "list"} /\ Resolving
        /\ UNCHANGED <<inventory, sel, changes, page, matches>>
    BY <1>3 DEF VersionAnswered, VersionKnown, Post, coreVars, histories, Resolving
  <2>2. page' = 0 /\ matches' = {} /\ (changes = 0 => sel \notin Present)
    BY <2>1
  <2>3. Same(matches', SoFar(page'))
    <3>1. SoFar(0) = {}
      BY ReadOn DEF SoFar
    <3> QED BY <2>2, <3>1 DEF Same
  <2> QED BY <2>1, <2>2, <2>3, OnQuiet
<1>4. CASE ListAnswered
  <2> DEFINE r == Select(Items(0, Present), Items(0, NameMatches))
  <2>1. Resolving /\ pc = "list" /\ Finish(r)
    BY <1>4 DEF ListAnswered, Resolving
  <2>2. changes = 0 => r = Reference
    BY <2>1, ListIsReference
  <2> HIDE DEF r
  <2> QED BY <2>1, <2>2, EndQuiet DEF Answers
<1>5. CASE PageAnswered
  BY <1>5, PageQuiet
<1>6. CASE TimeUp
  BY <1>6, EndQuiet DEF TimeUp, Answers
<1>7. CASE Submit
  <2>1. /\ pc = "chosen" /\ pc' = "done" /\ UNCHANGED <<inventory, sel, page, matches, result, changes>>
    BY <1>7 DEF Submit, coreVars, histories
  <2>2. NamesInv' /\ Answers' = Answers
    BY <2>1 DEF NamesInv, Present, Answers, Reference, Meant, NameMatches
  <2> QED BY <2>1, <2>2 DEF Resolving
<1>8. ASSUME NEW i \in Ids, NEW n \in Names \cup {Gone}, Change(i, n) PROVE QuietInv'
  BY <1>8, ChangeQuiet
<1>9. CASE UNCHANGED vars
  BY <1>9, StillQuiet DEF vars, coreVars, histories
<1> QED BY <1>1, <1>2, <1>3, <1>4, <1>5, <1>6, <1>7, <1>8, <1>9 DEF Next

LEMMA Quietly == Spec => []QuietInv
<1>1. Init => QuietInv
  <2> SUFFICES ASSUME Init PROVE QuietInv
    OBVIOUS
  <2>1. sel = Gone => sel \notin Present
    BY GoneIsNothing DEF Present
  <2> QED BY <2>1 DEF Init, QuietInv, NamesInv, Resolving
<1> QED BY <1>1, QuietStep, PTL DEF Spec

\* In an inventory that stays as it is, every path comes to what the selector means,
\* unless it fails or gives up: whatever the size of the pages, and however many there
\* are (select, inventory_inner, inventory_page).
THEOREM QuietIsRight == Spec => []RightWhenQuiet
<1>1. QuietInv => RightWhenQuiet
  BY DEF QuietInv, RightWhenQuiet, Answers, Resolving
<1> QED BY <1>1, Quietly, PTL

-------------------------------------------------------------------------------
(* Where an ambiguity goes unnoticed *)

\* What has meant two names and no id all the time still does; and what was chosen in
\* spite of it came from a later page of an inventory that moved.
AmbiguityInv ==
    /\ Resolving \/ changes = 0 => (unclear => Cardinality(Meant) > 1)
    /\ Resolving => result = NoResult
    /\ pc = "page" /\ page = 0 => matches = {}
    /\ result.kind = "chosen" => ~unclear \/ (page > 0 /\ changes > 0)

\* One that the selector is, or the definition's choice, is the only one it means.
LEMMA ReferenceAlone ==
    ASSUME sel \in Present \/ Reference.kind = "chosen"
    PROVE  ~(Cardinality(Meant) > 1)
<1>1. CASE sel \in Present
  <2>1. Meant = {sel} /\ Cardinality({sel}) = 1
    BY <1>1, FS_Singleton DEF Meant
  <2> QED BY <2>1
<1>2. CASE Reference.kind = "chosen"
  BY <1>2 DEF Reference, Fail
<1> QED BY <1>1, <1>2

\* The resolution ends with r, or goes on, or is left alone by another client.
LEMMA EndClear ==
    ASSUME QuietInv, AmbiguityInv, Resolving, NEW r, Finish(r),
           r.kind = "chosen" /\ (page = 0 \/ changes = 0) => ~(Cardinality(Meant) > 1)
    PROVE  AmbiguityInv'
<1>1. /\ pc' \in {"chosen", "done"} /\ result' = r
      /\ UNCHANGED <<inventory, sel, page, changes, unclear>>
  BY DEF Finish, coreVars, histories
<1>2. Meant' = Meant
  BY <1>1 DEF Meant, Present, NameMatches
<1>3. page \in Nat /\ changes \in Nat
  BY DEF QuietInv
<1> QED BY <1>1, <1>2, <1>3 DEF AmbiguityInv, Resolving

LEMMA OnClear ==
    ASSUME AmbiguityInv, UNCHANGED <<inventory, sel, changes, unclear, result>>,
           Resolving' => Resolving,
           page' = page \/ Resolving,
           pc' = "page" /\ page' = 0 => matches' = {}
    PROVE  AmbiguityInv'
<1>1. Meant' = Meant
  BY DEF Meant, Present, NameMatches
<1>2. CASE Resolving
  BY <1>1, <1>2 DEF AmbiguityInv, NoResult
<1>3. CASE ~Resolving
  BY <1>1, <1>3 DEF AmbiguityInv
<1> QED BY <1>2, <1>3

LEMMA PageClear ==
    ASSUME QuietInv, AmbiguityInv, PageAnswered
    PROVE  AmbiguityInv'
<1> DEFINE found == matches \cup Items(page, Kept(page))
           full == ~(Enough(found) \/ Cardinality(Page(page)) < PageSize)
<1>1. Resolving /\ pc = "page" /\ page \in Nat /\ NamesInv
  BY DEF PageAnswered, Resolving, QuietInv
<1>2. CASE ~full
  <2>1. Finish(Select(found, found))
    BY <1>2 DEF PageAnswered
  <2>2. ASSUME Select(found, found).kind = "chosen", page = 0 \/ changes = 0, sel \notin Present
        PROVE  Reference.kind = "chosen"
    <3>1. Same(matches, SoFar(page))
      <4>1. CASE changes = 0
        BY <1>1, <4>1 DEF QuietInv
      <4>2. CASE page = 0
        <5>1. SoFar(0) = {} /\ matches = {}
          BY <1>1, <4>2, ReadOn DEF SoFar, AmbiguityInv
        <5> QED BY <4>2, <5>1 DEF Same
      <4> QED BY <2>2, <4>1, <4>2
    <3>2. Select(found, found) = Reference
      BY <1>1, <1>2, <2>2, <3>1, PageIsReference
    <3> QED BY <2>2, <3>2
  <2>3. Select(found, found).kind = "chosen" /\ (page = 0 \/ changes = 0)
            => ~(Cardinality(Meant) > 1)
    BY <2>2, ReferenceAlone
  <2> HIDE DEF found
  <2> QED BY <1>1, <2>1, <2>3, EndClear
<1>3. CASE full /\ LastPage(page)
  <2>1. Finish(Fail("tooBroad"))
    BY <1>3 DEF PageAnswered
  <2> QED BY <1>1, <2>1, EndClear DEF Fail
<1>4. CASE full /\ ~LastPage(page)
  <2>1. /\ pc' = "page" /\ page' = page + 1
        /\ UNCHANGED <<inventory, sel, changes, unclear, result>>
    BY <1>4 DEF PageAnswered, Post, coreVars
  <2> QED BY <1>1, <2>1, OnClear
<1> QED BY <1>2, <1>3, <1>4

LEMMA AmbiguityStep == QuietInv /\ AmbiguityInv /\ [Next]_vars => AmbiguityInv'
<1> SUFFICES ASSUME QuietInv, AmbiguityInv, [Next]_vars PROVE AmbiguityInv'
  OBVIOUS
<1>1. ASSUME NEW e \in Failures, ReadFailed(e) PROVE AmbiguityInv'
  <2>1. CASE MayRetry(e)
    <3>1. UNCHANGED <<coreVars, pc, page, matches, result, unclear, changes>>
      BY <1>1, <2>1 DEF ReadFailed
    <3> QED BY <3>1, OnClear DEF coreVars, Resolving, AmbiguityInv
  <2>2. CASE ~MayRetry(e)
    <3>1. Resolving /\ Finish(Fail("failed"))
      BY <1>1, <2>2 DEF ReadFailed
    <3> QED BY <3>1, EndClear DEF Fail
  <2> QED BY <2>1, <2>2
<1>2. CASE IdAnswered
  <2>1. Resolving
    BY <1>2 DEF IdAnswered, Resolving
  <2>2. CASE sel \in Present
    <3>1. Finish(Chosen(sel))
      BY <1>2, <2>2 DEF IdAnswered
    <3> QED BY <2>1, <2>2, <3>1, ReferenceAlone, EndClear
  <2>3. CASE sel \notin Present
    <3>1. /\ pc' = "version" /\ page' = page
          /\ UNCHANGED <<inventory, sel, changes, unclear, result>>
      BY <1>2, <2>3 DEF IdAnswered, Post, coreVars
    <3> QED BY <2>1, <3>1, OnClear
  <2> QED BY <2>2, <2>3
<1>3. CASE VersionAnswered \/ VersionKnown
  <2>1. /\ pc = "version" /\ Resolving /\ page' = page /\ matches' = matches
        /\ UNCHANGED <<inventory, sel, changes, unclear, result>>
    BY <1>3 DEF VersionAnswered, VersionKnown, Post, coreVars, histories, Resolving
  <2>2. matches' = {}
    BY <2>1 DEF QuietInv
  <2> QED BY <2>1, <2>2, OnClear
<1>4. CASE ListAnswered
  <2> DEFINE r == Select(Items(0, Present), Items(0, NameMatches))
  <2>1. Resolving /\ Finish(r)
    BY <1>4 DEF ListAnswered, Resolving
  <2>2. r.kind = "chosen" => ~(Cardinality(Meant) > 1)
    BY ListIsReference, ReferenceAlone DEF QuietInv
  <2> HIDE DEF r
  <2> QED BY <2>1, <2>2, EndClear
<1>5. CASE PageAnswered
  BY <1>5, PageClear
<1>6. CASE TimeUp
  BY <1>6, EndClear DEF TimeUp, Fail
<1>7. CASE Submit
  <2>1. /\ pc = "chosen" /\ pc' = "done"
        /\ UNCHANGED <<inventory, sel, page, result, changes, unclear>>
    BY <1>7 DEF Submit, coreVars, histories
  <2> QED BY <2>1, OnClear DEF Resolving
<1>8. ASSUME NEW i \in Ids, NEW n \in Names \cup {Gone}, Change(i, n) PROVE AmbiguityInv'
  <2>1. /\ changes' = changes + 1 /\ UNCHANGED <<pc, page, matches, result>>
        /\ IF Resolving THEN unclear' = (unclear /\ Cardinality(Meant') > 1)
           ELSE unclear' = unclear
    BY <1>8 DEF Change
  <2>2. changes \in Nat /\ changes' > 0 /\ changes' # 0
    BY <2>1 DEF QuietInv
  <2>3. Resolving' = Resolving
    BY <2>1 DEF Resolving
  <2>4. CASE Resolving
    BY <2>1, <2>2, <2>3, <2>4 DEF AmbiguityInv, NoResult
  <2>5. CASE ~Resolving
    BY <2>1, <2>2, <2>3, <2>5 DEF AmbiguityInv
  <2> QED BY <2>4, <2>5
<1>9. CASE UNCHANGED vars
  BY <1>9, OnClear DEF vars, coreVars, histories, Resolving, AmbiguityInv
<1> QED BY <1>1, <1>2, <1>3, <1>4, <1>5, <1>6, <1>7, <1>8, <1>9 DEF Next

\* A selector that meant several names all the time is refused (docs/tool-surface.md:
\* 138-142) by every path but one: a search that had to turn a page, over an inventory
\* that moved (FailsOnAmbiguity is what this leaves of it).
RefusedOnFirstPage ==
    result.kind = "chosen" => ~unclear \/ (page > 0 /\ changes > 0)

\* Ambiguity goes unnoticed only behind a turned page of an inventory that changed
\* (inventory_page, select).
THEOREM AmbiguityBehindPages == Spec => []RefusedOnFirstPage
<1>1. Init => AmbiguityInv
  <2> SUFFICES ASSUME Init PROVE AmbiguityInv
    OBVIOUS
  <2>1. unclear = (Cardinality(Meant) > 1)
    BY DEF Init
  <2>2. unclear => Cardinality(Meant) > 1
    BY <2>1, Zenon
  <2>3. result = NoResult /\ result.kind # "chosen" /\ matches = {}
    BY DEF Init, NoResult
  <2> QED BY <2>2, <2>3 DEF AmbiguityInv
<1>2. AmbiguityInv => RefusedOnFirstPage
  BY DEF AmbiguityInv, RefusedOnFirstPage
<1> QED BY <1>1, <1>2, AmbiguityStep, Quietly, PTL DEF Spec

=====================================================================================
