------------------------------ MODULE ToolCallsProofs ------------------------------
(***************************************************************************)
(* What ToolCalls promises holds for any number of items, pages, reads,    *)
(* texts and files. A session walks, asks or calls, and each of the three  *)
(* has an invariant of its own; the others leave what it is about alone.   *)
(*                                                                         *)
(* Walks. Of the present page just those matches were seen whose turn was  *)
(* before the offset, of the pages before it all, unless the client was    *)
(* told that something is cut; so at the end each was seen once. Of what   *)
(* changes meanwhile only this much is kept: what was there and is passed  *)
(* by page and offset was seen, as operations never go. A continuation is  *)
(* accepted and leads on, to an offset or a page that was advertised.      *)
(*                                                                         *)
(* Reads. Each place a form can be in bounds its age by what is left of    *)
(* the place: the form of an answer under way is no older than the time    *)
(* the attempt has taken, that of the cache no older than that and the     *)
(* time it has been remembered, that in use no older than all three.       *)
(*                                                                         *)
(* Calls. A call has nothing that happens between its steps but another    *)
(* attempt, so the properties of its answer follow from what the operators *)
(* return. Those that are recursive are shown right place by place: were   *)
(* one not, there would be a least place at which it is not.               *)
(***************************************************************************)
EXTENDS ToolCalls, FiniteSetTheorems, SequenceTheorems, WellFoundedInduction, TLAPS

-------------------------------------------------------------------------------
(* Numbers *)

\* A set of numbers that is not empty has a least one.
LEMMA LeastNumber ==
    ASSUME NEW S, S \subseteq Nat, S # {}
    PROVE  \E n \in S : \A m \in S : n <= m
<1>1. PICK n \in S : \A m \in S : ~(<<m, n>> \in OpToRel(<, Nat))
  BY NatLessThanWellFounded, WFMin
<1>2. \A m \in S : ~(m < n)
  BY <1>1 DEF OpToRel
<1> QED BY <1>2

\* Max is the greatest of a set of numbers that is bounded.
LEMMA MaxIs ==
    ASSUME NEW S, NEW b \in Nat, S \subseteq 0..b, S # {}
    PROVE  Max(S) \in S /\ \A m \in S : m <= Max(S)
<1> DEFINE T == {b - m : m \in S}
<1>1. PICK t \in T : \A u \in T : t <= u
  <2>1. T \subseteq Nat
    <3>1. \A m \in S : b - m \in Nat
      OBVIOUS
    <3> QED BY <3>1
  <2>2. T # {}
    <3>1. PICK m \in S : TRUE
      OBVIOUS
    <3>2. b - m \in T
      BY <3>1
    <3> QED BY <3>2
  <2> HIDE DEF T
  <2> QED BY <2>1, <2>2, LeastNumber
<1>2. PICK n \in S : t = b - n
  OBVIOUS
<1>3. \A m \in S : n >= m
  <2> SUFFICES ASSUME NEW m \in S PROVE n >= m
    OBVIOUS
  <2>1. b - n <= b - m
    BY <1>1, <1>2
  <2> QED BY <2>1
<1>4. \E x \in S : \A y \in S : x >= y
  BY <1>3
<1>5. Max(S) = CHOOSE x \in S : \A y \in S : x >= y
  BY DEF Max
<1>6. Max(S) \in S /\ \A y \in S : Max(S) >= y
  BY <1>4, <1>5
<1> QED BY <1>6

\* Min of two numbers is the lesser.
LEMMA LesserOf ==
    ASSUME NEW x \in Int, NEW y \in Int
    PROVE  Min({x, y}) = IF x <= y THEN x ELSE y
<1> DEFINE m == IF x <= y THEN x ELSE y
<1>1. m \in {x, y} /\ \A k \in {x, y} : m <= k
  OBVIOUS
<1>2. \A k \in {x, y} : (\A l \in {x, y} : k <= l) => k = m
  OBVIOUS
<1> HIDE DEF m
<1> QED BY <1>1, <1>2 DEF Min, m

-------------------------------------------------------------------------------
(* Reads that ask for the version (CoreVersion) *)

All == VersionTTL + AttemptTime + ReuseTime

\* Where a read is.
Places == {"idle", "waiting", "asking", "answered", "using"}
AskerRecords ==
    [st : Places, form : Texts \cup {"none"}, attempt : Nat, left : Nat]

VersionTypeOK ==
    /\ release \in Forms
    /\ cached \in [form : Forms \cup {"none"}, left : Nat]
    /\ asker \in [Askers -> AskerRecords]
    /\ since \in [Forms -> Nat]

\* Core understands what it is.
PresentUnderstood == since[release] = 0

\* What is remembered.
CachedInTime ==
    cached.left > 0 =>
        /\ cached.form \in Forms
        /\ since[cached.form] + cached.left <= VersionTTL + AttemptTime

\* What read a has been told, or is about to be.
InTime(a) ==
    /\ asker[a].st = "asking" => asker[a].left <= AttemptTime
    /\ asker[a].st = "answered" =>
        /\ asker[a].left <= AttemptTime
        /\ asker[a].form \in Forms => since[asker[a].form] + asker[a].left <= AttemptTime
    /\ asker[a].st = "using" =>
        /\ asker[a].form \in Forms
        /\ since[asker[a].form] + asker[a].left < All

VersionInv ==
    VersionTypeOK /\ PresentUnderstood /\ CachedInTime /\ \A a \in Askers : InTime(a)

\* Spans are positive numbers.
LEMMA Spans ==
    /\ VersionTTL \in Nat /\ AttemptTime \in Nat /\ ReuseTime \in Nat
    /\ VersionTTL > 0 /\ AttemptTime > 0 /\ ReuseTime > 0
BY SpansPositive

\* A step that changes read a alone, to a record that is in time, and of what is shared
\* at most the cache, which stays in time, keeps the invariant.
LEMMA OneRead ==
    ASSUME VersionInv,
           NEW a \in Askers, NEW r \in AskerRecords,
           asker' = [asker EXCEPT ![a] = r],
           r.st = "asking" => r.left <= AttemptTime,
           r.st = "answered" =>
                /\ r.left <= AttemptTime
                /\ r.form \in Forms => since[r.form] + r.left <= AttemptTime,
           r.st = "using" => r.form \in Forms /\ since[r.form] + r.left < All,
           UNCHANGED <<release, since>>,
           \/ UNCHANGED cached
           \/ /\ cached' \in [form : Forms, left : Nat]
              /\ since[cached'.form] + cached'.left <= VersionTTL + AttemptTime
    PROVE  VersionInv'
<1>1. VersionTypeOK'
  BY DEF VersionInv, VersionTypeOK
<1>2. PresentUnderstood' /\ CachedInTime'
  BY DEF VersionInv, PresentUnderstood, CachedInTime
<1>3. ASSUME NEW b \in Askers PROVE InTime(b)'
  <2>1. InTime(b)
    BY DEF VersionInv
  <2>2. asker \in [Askers -> AskerRecords]
    BY DEF VersionInv, VersionTypeOK
  <2>3. CASE b = a
    <3>1. asker'[b] = r
      BY <2>2, <2>3
    <3> QED BY <3>1 DEF InTime, All
  <2>4. CASE b # a
    <3>1. asker'[b] = asker[b]
      BY <2>2, <2>4
    <3> QED BY <3>1, <2>1 DEF InTime, All
  <2> QED BY <2>3, <2>4
<1> QED BY <1>1, <1>2, <1>3 DEF VersionInv

\* A read that ends, for whatever reason, keeps the invariant.
LEMMA EndsKeeps ==
    ASSUME VersionInv, NEW a \in Askers, Ends(a), UNCHANGED <<release, cached, since>>
    PROVE  VersionInv'
<1>1. Idle \in AskerRecords /\ Idle.st = "idle"
  BY DEF Idle, AskerRecords, Places, Texts
<1> QED BY <1>1, OneRead DEF Ends

\* So does one that begins to use a form that is young enough.
LEMMA UsesKeeps ==
    ASSUME VersionInv, NEW a \in Askers, NEW f \in Forms, Uses(a, f),
           since[f] + ReuseTime < All,
           UNCHANGED <<release, since>>,
           \/ UNCHANGED cached
           \/ /\ cached' \in [form : Forms, left : Nat]
              /\ since[cached'.form] + cached'.left <= VersionTTL + AttemptTime
    PROVE  VersionInv'
<1> DEFINE r == [st |-> "using", form |-> f, attempt |-> 0, left |-> ReuseTime]
<1>1. r \in AskerRecords
  BY Spans DEF AskerRecords, Places, Texts
<1>2. asker' = [asker EXCEPT ![a] = r]
  BY DEF Uses
<1>3. r.st = "using" /\ r.form = f /\ r.left = ReuseTime
  OBVIOUS
<1> HIDE DEF r
<1> QED BY <1>1, <1>2, <1>3, OneRead

\* And one that asks Core.
LEMMA AttemptKeeps ==
    ASSUME VersionInv, NEW a \in Askers, NEW n \in Nat, Attempt(a, n),
           UNCHANGED <<release, cached, since>>
    PROVE  VersionInv'
<1> DEFINE r == [st |-> "asking", form |-> "none", attempt |-> n, left |-> AttemptTime]
<1>1. r \in AskerRecords
  BY Spans DEF AskerRecords, Places, Texts
<1>2. asker' = [asker EXCEPT ![a] = r]
  BY DEF Attempt
<1>3. r.st = "asking" /\ r.left <= AttemptTime
  BY Spans
<1> HIDE DEF r
<1> QED BY <1>1, <1>2, <1>3, OneRead

\* A read wants the version.
LEMMA WantKeeps ==
    ASSUME VersionInv, NEW a \in Askers, Want(a)
    PROVE  VersionInv'
<1> DEFINE r == [asker[a] EXCEPT !.st = "waiting"]
<1>1. asker[a] \in AskerRecords
  BY DEF VersionInv, VersionTypeOK
<1>2. r \in AskerRecords /\ r.st = "waiting"
  BY <1>1 DEF AskerRecords, Places
<1>3. asker' = [asker EXCEPT ![a] = r]
  BY DEF Want
<1>4. UNCHANGED <<release, cached, since>>
  BY DEF Want
<1> HIDE DEF r
<1> QED BY <1>2, <1>3, <1>4, OneRead

\* It is remembered.
LEMMA RecallKeeps ==
    ASSUME VersionInv, NEW a \in Askers, Recall(a)
    PROVE  VersionInv'
<1>1. cached.left > 0 /\ cached.left \in Nat
  BY DEF Recall, Fresh, VersionInv, VersionTypeOK
<1>2. cached.form \in Forms /\ since[cached.form] + cached.left <= VersionTTL + AttemptTime
  BY <1>1 DEF VersionInv, CachedInTime
<1>3. since[cached.form] \in Nat
  BY <1>2 DEF VersionInv, VersionTypeOK
<1>4. since[cached.form] + ReuseTime < All
  BY <1>1, <1>2, <1>3, Spans DEF All
<1>5. Uses(a, cached.form) /\ UNCHANGED <<release, cached, since>>
  BY DEF Recall
<1> QED BY <1>2, <1>4, <1>5, UsesKeeps

\* Core says which release it is.
LEMMA ServeKeeps ==
    ASSUME VersionInv, NEW a \in Askers, Serve(a)
    PROVE  VersionInv'
<1>1. asker[a] \in AskerRecords /\ asker[a].st = "asking"
  BY DEF VersionInv, VersionTypeOK, Serve
<1>2. asker[a].left <= AttemptTime /\ asker[a].left \in Nat
  BY <1>1 DEF VersionInv, InTime, AskerRecords
<1>3. since[release] = 0 /\ release \in Forms
  BY DEF VersionInv, PresentUnderstood, VersionTypeOK
<1>4. PICK text \in {release, "unreadable"} :
        asker' = [asker EXCEPT ![a].st = "answered", ![a].form = text]
  BY DEF Serve
<1> DEFINE r == [asker[a] EXCEPT !.st = "answered", !.form = text]
<1>5. asker' = [asker EXCEPT ![a] = r]
  BY <1>4, <1>1 DEF VersionInv, VersionTypeOK, AskerRecords
<1>6. r \in AskerRecords
  BY <1>1, <1>3 DEF AskerRecords, Places, Texts
<1>7. r.st = "answered" /\ r.left = asker[a].left /\ r.form = text
  BY <1>1 DEF AskerRecords
<1>8. text \in Forms => since[text] + r.left <= AttemptTime
  BY <1>2, <1>3, <1>7 DEF Forms
<1>9. UNCHANGED <<release, cached, since>>
  BY DEF Serve
<1> HIDE DEF r
<1> QED BY <1>2, <1>5, <1>6, <1>7, <1>8, <1>9, OneRead

\* The read learns it.
LEMMA LearnKeeps ==
    ASSUME VersionInv, NEW a \in Askers, Learn(a)
    PROVE  VersionInv'
<1>1. CASE asker[a].form \in Forms
  <2> DEFINE f == asker[a].form
  <2>1. asker[a] \in AskerRecords /\ asker[a].st = "answered"
    BY DEF VersionInv, VersionTypeOK, Learn
  <2>2. since[f] + asker[a].left <= AttemptTime /\ asker[a].left \in Nat
    BY <1>1, <2>1 DEF VersionInv, InTime, AskerRecords
  <2>3. since[f] \in Nat
    BY <1>1 DEF VersionInv, VersionTypeOK
  <2>4. since[f] <= AttemptTime
    BY <2>2, <2>3, Spans
  <2>5. since[f] + ReuseTime < All
    BY <2>3, <2>4, Spans DEF All
  <2>6. /\ Uses(a, f) /\ cached' = [form |-> f, left |-> VersionTTL]
        /\ UNCHANGED <<release, since>>
    BY <1>1 DEF Learn
  <2>7. /\ cached' \in [form : Forms, left : Nat]
        /\ since[cached'.form] + cached'.left <= VersionTTL + AttemptTime
    BY <1>1, <2>3, <2>4, <2>6, Spans
  <2> QED BY <1>1, <2>5, <2>6, <2>7, UsesKeeps
<1>2. CASE asker[a].form \notin Forms
  BY <1>2, EndsKeeps DEF Learn
<1> QED BY <1>1, <1>2

\* An attempt fails.
LEMMA LoseKeeps ==
    ASSUME VersionInv, NEW a \in Askers, NEW again \in BOOLEAN, Lose(a, again)
    PROVE  VersionInv'
<1>1. UNCHANGED <<release, cached, since>>
  BY DEF Lose
<1>2. Attempt(a, 2) \/ Ends(a)
  BY DEF Lose
<1>3. CASE Attempt(a, 2)
  BY <1>1, <1>3, AttemptKeeps
<1>4. CASE Ends(a)
  BY <1>1, <1>4, EndsKeeps
<1> QED BY <1>2, <1>3, <1>4

\* Core is replaced.
LEMMA ReplaceKeeps ==
    ASSUME VersionInv, Replace
    PROVE  VersionInv'
<1>1. /\ release' \in Forms /\ since' = [since EXCEPT ![release'] = 0]
      /\ UNCHANGED <<cached, asker>>
  BY DEF Replace
<1>2. since \in [Forms -> Nat]
  BY DEF VersionInv, VersionTypeOK
<1>3. \A f \in Forms : since'[f] \in Nat /\ since'[f] <= since[f]
  BY <1>1, <1>2
<1>4. VersionTypeOK' /\ PresentUnderstood'
  BY <1>1, <1>2 DEF VersionInv, VersionTypeOK, PresentUnderstood
<1>5. CachedInTime'
  <2>1. SUFFICES ASSUME cached.left > 0
                 PROVE  /\ cached.form \in Forms
                        /\ since'[cached.form] + cached.left <= VersionTTL + AttemptTime
    BY <1>1 DEF CachedInTime
  <2>2. /\ cached.form \in Forms /\ cached.left \in Nat
        /\ since[cached.form] + cached.left <= VersionTTL + AttemptTime
    BY <2>1 DEF VersionInv, VersionTypeOK, CachedInTime
  <2> QED BY <2>2, <1>2, <1>3, Spans
<1>6. ASSUME NEW a \in Askers PROVE InTime(a)'
  <2>1. asker'[a] = asker[a] /\ asker[a] \in AskerRecords /\ InTime(a)
    BY <1>1 DEF VersionInv, VersionTypeOK
  <2>2. asker[a].left \in Nat
    BY <2>1 DEF AskerRecords
  <2>3. \A f \in Forms :
            since'[f] + asker[a].left <= since[f] + asker[a].left /\ since[f] \in Nat
    BY <1>2, <1>3, <2>2
  <2> QED BY <1>2, <1>3, <2>1, <2>2, <2>3, Spans DEF InTime, All
<1> QED BY <1>4, <1>5, <1>6 DEF VersionInv

\* Time takes from what is left what it adds to the age.
LEMMA ElapseKeeps ==
    ASSUME VersionInv, Elapse
    PROVE  VersionInv'
<1>1. /\ release' = release
      /\ cached' = [cached EXCEPT !.left = Less(cached.left)]
      /\ asker' = [a \in Askers |-> [asker[a] EXCEPT !.left = Less(asker[a].left)]]
  BY DEF Elapse
<1>2. /\ since \in [Forms -> Nat] /\ release \in Forms
      /\ cached \in [form : Forms \cup {"none"}, left : Nat]
      /\ asker \in [Askers -> AskerRecords]
  BY DEF VersionInv, VersionTypeOK
<1>3. /\ since' \in [Forms -> Nat] /\ since'[release] = 0
      /\ \A f \in Forms : since'[f] <= since[f] + 1
  BY <1>2, Spans DEF Elapse
<1>4. \A n \in Nat : Less(n) \in Nat /\ Less(n) <= n /\ (n > 0 => Less(n) = n - 1)
  BY DEF Less
<1>5. VersionTypeOK' /\ PresentUnderstood'
  <2>1. cached' \in [form : Forms \cup {"none"}, left : Nat]
    BY <1>1, <1>2, <1>4
  <2>2. asker' \in [Askers -> AskerRecords]
    BY <1>1, <1>2, <1>4 DEF AskerRecords
  <2> QED BY <1>1, <1>2, <1>3, <2>1, <2>2 DEF VersionTypeOK, PresentUnderstood
<1>6. CachedInTime'
  <2>1. cached'.left = Less(cached.left) /\ cached'.form = cached.form
    BY <1>1, <1>2
  <2>2. SUFFICES ASSUME Less(cached.left) > 0
                 PROVE  /\ cached.form \in Forms
                        /\ since'[cached.form] + Less(cached.left) <= VersionTTL + AttemptTime
    BY <2>1 DEF CachedInTime
  <2>3. cached.left \in Nat /\ cached.left > 0 /\ Less(cached.left) = cached.left - 1
    BY <1>2, <1>4, <2>2
  <2>4. /\ cached.form \in Forms
        /\ since[cached.form] + cached.left <= VersionTTL + AttemptTime
    BY <2>3 DEF VersionInv, CachedInTime
  <2>5. /\ since'[cached.form] \in Nat /\ since[cached.form] \in Nat
        /\ since'[cached.form] <= since[cached.form] + 1
    BY <1>2, <1>3, <2>4
  <2> QED BY <2>3, <2>4, <2>5, Spans
<1>7. ASSUME NEW a \in Askers PROVE InTime(a)'
  <2>1. asker[a] \in AskerRecords /\ asker[a].left \in Nat /\ InTime(a)
    BY <1>2 DEF VersionInv, AskerRecords
  <2>2. /\ asker'[a].st = asker[a].st /\ asker'[a].form = asker[a].form
        /\ asker'[a].left = Less(asker[a].left)
    BY <1>1, <2>1 DEF AskerRecords
  <2>3. SUFFICES ASSUME asker[a].st \in {"asking", "answered", "using"}
                 PROVE  InTime(a)'
    BY <2>2 DEF InTime
  <2>4. asker[a].left > 0 /\ Less(asker[a].left) = asker[a].left - 1
    BY <1>4, <2>1, <2>3 DEF Elapse
  <2>5. \A f \in Forms :
            since'[f] + (asker[a].left - 1) <= since[f] + asker[a].left
    BY <1>2, <1>3, <2>1
  <2>6. \A f \in Forms : since'[f] \in Nat /\ since[f] \in Nat
    BY <1>2, <1>3
  <2> QED BY <2>1, <2>2, <2>4, <2>5, <2>6, Spans DEF InTime, All
<1> QED BY <1>5, <1>6, <1>7 DEF VersionInv

\* The invariant holds at first.
LEMMA VersionInitially ==
    ASSUME VersionInit
    PROVE  VersionInv
<1>1. VersionTypeOK
  BY Spans DEF VersionInit, VersionTypeOK, AskerRecords, Idle, Places, Texts
<1>2. PresentUnderstood
  BY DEF VersionInit, PresentUnderstood
<1>3. CachedInTime
  BY DEF VersionInit, CachedInTime
<1>4. \A a \in Askers : asker[a].st = "idle"
  BY DEF VersionInit, Idle
<1> QED BY <1>1, <1>2, <1>3, <1>4 DEF VersionInv, InTime

\* And is kept by every step.
LEMMA VersionStep ==
    ASSUME VersionInv, [VersionNext]_versionVars
    PROVE  VersionInv'
<1>1. ASSUME NEW a \in Askers, Want(a) PROVE VersionInv'
  BY <1>1, WantKeeps
<1>2. ASSUME NEW a \in Askers, Recall(a) PROVE VersionInv'
  BY <1>2, RecallKeeps
<1>3. ASSUME NEW a \in Askers, Consult(a) PROVE VersionInv'
  BY <1>3, AttemptKeeps DEF Consult
<1>4. ASSUME NEW a \in Askers, Serve(a) PROVE VersionInv'
  BY <1>4, ServeKeeps
<1>5. ASSUME NEW a \in Askers, Learn(a) PROVE VersionInv'
  BY <1>5, LearnKeeps
<1>6. ASSUME NEW a \in Askers, NEW again \in BOOLEAN, Lose(a, again) PROVE VersionInv'
  BY <1>6, LoseKeeps
<1>7. ASSUME NEW a \in Askers, Abandon(a) PROVE VersionInv'
  BY <1>7, EndsKeeps DEF Abandon
<1>8. ASSUME NEW a \in Askers, TimeOut(a) PROVE VersionInv'
  BY <1>6, <1>7, <1>8 DEF TimeOut
<1>9. CASE Replace
  BY <1>9, ReplaceKeeps
<1>10. CASE Elapse
  BY <1>10, ElapseKeeps
<1>11. CASE UNCHANGED versionVars
  <2>1. UNCHANGED <<release, cached, asker, since>>
    BY <1>11 DEF versionVars
  <2> QED BY <2>1 DEF VersionInv, VersionTypeOK, PresentUnderstood, CachedInTime, InTime
<1> QED
  BY <1>1, <1>2, <1>3, <1>4, <1>5, <1>6, <1>7, <1>8, <1>9, <1>10, <1>11 DEF VersionNext

\* The invariant says what is promised of a form.
LEMMA VersionRight == VersionInv => FormFits
<1>1. SUFFICES ASSUME VersionInv, NEW a \in Askers, asker[a].st = "using"
               PROVE  since[asker[a].form] < All
  BY DEF FormFits, All
<1>2. /\ asker[a].left \in Nat /\ asker[a].form \in Forms
      /\ since[asker[a].form] + asker[a].left < All
  BY <1>1 DEF VersionInv, VersionTypeOK, AskerRecords, InTime
<1>3. since[asker[a].form] \in Nat
  BY <1>1, <1>2 DEF VersionInv, VersionTypeOK
<1> QED BY <1>2, <1>3, Spans DEF All

\* Whatever Core is replaced by and however the reads interleave, a form that is in use
\* fits a release that Core was less than the three spans ago (core_2_3_or_later).
THEOREM FormsFit == VersionSpec => []FormFits
<1>1. VersionInit => VersionInv
  BY VersionInitially
<1>2. VersionInv /\ [VersionNext]_versionVars => VersionInv'
  BY VersionStep
<1> QED BY <1>1, <1>2, VersionRight, PTL DEF VersionSpec

-------------------------------------------------------------------------------
(* Places in a sorted set *)

\* What comes before i in S; the part of S whose places are in a window.
Lower(i, S, R) == {j \in S : <<j, i>> \in R}
Window(place, S, o, w) == {i \in S : place[i] \in o..o + w - 1}

\* The numbers of what comes before count a finite set through, if R is an order of it.
LEMMA Ranked ==
    ASSUME NEW S, IsFiniteSet(S), NEW R,
           \A i \in S : <<i, i>> \notin R,
           \A i, j \in S : i # j => <<i, j>> \in R \/ <<j, i>> \in R,
           \A i, j, k \in S : <<i, j>> \in R /\ <<j, k>> \in R => <<i, k>> \in R
    PROVE  LET place == [i \in S |-> Cardinality(Lower(i, S, R))]
           IN  /\ Cardinality(S) \in Nat
               /\ place \in Bijection(S, 0..Cardinality(S) - 1)
<1> DEFINE lower(i) == Lower(i, S, R)
           place == [i \in S |-> Cardinality(lower(i))]
<1>1. Cardinality(S) \in Nat
  BY FS_CardinalityType
<1>2. ASSUME NEW i \in S
      PROVE  /\ IsFiniteSet(lower(i)) /\ i \notin lower(i) /\ lower(i) \subseteq S
             /\ place[i] \in Nat /\ place[i] = Cardinality(lower(i))
  <2>1. lower(i) \subseteq S /\ i \notin lower(i)
    BY DEF Lower
  <2>2. IsFiniteSet(lower(i)) /\ Cardinality(lower(i)) \in Nat
    BY <2>1, FS_Subset, FS_CardinalityType
  <2> QED BY <2>1, <2>2
<1>3. ASSUME NEW i \in S, NEW T \in SUBSET S, lower(i) \cup {i} \subseteq T
      PROVE  place[i] + 1 <= Cardinality(T)
  <2>1. IsFiniteSet(T)
    BY FS_Subset
  <2>2. Cardinality(lower(i) \cup {i}) = place[i] + 1
    BY <1>2, FS_AddElement
  <2>3. Cardinality(lower(i) \cup {i}) <= Cardinality(T)
    BY <1>3, <2>1, FS_Subset
  <2> QED BY <2>2, <2>3
<1>4. \A i \in S : place[i] \in 0..Cardinality(S) - 1
  <2> SUFFICES ASSUME NEW i \in S PROVE place[i] \in 0..Cardinality(S) - 1
    OBVIOUS
  <2>1. lower(i) \cup {i} \subseteq S
    BY DEF Lower
  <2>2. place[i] + 1 <= Cardinality(S)
    BY <1>3, <2>1
  <2>3. place[i] \in Nat
    BY <1>2
  <2> HIDE DEF place
  <2> QED BY <1>1, <2>2, <2>3
<1>5. ASSUME NEW i \in S, NEW j \in S, <<i, j>> \in R PROVE place[i] < place[j]
  <2>1. lower(i) \cup {i} \subseteq lower(j) /\ lower(j) \in SUBSET S
    BY <1>5 DEF Lower
  <2>2. place[i] + 1 <= Cardinality(lower(j))
    BY <1>3, <2>1
  <2>3. place[i] + 1 <= place[j]
    BY <1>2, <2>2
  <2>4. place[i] \in Nat /\ place[j] \in Nat
    BY <1>2
  <2> HIDE DEF place
  <2> QED BY <2>3, <2>4
<1>6. \A i, j \in S : place[i] = place[j] => i = j
  <2> SUFFICES ASSUME NEW i \in S, NEW j \in S, i # j PROVE place[i] # place[j]
    OBVIOUS
  <2>1. place[i] < place[j] \/ place[j] < place[i]
    BY <1>5
  <2>2. place[i] \in Nat /\ place[j] \in Nat
    BY <1>2
  <2> HIDE DEF place
  <2> QED BY <2>1, <2>2
<1>7. place \in Injection(S, 0..Cardinality(S) - 1)
  <2>1. place \in [S -> 0..Cardinality(S) - 1]
    BY <1>4
  <2> HIDE DEF place
  <2> QED BY <1>6, <2>1 DEF Injection, IsInjective
<1>8. /\ IsFiniteSet(0..Cardinality(S) - 1)
      /\ Cardinality(0..Cardinality(S) - 1) = Cardinality(S)
  <2>1. PICK n \in Nat : n = Cardinality(S)
    BY <1>1
  <2>2. IsFiniteSet(0..n - 1) /\ Cardinality(0..n - 1) = IF 0 > n - 1 THEN 0 ELSE n - 1 - 0 + 1
    BY FS_Interval
  <2> QED BY <2>1, <2>2
<1> HIDE DEF place
<1>9. place \in Surjection(S, 0..Cardinality(S) - 1)
  BY <1>7, <1>8, FS_Injection
<1> QED BY <1>1, <1>7, <1>9 DEF Bijection, place

\* A window of a counted set has as many elements as it is wide, short of its end.
LEMMA Windowed ==
    ASSUME NEW S, IsFiniteSet(S), NEW n \in Nat, NEW place \in Bijection(S, 0..n - 1),
           n = Cardinality(S), NEW o \in Nat, NEW w \in Nat, w > 0
    PROVE  LET shown == Window(place, S, o, w)
           IN  /\ IsFiniteSet(shown) /\ Cardinality(shown) \in Nat
               /\ Cardinality(shown) <= w
               /\ IF o + Cardinality(shown) < n
                  THEN /\ Cardinality(shown) = w
                       /\ \E i \in S : place[i] = o + w
                  ELSE \A i \in S : place[i] < o + w
<1> DEFINE shown == Window(place, S, o, w)
<1>1. PICK m \in Nat : m = IF o + w <= n THEN o + w ELSE n
  OBVIOUS
<1>2. /\ place \in [S -> 0..n - 1]
      /\ \A i, j \in S : place[i] = place[j] => i = j
      /\ \A k \in 0..n - 1 : \E i \in S : place[i] = k
  BY DEF Bijection, Injection, Surjection, IsInjective
<1>3. IsFiniteSet(shown) /\ Cardinality(shown) \in Nat
  BY FS_Subset, FS_CardinalityType DEF Window
<1>4. CASE o < m
  <2> DEFINE f == [i \in shown |-> place[i]]
  <2>1. f \in [shown -> o..m - 1]
    BY <1>1, <1>2 DEF Window
  <2>2. \A i, j \in shown : f[i] = f[j] => i = j
    BY <1>2 DEF Window
  <2>3. \A k \in o..m - 1 : \E i \in shown : f[i] = k
    BY <1>1, <1>2 DEF Window
  <2> HIDE DEF f, shown
  <2>4. f \in Bijection(shown, o..m - 1)
    BY <2>1, <2>2, <2>3 DEF Bijection, Injection, Surjection, IsInjective
  <2>5. IsFiniteSet(o..m - 1) /\ Cardinality(o..m - 1) = m - o
    <3>1. PICK b \in Int : b = m - 1
      OBVIOUS
    <3>2. o \in Int
      OBVIOUS
    <3>3. IsFiniteSet(o..b) /\ Cardinality(o..b) = IF o > b THEN 0 ELSE b - o + 1
      BY <3>1, <3>2, FS_Interval
    <3> QED BY <1>4, <3>1, <3>3
  <2>6. ExistsBijection(shown, o..m - 1)
    BY <2>4 DEF ExistsBijection
  <2>7. Cardinality(shown) = m - o
    BY <1>3, <2>5, <2>6, FS_Bijection
  <2>8. o + w < n => \E i \in S : place[i] = o + w
    BY <1>2
  <2> QED BY <1>1, <1>2, <1>3, <1>4, <2>7, <2>8 DEF shown
<1>5. CASE ~(o < m)
  <2>1. shown = {}
    BY <1>1, <1>2, <1>5 DEF Window
  <2>2. Cardinality(shown) = 0
    BY <2>1, FS_EmptySet
  <2>3. ~(o + 0 < n) /\ 0 <= w
    BY <1>1, <1>5
  <2>4. \A i \in S : place[i] < o + w
    BY <1>1, <1>2, <1>5
  <2> QED BY <1>3, <2>2, <2>3, <2>4
<1> QED BY <1>4, <1>5

-------------------------------------------------------------------------------
(* What an answer of a search is, of a listing in which no id occurs twice *)

\* A listing has no id twice; what is seen is counted.
WalkTypeOK ==
    /\ tool \in Tools /\ limit \in Nat /\ modern \in BOOLEAN /\ hits \subseteq Items
    /\ Sorted => name \in [Items -> Names]
    /\ listing \in Seq(Items)
    /\ \A k, l \in DOMAIN listing : listing[k] = listing[l] => k = l
    /\ page \in Nat /\ offset \in Nat /\ seen \in [Items -> Nat]
    /\ cut \in BOOLEAN /\ changes \in Nat
    /\ page > 0 => Paged

\* The listing is cut into pages: where the present one begins, what is on the pages
\* before it, and what is on it. Without pages everything is on the first.
Begin == page * PageSize
Behind == {listing[k] : k \in {k \in DOMAIN listing : k <= Begin}}
Now ==
    IF Paged THEN {listing[k] : k \in {k \in DOMAIN listing : k > Begin /\ k <= Begin + PageSize}}
    ELSE ToSet(listing)

\* The order in which a search shows its matches, and how many come before i.
InOrder(i, j) == IF Sorted THEN Before(i, j) ELSE Earlier(listing, i, j)
Turn(i) == Cardinality({j \in hits \cap Now : InOrder(j, i)})

\* The constants of a search are numbers.
LEMMA SearchTypes ==
    /\ Items \subseteq Int /\ Names \subseteq Int /\ Limits \subseteq Nat
    /\ PageSize \in Nat /\ PageSize > 0 /\ IsFiniteSet(Items)
    /\ MaxOffset \in Nat /\ MaxWindow \in Nat
BY SearchNumbers

\* Where a page begins is a number, and the next begins a page further on.
LEMMA Begins ==
    ASSUME page \in Nat
    PROVE  /\ Begin \in Nat /\ (page = 0 => Begin = 0)
           /\ (page + 1) * PageSize = Begin + PageSize
BY SearchTypes DEF Begin

\* A page of the listing, place by place.
LEMMA PageIs ==
    ASSUME WalkTypeOK
    PROVE  /\ OnPage \in Seq(Items)
           /\ Len(OnPage) = IF Len(listing) <= Begin THEN 0
                            ELSE IF Len(listing) <= Begin + PageSize THEN Len(listing) - Begin
                            ELSE PageSize
           /\ \A k \in DOMAIN OnPage : OnPage[k] = listing[Begin + k]
<1>1. /\ listing \in Seq(Items) /\ Len(listing) \in Nat /\ Begin \in Nat /\ PageSize \in Nat
      /\ PageSize > 0
  BY Begins, SearchTypes DEF WalkTypeOK
<1>2. PICK b \in Nat, z \in Nat, n \in Nat : b = Begin /\ z = PageSize /\ n = Len(listing)
  BY <1>1
<1>3. PICK c \in Nat : c = b + z
  OBVIOUS
<1>4. PICK e \in Nat : e = Min({c, n}) /\ e \in {c, n} /\ e <= c /\ e <= n
  <2>1. Min({c, n}) \in {c, n} /\ Min({c, n}) <= c /\ Min({c, n}) <= n
    BY LesserOf
  <2> QED BY <2>1
<1>5. OnPage = SubSeq(listing, b + 1, e)
  BY <1>2, <1>3, <1>4, Begins DEF OnPage, Begin, WalkTypeOK
<1>6. /\ Len(SubSeq(listing, b + 1, e)) = IF b + 1 <= e THEN e - (b + 1) + 1 ELSE 0
      /\ SubSeq(listing, b + 1, e) \in Seq(Items)
      /\ \A k \in 1..e - (b + 1) + 1 : SubSeq(listing, b + 1, e)[k] = listing[(b + 1) + k - 1]
  <2>1. b + 1 \in Int /\ e \in Int /\ \A k \in b + 1..e : listing[k] \in Items
    <3>1. \A k \in 1..n : listing[k] \in Items
      BY <1>1, <1>2
    <3>2. \A k \in b + 1..e : k \in 1..n
      BY <1>3, <1>4
    <3> QED BY <3>1, <3>2
  <2> QED BY <2>1, SubSeqProperties
<1>7. e - (b + 1) + 1 = e - b
  OBVIOUS
<1>8. Len(OnPage) = IF n <= b THEN 0 ELSE IF n <= b + z THEN n - b ELSE z
  <2>1. Len(OnPage) = IF b + 1 <= e THEN e - b ELSE 0
    BY <1>5, <1>6, <1>7
  <2> QED BY <1>1, <1>2, <1>3, <1>4, <2>1
<1>9. \A k \in DOMAIN OnPage : OnPage[k] = listing[b + k]
  <2>1. OnPage \in Seq(Items) /\ DOMAIN OnPage \subseteq 1..e - (b + 1) + 1
    <3>1. OnPage \in Seq(Items) /\ (Len(OnPage) = 0 \/ Len(OnPage) = e - (b + 1) + 1)
      BY <1>5, <1>6
    <3>2. DOMAIN OnPage = 1..Len(OnPage)
      BY <3>1, LenProperties
    <3> QED BY <3>1, <3>2
  <2> SUFFICES ASSUME NEW k \in DOMAIN OnPage PROVE OnPage[k] = listing[b + k]
    OBVIOUS
  <2>2. k \in 1..e - (b + 1) + 1 /\ (b + 1) + k - 1 = b + k
    BY <2>1
  <2> QED BY <1>5, <1>6, <2>2
<1> QED BY <1>2, <1>5, <1>6, <1>8, <1>9

\* A sequence of all elements of a finite set has each of them once.
LEMMA Orders ==
    ASSUME NEW S, IsFiniteSet(S), NEW s \in SetToSeqs(S)
    PROVE  /\ s \in Seq(S) /\ ToSet(s) = S
           /\ \A k, l \in DOMAIN s : s[k] = s[l] => k = l
<1>1. PICK n \in Nat : n = Cardinality(S)
  BY FS_CardinalityType
<1>2. s \in [1..n -> S] /\ \A i, j \in 1..n : i # j => s[i] # s[j]
  BY <1>1 DEF SetToSeqs
<1>3. s \in Injection(1..n, S)
  BY <1>2 DEF Injection, IsInjective
<1>4. Cardinality(1..n) = n
  BY FS_Interval
<1>5. s \in Surjection(1..n, S)
  BY <1>1, <1>3, <1>4, FS_Injection
<1>6. \A x \in S : \E k \in 1..n : s[k] = x
  BY <1>5 DEF Surjection
<1>7. ToSet(s) = S
  BY <1>2, <1>6 DEF ToSet
<1> QED BY <1>2, <1>7

\* Whatever Core answers, it holds what is on the present page, each item once; and
\* where the search keeps Core's order, in that order.
LEMMA AnswerIs ==
    ASSUME WalkTypeOK, NEW ans \in Answers
    PROVE  /\ ans \in Seq(Items) /\ ToSet(ans) = Now
           /\ \A k, l \in DOMAIN ans : ans[k] = ans[l] => k = l
           /\ ~Sorted => \A i, j \in Now :
                            Earlier(ans, i, j) <=> Earlier(listing, i, j)
<1>1. /\ listing \in Seq(Items) /\ Len(listing) \in Nat /\ Begin \in Nat /\ PageSize \in Nat
      /\ PageSize > 0 /\ \A k, l \in DOMAIN listing : listing[k] = listing[l] => k = l
  BY Begins, SearchTypes DEF WalkTypeOK
<1>2. CASE Paged
  <2>1. ans = OnPage
    BY <1>2 DEF Answers, Paged
  <2>2. PICK b \in Nat, z \in Nat, n \in Nat : b = Begin /\ z = PageSize /\ n = Len(listing)
    BY <1>1
  <2>3. PICK m \in Nat : /\ m = Len(OnPage)
                         /\ m = IF n <= b THEN 0 ELSE IF n <= b + z THEN n - b ELSE z
    BY <1>1, <2>2, PageIs
  <2>4. /\ ans \in Seq(Items) /\ DOMAIN ans = 1..m
        /\ \A k \in 1..m : ans[k] = listing[b + k]
    <3>1. /\ OnPage \in Seq(Items)
          /\ \A k \in DOMAIN OnPage : OnPage[k] = listing[Begin + k]
      BY PageIs
    <3>2. DOMAIN OnPage = 1..m
      BY <2>3, <3>1, LenProperties
    <3> QED BY <2>1, <2>2, <3>1, <3>2
  <2>5. \A k \in 1..m : b + k \in 1..n
    BY <2>3
  <2>6. \A k \in 1..n : k > b /\ k <= b + z => k - b \in 1..m
    BY <2>3
  <2>7. DOMAIN listing = 1..n
    BY <1>1, <2>2
  <2>8. \A k, l \in 1..m : ans[k] = ans[l] => k = l
    <3> SUFFICES ASSUME NEW k \in 1..m, NEW l \in 1..m, ans[k] = ans[l] PROVE k = l
      OBVIOUS
    <3>1. b + k = b + l
      BY <1>1, <2>4, <2>5, <2>7
    <3> QED BY <3>1
  <2>9. Now = {listing[k] : k \in {k \in 1..n : k > b /\ k <= b + z}}
    BY <1>2, <2>2, <2>7 DEF Now
  <2>10. ToSet(ans) \subseteq Now
    <3> SUFFICES ASSUME NEW k \in 1..m PROVE ans[k] \in Now
      BY <2>4 DEF ToSet
    <3>1. b + k \in 1..n /\ b + k > b /\ b + k <= b + z
      BY <2>3, <2>5
    <3> QED BY <2>4, <2>9, <3>1
  <2>11. Now \subseteq ToSet(ans)
    <3> SUFFICES ASSUME NEW k \in 1..n, k > b, k <= b + z PROVE listing[k] \in ToSet(ans)
      BY <2>9
    <3>1. k - b \in 1..m /\ b + (k - b) = k
      BY <2>6
    <3>2. ans[k - b] = listing[k]
      BY <2>4, <3>1
    <3> QED BY <2>4, <3>1, <3>2 DEF ToSet
  <2>12. ASSUME NEW i, NEW j, Earlier(ans, i, j) PROVE Earlier(listing, i, j)
    <3>1. PICK k \in 1..m, l \in 1..m : k < l /\ ans[k] = i /\ ans[l] = j
      BY <2>4, <2>12 DEF Earlier
    <3>2. b + k \in 1..n /\ b + l \in 1..n /\ b + k < b + l
      BY <2>5, <3>1
    <3>3. listing[b + k] = i /\ listing[b + l] = j
      BY <2>4, <3>1
    <3> QED BY <2>7, <3>2, <3>3 DEF Earlier
  <2>13. ASSUME NEW i \in Now, NEW j \in Now, Earlier(listing, i, j) PROVE Earlier(ans, i, j)
    <3>1. PICK k \in 1..n, l \in 1..n : k < l /\ listing[k] = i /\ listing[l] = j
      BY <2>7, <2>13 DEF Earlier
    <3>2. PICK p \in 1..m, q \in 1..m : ans[p] = i /\ ans[q] = j
      BY <2>4, <2>11 DEF ToSet
    <3>3. b + p = k /\ b + q = l
      BY <1>1, <2>4, <2>5, <2>7, <3>1, <3>2
    <3>4. p < q
      BY <3>1, <3>3
    <3> QED BY <2>4, <3>2, <3>4 DEF Earlier
  <2> QED BY <2>4, <2>8, <2>10, <2>11, <2>12, <2>13
<1>3. CASE ~Paged /\ tool = "collection"
  BY <1>1, <1>3 DEF Answers, Now
<1>4. CASE ~Paged /\ tool # "collection"
  <2>1. ans \in SetToSeqs(ToSet(listing)) /\ Now = ToSet(listing)
    BY <1>4 DEF Answers, Now
  <2>2. ToSet(listing) \subseteq Items
    BY <1>1 DEF ToSet
  <2>3. IsFiniteSet(ToSet(listing))
    BY <2>2, SearchTypes, FS_Subset
  <2>4. /\ ans \in Seq(ToSet(listing)) /\ ToSet(ans) = ToSet(listing)
        /\ \A k, l \in DOMAIN ans : ans[k] = ans[l] => k = l
    BY <2>1, <2>3, Orders
  <2>5. Sorted
    BY <1>4 DEF Sorted, Paged, Tools, WalkTypeOK
  <2>6. ans \in Seq(Items)
    BY <2>2, <2>4
  <2> QED BY <2>1, <2>4, <2>5, <2>6
<1> QED BY <1>2, <1>3, <1>4

\* What is on the present page is not on one before it, and is finite.
LEMMA NowIs ==
    ASSUME WalkTypeOK
    PROVE  /\ Now \subseteq ToSet(listing) /\ Behind \subseteq ToSet(listing)
           /\ ToSet(listing) \subseteq Items /\ Behind \cap Now = {}
           /\ IsFiniteSet(hits \cap Now) /\ Cardinality(hits \cap Now) \in Nat
<1>1. /\ listing \in Seq(Items) /\ \A k, l \in DOMAIN listing : listing[k] = listing[l] => k = l
  BY DEF WalkTypeOK
<1>2. Now \subseteq ToSet(listing) /\ Behind \subseteq ToSet(listing) /\ ToSet(listing) \subseteq Items
  BY <1>1 DEF Now, Behind, ToSet
<1>3. Behind \cap Now = {}
  <2>1. CASE Paged
    <3>1. PICK b \in Nat, z \in Nat : b = Begin /\ z = PageSize
      BY Begins, SearchTypes DEF WalkTypeOK
    <3>2. \A k \in DOMAIN listing : k \in Nat
      BY <1>1
    <3> QED BY <1>1, <2>1, <3>1, <3>2 DEF Now, Behind
  <2>2. CASE ~Paged
    <3>1. Begin = 0
      BY <2>2, Begins DEF WalkTypeOK
    <3>2. \A k \in DOMAIN listing : ~(k <= 0)
      BY <1>1
    <3> QED BY <3>1, <3>2 DEF Behind
  <2> QED BY <2>1, <2>2
<1>4. IsFiniteSet(hits \cap Now) /\ Cardinality(hits \cap Now) \in Nat
  <2>1. hits \cap Now \subseteq Items
    BY <1>2
  <2> QED BY <2>1, SearchTypes, FS_Subset, FS_CardinalityType
<1> QED BY <1>2, <1>3, <1>4

\* The order of a search is one.
LEMMA Ordered ==
    ASSUME WalkTypeOK
    PROVE  /\ \A i \in ToSet(listing) : ~InOrder(i, i)
           /\ \A i, j \in ToSet(listing) : i # j => InOrder(i, j) \/ InOrder(j, i)
           /\ \A i, j, k \in ToSet(listing) : InOrder(i, j) /\ InOrder(j, k) => InOrder(i, k)
<1>1. /\ listing \in Seq(Items) /\ \A k, l \in DOMAIN listing : listing[k] = listing[l] => k = l
  BY DEF WalkTypeOK
<1>2. CASE Sorted
  <2>1. \A i \in ToSet(listing) : i \in Int /\ name[i] \in Int
    <3>1. name \in [Items -> Names] /\ ToSet(listing) \subseteq Items
      BY <1>2, NowIs DEF WalkTypeOK
    <3> QED BY <3>1, SearchTypes
  <2> QED BY <1>2, <2>1 DEF InOrder, Before
<1>3. CASE ~Sorted
  <2>1. PICK n \in Nat : n = Len(listing) /\ DOMAIN listing = 1..n
    BY <1>1
  <2>2. \A i, j : InOrder(i, j) <=>
                    \E k, l \in 1..n : k < l /\ listing[k] = i /\ listing[l] = j
    BY <1>3, <2>1 DEF InOrder, Earlier
  <2>3. \A i \in ToSet(listing) : \E k \in 1..n : listing[k] = i
    BY <2>1 DEF ToSet
  <2>4. \A k, l \in 1..n : listing[k] = listing[l] => k = l
    BY <1>1, <2>1
  <2>5. ASSUME NEW i, InOrder(i, i) PROVE FALSE
    <3>1. PICK k \in 1..n, l \in 1..n : k < l /\ listing[k] = i /\ listing[l] = i
      BY <2>2, <2>5
    <3> QED BY <2>4, <3>1
  <2>6. ASSUME NEW i \in ToSet(listing), NEW j \in ToSet(listing), i # j
        PROVE  InOrder(i, j) \/ InOrder(j, i)
    <3>1. PICK k \in 1..n, l \in 1..n : listing[k] = i /\ listing[l] = j
      BY <2>3
    <3>2. k < l \/ l < k
      BY <2>6, <3>1
    <3> QED BY <2>2, <3>1, <3>2
  <2>7. ASSUME NEW i, NEW j, NEW m, InOrder(i, j), InOrder(j, m) PROVE InOrder(i, m)
    <3>1. PICK k \in 1..n, l \in 1..n : k < l /\ listing[k] = i /\ listing[l] = j
      BY <2>2, <2>7
    <3>2. PICK p \in 1..n, q \in 1..n : p < q /\ listing[p] = j /\ listing[q] = m
      BY <2>2, <2>7
    <3>3. p = l
      BY <2>4, <3>1, <3>2
    <3>4. k < q
      BY <3>1, <3>2, <3>3
    <3> QED BY <2>2, <3>1, <3>2, <3>4
  <2> QED BY <2>5, <2>6, <2>7
<1> QED BY <1>2, <1>3

\* Turns number the matches of the present page from 0.
LEMMA TurnIs ==
    ASSUME WalkTypeOK
    PROVE  LET S == hits \cap Now
               place == [i \in S |-> Turn(i)]
           IN  /\ place \in Bijection(S, 0..Cardinality(S) - 1)
               /\ \A i : Turn(i) \in Nat
<1> DEFINE S == hits \cap Now
           place == [i \in S |-> Turn(i)]
           R == {p \in S \X S : InOrder(p[1], p[2])}
<1>1. IsFiniteSet(S) /\ S \subseteq ToSet(listing)
  BY NowIs
<1>2. \A i, j \in S : <<i, j>> \in R <=> InOrder(i, j)
  OBVIOUS
<1>3. /\ \A i \in S : <<i, i>> \notin R
      /\ \A i, j \in S : i # j => <<i, j>> \in R \/ <<j, i>> \in R
      /\ \A i, j, k \in S : <<i, j>> \in R /\ <<j, k>> \in R => <<i, k>> \in R
  <2> HIDE DEF R, S
  <2> QED BY <1>1, <1>2, Ordered
<1>4. \A i \in S : Turn(i) = Cardinality(Lower(i, S, R))
  BY <1>2 DEF Turn, Lower
<1>5. [i \in S |-> Cardinality(Lower(i, S, R))] \in Bijection(S, 0..Cardinality(S) - 1)
  <2> HIDE DEF R, S
  <2> QED BY <1>1, <1>3, Ranked
<1>6. place = [i \in S |-> Cardinality(Lower(i, S, R))]
  <2> HIDE DEF R, S
  <2> QED BY <1>4 DEF place
<1>7. ASSUME NEW i PROVE Turn(i) \in Nat
  <2>1. {j \in S : InOrder(j, i)} \subseteq S
    OBVIOUS
  <2>2. IsFiniteSet({j \in S : InOrder(j, i)})
    BY <1>1, <2>1, FS_Subset
  <2> QED BY <2>2, FS_CardinalityType DEF Turn
<1> QED BY <1>5, <1>6, <1>7

\* What is shown: the matches whose turn it is.
LEMMA ShownIs ==
    ASSUME WalkTypeOK, limit > 0, NEW ans \in Answers
    PROVE  /\ Found(ans) = hits \cap Now
           /\ Shown(ans) = {i \in hits \cap Now : Turn(i) \in offset..offset + limit - 1}
           /\ Consumed(ans) \in Nat
           /\ Consumed(ans) <= offset + limit
           /\ IF Exhausted(ans) THEN \A i \in hits \cap Now : Turn(i) < offset + limit
              ELSE /\ Consumed(ans) = offset + limit
                   /\ \E i \in hits \cap Now : Turn(i) = offset + limit
<1> DEFINE S == hits \cap Now
           place == [i \in S |-> Turn(i)]
           shown == Window(place, S, offset, limit)
<1>1. Found(ans) = S
  BY AnswerIs DEF Found
<1>2. S \subseteq ToSet(listing) /\ S \subseteq Now /\ S \subseteq Items
  BY NowIs
<1>3. ASSUME NEW i \in S, NEW j \in S PROVE Precedes(ans, i, j) <=> InOrder(i, j)
  <2>1. CASE Sorted
    <3>1. i \in Int /\ j \in Int /\ name[i] \in Int /\ name[j] \in Int
      <4>1. name \in [Items -> Names]
        BY <2>1 DEF WalkTypeOK
      <4> QED BY <1>2, <4>1, SearchTypes
    <3>2. Earlier(ans, i, j) => i # j
      <4>1. /\ ans \in Seq(Items)
            /\ \A k, l \in DOMAIN ans : ans[k] = ans[l] => k = l
        BY AnswerIs
      <4>2. \A k, l \in DOMAIN ans : k < l => k # l
        BY <4>1
      <4> QED BY <4>1, <4>2 DEF Earlier
    <3> QED BY <2>1, <3>1, <3>2 DEF Precedes, InOrder, Before
  <2>2. CASE ~Sorted
    <3>1. Earlier(ans, i, j) <=> Earlier(listing, i, j)
      BY <1>2, <2>2, AnswerIs
    <3> QED BY <2>2, <3>1 DEF Precedes, InOrder
  <2> QED BY <2>1, <2>2
<1>4. ASSUME NEW i \in S PROVE Place(ans, i) = Turn(i)
  <2>1. {j \in S : Precedes(ans, j, i)} = {j \in S : InOrder(j, i)}
    BY <1>3
  <2> QED BY <1>1, <2>1 DEF Place, Turn
<1>5. Shown(ans) = {i \in S : Turn(i) \in offset..offset + limit - 1}
  BY <1>1, <1>4 DEF Shown
<1>6. Shown(ans) = shown
  BY <1>5 DEF Window
<1>7. PICK n \in Nat : n = Cardinality(S)
  BY NowIs
<1>8. IsFiniteSet(S) /\ place \in Bijection(S, 0..n - 1)
  BY <1>7, NowIs, TurnIs
<1>9. offset \in Nat /\ limit \in Nat /\ limit > 0
  BY DEF WalkTypeOK
<1>10. \A i \in S : place[i] = Turn(i)
  OBVIOUS
<1> HIDE DEF S, place
<1>11. /\ IsFiniteSet(shown) /\ Cardinality(shown) \in Nat /\ Cardinality(shown) <= limit
       /\ IF offset + Cardinality(shown) < n
          THEN Cardinality(shown) = limit /\ \E i \in S : place[i] = offset + limit
          ELSE \A i \in S : place[i] < offset + limit
  BY <1>7, <1>8, <1>9, Windowed
<1>12. PICK m \in Nat : m = Cardinality(Shown(ans)) /\ m = Cardinality(shown)
  BY <1>6, <1>11
<1>13. Consumed(ans) = offset + m /\ (Exhausted(ans) <=> offset + m >= n)
  BY <1>1, <1>7, <1>12 DEF Consumed, Exhausted
<1>14. Consumed(ans) \in Nat /\ Consumed(ans) <= offset + limit
  BY <1>9, <1>11, <1>12, <1>13
<1>15. IF Exhausted(ans) THEN \A i \in S : Turn(i) < offset + limit
       ELSE /\ Consumed(ans) = offset + limit
            /\ \E i \in S : Turn(i) = offset + limit
  BY <1>9, <1>10, <1>11, <1>12, <1>13
<1> QED BY <1>1, <1>5, <1>14, <1>15 DEF S

\* Where there is no further page, everything is on this one or on one before it.
LEMMA LastIs ==
    ASSUME WalkTypeOK, NEW ans \in Answers
    PROVE  /\ ~MorePages(ans) => ToSet(listing) = Behind \cup Now
           /\ Paged => Behind \cup Now =
                {listing[k] : k \in {k \in DOMAIN listing : k <= Begin + PageSize}}
<1>1. PICK n \in Nat : n = Len(listing) /\ DOMAIN listing = 1..n
  BY DEF WalkTypeOK
<1>2. PICK b \in Nat, z \in Nat : b = Begin /\ z = PageSize /\ z > 0
  BY Begins, SearchTypes DEF WalkTypeOK
<1>3. CASE Paged
  <2>1. Behind = {listing[k] : k \in {k \in 1..n : k <= b}}
    BY <1>1, <1>2 DEF Behind
  <2>2. Now = {listing[k] : k \in {k \in 1..n : k > b /\ k <= b + z}}
    BY <1>1, <1>2, <1>3 DEF Now
  <2>3. Behind \cup Now = {listing[k] : k \in {k \in 1..n : k <= b + z}}
    BY <2>1, <2>2
  <2>4. ASSUME ~MorePages(ans) PROVE n <= b + z
    <3>1. ans = OnPage
      BY <1>3 DEF Answers, Paged
    <3>2. Len(OnPage) # PageSize
      BY <1>3, <2>4, <3>1 DEF MorePages
    <3> QED BY <1>1, <1>2, <3>2, PageIs
  <2>5. ToSet(listing) = {listing[k] : k \in 1..n}
    BY <1>1 DEF ToSet
  <2>6. n <= b + z => ToSet(listing) = Behind \cup Now
    <3> SUFFICES ASSUME n <= b + z PROVE ToSet(listing) = Behind \cup Now
      OBVIOUS
    <3>1. {k \in 1..n : k <= b + z} = 1..n
      OBVIOUS
    <3> QED BY <2>3, <2>5, <3>1
  <2> QED BY <1>1, <1>2, <2>3, <2>4, <2>6
<1>4. CASE ~Paged
  <2>1. Now = ToSet(listing) /\ Behind \subseteq ToSet(listing)
    BY <1>4, NowIs DEF Now
  <2> QED BY <1>4, <2>1
<1> QED BY <1>3, <1>4

-------------------------------------------------------------------------------
(* Walks through a search *)

\* While nothing changes: of the present page just those are seen whose turn was, nothing
\* of what comes after it, and of what came before it all, unless truncated was said.
QuietWalk ==
    /\ \A i \in Items : i \notin hits \cap (Behind \cup Now) => seen[i] = 0
    /\ \A i \in hits \cap Now : seen[i] = IF Turn(i) < offset THEN 1 ELSE 0
    /\ \A i \in hits \cap Behind : seen[i] <= 1
    /\ cut <=> \E i \in hits \cap Behind : seen[i] = 0

\* What was there at the beginning is seen once the walk has passed it.
NothingMissed ==
    \A k \in changes + 1..Len(listing) :
        /\ listing[k] \in hits
        /\ k <= Begin \/ (k <= Begin + PageSize /\ Turn(listing[k]) < offset)
        => seen[listing[k]] > 0

\* A walk that goes on.
Walking ==
    /\ WalkTypeOK
    /\ changes = 0 => QuietWalk
    /\ tool = "operations" /\ ~cut => NothingMissed

\* The invariant of a walk.
WalkInv ==
    /\ pc \in {"walking", "ended", "refused"}
    /\ pc = "walking" => Walking
    /\ WalkIsExact /\ NoOperationMissed

\* What a call does to what is seen.
Counted(ans) ==
    seen' = [i \in Items |-> IF i \in Shown(ans) THEN seen[i] + 1 ELSE seen[i]]

\* What was shown once more.
LEMMA SeenThen ==
    ASSUME Walking, limit > 0, NEW ans \in Answers, Counted(ans)
    PROVE  /\ seen' \in [Items -> Nat]
           /\ \A i \in Items : seen'[i] >= seen[i]
           /\ \A i \in hits \cap Now :
                offset <= Turn(i) /\ Turn(i) < offset + limit => seen'[i] = seen[i] + 1
           /\ \A i \in Items : i \notin hits \cap Now => seen'[i] = seen[i]
           /\ \A i \in hits \cap Now :
                ~(offset <= Turn(i) /\ Turn(i) < offset + limit) => seen'[i] = seen[i]
           /\ hits \cap Now \subseteq Items /\ hits \cap Behind \subseteq Items
<1>1. /\ seen \in [Items -> Nat] /\ offset \in Nat /\ limit \in Nat /\ hits \subseteq Items
  BY DEF Walking, WalkTypeOK
<1>2. \A i : Turn(i) \in Nat
  BY TurnIs DEF Walking
<1>3. Shown(ans) = {i \in hits \cap Now : Turn(i) \in offset..offset + limit - 1}
  BY ShownIs DEF Walking
<1>4. \A i : Turn(i) \in offset..offset + limit - 1
                <=> offset <= Turn(i) /\ Turn(i) < offset + limit
  BY <1>1, <1>2
<1> QED BY <1>1, <1>3, <1>4 DEF Counted

\* Nothing that a search and its listing are made of changes.
Same == UNCHANGED <<question, listing, changes>>

\* Then everything that is defined of them stays the same.
LEMMA SameSearch ==
    ASSUME Same
    PROVE  /\ Sorted' = Sorted /\ Paged' = Paged
           /\ page' = page => Begin' = Begin /\ Behind' = Behind /\ Now' = Now
           /\ \A i, j : InOrder(i, j)' = InOrder(i, j)
           /\ page' = page => \A i : Turn(i)' = Turn(i)
<1>1. /\ tool' = tool /\ modern' = modern /\ limit' = limit /\ name' = name /\ hits' = hits
      /\ listing' = listing /\ changes' = changes
  BY DEF Same, question
<1>2. Sorted' = Sorted /\ Paged' = Paged
  BY <1>1 DEF Sorted, Paged
<1>3. ASSUME page' = page PROVE Begin' = Begin /\ Behind' = Behind /\ Now' = Now
  BY <1>1, <1>2, <1>3 DEF Begin, Behind, Now
<1>4. \A i, j : InOrder(i, j)' = InOrder(i, j)
  BY <1>1, <1>2 DEF InOrder, Before, Earlier
<1>5. ASSUME page' = page, NEW i PROVE Turn(i)' = Turn(i)
  <2>1. hits' \cap Now' = hits \cap Now
    BY <1>1, <1>3, <1>5
  <2>2. {j \in hits' \cap Now' : InOrder(j, i)'} = {j \in hits \cap Now : InOrder(j, i)}
    BY <1>4, <2>1
  <2> QED BY <2>2 DEF Turn
<1> QED BY <1>2, <1>3, <1>4, <1>5

\* The client goes on within an answer.
LEMMA OffsetKeeps ==
    ASSUME Walking, limit > 0, NEW ans \in Answers, Counted(ans), Same,
           cut' = (cut \/ Truncated(ans)), NextOffset(ans) # None,
           offset' = NextOffset(ans), UNCHANGED <<page, pc>>
    PROVE  Walking'
<1>1. ~Exhausted(ans) /\ offset' = Consumed(ans) /\ cut' = cut
  <2>1. ~Exhausted(ans) /\ offset' = Consumed(ans)
    BY DEF NextOffset
  <2>2. ~Truncated(ans)
    BY DEF Truncated
  <2> QED BY <2>1, <2>2 DEF Walking, WalkTypeOK
<1>2. WalkTypeOK /\ \A i : Turn(i) \in Nat
  BY TurnIs DEF Walking
<1>3. offset' = offset + limit /\ offset' \in Nat
  BY <1>1, <1>2, ShownIs
<1>4. WalkTypeOK'
  BY <1>1, <1>2, <1>3, SameSearch, SeenThen DEF WalkTypeOK, Same, question
<1>5. /\ Begin' = Begin /\ Behind' = Behind /\ Now' = Now /\ \A i : Turn(i)' = Turn(i)
      /\ hits' = hits /\ listing' = listing /\ changes' = changes /\ tool' = tool
  BY SameSearch DEF Same, question
<1>6. /\ \A i \in hits \cap Now : seen'[i] =
            IF offset <= Turn(i) /\ Turn(i) < offset + limit THEN seen[i] + 1 ELSE seen[i]
      /\ \A i \in Items : i \notin hits \cap Now => seen'[i] = seen[i]
      /\ \A i \in Items : seen'[i] >= seen[i]
      /\ hits \cap Now \subseteq Items /\ hits \cap Behind \subseteq Items
      /\ Behind \cap Now = {} /\ offset \in Nat /\ limit \in Nat
      /\ seen \in [Items -> Nat]
  BY <1>2, SeenThen, NowIs DEF WalkTypeOK
<1>7. ASSUME changes = 0 PROVE QuietWalk'
  <2>1. QuietWalk
    BY <1>7 DEF Walking
  <2>2. \A i \in Items : i \notin hits \cap (Behind \cup Now) => seen'[i] = 0
    BY <1>6, <2>1 DEF QuietWalk
  <2>3. \A i \in hits \cap Now : seen'[i] = IF Turn(i) < offset' THEN 1 ELSE 0
    BY <1>2, <1>3, <1>6, <2>1 DEF QuietWalk
  <2>4. \A i \in hits \cap Behind : seen'[i] = seen[i]
    BY <1>6
  <2>5. \A i \in hits \cap Behind : seen'[i] <= 1
    BY <2>1, <2>4 DEF QuietWalk
  <2>6. cut <=> \E i \in hits \cap Behind : seen'[i] = 0
    BY <2>1, <2>4 DEF QuietWalk
  <2> QED BY <1>1, <1>5, <2>2, <2>3, <2>5, <2>6 DEF QuietWalk
<1>8. ASSUME tool = "operations", ~cut PROVE NothingMissed'
  <2>1. NothingMissed
    BY <1>8 DEF Walking
  <2>2. ASSUME NEW k \in changes + 1..Len(listing), listing[k] \in hits,
               k <= Begin \/ (k <= Begin + PageSize /\ Turn(listing[k]) < offset')
        PROVE  seen'[listing[k]] > 0
    <3>1. listing[k] \in Items /\ seen[listing[k]] \in Nat /\ seen'[listing[k]] \in Nat
      <4>1. listing[k] \in Items
        BY <2>2, <1>2 DEF WalkTypeOK
      <4> QED BY <4>1, <1>6, SeenThen
    <3>2. CASE seen[listing[k]] > 0
      BY <1>6, <3>1, <3>2
    <3>3. CASE ~(seen[listing[k]] > 0)
      <4>1. ~(k <= Begin) /\ k <= Begin + PageSize
        BY <2>1, <2>2, <3>3 DEF NothingMissed
      <4>2. ~(Turn(listing[k]) < offset) /\ Turn(listing[k]) < offset + limit
        BY <1>3, <2>1, <2>2, <3>3, <4>1 DEF NothingMissed
      <4>3. listing[k] \in Now
        <5>1. k \in DOMAIN listing /\ k > Begin
          BY <1>2, <4>1, Begins DEF WalkTypeOK
        <5>2. Paged
          BY <1>8 DEF Paged
        <5> QED BY <4>1, <5>1, <5>2 DEF Now
      <4>4. offset <= Turn(listing[k])
        BY <1>2, <1>6, <4>2
      <4> QED BY <1>6, <2>2, <3>1, <4>2, <4>3, <4>4
    <3> QED BY <3>2, <3>3
  <2> QED BY <1>5, <2>2, Begins DEF NothingMissed
<1> QED BY <1>1, <1>4, <1>5, <1>7, <1>8 DEF Walking

\* What was seen of the present page after an answer without a next offset.
LEMMA PageSeen ==
    ASSUME Walking, limit > 0, NEW ans \in Answers, Counted(ans), NextOffset(ans) = None
    PROVE  /\ Truncated(ans) <=> ~Exhausted(ans)
           /\ Exhausted(ans) => \A i \in hits \cap Now : Turn(i) < offset + limit
           /\ ~Exhausted(ans) => \E i \in hits \cap Now : Turn(i) = offset + limit
           /\ changes = 0 =>
                /\ QuietWalk
                /\ \A i \in hits \cap Now :
                        seen'[i] = IF Turn(i) < offset + limit THEN 1 ELSE 0
                /\ \A i \in hits \cap Behind : seen'[i] = seen[i]
                /\ \A i \in Items : i \notin hits \cap (Behind \cup Now) => seen'[i] = 0
           /\ \A i \in hits \cap Now : Exhausted(ans) /\ ~(Turn(i) < offset) => seen'[i] > 0
<1>1. WalkTypeOK /\ offset \in Nat /\ limit \in Nat /\ \A i : Turn(i) \in Nat
  BY TurnIs DEF Walking, WalkTypeOK
<1>2. Truncated(ans) <=> ~Exhausted(ans)
  BY DEF Truncated
<1>3. /\ Exhausted(ans) => \A i \in hits \cap Now : Turn(i) < offset + limit
      /\ ~Exhausted(ans) => \E i \in hits \cap Now : Turn(i) = offset + limit
  BY <1>1, ShownIs
<1>4. /\ \A i \in hits \cap Now : seen'[i] =
            IF offset <= Turn(i) /\ Turn(i) < offset + limit THEN seen[i] + 1 ELSE seen[i]
      /\ \A i \in Items : i \notin hits \cap Now => seen'[i] = seen[i]
      /\ hits \cap Now \subseteq Items /\ hits \cap Behind \subseteq Items
      /\ Behind \cap Now = {} /\ seen \in [Items -> Nat]
  BY <1>1, SeenThen, NowIs DEF WalkTypeOK
<1>5. ASSUME changes = 0
      PROVE  /\ QuietWalk
             /\ \A i \in hits \cap Now : seen'[i] = IF Turn(i) < offset + limit THEN 1 ELSE 0
             /\ \A i \in hits \cap Behind : seen'[i] = seen[i]
             /\ \A i \in Items : i \notin hits \cap (Behind \cup Now) => seen'[i] = 0
  <2>1. QuietWalk
    BY <1>5 DEF Walking
  <2>2. \A i \in Items : i \notin hits \cap (Behind \cup Now) => seen'[i] = 0
    BY <1>4, <2>1 DEF QuietWalk
  <2>3. \A i \in hits \cap Now : seen'[i] = IF Turn(i) < offset + limit THEN 1 ELSE 0
    BY <1>1, <1>4, <2>1 DEF QuietWalk
  <2>4. \A i \in hits \cap Behind : seen'[i] = seen[i]
    BY <1>4
  <2> QED BY <2>1, <2>2, <2>3, <2>4
<1>6. ASSUME NEW i \in hits \cap Now, Exhausted(ans), ~(Turn(i) < offset) PROVE seen'[i] > 0
  <2>1. offset <= Turn(i) /\ Turn(i) < offset + limit
    BY <1>1, <1>3, <1>6
  <2>2. seen'[i] = seen[i] + 1 /\ seen[i] \in Nat
    BY <1>4, <2>1
  <2> QED BY <2>2
<1> QED BY <1>2, <1>3, <1>5, <1>6

\* What was passed so far is seen after an answer that shows the rest of its page.
LEMMA PageMissed ==
    ASSUME Walking, limit > 0, NEW ans \in Answers, Counted(ans), NextOffset(ans) = None,
           Exhausted(ans), tool = "operations", ~cut,
           NEW k \in changes + 1..Len(listing), listing[k] \in hits, k <= Begin + PageSize
    PROVE  seen'[listing[k]] > 0
<1>1. WalkTypeOK /\ NothingMissed
  BY DEF Walking
<1>2. listing[k] \in Items /\ seen[listing[k]] \in Nat /\ seen'[listing[k]] \in Nat
      /\ seen'[listing[k]] >= seen[listing[k]]
  <2>1. listing[k] \in Items
    BY <1>1 DEF WalkTypeOK
  <2>2. seen \in [Items -> Nat]
    BY <1>1 DEF WalkTypeOK
  <2> QED BY <2>1, <2>2, SeenThen
<1>3. CASE seen[listing[k]] > 0
  BY <1>2, <1>3
<1>4. CASE ~(seen[listing[k]] > 0)
  <2>1. ~(k <= Begin) /\ ~(Turn(listing[k]) < offset)
    BY <1>1, <1>4 DEF NothingMissed
  <2>2. listing[k] \in Now
    <3>1. k \in DOMAIN listing /\ k > Begin
      BY <1>1, <2>1, Begins DEF WalkTypeOK
    <3> QED BY <3>1 DEF Now, Paged
  <2> QED BY <2>1, <2>2, PageSeen
<1> QED BY <1>3, <1>4

\* The same of the present page, of the state after a step.
PagesApart == Now \cap Behind = {} /\ Now \subseteq Items /\ \A i : Turn(i) \in Nat
\* While the walk goes on.
LEMMA Apart == WalkTypeOK => PagesApart
BY NowIs, TurnIs DEF PagesApart
\* After a step.
LEMMA ApartThen == WalkTypeOK' => PagesApart'
BY Apart, PTL

\* The client goes on to the next page.
LEMMA PageKeeps ==
    ASSUME Walking, limit > 0, NEW ans \in Answers, Counted(ans), Same,
           cut' = (cut \/ Truncated(ans)), NextOffset(ans) = None, NextPage(ans),
           page' = page + 1, offset' = 0, UNCHANGED pc
    PROVE  Walking'
<1>1. WalkTypeOK /\ Paged /\ (tool = "operations" => Exhausted(ans)) /\ cut \in BOOLEAN
  BY DEF Walking, WalkTypeOK, NextPage, MorePages
<1>2. WalkTypeOK'
  BY <1>1, SameSearch, SeenThen DEF WalkTypeOK, Same, question
<1>3. /\ hits' = hits /\ listing' = listing /\ changes' = changes /\ tool' = tool
      /\ Sorted' = Sorted /\ Paged' = Paged
  BY SameSearch DEF Same, question
<1>4. Begin' = Begin + PageSize /\ Begin \in Nat
  BY <1>1, Begins DEF Begin, WalkTypeOK
<1>5. Behind' = Behind \cup Now
  BY <1>1, <1>3, <1>4, LastIs DEF Behind
<1>6. Now' \cap Behind' = {} /\ Now' \subseteq Items /\ \A i : Turn(i)' \in Nat
  BY <1>2, ApartThen DEF PagesApart
<1>7. ASSUME changes = 0 PROVE QuietWalk'
  <2>1. /\ QuietWalk
        /\ \A i \in hits \cap Now : seen'[i] = IF Turn(i) < offset + limit THEN 1 ELSE 0
        /\ \A i \in hits \cap Behind : seen'[i] = seen[i]
        /\ \A i \in Items : i \notin hits \cap (Behind \cup Now) => seen'[i] = 0
    BY <1>7, PageSeen
  <2>2. \A i \in Items : i \notin hits' \cap (Behind' \cup Now') => seen'[i] = 0
    BY <1>3, <1>5, <2>1
  <2>3. \A i \in hits' \cap Now' : seen'[i] = IF Turn(i)' < offset' THEN 1 ELSE 0
    <3> SUFFICES ASSUME NEW i \in hits' \cap Now' PROVE seen'[i] = 0 /\ ~(Turn(i)' < offset')
      OBVIOUS
    <3>1. i \in Items /\ i \notin Behind \cup Now
      BY <1>5, <1>6
    <3>2. ~(Turn(i)' < 0)
      BY <1>6
    <3> QED BY <2>1, <3>1, <3>2
  <2>4. \A i \in hits' \cap Behind' : seen'[i] <= 1
    BY <1>3, <1>5, <2>1 DEF QuietWalk
  <2>5. cut' <=> \E i \in hits' \cap Behind' : seen'[i] = 0
    <3>1. CASE Exhausted(ans)
      <4>1. cut' = cut
        BY <1>1, <3>1, PageSeen
      <4>2. \A i \in hits \cap Now : seen'[i] = 1
        BY <2>1, <3>1, PageSeen
      <4> QED BY <1>3, <1>5, <2>1, <4>1, <4>2 DEF QuietWalk
    <3>2. CASE ~Exhausted(ans)
      <4>1. cut'
        BY <3>2, PageSeen
      <4>2. PICK i \in hits \cap Now : Turn(i) = offset + limit
        BY <3>2, PageSeen
      <4>3. ~(Turn(i) < offset + limit)
        BY <1>1, <4>2 DEF WalkTypeOK
      <4> QED BY <1>3, <1>5, <2>1, <4>1, <4>3
    <3> QED BY <3>1, <3>2
  <2> QED BY <2>2, <2>3, <2>4, <2>5 DEF QuietWalk
<1>8. ASSUME tool = "operations", ~cut PROVE NothingMissed'
  <2>1. \A k \in changes + 1..Len(listing) :
            listing[k] \in hits /\ k <= Begin + PageSize => seen'[listing[k]] > 0
    BY <1>1, <1>8, PageMissed
  <2>2. \A i : ~(Turn(i)' < 0)
    BY <1>6
  <2> QED BY <1>3, <1>4, <2>1, <2>2 DEF NothingMissed
<1> QED BY <1>2, <1>3, <1>7, <1>8 DEF Walking

\* The walk ends.
LEMMA EndKeeps ==
    ASSUME Walking, limit > 0, NEW ans \in Answers, Counted(ans), Same,
           cut' = (cut \/ Truncated(ans)), NextOffset(ans) = None, ~NextPage(ans),
           pc' = "ended"
    PROVE  WalkIsExact' /\ NoOperationMissed'
<1>1. /\ WalkTypeOK /\ cut \in BOOLEAN /\ offset \in Nat /\ limit \in Nat
      /\ listing \in Seq(Items)
  BY DEF Walking, WalkTypeOK
<1>2. /\ hits' = hits /\ listing' = listing /\ changes' = changes /\ tool' = tool
  BY DEF Same, question
<1>3. ~Exhausted(ans) \/ ToSet(listing) = Behind \cup Now
  BY <1>1, LastIs DEF NextPage
<1>4. /\ Behind \cup Now \subseteq ToSet(listing) /\ ToSet(listing) \subseteq Items
  BY <1>1, NowIs
<1>5. WalkIsExact'
  <2>1. SUFFICES ASSUME changes = 0
                 PROVE  /\ \A i \in Items :
                            seen'[i] <= IF i \in hits \cap ToSet(listing) THEN 1 ELSE 0
                        /\ cut' <=> \E i \in hits \cap ToSet(listing) : seen'[i] = 0
    BY <1>2 DEF WalkIsExact
  <2>2. /\ QuietWalk
        /\ \A i \in hits \cap Now : seen'[i] = IF Turn(i) < offset + limit THEN 1 ELSE 0
        /\ \A i \in hits \cap Behind : seen'[i] = seen[i]
        /\ \A i \in Items : i \notin hits \cap (Behind \cup Now) => seen'[i] = 0
    BY <2>1, PageSeen
  <2>3. /\ \A i \in hits \cap Now : seen'[i] <= 1
        /\ \A i \in hits \cap Behind : seen'[i] <= 1
    BY <2>2 DEF QuietWalk
  <2>4. ASSUME NEW i \in Items
        PROVE  seen'[i] <= IF i \in hits \cap ToSet(listing) THEN 1 ELSE 0
    <3>1. CASE i \in hits \cap (Behind \cup Now)
      BY <1>4, <2>3, <3>1
    <3>2. CASE i \notin hits \cap (Behind \cup Now)
      BY <2>2, <3>2
    <3> QED BY <3>1, <3>2
  <2>5. CASE Exhausted(ans)
    <3>1. cut' = cut
      BY <1>1, <2>5, PageSeen
    <3>2. \A i \in hits \cap Now : seen'[i] = 1
      BY <2>2, <2>5, PageSeen
    <3> QED BY <1>3, <2>2, <2>4, <2>5, <3>1, <3>2 DEF QuietWalk
  <2>6. CASE ~Exhausted(ans)
    <3>1. cut'
      BY <2>6, PageSeen
    <3>2. PICK i \in hits \cap Now : Turn(i) = offset + limit
      BY <2>6, PageSeen
    <3>3. ~(Turn(i) < offset + limit)
      BY <1>1, <3>2
    <3> QED BY <1>4, <2>2, <2>4, <3>1, <3>3
  <2> QED BY <2>5, <2>6
<1>6. NoOperationMissed'
  <2>1. SUFFICES ASSUME tool = "operations", ~cut', NEW k \in changes + 1..Len(listing),
                        listing[k] \in hits
                 PROVE  seen'[listing[k]] > 0
    BY <1>2 DEF NoOperationMissed
  <2>2. ~cut /\ Exhausted(ans)
    BY <2>1, PageSeen
  <2>3. ~MorePages(ans) /\ Paged
    BY <2>1, <2>2 DEF NextPage, Paged
  <2>4. k <= Begin + PageSize
    <3>1. k \in 1..Len(listing)
      BY <1>1, <2>1 DEF WalkTypeOK
    <3>2. ans = OnPage /\ Len(OnPage) # PageSize
      BY <2>3 DEF Answers, Paged, MorePages
    <3>3. Begin \in Nat /\ PageSize \in Nat /\ Len(listing) \in Nat
      BY <1>1, Begins, SearchTypes DEF WalkTypeOK
    <3>4. Len(listing) <= Begin \/ Len(listing) <= Begin + PageSize
      BY <1>1, <3>2, PageIs
    <3> QED BY <3>1, <3>3, <3>4
  <2> QED BY <2>1, <2>2, <2>4, PageMissed
<1> QED BY <1>5, <1>6

\* The client asks for a window, and goes on, or ends.
LEMMA CallKeeps ==
    ASSUME WalkInv, Call
    PROVE  WalkInv'
<1>1. Walking /\ limit > 0 /\ pc = "walking"
  BY DEF WalkInv, Call, Accepts
<1>2. PICK ans \in Answers :
        /\ Counted(ans) /\ cut' = (cut \/ Truncated(ans))
        /\ IF NextOffset(ans) # None
           THEN offset' = NextOffset(ans) /\ UNCHANGED <<page, pc>>
           ELSE IF NextPage(ans)
           THEN page' = page + 1 /\ offset' = 0 /\ UNCHANGED pc
           ELSE pc' = "ended" /\ UNCHANGED <<page, offset>>
  BY DEF Call, Counted
<1>3. Same
  BY DEF Call, Same
<1>4. CASE NextOffset(ans) # None
  <2>1. Walking' /\ pc' = "walking"
    BY <1>1, <1>2, <1>3, <1>4, OffsetKeeps
  <2> QED BY <2>1 DEF WalkInv, WalkIsExact, NoOperationMissed
<1>5. CASE NextOffset(ans) = None /\ NextPage(ans)
  <2>1. Walking' /\ pc' = "walking"
    BY <1>1, <1>2, <1>3, <1>5, PageKeeps
  <2> QED BY <2>1 DEF WalkInv, WalkIsExact, NoOperationMissed
<1>6. CASE NextOffset(ans) = None /\ ~NextPage(ans)
  <2>1. WalkIsExact' /\ NoOperationMissed' /\ pc' = "ended"
    BY <1>1, <1>2, <1>3, <1>6, EndKeeps
  <2> QED BY <2>1 DEF WalkInv
<1> QED BY <1>4, <1>5, <1>6

\* One more in a sequence, and one less.
LEMMA Inserted ==
    ASSUME NEW S, NEW s \in Seq(S), NEW i \in S, i \notin ToSet(s), NEW k \in 1..Len(s) + 1,
           \A p, q \in DOMAIN s : s[p] = s[q] => p = q
    PROVE  LET t == InsertAt(s, k, i)
           IN  /\ t \in Seq(S) /\ Len(t) = Len(s) + 1
               /\ \A m \in 1..Len(s) + 1 :
                    t[m] = IF m < k THEN s[m] ELSE IF m = k THEN i ELSE s[m - 1]
               /\ \A p, q \in DOMAIN t : t[p] = t[q] => p = q
<1> DEFINE a == SubSeq(s, 1, k - 1)
           b == SubSeq(s, k, Len(s))
           t == InsertAt(s, k, i)
<1>1. PICK n \in Nat : n = Len(s) /\ DOMAIN s = 1..n
  OBVIOUS
<1>2. /\ a \in Seq(S) /\ Len(a) = k - 1
      /\ \A m \in 1..k - 1 : a[m] = s[m]
  <2>1. 1 \in Int /\ k - 1 \in Int /\ \A m \in 1..k - 1 : s[m] \in S
    BY <1>1
  <2>2. /\ a \in Seq(S) /\ Len(a) = IF 1 <= k - 1 THEN k - 1 - 1 + 1 ELSE 0
        /\ \A m \in 1..k - 1 - 1 + 1 : a[m] = s[1 + m - 1]
    BY <2>1, SubSeqProperties
  <2>3. \A m \in 1..k - 1 : m \in 1..k - 1 - 1 + 1 /\ 1 + m - 1 = m
    BY <1>1
  <2> HIDE DEF a
  <2> QED BY <1>1, <2>2, <2>3
<1>3. /\ b \in Seq(S) /\ Len(b) = n - k + 1
      /\ \A m \in 1..n - k + 1 : b[m] = s[k + m - 1]
  <2>1. k \in Int /\ n \in Int /\ \A m \in k..n : s[m] \in S
    BY <1>1
  <2>2. /\ b \in Seq(S) /\ Len(b) = IF k <= n THEN n - k + 1 ELSE 0
        /\ \A m \in 1..n - k + 1 : b[m] = s[k + m - 1]
    BY <1>1, <2>1, SubSeqProperties
  <2> HIDE DEF b
  <2> QED BY <1>1, <2>2
<1>4. t = (a \o <<i>>) \o b
  BY DEF InsertAt
<1> HIDE DEF a, b, t
<1>5. /\ a \o <<i>> \in Seq(S) /\ Len(a \o <<i>>) = k
      /\ \A m \in 1..k : (a \o <<i>>)[m] = IF m < k THEN a[m] ELSE i
  BY <1>1, <1>2
<1>6. t \in Seq(S) /\ Len(t) = n + 1
  BY <1>1, <1>3, <1>4, <1>5
<1>7. ASSUME NEW m \in 1..n + 1
      PROVE  t[m] = IF m < k THEN s[m] ELSE IF m = k THEN i ELSE s[m - 1]
  <2>1. CASE m <= k
    <3>1. t[m] = (a \o <<i>>)[m]
      BY <1>1, <1>3, <1>4, <1>5, <2>1
    <3> QED BY <1>1, <1>2, <1>5, <2>1, <3>1
  <2>2. CASE m > k
    <3>1. m - k \in 1..n - k + 1 /\ k + (m - k) - 1 = m - 1
      BY <1>1, <2>2
    <3>2. t[m] = b[m - k]
      BY <1>1, <1>3, <1>4, <1>5, <2>2
    <3> QED BY <1>3, <2>2, <3>1, <3>2
  <2> QED BY <1>1, <2>1, <2>2
<1>8. \A p, q \in 1..n + 1 : t[p] = t[q] => p = q
  <2>1. \A m \in 1..n : s[m] # i
    BY <1>1 DEF ToSet
  <2> DEFINE old(m) == IF m < k THEN m ELSE m - 1
  <2>2. \A m \in 1..n + 1 : m # k => old(m) \in 1..n /\ t[m] = s[old(m)]
    BY <1>1, <1>7
  <2>3. t[k] = i /\ k \in 1..n + 1
    BY <1>1, <1>7
  <2>4. \A p, q \in 1..n + 1 : p # k /\ q # k /\ old(p) = old(q) => p = q
    BY <1>1
  <2> HIDE DEF old
  <2> QED BY <1>1, <2>1, <2>2, <2>3, <2>4
<1>9. DOMAIN t = 1..n + 1
  BY <1>6
<1> QED BY <1>1, <1>6, <1>7, <1>8, <1>9 DEF t

\* One fewer in a sequence.
LEMMA Removed ==
    ASSUME NEW S, NEW s \in Seq(S), NEW k \in DOMAIN s,
           \A p, q \in DOMAIN s : s[p] = s[q] => p = q
    PROVE  LET t == RemoveAt(s, k)
           IN  t \in Seq(S) /\ \A p, q \in DOMAIN t : t[p] = t[q] => p = q
<1> DEFINE a == SubSeq(s, 1, k - 1)
           b == SubSeq(s, k + 1, Len(s))
           t == RemoveAt(s, k)
<1>1. PICK n \in Nat : n = Len(s) /\ DOMAIN s = 1..n
  OBVIOUS
<1>2. /\ a \in Seq(S) /\ Len(a) = k - 1
      /\ \A m \in 1..k - 1 : a[m] = s[m]
  <2>1. 1 \in Int /\ k - 1 \in Int /\ \A m \in 1..k - 1 : s[m] \in S
    BY <1>1
  <2>2. /\ a \in Seq(S) /\ Len(a) = IF 1 <= k - 1 THEN k - 1 - 1 + 1 ELSE 0
        /\ \A m \in 1..k - 1 - 1 + 1 : a[m] = s[1 + m - 1]
    BY <2>1, SubSeqProperties
  <2>3. \A m \in 1..k - 1 : m \in 1..k - 1 - 1 + 1 /\ 1 + m - 1 = m
    BY <1>1
  <2> HIDE DEF a
  <2> QED BY <1>1, <2>2, <2>3
<1>3. /\ b \in Seq(S) /\ Len(b) = n - k
      /\ \A m \in 1..n - k : b[m] = s[k + m]
  <2>1. k + 1 \in Int /\ n \in Int /\ \A m \in k + 1..n : s[m] \in S
    BY <1>1
  <2>2. /\ b \in Seq(S) /\ Len(b) = IF k + 1 <= n THEN n - (k + 1) + 1 ELSE 0
        /\ \A m \in 1..n - (k + 1) + 1 : b[m] = s[(k + 1) + m - 1]
    BY <1>1, <2>1, SubSeqProperties
  <2>3. \A m \in 1..n - k : m \in 1..n - (k + 1) + 1 /\ (k + 1) + m - 1 = k + m
    BY <1>1
  <2> HIDE DEF b
  <2> QED BY <1>1, <2>2, <2>3
<1>4. t = a \o b
  BY DEF RemoveAt
<1> HIDE DEF a, b, t
<1>5. t \in Seq(S) /\ Len(t) = n - 1 /\ DOMAIN t = 1..n - 1
  BY <1>1, <1>2, <1>3, <1>4
<1>6. ASSUME NEW m \in 1..n - 1 PROVE t[m] = IF m < k THEN s[m] ELSE s[m + 1]
  <2>1. CASE m < k
    BY <1>1, <1>2, <1>3, <1>4, <2>1
  <2>2. CASE m >= k
    <3>1. m - (k - 1) \in 1..n - k /\ k + (m - (k - 1)) = m + 1
      BY <1>1, <2>2
    <3>2. m > Len(a) /\ m <= Len(a) + Len(b) /\ m - Len(a) = m - (k - 1)
      BY <1>1, <1>2, <1>3, <2>2
    <3>3. (a \o b)[m] = b[m - Len(a)]
      <4>1. m \in 1..Len(a) + Len(b) /\ ~(m <= Len(a))
        BY <1>1, <1>2, <1>3, <3>2
      <4>2. a \in Seq(S) /\ b \in Seq(S)
        BY <1>2, <1>3
      <4>3. \A i \in 1..Len(a) + Len(b) :
                (a \o b)[i] = IF i <= Len(a) THEN a[i] ELSE b[i - Len(a)]
        BY <4>2, ConcatProperties
      <4> QED BY <4>1, <4>3
    <3>4. t[m] = b[m - (k - 1)]
      BY <1>4, <3>2, <3>3
    <3> QED BY <1>3, <2>2, <3>1, <3>4
  <2> QED BY <1>1, <2>1, <2>2
<1>7. \A p, q \in 1..n - 1 : t[p] = t[q] => p = q
  <2> DEFINE old(m) == IF m < k THEN m ELSE m + 1
  <2>1. \A m \in 1..n - 1 : old(m) \in 1..n /\ t[m] = s[old(m)]
    BY <1>1, <1>6
  <2>2. \A p, q \in 1..n - 1 : old(p) = old(q) => p = q
    BY <1>1
  <2> HIDE DEF old
  <2> QED BY <1>1, <2>1, <2>2
<1> QED BY <1>5, <1>7 DEF t

\* Something comes.
LEMMA InsertKeeps ==
    ASSUME Walking, changes' = changes + 1,
           NEW i \in Items \ ToSet(listing), NEW k \in 1..Len(listing) + 1,
           tool = "operations" => k = 1,
           listing' = InsertAt(listing, k, i),
           UNCHANGED <<question, page, offset, pc, seen, cut>>
    PROVE  Walking'
<1>1. WalkTypeOK /\ listing \in Seq(Items) /\ changes \in Nat /\ page \in Nat
      /\ \A p, q \in DOMAIN listing : listing[p] = listing[q] => p = q
  BY DEF Walking, WalkTypeOK
<1>2. /\ listing' \in Seq(Items) /\ Len(listing') = Len(listing) + 1
      /\ \A m \in 1..Len(listing) + 1 :
            listing'[m] = IF m < k THEN listing[m] ELSE IF m = k THEN i ELSE listing[m - 1]
      /\ \A p, q \in DOMAIN listing' : listing'[p] = listing'[q] => p = q
  <2>1. i \in Items /\ i \notin ToSet(listing)
    OBVIOUS
  <2> QED BY <1>1, <2>1, Inserted
<1>3. /\ tool' = tool /\ modern' = modern /\ limit' = limit /\ name' = name /\ hits' = hits
      /\ page' = page /\ offset' = offset /\ seen' = seen /\ cut' = cut
  BY DEF question
<1>4. Sorted' = Sorted /\ Paged' = Paged /\ Begin' = Begin
  BY <1>3 DEF Sorted, Paged, Begin
<1>5. WalkTypeOK'
  BY <1>1, <1>2, <1>3, <1>4 DEF WalkTypeOK
<1>6. changes' # 0
  BY <1>1
<1>7. ASSUME tool = "operations", ~cut PROVE NothingMissed'
  <2>1. NothingMissed /\ Paged /\ ~Sorted /\ k = 1
    BY <1>7 DEF Walking, Paged, Sorted
  <2>2. PICK n \in Nat, b \in Nat, z \in Nat : n = Len(listing) /\ b = Begin /\ z = PageSize
    BY <1>1, Begins, SearchTypes
  <2>3. /\ DOMAIN listing = 1..n /\ DOMAIN listing' = 1..n + 1 /\ Len(listing') = n + 1
        /\ \A m \in 1..n : listing'[m + 1] = listing[m]
    BY <1>1, <1>2, <2>1, <2>2
  <2>4. Now = {listing[m] : m \in {m \in 1..n : m > b /\ m <= b + z}}
    BY <2>1, <2>2, <2>3 DEF Now
  <2>5. Now' = {listing'[m] : m \in {m \in 1..n + 1 : m > b /\ m <= b + z}}
    BY <1>4, <2>1, <2>2, <2>3 DEF Now
  <2>6. /\ \A x, y : InOrder(x, y) <=>
                \E p, q \in 1..n : p < q /\ listing[p] = x /\ listing[q] = y
        /\ \A x, y : InOrder(x, y)' <=>
                \E p, q \in 1..n + 1 : p < q /\ listing'[p] = x /\ listing'[q] = y
    BY <1>4, <2>1, <2>3 DEF InOrder, Earlier
  <2>7. PagesApart /\ PagesApart'
    BY <1>1, <1>5, Apart, ApartThen
  <2>8. ASSUME NEW m \in 1..n, m > b, m + 1 <= b + z, NEW x, x = listing[m]
        PROVE  Turn(x) <= Turn(x)'
    <3> DEFINE old == {j \in hits \cap Now : InOrder(j, x)}
               new == {j \in hits \cap Now' : InOrder(j, x)'}
    <3>1. ASSUME NEW j \in old PROVE j \in new
      <4>1. PICK p \in 1..n, q \in 1..n : p < q /\ listing[p] = j /\ listing[q] = x
        BY <2>6, <2>8
      <4>2. PICK r \in 1..n : r > b /\ r <= b + z /\ listing[r] = j
        BY <2>4
      <4>3. q = m /\ p = r
        BY <1>1, <2>3, <2>8, <4>1, <4>2
      <4>4. p + 1 \in 1..n + 1 /\ p + 1 > b /\ p + 1 <= b + z /\ m + 1 \in 1..n + 1 /\ p + 1 < m + 1
        BY <2>8, <4>1, <4>2, <4>3
      <4>5. listing'[p + 1] = j /\ listing'[m + 1] = x
        BY <2>3, <2>8, <4>1
      <4>6. j \in Now'
        BY <2>5, <4>4, <4>5
      <4>7. InOrder(j, x)'
        <5>1. \E p2, q2 \in 1..n + 1 : p2 < q2 /\ listing'[p2] = j /\ listing'[q2] = x
          BY <4>4, <4>5
        <5> QED BY <2>6, <5>1
      <4> QED BY <4>6, <4>7
    <3>2. old \subseteq new
      BY <3>1
    <3>3. new \subseteq Items
      BY <2>7 DEF PagesApart
    <3>4. IsFiniteSet(new)
      BY <3>3, SearchTypes, FS_Subset
    <3>5. Cardinality(old) <= Cardinality(new)
      <4> HIDE DEF old, new
      <4> QED BY <3>2, <3>4, FS_Subset
    <3>6. Turn(x) = Cardinality(old)
      BY DEF Turn
    <3>7. Turn(x)' = Cardinality(new)
      BY <1>3 DEF Turn
    <3> QED BY <3>5, <3>6, <3>7
  <2>9. ASSUME NEW m \in changes' + 1..Len(listing'), NEW x, x = listing'[m], x \in hits,
               m <= b \/ (m <= b + z /\ Turn(x)' < offset)
        PROVE  seen[x] > 0
    <3>1. PICK p \in Nat : m = p + 1 /\ p \in 1..n /\ p \in changes + 1..n
      <4>1. m - 1 \in Nat /\ m = (m - 1) + 1 /\ m - 1 \in 1..n /\ m - 1 \in changes + 1..n
        BY <1>1, <2>3
      <4> QED BY <4>1
    <3>2. listing[p] = x
      BY <2>3, <2>9, <3>1
    <3>3. CASE p <= b
      BY <2>1, <2>2, <2>9, <3>1, <3>2, <3>3 DEF NothingMissed
    <3>4. CASE ~(p <= b)
      <4>1. p > b /\ p + 1 <= b + z /\ Turn(x)' < offset
        BY <2>9, <3>1, <3>4
      <4>2. Turn(x) <= Turn(x)'
        BY <2>8, <3>1, <3>2, <4>1
      <4>3. Turn(x) \in Nat /\ Turn(x)' \in Nat /\ offset \in Nat
        BY <1>1, <2>7 DEF PagesApart, WalkTypeOK
      <4>4. Turn(x) < offset /\ p <= b + z
        BY <4>1, <4>2, <4>3
      <4> QED BY <2>1, <2>2, <2>9, <3>1, <3>2, <4>4 DEF NothingMissed
    <3> QED BY <3>3, <3>4
  <2> QED BY <1>3, <1>4, <2>2, <2>9 DEF NothingMissed
<1> QED BY <1>3, <1>5, <1>6, <1>7 DEF Walking

\* Something goes; it is no operation.
LEMMA RemoveKeeps ==
    ASSUME Walking, changes' = changes + 1, NEW k \in DOMAIN listing, tool # "operations",
           listing' = RemoveAt(listing, k),
           UNCHANGED <<question, page, offset, pc, seen, cut>>
    PROVE  Walking'
<1>1. WalkTypeOK /\ listing \in Seq(Items) /\ changes \in Nat
      /\ \A p, q \in DOMAIN listing : listing[p] = listing[q] => p = q
  BY DEF Walking, WalkTypeOK
<1>2. /\ listing' \in Seq(Items)
      /\ \A p, q \in DOMAIN listing' : listing'[p] = listing'[q] => p = q
  BY <1>1, Removed
<1>3. /\ tool' = tool /\ modern' = modern /\ limit' = limit /\ name' = name /\ hits' = hits
      /\ page' = page /\ offset' = offset /\ seen' = seen /\ cut' = cut
  BY DEF question
<1>4. Sorted' = Sorted /\ Paged' = Paged
  BY <1>3 DEF Sorted, Paged
<1>5. WalkTypeOK'
  BY <1>1, <1>2, <1>3, <1>4 DEF WalkTypeOK
<1> QED BY <1>1, <1>3, <1>5 DEF Walking

\* A walk begins with nothing seen, at the first page.
LEMMA WalkInitially ==
    ASSUME Init
    PROVE  WalkInv
<1>1. PICK present \in SUBSET Items : listing \in SetToSeqs(present)
  BY DEF Init
<1>2. IsFiniteSet(present)
  BY SearchTypes, FS_Subset
<1>3. /\ listing \in Seq(present)
      /\ \A k, l \in DOMAIN listing : listing[k] = listing[l] => k = l
  BY <1>1, <1>2, Orders
<1>4. /\ tool \in Tools /\ limit \in Limits /\ modern \in BOOLEAN /\ hits \subseteq Items
      /\ Sorted => name \in [Items -> Names]
      /\ page = 0 /\ offset = 0 /\ pc = "walking" /\ seen = [i \in Items |-> 0]
      /\ cut = FALSE /\ changes = 0
  BY DEF Init, Sorted
<1>5. WalkTypeOK
  <2>1. listing \in Seq(Items)
    BY <1>3
  <2>2. limit \in Nat /\ seen \in [Items -> Nat]
    BY <1>4, SearchTypes
  <2>3. page \in Nat /\ ~(page > 0) /\ offset \in Nat /\ changes \in Nat
    BY <1>4
  <2>4. cut \in BOOLEAN
    BY <1>4, Zenon
  <2>5. tool \in Tools /\ modern \in BOOLEAN /\ hits \subseteq Items
        /\ (Sorted => name \in [Items -> Names])
    BY <1>4
  <2> QED BY <1>3, <2>1, <2>2, <2>3, <2>4, <2>5 DEF WalkTypeOK
<1>6. PagesApart
  BY <1>5, Apart
<1>7. \A i : ~(Turn(i) < offset)
  BY <1>4, <1>6 DEF PagesApart
<1>8. Begin = 0
  BY <1>4, Begins
<1>9. Behind = {}
  <2>1. \A k \in DOMAIN listing : ~(k <= 0)
    BY <1>3
  <2> QED BY <1>8, <2>1 DEF Behind
<1>10. QuietWalk
  BY <1>4, <1>6, <1>7, <1>9 DEF QuietWalk, PagesApart
<1>11. NothingMissed
  <2>1. \A k \in 1..Len(listing) : ~(k <= 0)
    BY <1>3
  <2> QED BY <1>4, <1>7, <1>8, <2>1 DEF NothingMissed
<1> QED BY <1>4, <1>5, <1>10, <1>11 DEF WalkInv, Walking, WalkIsExact, NoOperationMissed

\* A step that leaves the walk alone keeps its invariant.
LEMMA WalkStill ==
    ASSUME WalkInv, UNCHANGED vars
    PROVE  WalkInv'
<1>1. Same /\ UNCHANGED <<page, offset, pc, seen, cut>>
  BY DEF vars, Same
<1>2. /\ tool' = tool /\ modern' = modern /\ limit' = limit /\ name' = name /\ hits' = hits
      /\ listing' = listing /\ changes' = changes
  BY <1>1 DEF Same, question
<1>3. /\ Sorted' = Sorted /\ Paged' = Paged /\ Begin' = Begin /\ Behind' = Behind
      /\ Now' = Now /\ \A i : Turn(i)' = Turn(i)
  BY <1>1, SameSearch
<1>4. WalkTypeOK => WalkTypeOK'
  BY <1>1, <1>2, <1>3 DEF WalkTypeOK
<1>5. QuietWalk => QuietWalk'
  BY <1>1, <1>2, <1>3 DEF QuietWalk
<1>6. NothingMissed => NothingMissed'
  BY <1>1, <1>2, <1>3 DEF NothingMissed
<1>7. Walking => Walking'
  BY <1>1, <1>2, <1>4, <1>5, <1>6 DEF Walking
<1> QED BY <1>1, <1>2, <1>7 DEF WalkInv, WalkIsExact, NoOperationMissed

\* So does every step of it.
LEMMA WalkStep ==
    ASSUME WalkInv, [Next]_vars
    PROVE  WalkInv'
<1>1. CASE Call
  BY <1>1, CallKeeps
<1>2. CASE Refuse
  BY <1>2 DEF Refuse, WalkInv, WalkIsExact, NoOperationMissed
<1>3. CASE Change
  <2>1. /\ Walking /\ pc = "walking" /\ changes' = changes + 1
        /\ UNCHANGED <<question, page, offset, pc, seen, cut>>
    BY <1>3 DEF WalkInv, Change
  <2>2. ASSUME NEW i \in Items \ ToSet(listing), NEW k \in 1..Len(listing) + 1,
               tool = "operations" => k = 1, listing' = InsertAt(listing, k, i)
        PROVE  Walking'
    BY <2>1, <2>2, InsertKeeps
  <2>3. ASSUME NEW k \in DOMAIN listing, tool # "operations", listing' = RemoveAt(listing, k)
        PROVE  Walking'
    BY <2>1, <2>3, RemoveKeeps
  <2>4. Walking' /\ pc' = "walking"
    BY <1>3, <2>1, <2>2, <2>3 DEF Change
  <2> QED BY <2>4 DEF WalkInv, WalkIsExact, NoOperationMissed
<1>4. CASE UNCHANGED vars
  BY <1>4, WalkStill
<1> QED BY <1>1, <1>2, <1>3, <1>4 DEF Next

\* The invariant says what is promised.
LEMMA WalkRight ==
    ASSUME WalkInv
    PROVE  WalkIsExact /\ NoOperationMissed
BY DEF WalkInv

\* A session that does no search keeps the invariant.
LEMMA NoWalkInv ==
    ASSUME NoWalk
    PROVE  WalkInv
BY DEF NoWalk, WalkInv, WalkIsExact, NoOperationMissed

-------------------------------------------------------------------------------
(* Known credentials in a text *)

\* A part stands in a text at place i.
Occurs(part, text, i) ==
    /\ i + Len(part) <= Len(text) + 1
    /\ \A m \in 1..Len(part) : part[m] = text[i + m - 1]

\* IsPrefix of a text from place i on, said place by place.
LEMMA PrefixAt ==
    ASSUME NEW part \in Seq(Letters), NEW text \in Seq(Letters), NEW i \in 1..Len(text)
    PROVE  IsPrefix(part, SubSeq(text, i, Len(text))) <=> Occurs(part, text, i)
<1> DEFINE tail == SubSeq(text, i, Len(text))
<1>1. Len(part) \in Nat /\ Len(text) \in Nat /\ i \in Nat /\ i <= Len(text)
  BY LenProperties
<1>2. /\ tail \in Seq(Letters) /\ Len(tail) = Len(text) - i + 1
      /\ \A m \in 1..Len(text) - i + 1 : tail[m] = text[i + m - 1]
  <2>1. \A m \in i..Len(text) : text[m] \in Letters
    BY <1>1, ElementOfSeq
  <2> QED BY <1>1, <2>1, SubSeqProperties
<1> HIDE DEF tail
<1>3. SubSeq(part, 1, Len(part)) = part
  BY <1>1, SubSeqProperties
<1>4. ASSUME Len(part) <= Len(tail)
      PROVE  /\ Len(SubSeq(tail, 1, Len(part))) = Len(part)
             /\ SubSeq(tail, 1, Len(part)) \in Seq(Letters)
             /\ \A m \in 1..Len(part) : SubSeq(tail, 1, Len(part))[m] = tail[m]
  <2>1. \A m \in 1..Len(part) : tail[m] \in Letters
    BY <1>1, <1>2, <1>4, ElementOfSeq
  <2>2. 1..Len(part) \subseteq 1..Len(tail)
    BY <1>1, <1>2, <1>4
  <2>3. Len(tail) \in Nat
    BY <1>2, LenProperties
  <2> QED BY <1>1, <1>2, <1>4, <2>1, <2>2, <2>3, SubSeqProperties
<1>5. IsPrefix(part, tail) => Occurs(part, text, i)
  <2> SUFFICES ASSUME IsPrefix(part, tail) PROVE Occurs(part, text, i)
    OBVIOUS
  <2> DEFINE front == SubSeq(tail, 1, Len(part))
  <2>1. Len(part) <= Len(tail)
    BY DEF IsPrefix
  <2>2. \A m \in 1..Len(part) : front[m] = tail[m]
    BY <1>4, <2>1
  <2>3. part = front
    BY <1>3 DEF IsPrefix
  <2> HIDE DEF front
  <2>4. \A m \in 1..Len(part) : part[m] = tail[m]
    BY <2>2, <2>3, Zenon
  <2>5. \A m \in 1..Len(part) : m \in 1..Len(text) - i + 1
    BY <1>1, <1>2, <2>1
  <2>6. \A m \in 1..Len(part) : part[m] = text[i + m - 1]
    BY <1>2, <2>4, <2>5
  <2>7. i + Len(part) <= Len(text) + 1
    BY <1>1, <1>2, <2>1
  <2> QED BY <2>6, <2>7 DEF Occurs
<1>6. Occurs(part, text, i) => IsPrefix(part, tail)
  <2> SUFFICES ASSUME Occurs(part, text, i) PROVE IsPrefix(part, tail)
    OBVIOUS
  <2>1. Len(part) <= Len(tail)
    BY <1>1, <1>2 DEF Occurs
  <2>2. \A m \in 1..Len(part) : part[m] = tail[m]
    <3>1. \A m \in 1..Len(part) : part[m] = text[i + m - 1]
      BY DEF Occurs
    <3>2. \A m \in 1..Len(part) : m \in 1..Len(text) - i + 1
      BY <1>1, <1>2, <2>1
    <3> QED BY <1>2, <3>1, <3>2
  <2>3. part = SubSeq(tail, 1, Len(part))
    BY <1>1, <1>4, <2>1, <2>2, SeqEqual
  <2> QED BY <1>3, <2>1, <2>3 DEF IsPrefix
<1> QED BY <1>5, <1>6 DEF tail

\* Known credentials are texts, and none is empty.
LEMMA MatchIs ==
    ASSUME NEW known \in SUBSET (Seq(Letters) \ {<<>>}), NEW text \in Seq(Letters),
           NEW i \in 1..Len(text)
    PROVE  /\ MatchLength(text, i, known) \in 0..Len(text) - i + 1
           /\ MatchLength(text, i, known) = 0 <=> \A c \in known : ~Occurs(c, text, i)
<1> DEFINE b == Len(text) - i + 1
           lengths == {0} \cup {Len(c) : c \in {c \in known : Occurs(c, text, i)}}
<1>1. Len(text) \in Nat /\ i \in Nat /\ b \in Nat /\ b = Len(text) + 1 - i
  BY LenProperties
<1>2. MatchLength(text, i, known) = Max(lengths)
  <2>1. \A c \in known : IsPrefix(c, SubSeq(text, i, Len(text))) <=> Occurs(c, text, i)
    BY PrefixAt
  <2>2. {c \in known : IsPrefix(c, SubSeq(text, i, Len(text)))}
        = {c \in known : Occurs(c, text, i)}
    BY <2>1
  <2> QED BY <2>2 DEF MatchLength
<1>3. \A c \in known : Len(c) \in Nat /\ Len(c) > 0
  <2> SUFFICES ASSUME NEW c \in known PROVE Len(c) \in Nat /\ Len(c) > 0
    OBVIOUS
  <2>1. c \in Seq(Letters) /\ c # <<>>
    OBVIOUS
  <2> QED BY <2>1, LenProperties, EmptySeq
<1>4. lengths \subseteq 0..b /\ lengths # {}
  <2>1. \A c \in known : Occurs(c, text, i) => Len(c) \in 0..b
    BY <1>1, <1>3 DEF Occurs
  <2> QED BY <1>1, <2>1
<1>5. Max(lengths) \in lengths /\ \A m \in lengths : m <= Max(lengths)
  <2> HIDE DEF lengths, b
  <2> QED BY <1>1, <1>4, MaxIs
<1>6. \A c \in known : Occurs(c, text, i) => Len(c) <= Max(lengths)
  BY <1>5
<1>7. (\A c \in known : ~Occurs(c, text, i)) => Max(lengths) = 0
  BY <1>5
<1>8. Max(lengths) = 0 => \A c \in known : ~Occurs(c, text, i)
  BY <1>3, <1>6
<1> QED BY <1>2, <1>4, <1>5, <1>7, <1>8

\* One step of Between at place i, when g is what lies beyond.
Onward(text, known, g, i) ==
    IF i > Len(text) THEN [head |-> <<>>, rest |-> <<>>, cut |-> FALSE]
    ELSE LET n == MatchLength(text, i, known)
         IN  IF n > 0
             THEN [head |-> <<>>, rest |-> Pieces(g[i + n]), cut |-> TRUE]
             ELSE [g[i + 1] EXCEPT !.head = <<text[i]>> \o @]

\* g is right from place j on.
Cuts(g, text, known, j) ==
    \A i \in 1..Len(text) + 1 : i >= j => g[i] = Onward(text, known, g, i)

\* What is beyond i is all that counts at i.
LEMMA OnwardSame ==
    ASSUME NEW known \in SUBSET (Seq(Letters) \ {<<>>}), NEW text \in Seq(Letters),
           NEW i \in 1..Len(text) + 1, NEW g, NEW h,
           \A k \in 1..Len(text) + 1 : k > i => g[k] = h[k]
    PROVE  Onward(text, known, g, i) = Onward(text, known, h, i)
<1>1. Len(text) \in Nat
  BY LenProperties
<1>2. CASE i > Len(text)
  BY <1>2 DEF Onward
<1>3. CASE i <= Len(text)
  <2>1. MatchLength(text, i, known) \in 0..Len(text) - i + 1
    <3>1. i \in 1..Len(text)
      BY <1>1, <1>3
    <3> QED BY <3>1, MatchIs
  <2>2. g[i + 1] = h[i + 1]
    BY <1>1, <1>3
  <2>3. MatchLength(text, i, known) > 0
        => g[i + MatchLength(text, i, known)] = h[i + MatchLength(text, i, known)]
    BY <1>1, <1>3, <2>1
  <2> QED BY <1>1, <2>2, <2>3 DEF Onward
<1> QED BY <1>1, <1>2, <1>3

\* There is a function that is right from every place on.
LEMMA CutsExist ==
    ASSUME NEW known \in SUBSET (Seq(Letters) \ {<<>>}), NEW text \in Seq(Letters)
    PROVE  \E g : g = [i \in 1..Len(text) + 1 |-> Onward(text, known, g, i)]
<1> DEFINE n == Len(text) + 1
           P(m) == \E g : DOMAIN g = 1..n /\ g = [i \in 1..n |-> g[i]]
                          /\ Cuts(g, text, known, n - m)
           B == {m \in 0..n : ~P(m)}
<1>1. n \in Nat /\ n > 0
  BY LenProperties
<1>2. SUFFICES ASSUME B # {} PROVE FALSE
  <2>1. P(n)
    BY <1>1, <1>2
  <2>2. PICK g : DOMAIN g = 1..n /\ g = [i \in 1..n |-> g[i]] /\ Cuts(g, text, known, n - n)
    BY <2>1
  <2>3. \A i \in 1..n : g[i] = Onward(text, known, g, i)
    BY <1>1, <2>2 DEF Cuts
  <2>4. g = [i \in 1..n |-> Onward(text, known, g, i)]
    BY <2>2, <2>3, Zenon
  <2> QED BY <2>4
<1>3. PICK m \in B : \A k \in B : m <= k
  <2>1. B \subseteq Nat
    BY <1>1
  <2> HIDE DEF B
  <2> QED BY <1>2, <2>1, LeastNumber
<1>4. m \in 0..n /\ ~P(m)
  OBVIOUS
<1>5. \E g : DOMAIN g = 1..n /\ g = [i \in 1..n |-> g[i]]
             /\ \A i \in 1..n : i > n - m => g[i] = Onward(text, known, g, i)
  <2>1. CASE m = 0
    <3>1. \A i \in 1..n : ~(i > n - m)
      BY <1>1, <2>1
    <3> DEFINE g == [i \in 1..n |-> 0]
    <3>2. DOMAIN g = 1..n /\ g = [i \in 1..n |-> g[i]]
      OBVIOUS
    <3> QED BY <3>1, <3>2
  <2>2. CASE m > 0
    <3>1. m - 1 \in 0..n /\ ~(m <= m - 1)
      BY <1>1, <1>4, <2>2
    <3>2. P(m - 1)
      BY <1>3, <3>1
    <3>3. PICK g : DOMAIN g = 1..n /\ g = [i \in 1..n |-> g[i]]
                   /\ Cuts(g, text, known, n - (m - 1))
      BY <3>2
    <3>4. \A i \in 1..n : i > n - m => i >= n - (m - 1)
      BY <1>1, <1>4
    <3> QED BY <3>3, <3>4 DEF Cuts
  <2> QED BY <1>4, <2>1, <2>2
<1>6. PICK g : DOMAIN g = 1..n /\ g = [i \in 1..n |-> g[i]]
               /\ \A i \in 1..n : i > n - m => g[i] = Onward(text, known, g, i)
  BY <1>5
<1> DEFINE h == [i \in 1..n |-> IF i = n - m THEN Onward(text, known, g, i) ELSE g[i]]
<1>7. DOMAIN h = 1..n /\ h = [i \in 1..n |-> h[i]]
  OBVIOUS
<1>8. \A i \in 1..n : i > n - m => h[i] = g[i]
  BY <1>1, <1>4
<1>9. \A i \in 1..n : i = n - m => h[i] = Onward(text, known, g, i)
  OBVIOUS
<1> HIDE DEF h, P
<1>10. ASSUME NEW i \in 1..n, i >= n - m
       PROVE  h[i] = Onward(text, known, h, i)
  <2>1. \A k \in 1..n : k > i => g[k] = h[k]
    BY <1>1, <1>4, <1>8, <1>10
  <2>2. Onward(text, known, g, i) = Onward(text, known, h, i)
    BY <2>1, OnwardSame
  <2>3. h[i] = Onward(text, known, g, i)
    <3>1. CASE i = n - m
      BY <1>9, <3>1
    <3>2. CASE i > n - m
      BY <1>6, <1>8, <3>2
    <3> QED BY <1>1, <1>4, <1>10, <3>1, <3>2
  <2> QED BY <2>2, <2>3
<1>11. Cuts(h, text, known, n - m)
  BY <1>10 DEF Cuts
<1>12. P(m)
  BY <1>7, <1>11 DEF P
<1> QED BY <1>4, <1>12

\* So Between is what lies beyond the first place.
LEMMA BetweenIs ==
    ASSUME NEW known \in SUBSET (Seq(Letters) \ {<<>>}), NEW text \in Seq(Letters)
    PROVE  \E g : /\ \A i \in 1..Len(text) + 1 : g[i] = Onward(text, known, g, i)
                  /\ Between(text, known) = g[1]
<1> DEFINE R(g) == g = [i \in 1..Len(text) + 1 |-> Onward(text, known, g, i)]
           f == CHOOSE g : R(g)
<1>1. R(f)
  <2>1. \E g : R(g)
    BY CutsExist
  <2> HIDE DEF R
  <2> QED BY <2>1
<1>2. Between(text, known) = f[1]
  BY DEF Between, Onward
<1>3. \A i \in 1..Len(text) + 1 : f[i] = Onward(text, known, f, i)
  <2> HIDE DEF f
  <2> QED BY <1>1
<1> QED BY <1>2, <1>3

\* No known credential is in a part.
Clean(part, known) == \A c \in known : ~Within(c, part)

\* What is left from place i on: a piece of the text in which no match begins, and
\* after the first match pieces that are clean.
Partly(left, text, known, i) ==
    /\ left \in [head : Seq(Letters), rest : Seq(Seq(Letters)), cut : BOOLEAN]
    /\ i + Len(left.head) <= Len(text) + 1
    /\ \A m \in 1..Len(left.head) : left.head[m] = text[i + m - 1]
    /\ \A m \in i..i + Len(left.head) - 1, c \in known : ~Occurs(c, text, m)
    /\ ~left.cut => i + Len(left.head) = Len(text) + 1
    /\ left.cut => \E m \in i..Len(text), c \in known : Occurs(c, text, m)
    /\ \A k \in 1..Len(left.rest) : Clean(left.rest[k], known)

\* No credential begins in a piece in which no match begins.
LEMMA HeadClean ==
    ASSUME NEW known \in SUBSET (Seq(Letters) \ {<<>>}), NEW text \in Seq(Letters),
           NEW i \in 1..Len(text) + 1, NEW left, Partly(left, text, known, i)
    PROVE  Clean(left.head, known)
<1> DEFINE head == left.head
<1>1. head \in Seq(Letters) /\ Len(head) \in Nat /\ Len(text) \in Nat
  BY LenProperties DEF Partly
<1>2. SUFFICES ASSUME NEW c \in known, NEW k \in 1..Len(head),
                      IsPrefix(c, SubSeq(head, k, Len(head)))
               PROVE  FALSE
  BY DEF Clean, Within
<1>3. Occurs(c, head, k)
  BY <1>1, <1>2, PrefixAt
<1>4. Len(c) \in Nat
  BY LenProperties
<1>5. i + k - 1 \in i..i + Len(head) - 1
  BY <1>1
<1>6. ~Occurs(c, text, i + k - 1)
  BY <1>5 DEF Partly
<1>7. i + k - 1 + Len(c) <= Len(text) + 1
  BY <1>1, <1>3, <1>4 DEF Partly, Occurs
<1>8. ASSUME NEW m \in 1..Len(c) PROVE c[m] = text[i + k - 1 + m - 1]
  <2>1. c[m] = head[k + m - 1]
    BY <1>3 DEF Occurs
  <2>2. k + m - 1 \in 1..Len(head)
    BY <1>1, <1>3, <1>4 DEF Occurs
  <2>3. head[k + m - 1] = text[i + (k + m - 1) - 1]
    BY <2>2 DEF Partly
  <2>4. i + (k + m - 1) - 1 = i + k - 1 + m - 1
    BY <1>4
  <2> QED BY <2>1, <2>3, <2>4
<1> QED BY <1>6, <1>7, <1>8 DEF Occurs

\* The pieces of what is left.
LEMMA PiecesClean ==
    ASSUME NEW known \in SUBSET (Seq(Letters) \ {<<>>}), NEW text \in Seq(Letters),
           NEW i \in 1..Len(text) + 1, NEW left, Partly(left, text, known, i)
    PROVE  /\ Pieces(left) \in Seq(Seq(Letters))
           /\ \A k \in 1..Len(Pieces(left)) : Clean(Pieces(left)[k], known)
<1>1. left.head \in Seq(Letters) /\ left.rest \in Seq(Seq(Letters)) /\ Len(left.rest) \in Nat
      /\ \A k \in 1..Len(left.rest) : Clean(left.rest[k], known)
  BY LenProperties DEF Partly
<1>2. CASE left.head = <<>>
  BY <1>1, <1>2 DEF Pieces
<1>3. CASE left.head # <<>>
  <2> DEFINE one == <<left.head>>
  <2>1. one \in Seq(Seq(Letters)) /\ Len(one) = 1 /\ one[1] = left.head
    BY <1>1
  <2>2. /\ one \o left.rest \in Seq(Seq(Letters))
        /\ Len(one \o left.rest) = 1 + Len(left.rest)
        /\ \A k \in 1..1 + Len(left.rest) :
            (one \o left.rest)[k] = IF k <= 1 THEN one[k] ELSE left.rest[k - 1]
    <3> DEFINE T == Seq(Letters)
    <3>1. one \in Seq(T) /\ left.rest \in Seq(T)
      BY <1>1, <2>1
    <3> HIDE DEF one, T
    <3>2. /\ one \o left.rest \in Seq(T)
          /\ Len(one \o left.rest) = Len(one) + Len(left.rest)
          /\ \A k \in 1..Len(one) + Len(left.rest) :
                (one \o left.rest)[k] = IF k <= Len(one) THEN one[k] ELSE left.rest[k - Len(one)]
      BY <3>1, ConcatProperties
    <3> QED BY <2>1, <3>2 DEF T
  <2>3. Pieces(left) = one \o left.rest
    BY <1>3 DEF Pieces
  <2>4. Clean(left.head, known)
    BY HeadClean
  <2>5. ASSUME NEW k \in 1..1 + Len(left.rest) PROVE Clean((one \o left.rest)[k], known)
    <3> HIDE DEF one
    <3>1. CASE k = 1
      <4>1. (one \o left.rest)[k] = left.head
        BY <1>1, <2>1, <2>2, <3>1
      <4> QED BY <2>4, <4>1
    <3>2. CASE k # 1
      <4>1. k - 1 \in 1..Len(left.rest) /\ ~(k <= 1)
        BY <1>1, <3>2
      <4>2. (one \o left.rest)[k] = left.rest[k - 1]
        BY <2>2, <4>1
      <4> QED BY <1>1, <4>1, <4>2
    <3> QED BY <3>1, <3>2
  <2> HIDE DEF one
  <2> QED BY <2>2, <2>3, <2>5
<1> QED BY <1>2, <1>3

\* One step of Between.
LEMMA OnwardRight ==
    ASSUME NEW known \in SUBSET (Seq(Letters) \ {<<>>}), NEW text \in Seq(Letters),
           NEW i \in 1..Len(text) + 1, NEW g,
           \A k \in 1..Len(text) + 1 : k > i => Partly(g[k], text, known, k)
    PROVE  Partly(Onward(text, known, g, i), text, known, i)
<1> DEFINE n == MatchLength(text, i, known)
           left == Onward(text, known, g, i)
<1>1. Len(text) \in Nat
  BY LenProperties
<1>2. ASSUME i > Len(text) PROVE Partly(left, text, known, i)
  <2>1. left = [head |-> <<>>, rest |-> <<>>, cut |-> FALSE]
    BY <1>2 DEF Onward
  <2>2. left.head = <<>> /\ left.rest = <<>> /\ left.cut = FALSE /\ Len(left.head) = 0
        /\ Len(left.rest) = 0
    BY <2>1
  <2>3. left \in [head : Seq(Letters), rest : Seq(Seq(Letters)), cut : BOOLEAN]
    BY <2>1
  <2> HIDE DEF left
  <2>4. i = Len(text) + 1
    BY <1>1, <1>2
  <2>5. \A m \in i..i + Len(left.head) - 1, c \in known : ~Occurs(c, text, m)
    BY <1>1, <2>2, <2>4
  <2>6. ~left.cut
    BY <2>2
  <2>7. /\ i + Len(left.head) = Len(text) + 1 /\ i + Len(left.head) <= Len(text) + 1
        /\ \A m \in 1..Len(left.head) : left.head[m] = text[i + m - 1]
        /\ \A k \in 1..Len(left.rest) : Clean(left.rest[k], known)
    BY <1>1, <2>2, <2>4
  <2>8. left.cut => \E m \in i..Len(text), c \in known : Occurs(c, text, m)
    BY <2>6, Zenon
  <2> QED BY <2>3, <2>5, <2>7, <2>8 DEF Partly
<1>3. ASSUME i \in 1..Len(text), n > 0 PROVE Partly(left, text, known, i)
  <2>1. n \in 0..Len(text) - i + 1 /\ \E c \in known : Occurs(c, text, i)
    <3>1. n \in 0..Len(text) - i + 1
      BY <1>3, MatchIs
    <3>2. n # 0
      BY <1>3
    <3>3. \E c \in known : Occurs(c, text, i)
      <4>1. n = 0 <=> \A c \in known : ~Occurs(c, text, i)
        BY <1>3, MatchIs
      <4> HIDE DEF n
      <4> QED BY <3>2, <4>1
    <3> QED BY <3>1, <3>3
  <2>2. i + n \in 1..Len(text) + 1 /\ i + n > i
    BY <1>1, <1>3, <2>1
  <2>3. Partly(g[i + n], text, known, i + n)
    BY <2>2
  <2>4. /\ Pieces(g[i + n]) \in Seq(Seq(Letters))
        /\ \A k \in 1..Len(Pieces(g[i + n])) : Clean(Pieces(g[i + n])[k], known)
    <3> HIDE DEF n
    <3> QED BY <2>2, <2>3, PiecesClean
  <2>5. ~(i > Len(text))
    BY <1>1, <1>3
  <2>6. left = [head |-> <<>>, rest |-> Pieces(g[i + n]), cut |-> TRUE]
    BY <1>3, <2>5 DEF Onward
  <2>7. left.head = <<>> /\ left.rest = Pieces(g[i + n]) /\ left.cut /\ Len(left.head) = 0
    BY <2>6
  <2>8. left \in [head : Seq(Letters), rest : Seq(Seq(Letters)), cut : BOOLEAN]
    BY <2>4, <2>6
  <2>9. \E m \in i..Len(text), c \in known : Occurs(c, text, m)
    BY <1>1, <1>3, <2>1
  <2> HIDE DEF left, n
  <2> QED BY <1>1, <1>3, <2>4, <2>7, <2>8, <2>9 DEF Partly
<1>4. ASSUME i \in 1..Len(text), ~(n > 0) PROVE Partly(left, text, known, i)
  <2> DEFINE d == g[i + 1]
             one == <<text[i]>>
  <2>1. n = 0 /\ \A c \in known : ~Occurs(c, text, i)
    <3>1. n \in 0..Len(text) - i + 1
      BY <1>4, MatchIs
    <3>2. n = 0
      BY <1>4, <3>1
    <3> QED BY <1>4, <3>2, MatchIs
  <2>2. i + 1 \in 1..Len(text) + 1 /\ i + 1 > i /\ ~(i > Len(text))
    BY <1>1, <1>4
  <2>3. Partly(d, text, known, i + 1)
    BY <2>2
  <2>4. d.head \in Seq(Letters) /\ d.rest \in Seq(Seq(Letters)) /\ d.cut \in BOOLEAN
        /\ Len(d.head) \in Nat /\ d \in [head : Seq(Letters), rest : Seq(Seq(Letters)), cut : BOOLEAN]
    BY <2>3, LenProperties DEF Partly
  <2>5. left = [d EXCEPT !.head = one \o @]
    BY <1>4, <2>2 DEF Onward
  <2>6. one \in Seq(Letters) /\ Len(one) = 1 /\ one[1] = text[i]
    BY <1>4, ElementOfSeq
  <2>7. /\ one \o d.head \in Seq(Letters) /\ Len(one \o d.head) = 1 + Len(d.head)
        /\ \A m \in 1..1 + Len(d.head) :
            (one \o d.head)[m] = IF m <= 1 THEN one[m] ELSE d.head[m - 1]
    <3> HIDE DEF one, d
    <3>1. /\ one \o d.head \in Seq(Letters) /\ Len(one \o d.head) = Len(one) + Len(d.head)
          /\ \A m \in 1..Len(one) + Len(d.head) :
                (one \o d.head)[m] = IF m <= Len(one) THEN one[m] ELSE d.head[m - Len(one)]
      <4> DEFINE e == d.head
      <4>1. e \in Seq(Letters)
        BY <2>4
      <4> HIDE DEF e
      <4>2. /\ one \o e \in Seq(Letters) /\ Len(one \o e) = Len(one) + Len(e)
            /\ \A m \in 1..Len(one) + Len(e) :
                (one \o e)[m] = IF m <= Len(one) THEN one[m] ELSE e[m - Len(one)]
        BY <2>6, <4>1, ConcatProperties
      <4> QED BY <4>2 DEF e
    <3> QED BY <2>6, <3>1
  <2>8. left.head = one \o d.head /\ left.rest = d.rest /\ left.cut = d.cut
        /\ left \in [head : Seq(Letters), rest : Seq(Seq(Letters)), cut : BOOLEAN]
    <3> HIDE DEF one, d, left
    <3> QED BY <2>4, <2>5, <2>7
  <2> HIDE DEF one, d, left, n
  <2>9. /\ i + 1 + Len(d.head) <= Len(text) + 1
        /\ \A m \in 1..Len(d.head) : d.head[m] = text[i + 1 + m - 1]
        /\ \A m \in i + 1..i + 1 + Len(d.head) - 1, c \in known : ~Occurs(c, text, m)
        /\ ~d.cut => i + 1 + Len(d.head) = Len(text) + 1
        /\ d.cut => \E m \in i + 1..Len(text), c \in known : Occurs(c, text, m)
        /\ \A k \in 1..Len(d.rest) : Clean(d.rest[k], known)
    BY <2>3 DEF Partly
  <2>10. i + Len(left.head) <= Len(text) + 1
    BY <1>1, <2>4, <2>7, <2>8, <2>9
  <2>11. ASSUME NEW m \in 1..Len(left.head) PROVE left.head[m] = text[i + m - 1]
    <3>1. CASE m = 1
      BY <2>4, <2>6, <2>7, <2>8, <3>1
    <3>2. CASE m # 1
      <4>1. m - 1 \in 1..Len(d.head) /\ ~(m <= 1) /\ i + 1 + (m - 1) - 1 = i + m - 1
            /\ m \in 1..1 + Len(d.head)
        BY <2>4, <2>7, <2>8, <3>2
      <4>2. left.head[m] = d.head[m - 1]
        BY <2>7, <2>8, <4>1
      <4>3. d.head[m - 1] = text[i + 1 + (m - 1) - 1]
        BY <2>9, <4>1
      <4> QED BY <4>1, <4>2, <4>3
    <3> QED BY <3>1, <3>2
  <2>12. ASSUME NEW m \in i..i + Len(left.head) - 1, NEW c \in known
         PROVE  ~Occurs(c, text, m)
    <3>1. CASE m = i
      BY <2>1, <3>1
    <3>2. CASE m # i
      <4>1. m \in i + 1..i + 1 + Len(d.head) - 1
        BY <2>4, <2>7, <2>8, <3>2
      <4> QED BY <2>9, <4>1
    <3> QED BY <3>1, <3>2
  <2>13. ~left.cut => i + Len(left.head) = Len(text) + 1
    <3>1. ~left.cut => ~d.cut
      BY <2>8, Zenon
    <3>2. Len(left.head) = 1 + Len(d.head)
      BY <2>7, <2>8
    <3> QED BY <1>1, <2>4, <2>9, <3>1, <3>2
  <2>14. left.cut => \E m \in i..Len(text), c \in known : Occurs(c, text, m)
    <3>1. left.cut => d.cut
      BY <2>8, Zenon
    <3>2. \A m \in i + 1..Len(text) : m \in i..Len(text)
      BY <1>1
    <3> QED BY <2>9, <3>1, <3>2
  <2> QED BY <2>8, <2>9, <2>10, <2>11, <2>12, <2>13, <2>14 DEF Partly
<1>5. i > Len(text) \/ i \in 1..Len(text)
  BY <1>1
<1> QED BY <1>2, <1>3, <1>4, <1>5

\* What Between leaves.
LEMMA BetweenRight ==
    ASSUME NEW known \in SUBSET (Seq(Letters) \ {<<>>}), NEW text \in Seq(Letters)
    PROVE  Partly(Between(text, known), text, known, 1)
<1> DEFINE n == Len(text) + 1
<1>1. n \in Nat /\ n > 0
  BY LenProperties
<1>2. PICK g : /\ \A i \in 1..n : g[i] = Onward(text, known, g, i)
               /\ Between(text, known) = g[1]
  BY BetweenIs
<1> DEFINE B == {m \in 0..n : \E i \in 1..n : i = n - m /\ ~Partly(g[i], text, known, i)}
<1>3. B = {}
  <2>1. SUFFICES ASSUME B # {} PROVE FALSE
    OBVIOUS
  <2>2. PICK m \in B : \A k \in B : m <= k
    <3>1. B \subseteq Nat
      BY <1>1
    <3> HIDE DEF B
    <3> QED BY <2>1, <3>1, LeastNumber
  <2>3. PICK i \in 1..n : i = n - m /\ ~Partly(g[i], text, known, i)
    BY <2>2
  <2>4. ASSUME NEW k \in 1..n, k > i PROVE Partly(g[k], text, known, k)
    <3>1. n - k \in 0..n /\ ~(m <= n - k) /\ k = n - (n - k)
      BY <1>1, <2>3, <2>4
    <3>2. n - k \notin B
      <4> HIDE DEF B
      <4> QED BY <2>2, <3>1
    <3> QED BY <3>1, <3>2
  <2>5. Partly(Onward(text, known, g, i), text, known, i)
    BY <2>4, OnwardRight
  <2> QED BY <1>2, <2>3, <2>5
<1>4. 1 \in 1..n /\ n - 1 \in 0..n /\ 1 = n - (n - 1)
  BY <1>1
<1>5. Partly(g[1], text, known, 1)
  <2>1. n - 1 \notin B
    BY <1>3
  <2> QED BY <1>4, <2>1
<1> QED BY <1>2, <1>5

\* So is it found in the text.
LEMMA FoundWithin ==
    ASSUME NEW known \in SUBSET (Seq(Letters) \ {<<>>}), NEW text \in Seq(Letters)
    PROVE  Between(text, known).cut <=> \E c \in known : Within(c, text)
<1> DEFINE left == Between(text, known)
<1>1. Partly(left, text, known, 1)
  BY BetweenRight
<1>2. Len(text) \in Nat /\ Len(left.head) \in Nat
  BY <1>1, LenProperties DEF Partly
<1> HIDE DEF left
<1>3. \A c \in known, i \in 1..Len(text) :
        IsPrefix(c, SubSeq(text, i, Len(text))) <=> Occurs(c, text, i)
  BY PrefixAt
<1>4. left.cut => \E c \in known : Within(c, text)
  BY <1>1, <1>3 DEF Partly, Within
<1>5. ASSUME ~left.cut, NEW c \in known, Within(c, text) PROVE FALSE
  <2>1. PICK i \in 1..Len(text) : Occurs(c, text, i)
    BY <1>3, <1>5 DEF Within
  <2>2. 1 + Len(left.head) = Len(text) + 1
    BY <1>1, <1>5 DEF Partly
  <2>3. i \in 1..1 + Len(left.head) - 1
    BY <1>2, <2>2
  <2>4. \A m \in 1..1 + Len(left.head) - 1, d \in known : ~Occurs(d, text, m)
    BY <1>1 DEF Partly
  <2> QED BY <2>1, <2>3, <2>4
<1>6. left.cut <=> \E c \in known : Within(c, text)
  BY <1>4, <1>5
<1> QED BY <1>6 DEF left

\* A text as it is shown: its segments are clean, and it is whole exactly when nothing
\* that is known is in it, and then it is itself.
LEMMA Projected ==
    ASSUME NEW known \in SUBSET (Seq(Letters) \ {<<>>}), NEW text \in Seq(Letters),
           NEW view, view = project_text(text, known)
    PROVE  /\ view \in [whole : BOOLEAN, segments : Seq(Seq(Letters))]
           /\ view.whole <=> \A c \in known : ~Within(c, text)
           /\ view.whole => view.segments = <<text>>
           /\ \A k \in DOMAIN view.segments : Clean(view.segments[k], known)
<1> DEFINE left == Between(text, known)
<1>1. Partly(left, text, known, 1) /\ 1 \in 1..Len(text) + 1
  <2>1. Len(text) \in Nat
    BY LenProperties
  <2> QED BY <2>1, BetweenRight
<1>2. left.cut <=> \E c \in known : Within(c, text)
  BY FoundWithin
<1>3. /\ Pieces(left) \in Seq(Seq(Letters))
      /\ \A k \in 1..Len(Pieces(left)) : Clean(Pieces(left)[k], known)
  <2> HIDE DEF left
  <2> QED BY <1>1, PiecesClean
<1>4. view = [whole |-> ~left.cut, segments |-> IF left.cut THEN Pieces(left) ELSE <<text>>]
  BY DEF project_text
<1> HIDE DEF left
<1>5. CASE left.cut
  <2>1. view = [whole |-> FALSE, segments |-> Pieces(left)]
    BY <1>4, <1>5
  <2>2. DOMAIN Pieces(left) = 1..Len(Pieces(left))
    BY <1>3, LenProperties
  <2>3. \A k \in DOMAIN view.segments : Clean(view.segments[k], known)
    BY <1>3, <2>1, <2>2
  <2>4. view \in [whole : BOOLEAN, segments : Seq(Seq(Letters))] /\ ~view.whole
    BY <1>3, <2>1
  <2> QED BY <1>2, <1>5, <2>3, <2>4
<1>6. CASE ~left.cut
  <2>1. view = [whole |-> TRUE, segments |-> <<text>>]
    BY <1>4, <1>6
  <2>2. view \in [whole : BOOLEAN, segments : Seq(Seq(Letters))] /\ view.whole
        /\ view.segments = <<text>>
    BY <2>1
  <2>3. \A c \in known : ~Within(c, text)
    BY <1>2, <1>6
  <2>4. \A k \in DOMAIN view.segments : view.segments[k] = text
    BY <2>2
  <2>5. Clean(text, known)
    BY <2>3 DEF Clean
  <2> QED BY <2>2, <2>3, <2>4, <2>5
<1> QED BY <1>5, <1>6

-------------------------------------------------------------------------------
(* A call that fails *)

\* A bounded sequence is a sequence.
LEMMA BoundedIn ==
    ASSUME NEW S, NEW b, NEW s \in BoundedSeq(S, b)
    PROVE  s \in Seq(S)
<1>1. PICK m \in 0..b : s \in [1..m -> S]
  BY DEF BoundedSeq, SeqOf
<1> QED BY <1>1

\* What Core may answer.
LEMMA ResponseIs ==
    ASSUME NEW response \in Responses
    PROVE  /\ response.status \in {0, 200, 401, 403, 404, 409, 503}
           /\ response.status # 0 => response.end \in {"complete", "interrupted", "oversized"}
           /\ response.matcher \in BOOLEAN
           /\ response.body.kind \in {"empty", "binary", "text"}
           /\ response.body.kind # "text" => response.body.texts = <<>>
           /\ response.end # "complete" \/ response.status \in {0, 200}
                => response.body.texts = <<>>
           /\ \A k \in DOMAIN response.body.texts : response.body.texts[k] \in Seq(Letters)
<1> DEFINE R4 == [status : {200, 401, 403, 404, 409, 503}, end : {"interrupted", "oversized"},
                  matcher : {TRUE}, body : {NoBody}]
           R5 == [status : {200}, end : {"complete"}, matcher : {TRUE}, body : {NoBody}]
           R6 == [status : {401, 403, 404, 409, 503}, end : {"complete"}, matcher : {TRUE},
                  body : Bodies]
           R7 == [status : {409}, end : {"complete"}, matcher : {FALSE},
                  body : {NoBody, [kind |-> "text", texts |-> <<Key>>]}]
<1>1. NoBody.kind = "empty" /\ NoBody.texts = <<>> /\ DOMAIN NoBody.texts = {}
  BY DEF NoBody
<1>2. ASSUME NEW body \in Bodies
      PROVE  /\ body.kind \in {"empty", "binary", "text"}
             /\ body.kind # "text" => body.texts = <<>>
             /\ \A k \in DOMAIN body.texts : body.texts[k] \in Seq(Letters)
  <2>1. CASE \E k \in {"empty", "binary"} : body = [kind |-> k, texts |-> <<>>]
    <3>1. body.kind \in {"empty", "binary"} /\ body.texts = <<>>
      BY <2>1
    <3> QED BY <3>1
  <2>2. ASSUME NEW t \in BoundedSeq(Letters, MaxText) \ {<<>>},
               body = [kind |-> "text", texts |-> <<t>>]
        PROVE  body.kind = "text" /\ \A k \in DOMAIN body.texts : body.texts[k] \in Seq(Letters)
    <3>1. t \in Seq(Letters)
      BY BoundedIn
    <3> QED BY <2>2, <3>1
  <2>3. ASSUME NEW t \in BoundedSeq(Letters, MaxText), NEW u \in BoundedSeq(Letters, MaxTrace),
               body = [kind |-> "text", texts |-> <<t, u>>]
        PROVE  body.kind = "text" /\ \A k \in DOMAIN body.texts : body.texts[k] \in Seq(Letters)
    <3>1. t \in Seq(Letters) /\ u \in Seq(Letters)
      BY BoundedIn
    <3> QED BY <2>3, <3>1
  <2> QED BY <2>1, <2>2, <2>3 DEF Bodies
<1>3. CASE response = [status |-> 0, end |-> "none", matcher |-> TRUE, body |-> NoBody]
  <2>1. response.status = 0 /\ response.matcher = TRUE /\ response.body = NoBody
    BY <1>3
  <2> QED BY <1>1, <2>1
<1>4. CASE response \in R4
  <2>1. /\ response.status \in {200, 401, 403, 404, 409, 503} /\ response.matcher = TRUE
        /\ response.end \in {"interrupted", "oversized"} /\ response.body = NoBody
    <3>1. \A r \in R4 : r.status \in {200, 401, 403, 404, 409, 503} /\ r.matcher = TRUE
      OBVIOUS
    <3>2. \A r \in R4 : r.end \in {"interrupted", "oversized"} /\ r.body = NoBody
      OBVIOUS
    <3> HIDE DEF R4
    <3> QED BY <1>4, <3>1, <3>2
  <2>2. response.status \in {0, 200, 401, 403, 404, 409, 503}
    BY <2>1
  <2>3. response.body.kind = "empty" /\ response.body.texts = <<>>
        /\ \A k \in DOMAIN response.body.texts : FALSE
    BY <1>1, <2>1
  <2> QED BY <2>1, <2>2, <2>3
<1>5. CASE response \in R5
  <2>1. /\ response.status = 200 /\ response.matcher = TRUE /\ response.end = "complete"
        /\ response.body = NoBody
    BY <1>5
  <2> QED BY <1>1, <2>1
<1>6. CASE response \in R6
  <2>1. /\ response.status \in {401, 403, 404, 409, 503} /\ response.matcher = TRUE
        /\ response.end = "complete" /\ response.body \in Bodies
    BY <1>6
  <2>2. response.status \in {0, 200, 401, 403, 404, 409, 503} /\ response.status \notin {0, 200}
    BY <2>1
  <2>3. response.matcher \in BOOLEAN
    BY <2>1
  <2>4. /\ response.body.kind \in {"empty", "binary", "text"}
        /\ response.body.kind # "text" => response.body.texts = <<>>
        /\ \A k \in DOMAIN response.body.texts : response.body.texts[k] \in Seq(Letters)
    BY <1>2, <2>1
  <2> QED BY <2>1, <2>2, <2>3, <2>4
<1>7. CASE response \in R7
  <2>1. /\ response.status = 409 /\ response.matcher = FALSE /\ response.end = "complete"
        /\ response.body \in {NoBody, [kind |-> "text", texts |-> <<Key>>]}
    BY <1>7
  <2>2. Key \in Seq(Letters)
    BY TextsOfLetters
  <2>3. CASE response.body = NoBody
    <3>1. response.body.kind = "empty" /\ response.body.texts = <<>>
          /\ DOMAIN response.body.texts = {}
      BY <1>1, <2>3
    <3> QED BY <2>1, <3>1
  <2>4. CASE response.body = [kind |-> "text", texts |-> <<Key>>]
    <3>1. response.body.kind = "text" /\ response.body.texts = <<Key>>
      BY <2>4
    <3>2. \A k \in DOMAIN response.body.texts : response.body.texts[k] = Key
      BY <3>1
    <3>3. \A k \in DOMAIN response.body.texts : response.body.texts[k] \in Seq(Letters)
      BY <2>2, <3>2
    <3>4. response.matcher \in BOOLEAN
      BY <2>1
    <3> QED BY <2>1, <3>1, <3>3, <3>4
  <2> QED BY <2>1, <2>3, <2>4
<1>8. \/ response = [status |-> 0, end |-> "none", matcher |-> TRUE, body |-> NoBody]
      \/ response \in R4 \/ response \in R5 \/ response \in R6 \/ response \in R7
  <2> DEFINE R3 == [status |-> 0, end |-> "none", matcher |-> TRUE, body |-> NoBody]
  <2>1. Responses = {R3} \cup R4 \cup R5 \cup R6 \cup R7
    BY ZenonT(60) DEF Responses
  <2> HIDE DEF R3, R4, R5, R6, R7
  <2>2. response \in {R3} \cup R4 \cup R5 \cup R6 \cup R7
    BY <2>1
  <2>3. response = R3 \/ response \in R4 \/ response \in R5 \/ response \in R6
        \/ response \in R7
    BY <2>2
  <2> QED BY <2>3 DEF R3
<1> QED BY <1>3, <1>4, <1>5, <1>6, <1>7, <1>8, Zenon

\* What the client makes of a response, whose texts are shown clean.
FaithfulError(error, response, known) ==
    LET texts == response.body.texts
        found == \E k \in DOMAIN texts, c \in known : Within(c, texts[k])
    IN  /\ error.kind \in {"Upstream", "Unavailable", "ResponseTooLarge", "IncompatibleResponse"}
        /\ error.kind = "Upstream" =>
            error.status = response.status /\ response.status \notin {0, 200}
        /\ error.kind # "Upstream" => response.status \in {0, 200}
        /\ error.original \in BOOLEAN
        /\ error.present \in {"yes", "no", "unknown"}
        /\ \A k \in DOMAIN error.views :
            \A j \in DOMAIN error.views[k].segments : Clean(error.views[k].segments[j], known)
        /\ error.present = "yes" => found /\ error.original
        /\ error.kind = "Upstream" /\ response.matcher /\ found => error.present = "yes"
        /\ error.present = "no" =>
            /\ ~error.original
            /\ \A k \in DOMAIN error.views : error.views[k].segments = <<texts[k]>>

\* The client makes that of a response.
LEMMA FromResponse ==
    ASSUME NEW known \in SUBSET (Seq(Letters) \ {<<>>}), NEW response \in Responses,
           response.status \notin {0, 200}, NEW error,
           error = from_response(response.status, response.body, known, response.matcher)
    PROVE  FaithfulError(error, response, known)
<1> DEFINE texts == response.body.texts
           views == [k \in DOMAIN texts |-> project_text(texts[k], known)]
           present == \E k \in DOMAIN views : ~views[k].whole
           fragmented == \E k \in DOMAIN views : Fragmented(views[k])
           found == \E k \in DOMAIN texts, c \in known : Within(c, texts[k])
<1>1. ASSUME NEW k \in DOMAIN texts
      PROVE  /\ views[k].whole <=> \A c \in known : ~Within(c, texts[k])
             /\ views[k].whole => views[k].segments = <<texts[k]>>
             /\ \A j \in DOMAIN views[k].segments : Clean(views[k].segments[j], known)
  <2>1. texts[k] \in Seq(Letters) /\ views[k] = project_text(texts[k], known)
    BY ResponseIs
  <2> HIDE DEF views, texts
  <2>2. \A text \in Seq(Letters) : \A view :
            view = project_text(text, known) =>
                /\ view.whole <=> \A c \in known : ~Within(c, text)
                /\ view.whole => view.segments = <<text>>
                /\ \A j \in DOMAIN view.segments : Clean(view.segments[j], known)
    BY Projected
  <2> DEFINE v == views[k]
  <2>3. v = project_text(texts[k], known)
    BY <2>1
  <2> HIDE DEF v
  <2>4. /\ v.whole <=> \A c \in known : ~Within(c, texts[k])
        /\ v.whole => v.segments = <<texts[k]>>
        /\ \A j \in DOMAIN v.segments : Clean(v.segments[j], known)
    BY <2>1, <2>2, <2>3
  <2> QED BY <2>4 DEF v
<1>2. DOMAIN views = DOMAIN texts
  OBVIOUS
<1>3. present <=> found
  <2> HIDE DEF views, texts
  <2> QED BY <1>1, <1>2
<1>4. fragmented => present
  <2> HIDE DEF views
  <2> QED BY DEF Fragmented
<1>5. ~response.matcher =>
        error = [kind |-> "Upstream", status |-> response.status, views |-> <<>>,
                 reason |-> "projection", present |-> "unknown", original |-> TRUE]
  BY DEF from_response
<1>6. response.matcher =>
        /\ error.kind = "Upstream" /\ error.status = response.status
        /\ error.views = IF fragmented THEN <<>> ELSE views
        /\ error.present = CASE response.body.kind # "text" -> "unknown"
                             [] response.body.kind = "text" /\ present -> "yes"
                             [] OTHER -> "no"
        /\ error.original = present
  BY DEF from_response
<1>7. response.body.kind # "text" => ~found
  <2>1. response.body.kind # "text" => DOMAIN texts = {}
    BY ResponseIs
  <2> QED BY <2>1
<1>8. response.matcher \in BOOLEAN
  BY ResponseIs
<1>9. CASE ~response.matcher
  <2>1. /\ error.kind = "Upstream" /\ error.status = response.status /\ error.views = <<>>
        /\ error.present = "unknown" /\ error.original = TRUE /\ DOMAIN error.views = {}
    BY <1>5, <1>9
  <2> QED BY <1>9, <2>1 DEF FaithfulError
<1>10. CASE response.matcher
  <2> HIDE DEF present, fragmented, views, found
  <2>1. /\ error.kind = "Upstream" /\ error.status = response.status
        /\ error.views = IF fragmented THEN <<>> ELSE views
        /\ error.original = present
    BY <1>6, <1>10
  <2>2. error.present = CASE response.body.kind # "text" -> "unknown"
                          [] response.body.kind = "text" /\ present -> "yes"
                          [] OTHER -> "no"
    BY <1>6, <1>10
  <2>3. /\ error.present \in {"yes", "no", "unknown"}
        /\ error.present = "yes" => present
        /\ present => error.present = "yes"
        /\ error.present = "no" => ~present
    <3>1. CASE response.body.kind # "text"
      BY <1>3, <1>7, <2>2, <3>1
    <3>2. CASE response.body.kind = "text" /\ present
      BY <2>2, <3>2
    <3>3. CASE response.body.kind = "text" /\ ~present
      BY <2>2, <3>3
    <3> QED BY <3>1, <3>2, <3>3
  <2>4. error.original \in BOOLEAN /\ (error.original <=> present)
    BY <2>1 DEF present
  <2>5. \A k \in DOMAIN error.views :
            k \in DOMAIN texts /\ error.views[k] = views[k]
    BY <1>2, <2>1
  <2>6. \A k \in DOMAIN error.views :
            \A j \in DOMAIN error.views[k].segments : Clean(error.views[k].segments[j], known)
    BY <1>1, <2>5
  <2>7. ~present => \A k \in DOMAIN error.views : error.views[k].segments = <<texts[k]>>
    BY <1>1, <1>2, <2>5 DEF present
  <2>8. (\E k \in DOMAIN texts, c \in known : Within(c, texts[k])) <=> present
    BY <1>3 DEF found
  <2> QED BY <2>1, <2>3, <2>4, <2>6, <2>7, <2>8 DEF FaithfulError
<1> QED BY <1>8, <1>9, <1>10

\* And so does an attempt, whether there is a response or not.
LEMMA PostOnce ==
    ASSUME NEW known \in SUBSET (Seq(Letters) \ {<<>>}), NEW response \in Responses,
           NEW error, error = post_once(response, known)
    PROVE  FaithfulError(error, response, known)
<1>1. /\ response.status \in {0, 200, 401, 403, 404, 409, 503}
      /\ response.status # 0 => response.end \in {"complete", "interrupted", "oversized"}
      /\ response.end # "complete" \/ response.status \in {0, 200}
            => response.body.texts = <<>>
  BY ResponseIs
<1>2. ASSUME NEW kind \in {"Unavailable", "ResponseTooLarge", "IncompatibleResponse"},
             error = Local(kind), response.status \in {0, 200}
      PROVE  FaithfulError(error, response, known)
  <2>1. /\ error.kind = kind /\ error.views = <<>> /\ error.present = "unknown"
        /\ error.original = FALSE /\ DOMAIN error.views = {}
    BY <1>2 DEF Local
  <2> QED BY <1>2, <2>1 DEF FaithfulError
<1>3. CASE response.status = 0
  <2>1. error = Local("Unavailable")
    BY <1>3 DEF post_once
  <2> QED BY <1>2, <1>3, <2>1
<1>4. CASE response.status = 200
  <2> DEFINE kind == CASE response.end = "interrupted" -> "Unavailable"
                       [] response.end = "oversized" -> "ResponseTooLarge"
                       [] response.end = "complete" -> "IncompatibleResponse"
  <2>1. error = Local(kind)
    <3> HIDE DEF kind
    <3> SUFFICES post_once(response, known) = Local(kind)
      OBVIOUS
    <3>1. ~(response.status = 0) /\ ~(response.status \notin {0, 200})
      BY <1>4
    <3> QED BY <1>4, <3>1 DEF post_once, kind
  <2>2. CASE response.end = "interrupted"
    <3>1. error = Local("Unavailable")
      BY <2>1, <2>2
    <3> QED BY <1>2, <1>4, <3>1
  <2>3. CASE response.end = "oversized"
    <3>1. error = Local("ResponseTooLarge")
      BY <2>1, <2>3
    <3> QED BY <1>2, <1>4, <3>1
  <2>4. CASE response.end = "complete"
    <3>1. error = Local("IncompatibleResponse")
      BY <2>1, <2>4
    <3> QED BY <1>2, <1>4, <3>1
  <2> QED BY <1>1, <1>4, <2>2, <2>3, <2>4
<1>5. CASE response.status \notin {0, 200}
  <2>1. error = IF response.end = "complete"
                THEN from_response(response.status, response.body, known, response.matcher)
                ELSE without_body(response.status, response.end)
    BY <1>5 DEF post_once
  <2>2. CASE response.end = "complete"
    BY <1>5, <2>1, <2>2, FromResponse
  <2>3. CASE response.end # "complete"
    <3>1. /\ error.kind = "Upstream" /\ error.status = response.status /\ error.views = <<>>
          /\ error.present = "unknown" /\ error.original = FALSE /\ DOMAIN error.views = {}
      BY <2>1, <2>3 DEF without_body
    <3>2. DOMAIN response.body.texts = {}
      <4>1. response.body.texts = <<>>
        BY <1>1, <2>3
      <4> QED BY <4>1
    <3> QED BY <1>5, <3>1, <3>2 DEF FaithfulError
  <2> QED BY <2>2, <2>3
<1> QED BY <1>3, <1>4, <1>5

\* What a client knows are texts, and none is empty.
LEMMA KnownIs ==
    ASSUME NEW request, NEW token
    PROVE  Known(request, token) \in SUBSET (Seq(Letters) \ {<<>>})
BY TextsOfLetters DEF Known

\* What a call makes of a failure.
Report(error, kind, native, room) ==
    CASE kind = "read" -> api_error(error, native, room)
      [] kind = "lookup" -> operation_lookup_error(error, native, room)
      [] kind \in Writes -> mutation_error(error, "target", native, room)

\* The fields of an answer that reports a failure.
LEMMA Reported ==
    ASSUME NEW error, error.original \in BOOLEAN, NEW native \in BOOLEAN, NEW room \in 0..1,
           NEW kind \in Failing, NEW told,
           told = AsResult(Report(error, kind, native, room))
    PROVE  /\ told.form \in {"error", "result"}
           /\ told.views = error.views /\ told.present = error.present
           /\ told.upstream = (error.kind = "Upstream")
           /\ told.reconcile = IF kind \in Writes /\ mutation_outcome_unknown(error)
                               THEN "target" ELSE NoRecord
           /\ error.original => told.file \/ told.why # "none"
           /\ ~error.original => ~told.file /\ told.why = "none"
           /\ told.file => native /\ room > 0
<1> DEFINE handed == Handed(error.original, native, room)
           plain == api_error(error, native, room)
           body == Report(error, kind, native, room)
           code == IF kind = "lookup" /\ resource_not_found(error)
                   THEN "invalid params" ELSE "internal"
           reconcile == IF kind \in Writes /\ mutation_outcome_unknown(error)
                        THEN "target" ELSE NoRecord
<1>1. /\ error.original => handed.file \/ handed.why # "none"
      /\ ~error.original => ~handed.file /\ handed.why = "none"
      /\ handed.file => native /\ room > 0
  <2>1. CASE ~error.original
    <3>1. handed = [file |-> FALSE, why |-> "none"]
      BY <2>1 DEF Handed
    <3> HIDE DEF handed
    <3> QED BY <2>1, <3>1
  <2>2. CASE error.original /\ ~native
    <3>1. handed = [file |-> FALSE, why |-> "native"]
      BY <2>2 DEF Handed
    <3> HIDE DEF handed
    <3> QED BY <2>2, <3>1
  <2>3. CASE error.original /\ native /\ room = 0
    <3>1. handed = [file |-> FALSE, why |-> "capacity"]
      BY <2>3 DEF Handed
    <3> HIDE DEF handed
    <3> QED BY <2>3, <3>1
  <2>4. CASE error.original /\ native /\ room # 0
    <3>1. handed = [file |-> TRUE, why |-> "none"]
      BY <2>4 DEF Handed
    <3> HIDE DEF handed
    <3> QED BY <2>4, <3>1
  <2> QED BY <2>1, <2>2, <2>3, <2>4
<1>2. body = [form |-> "error", code |-> code, upstream |-> error.kind = "Upstream",
              views |-> error.views, reason |-> error.reason, present |-> error.present,
              file |-> handed.file, why |-> handed.why, reconcile |-> reconcile]
  <2>1. plain = [form |-> "error", code |-> "internal", upstream |-> error.kind = "Upstream",
                 views |-> error.views, reason |-> error.reason, present |-> error.present,
                 file |-> handed.file, why |-> handed.why, reconcile |-> NoRecord]
    BY DEF api_error
  <2> HIDE DEF plain, handed
  <2>2. CASE kind = "read"
    <3>1. body = plain /\ code = "internal" /\ reconcile = NoRecord
      BY <2>2 DEF Report, Writes, plain
    <3> QED BY <2>1, <3>1
  <2>3. CASE kind = "lookup"
    <3>1. body = operation_lookup_error(error, native, room) /\ reconcile = NoRecord
      BY <2>3 DEF Report, Writes
    <3>2. operation_lookup_error(error, native, room)
          = [plain EXCEPT !.code = IF resource_not_found(error) THEN "invalid params" ELSE @]
      BY DEF operation_lookup_error, plain
    <3>3. plain.code = "internal"
      BY <2>1
    <3>4. body = [plain EXCEPT !.code = code]
      BY <2>3, <3>1, <3>2, <3>3
    <3> HIDE DEF code, body
    <3> QED BY <2>1, <3>1, <3>4
  <2>4. CASE kind \in Writes
    <3>1. body = mutation_error(error, "target", native, room) /\ code = "internal"
      BY <2>4 DEF Report, Writes
    <3>2. mutation_error(error, "target", native, room)
          = [plain EXCEPT !.reconcile = reconcile]
      BY <2>4 DEF mutation_error, plain
    <3> HIDE DEF reconcile, body
    <3> QED BY <2>1, <3>1, <3>2
  <2> QED BY <2>2, <2>3, <2>4 DEF Failing
<1>3. /\ told.form \in {"error", "result"} /\ told.views = body.views
      /\ told.present = body.present /\ told.upstream = body.upstream
      /\ told.reconcile = body.reconcile /\ told.file = body.file /\ told.why = body.why
  <2>1. told = IF body.file \/ body.why # "none" THEN [body EXCEPT !.form = "result"] ELSE body
    BY DEF AsResult
  <2> DEFINE up == error.kind = "Upstream"
             other == [body EXCEPT !.form = "result"]
  <2> HIDE DEF body, code, handed, reconcile, up
  <2>2. body = [form |-> "error", code |-> code, upstream |-> up,
                views |-> error.views, reason |-> error.reason, present |-> error.present,
                file |-> handed.file, why |-> handed.why, reconcile |-> reconcile]
    BY <1>2 DEF up
  <2>3. other = [form |-> "result", code |-> code, upstream |-> up,
                 views |-> error.views, reason |-> error.reason, present |-> error.present,
                 file |-> handed.file, why |-> handed.why, reconcile |-> reconcile]
    BY <2>2
  <2> HIDE DEF other
  <2>4. told = other \/ told = body
    BY <2>1 DEF other
  <2>5. /\ other.form = "result" /\ other.views = error.views
        /\ other.present = error.present /\ other.upstream = up /\ other.file = handed.file
        /\ other.why = handed.why /\ other.reconcile = reconcile
    BY <2>3
  <2>6. /\ body.form = "error" /\ body.views = error.views
        /\ body.present = error.present /\ body.upstream = up /\ body.file = handed.file
        /\ body.why = handed.why /\ body.reconcile = reconcile
    BY <2>2
  <2>7. CASE told = other
    BY <2>5, <2>6, <2>7
  <2>8. CASE told = body
    BY <2>6, <2>8
  <2> QED BY <2>4, <2>7, <2>8
<1> HIDE DEF body, handed, code, reconcile
<1>4. /\ body.views = error.views /\ body.present = error.present
      /\ body.upstream = (error.kind = "Upstream") /\ body.reconcile = reconcile
      /\ body.file = handed.file /\ body.why = handed.why
  BY <1>2
<1> QED BY <1>1, <1>3, <1>4 DEF reconcile

\* A call that waits for its answer.
AskRecords ==
    [kind : Failing, native : BOOLEAN, room : 0..1,
     known : SUBSET (Seq(Letters) \ {<<>>}), attempts : {1, 2}]
Waiting ==
    /\ answer = NoAnswer =>
        \/ call = NoCall
        \/ call \in AskRecords /\ (call.kind \in Writes => call.attempts = 1)
    /\ call = NoCall => answer = NoAnswer

\* The invariant of a call.
CallInv ==
    /\ Waiting
    /\ NoLiteralInline /\ OriginalAccounted /\ OutcomeSurvives /\ FilterExact /\ ViewsAgree

\* As long as there is no answer, nothing is wrong with it.
LEMMA NothingAnswered ==
    answer.form = "none"
    => NoLiteralInline /\ OriginalAccounted /\ OutcomeSurvives /\ FilterExact /\ ViewsAgree
BY DEF NoLiteralInline, OriginalAccounted, OutcomeSurvives, FilterExact, ViewsAgree

\* The same of the state after a step.
LEMMA NothingAnsweredThen ==
    (answer.form = "none")'
    => (NoLiteralInline /\ OriginalAccounted /\ OutcomeSurvives /\ FilterExact /\ ViewsAgree)'
BY NothingAnswered, PTL

\* No call was made.
LEMMA CallInitially ==
    ASSUME CallInit
    PROVE  CallInv
<1>1. call = NoCall /\ answer = NoAnswer /\ answer.form = "none"
  BY DEF CallInit, NoAnswer
<1> QED BY <1>1, NothingAnswered DEF CallInv, Waiting

\* A call is made.
LEMMA AskKeeps ==
    ASSUME CallInv, Ask
    PROVE  CallInv'
<1>1. PICK kind \in Failing, native \in BOOLEAN, room \in 0..1, token \in BOOLEAN :
        call' = [kind |-> kind, native |-> native, room |-> room,
                 known |-> Known(kind, token), attempts |-> 1]
  BY DEF Ask
<1>2. call' \in AskRecords /\ call'.attempts = 1 /\ call' # NoCall
  <2>1. Known(kind, token) \in SUBSET (Seq(Letters) \ {<<>>})
    BY KnownIs
  <2>2. call'.kind \in Failing
    BY <1>1
  <2> QED BY <1>1, <2>1, <2>2 DEF AskRecords, NoCall, Failing, Writes
<1>3. answer' = answer /\ answer = NoAnswer
  BY DEF Ask, CallInv, Waiting
<1>4. answer'.form = "none"
  BY <1>3 DEF NoAnswer
<1> QED BY <1>2, <1>3, <1>4, NothingAnsweredThen DEF CallInv, Waiting

\* Core fails the request, and the caller is told, or the read is sent again.
LEMMA FailKeeps ==
    ASSUME CallInv, Fail
    PROVE  CallInv'
<1>1. /\ call.kind \in Failing /\ answer = NoAnswer /\ call # NoCall /\ call \in AskRecords
      /\ call.kind \in Writes => call.attempts = 1
  <2>1. call.kind \in Failing /\ answer = NoAnswer
    BY DEF Fail
  <2>2. call # NoCall
    BY <2>1 DEF NoCall, Failing, Writes
  <2> QED BY <2>1, <2>2 DEF CallInv, Waiting
<1>2. /\ call.native \in BOOLEAN /\ call.room \in 0..1 /\ call.attempts \in {1, 2}
      /\ call.known \in SUBSET (Seq(Letters) \ {<<>>})
  BY <1>1 DEF AskRecords
<1>3. PICK response \in Responses :
        IF call.kind \notin Writes /\ call.attempts = 1
           /\ WorthRetrying(post_once(response, call.known))
        THEN call' = [call EXCEPT !.attempts = 2] /\ UNCHANGED <<received, answer>>
        ELSE /\ received' = response
             /\ answer' = AsResult(
                    CASE call.kind = "read" ->
                            api_error(post_once(response, call.known), call.native, call.room)
                      [] call.kind = "lookup" ->
                            operation_lookup_error(post_once(response, call.known),
                                                   call.native, call.room)
                      [] call.kind \in Writes ->
                            mutation_error(post_once(response, call.known), "target",
                                           call.native, call.room))
             /\ UNCHANGED call
  BY DEF Fail
<1> DEFINE error == post_once(response, call.known)
<1>4. FaithfulError(error, response, call.known)
  BY <1>2, PostOnce
<1>5. ASSUME call.kind \notin Writes, call' = [call EXCEPT !.attempts = 2],
             UNCHANGED <<received, answer>>
      PROVE  CallInv'
  <2>1. call' \in AskRecords /\ call'.kind = call.kind
    BY <1>1, <1>5 DEF AskRecords
  <2>2. call' # NoCall
    BY <1>1, <2>1 DEF NoCall, Failing, Writes
  <2>3. answer'.form = "none" /\ answer' = NoAnswer
    BY <1>1, <1>5 DEF NoAnswer
  <2> QED BY <1>5, <2>1, <2>2, <2>3, NothingAnsweredThen DEF CallInv, Waiting
<1>6. ASSUME received' = response, call' = call,
             answer' = AsResult(Report(error, call.kind, call.native, call.room))
      PROVE  CallInv'
  <2>1. error.original \in BOOLEAN
    BY <1>4 DEF FaithfulError
  <2> HIDE DEF error
  <2>2. /\ answer'.form \in {"error", "result"}
        /\ answer'.views = error.views /\ answer'.present = error.present
        /\ answer'.upstream = (error.kind = "Upstream")
        /\ answer'.reconcile = IF call.kind \in Writes /\ mutation_outcome_unknown(error)
                               THEN "target" ELSE NoRecord
        /\ error.original => answer'.file \/ answer'.why # "none"
        /\ ~error.original => ~answer'.file /\ answer'.why = "none"
        /\ answer'.file => call.native /\ call.room > 0
    BY <1>1, <1>2, <1>6, <2>1, Reported
  <2>3. Waiting'
    BY <1>1, <1>6, <2>2 DEF Waiting, NoAnswer
  <2>4. NoLiteralInline'
    <3>1. \A k \in DOMAIN answer'.views :
            \A j \in DOMAIN answer'.views[k].segments, c \in call'.known :
                ~Within(c, answer'.views[k].segments[j])
      BY <1>4, <1>6, <2>2 DEF FaithfulError, Clean
    <3>2. answer'.form # "documents"
      BY <2>2
    <3> QED BY <3>1, <3>2 DEF NoLiteralInline, Within
  <2>5. OriginalAccounted'
    <3> DEFINE texts == response.body.texts
               found == \E k \in DOMAIN texts, c \in call.known : Within(c, texts[k])
    <3>1. /\ error.present = "yes" => found /\ error.original
          /\ error.kind = "Upstream" /\ response.matcher /\ found => error.present = "yes"
          /\ error.present = "no" =>
            /\ ~error.original
            /\ \A k \in DOMAIN error.views : error.views[k].segments = <<texts[k]>>
      BY <1>4 DEF FaithfulError
    <3>2. answer'.form # "documents"
      BY <2>2
    <3>3. received'.body.texts = texts /\ received'.matcher = response.matcher
          /\ call'.known = call.known /\ call'.native = call.native /\ call'.room = call.room
      BY <1>6
    <3>4. /\ answer'.present = "yes" => found
          /\ answer'.upstream /\ response.matcher /\ found =>
                answer'.present = "yes" /\ (answer'.file \/ answer'.why # "none")
          /\ answer'.present = "no" =>
                /\ ~answer'.file /\ answer'.why = "none"
                /\ \A k \in DOMAIN answer'.views : answer'.views[k].segments = <<texts[k]>>
      <4> HIDE DEF found, texts
      <4>1. answer'.upstream => error.kind = "Upstream"
        BY <2>2, Zenon
      <4> QED BY <2>2, <3>1, <4>1
    <3> QED BY <2>2, <3>2, <3>3, <3>4 DEF OriginalAccounted, Within
  <2>6. OutcomeSurvives'
    <3>1. received'.status = response.status /\ call'.kind = call.kind
          /\ call'.attempts = call.attempts
      BY <1>6
    <3>2. mutation_outcome_unknown(error) <=> response.status \notin {401, 403, 404}
      BY <1>4 DEF FaithfulError, mutation_outcome_unknown
    <3> QED BY <1>1, <2>2, <3>1, <3>2 DEF OutcomeSurvives
  <2>7. FilterExact' /\ ViewsAgree'
    BY <2>2 DEF FilterExact, ViewsAgree
  <2> QED BY <2>3, <2>4, <2>5, <2>6, <2>7 DEF CallInv
<1>7. CASE call.kind \notin Writes /\ call.attempts = 1 /\ WorthRetrying(error)
  BY <1>3, <1>5, <1>7
<1>8. CASE ~(call.kind \notin Writes /\ call.attempts = 1 /\ WorthRetrying(error))
  <2>1. answer' = AsResult(Report(error, call.kind, call.native, call.room))
        /\ received' = response /\ call' = call
    BY <1>3, <1>8 DEF Report
  <2> QED BY <1>6, <2>1
<1> QED BY <1>7, <1>8

-------------------------------------------------------------------------------
(* What is shown of a resource *)

\* The resources of the documents.
Resources == Plain \cup Builders \cup Alerters({"table"})

\* A value that is replaced is no literal credential.
LEMMA ReplacedIs ==
    ASSUME NEW v
    PROVE  Replaced(v) # "literal"
BY DEF Replaced, Withheld

\* What is shown of a resource with plain fields has no credential.
LEMMA PlainShown ==
    ASSUME NEW r \in Plain \cup Builders
    PROVE  ~Bare(project_resource(r))
<1>1. /\ r.kind \in {"server", "stack", "deployment", "builder"}
      /\ r.shape \in Shapes /\ r.config \in BOOLEAN /\ Placed(r)
      /\ r.kind = "deployment" => r.value # "literal"
      /\ r.kind = "builder" =>
            /\ r.value # "absent" => r.params
            /\ r.type = "Server" => r.value # "literal"
            /\ r.type \in {"Url", "Server"} /\ r.params \in BOOLEAN
  BY DEF Plain, Builders
<1> DEFINE changed == [r EXCEPT !.value = Replaced(@)]
<1>2. changed.kind = r.kind /\ changed.value # "literal"
  <2>1. CASE r \in Plain
    <3>1. r \in [kind : {"server", "stack", "deployment"}, shape : Shapes,
                 config : BOOLEAN, value : Values]
      BY <2>1 DEF Plain
    <3> QED BY <3>1, ReplacedIs
  <2>2. CASE r \in Builders
    <3>1. r \in [kind : {"builder"}, shape : Shapes, config : BOOLEAN,
                 type : {"Url", "Server"}, params : BOOLEAN, value : Values]
      BY <2>2 DEF Builders
    <3> QED BY <3>1, ReplacedIs
  <2> QED BY <2>1, <2>2
<1>3. CASE r.shape = "scalar" \/ ~r.config \/ r.kind = "deployment"
  <2>1. project_resource(r) = r
    BY <1>3 DEF project_resource
  <2>2. r.value # "literal"
    BY <1>1, <1>3 DEF Placed
  <2> QED BY <1>1, <2>1, <2>2 DEF Bare
<1>4. CASE r.shape # "scalar" /\ r.config /\ r.kind \in {"server", "stack"}
  <2>1. project_resource(r) = changed
    BY <1>4 DEF project_resource
  <2> HIDE DEF changed
  <2> QED BY <1>1, <1>2, <2>1 DEF Bare
<1>5. CASE r.shape # "scalar" /\ r.config /\ r.kind = "builder"
  <2>1. project_resource(r) = IF r.type = "Url" /\ r.params THEN changed ELSE r
    BY <1>5 DEF project_resource
  <2>2. ~(r.type = "Url" /\ r.params) => r.value # "literal"
    BY <1>1, <1>5
  <2> HIDE DEF changed
  <2> QED BY <1>1, <1>2, <2>1, <2>2 DEF Bare
<1> QED BY <1>1, <1>3, <1>4, <1>5

\* Nor is one in a query of a URL, wherever it is.
LEMMA QueryShown ==
    ASSUME NEW type \in Types, NEW query \in Queries(type),
           NEW k \in DOMAIN query
    PROVE  project_endpoint_query(query, type)[k].value # "literal"
<1> DEFINE pairs == {[name |-> "title", value |-> "x"], [name |-> "token", value |-> "empty"]}
                    \cup IF type # "Pushover" THEN {[name |-> "user", value |-> "x"]}
                         ELSE {[name |-> n, value |-> "literal"] : n \in {"token", "user"}}
<1>1. query[k] \in pairs
  <2>1. Queries(type) = {<<>>} \cup {<<p>> : p \in pairs} \cup {<<p, q>> : p, q \in pairs}
    <3> QED BY DEF Queries
  <2> HIDE DEF pairs
  <2>2. query \in {<<>>} \cup {<<p>> : p \in pairs} \cup {<<p, q>> : p, q \in pairs}
    BY <2>1
  <2>3. CASE query = <<>>
    BY <2>3
  <2>4. CASE query \in {<<p>> : p \in pairs}
    BY <2>4
  <2>5. CASE query \in {<<p, q>> : p, q \in pairs}
    BY <2>5
  <2> QED BY <2>2, <2>3, <2>4, <2>5
<1>2. /\ query[k].value = "literal" => type = "Pushover" /\ query[k].name \in {"token", "user"}
      /\ query[k] \in [name : {"title", "token", "user"}, value : {"x", "empty", "literal"}]
  <2>1. CASE query[k] = [name |-> "title", value |-> "x"]
    BY <2>1
  <2>2. CASE query[k] = [name |-> "token", value |-> "empty"]
    BY <2>2
  <2>3. CASE query[k] = [name |-> "user", value |-> "x"]
    BY <2>3
  <2>4. ASSUME type = "Pushover", NEW n \in {"token", "user"},
               query[k] = [name |-> n, value |-> "literal"]
        PROVE  /\ type = "Pushover" /\ query[k].name \in {"token", "user"}
               /\ query[k] \in [name : {"title", "token", "user"}, value : {"x", "empty", "literal"}]
    BY <2>4
  <2>5. \/ query[k] = [name |-> "title", value |-> "x"]
        \/ query[k] = [name |-> "token", value |-> "empty"]
        \/ query[k] = [name |-> "user", value |-> "x"]
        \/ type = "Pushover" /\ \E n \in {"token", "user"} :
                query[k] = [name |-> n, value |-> "literal"]
    BY <1>1, Zenon
  <2> QED BY <2>1, <2>2, <2>3, <2>4, <2>5
<1>3. project_endpoint_query(query, type)[k]
      = IF type = "Pushover" /\ query[k].name \in {"token", "user"} /\ query[k].value # "empty"
        THEN [query[k] EXCEPT !.value = Withheld] ELSE query[k]
  BY DEF project_endpoint_query
<1>4. [query[k] EXCEPT !.value = Withheld].value = Withheld
  BY <1>2
<1> QED BY <1>2, <1>3, <1>4 DEF Withheld

\* What a path is made of.
Parts == {"x", "empty", "literal", "withheld", "services", "webhooks"}

\* Short sequences.
LEMMA Tuples ==
    ASSUME NEW S
    PROVE  /\ <<>> \in Seq(S) /\ Len(<<>>) = 0
           /\ \A x \in S : <<x>> \in Seq(S) /\ Len(<<x>>) = 1 /\ <<x>>[1] = x
           /\ \A x, y \in S : /\ <<x, y>> \in Seq(S) /\ Len(<<x, y>>) = 2
                              /\ <<x, y>>[1] = x /\ <<x, y>>[2] = y
OBVIOUS

\* What may come before a marker, and behind what follows it.
Befores == {<<>>, <<"x">>}
Rests == {<<>>, <<"empty">>, <<"literal">>, <<"literal", "x">>}

\* What may come before a marker holds none, and no credential.
LEMMA BeforeIs ==
    ASSUME NEW before \in Befores
    PROVE  \E b \in Nat : /\ before \in Seq(Parts) /\ Len(before) = b
                          /\ \A k \in 1..b : before[k] = "x"
<1>1. "x" \in Parts
  BY DEF Parts
<1>2. CASE before = <<>>
  <2>1. before \in Seq(Parts) /\ Len(before) = 0 /\ \A k \in 1..0 : before[k] = "x"
    BY <1>2, Tuples
  <2> QED BY <2>1
<1>3. CASE before = <<"x">>
  <2>1. before \in Seq(Parts) /\ Len(before) = 1 /\ before[1] = "x"
    BY <1>1, <1>3, Tuples
  <2>2. \A k \in 1..1 : before[k] = "x"
    BY <2>1
  <2> QED BY <2>1, <2>2
<1> QED BY <1>2, <1>3 DEF Befores

\* Nor does what follows a marker hold another, or more than one credential.
LEMMA RestIs ==
    ASSUME NEW M \in {"services", "webhooks"}, NEW rest \in Rests
    PROVE  \E l \in Nat : /\ rest \in Seq(Parts) /\ Len(rest) = l
                          /\ \A k \in 1..l : rest[k] # M /\ (rest[k] = "literal" => k = 1)
<1>1. "x" \in Parts /\ "empty" \in Parts /\ "literal" \in Parts
  BY DEF Parts
<1>2. CASE rest = <<>>
  <2>1. rest \in Seq(Parts) /\ Len(rest) = 0
        /\ \A k \in 1..0 : rest[k] # M /\ (rest[k] = "literal" => k = 1)
    BY <1>2, Tuples
  <2> QED BY <2>1
<1>3. ASSUME NEW x \in {"empty", "literal"}, rest = <<x>>
      PROVE  \E l \in Nat : /\ rest \in Seq(Parts) /\ Len(rest) = l
                            /\ \A k \in 1..l : rest[k] # M /\ (rest[k] = "literal" => k = 1)
  <2>1. rest \in Seq(Parts) /\ Len(rest) = 1 /\ rest[1] = x
    BY <1>1, <1>3, Tuples
  <2>2. \A k \in 1..1 : rest[k] # M /\ (rest[k] = "literal" => k = 1)
    BY <2>1
  <2> QED BY <2>1, <2>2
<1>4. CASE rest = <<"literal", "x">>
  <2>1. rest \in Seq(Parts) /\ Len(rest) = 2 /\ rest[1] = "literal" /\ rest[2] = "x"
    BY <1>1, <1>4, Tuples
  <2>2. \A k \in 1..2 : rest[k] # M /\ (rest[k] = "literal" => k = 1)
    BY <2>1
  <2> QED BY <2>1, <2>2
<1> QED BY <1>2, <1>3, <1>4 DEF Rests

\* A path has its marker behind b parts, n parts from there on to the l that matter.
Marks(path, M, n, b, l) ==
    /\ path \in Seq(Parts) /\ Len(path) = b + n + l
    /\ \A k \in 1..Len(path) :
        /\ path[k] = M <=> k = b + 1
        /\ path[k] = "literal" => k = b + 1 + n

\* Two sequences one after the other.
Joint(u, p, q, S) ==
    /\ u \in Seq(S) /\ Len(u) = Len(p) + Len(q)
    /\ \A k \in 1..Len(p) + Len(q) : u[k] = IF k <= Len(p) THEN p[k] ELSE q[k - Len(p)]

\* What the concatenation of two sequences is.
LEMMA Joined ==
    ASSUME NEW S, NEW p \in Seq(S), NEW q \in Seq(S)
    PROVE  Joint(p \o q, p, q, S)
BY ConcatProperties DEF Joint

\* Four of them, the second of which has one element.
FourParts(path, before, mark, xs, rest, b, n, l, S) ==
    /\ before \in Seq(S) /\ mark \in Seq(S) /\ xs \in Seq(S) /\ rest \in Seq(S)
    /\ b \in Nat /\ n \in Nat \ {0} /\ l \in Nat
    /\ Len(before) = b /\ Len(mark) = 1 /\ Len(xs) = n - 1 /\ Len(rest) = l
    /\ path = ((before \o mark) \o xs) \o rest
InFour(path, before, mark, xs, rest, b, n, l) ==
    \A k \in 1..b + n + l :
        /\ k <= b => path[k] = before[k]
        /\ k = b + 1 => path[k] = mark[1]
        /\ k > b + 1 /\ k <= b + n => path[k] = xs[k - (b + 1)]
        /\ k > b + n => path[k] = rest[k - (b + n)]

\* And that of four.
LEMMA FourJoined ==
    ASSUME NEW path, NEW before, NEW mark, NEW xs, NEW rest, NEW b, NEW n, NEW l, NEW S,
           FourParts(path, before, mark, xs, rest, b, n, l, S)
    PROVE  /\ path \in Seq(S) /\ Len(path) = b + n + l
           /\ InFour(path, before, mark, xs, rest, b, n, l)
<1>0. /\ before \in Seq(S) /\ mark \in Seq(S) /\ xs \in Seq(S) /\ rest \in Seq(S)
      /\ b \in Nat /\ n \in Nat \ {0} /\ l \in Nat
      /\ Len(before) = b /\ Len(mark) = 1 /\ Len(xs) = n - 1 /\ Len(rest) = l
  BY Zenon DEF FourParts
<1> DEFINE one == before \o mark
           two == one \o xs
<1>1. /\ one \in Seq(S) /\ Len(one) = b + 1
      /\ \A k \in 1..b + 1 : one[k] = IF k <= b THEN before[k] ELSE mark[k - b]
  <2>1. Joint(one, before, mark, S)
    BY <1>0, Joined
  <2> HIDE DEF one
  <2> QED BY <1>0, <2>1 DEF Joint
<1> HIDE DEF one
<1>2. /\ two \in Seq(S) /\ Len(two) = b + n
      /\ \A k \in 1..b + n : two[k] = IF k <= b + 1 THEN one[k] ELSE xs[k - (b + 1)]
  <2>1. Joint(two, one, xs, S)
    BY <1>0, <1>1, Joined
  <2>2. b + 1 + (n - 1) = b + n
    BY <1>0
  <2> HIDE DEF two
  <2> QED BY <1>0, <1>1, <2>1, <2>2 DEF Joint
<1> HIDE DEF two
<1>3. path = two \o rest
  BY Zenon DEF FourParts, two, one
<1>4. /\ path \in Seq(S) /\ Len(path) = b + n + l
      /\ \A k \in 1..b + n + l : path[k] = IF k <= b + n THEN two[k] ELSE rest[k - (b + n)]
  <2>1. Joint(path, two, rest, S)
    BY <1>0, <1>2, <1>3, Joined
  <2> QED BY <1>0, <1>2, <2>1 DEF Joint
<1>5. ASSUME NEW k \in 1..b + n + l
      PROVE  /\ k <= b => path[k] = before[k]
             /\ k = b + 1 => path[k] = mark[1]
             /\ k > b + 1 /\ k <= b + n => path[k] = xs[k - (b + 1)]
             /\ k > b + n => path[k] = rest[k - (b + n)]
  <2>1. k <= b + n => path[k] = two[k] /\ k \in 1..b + n
    BY <1>0, <1>4
  <2>2. k > b + n => path[k] = rest[k - (b + n)]
    BY <1>0, <1>4
  <2>3. k <= b + 1 => k <= b + n /\ two[k] = one[k] /\ k \in 1..b + 1
    BY <1>0, <1>2, <2>1
  <2>4. k > b + 1 /\ k <= b + n => two[k] = xs[k - (b + 1)]
    BY <1>0, <1>2, <2>1
  <2>5. k <= b => k <= b + 1 /\ one[k] = before[k]
    BY <1>0, <1>1, <2>3
  <2>6. k = b + 1 => one[k] = mark[1]
    <3>1. SUFFICES ASSUME k = b + 1 PROVE one[k] = mark[1]
      OBVIOUS
    <3>2. one[k] = mark[k - b]
      BY <1>0, <1>1, <3>1
    <3>3. k - b = 1
      BY <1>0, <3>1
    <3> QED BY <3>2, <3>3
  <2>7. k = b + 1 => k <= b + 1
    BY <1>0
  <2> QED BY <2>1, <2>2, <2>3, <2>4, <2>5, <2>6, <2>7
<1> QED BY <1>4, <1>5 DEF InFour

\* A path of texts with a marker, then n - 1 others, then what may be a credential.
LEMMA MarkedPath ==
    ASSUME NEW M \in {"services", "webhooks"}, NEW n \in {2, 3}, NEW path, NEW before,
           NEW mark, NEW xs, NEW rest, NEW b, NEW l,
           FourParts(path, before, mark, xs, rest, b, n, l, Parts),
           \A k \in 1..b : before[k] = "x", mark[1] = M, \A k \in 1..n - 1 : xs[k] = "x",
           \A k \in 1..l : rest[k] # M /\ (rest[k] = "literal" => k = 1)
    PROVE  Marks(path, M, n, b, l)
<1>0. b \in Nat /\ l \in Nat
  BY Zenon DEF FourParts
<1>1. /\ path \in Seq(Parts) /\ Len(path) = b + n + l
      /\ InFour(path, before, mark, xs, rest, b, n, l)
  BY FourJoined
<1>2. ASSUME NEW k \in 1..Len(path)
      PROVE  /\ path[k] = M <=> k = b + 1
             /\ path[k] = "literal" => k = b + 1 + n
  <2>1. CASE k <= b
    <3>1. path[k] = before[k] /\ before[k] = "x"
      BY <1>0, <1>1, <2>1 DEF InFour
    <3> QED BY <1>0, <2>1, <3>1
  <2>2. CASE k = b + 1
    <3>1. path[k] = mark[1]
      BY <1>0, <1>1, <2>2 DEF InFour
    <3> QED BY <1>0, <2>2, <3>1
  <2>3. CASE k > b + 1 /\ k <= b + n
    <3>1. k - (b + 1) \in 1..n - 1 /\ path[k] = xs[k - (b + 1)]
      BY <1>0, <1>1, <2>3 DEF InFour
    <3>2. path[k] = "x"
      BY <3>1
    <3> QED BY <1>0, <2>3, <3>2
  <2>4. CASE k > b + n
    <3>1. k - (b + n) \in 1..l /\ path[k] = rest[k - (b + n)]
      BY <1>0, <1>1, <2>4 DEF InFour
    <3>2. path[k] # M /\ (path[k] = "literal" => k - (b + n) = 1)
      BY <3>1
    <3> QED BY <1>0, <2>4, <3>2
  <2> QED BY <1>0, <1>1, <2>1, <2>2, <2>3, <2>4
<1> QED BY <1>0, <1>1, <1>2 DEF Marks

\* The first marker decides, and what is a credential behind it is replaced.
LEMMA MarkedShown ==
    ASSUME NEW type \in {"Slack", "Discord"}, NEW path \in Seq(Parts), NEW b \in Nat,
           b + 1 <= Len(path),
           \A k \in 1..Len(path) :
                /\ path[k] = Marker(type) <=> k = b + 1
                /\ path[k] = "literal" => k = b + 1 + Offset(type)
    PROVE  ~Contains(project_endpoint_path(path, type), "literal")
<1> DEFINE at == b + 1 + Offset(type)
<1>1. Offset(type) \in {2, 3} /\ Len(path) \in Nat /\ DOMAIN path = 1..Len(path)
  BY LenProperties DEF Offset
<1>2. SelectInSeq(path, LAMBDA part : part = Marker(type)) = b + 1
  <2> DEFINE I == {i \in 1..Len(path) : path[i] = Marker(type)}
  <2>1. I = {b + 1} /\ I # {}
    BY <1>1
  <2> HIDE DEF I
  <2>2. Min(I) = b + 1
    BY <2>1 DEF Min
  <2> QED BY <2>1, <2>2 DEF SelectInSeq, I
<1>3. Contains(path, Marker(type))
  BY <1>1 DEF Contains
<1>4. project_endpoint_path(path, type)
      = IF at \in DOMAIN path /\ path[at] # "empty"
        THEN [path EXCEPT ![at] = Withheld] ELSE path
  BY <1>2, <1>3 DEF project_endpoint_path
<1>5. CASE at \in DOMAIN path /\ path[at] # "empty"
  <2> DEFINE shown == [path EXCEPT ![at] = Withheld]
  <2>1. at \in 1..Len(path) /\ Withheld \in Parts
    BY <1>1, <1>5 DEF Withheld, Parts
  <2> HIDE DEF at
  <2>2. /\ Len(shown) = Len(path)
        /\ \A k \in 1..Len(path) : shown[k] = IF k = at THEN Withheld ELSE path[k]
    BY <2>1, ExceptSeq
  <2>3. \A k \in 1..Len(path) : path[k] = "literal" => k = at
    BY DEF at
  <2> HIDE DEF shown
  <2>4. \A k \in 1..Len(path) : shown[k] # "literal"
    BY <2>2, <2>3 DEF Withheld
  <2>5. project_endpoint_path(path, type) = shown
    BY <1>4, <1>5 DEF shown
  <2> QED BY <2>2, <2>4, <2>5 DEF Contains
<1>6. CASE ~(at \in DOMAIN path /\ path[at] # "empty")
  <2>1. \A k \in 1..Len(path) : path[k] # "literal"
    BY <1>1, <1>6
  <2>2. project_endpoint_path(path, type) = path
    BY <1>4, <1>6
  <2> QED BY <2>1, <2>2 DEF Contains
<1> QED BY <1>5, <1>6

\* A short path holds what it is made of.
LEMMA ShortLacks ==
    ASSUME NEW e, e # "x"
    PROVE  /\ ~Contains(<<>>, e) /\ ~Contains(<<"x">>, e)
           /\ e # "services" => ~Contains(<<"services", "x", "x", "x">>, e)
<1>1. Len(<<>>) = 0
  BY Tuples
<1>2. Len(<<"x">>) = 1 /\ <<"x">>[1] = "x"
  OBVIOUS
<1> DEFINE four == <<"services", "x", "x", "x">>
<1>3. /\ Len(four) = 4 /\ four[1] = "services"
      /\ four[2] = "x" /\ four[3] = "x" /\ four[4] = "x"
  OBVIOUS
<1> HIDE DEF four
<1>4. e # "services" => ~Contains(four, e)
  BY <1>3 DEF Contains
<1>5. ~Contains(<<>>, e)
  BY <1>1 DEF Contains
<1>6. ~Contains(<<"x">>, e)
  BY <1>2 DEF Contains
<1> QED BY <1>4, <1>5, <1>6 DEF four

\* A path that an alerter may have is shown without its credential.
LEMMA PathShown ==
    ASSUME NEW type \in Types, NEW path \in Paths(type)
    PROVE  ~Contains(project_endpoint_path(path, type), "literal")
<1> DEFINE M == Marker(type)
           n == Offset(type)
           xs == [k \in 1..n - 1 |-> "x"]
<1>1. M \in {"services", "webhooks"} /\ n \in {2, 3}
  BY DEF Marker, Offset
<1>2. CASE type \notin {"Slack", "Discord"}
  <2>1. path = <<>> \/ path = <<"x">> \/ path = <<"services", "x", "x", "x">>
    BY <1>2 DEF Paths
  <2>2. project_endpoint_path(path, type) = path
    BY <1>2 DEF project_endpoint_path
  <2>3. ~Contains(path, "literal")
    BY <2>1, ShortLacks
  <2> QED BY <2>2, <2>3
<1>3. CASE path = <<>> \/ path = <<"x">>
  <2> HIDE DEF M
  <2>1. ~Contains(path, M) /\ ~Contains(path, "literal")
    BY <1>1, <1>3, ShortLacks
  <2>2. project_endpoint_path(path, type) = path
    BY <2>1 DEF project_endpoint_path, M
  <2> QED BY <2>1, <2>2
<1>4. ASSUME type \in {"Slack", "Discord"}, NEW before \in Befores, NEW rest \in Rests,
             path = before \o <<M>> \o xs \o rest
      PROVE  ~Contains(project_endpoint_path(path, type), "literal")
  <2> HIDE DEF M, n
  <2>1. PICK b \in Nat : before \in Seq(Parts) /\ Len(before) = b
                         /\ \A k \in 1..b : before[k] = "x"
    BY BeforeIs
  <2>2. <<M>> \in Seq(Parts) /\ Len(<<M>>) = 1 /\ <<M>>[1] = M
    <3>1. M \in Parts
      BY <1>1 DEF Parts
    <3> QED BY <3>1, Tuples
  <2>3. xs \in Seq(Parts) /\ Len(xs) = n - 1 /\ \A k \in 1..n - 1 : xs[k] = "x"
    <3>1. n - 1 \in Nat
      BY <1>1
    <3>2. xs \in [1..n - 1 -> Parts]
      BY DEF Parts
    <3>3. xs \in Seq(Parts) /\ DOMAIN xs = 1..n - 1
      BY <3>1, <3>2
    <3> HIDE DEF xs
    <3>4. Len(xs) = n - 1
      BY <3>1, <3>3
    <3> QED BY <3>3, <3>4 DEF xs
  <2>4. PICK l \in Nat : rest \in Seq(Parts) /\ Len(rest) = l
                         /\ \A k \in 1..l : rest[k] # M /\ (rest[k] = "literal" => k = 1)
    BY <1>1, RestIs
  <2> DEFINE mark == <<M>>
  <2> HIDE DEF xs
  <2>5. mark \in Seq(Parts) /\ Len(mark) = 1 /\ mark[1] = M
        /\ path = ((before \o mark) \o xs) \o rest
    BY <1>4, <2>2
  <2> HIDE DEF mark
  <2>6. Marks(path, M, n, b, l)
    <3>1. b \in Nat /\ l \in Nat
      OBVIOUS
    <3> HIDE DEF M, n
    <3>2. M \in {"services", "webhooks"} /\ n \in {2, 3} /\ mark \in Seq(Parts) /\ Len(mark) = 1
          /\ mark[1] = M /\ xs \in Seq(Parts) /\ Len(xs) = n - 1
          /\ \A k \in 1..n - 1 : xs[k] = "x"
      BY <1>1, <2>3, <2>5
    <3>3. before \in Seq(Parts) /\ Len(before) = b /\ (\A k \in 1..b : before[k] = "x")
          /\ rest \in Seq(Parts) /\ Len(rest) = l
          /\ \A k \in 1..l : rest[k] # M /\ (rest[k] = "literal" => k = 1)
      BY <2>1, <2>4
    <3>4. path = ((before \o mark) \o xs) \o rest
      BY <2>5
    <3>5. n \in Nat \ {0}
      BY <3>2
    <3>6. FourParts(path, before, mark, xs, rest, b, n, l, Parts)
      BY <3>1, <3>2, <3>3, <3>4, <3>5, Zenon DEF FourParts
    <3> QED BY <3>2, <3>3, <3>6, MarkedPath
  <2>7. b \in Nat /\ b + 1 <= Len(path)
    BY <1>1, <2>6 DEF Marks
  <2> QED BY <1>4, <2>6, <2>7, MarkedShown DEF Marks, M, n
<1>5. CASE type \in {"Slack", "Discord"}
  <2> HIDE DEF M, n, xs
  <2> DEFINE Marked == {before \o <<M>> \o xs \o rest : before \in Befores, rest \in Rests}
  <2>1. Paths(type) = {<<>>, <<"x">>} \cup
            IF type \in {"Slack", "Discord"} THEN Marked ELSE {<<"services", "x", "x", "x">>}
    BY DEF Paths, M, n, xs, Befores, Rests
  <2>2. path \in {<<>>, <<"x">>}
        \/ \E before \in Befores, rest \in Rests : path = before \o <<M>> \o xs \o rest
    <3> HIDE DEF Marked
    <3>1. path \in {<<>>, <<"x">>} \/ path \in Marked
      BY <1>5, <2>1
    <3> QED BY <3>1 DEF Marked
  <2> QED BY <1>3, <1>4, <1>5, <2>2
<1> QED BY <1>2, <1>5

\* So an alerter is.
LEMMA AlerterShown ==
    ASSUME NEW r \in Alerters({"table"})
    PROVE  ~Bare(project_resource(r))
<1>1. PICK type \in Types :
        r \in [kind : {"alerter"}, shape : {"table"}, config : {TRUE}, type : {type},
               params : {TRUE}, url : Urls(type)]
  BY DEF Alerters
<1>2. /\ r.kind = "alerter" /\ r.shape = "table" /\ r.config = TRUE /\ r.type = type
      /\ r.params = TRUE /\ r.url \in Urls(type)
  BY <1>1
<1> DEFINE url == project_endpoint_url(r.url, type)
           shown == [r EXCEPT !.url = url]
<1>3. project_resource(r) = shown
  BY <1>2 DEF project_resource
<1>4. shown.kind = "alerter" /\ shown.url = url
  <2> HIDE DEF url
  <2> QED BY <1>1, <1>2
<1>5. url.password # "literal" /\ ~Contains(url.path, "literal")
      /\ \A k \in DOMAIN url.query : url.query[k].value # "literal"
  <2>1. CASE r.url \in [form : {"absolute", "relative"}, password : {"none", "empty", "literal"},
                        path : Paths(type), query : Queries(type)]
    <3>1. /\ r.url.form \in {"absolute", "relative"} /\ r.url.path \in Paths(type)
          /\ r.url.query \in Queries(type)
      BY <2>1
    <3>2. url = [form |-> r.url.form, password |-> Replaced(r.url.password),
                 path |-> project_endpoint_path(r.url.path, type),
                 query |-> project_endpoint_query(r.url.query, type)]
      BY <3>1 DEF project_endpoint_url
    <3> HIDE DEF url
    <3>3. ~Contains(project_endpoint_path(r.url.path, type), "literal")
      BY <3>1, PathShown
    <3>4. DOMAIN project_endpoint_query(r.url.query, type) = DOMAIN r.url.query
      BY DEF project_endpoint_query
    <3>5. \A k \in DOMAIN r.url.query :
            project_endpoint_query(r.url.query, type)[k].value # "literal"
      BY <3>1, QueryShown
    <3> QED BY <3>2, <3>3, <3>4, <3>5, ReplacedIs
  <2>2. CASE r.url \in [form : {"text", "opaque"}, password : {"none"}, path : {<<"x">>},
                        query : {<<>>}]
    <3>1. /\ r.url.form \in {"text", "opaque"} /\ r.url.password = "none"
          /\ r.url.path = <<"x">> /\ r.url.query = <<>>
      BY <2>2
    <3>2. url = r.url
      BY <3>1 DEF project_endpoint_url
    <3> HIDE DEF url
    <3>3. ~Contains(<<"x">>, "literal")
      BY DEF Contains
    <3>4. DOMAIN r.url.query = {}
      BY <3>1
    <3> QED BY <3>1, <3>2, <3>3, <3>4
  <2> QED BY <1>2, <2>1, <2>2 DEF Urls
<1> HIDE DEF url, shown
<1> QED BY <1>3, <1>4, <1>5 DEF Bare

\* So is any resource.
LEMMA ResourceShown ==
    ASSUME NEW r \in Resources
    PROVE  ~Bare(project_resource(r))
BY PlainShown, AlerterShown DEF Resources

\* A document that Core may have.
IsDocument(document) ==
    /\ document.valid \in BOOLEAN
    /\ document.resources \in Seq(Resources)

\* Every document that Core may have is one.
LEMMA DocumentsAre ==
    ASSUME NEW documents \in Shows
    PROVE  /\ \A k \in DOMAIN documents : IsDocument(documents[k])
           /\ Len(documents) \in Nat /\ DOMAIN documents = 1..Len(documents)
<1> DEFINE D == {d \in Single \cup Few : IsDocument(d)}
<1>1. ASSUME NEW rs \in Seq(Resources) PROVE IsDocument(Document(rs))
  BY DEF IsDocument, Document
<1>2. \A d \in Few : IsDocument(d)
  <2>1. [kind |-> "deployment", shape |-> "table", config |-> TRUE, value |-> "number"]
            \in Resources
    BY DEF Resources, Plain, Shapes, Values, Placed
  <2>2. [kind |-> "stack", shape |-> "tables", config |-> TRUE, value |-> "literal"]
            \in Resources
    BY DEF Resources, Plain, Shapes, Values, Placed
  <2>3. IsDocument(Ordinary)
    BY <1>1, <2>1, Tuples DEF Ordinary
  <2>4. IsDocument(Custom)
    BY <1>1, <2>2, Tuples DEF Custom
  <2>5. IsDocument(Invalid)
    BY Tuples DEF IsDocument, Invalid
  <2> QED BY <2>3, <2>4, <2>5 DEF Few
<1>3. \A d \in Single : IsDocument(d)
  <2>1. ASSUME NEW d \in Single PROVE IsDocument(d)
    <3> DEFINE Every == Plain \cup Builders \cup Alerters({"table"})
               Inline == [1..2 -> {r \in Plain : r.shape = "inline"}]
    <3>1. Single = {Document(<<r>>) : r \in Every} \cup {Document(rs) : rs \in Inline}
      BY DEF Single
    <3>2. Every = Resources
      BY DEF Resources
    <3>3. Inline \subseteq Seq(Resources)
      <4> SUFFICES ASSUME NEW rs \in Inline PROVE rs \in Seq(Resources)
        OBVIOUS
      <4>1. rs \in [1..2 -> Resources]
        BY DEF Resources
      <4>2. PICK m \in 0..2 : rs \in [1..m -> Resources]
        BY <4>1
      <4> QED BY <4>2
    <3> HIDE DEF Inline, Every
    <3>4. CASE d \in {Document(<<r>>) : r \in Every}
      BY <1>1, <3>2, <3>4, Tuples
    <3>5. CASE d \in {Document(rs) : rs \in Inline}
      BY <1>1, <3>3, <3>5
    <3> QED BY <2>1, <3>1, <3>4, <3>5
  <2> QED BY <2>1
<1>4. \A d \in D : IsDocument(d)
  OBVIOUS
<1>5. Single \subseteq D /\ Few \subseteq D
  BY <1>2, <1>3
<1>6. documents \in Seq(D)
  <2> HIDE DEF D
  <2>1. \A r \in Records : r \in Seq(D)
    <3> SUFFICES ASSUME NEW r \in Records PROVE r \in Seq(D)
      OBVIOUS
    <3>1. r \in Seq(Few)
      BY BoundedIn DEF Records
    <3> QED BY <1>5, <3>1, SeqMonotonic
  <2>2. CASE \E d \in Single : documents = <<d>>
    BY <1>5, <2>2, Tuples
  <2>3. CASE documents \in Records
    BY <2>1, <2>3
  <2>4. ASSUME NEW r \in Records, NEW s \in Records, documents = r \o s
        PROVE  documents \in Seq(D)
    <3>1. r \in Seq(D) /\ s \in Seq(D)
      BY <2>1
    <3> QED BY <2>4, <3>1, ConcatProperties
  <2>5. CASE documents \in UNION {{r \o s : s \in Records} : r \in Records}
    BY <2>4, <2>5
  <2>6. CASE documents \in {<<d>> : d \in Single}
    BY <2>2, <2>6
  <2> QED BY <2>3, <2>5, <2>6 DEF Shows
<1> HIDE DEF D
<1>7. Len(documents) \in Nat /\ DOMAIN documents = 1..Len(documents)
  BY <1>6, LenProperties
<1>8. \A k \in 1..Len(documents) : documents[k] \in D
  BY <1>6, ElementOfSeq
<1> QED BY <1>4, <1>7, <1>8

\* What is published of a document.
Published(shown, document, native) ==
    /\ \A j \in DOMAIN shown.toml : ~Bare(shown.toml[j])
    /\ (shown.toml = document.resources /\ document.valid) <=> (~shown.file /\ shown.why = "none")
    /\ shown.formatError <=> ~document.valid
    /\ ~(shown.file /\ shown.why # "none")
    /\ shown.file => native
    /\ shown.file \in BOOLEAN

\* What is published of a document follows from whether it is exact.
LEMMA PublishIs ==
    ASSUME NEW document, IsDocument(document), NEW native \in BOOLEAN, NEW room \in Nat
    PROVE  LET shown == Publish(Parse(document), native, room)
           IN  Published(shown, document, native) /\ (shown.file => room > 0)
<1> DEFINE prepared == Parse(document)
           shown == Publish(prepared, native, room)
           handed == Handed(prepared.original, native, room)
<1>1. /\ \A j \in DOMAIN prepared.toml : ~Bare(prepared.toml[j])
      /\ (prepared.toml = document.resources /\ document.valid) <=> ~prepared.original
      /\ prepared.formatError <=> ~document.valid
      /\ prepared.original \in BOOLEAN
  <2>1. CASE ~document.valid
    <3>1. prepared = [toml |-> <<>>, fields |-> {}, original |-> TRUE, formatError |-> TRUE]
      BY <2>1 DEF Parse
    <3>2. prepared.toml = <<>> /\ prepared.original = TRUE /\ prepared.formatError = TRUE
          /\ DOMAIN prepared.toml = {}
      BY <3>1
    <3> QED BY <2>1, <3>2
  <2>2. CASE document.valid
    <3> DEFINE rs == document.resources
               toml == [k \in DOMAIN rs |-> project_resource(rs[k])]
               fields == {k \in DOMAIN toml : toml[k] # rs[k]}
    <3>1. prepared = [toml |-> toml, fields |-> fields, original |-> fields # {},
                      formatError |-> FALSE]
      BY <2>2 DEF Parse
    <3>2. rs \in Seq(Resources)
      BY DEF IsDocument
    <3>3. DOMAIN toml = DOMAIN rs /\ \A k \in DOMAIN rs : toml[k] = project_resource(rs[k])
      OBVIOUS
    <3>4. \A k \in DOMAIN rs : rs[k] \in Resources
      BY <3>2, LenProperties, ElementOfSeq
    <3>5. \A k \in DOMAIN toml : ~Bare(toml[k])
      <4> HIDE DEF toml, rs
      <4> QED BY <3>3, <3>4, ResourceShown
    <3>6. toml = rs <=> fields = {}
      <4>1. toml = rs => fields = {}
        OBVIOUS
      <4>2. ASSUME fields = {} PROVE toml = rs
        <5>1. \A k \in DOMAIN rs : toml[k] = rs[k]
          BY <4>2
        <5>2. rs = [k \in DOMAIN rs |-> rs[k]]
          BY <3>2
        <5>3. toml = [k \in DOMAIN rs |-> toml[k]]
          OBVIOUS
        <5> HIDE DEF toml, rs
        <5> QED BY <5>1, <5>2, <5>3
      <4> QED BY <4>1, <4>2
    <3> HIDE DEF toml, fields, rs, prepared
    <3>7. prepared.toml = toml /\ (prepared.original <=> fields # {})
          /\ prepared.original \in BOOLEAN /\ prepared.formatError = FALSE
      BY <3>1
    <3> QED BY <2>2, <3>5, <3>6, <3>7 DEF rs
  <2> QED BY <2>1, <2>2
<1> HIDE DEF prepared
<1>2. /\ prepared.original => (handed.file \/ handed.why # "none")
      /\ ~prepared.original => ~handed.file /\ handed.why = "none"
      /\ handed.file => native /\ room > 0
      /\ ~(handed.file /\ handed.why # "none") /\ handed.file \in BOOLEAN
  <2>1. CASE ~prepared.original
    <3>1. handed = [file |-> FALSE, why |-> "none"]
      BY <2>1 DEF Handed
    <3> HIDE DEF handed
    <3> QED BY <2>1, <3>1
  <2>2. CASE prepared.original /\ ~native
    <3>1. handed = [file |-> FALSE, why |-> "native"]
      BY <2>2 DEF Handed
    <3> HIDE DEF handed
    <3> QED BY <2>2, <3>1
  <2>3. CASE prepared.original /\ native /\ room = 0
    <3>1. handed = [file |-> FALSE, why |-> "capacity"]
      BY <2>3 DEF Handed
    <3> HIDE DEF handed
    <3> QED BY <2>3, <3>1
  <2>4. CASE prepared.original /\ native /\ room # 0
    <3>1. handed = [file |-> TRUE, why |-> "none"]
      BY <2>4 DEF Handed
    <3> HIDE DEF handed
    <3> QED BY <2>4, <3>1
  <2> QED BY <2>1, <2>2, <2>3, <2>4
<1>3. /\ shown.toml = prepared.toml /\ shown.formatError = prepared.formatError
      /\ shown.file = handed.file /\ shown.why = handed.why
  BY DEF Publish
<1> HIDE DEF handed, shown
<1>4. /\ \A j \in DOMAIN shown.toml : ~Bare(shown.toml[j])
      /\ (shown.toml = document.resources /\ document.valid) <=> (~shown.file /\ shown.why = "none")
      /\ ~(shown.file /\ shown.why # "none")
      /\ shown.file => native /\ room > 0
      /\ shown.file \in BOOLEAN
  BY <1>1, <1>2, <1>3
<1>5. shown.formatError <=> ~document.valid
  BY <1>1, <1>3, Zenon
<1> QED BY <1>4, <1>5 DEF Published, shown, prepared

-------------------------------------------------------------------------------
(* Operations shown and found *)

\* What is shown of document k when g is what is shown of those before it.
FilesOf(g, k) == {j \in 1..k : g[j].file}
Following(documents, native, room, g, k) ==
    Publish(Parse(documents[k]), native, room - Cardinality(FilesOf(g, k - 1)))

\* g is what is shown of the first n documents.
ShownAs(g, documents, native, room, n) ==
    g = [k \in 1..n |-> Following(documents, native, room, g, k)]

\* What is shown of those before is all that counts.
LEMMA FollowingSame ==
    ASSUME NEW documents, NEW native, NEW room, NEW k \in Nat, NEW g, NEW h,
           \A j \in 1..k - 1 : g[j] = h[j]
    PROVE  Following(documents, native, room, g, k) = Following(documents, native, room, h, k)
<1>1. FilesOf(g, k - 1) = FilesOf(h, k - 1)
  BY DEF FilesOf
<1> QED BY <1>1 DEF Following

\* There is such a function for any number of documents.
LEMMA ShownExist ==
    ASSUME NEW documents, NEW native, NEW room, NEW n \in Nat
    PROVE  \E g : ShownAs(g, documents, native, room, n)
<1> DEFINE F(g, k) == Following(documents, native, room, g, k)
           P(m) == \E g : g = [k \in 1..n |-> g[k]] /\ \A k \in 1..n : k <= m => g[k] = F(g, k)
           B == {m \in 0..n : ~P(m)}
<1>1. SUFFICES ASSUME B # {} PROVE FALSE
  <2>1. n \in 0..n
    OBVIOUS
  <2>2. P(n)
    BY <1>1, <2>1
  <2>3. PICK g : g = [k \in 1..n |-> g[k]] /\ \A k \in 1..n : k <= n => g[k] = F(g, k)
    BY <2>2
  <2> HIDE DEF F
  <2>4. \A k \in 1..n : g[k] = F(g, k)
    BY <2>3
  <2>5. g = [k \in 1..n |-> F(g, k)]
    BY <2>3, <2>4, Zenon
  <2> QED BY <2>5 DEF F, ShownAs
<1>2. PICK m \in B : \A l \in B : m <= l
  <2>1. B \subseteq Nat
    OBVIOUS
  <2> HIDE DEF B
  <2> QED BY <1>1, <2>1, LeastNumber
<1>3. m \in 0..n /\ ~P(m)
  OBVIOUS
<1> HIDE DEF F
<1>4. \E g : g = [k \in 1..n |-> g[k]] /\ \A k \in 1..n : k < m => g[k] = F(g, k)
  <2>1. CASE m = 0
    <3> DEFINE g == [k \in 1..n |-> 0]
    <3>1. g = [k \in 1..n |-> g[k]] /\ \A k \in 1..n : ~(k < m)
      BY <2>1
    <3> QED BY <3>1
  <2>2. CASE m > 0
    <3>1. m - 1 \in 0..n /\ ~(m <= m - 1)
      BY <1>3, <2>2
    <3>2. P(m - 1)
      BY <1>2, <3>1
    <3>3. PICK g : g = [k \in 1..n |-> g[k]] /\ \A k \in 1..n : k <= m - 1 => g[k] = F(g, k)
      BY <3>2
    <3>4. \A k \in 1..n : k < m => k <= m - 1
      BY <1>3
    <3> QED BY <3>3, <3>4
  <2> QED BY <1>3, <2>1, <2>2
<1>5. PICK g : g = [k \in 1..n |-> g[k]] /\ \A k \in 1..n : k < m => g[k] = F(g, k)
  BY <1>4
<1> DEFINE h == [k \in 1..n |-> IF k = m THEN F(g, k) ELSE g[k]]
<1>6. h = [k \in 1..n |-> h[k]] /\ (\A k \in 1..n : k # m => h[k] = g[k])
      /\ \A k \in 1..n : k = m => h[k] = F(g, k)
  OBVIOUS
<1> HIDE DEF h, P
<1>7. ASSUME NEW k \in 1..n, k <= m PROVE h[k] = F(h, k)
  <2>1. \A j \in 1..k - 1 : g[j] = h[j]
    BY <1>3, <1>6, <1>7
  <2>2. F(g, k) = F(h, k)
    BY <2>1, FollowingSame DEF F
  <2>3. h[k] = F(g, k)
    BY <1>3, <1>5, <1>6, <1>7
  <2> QED BY <2>2, <2>3
<1>8. P(m)
  BY <1>6, <1>7 DEF P
<1> QED BY <1>3, <1>8

\* What is shown of documents: each is published, and there is room for the files.
LEMMA OperationsShown ==
    ASSUME NEW documents, NEW native \in BOOLEAN, NEW room \in Nat, NEW shown,
           shown = project_operations(documents, "detail", native, room),
           \A k \in DOMAIN documents : IsDocument(documents[k]),
           Len(documents) \in Nat, DOMAIN documents = 1..Len(documents)
    PROVE  /\ DOMAIN shown = DOMAIN documents /\ Len(shown) = Len(documents)
           /\ \A k \in DOMAIN documents : Published(shown[k], documents[k], native)
           /\ Cardinality({k \in DOMAIN shown : shown[k].file}) <= room
<1> DEFINE n == Len(documents)
           F(g, k) == Following(documents, native, room, g, k)
           R(g) == g = [k \in 1..n |-> F(g, k)]
           f == CHOOSE g : R(g)
<1>1. R(f)
  <2>1. \E g : R(g)
    <3>1. n \in Nat
      OBVIOUS
    <3> HIDE DEF n
    <3>2. \E g : ShownAs(g, documents, native, room, n)
      BY <3>1, ShownExist
    <3> QED BY <3>2 DEF ShownAs
  <2> HIDE DEF R
  <2> QED BY <2>1
<1>2. shown = f
  <2>1. shown = CHOOSE g : g = [k \in DOMAIN documents |->
                    Publish(Parse(documents[k]), native,
                            room - Cardinality({j \in 1..k - 1 : g[j].file}))]
    BY DEF project_operations
  <2> QED BY <2>1 DEF Following, FilesOf
<1> HIDE DEF f
<1>3. shown = [k \in 1..n |-> F(shown, k)]
  BY <1>1, <1>2
<1> HIDE DEF F, R
<1>4. DOMAIN shown = 1..n /\ \A k \in 1..n : shown[k] = F(shown, k)
  BY <1>3
<1>5. Len(shown) = n
  <2>1. shown \in [1..n -> {shown[k] : k \in 1..n}]
    BY <1>3
  <2>2. shown \in Seq({shown[k] : k \in 1..n})
    BY <2>1
  <2> QED BY <1>4, <2>2, LenProperties
<1>6. ASSUME NEW k \in 1..n, Cardinality(FilesOf(shown, k - 1)) \in 0..room
      PROVE  /\ Published(shown[k], documents[k], native)
             /\ Cardinality(FilesOf(shown, k)) \in 0..room
  <2> DEFINE left == room - Cardinality(FilesOf(shown, k - 1))
  <2>1. left \in Nat
    BY <1>6
  <2>2. shown[k] = Publish(Parse(documents[k]), native, left)
    BY <1>4 DEF F, Following
  <2>3. Published(shown[k], documents[k], native) /\ (shown[k].file => left > 0)
    <3> HIDE DEF left
    <3> QED BY <2>1, <2>2, PublishIs
  <2>4. FilesOf(shown, k) = IF shown[k].file THEN FilesOf(shown, k - 1) \cup {k}
                            ELSE FilesOf(shown, k - 1)
    <3>1. \A j : j \in 1..k <=> j \in 1..k - 1 \/ j = k
      OBVIOUS
    <3> QED BY <3>1 DEF FilesOf
  <2>5. IsFiniteSet(FilesOf(shown, k - 1)) /\ k \notin FilesOf(shown, k - 1)
    <3>1. FilesOf(shown, k - 1) \subseteq 1..k - 1 /\ IsFiniteSet(1..k - 1)
      <4>1. FilesOf(shown, k - 1) \subseteq 1..k - 1
        BY DEF FilesOf
      <4>2. 1 \in Int /\ k - 1 \in Int
        OBVIOUS
      <4> QED BY <4>1, <4>2, FS_Interval
    <3> QED BY <3>1, FS_Subset
  <2>6. Cardinality(FilesOf(shown, k - 1) \cup {k}) = Cardinality(FilesOf(shown, k - 1)) + 1
    BY <2>5, FS_AddElement
  <2>7. CASE shown[k].file
    <3>1. left > 0
      BY <2>3, <2>7
    <3>2. Cardinality(FilesOf(shown, k)) = Cardinality(FilesOf(shown, k - 1)) + 1
      BY <2>4, <2>6, <2>7
    <3> QED BY <1>6, <2>3, <3>1, <3>2
  <2>8. CASE ~shown[k].file
    BY <1>6, <2>3, <2>4, <2>8
  <2> QED BY <2>7, <2>8
<1> DEFINE B == {m \in 0..n : ~(Cardinality(FilesOf(shown, m)) \in 0..room)}
<1>7. B = {}
  <2>1. SUFFICES ASSUME B # {} PROVE FALSE
    OBVIOUS
  <2>2. PICK m \in B : \A l \in B : m <= l
    <3>1. B \subseteq Nat
      OBVIOUS
    <3> HIDE DEF B
    <3> QED BY <2>1, <3>1, LeastNumber
  <2>3. m # 0
    <3>1. FilesOf(shown, 0) = {}
      BY DEF FilesOf
    <3>2. Cardinality(FilesOf(shown, 0)) = 0
      BY <3>1, FS_EmptySet
    <3> QED BY <2>2, <3>2
  <2>4. m \in 1..n /\ m - 1 \in 0..n /\ ~(m <= m - 1)
    BY <2>2, <2>3
  <2>5. Cardinality(FilesOf(shown, m - 1)) \in 0..room
    BY <2>2, <2>4
  <2> QED BY <1>6, <2>2, <2>4, <2>5
<1>8. \A k \in 1..n : Published(shown[k], documents[k], native)
  <2> SUFFICES ASSUME NEW k \in 1..n PROVE Published(shown[k], documents[k], native)
    OBVIOUS
  <2>1. k - 1 \in 0..n
    OBVIOUS
  <2>2. Cardinality(FilesOf(shown, k - 1)) \in 0..room
    BY <1>7, <2>1
  <2> QED BY <1>6, <2>2
<1>9. Cardinality({k \in DOMAIN shown : shown[k].file}) <= room
  <2>1. {k \in DOMAIN shown : shown[k].file} = FilesOf(shown, n) /\ n \in 0..n
    BY <1>4 DEF FilesOf
  <2>2. Cardinality(FilesOf(shown, n)) \in 0..room
    BY <1>7, <2>1
  <2>3. Cardinality({k \in DOMAIN shown : shown[k].file}) = Cardinality(FilesOf(shown, n))
    BY <2>1
  <2> HIDE DEF n
  <2> QED BY <2>2, <2>3
<1> QED BY <1>4, <1>5, <1>8, <1>9

\* Operations are shown.
LEMMA ShowKeeps ==
    ASSUME CallInv, ShowOperations
    PROVE  CallInv'
<1>1. PICK documents \in Shows, projection \in {"summary", "detail"},
          native \in BOOLEAN, room \in 0..Room :
        /\ call' = [kind |-> "show", native |-> native, room |-> room]
        /\ received' = IF projection = "summary" THEN <<>> ELSE documents
        /\ answer' = [form |-> "documents",
                      shown |-> project_operations(documents, projection, native, room)]
  BY DEF ShowOperations
<1> DEFINE shown == project_operations(documents, projection, native, room)
<1>2. /\ answer'.form = "documents" /\ answer'.shown = shown
      /\ call'.native = native /\ call'.room = room /\ call'.kind = "show"
  BY <1>1
<1>3. room \in Nat
  BY TextsOfLetters
<1>4. /\ DOMAIN shown = DOMAIN received' /\ Len(shown) = Len(received')
      /\ \A k \in DOMAIN received' : Published(shown[k], received'[k], native)
      /\ Cardinality({k \in DOMAIN shown : shown[k].file}) <= room
  <2>1. CASE projection = "summary"
    <3>1. shown = <<>> /\ received' = <<>>
      BY <1>1, <2>1 DEF project_operations
    <3> HIDE DEF shown
    <3>2. {k \in DOMAIN shown : shown[k].file} = {} /\ DOMAIN received' = {}
      BY <3>1
    <3> QED BY <1>3, <3>1, <3>2, FS_EmptySet
  <2>2. CASE projection = "detail"
    <3>1. received' = documents
      BY <1>1, <2>2
    <3>3. /\ \A k \in DOMAIN documents : IsDocument(documents[k])
          /\ Len(documents) \in Nat /\ DOMAIN documents = 1..Len(documents)
      BY DocumentsAre
    <3>4. shown = project_operations(documents, "detail", native, room)
      BY <2>2
    <3> HIDE DEF shown
    <3> QED BY <1>3, <3>1, <3>3, <3>4, OperationsShown
  <2> QED BY <2>1, <2>2
<1> HIDE DEF shown
<1>5. Waiting'
  <2>1. answer' # NoAnswer /\ call' # NoCall
    BY <1>2 DEF NoAnswer, NoCall
  <2> QED BY <2>1 DEF Waiting
<1>6. NoLiteralInline'
  BY <1>2, <1>4 DEF NoLiteralInline, Published
<1>7. OriginalAccounted'
  BY <1>2, <1>4 DEF OriginalAccounted, Published
<1>8. OutcomeSurvives' /\ FilterExact' /\ ViewsAgree'
  BY <1>2 DEF OutcomeSurvives, FilterExact, ViewsAgree
<1> QED BY <1>5, <1>6, <1>7, <1>8 DEF CallInv

\* An outcome is asked for in Core's terms.
LEMMA OutcomeAsked ==
    ASSUME NEW o \in Outcomes \cup {Unfiltered}, NEW status \in Statuses, NEW success \in BOOLEAN
    PROVE  LET query == OfOutcome(o)
           IN  (/\ \/ query.status \in {Unfiltered, status}
                   \/ query.status = "Other" /\ status \notin {"Queued", "InProgress", "Complete"}
                /\ query.success \in {Unfiltered, IF success THEN "true" ELSE "false"})
               <=> o \in {Unfiltered, operation_outcome(status, success).outcome}
<1> DEFINE shown == operation_outcome(status, success).outcome
           query == OfOutcome(o)
<1>1. /\ status = "Queued" => shown = "Accepted"
      /\ status = "InProgress" => shown = "Running"
      /\ status = "Complete" /\ success => shown = "Succeeded"
      /\ status = "Complete" /\ ~success => shown = "Failed"
      /\ status = "Paused" => shown = "Unknown"
  BY DEF operation_outcome
<1>2. status \in {"Queued", "InProgress", "Complete", "Paused"}
  BY DEF Statuses
<1> HIDE DEF shown
<1>3. CASE o = "Accepted"
  <2>1. query.status = "Queued" /\ query.success = Unfiltered
    BY <1>3 DEF OfOutcome, Unfiltered
  <2> HIDE DEF query
  <2> QED BY <1>1, <1>2, <1>3, <2>1 DEF Unfiltered, shown, query
<1>4. CASE o = "Running"
  <2>1. query.status = "InProgress" /\ query.success = Unfiltered
    BY <1>4 DEF OfOutcome, Unfiltered
  <2> HIDE DEF query
  <2> QED BY <1>1, <1>2, <1>4, <2>1 DEF Unfiltered, shown, query
<1>5. CASE o = "Succeeded"
  <2>1. query.status = "Complete" /\ query.success = "true"
    BY <1>5 DEF OfOutcome, Unfiltered
  <2> HIDE DEF query
  <2> QED BY <1>1, <1>2, <1>5, <2>1 DEF Unfiltered, shown, query
<1>6. CASE o = "Failed"
  <2>1. query.status = "Complete" /\ query.success = "false"
    BY <1>6 DEF OfOutcome, Unfiltered
  <2> HIDE DEF query
  <2> QED BY <1>1, <1>2, <1>6, <2>1 DEF Unfiltered, shown, query
<1>7. CASE o = "Unknown"
  <2>1. query.status = "Other" /\ query.success = Unfiltered
    BY <1>7 DEF OfOutcome, Unfiltered
  <2> HIDE DEF query
  <2> QED BY <1>1, <1>2, <1>7, <2>1 DEF Unfiltered, shown, query
<1>8. CASE o = Unfiltered
  <2>1. query.status = Unfiltered /\ query.success = Unfiltered
    BY <1>8 DEF OfOutcome, Unfiltered
  <2> HIDE DEF query
  <2> QED BY <1>8, <2>1 DEF query
<1> QED BY <1>3, <1>4, <1>5, <1>6, <1>7, <1>8 DEF Outcomes

\* Operations are filtered.
LEMMA FilterKeeps ==
    ASSUME CallInv, FilterOperations
    PROVE  CallInv'
<1>1. PICK f \in [outcome : Outcomes \cup {Unfiltered}, target : {"s1", Unfiltered},
                  after : {NoTime} \cup -1..Latest, before : {NoTime} \cup -1..Latest] :
        /\ call' = [kind |-> "filter", filter |-> f]
        /\ answer' = IF ValidFilter(f)
                     THEN [form |-> "found",
                           found |-> {item \in Stored : MatchesQuery(f, item)}]
                     ELSE [form |-> "refused"]
  BY DEF FilterOperations
<1>2. f.outcome \in Outcomes \cup {Unfiltered} /\ f.after \in Int /\ f.before \in Int
  BY <1>1 DEF NoTime
<1>3. answer'.form \in {"found", "refused"} /\ call'.kind = "filter" /\ call'.filter = f
      /\ (answer'.form = "found" <=> ValidFilter(f))
      /\ (answer'.form = "found" =>
            answer'.found = {item \in Stored : MatchesQuery(f, item)})
  <2>1. CASE ValidFilter(f)
    <3>1. answer' = [form |-> "found", found |-> {item \in Stored : MatchesQuery(f, item)}]
      BY <1>1, <2>1
    <3> QED BY <1>1, <3>1
  <2>2. CASE ~ValidFilter(f)
    <3>1. answer' = [form |-> "refused"]
      BY <1>1, <2>2
    <3> QED BY <1>1, <3>1
  <2> QED BY <2>1, <2>2
<1>4. Waiting'
  <2>1. answer' # NoAnswer /\ call' # NoCall
    BY <1>3 DEF NoAnswer, NoCall
  <2> QED BY <2>1 DEF Waiting
<1>5. ASSUME NEW item \in Stored
      PROVE  MatchesQuery(f, item) <=>
                /\ f.outcome \in {Unfiltered,
                                  operation_outcome(item.status, item.success).outcome}
                /\ f.target \in {Unfiltered, item.target}
                /\ item.start \in Interval(f)
  <2>1. /\ item.status \in Statuses /\ item.success \in BOOLEAN
        /\ item.start \in Int /\ item.start \in 0..Latest
    BY DEF Stored
  <2> DEFINE query == OfOutcome(f.outcome)
             Asked == /\ \/ query.status \in {Unfiltered, item.status}
                         \/ query.status = "Other"
                            /\ item.status \notin {"Queued", "InProgress", "Complete"}
                      /\ query.success \in {Unfiltered, IF item.success THEN "true" ELSE "false"}
  <2>2. Asked <=> f.outcome \in {Unfiltered,
                                 operation_outcome(item.status, item.success).outcome}
    BY <1>2, <2>1, OutcomeAsked
  <2>3. MatchesQuery(f, item) <=>
            /\ f.target \in {Unfiltered, item.target}
            /\ Asked
            /\ f.after # NoTime => item.start >= f.after
            /\ f.before # NoTime => item.start < f.before
    BY DEF MatchesQuery
  <2> HIDE DEF Asked, query
  <2>4. item.start >= f.after <=> f.after <= item.start
    BY <1>2, <2>1
  <2>5. item.start \in Interval(f) <=>
            /\ f.after = NoTime \/ f.after <= item.start
            /\ f.before = NoTime \/ item.start < f.before
    BY <2>1 DEF Interval
  <2> QED BY <2>2, <2>3, <2>4, <2>5
<1>6. FilterExact'
  <2> DEFINE negative == \E t \in {f.after, f.before} \ {NoTime} : t < 0
             ordered == NoTime \notin {f.after, f.before} => f.after < f.before
             empty == NoTime \notin {f.after, f.before} /\ Interval(f) = {}
  <2>1. ValidFilter(f) <=> ~negative /\ ordered
    BY <1>2 DEF ValidFilter
  <2>2. ASSUME ~negative PROVE ordered <=> ~empty
    <3>1. CASE NoTime \in {f.after, f.before}
      BY <3>1
    <3>2. CASE NoTime \notin {f.after, f.before}
      <4>1. f.after \in 0..Latest /\ f.before \in 0..Latest
        BY <1>1, <1>2, <2>2, <3>2
      <4>2. f.after < f.before => f.after \in Interval(f)
        BY <1>2, <3>2, <4>1 DEF Interval
      <4>3. ASSUME NEW t \in Interval(f) PROVE f.after < f.before
        <5>1. t \in Int /\ f.after <= t /\ t < f.before
          BY <3>2, <4>3 DEF Interval
        <5> QED BY <1>2, <5>1
      <4> QED BY <3>2, <4>2, <4>3
    <3> QED BY <3>1, <3>2
  <2>3. ValidFilter(f) <=> ~(negative \/ empty)
    BY <2>1, <2>2
  <2>4. ASSUME answer'.form = "found"
        PROVE  answer'.found =
                    {item \in Stored :
                        /\ f.outcome \in {Unfiltered,
                                operation_outcome(item.status, item.success).outcome}
                        /\ f.target \in {Unfiltered, item.target}
                        /\ item.start \in Interval(f)}
    BY <1>3, <1>5, <2>4
  <2> HIDE DEF ordered
  <2> QED BY <1>3, <2>3, <2>4 DEF FilterExact, Interval
<1>7. NoLiteralInline' /\ OriginalAccounted' /\ OutcomeSurvives' /\ ViewsAgree'
  BY <1>3 DEF NoLiteralInline, OriginalAccounted, OutcomeSurvives, ViewsAgree
<1> QED BY <1>4, <1>6, <1>7 DEF CallInv

\* Another resource is looked at.
LEMMA ResourceKeeps ==
    ASSUME CallInv, LookAtResource
    PROVE  CallInv'
<1>1. PICK kind \in DOMAIN StatesOf : \E state \in StatesOf[kind] :
       \E projection \in {"summary", "detail"} :
        /\ call' = [kind |-> "resource", projection |-> projection]
        /\ answer' = [form |-> "resource",
                      views |-> IF kind = "server" THEN ServerViews(state, projection)
                                ELSE ResourceViews(kind, state, projection)]
  BY DEF LookAtResource
<1>2. PICK state \in StatesOf[kind], projection \in {"summary", "detail"} :
        /\ call' = [kind |-> "resource", projection |-> projection]
        /\ answer' = [form |-> "resource",
                      views |-> IF kind = "server" THEN ServerViews(state, projection)
                                ELSE ResourceViews(kind, state, projection)]
  BY <1>1
<1>3. state # "none"
  <2>1. kind \in {"server", "deployment", "build", "repo"}
    BY DEF StatesOf
  <2> QED BY <2>1 DEF StatesOf
<1>4. /\ answer'.form = "resource" /\ call'.kind = "resource" /\ call'.projection = projection
      /\ answer'.views.search = answer'.views.status
      /\ answer'.views.status.resource = IF projection = "detail" THEN state ELSE "none"
  <2>1. \E h : answer'.views = [search |-> Brief([health |-> h, resource |-> state], projection),
                                status |-> Brief([health |-> h, resource |-> state], projection)]
    BY <1>2 DEF ServerViews, ResourceViews
  <2>2. PICK h :
          answer'.views = [search |-> Brief([health |-> h, resource |-> state], projection),
                           status |-> Brief([health |-> h, resource |-> state], projection)]
    BY <2>1
  <2>3. Brief([health |-> h, resource |-> state], projection).resource
        = IF projection = "detail" THEN state ELSE "none"
    BY DEF Brief
  <2> QED BY <1>2, <2>2, <2>3
<1>5. Waiting'
  <2>1. answer' # NoAnswer /\ call' # NoCall
    BY <1>4 DEF NoAnswer, NoCall
  <2> QED BY <2>1 DEF Waiting
<1>6. ViewsAgree'
  BY <1>3, <1>4 DEF ViewsAgree
<1>7. NoLiteralInline' /\ OriginalAccounted' /\ OutcomeSurvives' /\ FilterExact'
  BY <1>4 DEF NoLiteralInline, OriginalAccounted, OutcomeSurvives, FilterExact
<1> QED BY <1>5, <1>6, <1>7 DEF CallInv

-------------------------------------------------------------------------------
(* Stacks and their configuration *)

\* A window of a list.
LEMMA PageOfIs ==
    ASSUME NEW S, NEW items \in Seq(S), NEW window,
           window.offset \in Nat, window.limit \in Nat \ {0}
    PROVE  /\ PageOf(items, window) \in Seq(S)
           /\ Len(PageOf(items, window)) \in 0..window.limit
           /\ Len(PageOf(items, window)) <= Len(items)
           /\ \A k \in 1..Len(PageOf(items, window)) :
                /\ k + window.offset \in 1..Len(items)
                /\ PageOf(items, window)[k] = items[k + window.offset]
           /\ window.offset = 0 /\ Len(items) > 0 => Len(PageOf(items, window)) > 0
<1> DEFINE a == window.offset + 1
           z == IF window.offset + window.limit <= Len(items)
                THEN window.offset + window.limit ELSE Len(items)
           p == SubSeq(items, a, z)
<1>1. Len(items) \in Nat /\ a \in Nat /\ z \in Nat /\ z <= Len(items) /\ a >= 1
  BY LenProperties
<1>2. Min({window.offset + window.limit, Len(items)}) = z
  BY <1>1, LesserOf
<1>3. PageOf(items, window) = p
  BY <1>2 DEF PageOf
<1>4. \A k \in a..z : items[k] \in S
  <2>1. \A k \in a..z : k \in 1..Len(items)
    BY <1>1
  <2> QED BY <2>1, ElementOfSeq
<1>5. /\ p \in Seq(S) /\ Len(p) = IF a <= z THEN z - a + 1 ELSE 0
      /\ \A k \in 1..z - a + 1 : p[k] = items[a + k - 1]
  <2> HIDE DEF a, z
  <2> QED BY <1>1, <1>4, SubSeqProperties
<1> HIDE DEF p
<1>6. Len(p) \in 0..window.limit /\ Len(p) <= Len(items)
  <2>1. window.offset \in Nat /\ window.limit \in Nat
    OBVIOUS
  <2>2. z - a + 1 <= window.limit /\ z - a + 1 <= Len(items)
    BY <1>1, <2>1
  <2> HIDE DEF a, z
  <2> QED BY <1>1, <1>5, <2>1, <2>2
<1>7. ASSUME NEW k \in 1..Len(p)
      PROVE  k + window.offset \in 1..Len(items) /\ p[k] = items[k + window.offset]
  <2>1. k \in 1..z - a + 1 /\ a + k - 1 = k + window.offset
    BY <1>1, <1>5
  <2>2. p[k] = items[a + k - 1]
    BY <1>5, <2>1
  <2>3. a + k - 1 \in 1..Len(items)
    <3> HIDE DEF a, z
    <3> QED BY <1>1, <2>1
  <2> HIDE DEF a, z
  <2> QED BY <2>1, <2>2, <2>3
<1>8. window.offset = 0 /\ Len(items) > 0 => Len(p) > 0
  BY <1>1, <1>5
<1> QED BY <1>3, <1>5, <1>6, <1>7, <1>8

\* No more services of a window have an update than of the stack.
LEMMA FewerUpdates ==
    ASSUME NEW services \in Seq(BOOLEAN), NEW window,
           window.offset \in Nat, window.limit \in Nat \ {0}
    PROVE  Cardinality({k \in DOMAIN PageOf(services, window) : PageOf(services, window)[k]})
           <= Updates(services)
<1> DEFINE p == PageOf(services, window)
           A == {k \in DOMAIN p : p[k]}
           B == {k \in DOMAIN services : services[k]}
           f == [k \in A |-> k + window.offset]
<1>1. /\ p \in Seq(BOOLEAN) /\ Len(p) \in Nat
      /\ \A k \in 1..Len(p) : /\ k + window.offset \in 1..Len(services)
                              /\ p[k] = services[k + window.offset]
  <2>1. Len(p) \in 0..window.limit /\ p \in Seq(BOOLEAN)
    BY PageOfIs
  <2>2. \A k \in 1..Len(p) : /\ k + window.offset \in 1..Len(services)
                             /\ p[k] = services[k + window.offset]
    BY PageOfIs
  <2> HIDE DEF p
  <2> QED BY <2>1, <2>2, LenProperties
<1>2. DOMAIN p = 1..Len(p) /\ DOMAIN services = 1..Len(services) /\ Len(services) \in Nat
  <2> HIDE DEF p
  <2> QED BY <1>1, LenProperties
<1> HIDE DEF p
<1>3. IsFiniteSet(B)
  <2>1. B \subseteq 1..Len(services) /\ 1 \in Int /\ Len(services) \in Int
    BY <1>2
  <2> QED BY <2>1, FS_Interval, FS_Subset
<1>4. f \in Injection(A, B)
  <2>1. \A k \in A : k \in Int /\ k + window.offset \in B
    BY <1>1, <1>2
  <2>2. f \in [A -> B]
    BY <2>1
  <2>3. \A k, l \in A : f[k] = f[l] => k = l
    BY <2>1
  <2> HIDE DEF f, A, B
  <2> QED BY <2>2, <2>3 DEF Injection, IsInjective
<1>5. Cardinality(A) <= Cardinality(B)
  <2> HIDE DEF f, A, B
  <2> QED BY <1>3, <1>4, FS_Injection
<1> QED BY <1>5 DEF p, Updates

\* A stack is looked at.
LEMMA StackKeeps ==
    ASSUME CallInv, LookAtStack
    PROVE  CallInv'
<1>1. PICK stack \in Stacks, window \in Windows,
           projection \in {"summary", "detail"} :
        /\ call' = [kind |-> "look", window |-> window]
        /\ received' = <<stack>>
        /\ answer' = [form |-> "stack", status |-> StackStatus(stack, projection),
                      diagnostics |-> StackDiagnostics(stack, window)]
  BY DEF LookAtStack
<1>2. /\ window.offset \in Nat /\ window.limit \in Nat \ {0}
      /\ stack.services \in BoundedSeq(BOOLEAN, Longest)
      /\ stack.missing \in BOOLEAN
  BY DEF Stacks, Windows
<1>3. stack.services \in Seq(BOOLEAN)
  BY <1>2, BoundedIn
<1> DEFINE s == StackStatus(stack, projection)
           d == StackDiagnostics(stack, window)
<1>4. /\ answer'.form = "stack" /\ call'.kind = "look" /\ call'.window = window
      /\ answer'.status = s /\ answer'.diagnostics = d /\ received'[1] = stack
  BY <1>1
<1>5. /\ s.health = stack_health(stack.state, stack.missing) /\ d.health = s.health
      /\ d.services = s.services /\ d.updates = s.updates
      /\ s.updates = Updates(stack.services) /\ d.page = PageOf(stack.services, window)
  BY DEF StackStatus, StackDiagnostics
<1> HIDE DEF s, d
<1>6. Len(d.page) <= window.limit
  <2>1. Len(PageOf(stack.services, window)) \in 0..window.limit
    BY <1>2, <1>3, PageOfIs
  <2> QED BY <1>2, <1>5, <2>1
<1>7. Cardinality({k \in DOMAIN d.page : d.page[k]}) <= s.updates
  BY <1>2, <1>3, <1>5, FewerUpdates
<1>8. s.health = "healthy" => ~stack.missing
  <2>1. stack_health(stack.state, stack.missing) = "healthy" => ~stack.missing
    BY DEF stack_health
  <2> QED BY <1>5, <2>1
<1>9. Waiting'
  <2>1. answer' # NoAnswer /\ call' # NoCall
    BY <1>4 DEF NoAnswer, NoCall
  <2> QED BY <2>1 DEF Waiting
<1>10. ViewsAgree'
  BY <1>4, <1>5, <1>6, <1>7, <1>8 DEF ViewsAgree
<1>11. NoLiteralInline' /\ OriginalAccounted' /\ OutcomeSurvives' /\ FilterExact'
  BY <1>4 DEF NoLiteralInline, OriginalAccounted, OutcomeSurvives, FilterExact
<1> QED BY <1>9, <1>10, <1>11 DEF CallInv

\* What a page says of its list.
LEMMA CollectionIs ==
    ASSUME NEW S, NEW items, items.known \in BOOLEAN, items.list \in Seq(S), NEW window,
           window.offset \in Nat, window.limit \in Nat \ {0}
    PROVE  LET page_ == CollectionPage(items, window)
           IN  /\ page_.available = items.known
               /\ page_.list = PageOf(items.list, window)
               /\ page_.total = IF items.known THEN Len(items.list) ELSE Unknown
               /\ page_.total = 0 => items.known /\ ~page_.truncated
               /\ page_.next # Unknown => page_.next > window.offset
<1> DEFINE shown == PageOf(items.list, window)
           end == Min({window.offset + window.limit, Len(items.list)})
           q == CollectionPage(items, window)
<1>1. Len(items.list) \in Nat /\ Len(shown) \in 0..window.limit
  BY LenProperties, PageOfIs
<1>2. end = IF window.offset + window.limit <= Len(items.list)
            THEN window.offset + window.limit ELSE Len(items.list)
  BY <1>1, LesserOf
<1> HIDE DEF shown, end
<1>3. q = [available |-> items.known, list |-> shown,
           total |-> IF items.known THEN Len(items.list) ELSE Unknown,
           truncated |-> Len(shown) < Len(items.list),
           next |-> IF end < Len(items.list) THEN end ELSE Unknown]
  BY DEF CollectionPage, shown, end
<1> HIDE DEF q
<1>4. /\ q.available = items.known /\ q.list = shown
      /\ q.total = (IF items.known THEN Len(items.list) ELSE Unknown)
      /\ q.next = (IF end < Len(items.list) THEN end ELSE Unknown)
      /\ q.truncated <=> Len(shown) < Len(items.list)
  BY <1>3
<1>5. q.total = 0 => items.known /\ ~q.truncated
  BY <1>1, <1>4 DEF Unknown
<1>6. q.next # Unknown => q.next > window.offset
  BY <1>1, <1>2, <1>4
<1> QED BY <1>4, <1>5, <1>6 DEF q, shown

\* The names of files.
Files == {"f1", "f2", "compose.yaml"}

\* What Core has of a stack.
LEMMA DetailIs ==
    ASSUME NEW detail \in Details, NEW source \in {"configured", "deployed", "latest"}, NEW list,
           list = CASE source = "configured" -> Configured(detail)
                    [] source = "deployed" -> detail.deployed
                    [] source = "latest" -> detail.latest
    PROVE  /\ list.known \in BOOLEAN /\ list.list \in Seq(Files)
           /\ detail.paths \in Seq(Files)
           /\ source = "configured" =>
                /\ list.known
                /\ Len(list.list) = IF detail.contents = "empty" THEN 0 ELSE 1
                /\ Len(detail.paths) > 0 =>
                    \A k \in 1..Len(list.list) : list.list[k] = detail.paths[1]
           /\ source = "deployed" => list.known = detail.deployed.known
           /\ source = "latest" => list.known = detail.latest.known
<1>1. detail.paths \in BoundedSeq({"f1", "f2"}, Longest) /\ detail.deployed \in FilesKnown
      /\ detail.latest \in FilesKnown
  BY DEF Details
<1>2. \A s \in BoundedSeq({"f1", "f2"}, Longest) : s \in Seq(Files)
  <2> SUFFICES ASSUME NEW s \in BoundedSeq({"f1", "f2"}, Longest) PROVE s \in Seq(Files)
    OBVIOUS
  <2>1. s \in Seq({"f1", "f2"}) /\ {"f1", "f2"} \subseteq Files
    BY BoundedIn DEF Files
  <2> QED BY <2>1, SeqMonotonic
<1>3. ASSUME NEW known \in FilesKnown PROVE known.known \in BOOLEAN /\ known.list \in Seq(Files)
  <2>1. CASE known = [known |-> FALSE, list |-> <<>>]
    BY <2>1, Tuples
  <2>2. ASSUME NEW l \in BoundedSeq({"f1", "f2"}, Longest), known = [known |-> TRUE, list |-> l]
        PROVE  known.known \in BOOLEAN /\ known.list \in Seq(Files)
    BY <1>2, <2>2
  <2> QED BY <1>3, <2>1, <2>2 DEF FilesKnown
<1>4. detail.paths \in Seq(Files)
  BY <1>1, <1>2
<1>5. CASE source = "configured"
  <2>1. list = Configured(detail)
    BY <1>5
  <2> DEFINE l == IF detail.contents = "empty" THEN <<>>
                  ELSE IF detail.paths = <<>> THEN <<"compose.yaml">> ELSE <<detail.paths[1]>>
  <2>2. list.known = TRUE /\ list.list = l
    BY <2>1 DEF Configured
  <2>3. CASE detail.contents = "empty"
    <3>1. l = <<>>
      BY <2>3
    <3> HIDE DEF l
    <3>2. list.list = <<>>
      BY <2>2, <3>1
    <3>3. list.list \in Seq(Files) /\ Len(list.list) = 0
      BY <3>2, EmptySeq
    <3>4. \A k \in 1..Len(list.list) : list.list[k] = detail.paths[1]
      BY <3>3
    <3> QED BY <1>4, <1>5, <2>2, <2>3, <3>3, <3>4
  <2>4. ASSUME detail.contents # "empty", NEW x \in Files, l = <<x>>,
               Len(detail.paths) > 0 => x = detail.paths[1]
        PROVE  /\ list.known \in BOOLEAN /\ list.list \in Seq(Files)
               /\ Len(list.list) = 1
               /\ Len(detail.paths) > 0 =>
                    \A k \in 1..Len(list.list) : list.list[k] = detail.paths[1]
    <3> HIDE DEF l
    <3>0. list.list = <<x>>
      BY <2>2, <2>4
    <3>1. list.list \in Seq(Files) /\ Len(list.list) = 1 /\ list.list[1] = x
      <4>1. <<x>> \in Seq(Files) /\ Len(<<x>>) = 1 /\ <<x>>[1] = x
        BY <2>4, Tuples
      <4> QED BY <3>0, <4>1
    <3>2. \A k \in 1..1 : list.list[k] = x
      BY <3>1
    <3> QED BY <2>2, <2>4, <3>1, <3>2
  <2>5. CASE detail.contents # "empty" /\ detail.paths = <<>>
    <3>1. l = <<"compose.yaml">> /\ "compose.yaml" \in Files /\ ~(Len(detail.paths) > 0)
      BY <2>5, Tuples DEF Files
    <3> HIDE DEF l
    <3> QED BY <1>4, <1>5, <2>2, <2>4, <2>5, <3>1
  <2>6. CASE detail.contents # "empty" /\ detail.paths # <<>>
    <3>1. l = <<detail.paths[1]>>
      BY <2>6
    <3>2. detail.paths[1] \in Files
      <4>1. 1 \in 1..Len(detail.paths)
        BY <1>4, <2>6, EmptySeq
      <4> QED BY <1>4, <4>1, ElementOfSeq
    <3> HIDE DEF l
    <3> QED BY <1>4, <1>5, <2>2, <2>4, <2>6, <3>1, <3>2
  <2> QED BY <2>3, <2>5, <2>6
<1>6. CASE source = "deployed"
  <2>1. list = detail.deployed
    BY <1>6
  <2> QED BY <1>1, <1>3, <1>4, <1>6, <2>1
<1>7. CASE source = "latest"
  <2>1. list = detail.latest
    BY <1>7
  <2> QED BY <1>1, <1>3, <1>4, <1>7, <2>1
<1> QED BY <1>5, <1>6, <1>7

\* The configuration of a stack is looked at.
LEMMA ConfigurationKeeps ==
    ASSUME CallInv, LookAtConfiguration
    PROVE  CallInv'
<1>1. PICK detail \in Details, window \in Windows,
          source \in {"configured", "deployed", "latest"}, native \in BOOLEAN :
        /\ call' = [kind |-> "configuration", window |-> window, source |-> source,
                    native |-> native]
        /\ received' = <<detail>>
        /\ answer' = [form |-> "configuration", config |-> ConfigView(detail, window),
                      compose |-> ComposeView(source, detail, window),
                      webhook |-> WebhookStatus(detail),
                      secret |-> WebhookSecret(detail, native)]
  BY DEF LookAtConfiguration
<1>2. window.offset \in Nat /\ window.limit \in Nat \ {0}
  BY DEF Windows
<1> DEFINE list == CASE source = "configured" -> Configured(detail)
                     [] source = "deployed" -> detail.deployed
                     [] source = "latest" -> detail.latest
           files == ComposeView(source, detail, window)
           config == ConfigView(detail, window)
           hook == WebhookStatus(detail)
           secret == WebhookSecret(detail, native)
<1>3. /\ answer'.form = "configuration" /\ answer'.config = config /\ answer'.compose = files
      /\ answer'.webhook = hook /\ answer'.secret = secret
      /\ received'[1] = detail /\ call'.kind = "configuration" /\ call'.window = window
      /\ call'.source = source /\ call'.native = native
  BY <1>1
<1>4. /\ list.known \in BOOLEAN /\ list.list \in Seq(Files)
      /\ detail.paths \in Seq(Files)
      /\ source = "configured" =>
            /\ list.known
            /\ Len(list.list) = IF detail.contents = "empty" THEN 0 ELSE 1
            /\ Len(detail.paths) > 0 =>
                \A k \in 1..Len(list.list) : list.list[k] = detail.paths[1]
      /\ source = "deployed" => list.known = detail.deployed.known
      /\ source = "latest" => list.known = detail.latest.known
  BY DetailIs
<1>5. files = CollectionPage(list, window)
  BY DEF ComposeView
<1> HIDE DEF list
<1>6. /\ files.available = list.known /\ files.list = PageOf(list.list, window)
      /\ files.total = (IF list.known THEN Len(list.list) ELSE Unknown)
      /\ files.total = 0 => list.known /\ ~files.truncated
      /\ files.next # Unknown => files.next > window.offset
  <2> HIDE DEF files
  <2> QED BY <1>2, <1>4, <1>5, CollectionIs
<1>7. /\ (config.compose <=> detail.contents # "empty")
      /\ config.secret = webhook_secret_source(detail.secret)
      /\ config.paths.list = PageOf(detail.paths, window)
      /\ hook.secret = webhook_secret_source(detail.secret)
  BY DEF ConfigView, WebhookStatus, CollectionPage
<1>8. /\ secret.source \in {webhook_secret_source(detail.secret), "refused"}
      /\ secret.available => secret.file /\ native
  <2>1. CASE detail.secret = "empty"
    <3>1. secret = [source |-> "inherited", available |-> FALSE, file |-> FALSE]
      BY <2>1 DEF WebhookSecret
    <3> HIDE DEF secret
    <3> QED BY <2>1, <3>1 DEF webhook_secret_source
  <2>2. CASE detail.secret # "empty" /\ native
    <3>1. secret = [source |-> "custom", available |-> TRUE, file |-> TRUE]
      BY <2>2 DEF WebhookSecret
    <3> HIDE DEF secret
    <3> QED BY <2>2, <3>1 DEF webhook_secret_source
  <2>3. CASE detail.secret # "empty" /\ ~native
    <3>1. secret = [source |-> "refused", available |-> FALSE, file |-> FALSE]
      BY <2>3 DEF WebhookSecret
    <3> HIDE DEF secret
    <3> QED BY <2>3, <3>1
  <2> QED BY <2>1, <2>2, <2>3
<1> HIDE DEF files, config, hook, secret
<1>9. source = "configured" =>
        /\ files.total = IF config.compose THEN 1 ELSE 0
        /\ window.offset = 0 /\ config.paths.list # <<>> =>
            ToSet(files.list) \subseteq {config.paths.list[1]}
  <2> SUFFICES ASSUME source = "configured"
               PROVE  /\ files.total = IF config.compose THEN 1 ELSE 0
                      /\ window.offset = 0 /\ config.paths.list # <<>> =>
                            ToSet(files.list) \subseteq {config.paths.list[1]}
    OBVIOUS
  <2>1. files.total = IF config.compose THEN 1 ELSE 0
    BY <1>4, <1>6, <1>7
  <2>2. ASSUME window.offset = 0, config.paths.list # <<>>
        PROVE  ToSet(files.list) \subseteq {config.paths.list[1]}
    <3>1. /\ PageOf(detail.paths, window) \in Seq(Files)
          /\ Len(PageOf(detail.paths, window)) <= Len(detail.paths)
          /\ \A k \in 1..Len(PageOf(detail.paths, window)) :
                PageOf(detail.paths, window)[k] = detail.paths[k + window.offset]
      BY <1>2, <1>4, PageOfIs
    <3>2. /\ files.list \in Seq(Files)
          /\ \A k \in 1..Len(files.list) :
                /\ k + window.offset \in 1..Len(list.list)
                /\ files.list[k] = list.list[k + window.offset]
      BY <1>2, <1>4, <1>6, PageOfIs
    <3>3. Len(PageOf(detail.paths, window)) \in Nat \ {0}
      BY <1>7, <2>2, <3>1, EmptySeq
    <3>4. Len(detail.paths) > 0 /\ config.paths.list[1] = detail.paths[1]
      <4>1. 1 \in 1..Len(PageOf(detail.paths, window)) /\ 1 + window.offset = 1
        <5> DEFINE n == Len(PageOf(detail.paths, window))
        <5>1. n \in Nat \ {0}
          BY <3>3
        <5> HIDE DEF n
        <5>2. 1 \in 1..n
          BY <5>1
        <5> QED BY <2>2, <5>2 DEF n
      <4>2. Len(detail.paths) \in Nat
        BY <1>4, LenProperties
      <4>3. PageOf(detail.paths, window)[1] = detail.paths[1]
        BY <3>1, <4>1
      <4> QED BY <1>7, <3>1, <3>3, <4>2, <4>3
    <3>5. DOMAIN files.list = 1..Len(files.list)
      BY <3>2, LenProperties
    <3>6. \A k \in DOMAIN files.list : files.list[k] = config.paths.list[1]
      BY <1>4, <3>2, <3>4, <3>5
    <3> QED BY <3>6 DEF ToSet
  <2> QED BY <2>1, <2>2
<1>10. Waiting'
  <2>1. answer' # NoAnswer /\ call' # NoCall
    BY <1>3 DEF NoAnswer, NoCall
  <2> QED BY <2>1 DEF Waiting
<1>11. /\ source = "latest" => (files.available <=> detail.latest.known)
       /\ source = "deployed" => (files.available <=> detail.deployed.known)
  BY <1>4, <1>6
<1>12. ViewsAgree'
  BY <1>3, <1>6, <1>7, <1>8, <1>9, <1>11 DEF ViewsAgree
<1>13. NoLiteralInline' /\ OriginalAccounted' /\ OutcomeSurvives' /\ FilterExact'
  BY <1>3 DEF NoLiteralInline, OriginalAccounted, OutcomeSurvives, FilterExact
<1> QED BY <1>10, <1>12, <1>13 DEF CallInv

-------------------------------------------------------------------------------
(* Every call *)

\* Nothing happens to the call.
LEMMA CallStill ==
    ASSUME CallInv, UNCHANGED single
    PROVE  CallInv'
<1>1. call' = call /\ received' = received /\ answer' = answer
  BY DEF single
<1>2. Waiting => Waiting'
  BY <1>1 DEF Waiting
<1>3. NoLiteralInline => NoLiteralInline'
  BY <1>1 DEF NoLiteralInline
<1>4. OriginalAccounted => OriginalAccounted'
  BY <1>1 DEF OriginalAccounted
<1>5. OutcomeSurvives => OutcomeSurvives'
  BY <1>1 DEF OutcomeSurvives
<1>6. FilterExact => FilterExact'
  BY <1>1 DEF FilterExact
<1>7. ViewsAgree => ViewsAgree'
  BY <1>1 DEF ViewsAgree
<1> QED BY <1>2, <1>3, <1>4, <1>5, <1>6, <1>7 DEF CallInv

\* Whatever happens, a call keeps its invariant.
LEMMA CallStep ==
    ASSUME CallInv, Calls \/ UNCHANGED single
    PROVE  CallInv'
BY AskKeeps, FailKeeps, ShowKeeps, FilterKeeps, StackKeeps, ConfigurationKeeps,
   ResourceKeeps, CallStill DEF Calls

-------------------------------------------------------------------------------
(* Every session *)

\* The three together.
ToolInv == WalkInv /\ VersionInv /\ CallInv

\* Where nobody asks for the version, nothing is out of date.
LEMMA NobodyInv ==
    ASSUME NobodyAsks
    PROVE  VersionInv
<1>1. VersionTypeOK
  BY DEF NobodyAsks, VersionTypeOK, AskerRecords, Idle, Places, Forms
<1>2. PresentUnderstood /\ CachedInTime
  BY DEF NobodyAsks, PresentUnderstood, CachedInTime, Forms
<1>3. \A a \in Askers : asker[a].st = "idle"
  BY DEF NobodyAsks, Idle
<1> QED BY <1>1, <1>2, <1>3 DEF VersionInv, InTime

\* A session begins with the invariant.
LEMMA ToolInitially ==
    ASSUME ToolInit
    PROVE  ToolInv
<1>1. CallInv
  BY CallInitially DEF ToolInit
<1>2. CASE Init /\ NobodyAsks
  BY <1>1, <1>2, WalkInitially, NobodyInv DEF ToolInv
<1>3. CASE NoWalk /\ VersionInit
  BY <1>1, <1>3, NoWalkInv, VersionInitially DEF ToolInv
<1>4. CASE NoWalk /\ NobodyAsks
  BY <1>1, <1>4, NoWalkInv, NobodyInv DEF ToolInv
<1> QED BY <1>2, <1>3, <1>4 DEF ToolInit

\* And keeps it: each of its parts is about one session.
LEMMA ToolStep ==
    ASSUME ToolInv, [ToolNext]_toolVars
    PROVE  ToolInv'
<1>1. [Next]_vars /\ [VersionNext]_versionVars /\ (Calls \/ UNCHANGED single)
  BY DEF ToolNext, Walk, Asking, toolVars
<1>2. WalkInv'
  BY <1>1, WalkStep DEF ToolInv
<1>3. VersionInv'
  BY <1>1, VersionStep DEF ToolInv
<1>4. CallInv'
  BY <1>1, CallStep DEF ToolInv
<1> QED BY <1>2, <1>3, <1>4 DEF ToolInv

\* So every session has it throughout.
THEOREM ToolAlways == ToolSpec => []ToolInv
<1>1. ToolInit => ToolInv
  BY ToolInitially
<1>2. ToolInv /\ [ToolNext]_toolVars => ToolInv'
  BY ToolStep
<1> QED BY <1>1, <1>2, PTL DEF ToolSpec

\* A client that follows a search to its end, while nothing changes, saw each match once
\* or was told that something is cut, whatever pages Core keeps, whatever the window's
\* limit and the order of the names (search tools, collection pages).
THEOREM WalksAreExact == ToolSpec => []WalkIsExact
<1>1. ToolInv => WalkIsExact
  BY WalkRight DEF ToolInv
<1> QED BY <1>1, ToolAlways, PTL

\* Of a search of operations it saw every match that was there when it began, however
\* many operations come meanwhile, unless it was told that something is cut.
THEOREM NoneMissed == ToolSpec => []NoOperationMissed
<1>1. ToolInv => NoOperationMissed
  BY WalkRight DEF ToolInv
<1> QED BY <1>1, ToolAlways, PTL

\* No credential that is known stays inline of a diagnostic, of any texts and any
\* credentials, overlapping or not, and none of a document (errors.rs, history.rs).
THEOREM NothingLiteral == ToolSpec => []NoLiteralInline
<1>1. ToolInv => NoLiteralInline
  BY DEF ToolInv, CallInv
<1> QED BY <1>1, ToolAlways, PTL

\* What is taken out of an answer is in a file, as long as there is room for any number
\* of them, or the answer says why not; what is left whole is the original.
THEOREM OriginalsAccounted == ToolSpec => []OriginalAccounted
<1>1. ToolInv => OriginalAccounted
  BY DEF ToolInv, CallInv
<1> QED BY <1>1, ToolAlways, PTL

\* A write is sent once, and its caller is told to reconcile unless Core has certainly
\* not taken it, whatever becomes of the diagnostic (mutation_error, call_tool).
THEOREM OutcomesSurvive == ToolSpec => []OutcomeSurvives
<1>1. ToolInv => OutcomeSurvives
  BY DEF ToolInv, CallInv
<1> QED BY <1>1, ToolAlways, PTL

\* A search of operations finds those that are shown with its outcome, target and time,
\* and is refused for its times only, if none can be between them (OperationSearchFilter).
THEOREM FiltersExact == ToolSpec => []FilterExact
<1>1. ToolInv => FilterExact
  BY DEF ToolInv, CallInv
<1> QED BY <1>1, ToolAlways, PTL

\* The tools that show parts of one stack agree, whatever windows they show.
THEOREM ViewsInAgreement == ToolSpec => []ViewsAgree
<1>1. ToolInv => ViewsAgree
  BY DEF ToolInv, CallInv
<1> QED BY <1>1, ToolAlways, PTL

\* A form that is in use fits Core of the three spans before, in every session.
THEOREM FormsFitEverywhere == ToolSpec => []FormFits
<1>1. ToolInv => FormFits
  BY VersionRight DEF ToolInv
<1> QED BY <1>1, ToolAlways, PTL

-------------------------------------------------------------------------------
(* A walk goes forward *)

\* Where a walk stands while it goes on: on a page that was advertised, and so begins
\* within what there can be, and at an offset that a search accepts.
WalkInBounds ==
    /\ pc = "walking" => offset <= OffsetLimit /\ Begin <= Cardinality(Items)
    /\ pc = "refused" => limit = 0

\* A call ends the walk or moves it on: by the limit within an answer, to an offset that
\* is accepted, or to the beginning of the next page.
WithinAnswer == page' = page /\ offset' = offset + limit /\ offset' <= OffsetLimit
ToNextPage == page' = page + 1 /\ offset' = 0 /\ page' * PageSize <= Cardinality(Items)
MovesOn == limit > 0 /\ (pc' = "ended" \/ WithinAnswer \/ ToNextPage)
GoesForward == [][Call => MovesOn]_toolVars

\* What no continuation that a search advertises does to its caller: be refused.
NoneRefused == pc = "refused" => limit = 0

\* A listing has no more places than there are items.
LEMMA ListingFits ==
    ASSUME WalkTypeOK
    PROVE  Len(listing) <= Cardinality(Items)
<1>1. PICK n \in Nat, m \in Nat : n = Len(listing) /\ m = Cardinality(Items)
  BY SearchTypes, FS_CardinalityType DEF WalkTypeOK
<1>2. /\ listing \in [1..n -> Items] /\ IsFiniteSet(1..n) /\ Cardinality(1..n) = n
      /\ \A k, l \in 1..n : listing[k] = listing[l] => k = l
  <2>1. listing \in [1..n -> Items] /\ DOMAIN listing = 1..n
    BY <1>1 DEF WalkTypeOK
  <2>2. IsFiniteSet(1..n) /\ Cardinality(1..n) = n
    <3>1. 1 \in Int /\ n \in Int /\ (1 > n => n = 0) /\ n - 1 + 1 = n
      BY <1>1
    <3> QED BY <3>1, FS_Interval
  <2> QED BY <2>1, <2>2 DEF WalkTypeOK
<1>3. ASSUME m < n PROVE FALSE
  <2>1. Cardinality(Items) < Cardinality(1..n) /\ IsFiniteSet(Items)
    BY <1>1, <1>2, <1>3, SearchTypes
  <2>2. \E k, l \in 1..n : k # l /\ listing[k] = listing[l]
    BY <1>2, <2>1, FS_PigeonHole
  <2> QED BY <1>2, <2>2
<1> QED BY <1>1, <1>3

\* A page that has a next one is full.
LEMMA NextBegins ==
    ASSUME WalkTypeOK, NEW ans \in Answers, NextPage(ans)
    PROVE  Paged /\ (page + 1) * PageSize <= Cardinality(Items)
<1>1. Paged /\ ans = OnPage /\ Len(OnPage) = PageSize
  BY DEF NextPage, MorePages, Answers, Paged
<1>2. PICK b \in Nat, z \in Nat, n \in Nat, m \in Nat :
          b = Begin /\ z = PageSize /\ n = Len(listing) /\ m = Cardinality(Items)
  <2>1. Begin \in Nat /\ PageSize \in Nat /\ Len(listing) \in Nat
    BY Begins, SearchTypes DEF WalkTypeOK
  <2>2. Cardinality(Items) \in Nat
    BY SearchTypes, FS_CardinalityType
  <2> QED BY <2>1, <2>2
<1>3. z > 0 /\ n <= m /\ (page + 1) * PageSize = b + z
  BY <1>2, Begins, SearchTypes, ListingFits DEF WalkTypeOK
<1>4. z = IF n <= b THEN 0 ELSE IF n <= b + z THEN n - b ELSE z
  BY <1>1, <1>2, PageIs
<1>5. b + z <= m
  BY <1>3, <1>4
<1> QED BY <1>1, <1>2, <1>3, <1>5

LEMMA CallMovesOn ==
    ASSUME Walking, Call
    PROVE  MovesOn /\ OffsetLimit' = OffsetLimit
<1>1. limit > 0 /\ OffsetLimit' = OffsetLimit /\ OffsetLimit \in Nat
  BY SearchTypes DEF Call, Accepts, question, OffsetLimit
<1>2. PICK ans \in Answers :
        IF NextOffset(ans) # None
        THEN offset' = NextOffset(ans) /\ UNCHANGED <<page, pc>>
        ELSE IF NextPage(ans)
        THEN page' = page + 1 /\ offset' = 0 /\ UNCHANGED pc
        ELSE pc' = "ended" /\ UNCHANGED <<page, offset>>
  BY DEF Call
<1>3. CASE NextOffset(ans) # None
  <2>1. ~Exhausted(ans) /\ offset' = Consumed(ans) /\ Consumed(ans) <= OffsetLimit
    BY <1>2, <1>3 DEF NextOffset
  <2>2. Consumed(ans) = offset + limit
    BY <1>1, <2>1, ShownIs DEF Walking
  <2> QED BY <1>1, <1>2, <1>3, <2>1, <2>2 DEF MovesOn, WithinAnswer
<1>4. CASE NextOffset(ans) = None /\ NextPage(ans)
  <2>1. page' = page + 1 /\ offset' = 0
    BY <1>2, <1>4
  <2>2. (page + 1) * PageSize <= Cardinality(Items)
    BY <1>4, NextBegins DEF Walking
  <2> QED BY <1>1, <2>1, <2>2 DEF MovesOn, ToNextPage
<1>5. CASE NextOffset(ans) = None /\ ~NextPage(ans)
  BY <1>1, <1>2, <1>5 DEF MovesOn
<1> QED BY <1>3, <1>4, <1>5

LEMMA BoundsStep ==
    ASSUME WalkInv, WalkInBounds, [Next]_vars
    PROVE  WalkInBounds'
<1>1. OffsetLimit \in Nat /\ OffsetLimit' = OffsetLimit /\ limit' = limit
  BY SearchTypes DEF OffsetLimit, Next, Call, Refuse, Change, vars, question
<1>2. CASE Call
  <2>1. Walking /\ pc = "walking" /\ MovesOn
    BY <1>2, CallMovesOn DEF WalkInv, Call
  <2>2. pc' \in {"walking", "ended"}
    BY <1>2, <2>1 DEF Call
  <2>3. CASE pc' = "ended"
    BY <2>3 DEF WalkInBounds
  <2>4. CASE pc' = "walking" /\ WithinAnswer
    BY <1>1, <2>1, <2>4 DEF WithinAnswer, WalkInBounds, Begin
  <2>5. CASE pc' = "walking" /\ ToNextPage
    BY <1>1, <2>1, <2>5 DEF ToNextPage, WalkInBounds, Begin
  <2> QED BY <2>1, <2>2, <2>3, <2>4, <2>5 DEF MovesOn
<1>3. CASE Refuse
  <2>1. /\ pc = "walking" /\ pc' = "refused" /\ ~Accepts /\ WalkTypeOK
        /\ offset <= OffsetLimit
    BY <1>3 DEF Refuse, WalkInv, Walking, WalkInBounds
  <2>2. limit \in Nat /\ ~(limit > 0)
    BY <2>1 DEF Accepts, WalkTypeOK
  <2> QED BY <1>1, <2>1, <2>2 DEF WalkInBounds
<1>4. CASE Change \/ UNCHANGED vars
  <2>1. UNCHANGED <<page, offset, pc>>
    BY <1>4 DEF Change, vars
  <2> QED BY <1>1, <2>1 DEF WalkInBounds, Begin
<1> QED BY <1>2, <1>3, <1>4 DEF Next

LEMMA BoundsInitially ==
    ASSUME ToolInit
    PROVE  WalkInBounds
<1>1. CASE Init
  <2>1. offset = 0 /\ page = 0 /\ pc = "walking" /\ OffsetLimit \in Nat
    BY <1>1, SearchTypes DEF Init, OffsetLimit
  <2>2. Begin = 0 /\ Cardinality(Items) \in Nat
    BY <2>1, Begins, SearchTypes, FS_CardinalityType
  <2> QED BY <2>1, <2>2 DEF WalkInBounds
<1>2. CASE NoWalk
  BY <1>2 DEF NoWalk, WalkInBounds
<1> QED BY <1>1, <1>2 DEF ToolInit

THEOREM WalksInBounds == ToolSpec => []WalkInBounds
<1>1. ToolInit => WalkInBounds
  BY BoundsInitially
<1>2. ToolInv /\ WalkInBounds /\ [ToolNext]_toolVars => WalkInBounds'
  <2> SUFFICES ASSUME ToolInv, WalkInBounds, [ToolNext]_toolVars PROVE WalkInBounds'
    OBVIOUS
  <2>1. [Next]_vars
    BY DEF ToolNext, Walk, Asking, toolVars
  <2> QED BY <2>1, BoundsStep DEF ToolInv
<1> QED BY <1>1, <1>2, ToolAlways, PTL DEF ToolSpec

\* No continuation that a search has advertised is refused, whatever has come, gone or
\* been renamed since (docs/tool-surface.md:51-61): only a call with the limit zero is.
THEOREM ContinuationsAccepted == ToolSpec => []NoneRefused
<1>1. WalkInBounds => NoneRefused
  BY DEF WalkInBounds, NoneRefused
<1> QED BY <1>1, WalksInBounds, PTL

\* No continuation leads back or stays: an offset grows by the limit and stays within
\* its bound, a page follows the one before and begins within what there can be. So a
\* walk of calls has finitely many of them, whatever others change meanwhile.
THEOREM WalksForward == ToolSpec => GoesForward
<1>1. ToolInv => (Call => MovesOn)
  <2> SUFFICES ASSUME ToolInv, Call PROVE MovesOn
    OBVIOUS
  <2>1. Walking
    BY DEF ToolInv, WalkInv, Call
  <2> QED BY <2>1, CallMovesOn
<1>2. ToolInv /\ [ToolNext]_toolVars => [Call => MovesOn]_toolVars
  BY <1>1
<1> QED BY <1>2, ToolAlways, PTL DEF ToolSpec, GoesForward

===================================================================================
