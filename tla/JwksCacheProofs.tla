---------------------------- MODULE JwksCacheProofs ----------------------------
(***************************************************************************)
(* Proofs about JwksCache: types, the time for which a key is trusted that *)
(* the issuer no longer publishes, and the rate and exclusion of fetches,  *)
(* for all callers, keys and times.                                        *)
(***************************************************************************)
EXTENDS JwksCache, SequenceTheorems, TLAPS

-------------------------------------------------------------------------------
(* The inductive invariant *)

\* Only the holder of the mutex fetches.
HolderFetches == \A c \in Fetching : Holds(c)

\* A refresh is permitted when the last one began long enough ago, and then only.
Spaced == sinceFetch + refreshAfter = Gap

\* The set of a stored fetch outlives the interval that follows it.
Covered == stored => refreshAfter <= cache.ttl

\* A key in the cache, or on its way there, was published that recently.
FreshKeys ==
    /\ \A k \in published : since[k] = 0
    /\ cache.ttl > 0 =>
        \A k \in cache.keys : since[k] <= (CacheTTL - cache.ttl) + FetchTime
    /\ \A c \in Callers : caller[c].st = "fetched" =>
        \A k \in caller[c].got : since[k] <= FetchTime - caller[c].left

CacheInv == TypeOK /\ HolderFetches /\ Spaced /\ Covered /\ FreshKeys

-------------------------------------------------------------------------------
(* Facts about the parts *)

LEMMA Times ==
    /\ CacheTTL \in Nat \ {0} /\ Interval \in Nat \ {0} /\ FetchTime \in Nat \ {0}
    /\ Gap \in Nat \ {0} /\ Gap <= CacheTTL
BY TimesPositive DEF Gap

\* Without removes one element and keeps the others in order.
LEMMA WithoutOne ==
    ASSUME NEW S, NEW q \in Seq(S), NEW i \in 1..Len(q)
    PROVE  /\ Without(q, i) \in Seq(S)
           /\ Len(Without(q, i)) = Len(q) - 1
           /\ i # 1 => Without(q, i) # <<>> /\ Head(Without(q, i)) = Head(q)
<1>1. Len(q) \in Nat /\ Len(q) - 1 \in Nat /\ i \in Nat
    BY LenProperties
<1>2. \A j \in 1..Len(q) - 1 :
        (IF j < i THEN q[j] ELSE q[j + 1]) \in S
    <2> TAKE j \in 1..Len(q) - 1
    <2>1. j \in 1..Len(q) /\ j + 1 \in 1..Len(q)
        BY <1>1
    <2> QED
        BY <2>1, ElementOfSeq
<1>3. Without(q, i) \in [1..Len(q) - 1 -> S]
    BY <1>2 DEF Without
<1>4. Without(q, i) \in Seq(S)
    BY <1>1, <1>3, SeqDef
<1>5. Len(Without(q, i)) = Len(q) - 1
    BY <1>1, <1>3, <1>4, LenProperties
<1>6. ASSUME i # 1
      PROVE  Without(q, i) # <<>> /\ Head(Without(q, i)) = Head(q)
    <2>1. 1 \in 1..Len(q) - 1 /\ 1 < i
        BY <1>1, <1>6
    <2>2. Without(q, i)[1] = q[1]
        BY <2>1 DEF Without
    <2>3. Len(Without(q, i)) # 0 /\ Len(q) # 0
        BY <1>1, <1>5, <2>1
    <2>4. Without(q, i) # <<>> /\ q # <<>>
        BY <2>3, EmptySeq, LenProperties
    <2> QED
        BY <2>2, <2>4, <1>4, HeadTailProperties
<1> QED
    BY <1>4, <1>5, <1>6

\* A caller that ends stays well typed, and no other caller changes.
LEMMA EndOnly ==
    ASSUME TypeOK, NEW c \in Callers, NEW st \in Ended, End(c, st)
    PROVE  /\ caller' \in [Callers -> CallerRecords]
           /\ caller'[c].st = st /\ caller'[c].key = caller[c].key
           /\ \A d \in Callers \ {c} : caller'[d] = caller[d]
<1> DEFINE new == [caller[c] EXCEPT !.st = st, !.left = 0, !.got = {}]
<1>1. caller \in [Callers -> CallerRecords]
    BY DEF TypeOK
<1>2. caller' = [caller EXCEPT ![c] = new]
    BY <1>1 DEF End
<1>3. caller[c] \in CallerRecords
    BY <1>1
<1>4. 0 \in 0..FetchTime /\ {} \in SUBSET Keys
    BY Times
<1>5. new \in CallerRecords /\ new.st = st /\ new.key = caller[c].key
    BY <1>3, <1>4 DEF CallerRecords, Ended
<1> HIDE DEF new
<1>6. caller'[c] = new /\ \A d \in Callers \ {c} : caller'[d] = caller[d]
    BY <1>1, <1>2
<1>7. caller' \in [Callers -> CallerRecords]
    BY <1>1, <1>2, <1>5
<1> QED
    BY <1>5, <1>6, <1>7

\* The same for one that leaves the queue; a fetcher other than it keeps the
\* mutex, since the one that leaves stood behind it.
LEMMA LeaveOnly ==
    ASSUME TypeOK, HolderFetches, NEW c \in Callers, NEW st \in Ended, Leave(c, st)
    PROVE  /\ caller' \in [Callers -> CallerRecords]
           /\ caller'[c].st = st /\ caller'[c].key = caller[c].key
           /\ \A d \in Callers \ {c} : caller'[d] = caller[d]
           /\ queue' \in Seq(Callers)
           /\ \A d \in Fetching' : Holds(d)'
<1>1. End(c, st)
    BY DEF Leave
<1>2. PICK i \in 1..Len(queue) : queue[i] = c /\ queue' = Without(queue, i)
    BY DEF Leave
<1>3. queue \in Seq(Callers)
    BY DEF TypeOK
<1>4. queue' \in Seq(Callers)
    BY <1>2, <1>3, WithoutOne
<1>5. ASSUME NEW d \in Fetching'
      PROVE  Holds(d)'
    <2>1. d \in Callers /\ d # c
        BY <1>1, <1>5, EndOnly DEF Fetching, Ended
    <2>2. d \in Fetching
        BY <1>1, <1>5, <2>1, EndOnly DEF Fetching
    <2>3. Head(queue) = d /\ queue # <<>>
        BY <2>2 DEF HolderFetches, Holds
    <2>4. Head(queue) = queue[1]
        BY <1>3, <2>3, HeadTailProperties
    <2>5. i # 1
        BY <1>2, <2>1, <2>3, <2>4
    <2> QED
        BY <1>2, <1>3, <2>3, <2>5, WithoutOne DEF Holds
<1> QED
    BY <1>1, <1>4, <1>5, EndOnly

-------------------------------------------------------------------------------
(* Every step keeps the invariant *)

LEMMA InitCacheInv == Init => CacheInv
<1> SUFFICES ASSUME Init PROVE CacheInv
    OBVIOUS
<1>1. 0 \in 0..FetchTime /\ 0 \in 0..CacheTTL /\ 0 \in 0..Gap /\ Gap \in 0..Gap
      /\ SinceMax \in Nat /\ 0 \in 0..SinceMax /\ SinceMax \in 0..SinceMax
    BY Times DEF SinceMax
<1>2. caller \in [Callers -> CallerRecords]
    BY <1>1 DEF Init, CallerRecords, Ended
<1>3. \A c \in Callers : caller[c].st = "idle"
    BY DEF Init
<1>4. since \in [Keys -> 0..SinceMax] /\ \A k \in published : since[k] = 0
    BY <1>1 DEF Init
<1>5. queue \in Seq(Callers)
    BY EmptySeq DEF Init
<1>6. TypeOK
    BY <1>1, <1>2, <1>4, <1>5 DEF TypeOK, Init
<1>7. HolderFetches
    BY <1>3 DEF HolderFetches, Fetching
<1>8. Spaced /\ Covered
    BY Times DEF Spaced, Covered, Init
<1>9. FreshKeys
    <2>1. ~(cache.ttl > 0)
        BY DEF Init
    <2> QED
        BY <1>3, <1>4, <2>1 DEF FreshKeys
<1> QED
    BY <1>6, <1>7, <1>8, <1>9 DEF CacheInv

\* One that leaves takes nothing with it: the others keep what they fetched.
LEMMA OthersFresh ==
    ASSUME CacheInv, NEW c \in Callers, NEW st \in Ended,
           caller'[c].st = st, \A d \in Callers \ {c} : caller'[d] = caller[d],
           UNCHANGED since
    PROVE  \A d \in Callers : caller'[d].st = "fetched" =>
               \A k \in caller'[d].got : since'[k] <= FetchTime - caller'[d].left
<1> TAKE d \in Callers
<1>1. CASE d = c
    BY <1>1 DEF Ended
<1>2. CASE d # c
    BY <1>2 DEF CacheInv, FreshKeys
<1> QED
    BY <1>1, <1>2

LEMMA LeaveKeeps ==
    ASSUME CacheInv, NEW c \in Callers, NEW st \in Ended, Leave(c, st),
           UNCHANGED <<published, cache, refreshAfter, histories>>
    PROVE  CacheInv'
<1>1. TypeOK /\ HolderFetches /\ Spaced /\ Covered /\ FreshKeys
    BY DEF CacheInv
<1>2. TypeOK'
    BY <1>1, LeaveOnly DEF TypeOK, histories
<1>3. HolderFetches'
    BY <1>1, LeaveOnly DEF HolderFetches
<1>4. Spaced' /\ Covered'
    BY <1>1 DEF Spaced, Covered, histories
<1>5. UNCHANGED since /\ UNCHANGED <<published, cache>>
    BY DEF histories
<1>6. \A d \in Callers : caller'[d].st = "fetched" =>
        \A k \in caller'[d].got : since'[k] <= FetchTime - caller'[d].left
    BY <1>1, <1>5, LeaveOnly, OthersFresh
<1>7. FreshKeys'
    BY <1>1, <1>5, <1>6 DEF FreshKeys
<1> QED
    BY <1>2, <1>3, <1>4, <1>7 DEF CacheInv

LEMMA AskKeeps ==
    ASSUME CacheInv, NEW c \in Callers, NEW k \in Keys, Ask(c, k)
    PROVE  CacheInv'
<1>1. TypeOK /\ HolderFetches /\ Spaced /\ Covered /\ FreshKeys
    BY DEF CacheInv
<1> DEFINE new == [st |-> "asked", key |-> k, left |-> 0, got |-> {}]
<1>2. new \in CallerRecords /\ new.st = "asked"
    BY Times DEF CallerRecords
<1>3. caller' = [caller EXCEPT ![c] = new] /\ caller \in [Callers -> CallerRecords]
    BY <1>1 DEF Ask, TypeOK
<1> HIDE DEF new
<1>4. caller' \in [Callers -> CallerRecords] /\ caller'[c].st = "asked"
      /\ \A d \in Callers \ {c} : caller'[d] = caller[d]
    BY <1>2, <1>3
<1>5. UNCHANGED <<published, cache, refreshAfter, queue, since, sinceFetch, stored>>
    BY DEF Ask, histories
<1>6. TypeOK'
    BY <1>1, <1>4, <1>5 DEF TypeOK
<1>7. HolderFetches'
    BY <1>1, <1>4, <1>5 DEF HolderFetches, Fetching, Holds
<1>8. Spaced' /\ Covered'
    BY <1>1, <1>5 DEF Spaced, Covered
<1>9. FreshKeys'
    <2>1. \A d \in Callers : caller'[d].st = "fetched" =>
            \A n \in caller'[d].got : since'[n] <= FetchTime - caller'[d].left
        BY <1>1, <1>4, <1>5 DEF FreshKeys
    <2> QED
        BY <1>1, <1>5, <2>1 DEF FreshKeys
<1> QED
    BY <1>6, <1>7, <1>8, <1>9 DEF CacheInv

LEMMA LookupKeeps ==
    ASSUME CacheInv, NEW c \in Callers, Lookup(c)
    PROVE  CacheInv'
<1>1. TypeOK /\ HolderFetches /\ Spaced /\ Covered /\ FreshKeys
    BY DEF CacheInv
<1>2. UNCHANGED <<published, cache, refreshAfter, since, sinceFetch, stored>>
    BY DEF Lookup, histories
<1>3. caller' \in [Callers -> CallerRecords] /\ caller'[c].st \in {"accepted", "queued"}
      /\ \A d \in Callers \ {c} : caller'[d] = caller[d]
    <2>1. CASE Cached(caller[c].key)
        <3>1. End(c, "accepted")
            BY <2>1 DEF Lookup
        <3>2. "accepted" \in Ended
            BY DEF Ended
        <3> QED
            BY <1>1, <3>1, <3>2, EndOnly
    <2>2. CASE ~Cached(caller[c].key)
        <3> DEFINE new == [caller[c] EXCEPT !.st = "queued"]
        <3>1. caller' = [caller EXCEPT ![c] = new] /\ caller \in [Callers -> CallerRecords]
            BY <1>1, <2>2 DEF Lookup, TypeOK
        <3>2. new \in CallerRecords /\ new.st = "queued"
            BY <3>1 DEF CallerRecords
        <3> HIDE DEF new
        <3> QED
            BY <3>1, <3>2
    <2> QED
        BY <2>1, <2>2
<1>4. queue \in Seq(Callers) /\ (queue' = queue \/ queue' = Append(queue, c))
    BY <1>1 DEF Lookup, TypeOK
<1>5. queue' \in Seq(Callers)
      /\ (queue # <<>> => queue' # <<>> /\ Head(queue') = Head(queue))
    BY <1>4, AppendProperties, HeadTailProperties
<1>6. TypeOK'
    BY <1>1, <1>2, <1>3, <1>5 DEF TypeOK
<1>7. HolderFetches'
    <2> SUFFICES ASSUME NEW d \in Fetching' PROVE Holds(d)'
        BY DEF HolderFetches
    <2>1. d \in Fetching
        BY <1>3 DEF Fetching
    <2> QED
        BY <1>1, <1>5, <2>1 DEF HolderFetches, Holds
<1>8. Spaced' /\ Covered'
    BY <1>1, <1>2 DEF Spaced, Covered
<1>9. FreshKeys'
    <2>1. \A d \in Callers : caller'[d].st = "fetched" =>
            \A n \in caller'[d].got : since'[n] <= FetchTime - caller'[d].left
        BY <1>1, <1>2, <1>3 DEF FreshKeys
    <2> QED
        BY <1>1, <1>2, <2>1 DEF FreshKeys
<1> QED
    BY <1>6, <1>7, <1>8, <1>9 DEF CacheInv

LEMMA BeginFetchKeeps ==
    ASSUME CacheInv, NEW c \in Callers, BeginFetch(c)
    PROVE  CacheInv'
<1>1. TypeOK /\ HolderFetches /\ Spaced /\ Covered /\ FreshKeys
    BY DEF CacheInv
<1>2. UNCHANGED <<published, cache, queue, since>> /\ Holds(c)
      /\ refreshAfter' = Gap /\ sinceFetch' = 0 /\ stored' = FALSE
    BY DEF BeginFetch, Miss
<1> DEFINE new == [caller[c] EXCEPT !.st = "fetching", !.left = FetchTime]
<1>3. caller' = [caller EXCEPT ![c] = new] /\ caller \in [Callers -> CallerRecords]
    BY <1>1 DEF BeginFetch, TypeOK
<1>4. new \in CallerRecords /\ new.st = "fetching"
    <2>1. caller[c] \in CallerRecords /\ FetchTime \in 0..FetchTime
        BY <1>3, Times
    <2> QED
        BY <2>1 DEF CallerRecords
<1> HIDE DEF new
<1>5. caller' \in [Callers -> CallerRecords] /\ caller'[c].st = "fetching"
      /\ \A d \in Callers \ {c} : caller'[d] = caller[d]
    BY <1>3, <1>4
<1>6. TypeOK'
    <2>1. refreshAfter' \in 0..Gap /\ sinceFetch' \in 0..Gap
        BY <1>2, Times
    <2>2. stored' \in BOOLEAN
        BY <1>2
    <2> QED
        BY <1>1, <1>2, <1>5, <2>1, <2>2 DEF TypeOK
<1>7. HolderFetches'
    BY <1>1, <1>2, <1>5 DEF HolderFetches, Fetching, Holds
<1>8. Spaced' /\ Covered'
    BY <1>2, Times DEF Spaced, Covered
<1>9. FreshKeys'
    <2>1. \A d \in Callers : caller'[d].st = "fetched" =>
            \A n \in caller'[d].got : since'[n] <= FetchTime - caller'[d].left
        BY <1>1, <1>2, <1>5 DEF FreshKeys
    <2> QED
        BY <1>1, <1>2, <2>1 DEF FreshKeys
<1> QED
    BY <1>6, <1>7, <1>8, <1>9 DEF CacheInv

LEMMA AnswerKeeps ==
    ASSUME CacheInv, NEW c \in Callers, Answer(c)
    PROVE  CacheInv'
<1>1. TypeOK /\ HolderFetches /\ Spaced /\ Covered /\ FreshKeys
    BY DEF CacheInv
<1>2. UNCHANGED <<published, cache, refreshAfter, queue, since, sinceFetch, stored>>
      /\ c \in Fetching
    BY DEF Answer, histories, Fetching
<1> DEFINE new == [caller[c] EXCEPT !.st = "fetched", !.got = published]
<1>3. caller' = [caller EXCEPT ![c] = new] /\ caller \in [Callers -> CallerRecords]
    BY <1>1 DEF Answer, TypeOK
<1>4. new \in CallerRecords /\ new.got = published /\ new.left \in 0..FetchTime
    BY <1>1, <1>3 DEF CallerRecords, TypeOK
<1> HIDE DEF new
<1>5. caller' \in [Callers -> CallerRecords] /\ caller'[c].got = published
      /\ caller'[c].left \in 0..FetchTime
      /\ \A d \in Callers \ {c} : caller'[d] = caller[d]
    BY <1>3, <1>4
<1>6. TypeOK'
    BY <1>1, <1>2, <1>5 DEF TypeOK
<1>7. HolderFetches'
    BY <1>1, <1>2, <1>5 DEF HolderFetches, Fetching, Holds
<1>8. Spaced' /\ Covered'
    BY <1>1, <1>2 DEF Spaced, Covered
<1>9. FreshKeys'
    <2>1. ASSUME NEW d \in Callers, caller'[d].st = "fetched", NEW n \in caller'[d].got
          PROVE  since'[n] <= FetchTime - caller'[d].left
        <3>1. CASE d = c
            BY <1>1, <1>2, <1>5, <2>1, <3>1, Times DEF FreshKeys
        <3>2. CASE d # c
            BY <1>1, <1>2, <1>5, <2>1, <3>2 DEF FreshKeys
        <3> QED
            BY <3>1, <3>2
    <2> QED
        BY <1>1, <1>2, <2>1 DEF FreshKeys
<1> QED
    BY <1>6, <1>7, <1>8, <1>9 DEF CacheInv

\* The set that is stored was published no longer ago than the fetch took.
LEMMA StoreKeeps ==
    ASSUME CacheInv, NEW c \in Callers, Store(c)
    PROVE  CacheInv'
<1>1. TypeOK /\ HolderFetches /\ Spaced /\ Covered /\ FreshKeys
    BY DEF CacheInv
<1>2. PICK st \in Ended : Leave(c, st)
    <2>1. "accepted" \in Ended /\ "refused" \in Ended
        BY DEF Ended
    <2> QED
        BY <2>1 DEF Store
<1>3. UNCHANGED <<published, refreshAfter, since, sinceFetch>> /\ stored' = TRUE
      /\ caller[c].st = "fetched"
      /\ cache' = [keys |-> caller[c].got, ttl |-> CacheTTL]
    BY DEF Store
<1>4. caller[c].got \in SUBSET Keys /\ caller[c].left \in 0..FetchTime
    BY <1>1 DEF TypeOK, CallerRecords
<1>5. TypeOK'
    <2>1. cache' \in [keys : SUBSET Keys, ttl : 0..CacheTTL]
        BY <1>3, <1>4, Times
    <2> QED
        BY <1>1, <1>2, <1>3, <2>1, LeaveOnly DEF TypeOK
<1>6. HolderFetches'
    BY <1>1, <1>2, LeaveOnly DEF HolderFetches
<1>7. Spaced' /\ Covered'
    BY <1>1, <1>3, Times DEF Spaced, Covered, TypeOK
<1>8. FreshKeys'
    <2>1. \A d \in Callers : caller'[d].st = "fetched" =>
            \A k \in caller'[d].got : since'[k] <= FetchTime - caller'[d].left
        BY <1>1, <1>2, <1>3, LeaveOnly, OthersFresh
    <2>2. ASSUME NEW k \in cache'.keys
          PROVE  since'[k] <= (CacheTTL - cache'.ttl) + FetchTime
        <3>1. k \in caller[c].got /\ k \in Keys /\ cache'.ttl = CacheTTL
            BY <1>3, <1>4, <2>2
        <3>2. since[k] <= FetchTime - caller[c].left /\ since[k] \in Nat
            BY <1>1, <1>3, <3>1 DEF FreshKeys, TypeOK
        <3> QED
            BY <1>3, <1>4, <3>1, <3>2, Times
    <2> QED
        BY <1>1, <1>3, <2>1, <2>2 DEF FreshKeys
<1> QED
    BY <1>5, <1>6, <1>7, <1>8 DEF CacheInv

LEMMA RotateKeeps ==
    ASSUME CacheInv, NEW S \in SUBSET Keys, Rotate(S)
    PROVE  CacheInv'
<1>1. TypeOK /\ HolderFetches /\ Spaced /\ Covered /\ FreshKeys
    BY DEF CacheInv
<1>2. UNCHANGED <<cache, refreshAfter, queue, caller, sinceFetch, stored>>
      /\ published' = S
      /\ since' = [k \in Keys |-> IF k \in S THEN 0 ELSE since[k]]
    BY DEF Rotate
<1>3. SinceMax \in Nat /\ since \in [Keys -> 0..SinceMax]
    BY <1>1, Times DEF TypeOK, SinceMax
<1>4. \A k \in Keys : since'[k] \in 0..SinceMax /\ since'[k] <= since[k]
    BY <1>2, <1>3
<1>5. TypeOK'
    <2>1. since' \in [Keys -> 0..SinceMax]
        BY <1>2, <1>3
    <2> QED
        BY <1>1, <1>2, <2>1 DEF TypeOK
<1>6. HolderFetches' /\ Spaced' /\ Covered'
    BY <1>1, <1>2 DEF HolderFetches, Fetching, Holds, Spaced, Covered
<1>7. FreshKeys'
    <2>1. \A k \in published' : since'[k] = 0
        BY <1>2
    <2>2. ASSUME cache.ttl > 0, NEW k \in cache.keys
          PROVE  since'[k] <= (CacheTTL - cache.ttl) + FetchTime
        <3>1. k \in Keys /\ cache.ttl \in Nat
            BY <1>1, <2>2, Times DEF TypeOK
        <3>2. since[k] <= (CacheTTL - cache.ttl) + FetchTime
            BY <1>1, <2>2 DEF FreshKeys
        <3> QED
            BY <1>3, <1>4, <3>1, <3>2, Times
    <2>3. ASSUME NEW d \in Callers, caller[d].st = "fetched", NEW k \in caller[d].got
          PROVE  since'[k] <= FetchTime - caller[d].left
        <3>1. k \in Keys /\ caller[d].left \in Nat
            BY <1>1, <2>3, Times DEF TypeOK, CallerRecords
        <3>2. since[k] <= FetchTime - caller[d].left
            BY <1>1, <2>3 DEF FreshKeys
        <3> QED
            BY <1>3, <1>4, <3>1, <3>2, Times
    <2> QED
        BY <1>2, <2>1, <2>2, <2>3 DEF FreshKeys
<1> QED
    BY <1>5, <1>6, <1>7 DEF CacheInv

\* What a tick does to a lifetime and to an age.
LEMMA DownUp ==
    ASSUME NEW n \in Nat, NEW m \in Nat, n <= m
    PROVE  /\ Down(n) \in 0..m
           /\ n > 0 => Down(n) = n - 1
           /\ Down(n) > 0 => n > 0
           /\ UpTo(n, m) \in 0..m /\ UpTo(n, m) <= n + 1
           /\ n < m => UpTo(n, m) = n + 1
           /\ UpTo(n, m) < m => UpTo(n, m) = n + 1
BY DEF Down, UpTo

LEMMA TickKeeps ==
    ASSUME CacheInv, Tick
    PROVE  CacheInv'
<1>1. TypeOK /\ HolderFetches /\ Spaced /\ Covered /\ FreshKeys
    BY DEF CacheInv
<1>2. UNCHANGED <<published, queue, stored>>
      /\ refreshAfter' = Down(refreshAfter) /\ sinceFetch' = UpTo(sinceFetch, Gap)
    BY DEF Tick
<1>3. SinceMax \in Nat /\ 0 \in 0..SinceMax
    BY Times DEF SinceMax
<1>4. since' \in [Keys -> 0..SinceMax]
      /\ \A k \in Keys : since[k] \in Nat /\ since'[k] \in Nat /\ since'[k] <= since[k] + 1
    <2>1. since' = [k \in Keys |->
                        IF k \in published THEN 0 ELSE UpTo(since[k], SinceMax)]
        BY DEF Tick
    <2>2. \A k \in Keys : since[k] \in Nat /\ since[k] <= SinceMax
        BY <1>1, <1>3 DEF TypeOK
    <2>3. \A k \in Keys : UpTo(since[k], SinceMax) \in 0..SinceMax
                          /\ UpTo(since[k], SinceMax) <= since[k] + 1
        BY <1>3, <2>2, DownUp
    <2>4. \A k \in Keys : since'[k] \in 0..SinceMax /\ since'[k] <= since[k] + 1
        BY <1>3, <2>1, <2>2, <2>3
    <2> QED
        BY <1>3, <2>1, <2>2, <2>3, <2>4
<1>5. /\ cache'.keys = cache.keys
      /\ cache'.ttl = Down(cache.ttl)
      /\ cache' \in [keys : SUBSET Keys, ttl : 0..CacheTTL]
    <2>1. cache \in [keys : SUBSET Keys, ttl : 0..CacheTTL]
          /\ cache' = [cache EXCEPT !.ttl = Down(cache.ttl)]
        BY <1>1 DEF TypeOK, Tick
    <2>2. cache.ttl \in Nat /\ cache.ttl <= CacheTTL
        BY <2>1, Times
    <2>3. Down(cache.ttl) \in 0..CacheTTL
        BY <2>2, DownUp, Times
    <2> QED
        BY <2>1, <2>3
<1>6. ASSUME NEW d \in Callers
      PROVE  /\ caller'[d] \in CallerRecords
             /\ caller'[d].st = caller[d].st /\ caller'[d].got = caller[d].got
             /\ caller'[d].left = Down(caller[d].left)
    <2> DEFINE new == [caller[d] EXCEPT !.left = Down(caller[d].left)]
    <2>1. caller[d] \in CallerRecords /\ caller'[d] = new
        BY <1>1 DEF TypeOK, Tick
    <2>2. caller[d].left \in Nat /\ caller[d].left <= FetchTime
        BY <2>1, Times DEF CallerRecords
    <2>3. Down(caller[d].left) \in 0..FetchTime
        BY <2>2, DownUp, Times
    <2>4. new \in CallerRecords /\ new.st = caller[d].st /\ new.got = caller[d].got
          /\ new.left = Down(caller[d].left)
        BY <2>1, <2>3 DEF CallerRecords
    <2> HIDE DEF new
    <2> QED
        BY <2>1, <2>4
<1>7. TypeOK'
    <2>1. caller' \in [Callers -> CallerRecords]
        <3>1. caller' = [d \in Callers |-> caller'[d]]
            BY DEF Tick
        <3> QED
            BY <1>6, <3>1
    <2>2. refreshAfter' \in 0..Gap /\ sinceFetch' \in 0..Gap
        BY <1>1, <1>2, Times, DownUp DEF TypeOK
    <2> QED
        BY <1>1, <1>2, <1>4, <1>5, <2>1, <2>2 DEF TypeOK
<1>8. HolderFetches'
    BY <1>1, <1>2, <1>6 DEF HolderFetches, Fetching, Holds
<1>9. Spaced' /\ Covered'
    <2>1. refreshAfter \in Nat /\ sinceFetch \in Nat /\ sinceFetch <= Gap
          /\ refreshAfter <= Gap /\ Gap \in Nat
        BY <1>1, Times DEF TypeOK
    <2>2. sinceFetch + refreshAfter = Gap
        BY <1>1 DEF Spaced
    <2>3. cache.ttl \in Nat
        BY <1>1, Times DEF TypeOK
    <2>4. Covered'
        BY <1>1, <1>2, <1>5, <2>1, <2>3 DEF Covered, Down
    <2> HIDE DEF Gap
    <2> QED
        BY <1>2, <2>1, <2>2, <2>4 DEF Spaced, Down, UpTo
<1>10. FreshKeys'
    <2>1. \A k \in published' : since'[k] = 0
        BY <1>1, <1>2 DEF Tick, TypeOK
    <2>2. ASSUME cache'.ttl > 0, NEW k \in cache'.keys
          PROVE  since'[k] <= (CacheTTL - cache'.ttl) + FetchTime
        <3>1. k \in Keys /\ k \in cache.keys /\ cache.ttl \in Nat /\ cache.ttl <= CacheTTL
            BY <1>1, <1>5, <2>2, Times DEF TypeOK
        <3>2. cache.ttl > 0 /\ cache'.ttl = cache.ttl - 1
            BY <1>5, <2>2, <3>1 DEF Down
        <3>3. since[k] <= (CacheTTL - cache.ttl) + FetchTime
            BY <1>1, <3>1, <3>2 DEF FreshKeys
        <3> QED
            BY <1>4, <3>1, <3>2, <3>3, Times
    <2>3. ASSUME NEW d \in Callers, caller'[d].st = "fetched", NEW k \in caller'[d].got
          PROVE  since'[k] <= FetchTime - caller'[d].left
        <3>1. caller[d].st = "fetched" /\ k \in caller[d].got
            BY <1>6, <2>3
        <3>2. k \in Keys /\ caller[d].left \in Nat
            BY <1>1, <3>1, Times DEF TypeOK, CallerRecords
        <3>3. caller[d].left > 0
            BY <3>1 DEF Tick
        <3>4. caller'[d].left = caller[d].left - 1
            BY <1>6, <3>2, <3>3 DEF Down
        <3>5. since[k] <= FetchTime - caller[d].left
            BY <1>1, <3>1 DEF FreshKeys
        <3> QED
            BY <1>4, <3>2, <3>4, <3>5, Times
    <2> QED
        BY <2>1, <2>2, <2>3 DEF FreshKeys
<1> QED
    BY <1>7, <1>8, <1>9, <1>10 DEF CacheInv

LEMMA NextKeeps == CacheInv /\ [Next]_vars => CacheInv'
<1> SUFFICES ASSUME CacheInv, [Next]_vars PROVE CacheInv'
    OBVIOUS
<1>1. ASSUME NEW c \in Callers, CallerStep(c)
      PROVE  CacheInv'
    <2>1. CASE \E k \in Keys : Ask(c, k)
        BY <2>1, AskKeeps
    <2>2. CASE Lookup(c)
        BY <2>2, LookupKeeps
    <2>3. CASE Recheck(c)
        BY <2>3, LeaveKeeps DEF Recheck, Ended
    <2>4. CASE Suppress(c)
        BY <2>4, LeaveKeeps DEF Suppress, Ended
    <2>5. CASE BeginFetch(c)
        BY <2>5, BeginFetchKeeps
    <2>6. CASE Answer(c)
        BY <2>6, AnswerKeeps
    <2>7. CASE Store(c)
        BY <2>7, StoreKeeps
    <2>8. CASE Fail(c)
        BY <2>8, LeaveKeeps DEF Fail, Ended
    <2>9. CASE TimeOut(c)
        BY <2>9, LeaveKeeps DEF TimeOut, Ended
    <2>10. CASE Cancel(c)
        BY <2>10, LeaveKeeps DEF Cancel, Ended
    <2> QED
        BY <1>1, <2>1, <2>2, <2>3, <2>4, <2>5, <2>6, <2>7, <2>8, <2>9, <2>10
           DEF CallerStep
<1>2. CASE \E S \in SUBSET Keys : Rotate(S)
    BY <1>2, RotateKeeps
<1>3. CASE Tick
    BY <1>3, TickKeeps
<1>4. CASE UNCHANGED vars
    BY <1>4 DEF CacheInv, TypeOK, HolderFetches, Fetching, Holds, Spaced, Covered,
                FreshKeys, vars, histories
<1> QED
    BY <1>1, <1>2, <1>3, <1>4 DEF Next

-------------------------------------------------------------------------------
(* The theorems *)

\* The inductive invariant: state well typed, at most the holder of the refresh
\* mutex fetching, refreshes spaced, and no cached or fetched key older than the
\* clocks beside it say.
THEOREM CacheInvariant == Spec => []CacheInv
BY InitCacheInv, NextKeeps, PTL DEF Spec

\* The variables keep their types: the clocks their ranges, the queue a sequence
\* of callers.
THEOREM TypeCorrect == Spec => []TypeOK
<1>1. CacheInv => TypeOK
    BY DEF CacheInv
<1> QED
    BY <1>1, CacheInvariant, PTL

\* Only its own step changes where a caller is.
LEMMA OwnStep ==
    ASSUME TypeOK, [Next]_vars, NEW c \in Callers, caller'[c].st # caller[c].st
    PROVE  CallerStep(c)
<1>1. CASE \E d \in Callers : CallerStep(d)
    <2>1. PICK d \in Callers : CallerStep(d)
        BY <1>1
    <2>2. CASE d # c
        <3>1. caller'[c] = caller[c]
            BY <2>1, <2>2
               DEF TypeOK, CallerStep, Ask, Lookup, Recheck, Suppress, BeginFetch,
                   Answer, Store, Fail, TimeOut, Cancel, Leave, End
        <3> QED
            BY <3>1
    <2> QED
        BY <2>1, <2>2
<1>2. CASE (\E S \in SUBSET Keys : Rotate(S)) \/ Tick \/ UNCHANGED vars
    <2>1. caller[c] \in CallerRecords
        BY DEF TypeOK
    <2>2. caller'[c].st = caller[c].st
        BY <1>2, <2>1 DEF Rotate, Tick, vars, CallerRecords
    <2> QED
        BY <2>2
<1> QED
    BY <1>1, <1>2 DEF Next

\* How a verification reaches the verdicts and the fetch.
LEMMA Ways ==
    ASSUME TypeOK, NEW c \in Callers, CallerStep(c)
    PROVE  /\ Becomes(c, "accepted") =>
               \/ Cached(caller[c].key)
               \/ caller[c].st = "fetched" /\ caller[c].key \in caller[c].got
           /\ Becomes(c, "fetching") => BeginFetch(c)
           /\ Becomes(c, "refused") /\ caller[c].st = "queued" => Suppress(c)
<1>1. caller[c] \in CallerRecords /\ caller \in [Callers -> CallerRecords]
    BY DEF TypeOK
<1>2. ASSUME NEW st \in Ended, Leave(c, st) \/ End(c, st)
      PROVE  caller'[c].st = st
    BY <1>2, EndOnly DEF Leave
<1>3. {"accepted", "refused", "idle"} \subseteq Ended
    BY DEF Ended
<1>4. CASE \E k \in Keys : Ask(c, k)
    BY <1>1, <1>4 DEF Ask, Becomes
<1>5. CASE Lookup(c)
    <2>1. CASE Cached(caller[c].key)
        BY <1>2, <1>3, <1>5, <2>1 DEF Lookup, Becomes
    <2>2. CASE ~Cached(caller[c].key)
        <3>1. caller'[c].st = "queued"
            BY <1>1, <1>5, <2>2 DEF Lookup, CallerRecords
        <3> QED
            BY <3>1 DEF Becomes
    <2> QED
        BY <2>1, <2>2
<1>6. CASE Recheck(c)
    BY <1>2, <1>3, <1>6 DEF Recheck, Becomes
<1>7. CASE Suppress(c)
    BY <1>2, <1>3, <1>7 DEF Suppress, Becomes
<1>8. CASE BeginFetch(c)
    <2>1. caller'[c].st = "fetching"
        BY <1>1, <1>8 DEF BeginFetch, CallerRecords
    <2> QED
        BY <1>8, <2>1 DEF Becomes
<1>9. CASE Answer(c)
    <2>1. caller'[c].st = "fetched"
        BY <1>1, <1>9 DEF Answer, CallerRecords
    <2> QED
        BY <2>1 DEF Becomes
<1>10. CASE Store(c)
    BY <1>2, <1>3, <1>10 DEF Store, Becomes
<1>11. CASE Fail(c)
    BY <1>2, <1>3, <1>11 DEF Fail, Becomes
<1>12. CASE TimeOut(c)
    BY <1>2, <1>3, <1>12 DEF TimeOut, Becomes
<1>13. CASE Cancel(c)
    BY <1>2, <1>3, <1>13 DEF Cancel, Becomes
<1> QED
    BY <1>4, <1>5, <1>6, <1>7, <1>8, <1>9, <1>10, <1>11, <1>12, <1>13 DEF CallerStep

\* A caller is accepted on a cached key, or on one of the set it has fetched; both
\* were published recently enough.
LEMMA AcceptedFresh ==
    ASSUME CacheInv, [Next]_vars, NEW c \in Callers, Becomes(c, "accepted")
    PROVE  since[caller[c].key] < CacheTTL + FetchTime
<1>1. TypeOK /\ FreshKeys
    BY DEF CacheInv
<1>2. caller[c] \in CallerRecords /\ caller[c].key \in Keys
      /\ since[caller[c].key] \in Nat
    BY <1>1, Times DEF TypeOK, CallerRecords, SinceMax
<1>3. CASE Cached(caller[c].key)
    <2>1. cache.ttl \in Nat /\ cache.ttl > 0
        BY <1>1, <1>3, Times DEF TypeOK, Cached
    <2>2. since[caller[c].key] <= (CacheTTL - cache.ttl) + FetchTime
        BY <1>1, <1>3 DEF FreshKeys, Cached
    <2> QED
        BY <1>2, <2>1, <2>2, Times
<1>4. CASE caller[c].st = "fetched" /\ caller[c].key \in caller[c].got
    <2>1. since[caller[c].key] <= FetchTime - caller[c].left
          /\ caller[c].left \in Nat
        BY <1>1, <1>2, <1>4, Times DEF FreshKeys, CallerRecords
    <2> QED
        BY <1>2, <2>1, Times
<1>5. CallerStep(c)
    BY <1>1, OwnStep DEF Becomes
<1> QED
    BY <1>1, <1>3, <1>4, <1>5, Ways

\* A key is trusted only if the issuer published it less than a cache lifetime and
\* a fetch time ago, however fetches, look-ups and rotations interleave.
THEOREM TrustIsBounded == Spec => BoundedTrust
<1>1. CacheInv /\ [Next]_vars =>
        [\A c \in Callers : Becomes(c, "accepted") =>
            since[caller[c].key] < CacheTTL + FetchTime]_vars
    BY AcceptedFresh
<1> QED
    BY <1>1, CacheInvariant, PTL DEF Spec, BoundedTrust

\* A caller that begins to fetch is alone in fetching, and no earlier than the
\* refresh interval after the fetch before, whatever became of that one.
THEOREM FetchesAreBounded == Spec => FetchesBounded
<1>1. ASSUME CacheInv, [Next]_vars, NEW c \in Callers, Becomes(c, "fetching")
      PROVE  Fetching = {} /\ sinceFetch >= Gap
    <2>1. TypeOK /\ HolderFetches /\ Spaced
        BY <1>1 DEF CacheInv
    <2>2. BeginFetch(c)
        BY <1>1, <2>1, OwnStep, Ways DEF Becomes
    <2>3. caller[c].st = "queued" /\ Holds(c) /\ refreshAfter = 0
        BY <2>2 DEF BeginFetch, Miss
    <2>4. \A d \in Fetching : FALSE
        BY <2>1, <2>3 DEF HolderFetches, Holds, Fetching
    <2>5. sinceFetch >= Gap
        BY <2>1, <2>3, Times DEF Spaced, TypeOK
    <2> QED
        BY <2>4, <2>5
<1>2. CacheInv /\ [Next]_vars =>
        [\A c \in Callers : Becomes(c, "fetching") =>
            Fetching = {} /\ sinceFetch >= Gap]_vars
    BY <1>1
<1> QED
    BY <1>2, CacheInvariant, PTL DEF Spec, FetchesBounded

\* A caller is refused in the queue only within the interval after a fetch, and
\* after a stored one only while its set is alive and lacks the key.
THEOREM RefusalsHaveACause == Spec => RefusedForCause
<1>1. ASSUME CacheInv, [Next]_vars, NEW c \in Callers,
             Becomes(c, "refused"), caller[c].st = "queued"
      PROVE  /\ sinceFetch < Gap
             /\ stored => cache.ttl > 0 /\ caller[c].key \notin cache.keys
    <2>1. TypeOK /\ Spaced /\ Covered
        BY <1>1 DEF CacheInv
    <2>2. Suppress(c)
        BY <1>1, <2>1, OwnStep, Ways DEF Becomes
    <2>3. refreshAfter > 0 /\ ~Cached(caller[c].key)
        BY <2>2 DEF Suppress, Miss
    <2>4. refreshAfter \in Nat /\ sinceFetch \in Nat /\ cache.ttl \in Nat
        BY <2>1, Times DEF TypeOK
    <2>5. sinceFetch < Gap
        BY <2>1, <2>3, <2>4, Times DEF Spaced
    <2>6. stored => cache.ttl > 0
        BY <2>1, <2>3, <2>4 DEF Covered
    <2> QED
        BY <2>3, <2>5, <2>6 DEF Cached
<1>2. CacheInv /\ [Next]_vars =>
        [\A c \in Callers : Becomes(c, "refused") /\ caller[c].st = "queued" =>
            /\ sinceFetch < Gap
            /\ stored => cache.ttl > 0 /\ caller[c].key \notin cache.keys]_vars
    BY <1>1
<1> QED
    BY <1>2, CacheInvariant, PTL DEF Spec, RefusedForCause

===============================================================================
