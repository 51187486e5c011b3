------------------------------- MODULE JwksCache -------------------------------
(***************************************************************************)
(* The signing keys behind identity verification: a cached key set with a  *)
(* lifetime, refreshed on a miss by one caller at a time, at a bounded     *)
(* rate, from an issuer that may rotate its keys at any moment.            *)
(*                                                                         *)
(* A caller looks a key up in the cache; on a miss it queues for the       *)
(* refresh mutex, looks again, and may then fetch the issuer's set over    *)
(* HTTP and store it.  Its request may be dropped at any await, and the    *)
(* mutex with it.  Time is kept as what is left of each lifetime.          *)
(***************************************************************************)
EXTENDS Naturals, Sequences

CONSTANTS
    Callers,     \* requests being authenticated at a time
    Keys,        \* key identifiers, published or not
    CacheTTL,    \* cache_ttl in ticks
    Interval,    \* MINIMUM_JWKS_REFRESH_INTERVAL in ticks
    FetchTime    \* request_timeout of a fetch in ticks

ASSUME TimesPositive == {CacheTTL, Interval, FetchTime} \subseteq Nat \ {0}

VARIABLES
    published,     \* the keys the issuer serves now
    cache,         \* the cached key set, and what is left of its life
    refreshAfter,  \* ticks before the next refresh is permitted
    queue,         \* callers at the refresh mutex, the first one holding it
    caller,        \* caller[c]: where the verification in c is
    since,         \* since[k]: ticks since k was last published (a history)
    sinceFetch,    \* ticks since the last fetch began (a history)
    stored         \* the last fetch that began has been stored (a history)

histories == <<since, sinceFetch, stored>>
vars == <<published, cache, refreshAfter, queue, caller, histories>>

\* How long a fetch puts off the next one.
\* (Variant: the lifetime of the cached set does not limit it.)
GapUnclamped == Interval
Gap == IF Interval < CacheTTL THEN Interval ELSE CacheTTL
SinceMax == CacheTTL + FetchTime

\* A verification: asked for key; waiting for the mutex; fetching, with left
\* ticks to go; fetched, with the set it got; ended.
Ended == {"idle", "accepted", "refused"}
CallerRecords ==
    [st : Ended \cup {"asked", "queued", "fetching", "fetched"}, key : Keys,
     left : 0..FetchTime, got : SUBSET Keys]

TypeOK ==
    /\ published \in SUBSET Keys
    /\ cache \in [keys : SUBSET Keys, ttl : 0..CacheTTL]
    /\ refreshAfter \in 0..Gap
    /\ queue \in Seq(Callers)
    /\ caller \in [Callers -> CallerRecords]
    /\ since \in [Keys -> 0..SinceMax]
    /\ sinceFetch \in 0..Gap
    /\ stored \in BOOLEAN

Init ==
    /\ published \in SUBSET Keys
    /\ cache = [keys |-> {}, ttl |-> 0]
    /\ refreshAfter = 0
    /\ queue = <<>>
    /\ caller \in [Callers -> [st : {"idle"}, key : Keys, left : {0}, got : {{}}]]
    /\ since = [k \in Keys |-> IF k \in published THEN 0 ELSE SinceMax]
    /\ sinceFetch = Gap
    /\ stored = FALSE

-------------------------------------------------------------------------------
(* One verification *)

\* cached_key finds k: an expired set is as good as none.
Cached(k) == cache.ttl > 0 /\ k \in cache.keys

Holds(c) == queue # <<>> /\ Head(queue) = c

\* c ends with verdict st.
End(c, st) ==
    caller' = [caller EXCEPT ![c].st = st, ![c].left = 0, ![c].got = {}]

\* It gives up the mutex or its place in the queue.
Without(q, i) == [j \in 1..Len(q) - 1 |-> IF j < i THEN q[j] ELSE q[j + 1]]
Leave(c, st) ==
    /\ End(c, st)
    /\ \E i \in 1..Len(queue) : queue[i] = c /\ queue' = Without(queue, i)

\* A token that names key k arrives.
Ask(c, k) ==
    /\ caller[c].st \in Ended
    /\ caller' = [caller EXCEPT ![c] =
                    [st |-> "asked", key |-> k, left |-> 0, got |-> {}]]
    /\ UNCHANGED <<published, cache, refreshAfter, queue, histories>>

\* The first look at the cache.
Lookup(c) ==
    /\ caller[c].st = "asked"
    /\ IF Cached(caller[c].key)
       THEN End(c, "accepted") /\ UNCHANGED queue
       ELSE /\ caller' = [caller EXCEPT ![c].st = "queued"]
            /\ queue' = Append(queue, c)
    /\ UNCHANGED <<published, cache, refreshAfter, histories>>

\* Holding the mutex, c finds that another caller has refreshed meanwhile.
Recheck(c) ==
    /\ caller[c].st = "queued" /\ Holds(c)
    /\ Cached(caller[c].key)
    /\ Leave(c, "accepted")
    /\ UNCHANGED <<published, cache, refreshAfter, histories>>

\* The holder c has looked again in vain.
Miss(c) == caller[c].st = "queued" /\ Holds(c) /\ ~Cached(caller[c].key)

\* The last fetch is too recent, successful or not.
Suppress(c) ==
    /\ Miss(c)
    /\ refreshAfter > 0
    /\ Leave(c, "refused")
    /\ UNCHANGED <<published, cache, refreshAfter, histories>>

\* A fetch begins; the next one is put off before its outcome is known.
\* (Variant: it is not put off.)
BeginFetchUnstamped(c) ==
    /\ Miss(c)
    /\ refreshAfter = 0
    /\ caller' = [caller EXCEPT ![c].st = "fetching", ![c].left = FetchTime]
    /\ sinceFetch' = 0 /\ stored' = FALSE
    /\ UNCHANGED <<published, cache, refreshAfter, queue, since>>
BeginFetch(c) ==
    /\ Miss(c)
    /\ refreshAfter = 0
    /\ refreshAfter' = Gap
    /\ caller' = [caller EXCEPT ![c].st = "fetching", ![c].left = FetchTime]
    /\ sinceFetch' = 0 /\ stored' = FALSE
    /\ UNCHANGED <<published, cache, queue, since>>

\* The issuer answers with what it publishes at that moment.
Answer(c) ==
    /\ caller[c].st = "fetching"
    /\ caller' = [caller EXCEPT ![c].st = "fetched", ![c].got = published]
    /\ UNCHANGED <<published, cache, refreshAfter, queue, histories>>

\* The answer has been read and becomes the cached set, whatever it contains.
\* (Variant: it extends the life of the set that was cached.)
StoreMerged(c) ==
    /\ caller[c].st = "fetched"
    /\ cache' = [keys |-> cache.keys \cup caller[c].got, ttl |-> CacheTTL]
    /\ Leave(c, IF caller[c].key \in caller[c].got THEN "accepted" ELSE "refused")
    /\ stored' = TRUE
    /\ UNCHANGED <<published, refreshAfter, since, sinceFetch>>
Store(c) ==
    /\ caller[c].st = "fetched"
    /\ cache' = [keys |-> caller[c].got, ttl |-> CacheTTL]
    /\ Leave(c, IF caller[c].key \in caller[c].got THEN "accepted" ELSE "refused")
    /\ stored' = TRUE
    /\ UNCHANGED <<published, refreshAfter, since, sinceFetch>>

\* No connection, a status that is no success, a body that breaks off, is too
\* long or is no key set: nothing is stored.
Fail(c) ==
    /\ caller[c].st \in {"fetching", "fetched"}
    /\ Leave(c, "refused")
    /\ UNCHANGED <<published, cache, refreshAfter, histories>>

\* The time of the fetch is over, its body included.
\* (Variant: the limit covers the wait for the answer's head only.)
TimeOutHead(c) ==
    /\ caller[c].st = "fetching" /\ caller[c].left = 0
    /\ Leave(c, "refused")
    /\ UNCHANGED <<published, cache, refreshAfter, histories>>
TimeOut(c) ==
    /\ caller[c].st \in {"fetching", "fetched"} /\ caller[c].left = 0
    /\ Leave(c, "refused")
    /\ UNCHANGED <<published, cache, refreshAfter, histories>>

\* The request is dropped while it waits or fetches.
Cancel(c) ==
    /\ caller[c].st \in {"queued", "fetching", "fetched"}
    /\ Leave(c, "idle")
    /\ UNCHANGED <<published, cache, refreshAfter, histories>>

-------------------------------------------------------------------------------
(* The issuer and the clock *)

Rotate(S) ==
    /\ published' = S
    /\ since' = [k \in Keys |-> IF k \in S THEN 0 ELSE since[k]]
    /\ UNCHANGED <<cache, refreshAfter, queue, caller, sinceFetch, stored>>

Down(n) == IF n = 0 THEN 0 ELSE n - 1
UpTo(n, max) == IF n < max THEN n + 1 ELSE max

\* A tick, which no fetch outlives its time to see.
Tick ==
    /\ \A c \in Callers :
        caller[c].st \in {"fetching", "fetched"} => caller[c].left > 0
    /\ cache' = [cache EXCEPT !.ttl = Down(@)]
    /\ refreshAfter' = Down(refreshAfter)
    /\ caller' = [c \in Callers |-> [caller[c] EXCEPT !.left = Down(@)]]
    /\ since' = [k \in Keys |->
                    IF k \in published THEN 0 ELSE UpTo(since[k], SinceMax)]
    /\ sinceFetch' = UpTo(sinceFetch, Gap)
    /\ UNCHANGED <<published, queue, stored>>

CallerStep(c) ==
    \/ \E k \in Keys : Ask(c, k)
    \/ Lookup(c) \/ Recheck(c) \/ Suppress(c) \/ BeginFetch(c)
    \/ Answer(c) \/ Store(c) \/ Fail(c) \/ TimeOut(c) \/ Cancel(c)
Next ==
    \/ \E c \in Callers : CallerStep(c)
    \/ \E S \in SUBSET Keys : Rotate(S)
    \/ Tick

Spec == Init /\ [][Next]_vars

\* The runtime polls the tasks that can go on, the timer of a fetch fires, and
\* time passes.  The issuer may never answer, and nobody has to rotate or ask.
FairSpec ==
    /\ Spec
    /\ WF_vars(Tick)
    /\ \A c \in Callers :
        /\ WF_vars(Lookup(c)) /\ WF_vars(Recheck(c)) /\ WF_vars(Suppress(c))
        /\ WF_vars(BeginFetch(c)) /\ WF_vars(TimeOut(c))

-------------------------------------------------------------------------------
(* Correctness *)

Becomes(c, st) == caller[c].st # st /\ caller'[c].st = st

\* A key is trusted only if the issuer published it within the last lifetime of
\* a cached set plus the time of a fetch, however the fetch that saw it, its
\* storage and the look-ups of other callers interleave with a rotation.
BoundedTrust ==
    [][\A c \in Callers : Becomes(c, "accepted") =>
            since[caller[c].key] < CacheTTL + FetchTime]_vars

\* A caller is refused without asking the issuer only because it was asked less
\* than the refresh interval ago, and then, if that fetch was stored, the set it
\* brought is still alive and lacks the key.  So refusals put no refresh off, and
\* no time passes in which a set has run out and may not be replaced (key, the
\* interval limited to cache_ttl).
RefusedForCause ==
    [][\A c \in Callers : Becomes(c, "refused") /\ caller[c].st = "queued" =>
            /\ sinceFetch < Gap
            /\ stored => cache.ttl > 0 /\ caller[c].key \notin cache.keys]_vars

\* The issuer is asked by one caller at a time, and no sooner than the refresh
\* interval after the last time, whatever became of that fetch: failed, lost to
\* a dropped request, or answered without the key (docs/configuration.md:76-78).
Fetching == {c \in Callers : caller[c].st \in {"fetching", "fetched"}}
FetchesBounded ==
    [][\A c \in Callers : Becomes(c, "fetching") =>
            Fetching = {} /\ sinceFetch >= Gap]_vars

\* Every caller is answered, in the order of the mutex's queue, though the
\* issuer never answers and callers are dropped while they hold the mutex.
CallersAnswered ==
    \A c \in Callers :
        caller[c].st \notin Ended ~> caller[c].st \in Ended

===============================================================================
