----------------------------- MODULE TransferFiles -----------------------------
(***************************************************************************)
(* The in-memory store of credential files: a registry of entries under    *)
(* one lock, a semaphore of stored bytes, short-lived grants, the HTTP     *)
(* transfers that use them, the tools that publish and take files, and     *)
(* the task that expires them.                                             *)
(*                                                                         *)
(* Every operation runs under the registry's lock and so is one step.      *)
(* What is not atomic is what surrounds it: a transfer authenticates, then *)
(* waits for a permit and for its body, then checks its budget, then       *)
(* calls the store; a tool checks its budget and calls the store a little  *)
(* later, and more than once.  Time is kept as what is left of each        *)
(* lifetime.                                                               *)
(***************************************************************************)
EXTENDS Naturals, Sequences, FiniteSets, FiniteSetsExt

CONSTANTS
    Files,        \* identifiers random_id may yield, none of them twice
    Owners,       \* verified subjects
    Transfers,    \* HTTP transfers under way at a time
    Sizes,        \* sizes in bytes of the files that occur
    Capacity,     \* MAX_STORED_BYTES
    MaxEntries,   \* MAX_ENTRIES
    FileTTL,      \* FILE_TTL in ticks
    GrantTTL,     \* GRANT_TTL in ticks
    MaxTokens,    \* bound of the model: grants issued per file
    None          \* no file, no owner

ASSUME BoundsPositive ==
    {Capacity, MaxEntries, FileTTL, GrantTTL, MaxTokens} \subseteq Nat \ {0}
ASSUME SizesNatural == Sizes \subseteq Nat
ASSUME NoneIsNone == None \notin Files \cup Owners

VARIABLES
    entry,      \* entry[f]: the registry's entry under f, NoEntry if none
    capacity,   \* permits left in the semaphore of stored bytes
    granted,    \* granted[f]: the subjects given a grant for f, in order
    receivers,  \* receivers[f]: the subjects the bytes of f left the store for
    ownerOf,    \* ownerOf[f]: the subject f was made for, None before
    xfer,       \* xfer[t]: the HTTP transfer t
    tool,       \* tool[o]: are calls of o past their budget check?
    cleaner,    \* is expire_until_shutdown still running?
    shutdown    \* the process-wide cancellation token

historyVars == <<granted, receivers, ownerOf>>
vars == <<entry, capacity, granted, receivers, ownerOf, xfer, tool, cleaner,
          shutdown>>

\* An entry: awaiting its upload or stored; ttl, what is left of its life; the
\* number of its grant (0 for none), with direction and life; may tools take it?
Entries ==
    [st : {"none", "awaiting", "stored"}, size : Sizes \cup {0},
     ttl : 0..FileTTL, grant : 0..MaxTokens, dir : {"upload", "download"},
     gttl : 0..GrantTTL, uploaded : BOOLEAN]
NoEntry ==
    [st |-> "none", size |-> 0, ttl |-> 0, grant |-> 0, dir |-> "upload",
     gttl |-> 0, uploaded |-> FALSE]

\* A transfer: authenticated for a file and a grant; past its budget check with
\* the body it received; streaming a download.  size is that of its bytes.
Stages == {"idle", "admitted", "checked", "streaming"}
TransferRecords ==
    [st : Stages, file : Files \cup {None}, grant : 0..MaxTokens,
     dir : {"upload", "download"}, size : Sizes \cup {0}]
Idle == [st |-> "idle", file |-> None, grant |-> 0, dir |-> "upload", size |-> 0]

\* The range of capacity is part of StoreBounded.
TypeOK ==
    /\ entry \in [Files -> Entries]
    /\ granted \in [Files -> Seq(Owners)]
    /\ \A f \in Files : Len(granted[f]) <= MaxTokens
    /\ receivers \in [Files -> SUBSET Owners]
    /\ ownerOf \in [Files -> Owners \cup {None}]
    /\ xfer \in [Transfers -> TransferRecords]
    /\ tool \in [Owners -> BOOLEAN]
    /\ cleaner \in BOOLEAN
    /\ shutdown \in BOOLEAN

Init ==
    /\ entry = [f \in Files |-> NoEntry]
    /\ capacity = Capacity
    /\ granted = [f \in Files |-> <<>>]
    /\ receivers = [f \in Files |-> {}]
    /\ ownerOf = [f \in Files |-> None]
    /\ xfer = [t \in Transfers |-> Idle]
    /\ tool = [o \in Owners |-> FALSE]
    /\ cleaner = TRUE
    /\ shutdown = FALSE

-------------------------------------------------------------------------------
(* What every operation does first, under the lock *)

\* The registry without its expired entries: `prune`.
Swept == [f \in Files |-> IF entry[f].ttl = 0 THEN NoEntry ELSE entry[f]]

Present(es) == {f \in Files : es[f].st # "none"}

\* The bytes a registry holds, and those that come free by pruning it: a dropped
\* entry drops its StoredBytes and so returns their permits.
Held(es) == SumFunctionOnSet([f \in Files |-> es[f].size], Present(es))
Available == capacity + (Held(entry) - Held(Swept))

\* An operation that fails has pruned all the same.
PruneOnly ==
    /\ entry' = Swept
    /\ capacity' = Available

\* The registry after pruning, with e under f, n bytes leaving the free capacity.
Put(f, e, n) ==
    /\ entry' = [Swept EXCEPT ![f] = e]
    /\ capacity' = Available - n

HasRoom == Cardinality(Present(Swept)) < MaxEntries   \* admit

\* Is grant number g the entry's own, for this direction, and alive?
\* (Variants: any grant of that direction will do; its life was checked before.)
ValidAnyGrant(e, g, d) == e.grant > 0 /\ e.dir = d /\ e.gttl > 0
ValidDeadGrant(e, g, d) == e.grant = g /\ e.dir = d
ValidGrant(e, g, d) == e.grant = g /\ e.dir = d /\ e.gttl > 0

-------------------------------------------------------------------------------
(* HTTP transfers *)

\* A request with grant g for f passes `authenticate_transfer` and is admitted.
\* This is the only look at the grant before the body has been received.
Authenticate(t, f, g, d) ==
    /\ xfer[t].st = "idle"
    /\ PruneOnly
    /\ \/ /\ g \in 1..Len(granted[f]) /\ ValidGrant(Swept[f], g, d)
          /\ Swept[f].st = IF d = "download" THEN "stored" ELSE "awaiting"
          /\ ~shutdown
          /\ xfer' = [xfer EXCEPT ![t] = [st |-> "admitted", file |-> f,
                                          grant |-> g, dir |-> d, size |-> 0]]
       \/ UNCHANGED xfer
    /\ UNCHANGED <<historyVars, tool, cleaner, shutdown>>

\* The body is here, within its bound, and the budget still good.
Proceed(t, n) ==
    /\ xfer[t].st = "admitted"
    /\ ~shutdown
    /\ xfer[t].dir = "download" => n = 0
    /\ xfer' = [xfer EXCEPT ![t].st = "checked", ![t].size = n]
    /\ UNCHANGED <<entry, capacity, historyVars, tool, cleaner, shutdown>>

\* The request ends early: deadline, hang-up, shutdown, body too large.
Abandon(t) ==
    /\ xfer[t].st = "admitted"
    /\ xfer' = [xfer EXCEPT ![t] = Idle]
    /\ UNCHANGED <<entry, capacity, historyVars, tool, cleaner, shutdown>>

\* The upload completes the file; or it fails, as an upload that does not match
\* its declared size and digest always does, and leaves the grant in place.
Upload(t) ==
    LET f == xfer[t].file
        e == Swept[f]
        n == xfer[t].size
    IN  /\ xfer[t].st = "checked" /\ xfer[t].dir = "upload"
        /\ \/ /\ e.st = "awaiting" /\ ValidGrant(e, xfer[t].grant, "upload")
              /\ n <= Available
              /\ Put(f, [e EXCEPT !.st = "stored", !.size = n,
                                  !.grant = 0, !.gttl = 0], n)
           \/ PruneOnly
        /\ xfer' = [xfer EXCEPT ![t] = Idle]
        /\ UNCHANGED <<historyVars, tool, cleaner, shutdown>>

\* The bytes of f go to the subject that got the grant it is asked with.
HandTo(f, o) ==
    /\ receivers' = [receivers EXCEPT ![f] = @ \cup {o}]
    /\ UNCHANGED <<granted, ownerOf>>

\* A valid download removes the entry; its bytes, still counted against the
\* capacity, become the response body.
\* (Variant: the permits stay with the entry that is dropped.)
DownloadReleasing(t) ==
    LET f == xfer[t].file
        e == Swept[f]
        valid == e.st = "stored" /\ ValidGrant(e, xfer[t].grant, "download")
    IN  /\ xfer[t].st = "checked" /\ xfer[t].dir = "download"
        /\ \/ /\ valid
              /\ entry' = [Swept EXCEPT ![f] = NoEntry]
              /\ capacity' = Available + e.size
              /\ HandTo(f, granted[f][xfer[t].grant])
              /\ xfer' = [xfer EXCEPT ![t].st = "streaming", ![t].size = e.size]
           \/ /\ ~valid
              /\ PruneOnly
              /\ xfer' = [xfer EXCEPT ![t] = Idle]
              /\ UNCHANGED historyVars
        /\ UNCHANGED <<tool, cleaner, shutdown>>
Download(t) ==
    LET f == xfer[t].file
        e == Swept[f]
        valid == e.st = "stored" /\ ValidGrant(e, xfer[t].grant, "download")
    IN  /\ xfer[t].st = "checked" /\ xfer[t].dir = "download"
        /\ \/ /\ valid
              /\ Put(f, NoEntry, 0)
              /\ HandTo(f, granted[f][xfer[t].grant])
              /\ xfer' = [xfer EXCEPT ![t].st = "streaming", ![t].size = e.size]
           \/ /\ ~valid
              /\ PruneOnly
              /\ xfer' = [xfer EXCEPT ![t] = Idle]
              /\ UNCHANGED historyVars
        /\ UNCHANGED <<tool, cleaner, shutdown>>

\* The body is read to its end or dropped with its connection or its deadline.
DropBody(t) ==
    /\ xfer[t].st = "streaming"
    /\ capacity' = capacity + xfer[t].size
    /\ xfer' = [xfer EXCEPT ![t] = Idle]
    /\ UNCHANGED <<entry, historyVars, tool, cleaner, shutdown>>

-------------------------------------------------------------------------------
(* Tools and native file methods, for a verified subject o *)

\* The first of the calls of o that are under way passes its last budget check.
ToolChecked(o) ==
    /\ ~tool[o]
    /\ ~shutdown
    /\ tool' = [tool EXCEPT ![o] = TRUE]
    /\ UNCHANGED <<entry, capacity, historyVars, xfer, cleaner, shutdown>>

\* One of them uses the store. It may do so again: a page of operations publishes
\* up to two documents of each.
ToolUses(o) ==
    /\ tool[o]
    /\ UNCHANGED <<xfer, tool, cleaner, shutdown>>

\* The last of them is over.
ToolDone(o) ==
    /\ tool[o]
    /\ tool' = [tool EXCEPT ![o] = FALSE]
    /\ UNCHANGED <<entry, capacity, historyVars, xfer, cleaner, shutdown>>

\* f is a fresh identifier, used now for a file of o with grants gs.
Bear(f, o, gs) ==
    /\ ownerOf[f] = None
    /\ ownerOf' = [ownerOf EXCEPT ![f] = o]
    /\ granted' = [granted EXCEPT ![f] = gs]
    /\ UNCHANGED receivers

AuthorizeUpload(o, f) ==
    /\ ToolUses(o)
    /\ HasRoom
    /\ Put(f, [st |-> "awaiting", size |-> 0, ttl |-> FileTTL, grant |-> 1,
               dir |-> "upload", gttl |-> GrantTTL, uploaded |-> TRUE], 0)
    /\ Bear(f, o, <<o>>)

PublishFile(o, f, n) ==
    /\ ToolUses(o)
    /\ HasRoom /\ n <= Available
    /\ Put(f, [st |-> "stored", size |-> n, ttl |-> FileTTL, grant |-> 0,
               dir |-> "download", gttl |-> 0, uploaded |-> FALSE], n)
    /\ Bear(f, o, <<>>)

\* A new grant takes the place of any other.
AuthorizeDownload(o, f) ==
    /\ ToolUses(o)
    /\ ownerOf[f] = o /\ Swept[f].st = "stored"
    /\ Len(granted[f]) < MaxTokens
    /\ Put(f, [Swept[f] EXCEPT !.grant = Len(granted[f]) + 1,
                               !.dir = "download", !.gttl = GrantTTL], 0)
    /\ granted' = [granted EXCEPT ![f] = Append(@, o)]
    /\ UNCHANGED <<receivers, ownerOf>>

\* A tool consumes a completed upload of its own subject.
\* (Variant: the entry is read in place.)
TakeInPlace(o, f) ==
    /\ ToolUses(o)
    /\ ownerOf[f] = o /\ Swept[f].uploaded /\ Swept[f].st = "stored"
    /\ PruneOnly
    /\ HandTo(f, o)
Take(o, f) ==
    /\ ToolUses(o)
    /\ ownerOf[f] = o /\ Swept[f].uploaded /\ Swept[f].st = "stored"
    /\ entry' = [Swept EXCEPT ![f] = NoEntry]
    /\ capacity' = Available + Swept[f].size
    /\ HandTo(f, o)

\* The store refuses: no room, no capacity, or a file that is unavailable.
ToolRefused(o) ==
    /\ ToolUses(o)
    /\ PruneOnly
    /\ UNCHANGED historyVars

-------------------------------------------------------------------------------
(* Time, the cleanup task, shutdown *)

\* A tick of the clock.
Pred(n) == IF n = 0 THEN 0 ELSE n - 1
Tick ==
    /\ \E f \in Files : entry[f].ttl > 0 \/ entry[f].gttl > 0
    /\ entry' = [f \in Files |-> [entry[f] EXCEPT !.ttl = Pred(@), !.gttl = Pred(@)]]
    /\ UNCHANGED <<capacity, historyVars, xfer, tool, cleaner, shutdown>>

\* The cleanup task: prune now and then; on shutdown clear once, and return.
\* (Variant: it also returns when it finds nothing to keep.)
ExpireWhileUsed ==
    /\ cleaner /\ ~shutdown
    /\ PruneOnly
    /\ cleaner' = (Present(Swept) # {})
    /\ UNCHANGED <<historyVars, xfer, tool, shutdown>>
Expire ==
    /\ cleaner /\ ~shutdown
    /\ PruneOnly
    /\ UNCHANGED <<historyVars, xfer, tool, cleaner, shutdown>>
Clear ==
    /\ cleaner /\ shutdown
    /\ entry' = [f \in Files |-> NoEntry]
    /\ capacity' = capacity + Held(entry)
    /\ cleaner' = FALSE
    /\ UNCHANGED <<historyVars, xfer, tool, shutdown>>

Shutdown ==
    /\ ~shutdown
    /\ shutdown' = TRUE
    /\ UNCHANGED <<entry, capacity, historyVars, xfer, tool, cleaner>>

TransferStep(t) ==
    \/ \E f \in Files, g \in 1..MaxTokens, d \in {"upload", "download"} :
            Authenticate(t, f, g, d)
    \/ \E n \in Sizes \cup {0} : Proceed(t, n)
    \/ Abandon(t) \/ Upload(t) \/ Download(t) \/ DropBody(t)
ToolStep(o) ==
    \/ ToolChecked(o) \/ ToolRefused(o) \/ ToolDone(o)
    \/ \E f \in Files :
        \/ AuthorizeUpload(o, f) \/ AuthorizeDownload(o, f) \/ Take(o, f)
        \/ \E n \in Sizes : PublishFile(o, f, n)
Next ==
    \/ \E t \in Transfers : TransferStep(t)
    \/ \E o \in Owners : ToolStep(o)
    \/ Tick \/ Expire \/ Clear \/ Shutdown

Spec == Init /\ [][Next]_vars

\* Time passes and the cleanup task runs; nobody has to transfer anything.
FairSpec == Spec /\ WF_vars(Tick) /\ WF_vars(Expire) /\ WF_vars(Clear)

-------------------------------------------------------------------------------
(* Correctness *)

\* The bytes held anywhere, in entries and in the responses that stream them,
\* never exceed the store's bound and are exactly the permits taken, on every
\* path by which bytes move, are consumed, expire or are cleared; and the
\* registry never has more entries than it admits (MAX_STORED_BYTES, MAX_ENTRIES).
Streaming == {t \in Transfers : xfer[t].st = "streaming"}
Streamed == SumFunctionOnSet([t \in Transfers |-> xfer[t].size], Streaming)
StoreBounded ==
    /\ capacity + Held(entry) + Streamed = Capacity
    /\ capacity >= 0
    /\ Cardinality(Present(entry)) <= MaxEntries

\* Of all the grants made for a file only the last one starts its download, and
\* it was made for the owner: a request that authenticated with a grant another
\* one has replaced meanwhile gets nothing (authorize_download, valid_grant).
LatestGrantOnly ==
    \A t \in Streaming :
        LET f == xfer[t].file
        IN  /\ xfer[t].grant = Len(granted[f])
            /\ granted[f][xfer[t].grant] = ownerOf[f]

\* A transfer's grant and file are alive when the store honours the transfer,
\* however long its body took to arrive after it authenticated: what completes
\* an upload or starts a download finds neither expired (upload, download).
Honoured(t) ==
    /\ xfer[t].st = "checked"
    /\ \/ xfer'[t].st = "streaming"
       \/ xfer[t].dir = "upload" /\ entry'[xfer[t].file].st = "stored"
                                 /\ entry[xfer[t].file].st = "awaiting"
FreshUse ==
    [][\A t \in Transfers : Honoured(t) =>
            entry[xfer[t].file].ttl > 0 /\ entry[xfer[t].file].gttl > 0]_vars

\* The store keeps the promises of a one-shot file: content fixed when it is
\* completed, handed out once, to the owner, by a download or a tool but not
\* both, and gone for good afterwards (docs/file-transfers.md:75-80).
Phase ==
    [f \in Files |->
        CASE entry[f].st # "none" -> entry[f].st
          [] entry[f].st = "none" /\ ownerOf[f] = None -> "unborn"
          [] entry[f].st = "none" /\ ownerOf[f] # None ->
                IF receivers[f] # {} THEN "handed" ELSE "erased"]
Content ==
    [f \in Files |-> IF entry[f].st = "stored" THEN {entry[f].size} ELSE {}]
OneShot ==
    INSTANCE OneShotFile WITH
        Owners <- Owners \cup {None}, Contents <- Sizes \cup {0},
        phase <- Phase, owner <- ownerOf, content <- Content,
        receiver <- receivers
ImplementsOneShot == OneShot!OneShotSpec

\* Whatever nobody fetches is erased in the end, up to a shutdown, though no
\* operation ever comes again to prune it (expire_until_shutdown).
ExpiredErased ==
    \A f \in Files :
        entry[f].st # "none" ~> entry[f].st = "none" \/ shutdown

\* Once the cleanup task has cleared the registry at shutdown nothing is in it:
\* what docs/file-transfers.md:83-84 says of a shutdown.
ErasedOnShutdown == ~cleaner => Present(entry) = {}

===============================================================================
