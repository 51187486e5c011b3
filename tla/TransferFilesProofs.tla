---------------------------- MODULE TransferFilesProofs ----------------------------
(***************************************************************************)
(* For any files, subjects, transfers and bounds: every stored byte has    *)
(* its permit, only the last grant of a file starts its download, what the *)
(* store honours is alive, and the store implements the one-shot file.     *)
(*                                                                         *)
(* A step deals with each file in one of a few ways, whichever operation   *)
(* it is; each way keeps what is known of the file and of the transfers    *)
(* that have to do with it, and is a step of the one-shot file.            *)
(*                                                                         *)
(* The stored bytes are a sum over a finite set, which is reasoned about   *)
(* by a smallest set for which a claim fails: adding one element to a sum  *)
(* is all that the operations need to know of it.                          *)
(*                                                                         *)
(* A file's end is never put off; and after the clearing at shutdown only  *)
(* calls that were past their check still put one there, and none leaves.  *)
(***************************************************************************)
EXTENDS TransferFiles, FiniteSetTheorems, TLAPS

\* What is known of a file with entry e, owner o, grants gs and receivers rs.
FileOK(e, o, gs, rs) ==
    /\ e.st # "none" => o # None /\ rs = {}
    /\ e.st = "none" => e.grant = 0
    /\ o = None => gs = <<>> /\ rs = {}
    /\ rs \subseteq {o}
    /\ e.grant # 0 => e.grant = Len(gs) /\ gs[Len(gs)] = o
FileInv(f) == FileOK(entry[f], ownerOf[f], granted[f], receivers[f])

\* What is known of a transfer: its grant was made for its file, and if it has the
\* bytes they were the owner's, and the store has no more of the file.
GrantMade(x) == x.file \in Files /\ x.grant \in 1..Len(granted[x.file])
LastGrant(x) ==
    /\ x.grant = Len(granted[x.file])
    /\ granted[x.file][x.grant] = ownerOf[x.file]
    /\ entry[x.file].st = "none" /\ ownerOf[x.file] # None
TransferInv(t) ==
    /\ xfer[t].st # "idle" => GrantMade(xfer[t])
    /\ xfer[t].st = "streaming" => LastGrant(xfer[t])

StoreInv ==
    /\ TypeOK
    /\ \A f \in Files : FileInv(f)
    /\ \A t \in Transfers : TransferInv(t)

\* What a step may do with a file. A grant may be added while the file stays stored.
SameOwner(f) == ownerOf'[f] = ownerOf[f]
Stays(f) ==
    /\ entry'[f].st = entry[f].st
    /\ entry[f].st = "stored" => entry'[f].size = entry[f].size
    /\ SameOwner(f) /\ receivers'[f] = receivers[f]
    /\ \/ granted'[f] = granted[f]
       \/ entry[f].st = "stored" /\ Len(granted'[f]) = Len(granted[f]) + 1
IsErased(f) ==
    /\ entry[f].st # "none" /\ entry'[f].st = "none"
    /\ SameOwner(f) /\ receivers'[f] = receivers[f] /\ granted'[f] = granted[f]
IsBorn(f) ==
    /\ ownerOf[f] = None /\ ownerOf'[f] \in Owners
    /\ entry'[f].st \in {"awaiting", "stored"}
    /\ receivers'[f] = receivers[f]
IsCompleted(f) ==
    /\ entry[f].st = "awaiting" /\ entry'[f].st = "stored"
    /\ entry[f].ttl > 0 /\ entry[f].gttl > 0
    /\ SameOwner(f) /\ receivers'[f] = receivers[f] /\ granted'[f] = granted[f]
IsHanded(f) ==
    /\ entry[f].st = "stored" /\ entry'[f].st = "none"
    /\ SameOwner(f) /\ receivers'[f] = {ownerOf[f]} /\ granted'[f] = granted[f]
Fate(f) == Stays(f) \/ IsErased(f) \/ IsBorn(f) \/ IsCompleted(f) \/ IsHanded(f)

FilesKept == \A f \in Files : Fate(f) /\ FileInv(f)'

-------------------------------------------------------------------------------
(* Records and pruning *)

LEMMA Numbers ==
    /\ FileTTL \in Nat /\ FileTTL > 0 /\ GrantTTL \in Nat /\ GrantTTL > 0
    /\ MaxTokens \in Nat /\ MaxTokens > 0
BY BoundsPositive

\* The records that the operations make.
LEMMA Made ==
    /\ NoEntry \in Entries /\ NoEntry.st = "none" /\ NoEntry.grant = 0 /\ NoEntry.size = 0
    /\ NoEntry.ttl = 0 /\ NoEntry.gttl = 0
    /\ Idle \in TransferRecords /\ Idle.st = "idle"
BY Numbers DEF NoEntry, Entries, Idle, TransferRecords, Stages

\* The parts of an entry.
LEMMA EntryParts ==
    ASSUME NEW e \in Entries
    PROVE  /\ e.st \in {"none", "awaiting", "stored"} /\ e.size \in Sizes \cup {0}
           /\ e.ttl \in 0..FileTTL /\ e.grant \in 0..MaxTokens
           /\ e.dir \in {"upload", "download"} /\ e.gttl \in 0..GrantTTL
           /\ e.uploaded \in BOOLEAN
BY DEF Entries

LEMMA TransferParts ==
    ASSUME NEW x \in TransferRecords
    PROVE  /\ x.st \in Stages /\ x.file \in Files \cup {None} /\ x.grant \in 0..MaxTokens
           /\ x.dir \in {"upload", "download"} /\ x.size \in Sizes \cup {0}
BY DEF TransferRecords

LEMMA SweptAt ==
    ASSUME TypeOK
    PROVE  /\ Swept \in [Files -> Entries]
           /\ \A f \in Files :
                /\ Swept[f] = IF entry[f].ttl = 0 THEN NoEntry ELSE entry[f]
                /\ Swept[f].st # "none" => Swept[f] = entry[f] /\ entry[f].ttl > 0
<1>1. entry \in [Files -> Entries]
  BY DEF TypeOK
<1>2. ASSUME NEW f \in Files
      PROVE  /\ Swept[f] = IF entry[f].ttl = 0 THEN NoEntry ELSE entry[f]
             /\ Swept[f] \in Entries
             /\ Swept[f].st # "none" => Swept[f] = entry[f] /\ entry[f].ttl > 0
  <2>1. Swept[f] = IF entry[f].ttl = 0 THEN NoEntry ELSE entry[f]
    BY DEF Swept
  <2>2. entry[f] \in Entries /\ entry[f].ttl \in Nat
    BY <1>1, EntryParts, Numbers
  <2> QED BY <2>1, <2>2, Made
<1>3. Swept \in [Files -> Entries]
  BY <1>2 DEF Swept
<1> QED BY <1>2, <1>3

\* A file that is only pruned.
LEMMA PrunedFile ==
    ASSUME StoreInv, NEW f \in Files, entry'[f] = Swept[f],
           ownerOf'[f] = ownerOf[f], granted'[f] = granted[f], receivers'[f] = receivers[f]
    PROVE  Fate(f) /\ FileInv(f)'
<1>1. FileInv(f) /\ TypeOK
  BY DEF StoreInv
<1>2. entry'[f] = NoEntry \/ entry'[f] = entry[f]
  BY <1>1, SweptAt
<1>3. CASE entry'[f] = entry[f]
  BY <1>1, <1>3 DEF Fate, Stays, SameOwner, FileInv
<1>4. CASE entry'[f] = NoEntry
  <2>1. FileInv(f)'
    BY <1>1, <1>4, Made DEF FileInv, FileOK
  <2>2. CASE entry[f].st # "none"
    BY <1>4, <2>1, <2>2, Made DEF Fate, IsErased, SameOwner
  <2>3. CASE entry[f].st = "none"
    BY <1>4, <2>1, <2>3, Made DEF Fate, Stays, SameOwner
  <2> QED BY <2>2, <2>3
<1> QED BY <1>2, <1>3, <1>4

LEMMA PruneKeeps ==
    ASSUME StoreInv, entry' = Swept, UNCHANGED historyVars
    PROVE  FilesKept /\ entry' \in [Files -> Entries]
<1>1. entry' \in [Files -> Entries]
  BY SweptAt DEF StoreInv
<1>2. \A f \in Files : Fate(f) /\ FileInv(f)'
  BY PrunedFile DEF historyVars
<1> QED BY <1>1, <1>2 DEF FilesKept

LEMMA StillKeeps ==
    ASSUME StoreInv, UNCHANGED <<entry, historyVars>>
    PROVE  FilesKept
<1>1. ASSUME NEW f \in Files PROVE Fate(f) /\ FileInv(f)'
  BY DEF historyVars, StoreInv, Fate, Stays, SameOwner, FileInv
<1> QED BY <1>1 DEF FilesKept

\* An operation puts e under f, and prunes.
LEMMA PutKeeps ==
    ASSUME StoreInv, NEW f \in Files, NEW e \in Entries,
           entry' = [Swept EXCEPT ![f] = e],
           \A g \in Files \ {f} : /\ ownerOf'[g] = ownerOf[g] /\ granted'[g] = granted[g]
                                 /\ receivers'[g] = receivers[g],
           Fate(f), FileInv(f)'
    PROVE  FilesKept /\ entry' \in [Files -> Entries]
<1>1. Swept \in [Files -> Entries]
  BY SweptAt DEF StoreInv
<1>2. entry' \in [Files -> Entries] /\ \A g \in Files \ {f} : entry'[g] = Swept[g]
  BY <1>1
<1>3. \A g \in Files \ {f} : Fate(g) /\ FileInv(g)'
  BY <1>2, PrunedFile
<1> QED BY <1>2, <1>3 DEF FilesKept

\* The entry under f after that.
LEMMA PutAt ==
    ASSUME StoreInv, NEW f \in Files, NEW e, entry' = [Swept EXCEPT ![f] = e]
    PROVE  entry'[f] = e
BY SweptAt DEF StoreInv

-------------------------------------------------------------------------------
(* Transfers *)

\* A transfer that a step does not concern, or that it ends.
LEMMA OtherTransfer ==
    ASSUME StoreInv, FilesKept, TypeOK', NEW t \in Transfers,
           xfer'[t] = xfer[t] \/ xfer'[t] = Idle
    PROVE  TransferInv(t)'
<1>1. CASE xfer'[t] = Idle
  BY <1>1, Made DEF TransferInv
<1>2. CASE xfer'[t] = xfer[t] /\ xfer[t].st = "idle"
  BY <1>2 DEF TransferInv
<1>3. CASE xfer'[t] = xfer[t] /\ xfer[t].st # "idle"
  <2> DEFINE f == xfer[t].file
  <2>1. f \in Files /\ xfer[t].grant \in 1..Len(granted[f]) /\ TransferInv(t)
    BY <1>3 DEF StoreInv, TransferInv, GrantMade
  <2>2. Fate(f) /\ FileInv(f)
    BY <2>1 DEF FilesKept, StoreInv
  <2>3. granted[f] \in Seq(Owners) /\ granted'[f] \in Seq(Owners)
    BY <2>1 DEF StoreInv, TypeOK
  <2>4. Len(granted[f]) \in Nat /\ Len(granted'[f]) \in Nat /\ Len(granted[f]) > 0
    BY <2>1, <2>3
  <2>5. ownerOf[f] # None
    BY <2>2, <2>4 DEF FileInv, FileOK
  <2>6. Len(granted'[f]) >= Len(granted[f])
    BY <2>2, <2>4, <2>5 DEF Fate, Stays, IsErased, IsBorn, IsCompleted, IsHanded
  <2>7. GrantMade(xfer[t])'
    BY <1>3, <2>1, <2>4, <2>6 DEF GrantMade
  <2>8. ASSUME xfer[t].st = "streaming" PROVE LastGrant(xfer[t])'
    <3>1. LastGrant(xfer[t])
      BY <2>1, <2>8 DEF TransferInv
    <3>2. Stays(f)
      BY <2>2, <2>5, <3>1 DEF LastGrant, Fate, IsErased, IsBorn, IsCompleted, IsHanded
    <3>3. /\ entry'[f].st = entry[f].st /\ ownerOf'[f] = ownerOf[f]
          /\ granted'[f] = granted[f]
      BY <3>1, <3>2 DEF LastGrant, Stays, SameOwner
    <3> QED BY <1>3, <3>1, <3>3 DEF LastGrant
  <2> QED BY <1>3, <2>7, <2>8 DEF TransferInv
<1> QED BY <1>1, <1>2, <1>3

\* A step of transfer t.
LEMMA TransferKeeps ==
    ASSUME StoreInv, FilesKept, NEW t \in Transfers, NEW r \in TransferRecords,
           entry' \in [Files -> Entries], xfer' = [xfer EXCEPT ![t] = r],
           UNCHANGED <<granted, ownerOf, tool, cleaner, shutdown>>,
           receivers' \in [Files -> SUBSET Owners],
           TransferInv(t)' \/ r = Idle
    PROVE  StoreInv'
<1>1. xfer \in [Transfers -> TransferRecords]
  BY DEF StoreInv, TypeOK
<1>2. xfer' \in [Transfers -> TransferRecords]
  BY <1>1
<1>3. TypeOK'
  BY <1>2 DEF StoreInv, TypeOK
<1>4. ASSUME NEW s \in Transfers PROVE TransferInv(s)'
  <2>1. CASE s = t
    BY <1>1, <1>3, <2>1, OtherTransfer
  <2>2. CASE s # t
    BY <1>1, <1>3, <2>2, OtherTransfer
  <2> QED BY <2>1, <2>2
<1> QED BY <1>3, <1>4 DEF StoreInv, FilesKept

\* A step of something else.
LEMMA OtherKeeps ==
    ASSUME StoreInv, FilesKept, TypeOK', UNCHANGED xfer
    PROVE  StoreInv'
<1>1. \A t \in Transfers : TransferInv(t)'
  BY OtherTransfer
<1> QED BY <1>1 DEF StoreInv, FilesKept

LEMMA AuthenticateKeeps ==
    ASSUME StoreInv, NEW t \in Transfers, NEW f \in Files, NEW g \in 1..MaxTokens,
           NEW d \in {"upload", "download"}, Authenticate(t, f, g, d)
    PROVE  StoreInv' /\ FilesKept
<1>1. /\ entry' = Swept /\ UNCHANGED historyVars
      /\ UNCHANGED <<granted, ownerOf, receivers, tool, cleaner, shutdown>>
  BY DEF Authenticate, PruneOnly, historyVars
<1>2. FilesKept /\ entry' \in [Files -> Entries]
  BY <1>1, PruneKeeps
<1>3. TypeOK
  BY DEF StoreInv
<1>4. CASE UNCHANGED xfer
  <2>1. TypeOK'
    BY <1>1, <1>2, <1>3, <1>4 DEF TypeOK
  <2> QED BY <1>2, <1>4, <2>1, OtherKeeps
<1>5. CASE ~UNCHANGED xfer
  <2> DEFINE r == [st |-> "admitted", file |-> f, grant |-> g, dir |-> d, size |-> 0]
  <2>1. g \in 1..Len(granted[f]) /\ xfer' = [xfer EXCEPT ![t] = r]
    BY <1>5 DEF Authenticate
  <2>2. r \in TransferRecords
    BY Numbers DEF TransferRecords, Stages
  <2>3. xfer'[t] = r
    BY <1>3, <2>1 DEF TypeOK
  <2>4. TransferInv(t)'
    BY <1>1, <2>1, <2>3 DEF TransferInv, GrantMade
  <2>5. receivers' \in [Files -> SUBSET Owners]
    BY <1>1, <1>3 DEF TypeOK
  <2> HIDE DEF r
  <2> QED BY <1>1, <1>2, <2>1, <2>2, <2>4, <2>5, TransferKeeps
<1> QED BY <1>4, <1>5

\* A step that moves a transfer on and leaves the store alone.
LEMMA MoveKeeps ==
    ASSUME StoreInv, NEW t \in Transfers, NEW r \in TransferRecords,
           xfer' = [xfer EXCEPT ![t] = r],
           UNCHANGED <<entry, historyVars, tool, cleaner, shutdown>>,
           \/ r = Idle
           \/ /\ xfer[t].st # "idle" /\ r.st # "streaming"
              /\ r.file = xfer[t].file /\ r.grant = xfer[t].grant
    PROVE  StoreInv' /\ FilesKept
<1>1. TypeOK /\ UNCHANGED <<entry, granted, ownerOf, receivers, tool, cleaner, shutdown>>
  BY DEF StoreInv, historyVars
<1>2. FilesKept
  BY StillKeeps
<1>3. entry' \in [Files -> Entries] /\ receivers' \in [Files -> SUBSET Owners]
  BY <1>1 DEF TypeOK
<1>4. TransferInv(t)' \/ r = Idle
  <2>1. SUFFICES ASSUME r # Idle PROVE TransferInv(t)'
    OBVIOUS
  <2>2. xfer'[t] = r
    BY <1>1 DEF TypeOK
  <2>3. GrantMade(xfer[t])
    BY <2>1 DEF StoreInv, TransferInv
  <2> QED BY <1>1, <2>1, <2>2, <2>3 DEF TransferInv, GrantMade
<1> QED BY <1>1, <1>2, <1>3, <1>4, TransferKeeps

LEMMA ProceedKeeps ==
    ASSUME StoreInv, NEW t \in Transfers, NEW n \in Sizes \cup {0}, Proceed(t, n)
    PROVE  StoreInv' /\ FilesKept
<1> DEFINE r == [xfer[t] EXCEPT !.st = "checked", !.size = n]
<1>1. xfer \in [Transfers -> TransferRecords] /\ xfer[t] \in TransferRecords
  BY DEF StoreInv, TypeOK
<1>2. r \in TransferRecords
  BY <1>1 DEF TransferRecords, Stages
<1>3. r.st = "checked" /\ r.file = xfer[t].file /\ r.grant = xfer[t].grant
  BY <1>1 DEF TransferRecords
<1>4. xfer' = [xfer EXCEPT ![t] = r]
  BY <1>1 DEF Proceed, TransferRecords
<1>5. xfer[t].st # "idle" /\ UNCHANGED <<entry, historyVars, tool, cleaner, shutdown>>
  BY DEF Proceed
<1> HIDE DEF r
<1> QED BY <1>2, <1>3, <1>4, <1>5, MoveKeeps

LEMMA EndKeeps ==
    ASSUME StoreInv, NEW t \in Transfers, Abandon(t) \/ DropBody(t)
    PROVE  StoreInv' /\ FilesKept
<1>1. xfer' = [xfer EXCEPT ![t] = Idle]
      /\ UNCHANGED <<entry, historyVars, tool, cleaner, shutdown>>
  BY DEF Abandon, DropBody
<1> QED BY <1>1, Made, MoveKeeps

LEMMA UploadKeeps ==
    ASSUME StoreInv, NEW t \in Transfers, Upload(t)
    PROVE  StoreInv' /\ FilesKept
<1>6. PICK f, n : f = xfer[t].file /\ n = xfer[t].size
  OBVIOUS
<1> DEFINE e == [Swept[f] EXCEPT !.st = "stored", !.size = n, !.grant = 0, !.gttl = 0]
<1>1. /\ xfer[t].st = "checked" /\ xfer' = [xfer EXCEPT ![t] = Idle]
      /\ UNCHANGED historyVars
      /\ UNCHANGED <<granted, ownerOf, receivers, tool, cleaner, shutdown>>
  BY DEF Upload, historyVars
<1>2. TypeOK /\ xfer[t] \in TransferRecords
  BY DEF StoreInv, TypeOK
<1>3. /\ f \in Files /\ xfer[t].grant \in 1..Len(granted[f]) /\ FileInv(f)
      /\ n \in Sizes \cup {0}
  BY <1>1, <1>2, <1>6, TransferParts DEF StoreInv, TransferInv, GrantMade
<1>4. FilesKept /\ entry' \in [Files -> Entries]
  <2>1. CASE entry' = Swept
    BY <1>1, <2>1, PruneKeeps
  <2>2. CASE /\ entry' = [Swept EXCEPT ![f] = e]
             /\ Swept[f].st = "awaiting" /\ ValidGrant(Swept[f], xfer[t].grant, "upload")
    <3>1. Swept[f] = entry[f] /\ entry[f] \in Entries /\ entry[f].ttl > 0
      BY <1>2, <1>3, <2>2, SweptAt DEF TypeOK
    <3>2. entry[f].st = "awaiting" /\ entry[f].gttl > 0
      BY <2>2, <3>1 DEF ValidGrant
    <3>3. /\ e \in Entries /\ e.st = "stored" /\ e.grant = 0
      <4>1. PICK x \in Entries : x = entry[f]
        BY <3>1
      <4>2. 0 \in 0..MaxTokens /\ 0 \in 0..GrantTTL /\ n \in Sizes \cup {0}
        BY <1>3, Numbers
      <4>3. e = [x EXCEPT !.st = "stored", !.size = n, !.grant = 0, !.gttl = 0]
        BY <3>1, <4>1
      <4>4. e \in Entries
        BY <4>2, <4>3 DEF Entries
      <4>5. e.st = "stored" /\ e.grant = 0
        BY <4>3 DEF Entries
      <4> QED BY <4>4, <4>5
    <3>4. entry'[f] = e
      BY <1>3, <2>2, PutAt
    <3> HIDE DEF e
    <3>5. Fate(f)
      BY <1>1, <3>1, <3>2, <3>3, <3>4 DEF Fate, IsCompleted, SameOwner
    <3>6. FileInv(f)'
      <4>1. ownerOf[f] # None /\ receivers[f] = {}
        BY <1>3, <3>2 DEF FileInv, FileOK
      <4>2. FileOK(e, ownerOf[f], granted[f], receivers[f])
        BY <3>3, <4>1 DEF FileOK
      <4>3. /\ entry'[f] = e /\ ownerOf'[f] = ownerOf[f]
            /\ granted'[f] = granted[f] /\ receivers'[f] = receivers[f]
        BY <1>1, <3>4
      <4> QED BY <4>2, <4>3 DEF FileInv
    <3>7. \A g \in Files \ {f} : /\ ownerOf'[g] = ownerOf[g] /\ granted'[g] = granted[g]
                                /\ receivers'[g] = receivers[g]
      BY <1>1
    <3>8. entry' = [Swept EXCEPT ![f] = e]
      BY <2>2
    <3> QED BY <1>3, <3>3, <3>5, <3>6, <3>7, <3>8, PutKeeps
  <2> QED BY <1>6, <2>1, <2>2 DEF Upload, PruneOnly, Put
<1>5. receivers' \in [Files -> SUBSET Owners]
  BY <1>1, <1>2 DEF TypeOK
<1> QED BY <1>1, <1>4, <1>5, Made, TransferKeeps

\* What a valid grant says of the file it is used for.
LEMMA ValidMeansLast ==
    ASSUME StoreInv, NEW t \in Transfers, xfer[t].st = "checked",
           Swept[xfer[t].file].st = "stored",
           ValidGrant(Swept[xfer[t].file], xfer[t].grant, "download")
    PROVE  LET f == xfer[t].file
           IN  /\ f \in Files /\ Swept[f] = entry[f] /\ entry[f].st = "stored"
               /\ entry[f].ttl > 0 /\ entry[f].gttl > 0
               /\ xfer[t].grant = Len(granted[f])
               /\ granted[f][xfer[t].grant] = ownerOf[f]
               /\ ownerOf[f] \in Owners /\ receivers[f] = {}
<1> DEFINE f == xfer[t].file
<1>1. f \in Files /\ xfer[t].grant \in 1..Len(granted[f])
  BY DEF StoreInv, TransferInv, GrantMade
<1>2. Swept[f] = entry[f] /\ entry[f].ttl > 0 /\ FileInv(f) /\ TypeOK
  BY <1>1, SweptAt DEF StoreInv
<1>3. entry[f].grant = xfer[t].grant /\ entry[f].gttl > 0 /\ entry[f].st = "stored"
  BY <1>2 DEF ValidGrant
<1>4. xfer[t].grant # 0
  BY <1>1
<1>5. entry[f].grant = Len(granted[f]) /\ granted[f][Len(granted[f])] = ownerOf[f]
  BY <1>2, <1>3, <1>4 DEF FileInv, FileOK
<1>6. ownerOf[f] # None /\ receivers[f] = {} /\ ownerOf[f] \in Owners \cup {None}
  BY <1>1, <1>2, <1>3 DEF FileInv, FileOK, TypeOK
<1> QED BY <1>1, <1>2, <1>3, <1>5, <1>6

LEMMA DownloadKeeps ==
    ASSUME StoreInv, NEW t \in Transfers, Download(t)
    PROVE  StoreInv' /\ FilesKept
<1>5. PICK f : f = xfer[t].file
  OBVIOUS
<1> DEFINE valid == Swept[f].st = "stored" /\ ValidGrant(Swept[f], xfer[t].grant, "download")
<1>1. xfer[t].st = "checked" /\ UNCHANGED <<tool, cleaner, shutdown>>
  BY DEF Download
<1>2. TypeOK /\ xfer[t] \in TransferRecords /\ xfer \in [Transfers -> TransferRecords]
  BY DEF StoreInv, TypeOK
<1>3. CASE ~valid
  <2>1. /\ entry' = Swept /\ xfer' = [xfer EXCEPT ![t] = Idle]
        /\ UNCHANGED historyVars /\ UNCHANGED <<granted, ownerOf, receivers>>
    BY <1>3, <1>5 DEF Download, PruneOnly, historyVars
  <2>2. FilesKept /\ entry' \in [Files -> Entries]
    BY <2>1, PruneKeeps
  <2>3. receivers' \in [Files -> SUBSET Owners]
    BY <1>2, <2>1 DEF TypeOK
  <2> QED BY <1>1, <2>1, <2>2, <2>3, Made, TransferKeeps
<1>4. CASE valid
  <2>1. /\ f \in Files /\ Swept[f] = entry[f] /\ entry[f].st = "stored"
        /\ xfer[t].grant = Len(granted[f]) /\ granted[f][xfer[t].grant] = ownerOf[f]
        /\ ownerOf[f] \in Owners /\ receivers[f] = {} /\ entry[f].size \in Sizes \cup {0}
    BY <1>1, <1>2, <1>4, <1>5, ValidMeansLast, EntryParts DEF TypeOK
  <2> DEFINE r == [xfer[t] EXCEPT !.st = "streaming", !.size = entry[f].size]
  <2>2. /\ entry' = [Swept EXCEPT ![f] = NoEntry]
        /\ receivers' = [receivers EXCEPT ![f] = receivers[f] \cup {ownerOf[f]}]
        /\ UNCHANGED <<granted, ownerOf>>
    BY <1>4, <1>5, <2>1 DEF Download, Put, HandTo
  <2>3. xfer' = [xfer EXCEPT ![t] = r]
    <3>1. xfer' = [xfer EXCEPT ![t].st = "streaming", ![t].size = entry[f].size]
      BY <1>4, <1>5, <2>1 DEF Download
    <3> QED BY <1>2, <3>1 DEF TransferRecords
  <2>4. /\ r \in TransferRecords /\ r.st = "streaming"
        /\ r.file = f /\ r.grant = xfer[t].grant
    BY <1>2, <1>5, <2>1 DEF TransferRecords, Stages
  <2>5. receivers \in [Files -> SUBSET Owners] /\ ownerOf[f] # None
    BY <1>2, <2>1, NoneIsNone DEF TypeOK
  <2>6. /\ receivers' \in [Files -> SUBSET Owners] /\ receivers'[f] = {ownerOf[f]}
        /\ \A g \in Files \ {f} : receivers'[g] = receivers[g]
    BY <2>1, <2>2, <2>5
  <2>7. entry'[f] = NoEntry
    BY <2>1, <2>2, PutAt
  <2>8. Fate(f)
    BY <2>1, <2>2, <2>6, <2>7, Made DEF Fate, IsHanded, SameOwner
  <2>9. FileInv(f)'
    <3>1. FileOK(NoEntry, ownerOf[f], granted[f], {ownerOf[f]})
      BY <2>5, Made DEF FileOK
    <3> QED BY <2>2, <2>6, <2>7, <3>1 DEF FileInv
  <2>10. FilesKept /\ entry' \in [Files -> Entries]
    <3>1. \A g \in Files \ {f} : /\ ownerOf'[g] = ownerOf[g] /\ granted'[g] = granted[g]
                                /\ receivers'[g] = receivers[g]
      BY <2>2, <2>6
    <3>2. NoEntry \in Entries
      BY Made
    <3> QED BY <2>1, <2>2, <2>8, <2>9, <3>1, <3>2, PutKeeps
  <2>11. xfer'[t] = r
    BY <1>2, <2>3
  <2>12. GrantMade(xfer[t])
    BY <1>1 DEF StoreInv, TransferInv
  <2> HIDE DEF r
  <2>13. GrantMade(xfer[t])' /\ LastGrant(xfer[t])'
    <3>1. /\ xfer'[t].file = f /\ xfer'[t].grant = xfer[t].grant
      BY <2>4, <2>11
    <3>2. GrantMade(xfer[t])'
      BY <1>5, <2>2, <2>12, <3>1 DEF GrantMade
    <3>3. LastGrant(xfer[t])'
      BY <2>1, <2>2, <2>5, <2>7, <3>1, Made DEF LastGrant
    <3> QED BY <3>2, <3>3
  <2>14. TransferInv(t)'
    BY <2>13 DEF TransferInv
  <2> QED BY <1>1, <2>2, <2>3, <2>4, <2>6, <2>10, <2>14, TransferKeeps
<1> QED BY <1>3, <1>4

-------------------------------------------------------------------------------
(* Tools, time, the cleanup task, shutdown *)

\* What a step does to the variables of which the invariant knows the type only.
LEMMA ToolKeeps ==
    ASSUME StoreInv, FilesKept, UNCHANGED <<xfer, cleaner, shutdown>>,
           entry' \in [Files -> Entries], tool' \in [Owners -> BOOLEAN],
           granted' \in [Files -> Seq(Owners)],
           \A f \in Files : Len(granted'[f]) <= MaxTokens,
           receivers' \in [Files -> SUBSET Owners],
           ownerOf' \in [Files -> Owners \cup {None}]
    PROVE  StoreInv'
<1>1. TypeOK'
  BY DEF StoreInv, TypeOK
<1> QED BY <1>1, OtherKeeps

LEMMA ToolFlag ==
    ASSUME StoreInv, NEW o \in Owners,
           ToolUses(o) \/ ToolChecked(o) \/ ToolDone(o)
    PROVE  tool' \in [Owners -> BOOLEAN] /\ UNCHANGED <<xfer, cleaner, shutdown>>
BY DEF StoreInv, TypeOK, ToolUses, ToolChecked, ToolDone

LEMMA ToolIdleKeeps ==
    ASSUME StoreInv, NEW o \in Owners, ToolChecked(o) \/ ToolRefused(o) \/ ToolDone(o)
    PROVE  StoreInv' /\ FilesKept
<1>1. /\ tool' \in [Owners -> BOOLEAN] /\ UNCHANGED <<xfer, cleaner, shutdown>>
  BY ToolFlag DEF ToolRefused
<1>2. UNCHANGED historyVars /\ (UNCHANGED entry \/ entry' = Swept)
  BY DEF ToolChecked, ToolRefused, ToolDone, PruneOnly, historyVars
<1>3. FilesKept /\ entry' \in [Files -> Entries]
  <2>1. CASE UNCHANGED entry
    BY <1>2, <2>1, StillKeeps DEF StoreInv, TypeOK
  <2>2. CASE entry' = Swept
    BY <1>2, <2>2, PruneKeeps
  <2> QED BY <1>2, <2>1, <2>2
<1>4. /\ granted' \in [Files -> Seq(Owners)]
      /\ \A f \in Files : Len(granted'[f]) <= MaxTokens
      /\ receivers' \in [Files -> SUBSET Owners]
      /\ ownerOf' \in [Files -> Owners \cup {None}]
  BY <1>2 DEF StoreInv, TypeOK, historyVars
<1> QED BY <1>1, <1>3, <1>4, ToolKeeps

\* An operation makes a file, for o, with the grants gs.
LEMMA BearKeeps ==
    ASSUME StoreInv, NEW o \in Owners, NEW f \in Files, NEW gs \in Seq(Owners),
           NEW e \in Entries, NEW n, ToolUses(o), Put(f, e, n), Bear(f, o, gs),
           e.st \in {"awaiting", "stored"}, Len(gs) <= MaxTokens,
           e.grant # 0 => e.grant = Len(gs) /\ gs[Len(gs)] = o
    PROVE  StoreInv' /\ FilesKept
<1>1. /\ TypeOK /\ FileInv(f) /\ ownerOf[f] = None
      /\ entry' = [Swept EXCEPT ![f] = e]
      /\ ownerOf' = [ownerOf EXCEPT ![f] = o]
      /\ granted' = [granted EXCEPT ![f] = gs] /\ UNCHANGED receivers
  BY DEF StoreInv, Put, Bear
<1>2. /\ ownerOf'[f] = o /\ granted'[f] = gs /\ receivers'[f] = {}
      /\ o # None /\ entry'[f] = e
  BY <1>1, PutAt, NoneIsNone DEF TypeOK, FileInv, FileOK
<1>3. Fate(f)
  BY <1>1, <1>2 DEF Fate, IsBorn
<1>4. FileInv(f)'
  <2>1. FileOK(e, o, gs, {})
    BY <1>2 DEF FileOK
  <2> QED BY <1>2, <2>1 DEF FileInv
<1>5. \A g \in Files \ {f} : /\ ownerOf'[g] = ownerOf[g] /\ granted'[g] = granted[g]
                            /\ receivers'[g] = receivers[g]
  BY <1>1 DEF TypeOK
<1>6. FilesKept /\ entry' \in [Files -> Entries]
  BY <1>1, <1>3, <1>4, <1>5, PutKeeps
<1>7. /\ granted' \in [Files -> Seq(Owners)]
      /\ \A g \in Files : Len(granted'[g]) <= MaxTokens
      /\ receivers' \in [Files -> SUBSET Owners]
      /\ ownerOf' \in [Files -> Owners \cup {None}]
  BY <1>1 DEF TypeOK
<1>8. tool' \in [Owners -> BOOLEAN] /\ UNCHANGED <<xfer, cleaner, shutdown>>
  BY ToolFlag
<1> QED BY <1>6, <1>7, <1>8, ToolKeeps

LEMMA AuthorizeUploadKeeps ==
    ASSUME StoreInv, NEW o \in Owners, NEW f \in Files, AuthorizeUpload(o, f)
    PROVE  StoreInv' /\ FilesKept
<1> DEFINE e == [st |-> "awaiting", size |-> 0, ttl |-> FileTTL, grant |-> 1,
                 dir |-> "upload", gttl |-> GrantTTL, uploaded |-> TRUE]
<1>1. e \in Entries /\ e.st = "awaiting" /\ e.grant = 1
  BY Numbers DEF Entries
<1>2. ToolUses(o) /\ Put(f, e, 0) /\ Bear(f, o, <<o>>)
  BY DEF AuthorizeUpload
<1>3. <<o>> \in Seq(Owners) /\ Len(<<o>>) = 1 /\ <<o>>[1] = o /\ 1 <= MaxTokens
  BY Numbers
<1> HIDE DEF e
<1> QED BY <1>1, <1>2, <1>3, BearKeeps

LEMMA PublishFileKeeps ==
    ASSUME StoreInv, NEW o \in Owners, NEW f \in Files, NEW n \in Sizes,
           PublishFile(o, f, n)
    PROVE  StoreInv' /\ FilesKept
<1> DEFINE e == [st |-> "stored", size |-> n, ttl |-> FileTTL, grant |-> 0,
                 dir |-> "download", gttl |-> 0, uploaded |-> FALSE]
<1>1. e \in Entries /\ e.st = "stored" /\ e.grant = 0
  BY Numbers DEF Entries
<1>2. ToolUses(o) /\ Put(f, e, n) /\ Bear(f, o, <<>>)
  BY DEF PublishFile
<1>3. <<>> \in Seq(Owners) /\ Len(<<>>) <= MaxTokens
  BY Numbers
<1> HIDE DEF e
<1> QED BY <1>1, <1>2, <1>3, BearKeeps

LEMMA AuthorizeDownloadKeeps ==
    ASSUME StoreInv, NEW o \in Owners, NEW f \in Files, AuthorizeDownload(o, f)
    PROVE  StoreInv' /\ FilesKept
<1> DEFINE e == [entry[f] EXCEPT !.grant = Len(granted[f]) + 1,
                                 !.dir = "download", !.gttl = GrantTTL]
<1>1. /\ TypeOK /\ FileInv(f) /\ ownerOf[f] = o /\ Len(granted[f]) < MaxTokens
      /\ Swept[f] = entry[f] /\ entry[f].st = "stored"
      /\ entry[f] \in Entries /\ granted[f] \in Seq(Owners)
  <2>1. TypeOK /\ FileInv(f) /\ ownerOf[f] = o /\ Len(granted[f]) < MaxTokens
        /\ Swept[f].st = "stored"
    BY DEF StoreInv, AuthorizeDownload
  <2>2. Swept[f] = entry[f]
    BY <2>1, SweptAt
  <2> QED BY <2>1, <2>2 DEF TypeOK
<1>2. /\ ToolUses(o) /\ entry' = [Swept EXCEPT ![f] = e]
      /\ granted' = [granted EXCEPT ![f] = Append(granted[f], o)]
      /\ UNCHANGED <<receivers, ownerOf>>
  BY <1>1 DEF AuthorizeDownload, Put
<1>3. PICK g : g = Append(granted[f], o)
  OBVIOUS
<1>4. /\ g \in Seq(Owners) /\ Len(g) = Len(granted[f]) + 1 /\ g[Len(g)] = o
      /\ Len(granted[f]) \in Nat /\ Len(g) <= MaxTokens
  BY <1>1, <1>3, Numbers
<1>5. e \in Entries /\ e.st = entry[f].st /\ e.size = entry[f].size /\ e.grant = Len(g)
  <2>1. Len(g) \in 0..MaxTokens /\ GrantTTL \in 0..GrantTTL
    BY <1>4, Numbers
  <2>2. e = [entry[f] EXCEPT !.grant = Len(g), !.dir = "download", !.gttl = GrantTTL]
    BY <1>4
  <2>3. PICK n \in 0..MaxTokens, x \in 0..GrantTTL : n = Len(g) /\ x = GrantTTL
    BY <2>1
  <2>4. e = [entry[f] EXCEPT !.grant = n, !.dir = "download", !.gttl = x]
    BY <2>2, <2>3
  <2> HIDE DEF e
  <2>5. e \in Entries /\ e.st = entry[f].st /\ e.size = entry[f].size /\ e.grant = n
    BY <1>1, <2>4 DEF Entries
  <2> QED BY <2>3, <2>5
<1>6. PICK d : d = e
  OBVIOUS
<1> HIDE DEF e
<1>7. d \in Entries /\ d.st = entry[f].st /\ d.size = entry[f].size /\ d.grant = Len(g)
  BY <1>5, <1>6
<1>8. /\ entry'[f] = d /\ granted'[f] = g
      /\ ownerOf'[f] = ownerOf[f] /\ receivers'[f] = receivers[f]
  BY <1>1, <1>2, <1>3, <1>6, PutAt DEF TypeOK
<1>9. Fate(f)
  BY <1>1, <1>4, <1>7, <1>8 DEF Fate, Stays, SameOwner
<1>10. FileInv(f)'
  <2>1. FileOK(d, ownerOf[f], g, receivers[f])
    BY <1>1, <1>4, <1>7, NoneIsNone DEF FileInv, FileOK
  <2> QED BY <1>8, <2>1 DEF FileInv
<1>11. \A h \in Files \ {f} : /\ ownerOf'[h] = ownerOf[h] /\ granted'[h] = granted[h]
                             /\ receivers'[h] = receivers[h]
  BY <1>1, <1>2 DEF TypeOK
<1>12. FilesKept /\ entry' \in [Files -> Entries]
  BY <1>2, <1>6, <1>7, <1>9, <1>10, <1>11, PutKeeps
<1>13. /\ granted' \in [Files -> Seq(Owners)]
       /\ \A h \in Files : Len(granted'[h]) <= MaxTokens
       /\ receivers' \in [Files -> SUBSET Owners]
       /\ ownerOf' \in [Files -> Owners \cup {None}]
  BY <1>1, <1>2, <1>3, <1>4 DEF TypeOK
<1>14. tool' \in [Owners -> BOOLEAN] /\ UNCHANGED <<xfer, cleaner, shutdown>>
  BY <1>2, ToolFlag
<1> QED BY <1>12, <1>13, <1>14, ToolKeeps

LEMMA TakeKeeps ==
    ASSUME StoreInv, NEW o \in Owners, NEW f \in Files, Take(o, f)
    PROVE  StoreInv' /\ FilesKept
<1>1. /\ TypeOK /\ FileInv(f) /\ ownerOf[f] = o /\ o # None
      /\ entry[f].st = "stored" /\ ToolUses(o)
      /\ entry' = [Swept EXCEPT ![f] = NoEntry]
      /\ receivers' = [receivers EXCEPT ![f] = receivers[f] \cup {o}]
      /\ UNCHANGED <<granted, ownerOf>>
  <2>1. TypeOK /\ FileInv(f) /\ Swept[f].st = "stored"
    BY DEF StoreInv, Take
  <2>2. Swept[f] = entry[f]
    BY <2>1, SweptAt
  <2> QED BY <2>1, <2>2, NoneIsNone DEF Take, HandTo
<1>2. receivers[f] = {} /\ receivers \in [Files -> SUBSET Owners]
  BY <1>1 DEF FileInv, FileOK, TypeOK
<1>3. /\ receivers' \in [Files -> SUBSET Owners] /\ receivers'[f] = {o}
      /\ \A g \in Files \ {f} : receivers'[g] = receivers[g]
  BY <1>1, <1>2
<1>4. entry'[f] = NoEntry
  BY <1>1, PutAt
<1>5. Fate(f)
  BY <1>1, <1>3, <1>4, Made DEF Fate, IsHanded, SameOwner
<1>6. FileInv(f)'
  <2>1. FileOK(NoEntry, o, granted[f], {o})
    BY <1>1, Made DEF FileOK
  <2> QED BY <1>1, <1>3, <1>4, <2>1 DEF FileInv
<1>7. \A g \in Files \ {f} : /\ ownerOf'[g] = ownerOf[g] /\ granted'[g] = granted[g]
                            /\ receivers'[g] = receivers[g]
  BY <1>1, <1>3
<1>8. FilesKept /\ entry' \in [Files -> Entries]
  BY <1>1, <1>5, <1>6, <1>7, Made, PutKeeps
<1>9. /\ granted' \in [Files -> Seq(Owners)]
      /\ \A g \in Files : Len(granted'[g]) <= MaxTokens
      /\ ownerOf' \in [Files -> Owners \cup {None}]
  BY <1>1 DEF TypeOK
<1>10. tool' \in [Owners -> BOOLEAN] /\ UNCHANGED <<xfer, cleaner, shutdown>>
  BY <1>1, ToolFlag
<1> QED BY <1>3, <1>8, <1>9, <1>10, ToolKeeps

\* The clock, the cleanup task and shutdown touch the entries at most.
LEMMA RestKeeps ==
    ASSUME StoreInv, FilesKept, entry' \in [Files -> Entries],
           UNCHANGED <<historyVars, xfer, tool>>,
           cleaner' \in BOOLEAN, shutdown' \in BOOLEAN
    PROVE  StoreInv'
<1>1. TypeOK'
  BY DEF StoreInv, TypeOK, historyVars
<1> QED BY <1>1, OtherKeeps DEF historyVars

LEMMA TickKeeps ==
    ASSUME StoreInv, Tick
    PROVE  StoreInv' /\ FilesKept
<1>1. /\ TypeOK /\ UNCHANGED <<historyVars, xfer, tool, cleaner, shutdown>>
      /\ entry' = [f \in Files |->
                    [entry[f] EXCEPT !.ttl = Pred(entry[f].ttl), !.gttl = Pred(entry[f].gttl)]]
  BY DEF StoreInv, Tick
<1>2. ASSUME NEW f \in Files
      PROVE  /\ entry'[f] \in Entries /\ entry'[f].st = entry[f].st
             /\ entry'[f].size = entry[f].size /\ entry'[f].grant = entry[f].grant
  <2>1. PICK e \in Entries : e = entry[f]
    BY <1>1 DEF TypeOK
  <2>2. e.ttl \in 0..FileTTL /\ e.gttl \in 0..GrantTTL
    BY EntryParts
  <2>3. PICK a \in 0..FileTTL, b \in 0..GrantTTL : a = Pred(e.ttl) /\ b = Pred(e.gttl)
    BY <2>2, Numbers DEF Pred
  <2>4. entry'[f] = [e EXCEPT !.ttl = a, !.gttl = b]
    BY <1>1, <2>1, <2>3
  <2>5. PICK d : d = [e EXCEPT !.ttl = a, !.gttl = b]
    OBVIOUS
  <2>6. d \in Entries /\ d.st = e.st /\ d.size = e.size /\ d.grant = e.grant
    BY <2>5 DEF Entries
  <2> QED BY <2>1, <2>4, <2>5, <2>6
<1>3. entry' \in [Files -> Entries]
  BY <1>1, <1>2
<1>4. ASSUME NEW f \in Files PROVE Fate(f) /\ FileInv(f)'
  <2>1. /\ ownerOf'[f] = ownerOf[f] /\ granted'[f] = granted[f]
        /\ receivers'[f] = receivers[f] /\ FileInv(f)
    BY <1>1 DEF historyVars, StoreInv
  <2>2. Fate(f)
    BY <1>2, <2>1 DEF Fate, Stays, SameOwner
  <2>3. FileInv(f)'
    BY <1>2, <2>1 DEF FileInv, FileOK
  <2> QED BY <2>2, <2>3
<1>5. cleaner' \in BOOLEAN /\ shutdown' \in BOOLEAN
  BY <1>1 DEF TypeOK
<1> QED BY <1>1, <1>3, <1>4, <1>5, RestKeeps DEF FilesKept

LEMMA ClearKeeps ==
    ASSUME StoreInv, Clear
    PROVE  StoreInv' /\ FilesKept
<1>1. /\ TypeOK /\ UNCHANGED <<historyVars, xfer, tool, shutdown>> /\ cleaner' = FALSE
      /\ entry' = [f \in Files |-> NoEntry]
  BY DEF StoreInv, Clear
<1>2. ASSUME NEW f \in Files PROVE Fate(f) /\ FileInv(f)'
  <2>1. /\ ownerOf'[f] = ownerOf[f] /\ granted'[f] = granted[f]
        /\ receivers'[f] = receivers[f] /\ FileInv(f) /\ entry'[f] = NoEntry
    BY <1>1 DEF historyVars, StoreInv
  <2>2. Fate(f)
    BY <2>1, Made DEF Fate, Stays, IsErased, SameOwner
  <2>3. FileInv(f)'
    BY <2>1, Made DEF FileInv, FileOK
  <2> QED BY <2>2, <2>3
<1>3. entry' \in [Files -> Entries]
  BY <1>1, Made
<1>4. cleaner' \in BOOLEAN /\ shutdown' \in BOOLEAN
  BY <1>1 DEF TypeOK
<1> QED BY <1>1, <1>2, <1>3, <1>4, RestKeeps DEF FilesKept

LEMMA StillStep ==
    ASSUME StoreInv, Expire \/ Shutdown \/ UNCHANGED vars
    PROVE  StoreInv' /\ FilesKept
<1>1. /\ UNCHANGED <<historyVars, xfer, tool>> /\ (entry' = Swept \/ UNCHANGED entry)
  <2>1. CASE Expire
    BY <2>1 DEF Expire, PruneOnly
  <2>2. CASE Shutdown
    BY <2>2 DEF Shutdown
  <2>3. CASE UNCHANGED vars
    BY <2>3 DEF vars, historyVars
  <2> QED BY <2>1, <2>2, <2>3
<1>2. cleaner' \in BOOLEAN /\ shutdown' \in BOOLEAN
  BY DEF Expire, Shutdown, vars, StoreInv, TypeOK
<1>3. CASE entry' = Swept
  BY <1>1, <1>2, <1>3, PruneKeeps, RestKeeps
<1>4. CASE UNCHANGED entry
  <2>1. entry' \in [Files -> Entries]
    BY <1>4 DEF StoreInv, TypeOK
  <2> QED BY <1>1, <1>2, <1>4, <2>1, StillKeeps, RestKeeps
<1> QED BY <1>1, <1>3, <1>4

LEMMA TransferStepKeeps ==
    ASSUME StoreInv, NEW t \in Transfers, TransferStep(t)
    PROVE  StoreInv' /\ FilesKept
<1>1. CASE \E f \in Files, g \in 1..MaxTokens, d \in {"upload", "download"} :
              Authenticate(t, f, g, d)
  BY <1>1, AuthenticateKeeps
<1>2. CASE \E n \in Sizes \cup {0} : Proceed(t, n)
  BY <1>2, ProceedKeeps
<1>3. CASE Abandon(t) \/ DropBody(t)
  BY <1>3, EndKeeps
<1>4. CASE Upload(t)
  BY <1>4, UploadKeeps
<1>5. CASE Download(t)
  BY <1>5, DownloadKeeps
<1> QED BY <1>1, <1>2, <1>3, <1>4, <1>5 DEF TransferStep

LEMMA ToolStepKeeps ==
    ASSUME StoreInv, NEW o \in Owners, ToolStep(o)
    PROVE  StoreInv' /\ FilesKept
<1>1. CASE ToolChecked(o) \/ ToolRefused(o) \/ ToolDone(o)
  BY <1>1, ToolIdleKeeps
<1>2. CASE \E f \in Files : AuthorizeUpload(o, f)
  BY <1>2, AuthorizeUploadKeeps
<1>3. CASE \E f \in Files : AuthorizeDownload(o, f)
  BY <1>3, AuthorizeDownloadKeeps
<1>4. CASE \E f \in Files : Take(o, f)
  BY <1>4, TakeKeeps
<1>5. CASE \E f \in Files : \E n \in Sizes : PublishFile(o, f, n)
  BY <1>5, PublishFileKeeps
<1> QED BY <1>1, <1>2, <1>3, <1>4, <1>5 DEF ToolStep

LEMMA StoreStep == StoreInv /\ [Next]_vars => StoreInv' /\ FilesKept
<1> SUFFICES ASSUME StoreInv, [Next]_vars PROVE StoreInv' /\ FilesKept
  OBVIOUS
<1>1. CASE \E t \in Transfers : TransferStep(t)
  BY <1>1, TransferStepKeeps
<1>2. CASE \E o \in Owners : ToolStep(o)
  BY <1>2, ToolStepKeeps
<1>3. CASE Tick
  BY <1>3, TickKeeps
<1>4. CASE Clear
  BY <1>4, ClearKeeps
<1>5. CASE Expire \/ Shutdown \/ UNCHANGED vars
  BY <1>5, StillStep
<1> QED BY <1>1, <1>2, <1>3, <1>4, <1>5 DEF Next

LEMMA StoreInitially == Init => StoreInv
<1> SUFFICES ASSUME Init PROVE StoreInv
  OBVIOUS
<1>1. TypeOK
  <2>1. /\ entry \in [Files -> Entries] /\ xfer \in [Transfers -> TransferRecords]
    BY Made DEF Init
  <2>2. /\ granted \in [Files -> Seq(Owners)]
        /\ \A f \in Files : Len(granted[f]) <= MaxTokens
    <3>1. <<>> \in Seq(Owners) /\ Len(<<>>) = 0 /\ 0 <= MaxTokens
      BY Numbers
    <3> QED BY <3>1 DEF Init
  <2>3. /\ receivers \in [Files -> SUBSET Owners]
        /\ ownerOf \in [Files -> Owners \cup {None}]
        /\ tool \in [Owners -> BOOLEAN] /\ cleaner \in BOOLEAN /\ shutdown \in BOOLEAN
    BY DEF Init
  <2> QED BY <2>1, <2>2, <2>3 DEF TypeOK
<1>2. ASSUME NEW f \in Files PROVE FileInv(f)
  <2>1. FileOK(NoEntry, None, <<>>, {})
    BY Made DEF FileOK
  <2> QED BY <2>1 DEF Init, FileInv
<1>3. ASSUME NEW t \in Transfers PROVE TransferInv(t)
  BY Made DEF Init, TransferInv
<1> QED BY <1>1, <1>2, <1>3 DEF StoreInv

\* The inductive invariant.
THEOREM Stores == Spec => []StoreInv
BY StoreInitially, StoreStep, PTL DEF Spec

-------------------------------------------------------------------------------
(* Sums over finite sets *)

\* The element that a sum takes first.
Some(S) == CHOOSE x \in S : TRUE

\* g is a sum over the subsets of S, taken one element at a time.
Sums(g, size, S) ==
    g = [s \in SUBSET S |-> IF s = {} THEN 0 ELSE size[Some(s)] + g[s \ {Some(s)}]]

\* Sets of finite sets have least ones.
LEMMA LeastSubset ==
    ASSUME NEW S, IsFiniteSet(S), NEW B, B \subseteq SUBSET S, B # {}
    PROVE  \E s \in B : \A r \in B : r \subseteq s => r = s
<1>1. IsWellFoundedOn(StrictSubsetOrdering(S), SUBSET S)
  BY FS_StrictSubsetOrderingWellFounded, FS_FiniteSubsetsOfFinite
<1>2. PICK s \in B : \A r \in B : ~(<<r, s>> \in StrictSubsetOrdering(S))
  BY <1>1, WFMin
<1>3. ASSUME NEW r \in B, r \subseteq s, r # s PROVE FALSE
  <2>1. <<r, s>> \in StrictSubsetOrdering(S)
    BY <1>3 DEF StrictSubsetOrdering
  <2> QED BY <2>1, <1>2
<1> QED BY <1>3

LEMMA SumsAt ==
    ASSUME NEW g, NEW size, NEW S, Sums(g, size, S), NEW s \in SUBSET S
    PROVE  g[s] = IF s = {} THEN 0 ELSE size[Some(s)] + g[s \ {Some(s)}]
BY DEF Sums

LEMMA SomeIn == ASSUME NEW s, s # {} PROVE Some(s) \in s
BY DEF Some

LEMMA SumsAgree ==
    ASSUME NEW g, NEW h, NEW size, NEW S, NEW T, Sums(g, size, S), Sums(h, size, T),
           IsFiniteSet(T), T \subseteq S, NEW t \in SUBSET T
    PROVE  g[t] = h[t]
<1> DEFINE B == {s \in SUBSET T : g[s] # h[s]}
<1>1. SUFFICES ASSUME B # {} PROVE FALSE
  OBVIOUS
<1>2. PICK s \in B : \A r \in B : r \subseteq s => r = s
  <2>1. B \subseteq SUBSET T
    OBVIOUS
  <2> HIDE DEF B
  <2> QED BY <1>1, <2>1, LeastSubset
<1>3. s # {}
  BY SumsAt
<1>4. Some(s) \in s
  BY <1>3, SomeIn
<1>5. g[s \ {Some(s)}] = h[s \ {Some(s)}]
  BY <1>2, <1>4
<1>6. g[s] = size[Some(s)] + g[s \ {Some(s)}] /\ h[s] = size[Some(s)] + h[s \ {Some(s)}]
  <2>1. s \in SUBSET S /\ s \in SUBSET T
    OBVIOUS
  <2> HIDE DEF B
  <2>2. g[s] = size[Some(s)] + g[s \ {Some(s)}]
    BY <1>3, <2>1, SumsAt
  <2>3. h[s] = size[Some(s)] + h[s \ {Some(s)}]
    BY <1>3, <2>1, SumsAt
  <2> QED BY <2>2, <2>3
<1> QED BY <1>5, <1>6

LEMMA SumsExist ==
    ASSUME NEW size, NEW S, IsFiniteSet(S)
    PROVE  \E g : Sums(g, size, S)
<1> DEFINE B == {T \in SUBSET S : ~\E g : Sums(g, size, T)}
<1>1. SUFFICES ASSUME B # {} PROVE FALSE
  OBVIOUS
<1>2. PICK T \in B : \A r \in B : r \subseteq T => r = T
  <2>1. B \subseteq SUBSET S
    OBVIOUS
  <2> HIDE DEF B
  <2> QED BY <1>1, <2>1, LeastSubset
<1> DEFINE h(U) == CHOOSE g : Sums(g, size, U)
           g == [s \in SUBSET T |-> IF s = {} THEN 0
                                    ELSE size[Some(s)] + h(s \ {Some(s)})[s \ {Some(s)}]]
<1>3. ASSUME NEW U \in SUBSET T, U # T PROVE Sums(h(U), size, U)
  <2>1. \E f : Sums(f, size, U)
    BY <1>2, <1>3
  <2> QED BY <2>1
<1>4. ASSUME NEW s \in SUBSET T, s # {}
      PROVE  g[s \ {Some(s)}] = h(s \ {Some(s)})[s \ {Some(s)}]
  <2> DEFINE r == s \ {Some(s)}
  <2>1. r \in SUBSET T /\ r # T
    BY <1>4, SomeIn
  <2>2. Sums(h(r), size, r)
    BY <1>3, <2>1
  <2>3. CASE r = {}
    <3>1. h(r)[r] = 0
      BY <2>2, <2>3, SumsAt
    <3>2. g[r] = 0
      BY <2>1, <2>3
    <3> QED BY <3>1, <3>2
  <2>4. CASE r # {}
    <3> DEFINE q == r \ {Some(r)}
    <3>1. q \in SUBSET r /\ q # T /\ q \in SUBSET T
      BY <2>1, <2>4, SomeIn
    <3>2. Sums(h(q), size, q)
      BY <1>3, <3>1
    <3>3. h(r)[q] = h(q)[q]
      <4>1. IsFiniteSet(q)
        BY <3>1, FS_Subset
      <4> HIDE DEF h, g, q, r
      <4> QED BY <2>2, <3>1, <3>2, <4>1, SumsAgree
    <3>4. h(r)[r] = size[Some(r)] + h(r)[q]
      BY <2>2, <2>4, SumsAt
    <3>5. g[r] = size[Some(r)] + h(q)[q]
      BY <2>1, <2>4
    <3> QED BY <3>3, <3>4, <3>5
  <2> QED BY <2>3, <2>4
<1>5. Sums(g, size, T)
  <2>1. ASSUME NEW s \in SUBSET T
        PROVE  g[s] = IF s = {} THEN 0 ELSE size[Some(s)] + g[s \ {Some(s)}]
    <3>1. CASE s = {}
      BY <3>1
    <3>2. CASE s # {}
      <4>1. g[s] = size[Some(s)] + h(s \ {Some(s)})[s \ {Some(s)}]
        BY <3>2
      <4>2. g[s \ {Some(s)}] = h(s \ {Some(s)})[s \ {Some(s)}]
        BY <1>4, <3>2
      <4> HIDE DEF g, h
      <4> QED BY <4>1, <4>2, <3>2
    <3> QED BY <3>1, <3>2
  <2>2. g = [s \in SUBSET T |-> g[s]]
    OBVIOUS
  <2> HIDE DEF g
  <2>3. g = [s \in SUBSET T |-> IF s = {} THEN 0 ELSE size[Some(s)] + g[s \ {Some(s)}]]
    BY <2>1, <2>2
  <2> QED BY <2>3 DEF Sums
<1> QED BY <1>2, <1>5

\* The sum as a recursion on the set, for every finite set.
LEMMA SumStep ==
    ASSUME NEW size, NEW S, IsFiniteSet(S)
    PROVE  SumFunctionOnSet(size, S) =
             IF S = {} THEN 0
             ELSE size[Some(S)] + SumFunctionOnSet(size, S \ {Some(S)})
<1> DEFINE h(T) == CHOOSE g : Sums(g, size, T)
           total(T) == SumFunctionOnSet(size, T)
<1>1. ASSUME NEW T \in SUBSET S PROVE total(T) = h(T)[T] /\ Sums(h(T), size, T) /\ IsFiniteSet(T)
  <2>1. IsFiniteSet(T)
    BY FS_Subset
  <2>2. \E g : Sums(g, size, T)
    BY <2>1, SumsExist
  <2>3. total(T) = h(T)[T]
    BY DEF SumFunctionOnSet, FoldFunctionOnSet, MapThenFoldSet, Sums, Some
  <2> QED BY <2>1, <2>2, <2>3
<1>2. h(S)[S] = IF S = {} THEN 0 ELSE size[Some(S)] + h(S)[S \ {Some(S)}]
  <2>1. Sums(h(S), size, S) /\ S \in SUBSET S
    BY <1>1
  <2> HIDE DEF h
  <2> QED BY <2>1, SumsAt
<1>3. h(S)[S \ {Some(S)}] = h(S \ {Some(S)})[S \ {Some(S)}]
  <2>1. S \ {Some(S)} \in SUBSET S
    OBVIOUS
  <2> HIDE DEF h
  <2> QED BY <1>1, <2>1, SumsAgree
<1>4. total(S \ {Some(S)}) = h(S \ {Some(S)})[S \ {Some(S)}] /\ total(S) = h(S)[S]
  BY <1>1
<1> QED BY <1>2, <1>3, <1>4

LEMMA SumEmpty == ASSUME NEW size PROVE SumFunctionOnSet(size, {}) = 0
BY SumStep, FS_EmptySet

LEMMA SumNatural ==
    ASSUME NEW size, NEW S, IsFiniteSet(S), \A x \in S : size[x] \in Nat
    PROVE  SumFunctionOnSet(size, S) \in Nat
<1> DEFINE B == {T \in SUBSET S : SumFunctionOnSet(size, T) \notin Nat}
<1>1. SUFFICES ASSUME B # {} PROVE FALSE
  OBVIOUS
<1>2. PICK T \in B : \A r \in B : r \subseteq T => r = T
  <2>1. B \subseteq SUBSET S
    OBVIOUS
  <2> HIDE DEF B
  <2> QED BY <1>1, <2>1, LeastSubset
<1>3. IsFiniteSet(T) /\ T # {} /\ Some(T) \in T
  <2>1. IsFiniteSet(T)
    BY FS_Subset
  <2>2. T # {}
    BY SumEmpty
  <2> QED BY <2>1, <2>2, SomeIn
<1>4. SumFunctionOnSet(size, T) = size[Some(T)] + SumFunctionOnSet(size, T \ {Some(T)})
  BY <1>3, SumStep
<1>5. SumFunctionOnSet(size, T \ {Some(T)}) \in Nat
  BY <1>2, <1>3
<1> QED BY <1>3, <1>4, <1>5

\* Any element may be counted apart from the others.
LEMMA SumWithout ==
    ASSUME NEW size, NEW S, IsFiniteSet(S), \A x \in S : size[x] \in Nat, NEW x \in S
    PROVE  SumFunctionOnSet(size, S) = size[x] + SumFunctionOnSet(size, S \ {x})
<1> DEFINE total(T) == SumFunctionOnSet(size, T)
           B == {T \in SUBSET S : \E y \in T : total(T) # size[y] + total(T \ {y})}
<1>1. SUFFICES ASSUME B # {} PROVE FALSE
  <2>1. S \in SUBSET S
    OBVIOUS
  <2> QED BY <2>1
<1>2. PICK T \in B : \A r \in B : r \subseteq T => r = T
  <2>1. B \subseteq SUBSET S
    OBVIOUS
  <2> HIDE DEF B
  <2> QED BY <1>1, <2>1, LeastSubset
<1>3. PICK y \in T : total(T) # size[y] + total(T \ {y})
  OBVIOUS
<1> DEFINE z == Some(T)
<1>4. z \in T /\ IsFiniteSet(T) /\ T \subseteq S
  BY FS_Subset, SomeIn
<1>5. total(T) = size[z] + total(T \ {z})
  BY <1>4, SumStep
<1>6. z # y
  BY <1>3, <1>5
<1>7. ASSUME NEW r \in SUBSET T, r # T, NEW w \in r
      PROVE  total(r) = size[w] + total(r \ {w})
  <2>1. r \in SUBSET S /\ r \notin B
    BY <1>2, <1>7
  <2> QED BY <2>1
<1>8. /\ total(T \ {z}) = size[y] + total((T \ {z}) \ {y})
      /\ total(T \ {y}) = size[z] + total((T \ {y}) \ {z})
  <2>1. /\ T \ {z} \in SUBSET T /\ T \ {z} # T /\ y \in T \ {z}
        /\ T \ {y} \in SUBSET T /\ T \ {y} # T /\ z \in T \ {y}
    BY <1>4, <1>6
  <2> HIDE DEF total, z
  <2> QED BY <2>1, <1>7
<1>9. (T \ {y}) \ {z} = (T \ {z}) \ {y}
  OBVIOUS
<1>10. total((T \ {z}) \ {y}) \in Nat /\ size[y] \in Nat /\ size[z] \in Nat
  <2>1. IsFiniteSet((T \ {z}) \ {y})
    BY <1>4, FS_Subset
  <2> QED BY <1>4, <2>1, SumNatural
<1>11. total(T \ {y}) = size[z] + total((T \ {z}) \ {y})
  BY <1>8, <1>9
<1> HIDE DEF total, z
<1>12. total(T) = size[z] + (size[y] + total((T \ {z}) \ {y}))
  BY <1>5, <1>8
<1>13. total(T) # size[y] + (size[z] + total((T \ {z}) \ {y}))
  BY <1>3, <1>11
<1> QED BY <1>10, <1>12, <1>13

\* Only the sizes of the elements matter.
LEMMA SumSame ==
    ASSUME NEW size, NEW other, NEW S, IsFiniteSet(S), \A x \in S : size[x] = other[x]
    PROVE  SumFunctionOnSet(size, S) = SumFunctionOnSet(other, S)
<1> DEFINE B == {T \in SUBSET S : SumFunctionOnSet(size, T) # SumFunctionOnSet(other, T)}
<1>1. SUFFICES ASSUME B # {} PROVE FALSE
  OBVIOUS
<1>2. PICK T \in B : \A r \in B : r \subseteq T => r = T
  <2>1. B \subseteq SUBSET S
    OBVIOUS
  <2> HIDE DEF B
  <2> QED BY <1>1, <2>1, LeastSubset
<1>3. IsFiniteSet(T) /\ T # {} /\ Some(T) \in T
  <2>1. IsFiniteSet(T)
    BY FS_Subset
  <2>2. T # {}
    BY SumEmpty
  <2> QED BY <2>1, <2>2, SomeIn
<1>4. /\ SumFunctionOnSet(size, T) = size[Some(T)] + SumFunctionOnSet(size, T \ {Some(T)})
      /\ SumFunctionOnSet(other, T) = other[Some(T)] + SumFunctionOnSet(other, T \ {Some(T)})
  BY <1>3, SumStep
<1>5. SumFunctionOnSet(size, T \ {Some(T)}) = SumFunctionOnSet(other, T \ {Some(T)})
  BY <1>2, <1>3
<1> QED BY <1>3, <1>4, <1>5

\* A part is no more than the whole.
LEMMA SumPart ==
    ASSUME NEW size, NEW S, IsFiniteSet(S), \A x \in S : size[x] \in Nat, NEW P \in SUBSET S
    PROVE  SumFunctionOnSet(size, P) <= SumFunctionOnSet(size, S)
<1> DEFINE total(T) == SumFunctionOnSet(size, T)
           B == {T \in SUBSET S : P \subseteq T /\ ~(total(P) <= total(T))}
<1>1. SUFFICES ASSUME B # {} PROVE FALSE
  OBVIOUS
<1>2. PICK T \in B : \A r \in B : r \subseteq T => r = T
  <2>1. B \subseteq SUBSET S
    OBVIOUS
  <2> HIDE DEF B
  <2> QED BY <1>1, <2>1, LeastSubset
<1>3. ASSUME NEW U \in SUBSET S PROVE total(U) \in Nat /\ IsFiniteSet(U)
  <2>1. IsFiniteSet(U)
    BY FS_Subset
  <2> QED BY <2>1, SumNatural
<1>4. P # T
  BY <1>3
<1>5. PICK x \in T : x \notin P
  BY <1>4
<1>6. total(T) = size[x] + total(T \ {x})
  BY <1>3, SumWithout
<1>7. total(P) <= total(T \ {x})
  BY <1>2, <1>5
<1>8. /\ total(P) \in Nat /\ total(T \ {x}) \in Nat /\ size[x] \in Nat
      /\ ~(total(P) <= total(T))
  BY <1>3
<1> HIDE DEF total
<1> QED BY <1>6, <1>7, <1>8

\* Two sums that differ at x only.
LEMMA SumChange ==
    ASSUME NEW size, NEW S, IsFiniteSet(S), \A y \in S : size[y] \in Nat,
           NEW other, NEW T, IsFiniteSet(T), \A y \in T : other[y] \in Nat,
           NEW x, S \ {x} = T \ {x}, \A y \in S \ {x} : size[y] = other[y]
    PROVE  SumFunctionOnSet(other, T) + (IF x \in S THEN size[x] ELSE 0)
             = SumFunctionOnSet(size, S) + (IF x \in T THEN other[x] ELSE 0)
<1> DEFINE R == S \ {x}
<1>1. SumFunctionOnSet(size, S) = (IF x \in S THEN size[x] ELSE 0) + SumFunctionOnSet(size, R)
  <2>1. CASE x \in S
    BY <2>1, SumWithout
  <2>2. CASE x \notin S
    <3>1. R = S /\ SumFunctionOnSet(size, S) \in Nat
      BY <2>2, SumNatural
    <3> QED BY <2>2, <3>1
  <2> QED BY <2>1, <2>2
<1>2. SumFunctionOnSet(other, T) = (IF x \in T THEN other[x] ELSE 0) + SumFunctionOnSet(other, R)
  <2>1. CASE x \in T
    BY <2>1, SumWithout
  <2>2. CASE x \notin T
    <3>1. R = T /\ SumFunctionOnSet(other, T) \in Nat
      BY <2>2, SumNatural
    <3> QED BY <2>2, <3>1
  <2> QED BY <2>1, <2>2
<1>3. IsFiniteSet(R)
  BY FS_RemoveElement
<1>4. SumFunctionOnSet(size, R) = SumFunctionOnSet(other, R)
  BY <1>3, SumSame
<1>5. SumFunctionOnSet(size, R) \in Nat
  BY <1>3, SumNatural
<1>6. PICK a \in Nat, b \in Nat : a = (IF x \in S THEN size[x] ELSE 0)
                               /\ b = (IF x \in T THEN other[x] ELSE 0)
  OBVIOUS
<1> QED BY <1>1, <1>2, <1>4, <1>5, <1>6

-------------------------------------------------------------------------------
(* The stored bytes *)

\* What bounds the store: every byte has its permit, and only what is stored has bytes.
NoBytes(es) == \A f \in Files : es[f].st # "stored" => es[f].size = 0
Limited(es) ==
    /\ NoBytes(es)
    /\ IsFiniteSet(Present(es)) /\ Cardinality(Present(es)) <= MaxEntries
CapacityInv ==
    /\ Limited(entry) /\ IsFiniteSet(Streaming)
    /\ capacity \in Nat /\ capacity + Held(entry) + Streamed = Capacity

LEMMA SizeNatural == \A n \in Sizes \cup {0} : n \in Nat
BY SizesNatural

LEMMA HeldNatural ==
    ASSUME NEW es \in [Files -> Entries], IsFiniteSet(Present(es))
    PROVE  Held(es) \in Nat /\ \A f \in Files : es[f].size \in Nat
<1>1. ASSUME NEW f \in Files PROVE es[f].size \in Nat
  <2>1. es[f].size \in Sizes \cup {0}
    BY EntryParts
  <2> QED BY <2>1, SizeNatural
<1> DEFINE size == [f \in Files |-> es[f].size]
<1>2. \A f \in Present(es) : size[f] \in Nat
  BY <1>1 DEF Present
<1> HIDE DEF size
<1>3. SumFunctionOnSet(size, Present(es)) \in Nat
  BY <1>2, SumNatural
<1> QED BY <1>1, <1>3 DEF Held, size

\* One entry is replaced.
LEMMA HeldPut ==
    ASSUME NEW es \in [Files -> Entries], Limited(es), NEW f \in Files, NEW e \in Entries,
           e.st # "stored" => e.size = 0,
           e.st # "none" => es[f].st # "none" \/ Cardinality(Present(es)) < MaxEntries
    PROVE  LET now == [es EXCEPT ![f] = e]
           IN  Limited(now) /\ Held(now) + es[f].size = Held(es) + e.size
<1> DEFINE now == [es EXCEPT ![f] = e]
           size(x) == [g \in Files |-> x[g].size]
<1>1. now \in [Files -> Entries] /\ now[f] = e /\ \A g \in Files \ {f} : now[g] = es[g]
  OBVIOUS
<1>2. /\ NoBytes(now)
      /\ Present(now) = IF e.st = "none" THEN Present(es) \ {f} ELSE Present(es) \cup {f}
      /\ IsFiniteSet(Present(es)) /\ Cardinality(Present(es)) <= MaxEntries
  <2> HIDE DEF now
  <2> QED BY <1>1 DEF Limited, NoBytes, Present
<1>3. IsFiniteSet(Present(now)) /\ Cardinality(Present(now)) <= MaxEntries
  <2>1. Cardinality(Present(es)) \in Nat /\ MaxEntries \in Nat
    BY <1>2, FS_CardinalityType, BoundsPositive
  <2>2. CASE e.st = "none"
    <3>1. Present(now) \in SUBSET Present(es)
      BY <1>2, <2>2
    <3>2. /\ IsFiniteSet(Present(now)) /\ Cardinality(Present(now)) \in Nat
          /\ Cardinality(Present(now)) <= Cardinality(Present(es))
      BY <1>2, <3>1, FS_Subset, FS_CardinalityType
    <3> QED BY <1>2, <2>1, <3>2
  <2>3. CASE e.st # "none"
    <3>1. es[f].st # "none" => f \in Present(es)
      BY DEF Present
    <3>2. Present(now) = Present(es) \cup {f}
      BY <1>2, <2>3
    <3>3. /\ IsFiniteSet(Present(es) \cup {f})
          /\ Cardinality(Present(es) \cup {f})
               = IF f \in Present(es) THEN Cardinality(Present(es))
                 ELSE Cardinality(Present(es)) + 1
      BY <1>2, FS_AddElement
    <3>4. f \in Present(es) \/ Cardinality(Present(es)) < MaxEntries
      BY <2>3, <3>1
    <3> HIDE DEF now
    <3>5. IsFiniteSet(Present(now))
      BY <3>2, <3>3
    <3>6. Cardinality(Present(now)) <= MaxEntries
      <4>1. PICK n \in Nat, m \in Nat : n = Cardinality(Present(es)) /\ m = MaxEntries
        BY <2>1
      <4>2. n <= m /\ (f \in Present(es) \/ n < m)
        BY <1>2, <3>4, <4>1
      <4>3. Cardinality(Present(now)) = IF f \in Present(es) THEN n ELSE n + 1
        BY <3>2, <3>3, <4>1
      <4> QED BY <4>1, <4>2, <4>3
    <3> QED BY <3>5, <3>6
  <2> QED BY <2>2, <2>3
<1>4. /\ \A g \in Present(es) : size(es)[g] \in Nat
      /\ \A g \in Present(now) : size(now)[g] \in Nat
      /\ \A g \in Present(es) \ {f} : size(es)[g] = size(now)[g]
  <2> HIDE DEF now
  <2> QED BY <1>1, <1>2, <1>3, HeldNatural DEF Present
<1>5. Present(es) \ {f} = Present(now) \ {f}
  BY <1>2
<1>6. SumFunctionOnSet(size(now), Present(now)) + (IF f \in Present(es) THEN size(es)[f] ELSE 0)
        = SumFunctionOnSet(size(es), Present(es)) + (IF f \in Present(now) THEN size(now)[f] ELSE 0)
  <2> HIDE DEF size, now
  <2> QED BY <1>2, <1>3, <1>4, <1>5, SumChange
<1>7. /\ es[f].size = IF f \in Present(es) THEN size(es)[f] ELSE 0
      /\ e.size = IF f \in Present(now) THEN size(now)[f] ELSE 0
  <2> HIDE DEF now
  <2> QED BY <1>1 DEF Limited, NoBytes, Present
<1>8. Held(now) + es[f].size = Held(es) + e.size
  <2>1. Held(now) = SumFunctionOnSet(size(now), Present(now))
        /\ Held(es) = SumFunctionOnSet(size(es), Present(es))
    BY DEF Held
  <2> HIDE DEF size, now
  <2> QED BY <1>6, <1>7, <2>1
<1> QED BY <1>2, <1>3, <1>8 DEF Limited

LEMMA StreamedNatural ==
    ASSUME StoreInv, CapacityInv
    PROVE  Streamed \in Nat
<1> DEFINE bytes == [t \in Transfers |-> xfer[t].size]
<1>1. ASSUME NEW t \in Streaming PROVE bytes[t] \in Nat
  <2>1. t \in Transfers /\ xfer[t] \in TransferRecords
    BY DEF StoreInv, TypeOK, Streaming
  <2>2. xfer[t].size \in Sizes \cup {0}
    BY <2>1, TransferParts
  <2> QED BY <2>1, <2>2, SizeNatural
<1> HIDE DEF bytes
<1>2. SumFunctionOnSet(bytes, Streaming) \in Nat
  BY <1>1, SumNatural DEF CapacityInv
<1> QED BY <1>2 DEF Streamed, bytes

\* Pruning gives back what it drops.
LEMMA PrunedHeld ==
    ASSUME StoreInv, CapacityInv
    PROVE  /\ Limited(Swept) /\ Swept \in [Files -> Entries]
           /\ Available \in Nat /\ Available + Held(Swept) + Streamed = Capacity
<1> DEFINE size(x) == [g \in Files |-> x[g].size]
<1>1. TypeOK /\ entry \in [Files -> Entries] /\ Limited(entry)
  BY DEF StoreInv, TypeOK, CapacityInv
<1>2. Swept \in [Files -> Entries] /\ \A f \in Files : Swept[f] = NoEntry \/ Swept[f] = entry[f]
  BY <1>1, SweptAt
<1>3. NoBytes(Swept) /\ Present(Swept) \in SUBSET Present(entry)
  BY <1>1, <1>2, Made DEF Limited, NoBytes, Present
<1>4. IsFiniteSet(Present(Swept)) /\ Cardinality(Present(Swept)) <= MaxEntries
  <2>1. /\ IsFiniteSet(Present(entry)) /\ Cardinality(Present(entry)) <= MaxEntries
        /\ Cardinality(Present(entry)) \in Nat /\ MaxEntries \in Nat
    BY <1>1, FS_CardinalityType, BoundsPositive DEF Limited
  <2>2. /\ IsFiniteSet(Present(Swept)) /\ Cardinality(Present(Swept)) \in Nat
        /\ Cardinality(Present(Swept)) <= Cardinality(Present(entry))
    BY <1>3, <2>1, FS_Subset, FS_CardinalityType
  <2> QED BY <2>1, <2>2
<1>5. Held(Swept) \in Nat /\ Held(entry) \in Nat
  BY <1>1, <1>2, <1>4, HeldNatural DEF Limited
<1>6. Held(Swept) <= Held(entry)
  <2>1. /\ \A f \in Present(entry) : size(entry)[f] \in Nat
        /\ \A f \in Present(Swept) : size(Swept)[f] = size(entry)[f]
    BY <1>1, <1>2, Made, HeldNatural DEF Limited, Present
  <2>2. SumFunctionOnSet(size(Swept), Present(Swept)) = SumFunctionOnSet(size(entry), Present(Swept))
    <3> HIDE DEF size
    <3> QED BY <1>4, <2>1, SumSame
  <2>3. SumFunctionOnSet(size(entry), Present(Swept)) <= SumFunctionOnSet(size(entry), Present(entry))
    <3> HIDE DEF size
    <3> QED BY <1>1, <1>3, <2>1, SumPart DEF Limited
  <2>4. Held(Swept) = SumFunctionOnSet(size(Swept), Present(Swept))
        /\ Held(entry) = SumFunctionOnSet(size(entry), Present(entry))
    BY DEF Held
  <2> HIDE DEF size
  <2> QED BY <2>2, <2>3, <2>4
<1>7. capacity \in Nat /\ capacity + Held(entry) + Streamed = Capacity
  BY DEF CapacityInv
<1>8. Streamed \in Nat
  BY StreamedNatural
<1> QED BY <1>2, <1>3, <1>4, <1>5, <1>6, <1>7, <1>8 DEF Limited, Available

LEMMA NoEntryNoBytes == NoEntry.size = 0 /\ NoEntry.st = "none" /\ NoEntry \in Entries
BY Made

\* What a transfer streams when it becomes r.
StreamedBy(r) == IF r.st = "streaming" THEN r.size ELSE 0

LEMMA StreamedMove ==
    ASSUME StoreInv, CapacityInv, NEW t \in Transfers, NEW r \in TransferRecords,
           xfer' = [xfer EXCEPT ![t] = r]
    PROVE  /\ IsFiniteSet(Streaming') /\ Streamed \in Nat /\ Streamed' \in Nat
           /\ StreamedBy(r) \in Nat /\ StreamedBy(xfer[t]) \in Nat
           /\ Streamed' + StreamedBy(xfer[t]) = Streamed + StreamedBy(r)
<1> DEFINE bytes(x) == [s \in Transfers |-> x[s].size]
<1>1. /\ xfer \in [Transfers -> TransferRecords] /\ IsFiniteSet(Streaming)
      /\ xfer' \in [Transfers -> TransferRecords]
      /\ xfer'[t] = r /\ \A s \in Transfers \ {t} : xfer'[s] = xfer[s]
  BY DEF StoreInv, TypeOK, CapacityInv
<1>2. ASSUME NEW x \in TransferRecords PROVE x.size \in Nat
  <2>1. x.size \in Sizes \cup {0}
    BY TransferParts
  <2> QED BY <2>1, SizeNatural
<1>3. /\ \A s \in Streaming : bytes(xfer)[s] \in Nat
      /\ \A s \in Streaming' : bytes(xfer')[s] \in Nat
      /\ \A s \in Streaming \ {t} : bytes(xfer)[s] = bytes(xfer')[s]
  BY <1>1, <1>2 DEF Streaming
<1>4. /\ Streaming \ {t} = Streaming' \ {t}
      /\ Streaming' = IF r.st = "streaming" THEN Streaming \cup {t} ELSE Streaming \ {t}
      /\ t \in Streaming <=> xfer[t].st = "streaming"
  BY <1>1 DEF Streaming
<1>5. IsFiniteSet(Streaming')
  BY <1>1, <1>4, FS_AddElement, FS_RemoveElement
<1>6. /\ StreamedBy(xfer[t]) = IF t \in Streaming THEN bytes(xfer)[t] ELSE 0
      /\ StreamedBy(r) = IF t \in Streaming' THEN bytes(xfer')[t] ELSE 0
  BY <1>1, <1>4 DEF StreamedBy
<1>7. /\ Streamed = SumFunctionOnSet(bytes(xfer), Streaming)
      /\ Streamed' = SumFunctionOnSet(bytes(xfer'), Streaming')
  BY DEF Streamed
<1>8. Streamed' + StreamedBy(xfer[t]) = Streamed + StreamedBy(r)
  <2>1. PICK a, b, T : a = bytes(xfer) /\ b = bytes(xfer') /\ T = Streaming'
    OBVIOUS
  <2> HIDE DEF bytes
  <2>2. /\ IsFiniteSet(Streaming) /\ \A s \in Streaming : a[s] \in Nat
        /\ IsFiniteSet(T) /\ \A s \in T : b[s] \in Nat
        /\ Streaming \ {t} = T \ {t} /\ \A s \in Streaming \ {t} : a[s] = b[s]
    BY <1>1, <1>3, <1>4, <1>5, <2>1
  <2>3. SumFunctionOnSet(b, T) + (IF t \in Streaming THEN a[t] ELSE 0)
          = SumFunctionOnSet(a, Streaming) + (IF t \in T THEN b[t] ELSE 0)
    BY <2>2, SumChange
  <2> QED BY <1>6, <1>7, <2>1, <2>3
<1>9. Streamed \in Nat /\ Streamed' \in Nat
  <2> HIDE DEF bytes
  <2> QED BY <1>1, <1>3, <1>5, <1>7, SumNatural
<1>10. StreamedBy(r) \in Nat /\ StreamedBy(xfer[t]) \in Nat
  BY <1>1, <1>2 DEF StreamedBy
<1> QED BY <1>5, <1>8, <1>9, <1>10

\* An operation that puts e under f, when what leaves the permits, the entry and
\* the response bodies adds up.
LEMMA PutBounded ==
    ASSUME StoreInv, CapacityInv, NEW f \in Files, NEW e \in Entries,
           e.st # "stored" => e.size = 0,
           e.st # "none" => Swept[f].st # "none" \/ HasRoom,
           entry' = [Swept EXCEPT ![f] = e], capacity' \in Nat,
           IsFiniteSet(Streaming'), NEW more \in Int, Streamed' = Streamed + more,
           capacity' + e.size + more = Available + Swept[f].size
    PROVE  CapacityInv'
<1>1. /\ Limited(Swept) /\ Swept \in [Files -> Entries]
      /\ Available \in Nat /\ Available + Held(Swept) + Streamed = Capacity
  BY PrunedHeld
<1>2. Limited(entry') /\ Held(entry') + Swept[f].size = Held(Swept) + e.size
  BY <1>1, HeldPut DEF HasRoom
<1>3. /\ Held(Swept) \in Nat /\ Swept[f].size \in Nat
      /\ Held(entry') \in Nat /\ e.size \in Nat
  <2>1. entry' \in [Files -> Entries] /\ entry'[f] = e
    BY <1>1
  <2>2. IsFiniteSet(Present(entry'))
    BY <1>2 DEF Limited
  <2> QED BY <1>1, <2>1, <2>2, HeldNatural DEF Limited
<1>4. Streamed \in Nat
  BY StreamedNatural
<1>5. capacity' + Held(entry') + Streamed' = Capacity
  <2>1. PICK a \in Nat, h \in Nat, k \in Nat, s \in Nat :
            a = Available /\ h = Held(Swept) /\ k = Streamed /\ s = Swept[f].size
    BY <1>1, <1>3, <1>4
  <2>2. a + h + k = Capacity
    BY <1>1, <2>1
  <2>3. PICK c \in Nat, n \in Nat, z \in Nat :
            c = capacity' /\ n = Held(entry') /\ z = e.size
    BY <1>3
  <2>4. c + z + more = a + s /\ n + s = h + z
    BY <1>2, <2>1, <2>3
  <2>5. c + n + (k + more) = a + h + k
    BY <2>4
  <2> QED BY <2>1, <2>2, <2>3, <2>5
<1> QED BY <1>2, <1>5 DEF CapacityInv

LEMMA PutStill ==
    ASSUME StoreInv, CapacityInv, NEW f \in Files, NEW e \in Entries,
           e.st # "stored" => e.size = 0,
           e.st # "none" => Swept[f].st # "none" \/ HasRoom,
           entry' = [Swept EXCEPT ![f] = e], capacity' \in Nat,
           IsFiniteSet(Streaming'), Streamed' = Streamed,
           capacity' + e.size = Available + Swept[f].size
    PROVE  CapacityInv'
<1>1. PICK more \in Int : more = 0
  OBVIOUS
<1>2. Streamed' = Streamed + more
  BY <1>1, StreamedNatural
<1>3. e.size \in Nat
  <2>1. e.size \in Sizes \cup {0}
    BY EntryParts
  <2> QED BY <2>1, SizeNatural
<1>4. capacity' + e.size + more = Available + Swept[f].size
  <2>1. PICK c \in Nat, n \in Nat : c = capacity' /\ n = e.size
    BY <1>3
  <2>2. c + n + more = c + n
    BY <1>1
  <2> QED BY <2>1, <2>2
<1> QED BY <1>2, <1>4, PutBounded

LEMMA PruneBounded ==
    ASSUME StoreInv, CapacityInv, PruneOnly, IsFiniteSet(Streaming'), Streamed' = Streamed
    PROVE  CapacityInv'
BY PrunedHeld DEF PruneOnly, CapacityInv

\* Nothing moves but time.
LEMMA StillBounded ==
    ASSUME StoreInv, CapacityInv, UNCHANGED capacity, entry' \in [Files -> Entries],
           \A f \in Files : entry'[f].st = entry[f].st /\ entry'[f].size = entry[f].size,
           IsFiniteSet(Streaming'), Streamed' = Streamed
    PROVE  CapacityInv'
<1>1. Present(entry') = Present(entry) /\ Held(entry') = Held(entry)
  <2>1. Present(entry') = Present(entry)
    BY DEF Present
  <2>2. [f \in Files |-> entry'[f].size] = [f \in Files |-> entry[f].size]
    OBVIOUS
  <2> QED BY <2>1, <2>2 DEF Held
<1> QED BY <1>1 DEF CapacityInv, Limited, NoBytes

\* A transfer that streams nothing, before or after.
LEMMA QuietMove ==
    ASSUME StoreInv, CapacityInv, NEW t \in Transfers, NEW r \in TransferRecords,
           xfer' = [xfer EXCEPT ![t] = r], r.st # "streaming", xfer[t].st # "streaming"
    PROVE  IsFiniteSet(Streaming') /\ Streamed' = Streamed
<1>1. /\ IsFiniteSet(Streaming') /\ Streamed \in Nat /\ Streamed' \in Nat
      /\ Streamed' + StreamedBy(xfer[t]) = Streamed + StreamedBy(r)
  BY StreamedMove
<1>2. StreamedBy(xfer[t]) = 0 /\ StreamedBy(r) = 0
  BY DEF StreamedBy
<1>3. PICK a \in Nat, b \in Nat : a = Streamed /\ b = Streamed'
  BY <1>1
<1>4. b + 0 = a + 0
  BY <1>1, <1>2, <1>3
<1>5. a = b
  BY <1>4
<1>6. IsFiniteSet(Streaming')
  BY <1>1
<1> QED BY <1>3, <1>5, <1>6

LEMMA NoMove ==
    ASSUME StoreInv, CapacityInv, UNCHANGED xfer
    PROVE  IsFiniteSet(Streaming') /\ Streamed' = Streamed
<1>1. Streaming' = Streaming
  BY DEF Streaming
<1> QED BY <1>1 DEF CapacityInv, Streamed

LEMMA AuthenticateBounded ==
    ASSUME StoreInv, CapacityInv, NEW t \in Transfers, NEW f \in Files,
           NEW g \in 1..MaxTokens, NEW d \in {"upload", "download"},
           Authenticate(t, f, g, d)
    PROVE  CapacityInv'
<1>1. PruneOnly /\ xfer[t].st = "idle"
  BY DEF Authenticate
<1>2. CASE UNCHANGED xfer
  BY <1>1, <1>2, NoMove, PruneBounded
<1>3. CASE ~UNCHANGED xfer
  <2> DEFINE r == [st |-> "admitted", file |-> f, grant |-> g, dir |-> d, size |-> 0]
  <2>1. xfer' = [xfer EXCEPT ![t] = r]
    BY <1>3 DEF Authenticate
  <2>2. r \in TransferRecords /\ r.st = "admitted"
    BY Numbers DEF TransferRecords, Stages
  <2> HIDE DEF r
  <2> QED BY <1>1, <2>1, <2>2, QuietMove, PruneBounded
<1> QED BY <1>2, <1>3

LEMMA ProceedBounded ==
    ASSUME StoreInv, CapacityInv, NEW t \in Transfers, NEW n \in Sizes \cup {0},
           Proceed(t, n) \/ Abandon(t)
    PROVE  CapacityInv'
<1>1. xfer \in [Transfers -> TransferRecords] /\ entry \in [Files -> Entries]
      /\ xfer[t] \in TransferRecords
  BY DEF StoreInv, TypeOK
<1>2. /\ xfer[t].st = "admitted" /\ UNCHANGED <<entry, capacity>>
  BY DEF Proceed, Abandon
<1>3. PICK r \in TransferRecords : r.st # "streaming" /\ xfer' = [xfer EXCEPT ![t] = r]
  <2>1. CASE Proceed(t, n)
    <3> DEFINE r == [xfer[t] EXCEPT !.st = "checked", !.size = n]
    <3>1. r \in TransferRecords /\ r.st = "checked"
      BY <1>1 DEF TransferRecords, Stages
    <3>2. xfer' = [xfer EXCEPT ![t] = r]
      BY <1>1, <2>1 DEF Proceed, TransferRecords
    <3> QED BY <3>1, <3>2
  <2>2. CASE Abandon(t)
    BY <2>2, Made DEF Abandon
  <2> QED BY <2>1, <2>2
<1>4. IsFiniteSet(Streaming') /\ Streamed' = Streamed
  BY <1>2, <1>3, QuietMove
<1> QED BY <1>1, <1>2, <1>4, StillBounded

LEMMA UploadBounded ==
    ASSUME StoreInv, CapacityInv, NEW t \in Transfers, Upload(t)
    PROVE  CapacityInv'
<1>1. PICK f, n : f = xfer[t].file /\ n = xfer[t].size
  OBVIOUS
<1> DEFINE e == [Swept[f] EXCEPT !.st = "stored", !.size = n, !.grant = 0, !.gttl = 0]
<1>2. /\ xfer[t].st = "checked" /\ xfer' = [xfer EXCEPT ![t] = Idle]
  BY DEF Upload
<1>3. xfer[t] \in TransferRecords
  BY DEF StoreInv, TypeOK
<1>4. f \in Files /\ n \in Sizes \cup {0}
  BY <1>1, <1>2, <1>3, TransferParts DEF StoreInv, TransferInv, GrantMade
<1>5. IsFiniteSet(Streaming') /\ Streamed' = Streamed
  BY <1>2, Made, QuietMove
<1>6. CASE PruneOnly
  BY <1>5, <1>6, PruneBounded
<1>7. CASE Swept[f].st = "awaiting" /\ n <= Available /\ Put(f, e, n)
  <2>1. /\ NoBytes(Swept) /\ Swept \in [Files -> Entries] /\ Available \in Nat
    BY PrunedHeld DEF Limited
  <2>2. Swept[f].size = 0 /\ Swept[f] \in Entries
    BY <1>4, <1>7, <2>1 DEF NoBytes
  <2>3. e \in Entries /\ e.st = "stored" /\ e.size = n
    <3>1. PICK x \in Entries : x = Swept[f]
      BY <2>2
    <3>2. 0 \in 0..MaxTokens /\ 0 \in 0..GrantTTL
      BY Numbers
    <3>3. e = [x EXCEPT !.st = "stored", !.size = n, !.grant = 0, !.gttl = 0]
      BY <3>1
    <3> HIDE DEF e
    <3> QED BY <1>4, <3>2, <3>3 DEF Entries
  <2>4. entry' = [Swept EXCEPT ![f] = e] /\ capacity' = Available - n
    BY <1>7 DEF Put
  <2> HIDE DEF e
  <2>5. n \in Nat /\ capacity' \in Nat /\ capacity' + e.size = Available + Swept[f].size
    <3>1. PICK a \in Nat, k \in Nat : a = Available /\ k = n
      BY <1>4, <2>1, SizeNatural
    <3>2. k <= a /\ capacity' = a - k /\ e.size = k
      BY <1>7, <2>3, <2>4, <3>1
    <3> QED BY <2>2, <3>1, <3>2
  <2> QED BY <1>4, <1>5, <1>7, <2>3, <2>4, <2>5, PutStill
<1> QED BY <1>1, <1>6, <1>7 DEF Upload

LEMMA DownloadBounded ==
    ASSUME StoreInv, CapacityInv, NEW t \in Transfers, Download(t)
    PROVE  CapacityInv'
<1>1. PICK f : f = xfer[t].file
  OBVIOUS
<1> DEFINE valid == Swept[f].st = "stored" /\ ValidGrant(Swept[f], xfer[t].grant, "download")
<1>2. xfer[t].st = "checked"
  BY DEF Download
<1>3. xfer[t] \in TransferRecords /\ xfer \in [Transfers -> TransferRecords]
  BY DEF StoreInv, TypeOK
<1>4. CASE ~valid
  <2>1. PruneOnly /\ xfer' = [xfer EXCEPT ![t] = Idle]
    BY <1>1, <1>4 DEF Download
  <2> QED BY <1>2, <2>1, Made, QuietMove, PruneBounded
<1>5. CASE valid
  <2>1. f \in Files
    BY <1>1, <1>2 DEF StoreInv, TransferInv, GrantMade
  <2>2. Swept \in [Files -> Entries] /\ Available \in Nat
    BY PrunedHeld
  <2>3. PICK n : n = Swept[f].size
    OBVIOUS
  <2>4. n \in Sizes \cup {0} /\ n \in Nat
    <3>1. Swept[f].size \in Sizes \cup {0}
      BY <2>1, <2>2, EntryParts
    <3> QED BY <2>3, <3>1, SizeNatural
  <2> DEFINE r == [xfer[t] EXCEPT !.st = "streaming", !.size = n]
  <2>5. r \in TransferRecords /\ r.st = "streaming" /\ r.size = n
    BY <1>3, <2>4 DEF TransferRecords, Stages
  <2>6. /\ entry' = [Swept EXCEPT ![f] = NoEntry] /\ capacity' = Available - 0
        /\ xfer' = [xfer EXCEPT ![t] = r]
    BY <1>1, <1>3, <1>5, <2>3 DEF Download, Put, TransferRecords
  <2> HIDE DEF r
  <2>7. /\ IsFiniteSet(Streaming') /\ Streamed \in Nat /\ Streamed' \in Nat
        /\ Streamed' + StreamedBy(xfer[t]) = Streamed + StreamedBy(r)
    BY <2>5, <2>6, StreamedMove
  <2>8. StreamedBy(xfer[t]) = 0 /\ StreamedBy(r) = n
    BY <1>2, <2>5 DEF StreamedBy
  <2>9. PICK more \in Int : more = n
    BY <2>4
  <2>10. Streamed' = Streamed + more
    <3>1. PICK a \in Nat, b \in Nat : a = Streamed /\ b = Streamed'
      BY <2>7
    <3>2. b + 0 = a + more
      BY <2>7, <2>8, <2>9, <3>1
    <3>3. b = a + more
      BY <3>2
    <3> QED BY <3>1, <3>3
  <2>11. /\ capacity' \in Nat /\ capacity' + NoEntry.size + more = Available + Swept[f].size
    <3>1. PICK a \in Nat : a = Available
      BY <2>2
    <3>2. capacity' = a - 0 /\ NoEntry.size = 0 /\ Swept[f].size = more
      BY <2>3, <2>6, <2>9, <3>1, NoEntryNoBytes
    <3>3. (a - 0) + 0 + more = a + more /\ a - 0 = a
      OBVIOUS
    <3> QED BY <3>1, <3>2, <3>3
  <2> QED BY <2>1, <2>6, <2>7, <2>10, <2>11, NoEntryNoBytes, PutBounded
<1> QED BY <1>4, <1>5

LEMMA DropBodyBounded ==
    ASSUME StoreInv, CapacityInv, NEW t \in Transfers, DropBody(t)
    PROVE  CapacityInv'
<1>1. /\ xfer[t].st = "streaming" /\ capacity' = capacity + xfer[t].size
      /\ xfer' = [xfer EXCEPT ![t] = Idle] /\ UNCHANGED entry
  BY DEF DropBody
<1>2. /\ IsFiniteSet(Streaming') /\ Streamed \in Nat /\ Streamed' \in Nat
      /\ StreamedBy(xfer[t]) \in Nat
      /\ Streamed' + StreamedBy(xfer[t]) = Streamed + StreamedBy(Idle)
  BY <1>1, Made, StreamedMove
<1>3. StreamedBy(xfer[t]) = xfer[t].size /\ StreamedBy(Idle) = 0
  BY <1>1, Made DEF StreamedBy
<1>4. Limited(entry)' /\ Held(entry') = Held(entry)
  BY <1>1 DEF CapacityInv, Limited, NoBytes, Present, Held
<1>5. Held(entry) \in Nat
  BY HeldNatural DEF StoreInv, TypeOK, CapacityInv, Limited
<1>6. capacity \in Nat /\ capacity + Held(entry) + Streamed = Capacity
  BY DEF CapacityInv
<1>7. capacity' \in Nat /\ capacity' + Held(entry') + Streamed' = Capacity
  BY <1>1, <1>2, <1>3, <1>4, <1>5, <1>6
<1> QED BY <1>2, <1>4, <1>7 DEF CapacityInv

\* A tool makes a file of n bytes.
LEMMA BearBounded ==
    ASSUME StoreInv, CapacityInv, NEW o \in Owners, NEW f \in Files, NEW gs,
           NEW e \in Entries, ToolUses(o), HasRoom, e.size <= Available,
           Put(f, e, e.size), Bear(f, o, gs), e.st # "stored" => e.size = 0
    PROVE  CapacityInv'
<1>1. /\ entry' = [Swept EXCEPT ![f] = e] /\ capacity' = Available - e.size
      /\ UNCHANGED xfer /\ ownerOf[f] = None
  BY DEF Put, Bear, ToolUses
<1>2. entry[f].st = "none" /\ TypeOK
  BY <1>1 DEF StoreInv, FileInv, FileOK
<1>3. NoBytes(Swept) /\ Available \in Nat
  BY PrunedHeld DEF Limited
<1>4. Swept[f].size = 0
  <2>1. Swept[f].st = "none"
    BY <1>2, SweptAt, Made
  <2> QED BY <1>3, <2>1 DEF NoBytes
<1>5. e.size \in Nat
  <2>1. e.size \in Sizes \cup {0}
    BY EntryParts
  <2> QED BY <2>1, SizeNatural
<1>6. IsFiniteSet(Streaming') /\ Streamed' = Streamed
  BY <1>1, NoMove
<1>7. capacity' \in Nat /\ capacity' + e.size = Available + Swept[f].size
  <2>1. PICK n \in Nat, a \in Nat : n = e.size /\ a = Available
    BY <1>3, <1>5
  <2>2. n <= a /\ capacity' = a - n
    BY <1>1, <2>1
  <2> QED BY <1>4, <2>1, <2>2
<1> QED BY <1>1, <1>6, <1>7, PutStill

LEMMA AuthorizeUploadBounded ==
    ASSUME StoreInv, CapacityInv, NEW o \in Owners, NEW f \in Files, AuthorizeUpload(o, f)
    PROVE  CapacityInv'
<1> DEFINE e == [st |-> "awaiting", size |-> 0, ttl |-> FileTTL, grant |-> 1,
                 dir |-> "upload", gttl |-> GrantTTL, uploaded |-> TRUE]
<1>1. e \in Entries /\ e.size = 0
  BY Numbers DEF Entries
<1>2. ToolUses(o) /\ HasRoom /\ Put(f, e, 0) /\ Bear(f, o, <<o>>)
  BY DEF AuthorizeUpload
<1>3. 0 <= Available
  BY PrunedHeld
<1> HIDE DEF e
<1> QED BY <1>1, <1>2, <1>3, BearBounded

LEMMA PublishFileBounded ==
    ASSUME StoreInv, CapacityInv, NEW o \in Owners, NEW f \in Files, NEW n \in Sizes,
           PublishFile(o, f, n)
    PROVE  CapacityInv'
<1> DEFINE e == [st |-> "stored", size |-> n, ttl |-> FileTTL, grant |-> 0,
                 dir |-> "download", gttl |-> 0, uploaded |-> FALSE]
<1>1. e \in Entries /\ e.size = n /\ e.st = "stored"
  BY Numbers DEF Entries
<1>2. ToolUses(o) /\ HasRoom /\ n <= Available /\ Put(f, e, n) /\ Bear(f, o, <<>>)
  BY DEF PublishFile
<1> HIDE DEF e
<1> QED BY <1>1, <1>2, BearBounded

LEMMA AuthorizeDownloadBounded ==
    ASSUME StoreInv, CapacityInv, NEW o \in Owners, NEW f \in Files, AuthorizeDownload(o, f)
    PROVE  CapacityInv'
<1> DEFINE e == [Swept[f] EXCEPT !.grant = Len(granted[f]) + 1,
                                 !.dir = "download", !.gttl = GrantTTL]
<1>1. /\ UNCHANGED xfer /\ entry' = [Swept EXCEPT ![f] = e] /\ capacity' = Available - 0
      /\ Swept[f].st = "stored"
  BY DEF AuthorizeDownload, ToolUses, Put
<1>2. entry' \in [Files -> Entries]
  <2>1. FilesKept /\ StoreInv'
    BY AuthorizeDownloadKeeps
  <2> QED BY <2>1 DEF StoreInv, TypeOK
<1>3. Swept \in [Files -> Entries] /\ Available \in Nat
  BY PrunedHeld
<1>4. e.st = Swept[f].st /\ e.size = Swept[f].size
  <2>1. PICK x, k, m : x \in Entries /\ x = Swept[f] /\ k = Len(granted[f]) + 1 /\ m = GrantTTL
    BY <1>3
  <2>2. PICK y : y = [x EXCEPT !.grant = k, !.dir = "download", !.gttl = m]
    OBVIOUS
  <2>3. y.st = x.st /\ y.size = x.size
    BY <2>2 DEF Entries
  <2> QED BY <2>1, <2>2, <2>3
<1>5. PICK d : d = e
  OBVIOUS
<1> HIDE DEF e
<1>6. entry'[f] = d
  BY <1>1, <1>3, <1>5
<1>7. d \in Entries
  BY <1>2, <1>6
<1>8. d.size \in Nat /\ Swept[f].size = d.size /\ d.st = "stored"
  <2>1. d.size \in Sizes \cup {0}
    BY <1>7, EntryParts
  <2> QED BY <1>1, <1>4, <1>5, <2>1, SizeNatural
<1>9. IsFiniteSet(Streaming') /\ Streamed' = Streamed
  BY <1>1, NoMove
<1>10. capacity' \in Nat /\ capacity' + d.size = Available + Swept[f].size
  BY <1>1, <1>3, <1>8
<1>11. entry' = [Swept EXCEPT ![f] = d] /\ Swept[f].st # "none"
  BY <1>1, <1>5
<1> QED BY <1>7, <1>8, <1>9, <1>10, <1>11, PutStill

LEMMA TakeBounded ==
    ASSUME StoreInv, CapacityInv, NEW o \in Owners, NEW f \in Files, Take(o, f)
    PROVE  CapacityInv'
<1>1. /\ UNCHANGED xfer /\ entry' = [Swept EXCEPT ![f] = NoEntry]
      /\ capacity' = Available + Swept[f].size
  BY DEF Take, ToolUses
<1>2. Swept \in [Files -> Entries] /\ Available \in Nat
  BY PrunedHeld
<1>3. Swept[f].size \in Nat
  <2>1. Swept[f].size \in Sizes \cup {0}
    BY <1>2, EntryParts
  <2> QED BY <2>1, SizeNatural
<1>4. IsFiniteSet(Streaming') /\ Streamed' = Streamed
  BY <1>1, NoMove
<1>5. capacity' \in Nat /\ capacity' + NoEntry.size = Available + Swept[f].size
  BY <1>1, <1>2, <1>3, NoEntryNoBytes
<1> QED BY <1>1, <1>4, <1>5, NoEntryNoBytes, PutStill

LEMMA ToolIdleBounded ==
    ASSUME StoreInv, CapacityInv, NEW o \in Owners,
           ToolChecked(o) \/ ToolRefused(o) \/ ToolDone(o)
    PROVE  CapacityInv'
<1>1. UNCHANGED xfer /\ (PruneOnly \/ UNCHANGED <<entry, capacity>>)
  BY DEF ToolChecked, ToolRefused, ToolDone, ToolUses
<1>2. IsFiniteSet(Streaming') /\ Streamed' = Streamed /\ entry \in [Files -> Entries]
  BY <1>1, NoMove DEF StoreInv, TypeOK
<1> QED BY <1>1, <1>2, PruneBounded, StillBounded

LEMMA TickBounded ==
    ASSUME StoreInv, CapacityInv, Tick
    PROVE  CapacityInv'
<1>1. /\ UNCHANGED <<capacity, xfer>> /\ entry \in [Files -> Entries]
      /\ entry' = [f \in Files |->
                    [entry[f] EXCEPT !.ttl = Pred(entry[f].ttl), !.gttl = Pred(entry[f].gttl)]]
  BY DEF StoreInv, TypeOK, Tick
<1>2. entry' \in [Files -> Entries]
  BY TickKeeps DEF StoreInv, TypeOK
<1>3. ASSUME NEW f \in Files
      PROVE  entry'[f].st = entry[f].st /\ entry'[f].size = entry[f].size
  <2>1. PICK e, a, b : e \in Entries /\ e = entry[f] /\ a = Pred(e.ttl) /\ b = Pred(e.gttl)
    BY <1>1
  <2>2. PICK d : d = [e EXCEPT !.ttl = a, !.gttl = b]
    OBVIOUS
  <2>3. entry'[f] = d
    BY <1>1, <2>1, <2>2
  <2>4. d.st = e.st /\ d.size = e.size
    BY <2>2 DEF Entries
  <2> QED BY <2>1, <2>3, <2>4
<1>4. IsFiniteSet(Streaming') /\ Streamed' = Streamed
  BY <1>1, NoMove
<1> QED BY <1>1, <1>2, <1>3, <1>4, StillBounded

LEMMA NothingHeld ==
    ASSUME NEW es, es = [f \in Files |-> NoEntry]
    PROVE  Limited(es) /\ Held(es) = 0
<1>1. Present(es) = {}
  BY NoEntryNoBytes DEF Present
<1>2. IsFiniteSet({}) /\ Cardinality({}) = 0
  BY FS_EmptySet
<1>3. NoBytes(es) /\ 0 <= MaxEntries
  BY NoEntryNoBytes, BoundsPositive DEF NoBytes
<1> QED BY <1>1, <1>2, <1>3, SumEmpty DEF Limited, Held

LEMMA ClearBounded ==
    ASSUME StoreInv, CapacityInv, Clear
    PROVE  CapacityInv'
<1>1. /\ UNCHANGED xfer /\ entry' = [f \in Files |-> NoEntry]
      /\ capacity' = capacity + Held(entry)
  BY DEF Clear
<1>2. Limited(entry') /\ Held(entry') = 0
  BY <1>1, NothingHeld
<1>3. IsFiniteSet(Streaming') /\ Streamed' = Streamed /\ Streamed \in Nat
  BY <1>1, NoMove, StreamedNatural
<1>4. Held(entry) \in Nat
  BY HeldNatural DEF StoreInv, TypeOK, CapacityInv, Limited
<1>5. capacity \in Nat /\ capacity + Held(entry) + Streamed = Capacity
  BY DEF CapacityInv
<1> QED BY <1>1, <1>2, <1>3, <1>4, <1>5 DEF CapacityInv

LEMMA CapacityStep ==
    ASSUME StoreInv, CapacityInv, [Next]_vars
    PROVE  CapacityInv'
<1>1. ASSUME NEW t \in Transfers, TransferStep(t) PROVE CapacityInv'
  <2>1. ASSUME NEW f \in Files, NEW g \in 1..MaxTokens, NEW d \in {"upload", "download"},
               Authenticate(t, f, g, d)
        PROVE  CapacityInv'
    BY <2>1, AuthenticateBounded
  <2>2. ASSUME NEW n \in Sizes \cup {0}, Proceed(t, n) PROVE CapacityInv'
    BY <2>2, ProceedBounded
  <2>3. CASE Abandon(t)
    BY <2>3, ProceedBounded
  <2>4. CASE Upload(t)
    BY <2>4, UploadBounded
  <2>5. CASE Download(t)
    BY <2>5, DownloadBounded
  <2>6. CASE DropBody(t)
    BY <2>6, DropBodyBounded
  <2> QED BY <1>1, <2>1, <2>2, <2>3, <2>4, <2>5, <2>6 DEF TransferStep
<1>2. ASSUME NEW o \in Owners, ToolStep(o) PROVE CapacityInv'
  <2>1. CASE ToolChecked(o) \/ ToolRefused(o) \/ ToolDone(o)
    BY <2>1, ToolIdleBounded
  <2>2. ASSUME NEW f \in Files,
               \/ AuthorizeUpload(o, f) \/ AuthorizeDownload(o, f) \/ Take(o, f)
               \/ \E n \in Sizes : PublishFile(o, f, n)
        PROVE  CapacityInv'
    BY <2>2, AuthorizeUploadBounded, AuthorizeDownloadBounded, TakeBounded,
       PublishFileBounded
  <2> QED BY <1>2, <2>1, <2>2 DEF ToolStep
<1>3. CASE Tick
  BY <1>3, TickBounded
<1>4. CASE Clear
  BY <1>4, ClearBounded
<1>5. CASE Expire
  BY <1>5, NoMove, PruneBounded DEF Expire
<1>6. CASE Shutdown \/ UNCHANGED vars
  <2>1. UNCHANGED <<entry, capacity, xfer>> /\ entry \in [Files -> Entries]
    BY <1>6 DEF Shutdown, vars, StoreInv, TypeOK
  <2> QED BY <2>1, NoMove, StillBounded
<1> QED BY <1>1, <1>2, <1>3, <1>4, <1>5, <1>6 DEF Next

LEMMA CapacityInitially == Init => CapacityInv
<1> SUFFICES ASSUME Init PROVE CapacityInv
  OBVIOUS
<1>1. Limited(entry) /\ Held(entry) = 0
  BY NothingHeld DEF Init
<1>2. Streaming = {} /\ IsFiniteSet({})
  BY Made, FS_EmptySet DEF Init, Streaming
<1>3. Streamed = 0
  BY <1>2, SumEmpty DEF Streamed
<1>4. capacity = Capacity /\ Capacity \in Nat
  BY BoundsPositive DEF Init
<1> QED BY <1>1, <1>2, <1>3, <1>4 DEF CapacityInv

-------------------------------------------------------------------------------
(* What the store promises *)

\* Every variable keeps to its range; the range of the capacity is part of
\* StoreIsBounded.
THEOREM FilesTyped == Spec => []TypeOK
<1>1. StoreInv => TypeOK
  BY DEF StoreInv
<1> QED BY <1>1, Stores, PTL

\* Every byte in an entry or in a response body has its permit and no other permit
\* is taken, so the bytes stay within the store's bound; and no more entries are
\* kept than the store admits (MAX_STORED_BYTES, MAX_ENTRIES, StoredBytes).
THEOREM StoreIsBounded == Spec => []StoreBounded
<1>1. CapacityInv => StoreBounded
  BY DEF CapacityInv, Limited, StoreBounded
<1>2. StoreInv /\ CapacityInv /\ [Next]_vars => CapacityInv'
  BY CapacityStep
<1> QED BY <1>1, <1>2, CapacityInitially, Stores, PTL DEF Spec

\* Only the last grant made for a file starts its download, and it was made for the
\* file's owner (authorize_download, valid_grant).
THEOREM LastGrantStarts == Spec => []LatestGrantOnly
<1>1. StoreInv => LatestGrantOnly
  <2> SUFFICES ASSUME StoreInv, NEW t \in Transfers, xfer[t].st = "streaming"
               PROVE  /\ xfer[t].grant = Len(granted[xfer[t].file])
                      /\ granted[xfer[t].file][xfer[t].grant] = ownerOf[xfer[t].file]
    BY DEF LatestGrantOnly, Streaming
  <2> QED BY DEF StoreInv, TransferInv, LastGrant
<1> QED BY <1>1, Stores, PTL

\* The step that starts a download finds the file and its grant alive.
LEMMA StartsAlive ==
    ASSUME StoreInv, NEW t \in Transfers, [Next]_vars,
           xfer[t].st = "checked", xfer'[t].st = "streaming"
    PROVE  entry[xfer[t].file].ttl > 0 /\ entry[xfer[t].file].gttl > 0
<1>1. xfer \in [Transfers -> TransferRecords]
  BY DEF StoreInv, TypeOK
<1>2. ~UNCHANGED xfer
  OBVIOUS
<1>3. PICK s \in Transfers : TransferStep(s)
  BY <1>2 DEF Next, vars, ToolStep, ToolUses, ToolChecked, ToolRefused, ToolDone,
              AuthorizeUpload, AuthorizeDownload, Take, PublishFile, Tick, Expire, Clear, Shutdown
<1>4. CASE s # t
  <2>1. PICK r : xfer' = [xfer EXCEPT ![s] = r]
    BY <1>1, <1>2, <1>3 DEF TransferStep, Authenticate, Proceed, Abandon, Upload, Download,
                            DropBody
  <2> QED BY <1>1, <1>4, <2>1
<1>5. CASE s = t
  <2>1. CASE Download(t)
    <3> DEFINE f == xfer[t].file
    <3>1. /\ Swept[f].st = "stored"
          /\ ValidGrant(Swept[f], xfer[t].grant, "download")
      BY <1>1, <2>1, Made DEF Download
    <3> QED BY <3>1, ValidMeansLast
  <2>2. CASE Upload(t)
    BY <1>1, <2>2, Made DEF Upload
  <2>3. CASE ~Download(t) /\ ~Upload(t)
    BY <1>3, <1>5, <2>3 DEF TransferStep, Authenticate, Proceed, Abandon, DropBody
  <2> QED BY <2>1, <2>2, <2>3
<1> QED BY <1>4, <1>5

\* Whatever the store honours, however late its body came, is alive (upload,
\* download).
THEOREM FreshUses == Spec => FreshUse
<1>1. ASSUME StoreInv, [Next]_vars, NEW t \in Transfers, Honoured(t)
      PROVE  entry[xfer[t].file].ttl > 0 /\ entry[xfer[t].file].gttl > 0
  <2>1. CASE xfer'[t].st = "streaming"
    BY <1>1, <2>1, StartsAlive DEF Honoured
  <2>2. CASE xfer'[t].st # "streaming"
    <3> DEFINE f == xfer[t].file
    <3>1. /\ f \in Files /\ entry[f].st = "awaiting" /\ entry'[f].st = "stored"
      BY <1>1, <2>2 DEF Honoured, StoreInv, TransferInv, GrantMade
    <3>2. FilesKept
      BY <1>1, StoreStep
    <3>3. Fate(f) /\ FileInv(f)
      BY <1>1, <3>1, <3>2 DEF FilesKept, StoreInv
    <3>4. IsCompleted(f)
      BY <3>1, <3>3 DEF Fate, Stays, IsErased, IsBorn, IsHanded, FileInv, FileOK
    <3> QED BY <3>4 DEF IsCompleted
  <2> QED BY <2>1, <2>2
<1>2. StoreInv /\ [Next]_vars =>
        [\A t \in Transfers : Honoured(t) =>
            entry[xfer[t].file].ttl > 0 /\ entry[xfer[t].file].gttl > 0]_vars
  BY <1>1
<1> QED BY <1>2, Stores, PTL DEF Spec, FreshUse

-------------------------------------------------------------------------------
(* The one-shot file *)

\* How far a file with entry e, owner o and receivers rs has come.
PhaseOf(e, o, rs) ==
    IF e.st # "none" THEN e.st
    ELSE IF o = None THEN "unborn" ELSE IF rs # {} THEN "handed" ELSE "erased"
ContentOf(e) == IF e.st = "stored" THEN {e.size} ELSE {}

LEMMA PhaseAt ==
    ASSUME NEW f \in Files
    PROVE  /\ Phase[f] = PhaseOf(entry[f], ownerOf[f], receivers[f])
           /\ Phase'[f] = PhaseOf(entry'[f], ownerOf'[f], receivers'[f])
           /\ Content[f] = ContentOf(entry[f]) /\ Content'[f] = ContentOf(entry'[f])
BY DEF Phase, PhaseOf, Content, ContentOf

\* Each fate is a step of the one-shot file.
LEMMA FateRefines ==
    ASSUME StoreInv, StoreInv', NEW f \in Files, Fate(f)
    PROVE  \/ OneShot!Reserve(f) \/ OneShot!Publish(f) \/ OneShot!Complete(f)
           \/ OneShot!Hand(f) \/ OneShot!Erase(f) \/ OneShot!Keep(f)
<1>1. FileInv(f) /\ FileInv(f)'
  BY DEF StoreInv
<1>2. entry[f] \in Entries /\ entry'[f] \in Entries
  BY DEF StoreInv, TypeOK
<1>3. entry[f].st \in {"none", "awaiting", "stored"} /\ entry'[f].size \in Sizes \cup {0}
  BY <1>2, EntryParts
<1>4. CASE Stays(f)
  <2>1. Phase'[f] = Phase[f] /\ Content'[f] = Content[f]
    BY <1>4, PhaseAt DEF Stays, SameOwner, PhaseOf, ContentOf
  <2> QED BY <1>4, <2>1 DEF Stays, SameOwner, OneShot!Keep
<1>5. CASE IsErased(f)
  <2>1. ownerOf[f] # None /\ receivers[f] = {}
    BY <1>1, <1>5 DEF IsErased, FileInv, FileOK
  <2>2. Phase[f] \in {"awaiting", "stored"} /\ Phase'[f] = "erased" /\ Content'[f] = {}
    BY <1>3, <1>5, <2>1, PhaseAt DEF IsErased, SameOwner, PhaseOf, ContentOf
  <2> QED BY <1>5, <2>1, <2>2 DEF IsErased, SameOwner, OneShot!Erase
<1>6. CASE IsBorn(f)
  <2>1. entry[f].st = "none" /\ receivers[f] = {} /\ receivers'[f] = {}
    BY <1>1, <1>6 DEF IsBorn, FileInv, FileOK
  <2>2. Phase[f] = "unborn" /\ Phase'[f] = entry'[f].st
        /\ Content'[f] = ContentOf(entry'[f])
    BY <1>6, <2>1, PhaseAt DEF IsBorn, PhaseOf
  <2>3. CASE entry'[f].st = "awaiting"
    BY <2>1, <2>2, <2>3 DEF OneShot!Reserve, ContentOf
  <2>4. CASE entry'[f].st = "stored"
    BY <1>3, <2>1, <2>2, <2>4 DEF OneShot!Publish, ContentOf
  <2> QED BY <1>6, <2>3, <2>4 DEF IsBorn
<1>7. CASE IsCompleted(f)
  <2>1. receivers[f] = {} /\ receivers'[f] = {} /\ ownerOf'[f] = ownerOf[f]
    BY <1>1, <1>7 DEF IsCompleted, SameOwner, FileInv, FileOK
  <2>2. /\ Phase[f] = "awaiting" /\ Phase'[f] = "stored"
        /\ Content'[f] = {entry'[f].size}
    BY <1>7, PhaseAt DEF IsCompleted, PhaseOf, ContentOf
  <2> QED BY <1>3, <2>1, <2>2 DEF OneShot!Complete
<1>8. CASE IsHanded(f)
  <2>1. ownerOf[f] # None /\ receivers'[f] = {ownerOf[f]} /\ ownerOf'[f] = ownerOf[f]
    BY <1>1, <1>8 DEF IsHanded, SameOwner, FileInv, FileOK
  <2>2. Phase[f] = "stored" /\ Phase'[f] = "handed" /\ Content'[f] = {}
    BY <1>8, <2>1, PhaseAt DEF IsHanded, PhaseOf, ContentOf
  <2> QED BY <2>1, <2>2 DEF OneShot!Hand
<1> QED BY <1>4, <1>5, <1>6, <1>7, <1>8 DEF Fate

\* Every credential file is handed out once at most, to its owner, as it was
\* completed, and never comes back.
THEOREM OneShotRefined == Spec => ImplementsOneShot
<1>1. Init => OneShot!OneShotInit
  <2> SUFFICES ASSUME Init PROVE OneShot!OneShotInit
    OBVIOUS
  <2>1. ASSUME NEW f \in Files PROVE Phase[f] = "unborn" /\ Content[f] = {}
    BY PhaseAt, Made DEF Init, PhaseOf, ContentOf
  <2>2. Phase = [f \in Files |-> "unborn"] /\ Content = [f \in Files |-> {}]
    BY <2>1 DEF Phase, Content
  <2>3. ownerOf \in [Files -> Owners \cup {None}] /\ receivers = [f \in Files |-> {}]
    BY DEF Init
  <2> QED BY <2>2, <2>3 DEF OneShot!OneShotInit
<1>2. StoreInv /\ StoreInv' /\ [Next]_vars => [OneShot!OneShotNext]_(OneShot!fileVars)
  BY StoreStep, FateRefines DEF FilesKept, OneShot!OneShotNext
<1> QED BY <1>1, <1>2, Stores, PTL DEF Spec, ImplementsOneShot, OneShot!OneShotSpec

-------------------------------------------------------------------------------
(* The life of a file *)

\* No operation puts a file's end off: neither its upload nor any new grant.
OnlyAges ==
    [][\A f \in Files : entry[f].st # "none" /\ entry'[f].st # "none" =>
            entry'[f].ttl <= entry[f].ttl]_vars

Younger(e, d) == d.st # "none" /\ e.st # "none" => e.ttl <= d.ttl

LEMMA SweptAges ==
    ASSUME TypeOK, NEW f \in Files
    PROVE  /\ entry[f] \in Entries /\ entry[f].ttl \in Nat
           /\ Younger(entry[f], entry[f]) /\ Younger(Swept[f], entry[f])
<1>1. entry[f] \in Entries /\ entry[f].ttl \in Nat
  BY EntryParts, Numbers DEF TypeOK
<1>2. Swept[f] = entry[f] \/ Swept[f].st = "none"
  BY SweptAt
<1>3. Younger(entry[f], entry[f])
  BY <1>1 DEF Younger
<1> QED BY <1>1, <1>2, <1>3 DEF Younger

\* An operation that puts e under g, as old as what was there or new under a new name.
LEMMA PutAges ==
    ASSUME TypeOK, NEW f \in Files, NEW g \in Files, NEW e, entry' = [Swept EXCEPT ![g] = e],
           e.st = "none" \/ e.ttl = Swept[g].ttl \/ entry[g].st = "none"
    PROVE  Younger(entry'[f], entry[f])
<1>1. CASE f # g
  <2>1. entry'[f] = Swept[f]
    BY <1>1, SweptAt
  <2> QED BY <2>1, SweptAges
<1>2. CASE f = g
  <2>1. entry'[f] = e
    BY <1>2, SweptAt
  <2>2. CASE e.st = "none" \/ entry[f].st = "none"
    BY <2>1, <2>2 DEF Younger
  <2>3. CASE e.ttl = Swept[f].ttl
    <3>1. Swept[f].ttl <= entry[f].ttl
      <4>1. Swept[f] = IF entry[f].ttl = 0 THEN NoEntry ELSE entry[f]
        BY SweptAt
      <4>2. entry[f].ttl \in Nat
        BY SweptAges
      <4> QED BY <4>1, <4>2, Made
    <3> QED BY <2>1, <2>3, <3>1 DEF Younger
  <2> QED BY <1>2, <2>2, <2>3
<1> QED BY <1>1, <1>2

LEMMA TickAges ==
    ASSUME TypeOK, Tick, NEW f \in Files
    PROVE  Younger(entry'[f], entry[f])
<1>1. PICK e \in Entries : e = entry[f]
  BY DEF TypeOK
<1>2. e.ttl \in Nat
  BY EntryParts, Numbers
<1>3. PICK a \in Nat : a = Pred(e.ttl) /\ a <= e.ttl
  BY <1>2 DEF Pred
<1>4. entry'[f] = [e EXCEPT !.ttl = a, !.gttl = Pred(e.gttl)]
  BY <1>1, <1>3 DEF Tick
<1>5. ASSUME NEW n PROVE [e EXCEPT !.ttl = a, !.gttl = n].ttl = a
  BY DEF Entries
<1> QED BY <1>1, <1>3, <1>4, <1>5 DEF Younger

LEMMA TransferAges ==
    ASSUME StoreInv, NEW t \in Transfers, TransferStep(t), NEW f \in Files
    PROVE  Younger(entry'[f], entry[f])
<1>1. TypeOK
  BY DEF StoreInv
<1>2. CASE entry' = Swept \/ UNCHANGED entry
  BY <1>1, <1>2, SweptAges
<1> DEFINE g == xfer[t].file
<1>3. xfer[t].st # "idle" => g \in Files
  BY DEF StoreInv, TransferInv, GrantMade
<1>4. CASE Upload(t)
  <2>1. CASE entry' # Swept
    <3>1. /\ g \in Files /\ Swept[g] \in Entries
          /\ entry' = [Swept EXCEPT ![g] = [Swept[g] EXCEPT !.st = "stored",
                            !.size = xfer[t].size, !.grant = 0, !.gttl = 0]]
      BY <1>1, <1>3, <1>4, <2>1, SweptAt DEF Upload, Put, PruneOnly
    <3>2. PICK d \in Entries : d = Swept[g]
      BY <3>1
    <3>3. PICK e : e = [d EXCEPT !.st = "stored", !.size = xfer[t].size,
                                 !.grant = 0, !.gttl = 0]
      OBVIOUS
    <3>4. e.ttl = d.ttl
      BY <3>3 DEF Entries
    <3>5. entry' = [Swept EXCEPT ![g] = e]
      BY <3>1, <3>2, <3>3
    <3> QED BY <1>1, <3>1, <3>2, <3>4, <3>5, PutAges
  <2> QED BY <1>2, <2>1
<1>5. CASE Download(t)
  <2>1. CASE entry' # Swept
    <3>1. g \in Files /\ entry' = [Swept EXCEPT ![g] = NoEntry]
      BY <1>3, <1>5, <2>1 DEF Download, Put, PruneOnly
    <3> QED BY <1>1, <3>1, PutAges, Made
  <2> QED BY <1>2, <2>1
<1>6. CASE ~Upload(t) /\ ~Download(t)
  <2>1. entry' = Swept \/ UNCHANGED entry
    BY <1>6 DEF TransferStep, Authenticate, Proceed, Abandon, DropBody, PruneOnly
  <2> QED BY <1>2, <2>1
<1> QED BY <1>4, <1>5, <1>6

LEMMA ToolAges ==
    ASSUME StoreInv, NEW o \in Owners, ToolStep(o), NEW f \in Files
    PROVE  Younger(entry'[f], entry[f])
<1>1. TypeOK /\ \A g \in Files : FileInv(g)
  BY DEF StoreInv
<1>2. CASE ToolChecked(o) \/ ToolRefused(o) \/ ToolDone(o)
  <2>1. entry' = Swept \/ UNCHANGED entry
    BY <1>2 DEF ToolChecked, ToolRefused, ToolDone, PruneOnly
  <2> QED BY <1>1, <2>1, SweptAges
<1>3. ASSUME NEW g \in Files, AuthorizeUpload(o, g) \/ \E n \in Sizes : PublishFile(o, g, n)
      PROVE  Younger(entry'[f], entry[f])
  <2>1. ownerOf[g] = None /\ \E e : entry' = [Swept EXCEPT ![g] = e]
    BY <1>3 DEF AuthorizeUpload, PublishFile, Put, Bear
  <2>2. entry[g].st = "none"
    BY <1>1, <2>1 DEF FileInv, FileOK
  <2> QED BY <1>1, <2>1, <2>2, PutAges
<1>4. ASSUME NEW g \in Files, AuthorizeDownload(o, g) PROVE Younger(entry'[f], entry[f])
  <2>1. /\ Swept[g] \in Entries
        /\ entry' = [Swept EXCEPT ![g] = [Swept[g] EXCEPT !.grant = Len(granted[g]) + 1,
                                        !.dir = "download", !.gttl = GrantTTL]]
    BY <1>1, <1>4, SweptAt DEF AuthorizeDownload, Put
  <2>2. PICK d \in Entries : d = Swept[g]
    BY <2>1
  <2>3. PICK e : e = [d EXCEPT !.grant = Len(granted[g]) + 1, !.dir = "download",
                               !.gttl = GrantTTL]
    OBVIOUS
  <2>4. e.ttl = d.ttl
    BY <2>3 DEF Entries
  <2>5. entry' = [Swept EXCEPT ![g] = e]
    BY <2>1, <2>2, <2>3
  <2> QED BY <1>1, <2>2, <2>4, <2>5, PutAges
<1>5. ASSUME NEW g \in Files, Take(o, g) PROVE Younger(entry'[f], entry[f])
  <2>1. entry' = [Swept EXCEPT ![g] = NoEntry]
    BY <1>5 DEF Take
  <2> QED BY <1>1, <2>1, PutAges, Made
<1> QED BY <1>2, <1>3, <1>4, <1>5 DEF ToolStep

\* A file ends when it was going to from the beginning: no upload, however late, and no
\* grant, however often it is asked for again, puts that off (upload, authorize_download;
\* docs/file-transfers.md:82-83).
THEOREM LivesRunOut == Spec => OnlyAges
<1>1. ASSUME StoreInv, [Next]_vars, NEW f \in Files PROVE Younger(entry'[f], entry[f])
  <2>1. TypeOK
    BY <1>1 DEF StoreInv
  <2>2. CASE Expire \/ Clear \/ Shutdown \/ UNCHANGED vars
    <3>1. entry' = Swept \/ UNCHANGED entry \/ entry'[f] = NoEntry
      BY <2>2 DEF Expire, Clear, Shutdown, vars, PruneOnly
    <3> QED BY <2>1, <3>1, SweptAges, Made DEF Younger
  <2> QED BY <1>1, <2>1, <2>2, TickAges, TransferAges, ToolAges DEF Next
<1>2. StoreInv /\ [Next]_vars =>
        [\A f \in Files : entry[f].st # "none" /\ entry'[f].st # "none" =>
            entry'[f].ttl <= entry[f].ttl]_vars
  BY <1>1 DEF Younger
<1> QED BY <1>2, Stores, PTL DEF Spec, OnlyAges

-------------------------------------------------------------------------------
(* After the clearing *)

\* What the cleared store has: calls that passed their check before the shutdown may
\* still put files there, but none of a transfer under way, and none that a tool may take.
Expecting(x) == x.st \in {"admitted", "checked"}
NothingToServe ==
    \A t \in Transfers :
        Expecting(xfer[t]) => xfer[t].file \in Files /\ ownerOf[xfer[t].file] # None
                              /\ entry[xfer[t].file].st = "none"
Completed(e) == e.uploaded /\ e.st = "stored"
NothingToTake == \A f \in Files : ~Completed(entry[f])
ClearedInv == ~cleaner => shutdown /\ NothingToServe /\ NothingToTake

\* After the clearing no call joins those past their check, and what appears in the
\* store is a new file of a subject that has such a call.
LateComers ==
    [][~cleaner =>
        /\ \A o \in Owners : tool'[o] => tool[o]
        /\ \A f \in Files : entry[f].st = "none" /\ entry'[f].st # "none" =>
                ownerOf[f] = None /\ ownerOf'[f] # None /\ tool[ownerOf'[f]]]_vars

\* After the clearing nothing is handed out, to a download or to a tool, and no upload
\* completes a file.
ServesNobody ==
    [][~cleaner =>
        /\ UNCHANGED receivers
        /\ \A f \in Files : entry[f].st = "awaiting" => entry'[f].st # "stored"]_vars

\* What a step does to the flags of calls and to the owners of files: a call that uses
\* the store gives one new file at most to its subject.
CallUses(o) ==
    /\ tool[o] /\ (UNCHANGED tool \/ tool' = [tool EXCEPT ![o] = FALSE])
    /\ \/ UNCHANGED ownerOf
       \/ \E f \in Files : ownerOf' = [ownerOf EXCEPT ![f] = o]
LEMMA CallsMove ==
    ASSUME [Next]_vars, shutdown
    PROVE  \/ UNCHANGED <<tool, ownerOf>>
           \/ \E o \in Owners : CallUses(o)
<1>1. CASE \E t \in Transfers : TransferStep(t)
  BY <1>1 DEF TransferStep, Authenticate, Proceed, Abandon, Upload, Download, DropBody,
              HandTo, historyVars
<1>2. CASE \E o \in Owners : ToolStep(o)
  <2>1. PICK o \in Owners : ToolStep(o)
    BY <1>2
  <2>2. CASE ToolChecked(o)
    BY <2>2 DEF ToolChecked
  <2>3. CASE ToolRefused(o) \/ ToolDone(o)
    BY <2>3 DEF ToolRefused, ToolDone, ToolUses, CallUses, historyVars
  <2>4. CASE \E f \in Files : AuthorizeDownload(o, f) \/ Take(o, f)
    BY <2>4 DEF AuthorizeDownload, Take, HandTo, ToolUses, CallUses
  <2>5. CASE \E f \in Files : AuthorizeUpload(o, f) \/ \E n \in Sizes : PublishFile(o, f, n)
    BY <2>5 DEF AuthorizeUpload, PublishFile, Bear, ToolUses, CallUses
  <2> QED BY <2>1, <2>2, <2>3, <2>4, <2>5 DEF ToolStep
<1>3. CASE Tick \/ Expire \/ Clear \/ Shutdown \/ UNCHANGED vars
  BY <1>3 DEF Tick, Expire, Clear, Shutdown, vars, historyVars
<1> QED BY <1>1, <1>2, <1>3 DEF Next

\* Once the process is told to stop no transfer is begun and none is waited for.
LEMMA NoneBegun ==
    ASSUME StoreInv, [Next]_vars, shutdown, NEW t \in Transfers, Expecting(xfer'[t])
    PROVE  xfer'[t] = xfer[t]
<1>1. xfer \in [Transfers -> TransferRecords]
  BY DEF StoreInv, TypeOK
<1>2. CASE UNCHANGED xfer
  BY <1>2
<1>3. CASE ~UNCHANGED xfer
  <2>1. PICK s \in Transfers : TransferStep(s)
    BY <1>3 DEF Next, vars, ToolStep, ToolUses, ToolChecked, ToolRefused, ToolDone,
                AuthorizeUpload, AuthorizeDownload, Take, PublishFile, Tick, Expire, Clear, Shutdown
  <2>2. PICK r : xfer' = [xfer EXCEPT ![s] = r] /\ ~Expecting(r)
    <3>1. CASE \E f \in Files, g \in 1..MaxTokens, d \in {"upload", "download"} :
                    Authenticate(s, f, g, d)
      BY <1>3, <3>1 DEF Authenticate
    <3>2. CASE \E n \in Sizes \cup {0} : Proceed(s, n)
      BY <3>2 DEF Proceed
    <3>3. CASE Abandon(s) \/ Upload(s) \/ DropBody(s)
      BY <3>3, Made DEF Abandon, Upload, DropBody, Expecting
    <3>4. CASE Download(s)
      <4>1. PICK n : xfer' = [xfer EXCEPT ![s].st = "streaming", ![s].size = n]
                     \/ xfer' = [xfer EXCEPT ![s] = Idle]
        BY <3>4 DEF Download
      <4>2. CASE xfer' = [xfer EXCEPT ![s] = Idle]
        BY <4>2, Made DEF Expecting
      <4>3. CASE xfer' = [xfer EXCEPT ![s].st = "streaming", ![s].size = n]
        <5>1. PICK r : r = [xfer[s] EXCEPT !.st = "streaming", !.size = n]
          OBVIOUS
        <5>2. r.st = "streaming"
          BY <1>1, <5>1 DEF TransferRecords
        <5> QED BY <1>1, <4>3, <5>1, <5>2 DEF Expecting
      <4> QED BY <4>1, <4>2, <4>3
    <3> QED BY <2>1, <3>1, <3>2, <3>3, <3>4 DEF TransferStep
  <2> QED BY <1>1, <2>2
<1> QED BY <1>2, <1>3

\* A file that is not there and whose owner stays is not there afterwards.
LEMMA GoneStays ==
    ASSUME StoreInv, NEW f \in Files, Fate(f), SameOwner(f), entry[f].st = "none"
    PROVE  entry'[f].st = "none"
BY NoneIsNone DEF Fate, Stays, IsErased, IsBorn, IsCompleted, IsHanded, SameOwner

\* The owner of a file never changes.
LEMMA OwnerFixed ==
    ASSUME NEW f \in Files, Fate(f), ownerOf[f] # None
    PROVE  SameOwner(f)
BY DEF Fate, Stays, IsErased, IsBorn, IsCompleted, IsHanded

LEMMA CleanerMoves ==
    ASSUME [Next]_vars
    PROVE  /\ cleaner' = cleaner \/ Clear
           /\ shutdown => shutdown'
<1>1. CASE \E t \in Transfers : TransferStep(t)
  BY <1>1 DEF TransferStep, Authenticate, Proceed, Abandon, Upload, Download, DropBody
<1>2. ASSUME NEW o \in Owners, ToolStep(o) PROVE UNCHANGED <<cleaner, shutdown>>
  <2>1. CASE ToolChecked(o) \/ ToolRefused(o) \/ ToolDone(o)
    BY <2>1 DEF ToolUses, ToolChecked, ToolRefused, ToolDone
  <2>2. CASE \E f \in Files : AuthorizeUpload(o, f) \/ \E n \in Sizes : PublishFile(o, f, n)
    BY <2>2 DEF AuthorizeUpload, PublishFile, ToolUses
  <2>3. CASE \E f \in Files : AuthorizeDownload(o, f) \/ Take(o, f)
    BY <2>3 DEF AuthorizeDownload, Take, ToolUses
  <2> QED BY <1>2, <2>1, <2>2, <2>3 DEF ToolStep
<1>3. CASE Tick \/ Expire \/ UNCHANGED vars
  <2>1. UNCHANGED <<cleaner, shutdown>>
    BY <1>3 DEF Tick, Expire, vars
  <2> QED BY <2>1
<1>4. CASE Shutdown
  BY <1>4 DEF Shutdown
<1>5. CASE Clear
  <2>1. UNCHANGED shutdown
    BY <1>5 DEF Clear
  <2> QED BY <1>5, <2>1
<1> QED BY <1>1, <1>2, <1>3, <1>4, <1>5 DEF Next

\* The file of a transfer under way is known.
LEMMA ExpectedKnown ==
    ASSUME StoreInv, NEW t \in Transfers, Expecting(xfer[t])
    PROVE  xfer[t].file \in Files /\ ownerOf[xfer[t].file] # None
<1> DEFINE f == xfer[t].file
<1>1. f \in Files /\ xfer[t].grant \in 1..Len(granted[f])
  BY DEF StoreInv, TransferInv, GrantMade, Expecting
<1>2. FileInv(f)
  BY <1>1 DEF StoreInv
<1>3. granted[f] # <<>>
  BY <1>1
<1> QED BY <1>1, <1>2, <1>3 DEF FileInv, FileOK

\* The clearing leaves nothing.
LEMMA ClearClears ==
    ASSUME StoreInv, Clear
    PROVE  ClearedInv'
<1>1. /\ shutdown /\ UNCHANGED <<historyVars, xfer, tool, shutdown>>
      /\ \A f \in Files : entry'[f].st = "none"
  BY Made DEF Clear
<1>2. NothingToTake'
  BY <1>1 DEF NothingToTake, Completed
<1>3. NothingToServe'
  BY <1>1, ExpectedKnown DEF NothingToServe, historyVars
<1> QED BY <1>1, <1>2, <1>3 DEF ClearedInv

LEMMA ServeStep ==
    ASSUME StoreInv, FilesKept, [Next]_vars, shutdown, NothingToServe
    PROVE  NothingToServe'
<1>1. SUFFICES ASSUME NEW t \in Transfers, Expecting(xfer'[t])
               PROVE  /\ xfer'[t].file \in Files /\ ownerOf'[xfer'[t].file] # None
                      /\ entry'[xfer'[t].file].st = "none"
  BY DEF NothingToServe
<1>2. xfer'[t] = xfer[t]
  BY <1>1, NoneBegun
<1> DEFINE f == xfer[t].file
<1>3. f \in Files /\ ownerOf[f] # None /\ entry[f].st = "none"
  BY <1>1, <1>2 DEF NothingToServe
<1>4. Fate(f)
  BY <1>3 DEF FilesKept
<1>5. SameOwner(f)
  BY <1>3, <1>4, OwnerFixed
<1>6. entry'[f].st = "none"
  BY <1>3, <1>4, <1>5, GoneStays
<1> QED BY <1>2, <1>3, <1>5, <1>6 DEF SameOwner

\* An operation that puts in what no tool may take leaves nothing for one to take.
LEMMA PutTakes ==
    ASSUME TypeOK, NothingToTake, NEW g \in Files, NEW e, ~Completed(e),
           entry' = [Swept EXCEPT ![g] = e]
    PROVE  NothingToTake'
<1>1. ASSUME NEW f \in Files PROVE ~Completed(entry'[f])
  <2>1. CASE f = g
    BY <2>1, SweptAt
  <2>2. CASE f # g
    <3>1. entry'[f] = Swept[f] /\ (Swept[f] = entry[f] \/ Swept[f].st = "none")
      BY <2>2, SweptAt
    <3> QED BY <3>1 DEF NothingToTake, Completed
  <2> QED BY <2>1, <2>2
<1> QED BY <1>1 DEF NothingToTake

LEMMA TakeStep ==
    ASSUME StoreInv, [Next]_vars, shutdown, NothingToServe, NothingToTake
    PROVE  NothingToTake'
<1>1. TypeOK
  BY DEF StoreInv
<1>2. CASE entry' = Swept \/ UNCHANGED entry
  <2>1. ASSUME NEW f \in Files PROVE ~Completed(entry'[f])
    <3>1. entry'[f] = entry[f] \/ entry'[f].st = "none"
      BY <1>1, <1>2, SweptAt
    <3> QED BY <3>1 DEF NothingToTake, Completed
  <2> QED BY <2>1 DEF NothingToTake
<1>3. ASSUME NEW g \in Files, entry' = [Swept EXCEPT ![g] = NoEntry] PROVE NothingToTake'
  BY <1>1, <1>3, PutTakes, Made DEF Completed
<1>4. ASSUME NEW t \in Transfers, TransferStep(t) PROVE NothingToTake'
  <2>1. xfer[t].st = "checked" => xfer[t].file \in Files /\ Swept[xfer[t].file].st = "none"
    BY <1>1, SweptAt DEF NothingToServe, Expecting
  <2>2. entry' = Swept \/ UNCHANGED entry
    BY <1>4, <2>1 DEF TransferStep, Authenticate, Proceed, Abandon, Upload, Download,
                      DropBody, PruneOnly
  <2> QED BY <1>2, <2>2
<1>5. ASSUME NEW o \in Owners, ToolStep(o) PROVE NothingToTake'
  <2>1. CASE ToolChecked(o) \/ ToolRefused(o) \/ ToolDone(o)
    BY <1>2, <2>1 DEF ToolChecked, ToolRefused, ToolDone, PruneOnly
  <2>2. ASSUME NEW g \in Files, AuthorizeUpload(o, g) PROVE NothingToTake'
    <3>1. PICK e : e.st = "awaiting" /\ entry' = [Swept EXCEPT ![g] = e]
      BY <2>2 DEF AuthorizeUpload, Put
    <3> QED BY <1>1, <3>1, PutTakes DEF Completed
  <2>3. ASSUME NEW g \in Files, NEW n \in Sizes, PublishFile(o, g, n) PROVE NothingToTake'
    <3>1. PICK e : ~e.uploaded /\ entry' = [Swept EXCEPT ![g] = e]
      BY <2>3 DEF PublishFile, Put
    <3> QED BY <1>1, <3>1, PutTakes DEF Completed
  <2>4. ASSUME NEW g \in Files, AuthorizeDownload(o, g) PROVE NothingToTake'
    <3>1. /\ Swept[g] \in Entries /\ Swept[g].st = "stored" /\ Swept[g] = entry[g]
          /\ entry' = [Swept EXCEPT ![g] = [Swept[g] EXCEPT !.grant = Len(granted[g]) + 1,
                                          !.dir = "download", !.gttl = GrantTTL]]
      BY <1>1, <2>4, SweptAt DEF AuthorizeDownload, Put
    <3>2. PICK d \in Entries : d = Swept[g]
      BY <3>1
    <3>3. PICK e : e = [d EXCEPT !.grant = Len(granted[g]) + 1, !.dir = "download",
                                 !.gttl = GrantTTL]
      OBVIOUS
    <3>4. e.uploaded = d.uploaded /\ e.st = d.st
      BY <3>3 DEF Entries
    <3>5. ~Completed(e)
      BY <3>1, <3>2, <3>4 DEF NothingToTake, Completed
    <3>6. entry' = [Swept EXCEPT ![g] = e]
      BY <3>1, <3>2, <3>3
    <3> QED BY <1>1, <3>5, <3>6, PutTakes
  <2>5. ASSUME NEW g \in Files, Take(o, g) PROVE NothingToTake'
    BY <1>3, <2>5 DEF Take
  <2> QED BY <1>5, <2>1, <2>2, <2>3, <2>4, <2>5 DEF ToolStep
<1>6. CASE Tick
  <2>1. ASSUME NEW f \in Files PROVE ~Completed(entry'[f])
    <3>1. PICK e \in Entries : e = entry[f]
      BY <1>1 DEF TypeOK
    <3>2. entry'[f] = [e EXCEPT !.ttl = Pred(e.ttl), !.gttl = Pred(e.gttl)]
      BY <1>6, <3>1 DEF Tick
    <3>3. ASSUME NEW m, NEW n
          PROVE  /\ [e EXCEPT !.ttl = m, !.gttl = n].st = e.st
                 /\ [e EXCEPT !.ttl = m, !.gttl = n].uploaded = e.uploaded
      BY DEF Entries
    <3>4. PICK m, n : m = Pred(e.ttl) /\ n = Pred(e.gttl)
      OBVIOUS
    <3>5. entry'[f].st = e.st /\ entry'[f].uploaded = e.uploaded
      BY <3>2, <3>3, <3>4
    <3> QED BY <3>1, <3>5 DEF NothingToTake, Completed
  <2> QED BY <2>1 DEF NothingToTake
<1>7. CASE Clear
  <2>1. \A f \in Files : entry'[f].st = "none"
    BY <1>7, Made DEF Clear
  <2> QED BY <2>1 DEF NothingToTake, Completed
<1>8. CASE Expire \/ Shutdown \/ UNCHANGED vars
  BY <1>2, <1>8 DEF Expire, Shutdown, vars, PruneOnly
<1> QED BY <1>4, <1>5, <1>6, <1>7, <1>8 DEF Next

LEMMA ClearedStep ==
    ASSUME StoreInv, ClearedInv, [Next]_vars
    PROVE  ClearedInv'
<1>1. FilesKept
  BY StoreStep
<1>2. CASE Clear
  BY <1>2, ClearClears
<1>3. CASE ~cleaner
  BY <1>1, <1>3, CleanerMoves, ServeStep, TakeStep DEF ClearedInv
<1>4. CASE cleaner /\ ~Clear
  BY <1>4, CleanerMoves DEF ClearedInv
<1> QED BY <1>2, <1>3, <1>4

\* What the store still has of the files of transfers under way, or for tools to take,
\* is gone with the clearing and does not come back.
THEOREM Clears == Spec => []ClearedInv
<1>1. Init => ClearedInv
  BY DEF Init, ClearedInv
<1>2. StoreInv /\ ClearedInv /\ [Next]_vars => ClearedInv'
  BY ClearedStep
<1> QED BY <1>1, <1>2, Stores, PTL DEF Spec

\* Whatever file appears in a store that has been cleared is a new one, of a subject that
\* has a call past the check of its lifetime, and no call joins those
\* (expire_until_shutdown; ExecutionBudget::check): ErasedOnShutdown is wrong by the files
\* of these calls and by nothing else, and only until they are over.
THEOREM LateFiles == Spec => LateComers
<1>1. ASSUME StoreInv, ClearedInv, [Next]_vars, ~cleaner
      PROVE  /\ \A o \in Owners : tool'[o] => tool[o]
             /\ \A f \in Files : entry[f].st = "none" /\ entry'[f].st # "none" =>
                    ownerOf[f] = None /\ ownerOf'[f] # None /\ tool[ownerOf'[f]]
  <2>1. /\ shutdown /\ FilesKept
        /\ tool \in [Owners -> BOOLEAN] /\ ownerOf \in [Files -> Owners \cup {None}]
    BY <1>1, StoreStep DEF ClearedInv, StoreInv, TypeOK
  <2>2. UNCHANGED <<tool, ownerOf>> \/ \E o \in Owners : CallUses(o)
    BY <1>1, <2>1, CallsMove
  <2>3. ASSUME NEW o \in Owners, tool'[o] PROVE tool[o]
    BY <2>1, <2>2, <2>3 DEF CallUses
  <2>4. ASSUME NEW f \in Files, entry[f].st = "none", entry'[f].st # "none"
        PROVE  ownerOf[f] = None /\ ownerOf'[f] # None /\ tool[ownerOf'[f]]
    <3>1. Fate(f)
      BY <2>1 DEF FilesKept
    <3>2. ~SameOwner(f)
      BY <1>1, <2>4, <3>1, GoneStays
    <3>3. ownerOf[f] = None
      BY <3>1, <3>2, OwnerFixed
    <3>4. PICK o \in Owners : CallUses(o)
      BY <2>2, <3>2 DEF SameOwner
    <3>5. ownerOf'[f] = o /\ tool[o]
      BY <2>1, <3>2, <3>4 DEF CallUses, SameOwner
    <3> QED BY <3>3, <3>5, NoneIsNone
  <2> QED BY <2>3, <2>4
<1>2. StoreInv /\ ClearedInv /\ [Next]_vars =>
        [~cleaner =>
            /\ \A o \in Owners : tool'[o] => tool[o]
            /\ \A f \in Files : entry[f].st = "none" /\ entry'[f].st # "none" =>
                    ownerOf[f] = None /\ ownerOf'[f] # None /\ tool[ownerOf'[f]]]_vars
  BY <1>1
<1> QED BY <1>2, Stores, Clears, PTL DEF Spec, LateComers

\* Nothing leaves a store that has been cleared, and nothing is completed in it: such a
\* file stays where it is until the process ends (download, take, upload).
THEOREM NothingServed == Spec => ServesNobody
<1>1. ASSUME StoreInv, ClearedInv, [Next]_vars, ~cleaner
      PROVE  /\ UNCHANGED receivers
             /\ \A f \in Files : entry[f].st = "awaiting" => entry'[f].st # "stored"
  <2>1. /\ shutdown /\ NothingToServe /\ NothingToTake /\ StoreInv'
        /\ receivers \in [Files -> SUBSET Owners] /\ receivers' \in [Files -> SUBSET Owners]
        /\ FilesKept
    BY <1>1, StoreStep DEF ClearedInv, StoreInv, TypeOK
  <2>2. ASSUME NEW t \in Transfers, xfer[t].st = "checked"
        PROVE  xfer[t].file \in Files /\ Swept[xfer[t].file].st = "none"
    <3>1. xfer[t].file \in Files /\ entry[xfer[t].file].st = "none"
      BY <2>1, <2>2 DEF NothingToServe, Expecting
    <3> QED BY <1>1, <3>1, SweptAt DEF StoreInv
  <2>3. ASSUME NEW f \in Files PROVE ~Completed(Swept[f])
    <3>1. Swept[f] = entry[f] \/ Swept[f].st = "none"
      BY <1>1, SweptAt DEF StoreInv
    <3> QED BY <2>1, <3>1 DEF NothingToTake, Completed
  <2>4. UNCHANGED receivers
    <3>1. ASSUME NEW t \in Transfers, TransferStep(t) PROVE UNCHANGED receivers
      <4>1. CASE Download(t)
        BY <2>2, <4>1 DEF Download, historyVars
      <4>2. CASE ~Download(t)
        BY <3>1, <4>2 DEF TransferStep, Authenticate, Proceed, Abandon, Upload, DropBody,
                          historyVars
      <4> QED BY <4>1, <4>2
    <3>2. ASSUME NEW o \in Owners, ToolStep(o) PROVE UNCHANGED receivers
      <4>1. ASSUME NEW f \in Files, Take(o, f) PROVE FALSE
        BY <2>3, <4>1 DEF Take, Completed
      <4> QED BY <3>2, <4>1 DEF ToolStep, ToolChecked, ToolRefused, ToolDone,
                  AuthorizeUpload, AuthorizeDownload, PublishFile, Bear, historyVars
    <3>3. CASE Tick \/ Expire \/ Clear \/ Shutdown \/ UNCHANGED vars
      BY <3>3 DEF Tick, Expire, Clear, Shutdown, vars, historyVars
    <3> QED BY <1>1, <3>1, <3>2, <3>3 DEF Next
  <2>5. ASSUME NEW f \in Files, entry[f].st = "awaiting", entry'[f].st = "stored"
        PROVE  FALSE
    <3>1. /\ Swept \in [Files -> Entries] /\ ownerOf[f] # None
          /\ Swept[f].st # "stored" /\ entry'[f].st # Swept[f].st
          /\ entry'[f].st # entry[f].st
      BY <1>1, <2>5, SweptAt, Made DEF StoreInv, FileInv, FileOK
    <3>2. entry' # Swept /\ ~UNCHANGED entry
      BY <3>1
    <3>3. ASSUME NEW g \in Files, NEW e, entry' = [Swept EXCEPT ![g] = e] PROVE g = f
      BY <3>1, <3>3
    <3>4. ASSUME NEW t \in Transfers, TransferStep(t) PROVE FALSE
      <4>1. CASE Upload(t)
        BY <2>2, <3>2, <4>1 DEF Upload, PruneOnly
      <4>2. CASE Download(t)
        BY <2>2, <3>2, <4>2 DEF Download, PruneOnly
      <4>3. CASE ~Upload(t) /\ ~Download(t)
        BY <3>2, <3>4, <4>3 DEF TransferStep, Authenticate, Proceed, Abandon, DropBody,
                                PruneOnly
      <4> QED BY <4>1, <4>2, <4>3
    <3>5. ASSUME NEW o \in Owners, ToolStep(o) PROVE FALSE
      <4>1. ASSUME NEW g \in Files, AuthorizeDownload(o, g) PROVE FALSE
        <5>1. /\ \E e : entry' = [Swept EXCEPT ![g] = e]
              /\ Swept[g].st = "stored"
          BY <4>1 DEF AuthorizeDownload, Put
        <5> QED BY <3>1, <3>3, <5>1
      <4>2. ASSUME NEW g \in Files,
                   AuthorizeUpload(o, g) \/ \E n \in Sizes : PublishFile(o, g, n)
            PROVE  FALSE
        <5>1. ownerOf[g] = None /\ \E e : entry' = [Swept EXCEPT ![g] = e]
          BY <4>2 DEF AuthorizeUpload, PublishFile, Put, Bear
        <5> QED BY <3>1, <3>3, <5>1
      <4>3. ASSUME NEW g \in Files, Take(o, g) PROVE FALSE
        BY <2>3, <4>3 DEF Take, Completed
      <4> QED BY <3>2, <3>5, <4>1, <4>2, <4>3 DEF ToolStep, ToolChecked, ToolRefused,
                  ToolDone, PruneOnly
    <3>6. CASE Tick
      <4>1. PICK e \in Entries : e = entry[f]
        BY <1>1 DEF StoreInv, TypeOK
      <4>2. entry'[f] = [e EXCEPT !.ttl = Pred(e.ttl), !.gttl = Pred(e.gttl)]
        BY <3>6, <4>1 DEF Tick
      <4>3. ASSUME NEW m, NEW n PROVE [e EXCEPT !.ttl = m, !.gttl = n].st = e.st
        BY DEF Entries
      <4> QED BY <3>1, <4>1, <4>2, <4>3
    <3>7. CASE Expire \/ Clear \/ Shutdown \/ UNCHANGED vars
      BY <1>1, <3>2, <3>7 DEF Expire, Clear, Shutdown, vars, PruneOnly
    <3> QED BY <1>1, <3>4, <3>5, <3>6, <3>7 DEF Next
  <2> QED BY <2>4, <2>5
<1>2. StoreInv /\ ClearedInv /\ [Next]_vars =>
        [~cleaner =>
            /\ UNCHANGED receivers
            /\ \A f \in Files : entry[f].st = "awaiting" => entry'[f].st # "stored"]_vars
  BY <1>1
<1> QED BY <1>2, Stores, Clears, PTL DEF Spec, ServesNobody

=====================================================================================
