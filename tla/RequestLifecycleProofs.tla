------------------------- MODULE RequestLifecycleProofs -------------------------
(***************************************************************************)
(* Proofs about RequestLifecycle, for every set of requests and every      *)
(* limit.                                                                  *)
(***************************************************************************)
EXTENDS RequestLifecycle, FiniteSetTheorems, TLAPS

\* What a request's stages say about its mutation: nothing is on the wire before
\* the handler posted it, one copy exists at most, Core's verdict is about that
\* copy, and a handler's report is true for good.
MutationInv(r) ==
    /\ task[r] \in {"none", "queued", "lookup", "resolved", "cleared"}
         => wire[r] = 0 /\ applied[r] = 0 /\ verdict[r] = "none"
    /\ wire[r] + applied[r] <= 1
    /\ verdict[r] = "applied" <=> applied[r] = 1
    /\ verdict[r] \in {"denied", "failed"} => wire[r] = 0
    /\ report[r] = "receipt" => applied[r] = 1
    /\ report[r] \in {"failed", "data"} => applied[r] = 0 /\ wire[r] = 0
    /\ report[r] = "none" <=> task[r] # "done"

\* How the two tasks of a request go together.
StageInv(r) ==
    /\ transport[r] \in {"absent", "arriving", "admitted", "ingress"} => task[r] = "none"
    /\ transport[r] = "closed" <=> status[r] # "none"
    /\ status[r] \in {"refused", "rejected"} => task[r] = "none"
    /\ transport[r] = "body" => task[r] = "done"
    /\ status[r] = "delivered" => task[r] = "done"

IInv ==
    /\ TypeOK
    /\ PermitConservation
    /\ \A r \in Requests : MutationInv(r) /\ StageInv(r)

-------------------------------------------------------------------------------
(* Lemmas about the client's operators *)

\* What a post can come to.
LEMMA ResultSet ==
    Results = {"ok", "denied", "client", "server", "Unavailable",
               "ResponseTooLarge", "IncompatibleResponse"}
<1> DEFINE R == {"ok", "denied", "client", "server", "Unavailable",
                 "ResponseTooLarge", "IncompatibleResponse"}
<1>1. ASSUME NEW x \in Exchanges PROVE PostOnce(x) \in R
  BY DEF Exchanges, PostOnce
<1>2. ASSUME NEW c \in {"success", "denied", "client", "server"},
             NEW b \in {"complete", "interrupted", "oversize", "garbled"}
      PROVE  /\ [code |-> c, body |-> b] \in Exchanges
             /\ PostOnce([code |-> c, body |-> b]) \in Results
  BY DEF Exchanges, Results
<1>3. {"ok", "ResponseTooLarge", "IncompatibleResponse"} \subseteq Results
  <2>1. PostOnce([code |-> "success", body |-> "complete"]) = "ok"
    BY DEF PostOnce
  <2>2. PostOnce([code |-> "success", body |-> "oversize"]) = "ResponseTooLarge"
    BY DEF PostOnce
  <2>3. PostOnce([code |-> "success", body |-> "garbled"]) = "IncompatibleResponse"
    BY DEF PostOnce
  <2>4. QED
    BY <1>2, <2>1, <2>2, <2>3
<1>4. {"denied", "client", "server"} \subseteq Results
  <2>1. ASSUME NEW c \in {"denied", "client", "server"}
        PROVE  PostOnce([code |-> c, body |-> "complete"]) = c
    BY DEF PostOnce
  <2>2. QED
    BY <1>2, <2>1
<1>5. QED
  BY <1>1, <1>3, <1>4 DEF Results

\* A definite result of a submission is one Core really gave: "ok" only for what
\* it accepted, and a failure without the uncertain marker only for what it denied.
LEMMA DefiniteResults ==
    ASSUME NEW v \in Verdicts, NEW e \in ResultsAfter(v)
    PROVE  /\ WriteReport(e) \in {"receipt", "unknown", "failed"}
           /\ WriteReport(e) = "receipt" => v = "applied"
           /\ WriteReport(e) = "failed" => v = "denied"
<1>1. CASE v = "none"
  BY <1>1 DEF ResultsAfter, WriteReport, OutcomeUnknown
<1>2. CASE v = "applied"
  <2>1. e \in {"ok", "client", "server", "Unavailable", "ResponseTooLarge",
               "IncompatibleResponse"}
    BY <1>2, ResultSet DEF ResultsAfter
  <2>2. QED
    BY <1>2, <2>1 DEF WriteReport, OutcomeUnknown
<1>3. CASE v = "denied"
  BY <1>3 DEF ResultsAfter, WriteReport, OutcomeUnknown
<1>4. CASE v = "failed"
  BY <1>4 DEF ResultsAfter, WriteReport, OutcomeUnknown
<1>5. QED
  BY <1>1, <1>2, <1>3, <1>4 DEF Verdicts

\* A write is never posted again.
LEMMA WritesAreNotRetried == \A e : ~MayRetry("write", e)
  BY DEF MayRetry

-------------------------------------------------------------------------------
(* Lemmas about the count of permits *)

\* A step that changes no request's liveness and no permit keeps the count.
LEMMA LeasesKept ==
    ASSUME PermitConservation, permits' = permits,
           \A q \in Requests : Live(q)' <=> Live(q)
    PROVE  PermitConservation'
<1>1. LiveRequests' = LiveRequests
  BY DEF LiveRequests
<1>2. QED
  BY <1>1 DEF PermitConservation

\* A step that makes one more request live takes one permit.
LEMMA LeaseTaken ==
    ASSUME TypeOK, PermitConservation, NEW r \in Requests, ~Live(r), Live(r)',
           \A q \in Requests \ {r} : Live(q)' <=> Live(q),
           permits > 0, permits' = permits - 1
    PROVE  PermitConservation' /\ permits' \in 0..Limit
<1>1. IsFiniteSet(LiveRequests)
  BY RequestsFinite, FS_Subset DEF LiveRequests
<1>2. LiveRequests' = LiveRequests \cup {r} /\ r \notin LiveRequests
  BY DEF LiveRequests
<1>3. Cardinality(LiveRequests') = Cardinality(LiveRequests) + 1
  BY <1>1, <1>2, FS_AddElement
<1>4. Cardinality(LiveRequests) \in Nat
  BY <1>1, FS_CardinalityType
<1>5. QED
  BY <1>3, <1>4, LimitPositive DEF PermitConservation, TypeOK

\* Dropping one of a request's leases returns the permit exactly when it is the
\* last one.
LEMMA LeaseDropped ==
    ASSUME TypeOK, PermitConservation, NEW r \in Requests, Live(r),
           \A q \in Requests \ {r} : Live(q)' <=> Live(q),
           permits' = IF Live(r)' THEN permits ELSE permits + 1
    PROVE  PermitConservation' /\ permits' \in 0..Limit
<1>1. IsFiniteSet(LiveRequests)
  BY RequestsFinite, FS_Subset DEF LiveRequests
<1>2. Cardinality(LiveRequests) \in Nat
  BY <1>1, FS_CardinalityType
<1>3. CASE Live(r)'
  <2>1. LiveRequests' = LiveRequests
    BY <1>3 DEF LiveRequests
  <2>2. QED
    BY <1>3, <2>1 DEF PermitConservation, TypeOK
<1>4. CASE ~Live(r)'
  <2>1. LiveRequests' = LiveRequests \ {r} /\ r \in LiveRequests
    BY <1>4 DEF LiveRequests
  <2>2. /\ Cardinality(LiveRequests') = Cardinality(LiveRequests) - 1
        /\ Cardinality(LiveRequests') \in Nat
    <3>1. IsFiniteSet(LiveRequests')
      BY <1>1, <2>1, FS_Subset
    <3>2. QED
      BY <1>1, <2>1, <3>1, FS_RemoveElement, FS_CardinalityType
  <2>3. QED
    BY <1>2, <1>4, <2>2, LimitPositive DEF PermitConservation, TypeOK
<1>5. QED
  BY <1>3, <1>4

-------------------------------------------------------------------------------
(* The invariant holds initially and every step preserves it *)

\* A step about request r leaves every other request as it was.
OnlyAbout(r) ==
    \A q \in Requests \ {r} :
        /\ transport'[q] = transport[q] /\ status'[q] = status[q]
        /\ task'[q] = task[q] /\ report'[q] = report[q]
        /\ wire'[q] = wire[q] /\ verdict'[q] = verdict[q]
        /\ applied'[q] = applied[q]

LEMMA OthersKept ==
    ASSUME IInv, NEW r \in Requests, OnlyAbout(r)
    PROVE  \A q \in Requests \ {r} :
               MutationInv(q)' /\ StageInv(q)' /\ (Live(q)' <=> Live(q))
  BY DEF IInv, OnlyAbout, MutationInv, StageInv, Live, TransportHolds, Entered, HandlerHolds

LEMMA InitIInv == Init => IInv
<1> SUFFICES ASSUME Init PROVE IInv
  OBVIOUS
<1>1. TypeOK
  <2>1. permits \in 0..Limit
    BY LimitPositive DEF Init
  <2>2. /\ transport \in [Requests -> Transports]
        /\ status \in [Requests -> Statuses]
        /\ task \in [Requests -> Tasks]
        /\ report \in [Requests -> Reports]
        /\ verdict \in [Requests -> Verdicts]
    BY DEF Init, Transports, Statuses, Tasks, Reports, Verdicts
  <2>3. /\ attempts \in [Requests -> 0..MaxAttempts]
        /\ wire \in [Requests -> 0..MaxAttempts]
        /\ applied \in [Requests -> 0..MaxAttempts]
    BY DEF Init, MaxAttempts
  <2>4. /\ shutdown \in BOOLEAN
        /\ expired \in [Requests -> BOOLEAN]
        /\ rpcEnded \in [Requests -> BOOLEAN]
    BY DEF Init
  <2>5. QED
    BY <2>1, <2>2, <2>3, <2>4 DEF TypeOK
<1>2. PermitConservation
  <2>1. LiveRequests = {}
    BY DEF Init, LiveRequests, Live, TransportHolds, Entered, HandlerHolds
  <2>2. QED
    BY <2>1, FS_EmptySet, LimitPositive DEF Init, PermitConservation
<1>3. ASSUME NEW r \in Requests PROVE MutationInv(r) /\ StageInv(r)
  BY DEF Init, MutationInv, StageInv
<1>4. QED
  BY <1>1, <1>2, <1>3 DEF IInv

\* The transport task drops its lease, with any status its caller may get.
LEMMA CloseTransportInv ==
    ASSUME IInv, NEW r \in Requests, NEW st \in Statuses \ {"none", "refused"},
           TransportHolds(r), CloseTransport(r, st),
           st = "rejected" => transport[r] = "ingress",
           st = "delivered" => transport[r] = "body"
    PROVE  IInv'
<1> USE DEF IInv
<1>1. OnlyAbout(r)
  BY DEF OnlyAbout, CloseTransport, handlerVars, coreVars, TypeOK
<1>2. transport'[r] = "closed" /\ status'[r] = st
  BY DEF CloseTransport, TypeOK
<1>3. PermitConservation' /\ permits' \in 0..Limit
  <2>1. Live(r)' <=> HandlerHolds(r)
    BY <1>2 DEF Live, TransportHolds, Entered, HandlerHolds, CloseTransport, handlerVars
  <2>2. permits' = IF Live(r)' THEN permits ELSE permits + 1
    BY <2>1 DEF CloseTransport, AfterDrop
  <2>3. QED
    BY <1>1, <2>2, OthersKept, LeaseDropped DEF Live
<1>4. TypeOK'
  BY <1>3 DEF TypeOK, CloseTransport, handlerVars, coreVars, signalVars, Transports
<1>5. MutationInv(r)' /\ StageInv(r)'
  BY <1>2 DEF MutationInv, StageInv, CloseTransport, handlerVars, coreVars,
     TransportHolds, Entered, Statuses
<1>6. QED
  BY <1>1, <1>3, <1>4, <1>5, OthersKept

\* The handler task drops its lease with a report that is true of its mutation.
LEMMA FinishInv ==
    ASSUME IInv, NEW r \in Requests, NEW p \in Reports \ {"none"},
           HandlerHolds(r), Finish(r, p),
           p = "receipt" => applied[r] = 1,
           p \in {"failed", "data"} => applied[r] = 0 /\ wire[r] = 0
    PROVE  IInv'
<1> USE DEF IInv
<1>1. OnlyAbout(r)
  BY DEF OnlyAbout, Finish, coreVars, TypeOK
<1>2. task'[r] = "done" /\ report'[r] = p
  BY DEF Finish, TypeOK
<1>3. PermitConservation' /\ permits' \in 0..Limit
  <2>1. Live(r)' <=> TransportHolds(r)
    BY <1>2 DEF Live, TransportHolds, Entered, HandlerHolds, Finish
  <2>2. permits' = IF Live(r)' THEN permits ELSE permits + 1
    BY <2>1 DEF Finish, AfterDrop
  <2>3. QED
    BY <1>1, <2>2, OthersKept, LeaseDropped DEF Live
<1>4. TypeOK'
  BY <1>3 DEF TypeOK, Finish, coreVars, signalVars, Tasks
<1>5. MutationInv(r)' /\ StageInv(r)'
  BY <1>2 DEF MutationInv, StageInv, Finish, coreVars, HandlerHolds, Reports
<1>6. QED
  BY <1>1, <1>3, <1>4, <1>5, OthersKept

\* A step of the transport task.
LEMMA TransportStepInv ==
    ASSUME IInv, NEW r \in Requests, TransportStep(r)
    PROVE  IInv'
<1> USE DEF IInv
<1>1. CASE Acquire(r)
  <2>1. OnlyAbout(r)
    BY <1>1 DEF Acquire, OnlyAbout, handlerVars, coreVars, TypeOK
  <2>2. transport'[r] = "admitted" /\ status'[r] = status[r] /\ task'[r] = "none"
    BY <1>1 DEF Acquire, TypeOK, handlerVars, StageInv
  <2>3. PermitConservation' /\ permits' \in 0..Limit
    <3>1. ~Live(r) /\ Live(r)'
      BY <1>1, <2>2 DEF Acquire, Live, TransportHolds, Entered, HandlerHolds, StageInv
    <3>2. QED
      BY <1>1, <2>1, <3>1, OthersKept, LeaseTaken DEF Acquire
  <2>4. TypeOK'
    BY <1>1, <2>3 DEF Acquire, TypeOK, handlerVars, coreVars, signalVars, Transports
  <2>5. MutationInv(r)' /\ StageInv(r)'
    BY <1>1, <2>2 DEF Acquire, MutationInv, StageInv, handlerVars, coreVars
  <2>6. QED
    BY <2>1, <2>3, <2>4, <2>5, OthersKept
<1>2. CASE Arrive(r) \/ Refuse(r) \/ Enter(r)
  <2>1. OnlyAbout(r)
    BY <1>2 DEF Arrive, Refuse, Enter, OnlyAbout, handlerVars, coreVars, TypeOK
  <2>2. task[r] = "none" /\ UNCHANGED <<permits, handlerVars, coreVars, signalVars>>
    BY <1>2 DEF Arrive, Refuse, Enter, StageInv
  <2>3. \/ /\ transport[r] \in {"absent", "arriving"} /\ transport'[r] = "arriving"
           /\ status'[r] = status[r]
        \/ /\ transport[r] \in {"absent", "arriving"} /\ transport'[r] = "closed"
           /\ status'[r] = "refused"
        \/ /\ transport[r] = "admitted" /\ transport'[r] = "ingress"
           /\ status'[r] = status[r]
    BY <1>2 DEF Arrive, Refuse, Enter, TypeOK
  <2>4. Live(r)' <=> Live(r)
    BY <2>2, <2>3 DEF Live, TransportHolds, Entered, HandlerHolds, handlerVars
  <2>5. PermitConservation'
    BY <2>1, <2>2, <2>4, OthersKept, LeasesKept
  <2>6. TypeOK'
    BY <1>2 DEF Arrive, Refuse, Enter, TypeOK, handlerVars, coreVars, signalVars,
       Transports, Statuses
  <2>7. MutationInv(r)' /\ StageInv(r)'
    BY <2>2, <2>3 DEF MutationInv, StageInv, handlerVars, coreVars
  <2>8. QED
    BY <2>1, <2>5, <2>6, <2>7, OthersKept
<1>3. CASE Reject(r)
  BY <1>3, CloseTransportInv DEF Reject, TransportHolds, Entered, Statuses
<1>4. CASE Spawn(r)
  <2>1. OnlyAbout(r)
    BY <1>4 DEF Spawn, OnlyAbout, coreVars, TypeOK
  <2>2. transport'[r] = "serving" /\ task'[r] = "queued"
    BY <1>4 DEF Spawn, TypeOK
  <2>3. Live(r)' <=> Live(r)
    BY <1>4, <2>2 DEF Spawn, Live, TransportHolds, Entered
  <2>4. PermitConservation'
    BY <1>4, <2>1, <2>3, OthersKept, LeasesKept DEF Spawn
  <2>5. TypeOK'
    BY <1>4 DEF Spawn, TypeOK, coreVars, signalVars, Transports, Tasks
  <2>6. MutationInv(r)' /\ StageInv(r)'
    BY <1>4, <2>2 DEF Spawn, MutationInv, StageInv, coreVars
  <2>7. QED
    BY <2>1, <2>4, <2>5, <2>6, OthersKept
<1>5. CASE Respond(r)
  <2>1. OnlyAbout(r)
    BY <1>5 DEF Respond, OnlyAbout, handlerVars, coreVars, TypeOK
  <2>2. transport'[r] = "body"
    BY <1>5 DEF Respond, TypeOK
  <2>3. Live(r)' <=> Live(r)
    BY <1>5, <2>2 DEF Respond, Live, TransportHolds, Entered
  <2>4. PermitConservation'
    BY <1>5, <2>1, <2>3, OthersKept, LeasesKept DEF Respond
  <2>5. TypeOK'
    BY <1>5 DEF Respond, TypeOK, handlerVars, coreVars, signalVars, Transports
  <2>6. MutationInv(r)' /\ StageInv(r)'
    BY <1>5, <2>2 DEF Respond, MutationInv, StageInv, handlerVars, coreVars
  <2>7. QED
    BY <2>1, <2>4, <2>5, <2>6, OthersKept
<1>6. CASE Deliver(r)
  BY <1>6, CloseTransportInv DEF Deliver, TransportHolds, Entered, Statuses
<1>7. CASE Cut(r)
  BY <1>7, CloseTransportInv DEF Cut, Statuses
<1>8. CASE Disconnect(r)
  BY <1>8, CloseTransportInv DEF Disconnect, TransportHolds, Statuses
<1>9. QED
  BY <1>1, <1>2, <1>3, <1>4, <1>5, <1>6, <1>7, <1>8 DEF TransportStep

\* A step of the handler task that keeps it going: it changes the task's stage,
\* its attempts and the wire of its own request at most.
HandlerKeeps(r) ==
    /\ UNCHANGED <<httpVars, report, verdict, applied, signalVars>>
    /\ HandlerHolds(r) /\ HandlerHolds(r)'
    /\ OnlyAbout(r)

LEMMA HandlerKeepsInv ==
    ASSUME IInv, NEW r \in Requests, HandlerKeeps(r), TypeOK',
           wire'[r] = wire[r] \/ /\ wire[r] = 0 /\ applied[r] = 0 /\ wire'[r] = 1
                                 /\ task'[r] = "writing" /\ verdict[r] = "none",
           task[r] = "writing" => task'[r] = "writing"
    PROVE  IInv'
<1> USE DEF IInv
<1>1. Live(r)' <=> Live(r)
  BY DEF HandlerKeeps, Live
<1>2. PermitConservation'
  BY <1>1, OthersKept, LeasesKept DEF HandlerKeeps, httpVars
<1>3. MutationInv(r)' /\ StageInv(r)'
  BY DEF HandlerKeeps, HandlerHolds, MutationInv, StageInv, httpVars, TypeOK, Tasks,
     Verdicts
<1>4. QED
  BY <1>2, <1>3, OthersKept DEF HandlerKeeps

\* A step of the handler task.
LEMMA HandlerStepInv ==
    ASSUME IInv, NEW r \in Requests, HandlerStep(r)
    PROVE  IInv'
<1> USE DEF IInv
<1>1. CASE Begin(r)
  <2>1. TypeOK'
    BY <1>1 DEF Begin, TypeOK, httpVars, coreVars, signalVars, Tasks, MaxAttempts
  <2>2. HandlerKeeps(r)
    BY <1>1 DEF Begin, HandlerKeeps, HandlerHolds, OnlyAbout, TypeOK, httpVars, coreVars
  <2>3. wire'[r] = wire[r] /\ task[r] # "writing"
    BY <1>1 DEF Begin, coreVars
  <2>4. QED
    BY <2>1, <2>2, <2>3, HandlerKeepsInv
<1>2. CASE LookupAnswered(r)
  <2>1. PICK e \in Results :
          \/ /\ attempts[r] < MaxAttempts
             /\ PostAgain(r) /\ UNCHANGED coreVars
          \/ \E p \in {"data", "failed"} : Finish(r, p)
          \/ /\ task' = [task EXCEPT ![r] = "resolved"]
             /\ UNCHANGED <<httpVars, attempts, report, coreVars, signalVars>>
    BY <1>2 DEF LookupAnswered
  <2>2. task[r] = "lookup" /\ HandlerHolds(r)
    BY <1>2 DEF LookupAnswered, HandlerHolds
  <2>3. CASE /\ attempts[r] < MaxAttempts
             /\ PostAgain(r) /\ UNCHANGED coreVars
    <3>1. TypeOK'
      BY <2>3 DEF PostAgain, TypeOK, httpVars, coreVars, signalVars, MaxAttempts
    <3>2. HandlerKeeps(r)
      BY <2>2, <2>3 DEF PostAgain, HandlerKeeps, HandlerHolds, OnlyAbout, httpVars, coreVars
    <3>3. wire'[r] = wire[r]
      BY <2>3 DEF coreVars
    <3>4. QED
      BY <2>2, <3>1, <3>2, <3>3, HandlerKeepsInv
  <2>4. CASE \E p \in {"data", "failed"} : Finish(r, p)
    <3>1. applied[r] = 0 /\ wire[r] = 0
      BY <2>2 DEF MutationInv
    <3>2. QED
      BY <2>2, <2>4, <3>1, FinishInv DEF Reports
  <2>5. CASE /\ task' = [task EXCEPT ![r] = "resolved"]
             /\ UNCHANGED <<httpVars, attempts, report, coreVars, signalVars>>
    <3>1. TypeOK'
      BY <2>5 DEF TypeOK, httpVars, coreVars, signalVars, Tasks
    <3>2. HandlerKeeps(r)
      BY <2>2, <2>5 DEF HandlerKeeps, HandlerHolds, OnlyAbout, TypeOK, httpVars, coreVars
    <3>3. wire'[r] = wire[r]
      BY <2>5 DEF coreVars
    <3>4. QED
      BY <2>2, <3>1, <3>2, <3>3, HandlerKeepsInv
  <2>6. QED
    BY <2>1, <2>3, <2>4, <2>5
<1>3. CASE Clear(r)
  <2>1. TypeOK'
    BY <1>3 DEF Clear, TypeOK, httpVars, coreVars, signalVars, Tasks
  <2>2. HandlerKeeps(r)
    BY <1>3 DEF Clear, HandlerKeeps, HandlerHolds, OnlyAbout, TypeOK, httpVars, coreVars
  <2>3. wire'[r] = wire[r] /\ task[r] # "writing"
    BY <1>3 DEF Clear, coreVars
  <2>4. QED
    BY <2>1, <2>2, <2>3, HandlerKeepsInv
<1>4. CASE Submit(r)
  <2>1. wire[r] = 0 /\ applied[r] = 0 /\ verdict[r] = "none"
    BY <1>4 DEF Submit, MutationInv
  <2>2. wire'[r] = 1 /\ task'[r] = "writing"
    BY <1>4, <2>1 DEF Submit, TypeOK
  <2>3. TypeOK'
    BY <1>4, <2>1 DEF Submit, TypeOK, httpVars, signalVars, Tasks, MaxAttempts
  <2>4. HandlerKeeps(r)
    BY <1>4 DEF Submit, HandlerKeeps, HandlerHolds, OnlyAbout, TypeOK, httpVars
  <2>5. QED
    BY <2>1, <2>2, <2>3, <2>4, HandlerKeepsInv
<1>5. CASE WriteAnswered(r)
  <2>1. verdict[r] \in Verdicts
    BY DEF TypeOK
  <2>2. PICK e \in ResultsAfter(verdict[r]) : Finish(r, WriteReport(e))
    BY <1>5, WritesAreNotRetried DEF WriteAnswered
  <2>3. /\ WriteReport(e) \in {"receipt", "unknown", "failed"}
        /\ WriteReport(e) = "receipt" => verdict[r] = "applied"
        /\ WriteReport(e) = "failed" => verdict[r] = "denied"
    BY <2>1, <2>2, DefiniteResults
  <2>4. WriteReport(e) = "receipt" => applied[r] = 1
    BY <2>3 DEF MutationInv
  <2>5. WriteReport(e) \in {"failed", "data"} => applied[r] = 0 /\ wire[r] = 0
    BY <2>3 DEF MutationInv, TypeOK, MaxAttempts
  <2>6. HandlerHolds(r)
    BY <1>5 DEF WriteAnswered, HandlerHolds
  <2>7. QED
    BY <2>2, <2>3, <2>4, <2>5, <2>6, FinishInv DEF Reports
<1>6. CASE End(r)
  BY <1>6, FinishInv DEF End, EndedReport, HandlerHolds, Reports
<1>7. QED
  BY <1>1, <1>2, <1>3, <1>4, <1>5, <1>6 DEF HandlerStep

\* A step of Core or of the network, which touches the copy on the wire alone.
LEMMA CoreStepInv ==
    ASSUME IInv, NEW r \in Requests, CoreStep(r)
    PROVE  IInv'
<1> USE DEF IInv
<1>1. PICK v \in Verdicts :
        /\ wire[r] > 0
        /\ wire' = [wire EXCEPT ![r] = @ - 1]
        /\ \/ UNCHANGED <<verdict, applied>>
           \/ /\ v # "none"
              /\ verdict' = [verdict EXCEPT ![r] = v]
              /\ applied' = [applied EXCEPT ![r] = IF v = "applied" THEN @ + 1 ELSE @]
        /\ UNCHANGED <<httpVars, handlerVars, signalVars>>
  BY DEF CoreStep, Lose, CoreHandles, Verdicts
<1>2. wire[r] = 1 /\ applied[r] = 0 /\ task[r] \in {"writing", "done"}
  BY <1>1 DEF MutationInv, TypeOK, Tasks, MaxAttempts
<1>3. TypeOK'
  BY <1>1, <1>2 DEF TypeOK, httpVars, handlerVars, signalVars, MaxAttempts
<1>4. OnlyAbout(r)
  BY <1>1 DEF OnlyAbout, TypeOK, httpVars, handlerVars
<1>5. Live(r)' <=> Live(r)
  BY <1>1 DEF Live, TransportHolds, Entered, HandlerHolds, httpVars, handlerVars
<1>6. PermitConservation'
  BY <1>1, <1>4, <1>5, OthersKept, LeasesKept DEF httpVars
<1>7. MutationInv(r)' /\ StageInv(r)'
  <2>1. wire'[r] = 0 /\ task'[r] = task[r] /\ report'[r] = report[r]
    BY <1>1, <1>2 DEF TypeOK, handlerVars
  <2>2. report[r] \notin {"receipt", "failed", "data"}
    BY <1>2 DEF MutationInv
  <2>3. \/ verdict'[r] = verdict[r] /\ applied'[r] = 0
        \/ verdict'[r] = "applied" /\ applied'[r] = 1
        \/ verdict'[r] \in {"denied", "failed"} /\ applied'[r] = 0
    BY <1>1, <1>2 DEF TypeOK, Verdicts
  <2>4. MutationInv(r)'
    BY <1>2, <2>1, <2>2, <2>3 DEF MutationInv
  <2>5. StageInv(r)'
    BY <1>1 DEF StageInv, httpVars, handlerVars
  <2>6. QED
    BY <2>4, <2>5
<1>8. QED
  BY <1>3, <1>4, <1>6, <1>7, OthersKept

\* A step of the clock, of the SDK's cancellation or of the process: only the
\* signals change.
LEMMA SignalStepInv ==
    ASSUME IInv, UNCHANGED <<httpVars, handlerVars, coreVars>>, TypeOK'
    PROVE  IInv'
<1> USE DEF httpVars, handlerVars, coreVars
<1>1. LiveRequests' = LiveRequests
  BY DEF LiveRequests, Live, TransportHolds, Entered, HandlerHolds
<1>2. PermitConservation'
  BY <1>1 DEF IInv, PermitConservation
<1>3. QED
  BY <1>2 DEF IInv, MutationInv, StageInv

LEMMA StepIInv == IInv /\ [Next]_vars => IInv'
<1> SUFFICES ASSUME IInv, [Next]_vars PROVE IInv'
  OBVIOUS
<1>1. CASE Shutdown
  BY <1>1, SignalStepInv DEF Shutdown, IInv, TypeOK, httpVars, handlerVars, coreVars
<1>2. ASSUME NEW r \in Requests, Expire(r) PROVE IInv'
  BY <1>2, SignalStepInv DEF Expire, IInv, TypeOK, httpVars, handlerVars, coreVars
<1>3. ASSUME NEW r \in Requests, CancelRpc(r) PROVE IInv'
  BY <1>3, SignalStepInv DEF CancelRpc, IInv, TypeOK, httpVars, handlerVars, coreVars
<1>4. CASE UNCHANGED vars
  BY <1>4, SignalStepInv DEF vars, IInv, TypeOK, httpVars, handlerVars, coreVars
<1>5. QED
  BY <1>1, <1>2, <1>3, <1>4, TransportStepInv, HandlerStepInv, CoreStepInv DEF Next

-------------------------------------------------------------------------------
(* Theorems *)

\* IInv holds throughout, by induction over the steps.
THEOREM InductiveInvariant == Spec => []IInv
  BY InitIInv, StepIInv, PTL DEF Spec

\* Every variable keeps its type; no count leaves its bounds.
THEOREM TypeCorrect == Spec => []TypeOK
<1>1. IInv => TypeOK
  BY DEF IInv
<1>2. QED
  BY <1>1, InductiveInvariant, PTL

\* The permits in the semaphore and those of live requests, detached handlers
\* included, add up to the limit.
THEOREM PermitsConserved == Spec => []PermitConservation
<1>1. IInv => PermitConservation
  BY DEF IInv
<1>2. QED
  BY <1>1, InductiveInvariant, PTL

\* No write is ever replayed.
THEOREM NeverReplayed == Spec => []AtMostOnce
<1>1. IInv => AtMostOnce
  BY DEF IInv, MutationInv, AtMostOnce
<1>2. QED
  BY <1>1, InductiveInvariant, PTL

\* A receipt and a definite failure are both true and stay true.
THEOREM ReportsAreHonest == Spec => []HonestReport
<1>1. IInv => HonestReport
  BY DEF IInv, MutationInv, HonestReport
<1>2. QED
  BY <1>1, InductiveInvariant, PTL

\* A handler that is short of the last check when its request ends never submits.
THEOREM LateWorkStops == Spec => NoLateSubmission
<1> DEFINE Stops(r) ==
      Ended(r) /\ task[r] \in {"queued", "lookup", "resolved"}
        => task'[r] \in {task[r], "resolved", "done"}
<1>1. IInv /\ [Next]_vars => \A r \in Requests : Stops(r)
  <2> SUFFICES ASSUME IInv, [Next]_vars, NEW r \in Requests, Ended(r),
                      task[r] \in {"queued", "lookup", "resolved"}
               PROVE  task'[r] \in {task[r], "resolved", "done"}
    OBVIOUS
  <2> USE DEF IInv, TypeOK
  <2>1. CASE UNCHANGED task
    BY <2>1
  <2>2. ASSUME NEW q \in Requests, TransportStep(q) PROVE task'[r] = task[r]
    <3>1. CASE Spawn(q)
      BY <3>1 DEF Spawn, StageInv
    <3>2. CASE ~Spawn(q)
      BY <2>2, <3>2 DEF TransportStep, Arrive, Acquire, Enter, Refuse, Reject, Respond, Deliver, Cut,
         Disconnect, CloseTransport, handlerVars
    <3>3. QED
      BY <3>1, <3>2
  <2>3. ASSUME NEW q \in Requests, HandlerStep(q)
        PROVE  task'[r] \in {task[r], "resolved", "done"}
    <3>1. CASE q # r
      BY <2>3, <3>1 DEF HandlerStep, Begin, LookupAnswered, Clear, Submit, WriteAnswered,
         End, Finish, PostAgain
    <3>2. CASE q = r
      BY <2>3, <3>2 DEF HandlerStep, Begin, LookupAnswered, Clear, Submit, WriteAnswered,
         End, Finish, PostAgain
    <3>3. QED
      BY <3>1, <3>2
  <2>4. QED
    BY <2>1, <2>2, <2>3 DEF Next, vars, Shutdown, Expire, CancelRpc, CoreStep, Lose,
       CoreHandles, handlerVars
<1>2. QED
  BY <1>1, InductiveInvariant, PTL DEF Spec, NoLateSubmission

\* A server at rest in a shutdown stays at rest: whoever still takes a permit
\* leaves without having been worked on.
THEOREM RestIsFinal == Spec => DrainedStaysAtRest
<1> DEFINE Kept ==
      /\ AtRest'
      /\ \A r \in Requests :
            /\ wire'[r] <= wire[r]
            /\ status'[r] \in {status[r], "refused", "cut"}
<1>1. IInv /\ [Next]_vars => (AtRest => Kept)
  <2> SUFFICES ASSUME IInv, [Next]_vars, AtRest PROVE Kept
    OBVIOUS
  <2> USE DEF IInv, TypeOK
  <2>1. shutdown /\ shutdown'
    <3>1. ASSUME NEW r \in Requests, TransportStep(r) PROVE UNCHANGED signalVars
      BY <3>1 DEF TransportStep, Arrive, Acquire, Enter, Refuse, Reject, Spawn, Respond,
         Deliver, Cut, Disconnect, CloseTransport
    <3>2. ASSUME NEW r \in Requests, HandlerStep(r) PROVE UNCHANGED signalVars
      BY <3>2 DEF HandlerStep, Begin, LookupAnswered, Clear, Submit, WriteAnswered, End,
         Finish, PostAgain
    <3>3. ASSUME NEW r \in Requests, CoreStep(r) PROVE UNCHANGED signalVars
      BY <3>3 DEF CoreStep, Lose, CoreHandles
    <3>4. QED
      BY <3>1, <3>2, <3>3 DEF AtRest, Next, vars, Shutdown, Expire, CancelRpc, signalVars
  <2>2. \A r \in Requests : ~Entered(r) /\ ~HandlerHolds(r) /\ Cancelled(r)
    BY <2>1 DEF AtRest, Cancelled
  <2>3. ASSUME NEW q \in Requests, TransportStep(q) PROVE Kept
    <3>1. Acquire(q) \/ Refuse(q) \/ Cut(q)
      BY <2>1, <2>2, <2>3 DEF TransportStep, Arrive, Enter, Reject, Spawn, Respond,
         Deliver, Disconnect, Entered
    <3>2. UNCHANGED <<task, wire>>
      BY <3>1 DEF Acquire, Refuse, Cut, CloseTransport, handlerVars, coreVars
    <3>3. ASSUME NEW r \in Requests
          PROVE  /\ transport'[r] \in {transport[r], "admitted", "closed"}
                 /\ status'[r] \in {status[r], "refused", "cut"}
      BY <3>1 DEF Acquire, Refuse, Cut, CloseTransport
    <3>4. QED
      BY <2>1, <2>2, <3>2, <3>3 DEF AtRest, Entered, HandlerHolds
  <2>4. ASSUME NEW q \in Requests, HandlerStep(q) PROVE FALSE
    BY <2>2, <2>4 DEF HandlerStep, Begin, LookupAnswered, Clear, Submit, WriteAnswered,
       End, HandlerHolds
  <2>5. ASSUME NEW q \in Requests, CoreStep(q) PROVE Kept
    <3>1. UNCHANGED <<transport, task, status>> /\ wire' = [wire EXCEPT ![q] = @ - 1]
      BY <2>5 DEF CoreStep, Lose, CoreHandles, httpVars, handlerVars
    <3>2. \A r \in Requests : wire'[r] <= wire[r]
      BY <3>1 DEF MaxAttempts
    <3>3. QED
      BY <2>1, <2>2, <3>1, <3>2 DEF AtRest, Entered, HandlerHolds
  <2>6. CASE UNCHANGED <<transport, task, status, wire>>
    <3>1. \A r \in Requests : wire'[r] <= wire[r]
      BY <2>6 DEF MaxAttempts
    <3>2. QED
      BY <2>1, <2>2, <2>6, <3>1 DEF AtRest, Entered, HandlerHolds
  <2>7. QED
    BY <2>3, <2>4, <2>5, <2>6 DEF Next, vars, Shutdown, Expire, CancelRpc, httpVars,
       handlerVars, coreVars
<1>2. QED
  BY <1>1, InductiveInvariant, PTL DEF Spec, DrainedStaysAtRest

-------------------------------------------------------------------------------
(* The lifecycle implements MutationContract *)

\* What a caller was told agrees with what happened and can still happen.
ToldInv(r) ==
    /\ Told(r) \in {"pending", "applied", "notApplied", "unknown"}
    /\ Told(r) = "pending" <=> status[r] = "none"
    /\ Told(r) = "applied" => applied[r] = 1
    /\ Told(r) = "notApplied" => applied[r] = 0 /\ wire[r] = 0

LEMMA ToldHonest == IInv => \A r \in Requests : ToldInv(r)
<1> SUFFICES ASSUME IInv, NEW r \in Requests PROVE ToldInv(r)
  OBVIOUS
<1>1. status[r] \in Statuses /\ report[r] \in Reports
  BY DEF IInv, TypeOK
<1>2. CASE status[r] = "delivered"
  BY <1>1, <1>2 DEF Told, ToldInv, Reports, IInv, MutationInv
<1>3. CASE status[r] # "delivered"
  BY <1>1, <1>3 DEF Told, ToldInv, Statuses, IInv, MutationInv, StageInv
<1>4. QED
  BY <1>2, <1>3

LEMMA ToldStaysHonest == IInv' => \A r \in Requests : ToldInv(r)'
<1>1. IInv' => (\A r \in Requests : ToldInv(r))'
  BY ToldHonest, PTL
<1>2. QED
  BY <1>1

\* A step about r under which r's caller learns something, or nothing changes.
LEMMA TellStep ==
    ASSUME IInv, IInv', NEW r \in Requests, OnlyAbout(r), applied' = applied,
           status'[r] = status[r] => Told(r)' = Told(r),
           status'[r] # status[r] => status[r] = "none"
    PROVE  [Contract!ContractNext]_(Contract!contractVars)
<1> DEFINE told == [q \in Requests |-> Told(q)]
<1>1. \A q \in Requests \ {r} : Told(q)' = Told(q)
  BY DEF OnlyAbout, Told
<1>2. CASE status'[r] = status[r]
  <2>1. told' = told
    BY <1>1, <1>2
  <2>2. QED
    BY <2>1 DEF Contract!contractVars
<1>3. CASE status'[r] # status[r]
  <2>1. Told(r) = "pending" /\ Told(r)' \in Contract!Answers \ {"pending"}
    BY <1>3, ToldHonest, ToldStaysHonest DEF ToldInv, Contract!Answers
  <2>2. /\ Told(r)' = "applied" => applied'[r] = 1
        /\ Told(r)' = "notApplied" => applied'[r] = 0
    BY ToldStaysHonest DEF ToldInv
  <2>3. told' = [told EXCEPT ![r] = Told(r)']
    BY <1>1
  <2>4. PICK a \in Contract!Answers \ {"pending"} : a = Told(r)'
    BY <2>1
  <2>5. told[r] = "pending" /\ told' = [told EXCEPT ![r] = a]
    BY <2>1, <2>3, <2>4
  <2>6. (a = "applied" => applied[r] = 1) /\ (a = "notApplied" => applied[r] = 0)
    BY <2>2, <2>4
  <2>7. Contract!Tell(r, a)
    BY <2>5, <2>6 DEF Contract!Tell
  <2>8. QED
    BY <2>7 DEF Contract!ContractNext
<1>4. QED
  BY <1>2, <1>3

\* Core accepts the one copy on the wire: the contract's effect.
LEMMA EffectStep ==
    ASSUME IInv, NEW r \in Requests, CoreHandles(r, "applied")
    PROVE  [Contract!ContractNext]_(Contract!contractVars)
<1> DEFINE told == [q \in Requests |-> Told(q)]
<1>1. /\ wire[r] = 1 /\ applied[r] = 0 /\ applied' = [applied EXCEPT ![r] = 1]
      /\ UNCHANGED <<status, report>>
  <2>1. wire[r] = 1 /\ applied[r] = 0
    BY DEF CoreHandles, IInv, MutationInv, TypeOK, MaxAttempts
  <2>2. applied' = [applied EXCEPT ![r] = applied[r] + 1]
    BY DEF CoreHandles
  <2>3. UNCHANGED <<status, report>>
    BY DEF CoreHandles, httpVars, handlerVars
  <2>4. QED
    BY <2>1, <2>2, <2>3
<1>2. told' = told
  BY <1>1 DEF Told
<1>3. told[r] # "notApplied"
  BY <1>1, ToldHonest DEF ToldInv
<1>4. Contract!TakeEffect(r)
  BY <1>1, <1>2, <1>3 DEF Contract!TakeEffect
<1>5. QED
  BY <1>4 DEF Contract!ContractNext

\* A step that tells nobody anything and takes no effect is a stutter.
LEMMA StutterStep ==
    ASSUME applied' = applied, \A q \in Requests : Told(q)' = Told(q)
    PROVE  [Contract!ContractNext]_(Contract!contractVars)
  BY DEF Contract!contractVars

LEMMA StepRefines ==
    IInv /\ IInv' /\ [Next]_vars => [Contract!ContractNext]_(Contract!contractVars)
<1> SUFFICES ASSUME IInv, IInv', [Next]_vars
             PROVE  [Contract!ContractNext]_(Contract!contractVars)
  OBVIOUS
<1>1. ASSUME NEW r \in Requests, TransportStep(r)
      PROVE  [Contract!ContractNext]_(Contract!contractVars)
  <2>1. OnlyAbout(r) /\ applied' = applied /\ report' = report
    BY <1>1 DEF TransportStep, Arrive, Acquire, Enter, Refuse, Reject, Spawn, Respond, Deliver, Cut,
       Disconnect, CloseTransport, OnlyAbout, handlerVars, coreVars, IInv, TypeOK
  <2>2. status'[r] # status[r] => status[r] = "none"
    BY <1>1 DEF TransportStep, Arrive, Acquire, Enter, Refuse, Reject, Spawn, Respond, Deliver, Cut,
       Disconnect, CloseTransport, TransportHolds, Entered, IInv, StageInv
  <2>3. status'[r] = status[r] => Told(r)' = Told(r)
    BY <2>1 DEF Told
  <2>4. QED
    BY <2>1, <2>2, <2>3, TellStep
<1>2. ASSUME NEW r \in Requests, HandlerStep(r)
      PROVE  [Contract!ContractNext]_(Contract!contractVars)
  <2>1. applied' = applied /\ status' = status
    BY <1>2 DEF HandlerStep, Begin, LookupAnswered, Clear, Submit, WriteAnswered, End,
       Finish, PostAgain, httpVars, coreVars
  <2>2. status[r] # "delivered"
    BY <1>2 DEF HandlerStep, Begin, LookupAnswered, Clear, Submit, WriteAnswered, End,
       IInv, StageInv
  <2>3. \A q \in Requests \ {r} : report'[q] = report[q]
    BY <1>2 DEF HandlerStep, Begin, LookupAnswered, Clear, Submit, WriteAnswered, End,
       Finish, PostAgain, httpVars, coreVars, IInv, TypeOK
  <2>4. \A q \in Requests : Told(q)' = Told(q)
    <3>1. \A q \in Requests \ {r} : Told(q)' = Told(q)
      BY <2>1, <2>3 DEF Told
    <3>2. Told(r)' = Told(r)
      BY <2>1, <2>2 DEF Told, IInv, TypeOK, Statuses
    <3>3. QED
      BY <3>1, <3>2
  <2>5. QED
    BY <2>1, <2>4, StutterStep
<1>3. ASSUME NEW r \in Requests, CoreStep(r)
      PROVE  [Contract!ContractNext]_(Contract!contractVars)
  <2>1. CASE CoreHandles(r, "applied")
    BY <2>1, EffectStep
  <2>2. CASE ~CoreHandles(r, "applied")
    <3>1. applied' = applied /\ status' = status /\ report' = report
      BY <1>3, <2>2 DEF CoreStep, Lose, CoreHandles, httpVars, handlerVars, IInv, TypeOK
    <3>2. QED
      BY <3>1, StutterStep DEF Told
  <2>3. QED
    BY <2>1, <2>2
<1>4. CASE \/ Shutdown \/ UNCHANGED vars
           \/ \E r \in Requests : Expire(r) \/ CancelRpc(r)
  <2>1. applied' = applied /\ status' = status /\ report' = report
    BY <1>4 DEF Shutdown, Expire, CancelRpc, vars, httpVars, handlerVars, coreVars
  <2>2. QED
    BY <2>1, StutterStep DEF Told
<1>5. QED
  BY <1>1, <1>2, <1>3, <1>4 DEF Next

\* The server keeps its contract with every caller: a mutation takes effect at
\* most once, and no answer contradicts what happened or can still happen.
THEOREM Refinement == Spec => ImplementsContract
<1>1. Init => Contract!ContractInit
  <2> SUFFICES ASSUME Init PROVE Contract!ContractInit
    OBVIOUS
  <2>1. ASSUME NEW r \in Requests PROVE Told(r) = "pending"
    BY DEF Init, Told
  <2>2. QED
    BY <2>1 DEF Init, Contract!ContractInit
<1>2. QED
  BY <1>1, StepRefines, InductiveInvariant, PTL
     DEF Spec, ImplementsContract, Contract!ContractSpec

===============================================================================
