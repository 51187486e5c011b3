--------------------------- MODULE RequestLifecycle ---------------------------
(***************************************************************************)
(* The life of a tool call over HTTP, from admission to the return of its  *)
(* concurrency permit, with the mutation it may submit to Komodo Core.     *)
(*                                                                         *)
(* Two tasks work for one request.  The TRANSPORT task runs the middleware *)
(* `admit` and then owns the response body; it holds the permit and, on    *)
(* being dropped, cancels the request's token.  The HANDLER task, which    *)
(* the MCP SDK spawns detached, runs the tool; it holds a clone of the     *)
(* permit.  The permit returns when both are gone.  A third actor, Core,   *)
(* receives what the handler posts and may act on it after everyone here   *)
(* has given up.                                                           *)
(***************************************************************************)
EXTENDS Naturals, FiniteSets

CONSTANTS
    Requests,   \* the requests that may arrive
    Limit       \* max_concurrent_requests, the permits of the semaphore

ASSUME RequestsFinite == IsFiniteSet(Requests)
ASSUME LimitPositive == Limit \in Nat \ {0}

VARIABLES
    shutdown,    \* the process-wide cancellation token
    permits,     \* permits left in the semaphore
    transport,   \* transport[r]: where the transport task of r is
    status,      \* status[r]: what the HTTP caller of r got
    expired,     \* expired[r]: the clock has passed the deadline of r
    rpcEnded,    \* rpcEnded[r]: the SDK cancelled the call's own token
    task,        \* task[r]: where the handler task of r is
    attempts,    \* attempts[r]: times the current upstream call was posted
    report,      \* report[r]: how the handler ended
    wire,        \* wire[r]: copies of the mutation on their way to Core
    verdict,     \* verdict[r]: what Core did with the last copy it handled
    applied      \* applied[r]: times Core accepted the mutation

httpVars == <<permits, transport, status>>
handlerVars == <<task, attempts, report>>
coreVars == <<wire, verdict, applied>>
signalVars == <<shutdown, expired, rpcEnded>>
vars == <<shutdown, permits, transport, status, expired, rpcEnded, task,
          attempts, report, wire, verdict, applied>>

Transports ==
    {"absent", "arriving", "admitted", "ingress", "serving", "body", "closed"}
Statuses == {"none", "refused", "rejected", "cut", "disconnected", "delivered"}
Tasks == {"none", "queued", "lookup", "resolved", "cleared", "writing", "done"}
Reports == {"none", "data", "receipt", "failed", "unknown"}
Verdicts == {"none", "applied", "denied", "failed"}
MaxAttempts == 2

TypeOK ==
    /\ shutdown \in BOOLEAN
    /\ permits \in 0..Limit
    /\ transport \in [Requests -> Transports]
    /\ status \in [Requests -> Statuses]
    /\ expired \in [Requests -> BOOLEAN]
    /\ rpcEnded \in [Requests -> BOOLEAN]
    /\ task \in [Requests -> Tasks]
    /\ attempts \in [Requests -> 0..MaxAttempts]
    /\ report \in [Requests -> Reports]
    /\ wire \in [Requests -> 0..MaxAttempts]
    /\ verdict \in [Requests -> Verdicts]
    /\ applied \in [Requests -> 0..MaxAttempts]

Init ==
    /\ shutdown = FALSE
    /\ permits = Limit
    /\ transport = [r \in Requests |-> "absent"]
    /\ status = [r \in Requests |-> "none"]
    /\ expired = [r \in Requests |-> FALSE]
    /\ rpcEnded = [r \in Requests |-> FALSE]
    /\ task = [r \in Requests |-> "none"]
    /\ attempts = [r \in Requests |-> 0]
    /\ report = [r \in Requests |-> "none"]
    /\ wire = [r \in Requests |-> 0]
    /\ verdict = [r \in Requests |-> "none"]
    /\ applied = [r \in Requests |-> 0]

-------------------------------------------------------------------------------
(* Leases and the request's lifetime *)

\* Inside `admit`'s select: the inner layers, the SDK or the body may act for r.
Entered(r) == transport[r] \in {"ingress", "serving", "body"}
TransportHolds(r) == transport[r] = "admitted" \/ Entered(r)
HandlerHolds(r) == task[r] \notin {"none", "done"}

\* The request occupies a permit.
Live(r) == TransportHolds(r) \/ HandlerHolds(r)
LiveRequests == {r \in Requests : Live(r)}

\* The permit comes back with the last lease: `n` is what the semaphore holds
\* when one of the two tasks drops its clone and `other` says whether the
\* other still has one.
\* (Variant: the transport's or the handler's lease alone returns the permit.)
AfterDropUncounted(other) == permits + 1
AfterDrop(other) == IF other THEN permits ELSE permits + 1

\* The request's token: a child of the shutdown token, cancelled by the drop
\* guard that the transport future, and later the body, owns.
Cancelled(r) == shutdown \/ transport[r] = "closed"

\* ExecutionBudget::check together with the rpc token, as `admin` tests them.
Ended(r) == Cancelled(r) \/ expired[r] \/ rpcEnded[r]

-------------------------------------------------------------------------------
(* One exchange with Core, as the client sees it *)

\* The status line and what became of the body.  "denied" stands for 401, 403
\* and 404, "client" for every other status below 500 that is no success.
Exchanges ==
    [code : {"success", "denied", "client", "server"},
     body : {"complete", "interrupted", "oversize", "garbled"}]

\* The result of a post that got as far as a status line.  A failed body keeps
\* the status of a failed request, and loses the one of a success.
PostOnce(x) ==
    IF x.code # "success"
    THEN x.code
    ELSE [complete    |-> "ok",
          interrupted |-> "Unavailable",
          oversize    |-> "ResponseTooLarge",
          garbled     |-> "IncompatibleResponse"][x.body]

\* Every result a post may have; "Unavailable" also stands for a connection
\* that failed or timed out with no answer at all.
Results == {PostOnce(x) : x \in Exchanges} \cup {"Unavailable"}

\* The only retry of the client: reads, once, after no answer or a 5xx.
\* (Variant: writes are retried like reads.)
MayRetryAny(family, e) == e \in {"Unavailable", "server"}
MayRetry(family, e) == family = "read" /\ e \in {"Unavailable", "server"}

\* ApiError::mutation_outcome_unknown.
\* (Variant: an answer that cannot be parsed counts as a definite failure.)
OutcomeUnknownTransportOnly(e) == e \in {"Unavailable", "client", "server"}
OutcomeUnknown(e) ==
    e \in {"Unavailable", "IncompatibleResponse", "ResponseTooLarge",
           "client", "server"}

\* The results the handler may see for its submission, given what Core did with
\* it.  Core is trusted not to answer 401, 403 or 404 to what it accepted.
ResultsAfter(v) ==
    {"Unavailable"} \cup
    [none    |-> {},
     applied |-> Results \ {"denied"},
     denied  |-> {"denied"},
     failed  |-> {"client", "server"}][v]

-------------------------------------------------------------------------------
(* The transport task: admission, answer, body *)

\* A request reaches `admit`: its deadline starts, and the token is looked at.
Arrive(r) ==
    /\ transport[r] = "absent"
    /\ ~shutdown
    /\ transport' = [transport EXCEPT ![r] = "arriving"]
    /\ UNCHANGED <<permits, status, handlerVars, coreVars, signalVars>>

\* It takes a permit, without another look at the token, which another thread may
\* have cancelled meanwhile.
Acquire(r) ==
    /\ transport[r] = "arriving"
    /\ permits > 0
    /\ transport' = [transport EXCEPT ![r] = "admitted"]
    /\ permits' = permits - 1
    /\ UNCHANGED <<status, handlerVars, coreVars, signalVars>>

\* 503 at once, with no queue, when shutting down or out of permits.
Refuse(r) ==
    /\ \/ transport[r] = "absent" /\ shutdown
       \/ transport[r] = "arriving" /\ permits = 0
    /\ transport' = [transport EXCEPT ![r] = "closed"]
    /\ status' = [status EXCEPT ![r] = "refused"]
    /\ UNCHANGED <<permits, handlerVars, coreVars, signalVars>>

\* The first poll of the select looks at the request's token, then runs the inner
\* layers.  Here and below, what a poll does after it found the token alive is
\* put at that look.
\* (Variant: the select has no branch for the token.)
EnterUnlooked(r) ==
    /\ transport[r] = "admitted"
    /\ transport' = [transport EXCEPT ![r] = "ingress"]
    /\ UNCHANGED <<permits, status, handlerVars, coreVars, signalVars>>
Enter(r) ==
    /\ transport[r] = "admitted"
    /\ ~Cancelled(r)
    /\ transport' = [transport EXCEPT ![r] = "ingress"]
    /\ UNCHANGED <<permits, status, handlerVars, coreVars, signalVars>>

\* The transport task of r ends with status st and drops its lease.
CloseTransport(r, st) ==
    /\ transport' = [transport EXCEPT ![r] = "closed"]
    /\ status' = [status EXCEPT ![r] = st]
    /\ permits' = AfterDrop(HandlerHolds(r))
    /\ UNCHANGED <<handlerVars, coreVars, signalVars>>

\* The layers inside `admit` answer 401, 403 or 413 with an empty body, which is
\* returned without a LifetimeBody.
Reject(r) ==
    /\ transport[r] = "ingress"
    /\ ~Cancelled(r)
    /\ CloseTransport(r, "rejected")

\* Authenticated and read, the call goes to the SDK, which copies the request's
\* parts, the lease among them, into a task of its own.
Spawn(r) ==
    /\ transport[r] = "ingress"
    /\ ~Cancelled(r)
    /\ transport' = [transport EXCEPT ![r] = "serving"]
    /\ task' = [task EXCEPT ![r] = "queued"]
    /\ UNCHANGED <<permits, status, attempts, report, coreVars, signalVars>>

\* The handler's message becomes the JSON response; the lease and the drop guard
\* move into its body.
Respond(r) ==
    /\ transport[r] = "serving"
    /\ task[r] = "done"
    /\ ~Cancelled(r)
    /\ transport' = [transport EXCEPT ![r] = "body"]
    /\ UNCHANGED <<permits, status, handlerVars, coreVars, signalVars>>

\* The body's last frame is taken and the body dropped.
Deliver(r) ==
    /\ transport[r] = "body"
    /\ ~Cancelled(r)
    /\ CloseTransport(r, "delivered")

\* The lifetime ended first: 503 or 408 in place of an answer, or a body that
\* fails with TimedOut.  The timer may be seen late, so the other exits stay
\* open after the deadline; a cancelled token is always seen.
Cut(r) ==
    /\ TransportHolds(r)
    /\ Cancelled(r) \/ expired[r]
    /\ CloseTransport(r, "cut")

\* The caller hangs up and the server drops the response future or body, which is
\* not before the select has been polled once.
Disconnect(r) ==
    /\ Entered(r)
    /\ CloseTransport(r, "disconnected")

-------------------------------------------------------------------------------
(* The handler task: resolve the target, check the lifetime, submit *)

\* The handler ends with report p and drops its lease.
Finish(r, p) ==
    /\ task' = [task EXCEPT ![r] = "done"]
    /\ report' = [report EXCEPT ![r] = p]
    /\ permits' = AfterDrop(TransportHolds(r))
    /\ UNCHANGED <<transport, status, attempts, coreVars, signalVars>>

\* Post again, the previous attempt having failed.
PostAgain(r) ==
    /\ attempts' = [attempts EXCEPT ![r] = @ + 1]
    /\ UNCHANGED <<httpVars, task, report, signalVars>>

\* The first poll: the budget is checked, then the tool reads Core to find its
\* target (or, for a query, its data).
Begin(r) ==
    /\ task[r] = "queued"
    /\ ~Ended(r)
    /\ task' = [task EXCEPT ![r] = "lookup"]
    /\ attempts' = [attempts EXCEPT ![r] = 1]
    /\ UNCHANGED <<httpVars, report, coreVars, signalVars>>

\* The read is over with result e.  It is retried once when it may be; else it
\* fails the call, completes a query, or leaves one target or no unique one.
LookupAnswered(r) ==
    /\ task[r] = "lookup"
    /\ ~Cancelled(r) /\ ~rpcEnded[r]
    /\ \E e \in Results :
        IF MayRetry("read", e) /\ attempts[r] < MaxAttempts
        THEN PostAgain(r) /\ UNCHANGED coreVars
        ELSE \/ e # "ok" /\ Finish(r, "failed")
             \/ e = "ok" /\ \E p \in {"data", "failed"} : Finish(r, p)
             \/ /\ e = "ok"
                /\ task' = [task EXCEPT ![r] = "resolved"]
                /\ UNCHANGED <<httpVars, attempts, report, coreVars, signalVars>>

\* `admin` looks once more at the lifetime, later in the same poll: a token
\* cancelled meanwhile on another thread, or the clock, may stop it here.
\* (Variant: the lifetime is not looked at again after the reads.)
ClearUnchecked(r) ==
    /\ task[r] = "resolved"
    /\ task' = [task EXCEPT ![r] = "cleared"]
    /\ UNCHANGED <<httpVars, attempts, report, coreVars, signalVars>>
Clear(r) ==
    /\ task[r] = "resolved"
    /\ ~Ended(r)
    /\ task' = [task EXCEPT ![r] = "cleared"]
    /\ UNCHANGED <<httpVars, attempts, report, coreVars, signalVars>>

\* The mutation is posted, still in that poll.
Submit(r) ==
    /\ task[r] = "cleared"
    /\ task' = [task EXCEPT ![r] = "writing"]
    /\ attempts' = [attempts EXCEPT ![r] = 1]
    /\ wire' = [wire EXCEPT ![r] = @ + 1]
    /\ UNCHANGED <<httpVars, report, verdict, applied, signalVars>>

\* What the handler makes of the result of its submission.
WriteReport(e) ==
    IF e = "ok" THEN "receipt" ELSE IF OutcomeUnknown(e) THEN "unknown" ELSE "failed"

\* The post of the mutation is over with result e, through the same `post`.
WriteAnswered(r) ==
    /\ task[r] = "writing"
    /\ ~Cancelled(r) /\ ~rpcEnded[r]
    /\ \E e \in ResultsAfter(verdict[r]) :
        IF MayRetry("write", e) /\ attempts[r] < MaxAttempts
        THEN /\ PostAgain(r)
             /\ wire' = [wire EXCEPT ![r] = @ + 1]
             /\ UNCHANGED <<verdict, applied>>
        ELSE Finish(r, WriteReport(e))

\* The lifetime is over: a handler that is waiting, about to start or about to
\* submit answers `ended`, its outcome unknown.
\* (Variant: the handler has no budget and watches the rpc token alone.)
EndedReport == "unknown"
EndOnRpcOnly(r) ==
    /\ task[r] \in {"queued", "lookup", "resolved", "writing"}
    /\ rpcEnded[r]
    /\ Finish(r, EndedReport)
End(r) ==
    /\ task[r] \in {"queued", "lookup", "resolved", "writing"}
    /\ Ended(r)
    /\ Finish(r, EndedReport)

-------------------------------------------------------------------------------
(* Core, the clock and the process *)

\* A copy of the mutation arrives at Core, which accepts it, denies it with 401,
\* 403 or 404, or fails it with another status.
CoreHandles(r, v) ==
    /\ wire[r] > 0
    /\ wire' = [wire EXCEPT ![r] = @ - 1]
    /\ verdict' = [verdict EXCEPT ![r] = v]
    /\ applied' = [applied EXCEPT ![r] = IF v = "applied" THEN @ + 1 ELSE @]
    /\ UNCHANGED <<httpVars, handlerVars, signalVars>>

\* The copy never arrives: the connection failed, or the handler was dropped
\* before it was sent.
Lose(r) ==
    /\ wire[r] > 0
    /\ wire' = [wire EXCEPT ![r] = @ - 1]
    /\ UNCHANGED <<httpVars, handlerVars, verdict, applied, signalVars>>

\* The clock passes the deadline of a request.
Expire(r) ==
    /\ Live(r) \/ transport[r] = "arriving"
    /\ ~expired[r]
    /\ expired' = [expired EXCEPT ![r] = TRUE]
    /\ UNCHANGED <<shutdown, rpcEnded, httpVars, handlerVars, coreVars>>

\* The SDK cancels the call's own token.
CancelRpc(r) ==
    /\ HandlerHolds(r)
    /\ ~rpcEnded[r]
    /\ rpcEnded' = [rpcEnded EXCEPT ![r] = TRUE]
    /\ UNCHANGED <<shutdown, expired, httpVars, handlerVars, coreVars>>

\* SIGINT or SIGTERM.
Shutdown ==
    /\ ~shutdown
    /\ shutdown' = TRUE
    /\ UNCHANGED <<expired, rpcEnded, httpVars, handlerVars, coreVars>>

TransportStep(r) ==
    \/ Arrive(r) \/ Acquire(r) \/ Refuse(r) \/ Enter(r) \/ Reject(r) \/ Spawn(r)
    \/ Respond(r) \/ Deliver(r) \/ Cut(r) \/ Disconnect(r)
HandlerStep(r) ==
    \/ Begin(r) \/ LookupAnswered(r) \/ Clear(r) \/ Submit(r)
    \/ WriteAnswered(r) \/ End(r)
CoreStep(r) == Lose(r) \/ \E v \in Verdicts \ {"none"} : CoreHandles(r, v)

Next ==
    \/ Shutdown
    \/ \E r \in Requests :
        \/ TransportStep(r) \/ HandlerStep(r) \/ CoreStep(r)
        \/ Expire(r) \/ CancelRpc(r)

Spec == Init /\ [][Next]_vars

\* The runtime polls a task whose timer or token is ready, hyper polls the body
\* of a response it was given, and the clock advances.  Nothing is assumed of
\* Core, of the caller or of the ingress layers: the deadline bounds them all.
Fairness ==
    \A r \in Requests :
        /\ WF_vars(Expire(r))
        /\ WF_vars(Cut(r))
        /\ WF_vars(End(r))
        /\ WF_vars(Submit(r))

FairSpec == Spec /\ Fairness

-------------------------------------------------------------------------------
(* Correctness *)

\* Permits are neither lost nor conjured: what the semaphore holds and what the
\* live requests hold, work detached from an answered or abandoned HTTP request
\* included, add up to the limit (`admit`, the lease clones of `call_tool`).
PermitConservation == permits + Cardinality(LiveRequests) = Limit

\* A mutation is accepted by Core at most once whatever is lost, late or
\* abandoned, and once it was accepted no further copy is under way: no layer
\* replays a write (Client::post, retry_read = false).
AtMostOnce == \A r \in Requests : wire[r] + applied[r] <= 1

\* A handler's definite failure is final: Core did not accept the mutation and
\* no copy is left that it could still accept; a receipt means acceptance
\* (mutation_error, mutation_outcome_unknown, ended).
HonestReport ==
    \A r \in Requests :
        /\ report[r] = "receipt" => applied[r] = 1
        /\ report[r] \in {"failed", "data"} => applied[r] = 0 /\ wire[r] = 0

\* Once a request has ended (deadline, hang-up, shutdown, rpc cancellation) with
\* its handler still short of the final check, the handler never gets to submit,
\* however far its reads had come (KomodoMcp::admin).
NoLateSubmission ==
    [][\A r \in Requests :
          Ended(r) /\ task[r] \in {"queued", "lookup", "resolved"}
            => task'[r] \in {task[r], "resolved", "done"}]_vars

\* The server is at rest in a shutdown: no request is being worked on.
AtRest == shutdown /\ \A r \in Requests : ~Entered(r) /\ ~HandlerHolds(r)

\* At rest it stays at rest.  A request that had looked at the token before it was
\* cancelled may still take a permit behind the drain, but no layer and no handler
\* sees it, Core is sent nothing for it, and its caller is refused or cut off
\* (admit: the child token, looked at first).
DrainedStaysAtRest ==
    [][AtRest => /\ AtRest'
                 /\ \A r \in Requests :
                       /\ wire'[r] <= wire[r]
                       /\ status'[r] \in {status[r], "refused", "cut"}]_vars

\* What the caller can conclude from what it received.
Told(r) ==
    CASE status[r] = "none" -> "pending"
      [] status[r] \in {"refused", "rejected"} -> "notApplied"
      [] status[r] \in {"cut", "disconnected"} -> "unknown"
      [] status[r] = "delivered" ->
            [receipt |-> "applied", failed |-> "notApplied", none |-> "unknown",
             data |-> "notApplied", unknown |-> "unknown"][report[r]]

\* The lifecycle implements the contract of one honest, at-most-once mutation.
Contract == INSTANCE MutationContract WITH
    effect <- applied,
    told <- [r \in Requests |-> Told(r)]
ImplementsContract == Contract!ContractSpec

\* Every permit an admitted request took comes back, and its HTTP caller is
\* answered or gone, though Core may hang and callers may stall: the deadline
\* ends the transport task and then the handler it left behind.
PermitReturns == \A r \in Requests : Live(r) ~> ~Live(r)

===============================================================================
