---------------------------------- MODULE Ingress ----------------------------------
(***************************************************************************)
(* One HTTP request on its way through the layers of the router: admission *)
(* with its deadline, the gateway's headers, the identity token, the body, *)
(* and then the handler, all while time passes.                            *)
(*                                                                         *)
(* A tick is thirty seconds. A token is known by the time since it was     *)
(* issued and the time left until it expires, both of which may be         *)
(* negative. Where its key comes from is in JwksCache, how requests share  *)
(* permits in RequestLifecycle.                                            *)
(***************************************************************************)
EXTENDS Startup

VARIABLES
    stage,      \* idle, verifying, receiving, handling, answered
    status,     \* of the answer, or 0
    age, left,  \* of the token that was accepted
    budget      \* what is left of the request's lifetime

request == <<stage, status, age, left, budget>>

-------------------------------------------------------------------------------
(* The checks *)

ClockSkew == 1      \* 30 seconds
MaximumAge == 8     \* 240
MaximumLifetime == 10   \* 300

Ticks(seconds) == (seconds + 29) \div 30

\* What a request may carry. The identity's form names its one defect, if it has one.
Hosts == {"listed", "other", "none"}
Origins == {"listed", "other", "none"}
BearersSupplied == {"current", "previous", "other", "none"}
Identities == {"sound", "absent", "algorithm", "key id", "key", "signature", "issuer",
               "audience", "subject", "actor", "groups"}

\* GatewayBearers::accepts.
AcceptsBearer(b) ==
    \/ b = "current"
    \/ b = "previous" /\ settings["BEARER_PREVIOUS"] = "strong"

\* authenticate up to the identity: the status that refuses, or 0. The origin is
\* forbidden before a bearer is looked at, but after the host.
HeaderStatus(host, origin, bearer, identity) ==
    CASE host # "listed" -> 401
      [] host = "listed" /\ origin # "none"
            /\ ~(origin = "listed" /\ settings["ALLOWED_ORIGINS"] = "listed") -> 403
      [] OTHER -> IF AcceptsBearer(bearer) /\ identity # "absent" THEN 0 ELSE 401

\* jsonwebtoken's validation, which knows the expiry with its leeway, and then the
\* checks of verify_with_time. (Variant: nothing but the expiry limits a token.)
AcceptsUntilExpiry(a, l) == l >= -ClockSkew
AcceptsTimes(a, l) ==
    /\ l >= -ClockSkew
    /\ a <= MaximumAge + ClockSkew
    /\ a >= -ClockSkew
    /\ l <= MaximumLifetime + ClockSkew
    /\ a + l \in 1..MaximumLifetime

-------------------------------------------------------------------------------
(* The request *)

IngressInit ==
    stage = "idle" /\ status = 0 /\ age = 0 /\ left = 0 /\ budget = 0

Answer(code) == stage' = "answered" /\ status' = code

\* admit, then authenticate until it waits for a key, in one poll.
Arrive ==
    /\ stage = "idle" /\ Serving /\ mode = "http"
    /\ budget' = Ticks(timeout)
    /\ \/ Answer(503)   \* being shut down, or out of permits
       \/ /\ phase = "serving"
          /\ \E host \in Hosts, origin \in Origins, bearer \in BearersSupplied,
                identity \in {"sound", "absent"} :
                LET code == HeaderStatus(host, origin, bearer, identity)
                IN  IF code # 0 THEN Answer(code)
                    ELSE stage' = "verifying" /\ UNCHANGED status
    /\ UNCHANGED <<process, age, left>>

\* The key has come, or there is none. What is wrong with a token comes to one answer.
Verify ==
    /\ stage = "verifying" /\ phase = "serving"
    /\ \E identity \in Identities \ {"absent"},
          a \in -(ClockSkew + 1)..(MaximumAge + ClockSkew + 1),
          l \in -(ClockSkew + 1)..(MaximumLifetime + ClockSkew + 2) :
        IF identity = "sound" /\ AcceptsTimes(a, l)
        THEN stage' = "receiving" /\ age' = a /\ left' = l /\ UNCHANGED status
        ELSE Answer(401) /\ UNCHANGED <<age, left>>
    /\ UNCHANGED <<process, budget>>

\* enforce_body_limit: the whole body comes before the handler, within the limit.
Receive ==
    /\ stage = "receiving" /\ phase = "serving"
    /\ \/ stage' = "handling" /\ UNCHANGED status
       \/ Answer(413)
    /\ UNCHANGED <<process, age, left, budget>>

\* The handler has its result, and is looked at after a cancellation.
Handled ==
    /\ stage = "handling" /\ phase = "serving" /\ Answer(200)
    /\ UNCHANGED <<process, age, left, budget>>

\* The two ends that admit gives a request. Cancellation is looked at first.
Cut ==
    /\ stage \in {"verifying", "receiving", "handling"}
    /\ \/ phase = "draining" /\ Answer(503)
       \/ phase = "serving" /\ mode = "http" /\ budget = 0 /\ Answer(408)
    /\ UNCHANGED <<process, age, left, budget>>

\* A local call has neither headers nor a deadline.
ArriveLocally ==
    /\ stage = "idle" /\ phase = "serving" /\ mode = "stdio"
    /\ stage' = "handling"
    /\ UNCHANGED <<process, status, age, left, budget>>

\* The caller has taken its answer, which it need not. Nothing of a request outlives it.
Forget ==
    /\ stage = "answered"
    /\ stage' = "idle" /\ status' = 0 /\ age' = 0 /\ left' = 0 /\ budget' = 0
    /\ UNCHANGED process

\* A timer that is due fires before the next tick, and so does the drain's.
Tick ==
    /\ Serving /\ mode = "http"
    /\ stage \in {"verifying", "receiving", "handling"} => budget > 0
    /\ phase = "draining" => drain > 0
    /\ IF stage \in {"receiving", "handling"} THEN age' = age + 1 /\ left' = left - 1
       ELSE UNCHANGED <<age, left>>
    /\ budget' = IF stage \in {"verifying", "receiving", "handling"} THEN budget - 1
                 ELSE budget
    /\ drain' = IF phase = "draining" THEN drain - 1 ELSE drain
    /\ UNCHANGED <<mode, profile, lookups, settings, limits, phase, stage, status>>

\* The server has no request left, or its time to drain is over.
\* (Variant: the drain has no deadline of its own.)
DrainedIdle ==
    /\ phase = "draining" /\ stage = "idle" /\ phase' = "exited"
    /\ UNCHANGED <<mode, profile, lookups, settings, limits, drain, request>>
Drained ==
    /\ phase = "draining"
    /\ stage = "idle" \/ drain = 0
    /\ phase' = "exited"
    /\ UNCHANGED <<mode, profile, lookups, settings, limits, drain, request>>

=====================================================================================
