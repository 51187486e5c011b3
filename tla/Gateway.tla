---------------------------------- MODULE Gateway ----------------------------------
(***************************************************************************)
(* A whole process: it starts from whatever its environment holds          *)
(* (Startup), serves one request after another (Ingress), and is told to   *)
(* stop at any moment of it.                                               *)
(***************************************************************************)
EXTENDS Ingress

vars == <<process, request>>

Init == StartInit /\ IngressInit

Next ==
    \/ /\ ReadNumber \/ ReadText \/ Listen \/ ServeStdio \/ Conclude \/ Stop \/ InputEnds
       /\ UNCHANGED request
    \/ Arrive \/ Verify \/ Receive \/ Handled \/ Cut \/ ArriveLocally \/ Forget
    \/ Tick \/ Drained

\* Time passes, due timers and a cancellation are noticed. A body need never come, a
\* handler never end, and a caller never take its answer.
Fairness == WF_vars(Tick) /\ WF_vars(Cut) /\ WF_vars(Drained)

Spec == Init /\ [][Next]_vars /\ Fairness

-------------------------------------------------------------------------------
(* Correctness *)

\* A process that serves holds a complete administrative pair or none, and one only
\* under a profile that mutates, whatever its environment holds; over HTTP it has
\* strong bearers; and every number it goes by has been read and lies in the range that
\* docs/configuration.md:57,89-96 gives (main.rs run, config.rs).
Documented ==
    [PORT |-> <<1, 65535>>, UPSTREAM_TIMEOUT |-> <<1, 120>>, REQUEST_TIMEOUT |-> <<1, 120>>,
     MAX_CONCURRENT |-> <<1, 256>>, MAX_BODY |-> <<1024, 4194304>>]
Permitted(v) == Documented[v][1]..Documented[v][2]
SoundStart ==
    Serving =>
        /\ Admin => Mutating(profile) /\ settings["ADMIN_SECRET"] # "none"
        /\ ~Admin /\ "ADMIN_SECRET" \in DOMAIN settings =>
            settings["ADMIN_SECRET"] = "none"
        /\ DOMAIN limits = IF mode = "http" THEN DOMAIN Documented ELSE {"UPSTREAM_TIMEOUT"}
        /\ \A v \in DOMAIN limits : limits[v] \in Permitted(v)
        /\ mode = "http" =>
            /\ settings["BEARER_CURRENT"] = "strong"
            /\ settings["BEARER_PREVIOUS"] \in {"none", "strong"}

\* An identity that was checked once stays in use while the body comes and the
\* handler runs. It is never older than the oldest token plus the lifetime of a
\* request, and no token is accepted that was issued for longer than it may live.
BoundedUse ==
    stage \in {"receiving", "handling"} /\ mode = "http" =>
        /\ age <= MaximumAge + ClockSkew + Ticks(timeout)
        /\ -left <= ClockSkew + Ticks(timeout)
        /\ age + left \in 1..MaximumLifetime

\* A process that is told to stop ends, even if a body never comes, a handler
\* never returns or an answer is never taken (main.rs run, its five seconds).
Exits == (phase = "draining") ~> (phase = "exited")

=====================================================================================
