---------------------------------- MODULE Startup ----------------------------------
(***************************************************************************)
(* A process from its command line to its exit: which variables of its     *)
(* environment it reads, in which order, what it makes of them, whether it *)
(* serves, and how it stops.                                               *)
(*                                                                         *)
(* A variable's name leaves out the prefix KOMODO_MCP_. What it holds is   *)
(* known by what the code tells apart: "foreign" is not Unicode, "blank"   *)
(* is white space, "short" and "strong" are secrets without white space    *)
(* below and from 32 bytes, "broken" has a line break, "long" is beyond    *)
(* what a secret may have, "same" equals the current bearer. A setting     *)
(* keeps no more of it than the rest of the start asks; a number is kept   *)
(* as it is.                                                               *)
(***************************************************************************)
EXTENDS Integers, Sequences, FiniteSets

CONSTANT MostSet   \* bound: numbers that an environment sets

VARIABLES
    mode, profile,   \* the command line
    lookups,         \* the variables still to be read, in order
    settings,        \* what was made of the texts that have been read
    limits,          \* and of the numbers
    phase,           \* reading, serving, draining, exited
    drain            \* what is left of the time to drain

process == <<mode, profile, lookups, settings, limits, phase, drain>>

-------------------------------------------------------------------------------
(* What is read *)

Modes == {"http", "stdio", "healthcheck", "export"}
Profiles == {"status", "read-only", "operations", "full"}

Listener == <<"HOST", "PORT">>
ReadIdentity == <<"READ_KEY", "READ_SECRET", "UPSTREAM_URL", "UPSTREAM_TIMEOUT">>
AdminPair == <<"ADMIN_KEY", "ADMIN_SECRET">>
Gateway == <<"BEARER_CURRENT", "BEARER_PREVIOUS", "JWKS_URL", "LOG_LEVEL",
             "ALLOWED_HOSTS", "ALLOWED_ORIGINS", "REQUEST_TIMEOUT", "MAX_CONCURRENT",
             "MAX_BODY", "ISSUER", "ACTOR">>

Mutating(p) == p \in {"operations", "full"}

\* What a process reads, in order. Without a mutating profile no administrative
\* variable is touched.
Script(md, p) ==
    CASE md = "export" -> <<>>
      [] md = "healthcheck" -> Listener
      [] md = "stdio" -> ReadIdentity \o (IF Mutating(p) THEN AdminPair ELSE <<>>)
      [] md = "http" ->
            Listener \o ReadIdentity \o (IF Mutating(p) THEN AdminPair ELSE <<>>) \o Gateway

Bounds ==
    [PORT             |-> [default |-> 8000, least |-> 1, most |-> 65535],
     UPSTREAM_TIMEOUT |-> [default |-> 20, least |-> 1, most |-> 120],
     REQUEST_TIMEOUT  |-> [default |-> 30, least |-> 1, most |-> 120],
     MAX_CONCURRENT   |-> [default |-> 32, least |-> 1, most |-> 256],
     MAX_BODY         |-> [default |-> 1048576, least |-> 1024, most |-> 4194304]]
Numbers == DOMAIN Bounds

\* What may be in the environment: the numbers at either end of the bounds. Two
\* stand for what is none.
Unset == -2
Garbage == -1
NumbersFound(v) ==
    LET least == Bounds[v].least
        most == Bounds[v].most
    IN  {Unset, Garbage, least - 1, least, most, most + 1}

Nothing == {"absent", "foreign", "empty", "blank"}
TextsFound(v) ==
    CASE v \in {"READ_KEY", "READ_SECRET", "ADMIN_KEY", "ADMIN_SECRET"} ->
            Nothing \cup {"short", "broken", "long"}
      [] v = "BEARER_CURRENT" -> Nothing \cup {"short", "strong", "long"}
      [] v = "BEARER_PREVIOUS" -> Nothing \cup {"short", "strong", "same", "long"}
      [] v \in {"UPSTREAM_URL", "JWKS_URL"} -> Nothing \cup {"safe", "unsafe", "garbage"}
      [] v \in {"HOST", "LOG_LEVEL"} -> Nothing \cup {"sound", "garbage"}
      [] v \in {"ALLOWED_HOSTS", "ALLOWED_ORIGINS"} -> Nothing \cup {"listed"}
      [] v = "ISSUER" -> Nothing \cup {"sound"}
      [] v = "ACTOR" -> Nothing \cup {"sound", "unfit"}

-------------------------------------------------------------------------------
(* What is made of it *)

\* parse_number_value: the number that applies, or Garbage.
Number(v, raw) ==
    LET value == IF raw = Unset THEN Bounds[v].default ELSE raw
    IN  IF value < Bounds[v].least \/ value > Bounds[v].most THEN Garbage ELSE value

\* validate_secret asks for a length only; what is blank or short is a secret.
Kept(x) == IF x \in {"blank", "short"} THEN "weak" ELSE x
required_secret(x) == IF x \in {"absent", "foreign", "empty", "long"} THEN "refused" ELSE Kept(x)
optional_secret(x) ==
    CASE x \in {"absent", "empty"} -> "none"
      [] x \in {"foreign", "long"} -> "refused"
      [] OTHER -> Kept(x)
required(x) == IF x \in Nothing THEN "refused" ELSE x
required_unmodified(x) == IF x \in {"absent", "foreign"} THEN "refused" ELSE x
value_or(x, default) == IF x \in Nothing THEN default ELSE x
parse_url(x) == IF x = "garbage" THEN "refused" ELSE x

Text(v, x) ==
    CASE v \in {"READ_KEY", "READ_SECRET", "BEARER_CURRENT"} -> required_secret(x)
      [] v \in {"ADMIN_KEY", "ADMIN_SECRET", "BEARER_PREVIOUS"} -> optional_secret(x)
      [] v = "UPSTREAM_URL" -> parse_url(value_or(x, "safe"))
      [] v = "JWKS_URL" -> parse_url(required(x))
      [] v \in {"HOST", "LOG_LEVEL"} -> value_or(x, "sound")
      [] v = "ALLOWED_HOSTS" -> value_or(x, "listed")
      [] v = "ALLOWED_ORIGINS" -> value_or(x, "none")
      [] v = "ISSUER" -> required(x)
      [] v = "ACTOR" -> required_unmodified(x)

\* Credentials::from_protected refuses a line break and nothing else.
Credentials(key, secret) == key # "broken" /\ secret # "broken"

\* An administrative pair is complete or absent.
\* (Variant: a key without a secret is taken for an absent pair.)
PairEitherAbsent(key, secret) ==
    IF "none" \in {key, secret} THEN TRUE ELSE Credentials(key, secret)
Pair(key, secret) ==
    IF "none" \in {key, secret} THEN key = secret ELSE Credentials(key, secret)

\* GatewayBearers::from_protected.
Bearers(current, previous) == current = "strong" /\ previous \in {"none", "strong"}

\* The check that follows the reading of v, if one does.
Consistent(v, s) ==
    CASE v = "READ_SECRET" -> Credentials(s["READ_KEY"], s["READ_SECRET"])
      [] v = "ADMIN_SECRET" -> Pair(s["ADMIN_KEY"], s["ADMIN_SECRET"])
      [] v = "MAX_BODY" -> Bearers(s["BEARER_CURRENT"], s["BEARER_PREVIOUS"])
      [] OTHER -> TRUE

\* validate_base_url; IdentityVerifier::new; listener_address.
SafeUpstream(s) == s["UPSTREAM_URL"] = "safe"
SafeIdentity(s) == s["JWKS_URL"] = "safe" /\ s["ISSUER"] = "sound" /\ s["ACTOR"] = "sound"
SoundAddress(s) == s["HOST"] = "sound"

-------------------------------------------------------------------------------
(* The process *)

DrainTime == 1   \* five seconds are at most one tick of the clock

StartInit ==
    /\ mode \in Modes /\ profile \in Profiles
    /\ mode = "healthcheck" => profile = "full"
    /\ lookups = Script(mode, profile)
    /\ settings = [v \in {} |-> "none"] /\ limits = [v \in {} |-> 0] /\ drain = 0
    /\ phase = "reading"

Exit(now) == phase' = IF now THEN "exited" ELSE phase

\* One variable is read. Each number is refused or kept by itself.
SetSoFar == {v \in DOMAIN limits : limits[v] # Bounds[v].default}
ReadNumber ==
    /\ phase = "reading" /\ lookups # <<>> /\ Head(lookups) \in Numbers
    /\ \E raw \in NumbersFound(Head(lookups)) :
        LET v == Head(lookups)
        IN  /\ raw # Unset => Cardinality(SetSoFar) < MostSet
            /\ limits' = [w \in DOMAIN limits \cup {v} |->
                            IF w = v THEN Number(v, raw) ELSE limits[w]]
            /\ Exit(limits'[v] = Garbage \/ ~Consistent(v, settings))
    /\ lookups' = Tail(lookups)
    /\ UNCHANGED <<mode, profile, settings, drain>>

ReadText ==
    /\ phase = "reading" /\ lookups # <<>> /\ Head(lookups) \notin Numbers
    /\ \E x \in TextsFound(Head(lookups)) :
        LET v == Head(lookups)
            read == [w \in DOMAIN settings \cup {v} |->
                        IF w = v THEN Text(v, x) ELSE settings[w]]
        IN  settings' = read /\ Exit(read[v] = "refused" \/ ~Consistent(v, read))
    /\ lookups' = Tail(lookups)
    /\ UNCHANGED <<mode, profile, limits, drain>>

\* Everything is read: clients, log filter, router, listener; the address may be taken.
Listen ==
    /\ phase = "reading" /\ lookups = <<>> /\ mode = "http"
    /\ \/ /\ SafeUpstream(settings) /\ SafeIdentity(settings) /\ SoundAddress(settings)
          /\ settings["LOG_LEVEL"] = "sound" /\ phase' = "serving"
       \/ phase' = "exited"
    /\ UNCHANGED <<mode, profile, lookups, settings, limits, drain>>

\* The peer may not initialise in time.
ServeStdio ==
    /\ phase = "reading" /\ lookups = <<>> /\ mode = "stdio"
    /\ \/ SafeUpstream(settings) /\ phase' = "serving"
       \/ phase' = "exited"
    /\ UNCHANGED <<mode, profile, lookups, settings, limits, drain>>

\* A health check asks once, and an export writes.
Conclude ==
    /\ phase = "reading" /\ lookups = <<>> /\ mode \in {"healthcheck", "export"}
    /\ phase' = "exited"
    /\ UNCHANGED <<mode, profile, lookups, settings, limits, drain>>

\* An HTTP process that is told to stop drains.
Stop ==
    /\ phase = "serving" /\ mode = "http"
    /\ phase' = "draining" /\ drain' = DrainTime
    /\ UNCHANGED <<mode, profile, lookups, settings, limits>>

\* A local process ends with its input, or at once with a signal.
InputEnds ==
    /\ phase = "serving" /\ mode = "stdio"
    /\ phase' = "exited"
    /\ UNCHANGED <<mode, profile, lookups, settings, limits, drain>>

\* What the process holds.
Admin == "ADMIN_KEY" \in DOMAIN settings /\ settings["ADMIN_KEY"] # "none"
\* The lifetime of a request, in seconds; a local one has none.
timeout == IF "REQUEST_TIMEOUT" \in DOMAIN limits THEN limits["REQUEST_TIMEOUT"] ELSE 0
Serving == phase \in {"serving", "draining"}

=====================================================================================
