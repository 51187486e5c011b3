------------------------------ MODULE GatewayProofs ------------------------------
(***************************************************************************)
(* What a process has made certain by the time it serves, and how old an   *)
(* identity may become while its request is served.                        *)
(*                                                                         *)
(* The start is a walk along a fixed list of variables (Script). The       *)
(* invariant says how far it has come: what is still to be read is the     *)
(* list's end, the settings are those of its beginning, and every check    *)
(* that follows a variable already read holds of the settings now. It is   *)
(* kept because the list names no variable twice and a check asks only for *)
(* variables that come before it, so a later reading disturbs nothing      *)
(* (Ordered). A process serves at the end of its list, where every check   *)
(* holds. The second half ties what has passed of a request's lifetime to  *)
(* the age of its token: both move by one tick together.                   *)
(***************************************************************************)
EXTENDS Gateway, SequenceTheorems, TLAPS

-------------------------------------------------------------------------------
(* The invariant *)

\* What the check that follows the reading of v asks for (Credentials::from_protected,
\* administrative_credentials, GatewayBearers::from_protected).
Uses(v) ==
    CASE v = "READ_SECRET" -> {"READ_KEY", "READ_SECRET"}
      [] v = "ADMIN_SECRET" -> {"ADMIN_KEY", "ADMIN_SECRET"}
      [] v = "MAX_BODY" -> {"BEARER_CURRENT", "BEARER_PREVIOUS"}
      [] OTHER -> {}

\* A list that names nothing twice and asks for nothing before it is read.
Variables == {"HOST", "PORT", "READ_KEY", "READ_SECRET", "UPSTREAM_URL", "UPSTREAM_TIMEOUT",
              "ADMIN_KEY", "ADMIN_SECRET", "BEARER_CURRENT", "BEARER_PREVIOUS", "JWKS_URL",
              "LOG_LEVEL", "ALLOWED_HOSTS", "ALLOWED_ORIGINS", "REQUEST_TIMEOUT",
              "MAX_CONCURRENT", "MAX_BODY", "ISSUER", "ACTOR"}
Ordered(P) ==
    /\ P \in Seq(Variables)
    /\ \A i, j \in 1..Len(P) : P[i] = P[j] => i = j
    /\ \A i \in 1..Len(P) : \A u \in Uses(P[i]) :
        u \notin Numbers /\ (u = P[i] \/ \E j \in 1..(i - 1) : P[j] = u)

Plan == Script(mode, profile)
Done == Len(Plan) - Len(lookups)
Read == {Plan[i] : i \in 1..Done}

\* What holds once v has been read and the process goes on.
Checked(v) ==
    /\ Consistent(v, settings)
    /\ v \in Numbers => limits[v] \in Permitted(v)

Started ==
    /\ mode \in Modes /\ profile \in Profiles
    /\ phase \in {"reading", "serving", "draining", "exited"}
    /\ drain \in 0..DrainTime
    /\ settings = [v \in DOMAIN settings |-> settings[v]]
    /\ limits = [v \in DOMAIN limits |-> limits[v]]
    /\ \A v \in DOMAIN limits : limits[v] \in Int

Progress ==
    /\ lookups \in Seq(Variables) /\ Done \in 0..Len(Plan)
    /\ \A i \in 1..Len(lookups) : lookups[i] = Plan[Done + i]
    /\ DOMAIN settings = Read \ Numbers /\ DOMAIN limits = Read \cap Numbers

Sound ==
    phase # "exited" =>
        /\ \A v \in Read : Checked(v)
        /\ \A v \in DOMAIN settings : settings[v] # "refused"

Active == stage \in {"verifying", "receiving", "handling"}

Requested ==
    /\ stage \in {"idle", "verifying", "receiving", "handling", "answered"}
    /\ status \in {0, 200, 401, 403, 408, 413, 503}
    /\ age \in Int /\ left \in Int /\ budget \in Int
    /\ phase = "reading" => stage = "idle"
    /\ Serving => lookups = <<>> /\ mode \in {"http", "stdio"}

\* What has passed of the request's lifetime is what the token has aged since.
Spent == Ticks(timeout) - budget
Used ==
    mode = "http" =>
        /\ Active => budget \in 0..Ticks(timeout)
        /\ stage \in {"receiving", "handling"} =>
            /\ age <= MaximumAge + ClockSkew + Spent
            /\ -left <= ClockSkew + Spent
            /\ age + left \in 1..MaximumLifetime

GatewayInv == Started /\ Progress /\ Sound /\ Requested /\ Used


-------------------------------------------------------------------------------
(* The lists *)

ServerPlan ==
    <<"HOST", "PORT", "READ_KEY", "READ_SECRET", "UPSTREAM_URL", "UPSTREAM_TIMEOUT">>
AdminPlan ==
    <<"HOST", "PORT", "READ_KEY", "READ_SECRET", "UPSTREAM_URL", "UPSTREAM_TIMEOUT",
      "ADMIN_KEY", "ADMIN_SECRET">>
LocalPlan ==
    <<"READ_KEY", "READ_SECRET", "UPSTREAM_URL", "UPSTREAM_TIMEOUT", "ADMIN_KEY",
      "ADMIN_SECRET">>
HttpPlan ==
    <<"HOST", "PORT", "READ_KEY", "READ_SECRET", "UPSTREAM_URL", "UPSTREAM_TIMEOUT",
      "BEARER_CURRENT", "BEARER_PREVIOUS", "JWKS_URL", "LOG_LEVEL", "ALLOWED_HOSTS",
      "ALLOWED_ORIGINS", "REQUEST_TIMEOUT", "MAX_CONCURRENT", "MAX_BODY", "ISSUER",
      "ACTOR">>
FullPlan ==
    <<"HOST", "PORT", "READ_KEY", "READ_SECRET", "UPSTREAM_URL", "UPSTREAM_TIMEOUT",
      "ADMIN_KEY", "ADMIN_SECRET", "BEARER_CURRENT", "BEARER_PREVIOUS", "JWKS_URL",
      "LOG_LEVEL", "ALLOWED_HOSTS", "ALLOWED_ORIGINS", "REQUEST_TIMEOUT",
      "MAX_CONCURRENT", "MAX_BODY", "ISSUER", "ACTOR">>

LEMMA Joined ==
  ASSUME NEW S, NEW s \in Seq(S), NEW t \in Seq(S), NEW u \in Seq(S),
         Len(u) = Len(s) + Len(t),
         \A i \in 1..Len(s) : u[i] = s[i],
         \A i \in 1..Len(t) : u[Len(s) + i] = t[i]
  PROVE  s \o t = u
<1>1. s \o t \in Seq(S) /\ Len(s \o t) = Len(s) + Len(t)
  BY ConcatProperties
<1>2. ASSUME NEW i \in 1..Len(s \o t) PROVE (s \o t)[i] = u[i]
  <2>1. (s \o t)[i] = IF i <= Len(s) THEN s[i] ELSE t[i - Len(s)]
    BY <1>1, ConcatProperties
  <2>2. CASE i <= Len(s)
    BY <2>1, <2>2
  <2>3. CASE i > Len(s)
    <3>1. i - Len(s) \in 1..Len(t) /\ Len(s) + (i - Len(s)) = i
      BY <1>1, <2>3
    <3> QED BY <2>1, <2>3, <3>1
  <2> QED BY <2>2, <2>3
<1> QED BY <1>1, <1>2, SeqEqual

\* The lists and what they are put together from, as sequences of names.
LEMMA Lengths ==
  /\ ServerPlan \in Seq(Variables) /\ Len(ServerPlan) = 6
  /\ AdminPlan \in Seq(Variables) /\ Len(AdminPlan) = 8
  /\ LocalPlan \in Seq(Variables) /\ Len(LocalPlan) = 6
  /\ HttpPlan \in Seq(Variables) /\ Len(HttpPlan) = 17
  /\ FullPlan \in Seq(Variables) /\ Len(FullPlan) = 19
  /\ Listener \in Seq(Variables) /\ Len(Listener) = 2
  /\ ReadIdentity \in Seq(Variables) /\ Len(ReadIdentity) = 4
  /\ AdminPair \in Seq(Variables) /\ Len(AdminPair) = 2
  /\ Gateway \in Seq(Variables) /\ Len(Gateway) = 11
<1>1. ServerPlan \in Seq(Variables)
  BY DEF ServerPlan, Variables
<1>2. Len(ServerPlan) = 6
  BY DEF ServerPlan
<1>3. AdminPlan \in Seq(Variables)
  BY DEF AdminPlan, Variables
<1>4. Len(AdminPlan) = 8
  BY DEF AdminPlan
<1>5. LocalPlan \in Seq(Variables)
  BY DEF LocalPlan, Variables
<1>6. Len(LocalPlan) = 6
  BY DEF LocalPlan
<1>7. HttpPlan \in Seq(Variables)
  BY DEF HttpPlan, Variables
<1>8. Len(HttpPlan) = 17
  BY DEF HttpPlan
<1>9. FullPlan \in Seq(Variables)
  BY DEF FullPlan, Variables
<1>10. Len(FullPlan) = 19
  BY DEF FullPlan
<1>11. Listener \in Seq(Variables)
  BY DEF Listener, Variables
<1>12. Len(Listener) = 2
  BY DEF Listener
<1>13. ReadIdentity \in Seq(Variables)
  BY DEF ReadIdentity, Variables
<1>14. Len(ReadIdentity) = 4
  BY DEF ReadIdentity
<1>15. AdminPair \in Seq(Variables)
  BY DEF AdminPair, Variables
<1>16. Len(AdminPair) = 2
  BY DEF AdminPair
<1>17. Gateway \in Seq(Variables)
  BY DEF Gateway, Variables
<1>18. Len(Gateway) = 11
  BY DEF Gateway
<1> QED BY <1>1, <1>2, <1>3, <1>4, <1>5, <1>6, <1>7, <1>8, <1>9, <1>10, <1>11, <1>12,
           <1>13, <1>14, <1>15, <1>16, <1>17, <1>18

LEMMA PutTogether ==
  /\ Listener \o ReadIdentity = ServerPlan
  /\ ServerPlan \o AdminPair = AdminPlan
  /\ AdminPlan \o Gateway = FullPlan
  /\ ServerPlan \o Gateway = HttpPlan
  /\ ReadIdentity \o AdminPair = LocalPlan
<1>1. Listener \o ReadIdentity = ServerPlan
  <2>1. \A i \in 1..2 : ServerPlan[i] = Listener[i]
    BY DEF ServerPlan, Listener
  <2>2. \A i \in 1..4 : ServerPlan[2 + i] = ReadIdentity[i]
    BY DEF ServerPlan, ReadIdentity
  <2>3. \A i \in 1..Len(Listener) : ServerPlan[i] = Listener[i]
    BY <2>1, Lengths
  <2>4. \A i \in 1..Len(ReadIdentity) : ServerPlan[Len(Listener) + i] = ReadIdentity[i]
    BY <2>2, Lengths
  <2>5. Len(ServerPlan) = Len(Listener) + Len(ReadIdentity)
    BY Lengths
  <2> QED BY <2>3, <2>4, <2>5, Lengths, Joined
<1>2. ServerPlan \o AdminPair = AdminPlan
  <2>1. \A i \in 1..6 : AdminPlan[i] = ServerPlan[i]
    BY DEF AdminPlan, ServerPlan
  <2>2. \A i \in 1..2 : AdminPlan[6 + i] = AdminPair[i]
    BY DEF AdminPlan, AdminPair
  <2>3. \A i \in 1..Len(ServerPlan) : AdminPlan[i] = ServerPlan[i]
    BY <2>1, Lengths
  <2>4. \A i \in 1..Len(AdminPair) : AdminPlan[Len(ServerPlan) + i] = AdminPair[i]
    BY <2>2, Lengths
  <2>5. Len(AdminPlan) = Len(ServerPlan) + Len(AdminPair)
    BY Lengths
  <2> QED BY <2>3, <2>4, <2>5, Lengths, Joined
<1>3. AdminPlan \o Gateway = FullPlan
  <2>1. \A i \in 1..8 : FullPlan[i] = AdminPlan[i]
    BY DEF FullPlan, AdminPlan
  <2>2. \A i \in 1..11 : FullPlan[8 + i] = Gateway[i]
    BY DEF FullPlan, Gateway
  <2>3. \A i \in 1..Len(AdminPlan) : FullPlan[i] = AdminPlan[i]
    BY <2>1, Lengths
  <2>4. \A i \in 1..Len(Gateway) : FullPlan[Len(AdminPlan) + i] = Gateway[i]
    BY <2>2, Lengths
  <2>5. Len(FullPlan) = Len(AdminPlan) + Len(Gateway)
    BY Lengths
  <2> QED BY <2>3, <2>4, <2>5, Lengths, Joined
<1>4. ServerPlan \o Gateway = HttpPlan
  <2>1. \A i \in 1..6 : HttpPlan[i] = ServerPlan[i]
    BY DEF HttpPlan, ServerPlan
  <2>2. \A i \in 1..11 : HttpPlan[6 + i] = Gateway[i]
    BY DEF HttpPlan, Gateway
  <2>3. \A i \in 1..Len(ServerPlan) : HttpPlan[i] = ServerPlan[i]
    BY <2>1, Lengths
  <2>4. \A i \in 1..Len(Gateway) : HttpPlan[Len(ServerPlan) + i] = Gateway[i]
    BY <2>2, Lengths
  <2>5. Len(HttpPlan) = Len(ServerPlan) + Len(Gateway)
    BY Lengths
  <2> QED BY <2>3, <2>4, <2>5, Lengths, Joined
<1>5. ReadIdentity \o AdminPair = LocalPlan
  <2>1. \A i \in 1..4 : LocalPlan[i] = ReadIdentity[i]
    BY DEF LocalPlan, ReadIdentity
  <2>2. \A i \in 1..2 : LocalPlan[4 + i] = AdminPair[i]
    BY DEF LocalPlan, AdminPair
  <2>3. \A i \in 1..Len(ReadIdentity) : LocalPlan[i] = ReadIdentity[i]
    BY <2>1, Lengths
  <2>4. \A i \in 1..Len(AdminPair) : LocalPlan[Len(ReadIdentity) + i] = AdminPair[i]
    BY <2>2, Lengths
  <2>5. Len(LocalPlan) = Len(ReadIdentity) + Len(AdminPair)
    BY Lengths
  <2> QED BY <2>3, <2>4, <2>5, Lengths, Joined
<1> QED BY <1>1, <1>2, <1>3, <1>4, <1>5

\* What a command line asks for.
LEMMA Scripts ==
  ASSUME NEW md \in Modes, NEW p
  PROVE  Script(md, p) =
            CASE md = "export" -> <<>>
              [] md = "healthcheck" -> Listener
              [] md = "stdio" -> (IF Mutating(p) THEN LocalPlan ELSE ReadIdentity)
              [] md = "http" -> (IF Mutating(p) THEN FullPlan ELSE HttpPlan)
<1>1. ReadIdentity \o <<>> = ReadIdentity /\ ServerPlan \o <<>> = ServerPlan
  BY Lengths, ConcatEmptySeq
<1>2. CASE md = "export"
  BY <1>2 DEF Script
<1>3. CASE md = "healthcheck"
  BY <1>3 DEF Script
<1>4. CASE md = "stdio"
  BY <1>1, <1>4, PutTogether DEF Script
<1>5. CASE md = "http"
  <2>1. CASE Mutating(p)
    <3>1. Script(md, p) = Listener \o ReadIdentity \o AdminPair \o Gateway
      BY <1>5, <2>1 DEF Script
    <3> QED BY <1>5, <2>1, <3>1, PutTogether
  <2>2. CASE ~Mutating(p)
    <3>1. Script(md, p) = Listener \o ReadIdentity \o <<>> \o Gateway
      BY <1>5, <2>2 DEF Script
    <3> QED BY <1>1, <1>5, <2>2, <3>1, PutTogether
  <2> QED BY <2>1, <2>2
<1> QED BY <1>2, <1>3, <1>4, <1>5 DEF Modes

LEMMA NumbersNamed ==
  Numbers = {"PORT", "UPSTREAM_TIMEOUT", "REQUEST_TIMEOUT", "MAX_CONCURRENT", "MAX_BODY"}
  BY DEF Numbers, Bounds

\* No list names a variable twice.
Distinct(P) == \A i, j \in 1..Len(P) : P[i] = P[j] => i = j

\* Where the variables are that a check asks for.
Behind(P) ==
    \A i \in 1..Len(P) :
        /\ P[i] = "READ_SECRET" => i - 1 \in 1..Len(P) /\ P[i - 1] = "READ_KEY"
        /\ P[i] = "ADMIN_SECRET" => i - 1 \in 1..Len(P) /\ P[i - 1] = "ADMIN_KEY"
        /\ P[i] = "MAX_BODY" =>
            /\ i - 7 \in 1..Len(P) /\ P[i - 7] = "BEARER_PREVIOUS"
            /\ i - 8 \in 1..Len(P) /\ P[i - 8] = "BEARER_CURRENT"

LEMMA BehindOrdered ==
  ASSUME NEW P \in Seq(Variables), Distinct(P), Behind(P)
  PROVE  Ordered(P)
<1>1. ASSUME NEW i \in 1..Len(P), NEW u \in Uses(P[i])
      PROVE  u \notin Numbers /\ (u = P[i] \/ \E j \in 1..(i - 1) : P[j] = u)
  <2>1. CASE P[i] = "READ_SECRET"
    <3>1. u \in {"READ_KEY", "READ_SECRET"}
      BY <2>1 DEF Uses
    <3>2. i - 1 \in 1..(i - 1) /\ P[i - 1] = "READ_KEY"
      BY <2>1 DEF Behind
    <3> QED BY <2>1, <3>1, <3>2, NumbersNamed
  <2>2. CASE P[i] = "ADMIN_SECRET"
    <3>1. u \in {"ADMIN_KEY", "ADMIN_SECRET"}
      BY <2>2 DEF Uses
    <3>2. i - 1 \in 1..(i - 1) /\ P[i - 1] = "ADMIN_KEY"
      BY <2>2 DEF Behind
    <3> QED BY <2>2, <3>1, <3>2, NumbersNamed
  <2>3. CASE P[i] = "MAX_BODY"
    <3>1. u \in {"BEARER_CURRENT", "BEARER_PREVIOUS"}
      BY <2>3 DEF Uses
    <3>2. /\ i - 7 \in 1..(i - 1) /\ P[i - 7] = "BEARER_PREVIOUS"
          /\ i - 8 \in 1..(i - 1) /\ P[i - 8] = "BEARER_CURRENT"
      BY <2>3 DEF Behind
    <3> QED BY <3>1, <3>2, NumbersNamed
  <2>4. CASE P[i] \notin {"READ_SECRET", "ADMIN_SECRET", "MAX_BODY"}
    BY <2>4 DEF Uses
  <2> QED BY <2>1, <2>2, <2>3, <2>4
<1> QED BY <1>1 DEF Ordered, Distinct

LEMMA ListsDistinct ==
  /\ Distinct(Listener)
  /\ Distinct(ReadIdentity)
  /\ Distinct(LocalPlan)
  /\ Distinct(HttpPlan)
  /\ Distinct(FullPlan)
<1>1. \A i, j \in 1..2 : Listener[i] = Listener[j] => i = j
  BY DEF Listener
<1>2. \A i, j \in 1..4 : ReadIdentity[i] = ReadIdentity[j] => i = j
  BY DEF ReadIdentity
<1>3. \A i, j \in 1..6 : LocalPlan[i] = LocalPlan[j] => i = j
  BY DEF LocalPlan
<1>4. \A i, j \in 1..17 : HttpPlan[i] = HttpPlan[j] => i = j
  BY DEF HttpPlan
<1>5. \A i, j \in 1..19 : FullPlan[i] = FullPlan[j] => i = j
  BY DEF FullPlan
<1> QED BY <1>1, <1>2, <1>3, <1>4, <1>5, Lengths DEF Distinct

LEMMA OnePlace ==
  ASSUME NEW P, NEW n, Len(P) = n, Distinct(P),
         NEW i \in 1..n, NEW k \in 1..n, P[i] = P[k]
  PROVE  i = k
  BY DEF Distinct

LEMMA ListsBehind ==
  /\ Behind(Listener)
  /\ Behind(ReadIdentity)
  /\ Behind(LocalPlan)
  /\ Behind(HttpPlan)
  /\ Behind(FullPlan)
<1>1. Behind(Listener)
  <2>1. \A i \in 1..2 : Listener[i] # "READ_SECRET"
    BY DEF Listener
  <2>2. \A i \in 1..Len(Listener) : Listener[i] # "READ_SECRET"
    BY <2>1, Lengths
  <2>3. \A i \in 1..2 : Listener[i] # "ADMIN_SECRET"
    BY DEF Listener
  <2>4. \A i \in 1..Len(Listener) : Listener[i] # "ADMIN_SECRET"
    BY <2>3, Lengths
  <2>5. \A i \in 1..2 : Listener[i] # "MAX_BODY"
    BY DEF Listener
  <2>6. \A i \in 1..Len(Listener) : Listener[i] # "MAX_BODY"
    BY <2>5, Lengths
  <2> QED BY <2>2, <2>4, <2>6 DEF Behind
<1>2. Behind(ReadIdentity)
  <2>1. ReadIdentity[2] = "READ_SECRET" /\ ReadIdentity[1] = "READ_KEY"
    BY DEF ReadIdentity
  <2>2. ASSUME NEW i \in 1..Len(ReadIdentity), ReadIdentity[i] = "READ_SECRET"
        PROVE  i - 1 \in 1..Len(ReadIdentity) /\ ReadIdentity[i - 1] = "READ_KEY"
    <3>1. Len(ReadIdentity) = 4 /\ Distinct(ReadIdentity)
      BY Lengths, ListsDistinct
    <3>2. 2 \in 1..Len(ReadIdentity) /\ ReadIdentity[i] = ReadIdentity[2]
      BY <2>1, <2>2, <3>1
    <3>3. i = 2
      BY <3>1, <3>2, OnePlace
    <3>4. 2 - 1 \in 1..4 /\ 2 - 1 = 1
      OBVIOUS
    <3> QED BY <2>1, <3>1, <3>3, <3>4
  <2>3. \A i \in 1..4 : ReadIdentity[i] # "ADMIN_SECRET"
    BY DEF ReadIdentity
  <2>4. \A i \in 1..Len(ReadIdentity) : ReadIdentity[i] # "ADMIN_SECRET"
    BY <2>3, Lengths
  <2>5. \A i \in 1..4 : ReadIdentity[i] # "MAX_BODY"
    BY DEF ReadIdentity
  <2>6. \A i \in 1..Len(ReadIdentity) : ReadIdentity[i] # "MAX_BODY"
    BY <2>5, Lengths
  <2> QED BY <2>2, <2>4, <2>6 DEF Behind
<1>3. Behind(LocalPlan)
  <2>1. LocalPlan[2] = "READ_SECRET" /\ LocalPlan[1] = "READ_KEY"
    BY DEF LocalPlan
  <2>2. ASSUME NEW i \in 1..Len(LocalPlan), LocalPlan[i] = "READ_SECRET"
        PROVE  i - 1 \in 1..Len(LocalPlan) /\ LocalPlan[i - 1] = "READ_KEY"
    <3>1. Len(LocalPlan) = 6 /\ Distinct(LocalPlan)
      BY Lengths, ListsDistinct
    <3>2. 2 \in 1..Len(LocalPlan) /\ LocalPlan[i] = LocalPlan[2]
      BY <2>1, <2>2, <3>1
    <3>3. i = 2
      BY <3>1, <3>2, OnePlace
    <3>4. 2 - 1 \in 1..6 /\ 2 - 1 = 1
      OBVIOUS
    <3> QED BY <2>1, <3>1, <3>3, <3>4
  <2>3. LocalPlan[6] = "ADMIN_SECRET" /\ LocalPlan[5] = "ADMIN_KEY"
    BY DEF LocalPlan
  <2>4. ASSUME NEW i \in 1..Len(LocalPlan), LocalPlan[i] = "ADMIN_SECRET"
        PROVE  i - 1 \in 1..Len(LocalPlan) /\ LocalPlan[i - 1] = "ADMIN_KEY"
    <3>1. Len(LocalPlan) = 6 /\ Distinct(LocalPlan)
      BY Lengths, ListsDistinct
    <3>2. 6 \in 1..Len(LocalPlan) /\ LocalPlan[i] = LocalPlan[6]
      BY <2>3, <2>4, <3>1
    <3>3. i = 6
      BY <3>1, <3>2, OnePlace
    <3>4. 6 - 1 \in 1..6 /\ 6 - 1 = 5
      OBVIOUS
    <3> QED BY <2>3, <3>1, <3>3, <3>4
  <2>5. \A i \in 1..6 : LocalPlan[i] # "MAX_BODY"
    BY DEF LocalPlan
  <2>6. \A i \in 1..Len(LocalPlan) : LocalPlan[i] # "MAX_BODY"
    BY <2>5, Lengths
  <2> QED BY <2>2, <2>4, <2>6 DEF Behind
<1>4. Behind(HttpPlan)
  <2>1. HttpPlan[4] = "READ_SECRET" /\ HttpPlan[3] = "READ_KEY"
    BY DEF HttpPlan
  <2>2. ASSUME NEW i \in 1..Len(HttpPlan), HttpPlan[i] = "READ_SECRET"
        PROVE  i - 1 \in 1..Len(HttpPlan) /\ HttpPlan[i - 1] = "READ_KEY"
    <3>1. Len(HttpPlan) = 17 /\ Distinct(HttpPlan)
      BY Lengths, ListsDistinct
    <3>2. 4 \in 1..Len(HttpPlan) /\ HttpPlan[i] = HttpPlan[4]
      BY <2>1, <2>2, <3>1
    <3>3. i = 4
      BY <3>1, <3>2, OnePlace
    <3>4. 4 - 1 \in 1..17 /\ 4 - 1 = 3
      OBVIOUS
    <3> QED BY <2>1, <3>1, <3>3, <3>4
  <2>3. \A i \in 1..17 : HttpPlan[i] # "ADMIN_SECRET"
    BY DEF HttpPlan
  <2>4. \A i \in 1..Len(HttpPlan) : HttpPlan[i] # "ADMIN_SECRET"
    BY <2>3, Lengths
  <2>5. /\ HttpPlan[15] = "MAX_BODY"
       /\ HttpPlan[8] = "BEARER_PREVIOUS"
       /\ HttpPlan[7] = "BEARER_CURRENT"
    BY DEF HttpPlan
  <2>6. ASSUME NEW i \in 1..Len(HttpPlan), HttpPlan[i] = "MAX_BODY"
        PROVE  /\ i - 7 \in 1..Len(HttpPlan) /\ HttpPlan[i - 7] = "BEARER_PREVIOUS"
               /\ i - 8 \in 1..Len(HttpPlan) /\ HttpPlan[i - 8] = "BEARER_CURRENT"
    <3>1. Len(HttpPlan) = 17 /\ Distinct(HttpPlan)
      BY Lengths, ListsDistinct
    <3>2. 15 \in 1..Len(HttpPlan) /\ HttpPlan[i] = HttpPlan[15]
      BY <2>5, <2>6, <3>1
    <3>3. i = 15
      BY <3>1, <3>2, OnePlace
    <3>4. 15 - 7 \in 1..17 /\ 15 - 7 = 8 /\ 15 - 8 \in 1..17 /\ 15 - 8 = 7
      OBVIOUS
    <3> QED BY <2>5, <3>1, <3>3, <3>4
  <2> QED BY <2>2, <2>4, <2>6 DEF Behind
<1>5. Behind(FullPlan)
  <2>1. FullPlan[4] = "READ_SECRET" /\ FullPlan[3] = "READ_KEY"
    BY DEF FullPlan
  <2>2. ASSUME NEW i \in 1..Len(FullPlan), FullPlan[i] = "READ_SECRET"
        PROVE  i - 1 \in 1..Len(FullPlan) /\ FullPlan[i - 1] = "READ_KEY"
    <3>1. Len(FullPlan) = 19 /\ Distinct(FullPlan)
      BY Lengths, ListsDistinct
    <3>2. 4 \in 1..Len(FullPlan) /\ FullPlan[i] = FullPlan[4]
      BY <2>1, <2>2, <3>1
    <3>3. i = 4
      BY <3>1, <3>2, OnePlace
    <3>4. 4 - 1 \in 1..19 /\ 4 - 1 = 3
      OBVIOUS
    <3> QED BY <2>1, <3>1, <3>3, <3>4
  <2>3. FullPlan[8] = "ADMIN_SECRET" /\ FullPlan[7] = "ADMIN_KEY"
    BY DEF FullPlan
  <2>4. ASSUME NEW i \in 1..Len(FullPlan), FullPlan[i] = "ADMIN_SECRET"
        PROVE  i - 1 \in 1..Len(FullPlan) /\ FullPlan[i - 1] = "ADMIN_KEY"
    <3>1. Len(FullPlan) = 19 /\ Distinct(FullPlan)
      BY Lengths, ListsDistinct
    <3>2. 8 \in 1..Len(FullPlan) /\ FullPlan[i] = FullPlan[8]
      BY <2>3, <2>4, <3>1
    <3>3. i = 8
      BY <3>1, <3>2, OnePlace
    <3>4. 8 - 1 \in 1..19 /\ 8 - 1 = 7
      OBVIOUS
    <3> QED BY <2>3, <3>1, <3>3, <3>4
  <2>5. /\ FullPlan[17] = "MAX_BODY"
       /\ FullPlan[10] = "BEARER_PREVIOUS"
       /\ FullPlan[9] = "BEARER_CURRENT"
    BY DEF FullPlan
  <2>6. ASSUME NEW i \in 1..Len(FullPlan), FullPlan[i] = "MAX_BODY"
        PROVE  /\ i - 7 \in 1..Len(FullPlan) /\ FullPlan[i - 7] = "BEARER_PREVIOUS"
               /\ i - 8 \in 1..Len(FullPlan) /\ FullPlan[i - 8] = "BEARER_CURRENT"
    <3>1. Len(FullPlan) = 19 /\ Distinct(FullPlan)
      BY Lengths, ListsDistinct
    <3>2. 17 \in 1..Len(FullPlan) /\ FullPlan[i] = FullPlan[17]
      BY <2>5, <2>6, <3>1
    <3>3. i = 17
      BY <3>1, <3>2, OnePlace
    <3>4. 17 - 7 \in 1..19 /\ 17 - 7 = 10 /\ 17 - 8 \in 1..19 /\ 17 - 8 = 9
      OBVIOUS
    <3> QED BY <2>5, <3>1, <3>3, <3>4
  <2> QED BY <2>2, <2>4, <2>6 DEF Behind
<1> QED BY <1>1, <1>2, <1>3, <1>4, <1>5

LEMMA ScriptOrdered ==
  ASSUME NEW md \in Modes, NEW p
  PROVE  Ordered(Script(md, p))
<1>1. Ordered(<<>>)
  BY DEF Ordered
<1>2. Ordered(Listener)
  BY Lengths, ListsDistinct, ListsBehind, BehindOrdered
<1>3. Ordered(ReadIdentity)
  BY Lengths, ListsDistinct, ListsBehind, BehindOrdered
<1>4. Ordered(LocalPlan)
  BY Lengths, ListsDistinct, ListsBehind, BehindOrdered
<1>5. Ordered(HttpPlan)
  BY Lengths, ListsDistinct, ListsBehind, BehindOrdered
<1>6. Ordered(FullPlan)
  BY Lengths, ListsDistinct, ListsBehind, BehindOrdered
<1> QED BY <1>1, <1>2, <1>3, <1>4, <1>5, <1>6, Scripts DEF Modes

\* What every list has that is read to its end.
LEMMA ScriptCovers ==
  ASSUME NEW md \in Modes, NEW p
  PROVE  /\ \A i \in 1..Len(Script(md, p)) : Script(md, p)[i] = "ADMIN_KEY" =>
              /\ Mutating(p)
              /\ \E j \in 1..Len(Script(md, p)) : Script(md, p)[j] = "ADMIN_SECRET"
         /\ md = "http" => \A v \in {"MAX_BODY", "REQUEST_TIMEOUT"} :
              \E i \in 1..Len(Script(md, p)) : Script(md, p)[i] = v
<1> DEFINE Has(P, v) == \E i \in 1..Len(P) : P[i] = v
<1> SUFFICES /\ Has(Script(md, p), "ADMIN_KEY") =>
                    Mutating(p) /\ Has(Script(md, p), "ADMIN_SECRET")
             /\ md = "http" =>
                    Has(Script(md, p), "MAX_BODY") /\ Has(Script(md, p), "REQUEST_TIMEOUT")
  OBVIOUS
<1>1. ~Has(Listener, "ADMIN_KEY")
  <2>1. \A i \in 1..2 : Listener[i] # "ADMIN_KEY"
    BY DEF Listener
  <2> QED BY <2>1, Lengths
<1>2. ~Has(ReadIdentity, "ADMIN_KEY")
  <2>1. \A i \in 1..4 : ReadIdentity[i] # "ADMIN_KEY"
    BY DEF ReadIdentity
  <2> QED BY <2>1, Lengths
<1>3. ~Has(HttpPlan, "ADMIN_KEY")
  <2>1. \A i \in 1..17 : HttpPlan[i] # "ADMIN_KEY"
    BY DEF HttpPlan
  <2> QED BY <2>1, Lengths
<1>4. Has(LocalPlan, "ADMIN_SECRET")
  <2>1. LocalPlan[6] = "ADMIN_SECRET"
    BY DEF LocalPlan
  <2>2. 6 \in 1..Len(LocalPlan)
    BY Lengths
  <2> QED BY <2>1, <2>2
<1>5. Has(FullPlan, "ADMIN_SECRET")
  <2>1. FullPlan[8] = "ADMIN_SECRET"
    BY DEF FullPlan
  <2>2. 8 \in 1..Len(FullPlan)
    BY Lengths
  <2> QED BY <2>1, <2>2
<1>6. Has(FullPlan, "MAX_BODY") /\ Has(FullPlan, "REQUEST_TIMEOUT")
  <2>1. FullPlan[17] = "MAX_BODY" /\ FullPlan[15] = "REQUEST_TIMEOUT"
    BY DEF FullPlan
  <2>2. 17 \in 1..Len(FullPlan) /\ 15 \in 1..Len(FullPlan)
    BY Lengths
  <2> QED BY <2>1, <2>2
<1>7. Has(HttpPlan, "MAX_BODY") /\ Has(HttpPlan, "REQUEST_TIMEOUT")
  <2>1. HttpPlan[15] = "MAX_BODY" /\ HttpPlan[13] = "REQUEST_TIMEOUT"
    BY DEF HttpPlan
  <2>2. 15 \in 1..Len(HttpPlan) /\ 13 \in 1..Len(HttpPlan)
    BY Lengths
  <2> QED BY <2>1, <2>2
<1>8. ~Has(<<>>, "ADMIN_KEY")
  OBVIOUS
<1> HIDE DEF Has
<1>9. CASE md = "export"
  BY <1>8, <1>9, Scripts
<1>10. CASE md = "healthcheck"
  BY <1>1, <1>10, Scripts
<1>11. CASE md = "stdio"
  BY <1>2, <1>4, <1>11, Scripts
<1>12. CASE md = "http"
  BY <1>3, <1>5, <1>6, <1>7, <1>12, Scripts
<1> QED BY <1>9, <1>10, <1>11, <1>12 DEF Modes

\* The numbers that a server's list names.
LEMMA ScriptNumbers ==
  ASSUME NEW md \in {"http", "stdio"}, NEW p
  PROVE  {Script(md, p)[i] : i \in 1..Len(Script(md, p))} \cap Numbers =
            IF md = "http" THEN DOMAIN Documented ELSE {"UPSTREAM_TIMEOUT"}
<1> DEFINE Named(P) == {P[i] : i \in 1..Len(P)} \cap Numbers
<1>1. DOMAIN Documented = Numbers
  BY NumbersNamed DEF Documented
<1>2. Named(ReadIdentity) = {"UPSTREAM_TIMEOUT"}
  <2>1. ReadIdentity[4] = "UPSTREAM_TIMEOUT"
    BY DEF ReadIdentity
  <2>2. Len(ReadIdentity) = 4 /\ 4 \in 1..4
    BY Lengths
  <2>3. "UPSTREAM_TIMEOUT" \in Named(ReadIdentity)
    BY <2>1, <2>2, NumbersNamed
  <2>4. \A i \in 1..4 : ReadIdentity[i] \in Numbers => ReadIdentity[i] = "UPSTREAM_TIMEOUT"
    BY NumbersNamed DEF ReadIdentity
  <2>5. \A i \in 1..Len(ReadIdentity) : ReadIdentity[i] \in Numbers => ReadIdentity[i] = "UPSTREAM_TIMEOUT"
    BY <2>2, <2>4
  <2>6. Named(ReadIdentity) \subseteq {"UPSTREAM_TIMEOUT"}
    BY <2>5
  <2> QED BY <2>3, <2>6
<1>3. Named(LocalPlan) = {"UPSTREAM_TIMEOUT"}
  <2>1. LocalPlan[4] = "UPSTREAM_TIMEOUT"
    BY DEF LocalPlan
  <2>2. Len(LocalPlan) = 6 /\ 4 \in 1..6
    BY Lengths
  <2>3. "UPSTREAM_TIMEOUT" \in Named(LocalPlan)
    BY <2>1, <2>2, NumbersNamed
  <2>4. \A i \in 1..6 : LocalPlan[i] \in Numbers => LocalPlan[i] = "UPSTREAM_TIMEOUT"
    BY NumbersNamed DEF LocalPlan
  <2>5. \A i \in 1..Len(LocalPlan) : LocalPlan[i] \in Numbers => LocalPlan[i] = "UPSTREAM_TIMEOUT"
    BY <2>2, <2>4
  <2>6. Named(LocalPlan) \subseteq {"UPSTREAM_TIMEOUT"}
    BY <2>5
  <2> QED BY <2>3, <2>6
<1>4. Named(HttpPlan) = Numbers
  <2>1. /\ HttpPlan[2] = "PORT"
        /\ HttpPlan[6] = "UPSTREAM_TIMEOUT"
        /\ HttpPlan[13] = "REQUEST_TIMEOUT"
        /\ HttpPlan[14] = "MAX_CONCURRENT"
        /\ HttpPlan[15] = "MAX_BODY"
    BY DEF HttpPlan
  <2>2. 2 \in 1..17 /\ 6 \in 1..17 /\ 13 \in 1..17 /\ 14 \in 1..17 /\ 15 \in 1..17
    OBVIOUS
  <2>3. Len(HttpPlan) = 17
    BY Lengths
  <2>4. \A v \in Numbers : \E i \in 1..17 : HttpPlan[i] = v
    BY <2>1, <2>2, NumbersNamed
  <2>5. \A v \in Numbers : \E i \in 1..Len(HttpPlan) : HttpPlan[i] = v
    BY <2>3, <2>4
  <2> QED BY <2>5
<1>5. Named(FullPlan) = Numbers
  <2>1. /\ FullPlan[2] = "PORT"
        /\ FullPlan[6] = "UPSTREAM_TIMEOUT"
        /\ FullPlan[15] = "REQUEST_TIMEOUT"
        /\ FullPlan[16] = "MAX_CONCURRENT"
        /\ FullPlan[17] = "MAX_BODY"
    BY DEF FullPlan
  <2>2. 2 \in 1..19 /\ 6 \in 1..19 /\ 15 \in 1..19 /\ 16 \in 1..19 /\ 17 \in 1..19
    OBVIOUS
  <2>3. Len(FullPlan) = 19
    BY Lengths
  <2>4. \A v \in Numbers : \E i \in 1..19 : FullPlan[i] = v
    BY <2>1, <2>2, NumbersNamed
  <2>5. \A v \in Numbers : \E i \in 1..Len(FullPlan) : FullPlan[i] = v
    BY <2>3, <2>4
  <2> QED BY <2>5
<1>6. Named(Script(md, p)) = IF md = "http" THEN Numbers ELSE {"UPSTREAM_TIMEOUT"}
  <2> HIDE DEF Named
  <2>1. CASE md = "stdio"
    BY <1>2, <1>3, <2>1, Scripts DEF Modes
  <2>2. CASE md = "http"
    BY <1>4, <1>5, <2>2, Scripts DEF Modes
  <2> QED BY <2>1, <2>2
<1> QED BY <1>1, <1>6

-------------------------------------------------------------------------------
(* The start *)

\* One variable further along the list.
LEMMA Advance ==
  ASSUME Started, Progress, lookups # <<>>, lookups' = Tail(lookups),
         UNCHANGED <<mode, profile>>
  PROVE  /\ lookups' \in Seq(Variables) /\ Done' = Done + 1 /\ Done' \in 0..Len(Plan')
         /\ \A i \in 1..Len(lookups') : lookups'[i] = Plan'[Done' + i]
         /\ Read' = Read \cup {Head(lookups)}
         /\ Head(lookups) \notin Read
         /\ Uses(Head(lookups)) \subseteq (Read \cup {Head(lookups)}) \ Numbers
<1> USE DEF Progress
<1>1. Ordered(Plan) /\ Plan' = Plan
  BY ScriptOrdered DEF Started, Plan
<1>2. Plan \in Seq(Variables) /\ Len(Plan) \in Nat
  BY <1>1 DEF Ordered
<1>3. Len(lookups) \in Nat /\ Len(lookups) >= 1
  OBVIOUS
<1>4. lookups' \in Seq(Variables) /\ Len(lookups') = Len(lookups) - 1
  BY <1>3
<1>5. Done' = Done + 1
  BY <1>1, <1>2, <1>3, <1>4 DEF Done
<1>6. Done \in 0..(Len(Plan) - 1)
  BY <1>2, <1>3 DEF Done
<1>7. Done' \in 0..Len(Plan')
  BY <1>1, <1>2, <1>5, <1>6
<1>8. ASSUME NEW i \in 1..Len(lookups') PROVE lookups'[i] = Plan'[Done' + i]
  <2>1. i + 1 \in 1..Len(lookups) /\ lookups'[i] = lookups[i + 1]
    BY <1>3, <1>4
  <2>2. Done + (i + 1) = Done' + i
    BY <1>5, <1>6
  <2> QED BY <1>1, <2>1, <2>2
<1>9. Head(lookups) = Plan[Done + 1]
  BY <1>3
<1>10. 1..(Done + 1) = 1..Done \cup {Done + 1}
  BY <1>6
<1>11. Read' = {Plan[i] : i \in 1..(Done + 1)}
  BY <1>1, <1>5 DEF Read
<1>12. Read' = Read \cup {Head(lookups)}
  BY <1>9, <1>10, <1>11 DEF Read
<1>13. Head(lookups) \notin Read
  <2> SUFFICES ASSUME NEW i \in 1..Done, Plan[i] = Plan[Done + 1] PROVE FALSE
    BY <1>9 DEF Read
  <2>1. i \in 1..Len(Plan) /\ Done + 1 \in 1..Len(Plan)
    BY <1>2, <1>6
  <2>2. i = Done + 1
    BY <1>1, <2>1 DEF Ordered
  <2> QED BY <1>6, <2>2
<1>14. ASSUME NEW u \in Uses(Head(lookups))
       PROVE  u \in (Read \cup {Head(lookups)}) \ Numbers
  <2>1. PICK k : k = Done + 1
    OBVIOUS
  <2>2. k \in 1..Len(Plan) /\ u \in Uses(Plan[k])
    BY <1>2, <1>6, <1>9, <1>14, <2>1
  <2>3. u \notin Numbers /\ (u = Plan[k] \/ \E j \in 1..(k - 1) : Plan[j] = u)
    BY <1>1, <2>2 DEF Ordered
  <2>4. 1..(k - 1) = 1..Done
    BY <1>6, <2>1
  <2> QED BY <1>9, <2>1, <2>3, <2>4 DEF Read
<1> QED BY <1>4, <1>5, <1>7, <1>8, <1>12, <1>13, <1>14

\* What has been read asked for nothing that has not.
LEMMA UsesRead ==
  ASSUME Started, Progress, NEW v \in Read
  PROVE  Uses(v) \subseteq DOMAIN settings
<1> USE DEF Progress
<1>1. Ordered(Plan)
  BY ScriptOrdered DEF Started, Plan
<1>2. PICK i \in 1..Done : v = Plan[i]
  BY DEF Read
<1>3. Len(Plan) \in Nat /\ Done \in 0..Len(Plan)
  BY <1>1 DEF Ordered
<1>4. i \in 1..Len(Plan) /\ \A j \in 1..(i - 1) : j \in 1..Done
  BY <1>2, <1>3
<1>5. ASSUME NEW u \in Uses(v) PROVE u \in Read \ Numbers
  <2>1. u \notin Numbers /\ (u = Plan[i] \/ \E j \in 1..(i - 1) : Plan[j] = u)
    BY <1>1, <1>2, <1>4 DEF Ordered
  <2> QED BY <1>2, <1>4, <2>1 DEF Read
<1> QED BY <1>5

\* A check looks at nothing but what it asks for.
LEMMA ConsistentLocal ==
  ASSUME NEW v, NEW s, NEW t, \A u \in Uses(v) : s[u] = t[u]
  PROVE  Consistent(v, s) <=> Consistent(v, t)
<1>1. CASE v = "READ_SECRET"
  BY <1>1 DEF Uses, Consistent
<1>2. CASE v = "ADMIN_SECRET"
  BY <1>2 DEF Uses, Consistent
<1>3. CASE v = "MAX_BODY"
  BY <1>3 DEF Uses, Consistent
<1>4. CASE v \notin {"READ_SECRET", "ADMIN_SECRET", "MAX_BODY"}
  BY <1>4 DEF Consistent
<1> QED BY <1>1, <1>2, <1>3, <1>4

\* A number that is not refused lies within its bounds.
LEMMA NumberInBounds ==
  ASSUME NEW v \in Numbers, NEW raw \in NumbersFound(v)
  PROVE  Number(v, raw) \in Int /\ Number(v, raw) \in {Garbage} \cup Permitted(v)
<1>1. /\ Bounds[v].default \in Nat /\ Bounds[v].least \in Nat /\ Bounds[v].most \in Nat
      /\ Documented[v][1] = Bounds[v].least /\ Documented[v][2] = Bounds[v].most
  <2>1. v \in {"PORT", "UPSTREAM_TIMEOUT", "REQUEST_TIMEOUT", "MAX_CONCURRENT", "MAX_BODY"}
    BY NumbersNamed
  <2>2. CASE v = "PORT"
    BY <2>2 DEF Bounds, Documented
  <2>3. CASE v = "UPSTREAM_TIMEOUT"
    BY <2>3 DEF Bounds, Documented
  <2>4. CASE v = "REQUEST_TIMEOUT"
    BY <2>4 DEF Bounds, Documented
  <2>5. CASE v = "MAX_CONCURRENT"
    BY <2>5 DEF Bounds, Documented
  <2>6. CASE v = "MAX_BODY"
    BY <2>6 DEF Bounds, Documented
  <2> QED BY <2>1, <2>2, <2>3, <2>4, <2>5, <2>6
<1>2. raw \in Int
  BY <1>1 DEF NumbersFound, Unset, Garbage
<1>3. PICK lo \in Nat, hi \in Nat, d \in Nat :
        lo = Bounds[v].least /\ hi = Bounds[v].most /\ d = Bounds[v].default
  BY <1>1
<1>4. PICK n \in Int : n = IF raw = Unset THEN d ELSE raw
  BY <1>2
<1>5. Number(v, raw) = IF n < lo \/ n > hi THEN Garbage ELSE n
  BY <1>3, <1>4 DEF Number
<1>6. CASE n < lo \/ n > hi
  BY <1>5, <1>6 DEF Garbage
<1>7. CASE ~(n < lo \/ n > hi)
  <2>1. n \in lo..hi
    BY <1>7
  <2>2. Permitted(v) = lo..hi
    BY <1>1, <1>3 DEF Permitted
  <2> QED BY <1>5, <1>7, <2>1, <2>2
<1> QED BY <1>6, <1>7

\* A lifetime is read with its bounds, or there is none yet.
LEMMA TimeoutInBounds ==
  ASSUME Started, Progress
  PROVE  timeout \in Int /\ (Sound /\ phase # "exited" => timeout \in 0..120)
<1>1. CASE "REQUEST_TIMEOUT" \in DOMAIN limits
  <2>1. timeout = limits["REQUEST_TIMEOUT"] /\ "REQUEST_TIMEOUT" \in Read \cap Numbers
    BY <1>1 DEF timeout, Progress
  <2>2. timeout \in Int
    BY <1>1, <2>1 DEF Started
  <2>3. ASSUME Sound, phase # "exited" PROVE timeout \in 1..120
    <3>1. timeout \in Permitted("REQUEST_TIMEOUT")
      BY <2>1, <2>3 DEF Sound, Checked
    <3> QED BY <3>1 DEF Permitted, Documented
  <2> QED BY <2>2, <2>3
<1>2. CASE "REQUEST_TIMEOUT" \notin DOMAIN limits
  BY <1>2 DEF timeout
<1> QED BY <1>1, <1>2

\* A lifetime stays what was read.
LEMMA TimeoutKept ==
  ASSUME limits' = limits
  PROVE  timeout' = timeout /\ Ticks(timeout)' = Ticks(timeout)
  BY DEF timeout, Ticks

\* The start as one invariant, for the two steps that read.
Start == Started /\ Progress /\ Sound

LEMMA ReadNumberStep ==
  ASSUME Start, ReadNumber
  PROVE  Start'
<1> PICK v : v = Head(lookups)
  OBVIOUS
<1> USE DEF Start
<1>1. PICK raw \in NumbersFound(v) :
        /\ limits' = [w \in DOMAIN limits \cup {v} |->
                        IF w = v THEN Number(v, raw) ELSE limits[w]]
        /\ Exit(limits'[v] = Garbage \/ ~Consistent(v, settings))
  BY DEF ReadNumber
<1>2. /\ phase = "reading" /\ lookups # <<>> /\ v \in Numbers
      /\ lookups' = Tail(lookups) /\ UNCHANGED <<mode, profile, settings, drain>>
  BY DEF ReadNumber
<1>3. /\ lookups' \in Seq(Variables) /\ Done' \in 0..Len(Plan')
      /\ \A i \in 1..Len(lookups') : lookups'[i] = Plan'[Done' + i]
      /\ Read' = Read \cup {v} /\ v \notin Read
  BY <1>2, Advance
<1>4. /\ DOMAIN limits' = DOMAIN limits \cup {v} /\ DOMAIN limits = Read \cap Numbers
      /\ limits'[v] \in Int /\ limits'[v] \in {Garbage} \cup Permitted(v)
      /\ \A w \in DOMAIN limits : limits'[w] = limits[w]
  <2>1. DOMAIN limits' = DOMAIN limits \cup {v} /\ DOMAIN limits = Read \cap Numbers
    BY <1>1 DEF Progress
  <2>2. limits'[v] = Number(v, raw)
    BY <1>1
  <2>3. \A w \in DOMAIN limits : limits'[w] = limits[w]
    BY <1>1, <1>3, <2>1
  <2> QED BY <1>2, <2>1, <2>2, <2>3, NumberInBounds
<1>5. Started'
  <2>1. limits' = [w \in DOMAIN limits' |-> limits'[w]]
    BY <1>1
  <2>2. phase' \in {"reading", "serving", "draining", "exited"}
    BY <1>1, <1>2 DEF Exit
  <2>3. \A w \in DOMAIN limits' : limits'[w] \in Int
    BY <1>4 DEF Started
  <2> QED BY <1>2, <2>1, <2>2, <2>3 DEF Started
<1>6. Progress'
  <2>1. DOMAIN settings' = Read' \ Numbers /\ DOMAIN limits' = Read' \cap Numbers
    BY <1>2, <1>3, <1>4 DEF Progress
  <2> QED BY <1>3, <2>1 DEF Progress
<1>7. ASSUME phase' # "exited" PROVE \A u \in Read' : Checked(u)'
  <2>1. phase # "exited" /\ limits'[v] # Garbage /\ Consistent(v, settings)
    BY <1>1, <1>2, <1>7 DEF Exit
  <2>2. Checked(v)'
    BY <1>2, <1>4, <2>1 DEF Checked
  <2>3. ASSUME NEW u \in Read PROVE Checked(u)'
    <3>1. Checked(u)
      BY <2>1 DEF Sound
    <3>2. u \in Numbers => limits'[u] = limits[u]
      BY <1>4
    <3> QED BY <1>2, <3>1, <3>2 DEF Checked
  <2> QED BY <1>3, <2>2, <2>3
<1>8. Sound'
  <2> SUFFICES ASSUME phase' # "exited"
               PROVE  \A w \in DOMAIN settings' : settings'[w] # "refused"
    BY <1>7 DEF Sound
  <2> QED BY <1>2 DEF Sound
<1> QED BY <1>5, <1>6, <1>8

LEMMA ReadTextStep ==
  ASSUME Start, ReadText
  PROVE  Start'
<1> PICK v : v = Head(lookups)
  OBVIOUS
<1> USE DEF Start
<1>1. PICK x \in TextsFound(v) :
        /\ settings' = [w \in DOMAIN settings \cup {v} |->
                            IF w = v THEN Text(v, x) ELSE settings[w]]
        /\ Exit(settings'[v] = "refused" \/ ~Consistent(v, settings'))
  BY DEF ReadText
<1>2. /\ phase = "reading" /\ lookups # <<>> /\ v \notin Numbers
      /\ lookups' = Tail(lookups) /\ UNCHANGED <<mode, profile, limits, drain>>
  BY DEF ReadText
<1>3. /\ lookups' \in Seq(Variables) /\ Done' \in 0..Len(Plan')
      /\ \A i \in 1..Len(lookups') : lookups'[i] = Plan'[Done' + i]
      /\ Read' = Read \cup {v} /\ v \notin Read
  BY <1>2, Advance
<1>4. DOMAIN settings' = DOMAIN settings \cup {v}
  BY <1>1
<1>5. DOMAIN settings = Read \ Numbers /\ DOMAIN limits = Read \cap Numbers
  BY DEF Progress
<1>6. \A w \in DOMAIN settings : settings'[w] = settings[w]
  BY <1>1, <1>3, <1>5
<1>7. Started'
  <2>1. phase' \in {"reading", "serving", "draining", "exited"}
    BY <1>1, <1>2 DEF Exit
  <2>2. settings' = [w \in DOMAIN settings' |-> settings'[w]]
    BY <1>1
  <2> QED BY <1>2, <2>1, <2>2 DEF Started
<1>8. Progress'
  <2>1. DOMAIN settings' = Read' \ Numbers /\ DOMAIN limits' = Read' \cap Numbers
    BY <1>2, <1>3, <1>4, <1>5
  <2> QED BY <1>3, <2>1 DEF Progress
<1>9. ASSUME phase' # "exited" PROVE Sound'
  <2>1. phase # "exited" /\ settings'[v] # "refused" /\ Consistent(v, settings')
    BY <1>1, <1>2, <1>9 DEF Exit
  <2>3. Checked(v)'
    BY <1>2, <2>1 DEF Checked
  <2>4. ASSUME NEW u \in Read PROVE Checked(u)'
    <3>1. Checked(u)
      BY <2>1 DEF Sound
    <3>2. \A w \in Uses(u) : settings[w] = settings'[w]
      BY <1>6, UsesRead
    <3>3. Consistent(u, settings')
      BY <3>1, <3>2, ConsistentLocal DEF Checked
    <3> QED BY <1>2, <3>1, <3>3 DEF Checked
  <2>5. \A w \in DOMAIN settings' : settings'[w] # "refused"
    BY <1>4, <1>6, <2>1 DEF Sound
  <2> QED BY <1>2, <1>3, <2>1, <2>3, <2>4, <2>5 DEF Sound
<1> QED BY <1>7, <1>8, <1>9 DEF Sound

\* Nothing that a start relies on changes once everything is read.
LEMMA StartKept ==
  ASSUME Start, UNCHANGED <<mode, profile, lookups, settings, limits>>,
         phase' \in {"reading", "serving", "draining", "exited"}, drain' \in 0..DrainTime,
         phase' # "exited" => phase # "exited"
  PROVE  Start'
<1>1. Plan' = Plan /\ Done' = Done /\ Read' = Read
  BY DEF Plan, Done, Read
<1>2. Started' /\ Progress'
  BY <1>1 DEF Start, Started, Progress
<1>3. \A v \in Read : Checked(v) => Checked(v)'
  BY DEF Checked
<1> QED BY <1>1, <1>2, <1>3 DEF Start, Sound

\* One that serves has read everything.
Listening == Listen \/ ServeStdio \/ Conclude \/ Stop \/ InputEnds

LEMMA ListeningStep ==
  ASSUME Start, Listening
  PROVE  Start'
<1>1. /\ UNCHANGED <<mode, profile, lookups, settings, limits>>
      /\ phase' \in {"reading", "serving", "draining", "exited"}
      /\ drain' \in {drain, DrainTime} /\ phase # "exited"
  BY DEF Listening, Listen, ServeStdio, Conclude, Stop, InputEnds
<1>2. drain' \in 0..DrainTime
  BY <1>1 DEF Start, Started, DrainTime
<1> QED BY <1>1, <1>2, StartKept

\* A step of a request, of the clock, or of the drain.
Requests ==
    \/ Arrive \/ Verify \/ Receive \/ Handled \/ Cut \/ ArriveLocally \/ Forget
    \/ Tick \/ Drained

LEMMA RequestsStart ==
  ASSUME Start, Requests
  PROVE  Start'
<1>1. CASE Tick
  <2>1. UNCHANGED <<mode, profile, lookups, settings, limits, phase>>
    BY <1>1 DEF Tick
  <2>2. drain' \in 0..DrainTime
    BY <1>1 DEF Tick, Start, Started, DrainTime
  <2> QED BY <2>1, <2>2, StartKept DEF Start, Started
<1>2. CASE Drained
  <2>1. UNCHANGED <<mode, profile, lookups, settings, limits, drain>> /\ phase' = "exited"
    BY <1>2 DEF Drained
  <2> QED BY <2>1, StartKept DEF Start, Started
<1>3. CASE Arrive \/ Verify \/ Receive \/ Handled \/ Cut \/ ArriveLocally \/ Forget
  <2>1. UNCHANGED process
    BY <1>3 DEF Arrive, Verify, Receive, Handled, Cut, ArriveLocally, Forget
  <2>2. /\ UNCHANGED <<mode, profile, lookups, settings, limits, drain>>
        /\ phase' = phase
    BY <2>1 DEF process
  <2> QED BY <2>2, StartKept DEF Start, Started
<1> QED BY <1>1, <1>2, <1>3 DEF Requests

-------------------------------------------------------------------------------
(* The request *)

Served == Requested /\ Used

\* A request without an identity in use, whatever became of its process.
LEMMA Unused ==
  ASSUME stage \in {"idle", "answered"}
  PROVE  Used
  BY DEF Used, Active

LEMMA StartServed ==
  ASSUME Start, Served, ReadNumber \/ ReadText \/ Listening, UNCHANGED request
  PROVE  Served'
<1>1. UNCHANGED <<stage, status, age, left, budget>>
  BY DEF request
<1>2. CASE phase = "reading"
  <2>1. stage = "idle" /\ stage' = "idle"
    BY <1>1, <1>2 DEF Served, Requested
  <2>2. Used'
    BY <2>1 DEF Used, Active
  <2>3. Serving' => lookups' = <<>> /\ mode' \in {"http", "stdio"}
    BY <1>2 DEF Serving, ReadNumber, ReadText, Exit, Listening, Listen, ServeStdio,
                Conclude, Stop, InputEnds
  <2> QED BY <1>1, <2>1, <2>2, <2>3 DEF Served, Requested
<1>3. CASE phase # "reading"
  <2>1. /\ phase = "serving" /\ phase' # "reading"
        /\ UNCHANGED <<mode, lookups, limits>>
    BY <1>3 DEF ReadNumber, ReadText, Listening, Listen, ServeStdio, Conclude, Stop,
                InputEnds
  <2>2. Used'
    BY <1>1, <2>1, TimeoutKept DEF Served, Used, Active, Spent
  <2>3. Serving' => lookups' = <<>> /\ mode' \in {"http", "stdio"}
    BY <2>1 DEF Served, Requested, Serving
  <2> QED BY <1>1, <2>1, <2>2, <2>3 DEF Served, Requested
<1> QED BY <1>2, <1>3

\* A lifetime is no negative number of ticks.
LEMMA TicksNat ==
  ASSUME NEW seconds \in Nat
  PROVE  Ticks(seconds) \in Nat
  BY DEF Ticks

\* What a step of a request leaves of the process, but for the clock.
LEMMA RequestsServed ==
  ASSUME Start, Served, Requests
  PROVE  Served'
<1> USE DEF Served
<1>1. ASSUME UNCHANGED <<mode, lookups>>, phase' = phase \/ phase' = "exited",
             stage' = "idle" \/ phase # "reading",
             stage' \in {"idle", "verifying", "receiving", "handling", "answered"},
             status' \in {0, 200, 401, 403, 408, 413, 503},
             age' \in Int, left' \in Int, budget' \in Int
      PROVE  Requested'
  BY <1>1 DEF Requested, Serving
<1>2. UNCHANGED process =>
        UNCHANGED <<mode, profile, lookups, settings, limits, phase, drain>>
  BY DEF process
<1>3. Ticks(timeout) \in Nat \/ phase = "exited"
  BY TicksNat, TimeoutInBounds DEF Start
<1>4. CASE Arrive
  <2>1. /\ UNCHANGED <<mode, lookups, limits, phase>> /\ age' = age /\ left' = left
        /\ budget' = Ticks(timeout) /\ stage' \in {"answered", "verifying"}
        /\ status' \in {status, 401, 403, 503} /\ phase \in {"serving", "draining"}
    BY <1>2, <1>4 DEF Arrive, Answer, HeaderStatus, Serving
  <2>2. Requested'
    BY <1>1, <1>3, <2>1 DEF Requested
  <2>3. Used'
    BY <1>3, <2>1, TimeoutKept DEF Used, Active
  <2> QED BY <2>2, <2>3
<1>5. CASE Verify
  <2>1. PICK a \in -(ClockSkew + 1)..(MaximumAge + ClockSkew + 1),
             l \in -(ClockSkew + 1)..(MaximumLifetime + ClockSkew + 2) :
          \/ AcceptsTimes(a, l) /\ stage' = "receiving" /\ age' = a /\ left' = l
             /\ status' = status
          \/ stage' = "answered" /\ status' = 401 /\ age' = age /\ left' = left
    BY <1>5 DEF Verify, Answer
  <2>2. /\ UNCHANGED <<mode, lookups, limits, phase, budget>>
        /\ phase = "serving" /\ stage = "verifying"
    BY <1>2, <1>5 DEF Verify
  <2>3. a \in Int /\ l \in Int
    BY DEF ClockSkew, MaximumAge, MaximumLifetime
  <2>4. Requested'
    BY <1>1, <2>1, <2>2, <2>3 DEF Requested
  <2>5. ASSUME mode' = "http", stage' = "receiving" PROVE Used'
    <3>1. budget \in 0..Ticks(timeout) /\ Spent' \in Nat
      <4>1. budget \in 0..Ticks(timeout)
        BY <2>2, <2>5 DEF Used, Active
      <4>2. Ticks(timeout) \in Nat /\ Spent' = Ticks(timeout) - budget
        BY <1>3, <2>2, TimeoutKept DEF Spent
      <4> QED BY <4>1, <4>2
    <3>2. /\ a <= MaximumAge + ClockSkew + Spent'
          /\ -l <= ClockSkew + Spent'
          /\ a + l \in 1..MaximumLifetime
      <4>1. a <= MaximumAge + ClockSkew /\ l >= -ClockSkew /\ a + l \in 1..MaximumLifetime
        BY <2>1, <2>5 DEF AcceptsTimes
      <4>2. PICK n \in Nat : n = Spent'
        BY <3>1
      <4>3. a <= MaximumAge + ClockSkew + n /\ -l <= ClockSkew + n
        BY <2>3, <4>1 DEF MaximumAge, ClockSkew
      <4> QED BY <4>1, <4>2, <4>3
    <3>3. age' = a /\ left' = l
      BY <2>1, <2>5
    <3> QED BY <2>2, <3>1, <3>2, <3>3, TimeoutKept DEF Used
  <2>6. stage' = "answered" => Used'
    BY DEF Used, Active
  <2>7. mode' # "http" => Used'
    BY DEF Used
  <2> QED BY <2>1, <2>4, <2>5, <2>6, <2>7
<1>6. CASE Receive \/ Handled \/ Cut
  <2>1. /\ UNCHANGED <<mode, lookups, limits, phase, age, left, budget>>
        /\ phase \in {"serving", "draining"}
        /\ \/ stage = "receiving" /\ stage' = "handling" /\ status' = status
           \/ stage' = "answered" /\ status' \in {200, 408, 413, 503}
    BY <1>2, <1>6 DEF Receive, Handled, Cut, Answer
  <2>2. Requested'
    BY <1>1, <2>1 DEF Requested
  <2>3. Used'
    BY <2>1, TimeoutKept DEF Used, Active, Spent
  <2> QED BY <2>2, <2>3
<1>7. CASE ArriveLocally
  <2>1. /\ UNCHANGED <<mode, lookups, phase, status, age, left, budget>>
        /\ phase = "serving" /\ stage' = "handling" /\ mode = "stdio"
    BY <1>2, <1>7 DEF ArriveLocally
  <2>2. Requested'
    BY <1>1, <2>1 DEF Requested
  <2>3. Used'
    BY <2>1 DEF Used
  <2> QED BY <2>2, <2>3
<1>8. CASE Forget
  <2>1. /\ UNCHANGED <<mode, lookups, phase>>
        /\ stage' = "idle" /\ status' = 0 /\ age' = 0 /\ left' = 0 /\ budget' = 0
    BY <1>2, <1>8 DEF Forget
  <2>2. Requested'
    BY <1>1, <2>1
  <2>3. Used'
    BY <2>1 DEF Used, Active
  <2> QED BY <2>2, <2>3
<1>9. CASE Tick
  <2>1. /\ UNCHANGED <<mode, lookups, limits, phase, stage, status>>
        /\ phase \in {"serving", "draining"} /\ mode = "http"
        /\ Active => budget > 0 /\ budget' = budget - 1
        /\ stage \in {"receiving", "handling"} => age' = age + 1 /\ left' = left - 1
        /\ age' \in {age, age + 1} /\ left' \in {left, left - 1}
        /\ budget' \in {budget, budget - 1}
    BY <1>9 DEF Tick, Active, Serving
  <2>2. Requested'
    <3>1. age' \in Int /\ left' \in Int /\ budget' \in Int
      BY <2>1 DEF Requested
    <3> QED BY <1>1, <2>1, <3>1 DEF Requested
  <2>3. Ticks(timeout) \in Nat /\ Ticks(timeout)' = Ticks(timeout)
    BY <1>3, <2>1, TimeoutKept
  <2>4. ASSUME Active' PROVE budget' \in 0..Ticks(timeout)'
    <3>1. Active /\ budget \in 0..Ticks(timeout)
      BY <2>1, <2>4 DEF Used, Active
    <3> QED BY <2>1, <2>3, <3>1
  <2>5. ASSUME stage' \in {"receiving", "handling"}
        PROVE  /\ age' <= MaximumAge + ClockSkew + Spent'
               /\ -left' <= ClockSkew + Spent'
               /\ age' + left' \in 1..MaximumLifetime
    <3>1. /\ age <= MaximumAge + ClockSkew + Spent
          /\ -left <= ClockSkew + Spent
          /\ age + left \in 1..MaximumLifetime
      BY <2>1, <2>5 DEF Used
    <3>2. age' = age + 1 /\ left' = left - 1 /\ budget' = budget - 1
      BY <2>1, <2>5 DEF Active
    <3>3. Spent \in Int /\ Spent' = Spent + 1
      BY <2>3, <3>2 DEF Spent, Requested
    <3>4. age \in Int /\ left \in Int
      BY DEF Requested
    <3> QED BY <3>1, <3>2, <3>3, <3>4 DEF MaximumAge, ClockSkew, MaximumLifetime
  <2>6. Used'
    BY <2>4, <2>5 DEF Used
  <2> QED BY <2>2, <2>6
<1>10. CASE Drained
  <2>1. /\ UNCHANGED <<mode, lookups, limits, stage, status, age, left, budget>>
        /\ phase' = "exited" /\ phase = "draining"
    BY <1>10 DEF Drained, request
  <2>2. Requested'
    BY <1>1, <2>1 DEF Requested
  <2>3. Used'
    BY <2>1, TimeoutKept DEF Used, Active, Spent
  <2> QED BY <2>2, <2>3
<1> QED BY <1>4, <1>5, <1>6, <1>7, <1>8, <1>9, <1>10 DEF Requests

-------------------------------------------------------------------------------
(* The theorems *)

LEMMA GatewayInvInit == Init => GatewayInv
<1> SUFFICES ASSUME Init PROVE GatewayInv
  OBVIOUS
<1> USE DEF Init, StartInit, IngressInit
<1>1. Ordered(Plan)
  BY ScriptOrdered DEF Plan
<1>2. Plan \in Seq(Variables) /\ Len(Plan) \in Nat /\ lookups = Plan
  BY <1>1 DEF Ordered, Plan
<1>3. Done = 0
  BY <1>2 DEF Done
<1>4. Read = {}
  BY <1>3 DEF Read
<1>5. /\ settings = [v \in DOMAIN settings |-> settings[v]] /\ DOMAIN settings = {}
      /\ limits = [v \in DOMAIN limits |-> limits[v]] /\ DOMAIN limits = {}
  OBVIOUS
<1>6. Started
  BY <1>5 DEF Started, DrainTime
<1>7. \A i \in 1..Len(lookups) : lookups[i] = Plan[Done + i]
  BY <1>2, <1>3
<1>8. Progress
  BY <1>2, <1>3, <1>4, <1>5, <1>7 DEF Progress
<1>9. Sound
  BY <1>4, <1>5 DEF Sound
<1>10. Requested /\ Used
  BY DEF Requested, Used, Active, Serving
<1> QED BY <1>6, <1>8, <1>9, <1>10 DEF GatewayInv

LEMMA GatewayInvStep == GatewayInv /\ [Next]_vars => GatewayInv'
<1> SUFFICES ASSUME GatewayInv, [Next]_vars PROVE GatewayInv'
  OBVIOUS
<1> USE DEF GatewayInv, Start, Served
<1>1. CASE (ReadNumber \/ ReadText \/ Listening) /\ UNCHANGED request
  BY <1>1, ReadNumberStep, ReadTextStep, ListeningStep, StartServed
<1>2. CASE Requests
  BY <1>2, RequestsStart, RequestsServed
<1>3. CASE UNCHANGED vars
  <2>1. UNCHANGED <<mode, profile, lookups, settings, limits, phase, drain>>
    BY <1>3 DEF vars, process
  <2>2. UNCHANGED <<stage, status, age, left, budget>>
    BY <1>3 DEF vars, request
  <2>3. Start'
    BY <2>1, StartKept DEF Started
  <2>4. Requested' /\ Used'
    BY <2>1, <2>2, TimeoutKept DEF Requested, Used, Active, Spent, Serving
  <2> QED BY <2>3, <2>4
<1> QED BY <1>1, <1>2, <1>3 DEF Next, Listening, Requests

\* How far a process has come, what it holds by then, and how much of a request's
\* lifetime its identity has seen, are as the invariant says.
THEOREM GatewayTyped == Spec => []GatewayInv
  BY GatewayInvInit, GatewayInvStep, PTL DEF Spec

\* At the end of the list every check of it has been made.
LEMMA ServingSound ==
  ASSUME GatewayInv
  PROVE  SoundStart
<1> SUFFICES ASSUME Serving PROVE SoundStart
  BY DEF SoundStart
<1> USE DEF GatewayInv
<1>1. phase # "exited" /\ lookups = <<>> /\ mode \in Modes
  BY DEF Serving, Requested, Started
<1>2. Ordered(Plan)
  BY <1>1, ScriptOrdered DEF Plan
<1>3. Done = Len(Plan) /\ Len(Plan) \in Nat
  BY <1>1, <1>2 DEF Done, Ordered
<1>4. Read = {Plan[i] : i \in 1..Len(Plan)}
  BY <1>3 DEF Read
<1>5. DOMAIN settings = Read \ Numbers
  BY DEF Progress
<1>6. \A v \in Read : Checked(v) /\ Uses(v) \subseteq DOMAIN settings
  BY <1>1, UsesRead DEF Sound
<1>7. "ADMIN_SECRET" \in Read =>
        /\ "ADMIN_KEY" \in DOMAIN settings
        /\ Pair(settings["ADMIN_KEY"], settings["ADMIN_SECRET"])
  BY <1>6 DEF Checked, Consistent, Uses
<1>8. ASSUME Admin PROVE Mutating(profile) /\ settings["ADMIN_SECRET"] # "none"
  <2>1. "ADMIN_KEY" \in Read /\ settings["ADMIN_KEY"] # "none"
    BY <1>5, <1>8 DEF Admin
  <2>2. Mutating(profile) /\ "ADMIN_SECRET" \in Read
    BY <1>1, <1>4, <2>1, ScriptCovers DEF Plan
  <2> QED BY <1>7, <2>1, <2>2 DEF Pair
<1>9. ASSUME ~Admin, "ADMIN_SECRET" \in DOMAIN settings
      PROVE  settings["ADMIN_SECRET"] = "none"
  BY <1>5, <1>7, <1>9 DEF Admin, Pair
<1>10. ASSUME mode = "http"
       PROVE  /\ settings["BEARER_CURRENT"] = "strong"
              /\ settings["BEARER_PREVIOUS"] \in {"none", "strong"}
  <2>1. "MAX_BODY" \in Read
    BY <1>1, <1>4, <1>10, ScriptCovers DEF Plan
  <2>2. Checked("MAX_BODY")
    BY <1>6, <2>1
  <2>3. Bearers(settings["BEARER_CURRENT"], settings["BEARER_PREVIOUS"])
    BY <2>2 DEF Checked, Consistent
  <2> QED BY <2>3 DEF Bearers
<1>11. DOMAIN limits = Read \cap Numbers
  BY DEF Progress
<1>12. \A v \in DOMAIN limits : limits[v] \in Permitted(v)
  BY <1>6, <1>11 DEF Checked
<1>13. DOMAIN limits = IF mode = "http" THEN DOMAIN Documented ELSE {"UPSTREAM_TIMEOUT"}
  <2>1. Read \cap Numbers = IF mode = "http" THEN DOMAIN Documented ELSE {"UPSTREAM_TIMEOUT"}
    <3>1. mode \in {"http", "stdio"}
      BY DEF Requested
    <3>2. {Plan[i] : i \in 1..Len(Plan)} \cap Numbers =
            IF mode = "http" THEN DOMAIN Documented ELSE {"UPSTREAM_TIMEOUT"}
      BY <3>1, ScriptNumbers DEF Plan
    <3> QED BY <1>4, <3>2
  <2> QED BY <1>11, <2>1
<1> QED BY <1>8, <1>9, <1>10, <1>12, <1>13 DEF SoundStart

\* A process that serves has a complete administrative pair or none, only under a
\* profile that mutates; every number of its mode within its documented range; over
\* HTTP strong bearers.
THEOREM SoundStarts == Spec => []SoundStart
  BY GatewayTyped, ServingSound, PTL

LEMMA UsedBounded ==
  ASSUME GatewayInv
  PROVE  BoundedUse
<1> SUFFICES ASSUME stage \in {"receiving", "handling"}, mode = "http"
             PROVE  /\ age <= MaximumAge + ClockSkew + Ticks(timeout)
                    /\ -left <= ClockSkew + Ticks(timeout)
                    /\ age + left \in 1..MaximumLifetime
  BY DEF BoundedUse
<1> USE DEF GatewayInv
<1>1. /\ age <= MaximumAge + ClockSkew + Spent
      /\ -left <= ClockSkew + Spent
      /\ age + left \in 1..MaximumLifetime
  BY DEF Used
<1>2. budget \in 0..Ticks(timeout)
  BY DEF Used, Active
<1>3. Ticks(timeout) \in Int
  BY TimeoutInBounds DEF Ticks
<1>4. Spent \in Int /\ Spent <= Ticks(timeout)
  BY <1>2, <1>3 DEF Spent
<1>5. age \in Int /\ left \in Int
  BY DEF Requested
<1> QED BY <1>1, <1>3, <1>4, <1>5 DEF MaximumAge, ClockSkew

\* An identity in use is never older than the oldest token plus the lifetime of a
\* request, and no token is accepted that was issued for longer than it may live.
THEOREM UseBounded == Spec => []BoundedUse
  BY GatewayTyped, UsedBounded, PTL

\* Without a profile that mutates, a process has read no administrative variable,
\* whatever its environment holds (from_environment_with_admin, main.rs serve_stdio).
AdminUntouched ==
    ~Mutating(profile) => {"ADMIN_KEY", "ADMIN_SECRET"} \cap DOMAIN settings = {}

\* A process that is not to change anything leaves the administrative pair unread
\* (from_environment_with_admin; the test at config.rs:364 has it of one environment).
THEOREM AdminUnread == Spec => []AdminUntouched
<1>1. ASSUME GatewayInv PROVE AdminUntouched
  <2> USE DEF GatewayInv
  <2> SUFFICES ASSUME ~Mutating(profile), {"ADMIN_KEY", "ADMIN_SECRET"} \cap Read # {}
               PROVE  FALSE
    BY <1>1 DEF AdminUntouched, Progress
  <2>1. "ADMIN_KEY" \in Read
    BY <1>1, UsesRead DEF Uses, Progress
  <2>2. PICK i \in 1..Done : Plan[i] = "ADMIN_KEY"
    BY <2>1 DEF Read
  <2>3. Ordered(Plan)
    BY <1>1, ScriptOrdered DEF Plan, Started
  <2>4. i \in 1..Len(Plan)
    BY <1>1, <2>2, <2>3 DEF Progress, Ordered
  <2> QED BY <1>1, <2>2, <2>4, ScriptCovers DEF Plan, Started
<1> QED BY <1>1, GatewayTyped, PTL

=====================================================================================
