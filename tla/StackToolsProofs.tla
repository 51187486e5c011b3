----------------------------- MODULE StackToolsProofs -----------------------------
(***************************************************************************)
(* For every set of calls: the types; nothing reaches Core that is not     *)
(* listed; a write changes what it was asked to and nothing else; and what *)
(* the named tool shows settles an uncertain write.                        *)
(***************************************************************************)
EXTENDS StackTools, TLAPS

\* What holds of one call wherever it stands: its tool was permitted when it was
\* dispatched, and what it sends is what its caller asked for.
CallInv(c) ==
    /\ pc[c] \in {"resolving", "ready"} => Permits(tool[c]) /\ patch[c] = ask[c]
    /\ copy[c] # "none" =>
            /\ Permits(tool[c]) /\ tool[c] \in Mutations
            /\ patch[c] = ask[c] /\ pc[c] \notin {"idle", "resolving", "ready"}

CallsInv ==
    /\ tool \in [Calls -> Tools]
    /\ DOMAIN pc = Calls /\ DOMAIN copy = Calls
    /\ DOMAIN ask = Calls /\ DOMAIN patch = Calls
    /\ \A c \in Calls : CallInv(c)

-------------------------------------------------------------------------------

\* Both ways of deciding what is offered come to the same.
LEMMA ListAgrees == \A t \in Tools : t \in Listed <=> Permits(t)
  BY DEF Listed, Permits, InProfile

\* A read is no mutation.
LEMMA ReadsApart == Reads \cap Mutations = {}
  BY DEF Reads, Shows, Mutations, Sets, Actions

\* What is valid is sent as it was asked for.
LEMMA SentAsAsked ==
  ASSUME NEW c \in Calls, NEW t, NEW a, Valid(c, t, a)
  PROVE  Patch(c, t, a) = a
  BY DEF Valid, Patch

\* What a step leaves of a call that it does not concern.
LEMMA OtherCalls ==
  ASSUME NEW c, UNCHANGED process,
         tool'[c] = tool[c], ask'[c] = ask[c], pc'[c] = pc[c],
         patch'[c] = patch[c], copy'[c] = copy[c], CallInv(c)
  PROVE  CallInv(c)'
  BY DEF CallInv, Permits, process

LEMMA CallsInvInit == Init => CallsInv
<1> SUFFICES ASSUME Init PROVE CallsInv
  OBVIOUS
<1>1. "operations_search" \in Tools
  BY DEF Tools, Reads, Shows
<1>2. tool \in [Calls -> Tools]
  BY <1>1 DEF Init
<1>3. \A c \in Calls : CallInv(c)
  BY DEF Init, CallInv
<1> QED BY <1>2, <1>3 DEF Init, CallsInv

LEMMA CallsInvStep == CallsInv /\ [Next]_vars => CallsInv'
<1> SUFFICES ASSUME CallsInv, [Next]_vars PROVE CallsInv'
  OBVIOUS
<1> USE DEF CallsInv
<1>1. ASSUME NEW c \in Calls, Begin(c) PROVE CallsInv'
  <2> PICK t \in Tools : \E a \in Requests(c, t) :
        /\ tool' = [tool EXCEPT ![c] = t]
        /\ ask' = [ask EXCEPT ![c] = a]
        /\ IF Permits(t) /\ Valid(c, t, a)
           THEN /\ pc' = [pc EXCEPT ![c] = IF t = "operations_search" THEN "ready"
                                           ELSE "resolving"]
                /\ patch' = [patch EXCEPT ![c] = Patch(c, t, a)]
           ELSE pc' = [pc EXCEPT ![c] = "refused"] /\ UNCHANGED patch
    BY <1>1 DEF Begin
  <2> PICK a \in Requests(c, t) :
        /\ tool' = [tool EXCEPT ![c] = t]
        /\ ask' = [ask EXCEPT ![c] = a]
        /\ IF Permits(t) /\ Valid(c, t, a)
           THEN /\ pc' = [pc EXCEPT ![c] = IF t = "operations_search" THEN "ready"
                                           ELSE "resolving"]
                /\ patch' = [patch EXCEPT ![c] = Patch(c, t, a)]
           ELSE pc' = [pc EXCEPT ![c] = "refused"] /\ UNCHANGED patch
    OBVIOUS
  <2>1. UNCHANGED <<process, copy>> /\ copy[c] = "none"
    BY <1>1 DEF Begin, CallInv
  <2>2. \A d \in Calls \ {c} : CallInv(d)'
    BY <2>1, OtherCalls
  <2>3. Permits(t)' <=> Permits(t)
    BY <2>1 DEF Permits, process
  <2>4. CallInv(c)'
    BY <2>1, <2>3, SentAsAsked DEF CallInv
  <2> QED BY <2>1, <2>2, <2>4
<1>2. ASSUME NEW c \in Calls, Resolve(c) PROVE CallsInv'
  <2>1. \A d \in Calls \ {c} : CallInv(d)'
    BY <1>2, OtherCalls DEF Resolve
  <2>2. CallInv(c)'
    BY <1>2 DEF Resolve, CallInv, Permits, process
  <2> QED BY <1>2, <2>1, <2>2 DEF Resolve
<1>3. ASSUME NEW c \in Calls, Submit(c) PROVE CallsInv'
  <2>1. \A d \in Calls \ {c} : CallInv(d)'
    BY <1>3, OtherCalls DEF Submit
  <2>2. CallInv(c)'
    BY <1>3 DEF Submit, CallInv, Permits, process
  <2> QED BY <1>3, <2>1, <2>2 DEF Submit
<1>4. ASSUME NEW c \in Calls, Look(c) PROVE CallsInv'
  <2>1. \A d \in Calls \ {c} : CallInv(d)'
    BY <1>4, OtherCalls DEF Look
  <2>2. CallInv(c)'
    BY <1>4 DEF Look, CallInv, Permits, process
  <2> QED BY <1>4, <2>1, <2>2 DEF Look
<1>5. ASSUME NEW c \in Calls, Finish(c) PROVE CallsInv'
  <2>1. \A d \in Calls \ {c} : CallInv(d)'
    BY <1>5, OtherCalls DEF Finish
  <2>2. CallInv(c)'
    BY <1>5 DEF Finish, CallInv, Permits, process
  <2> QED BY <1>5, <2>1, <2>2 DEF Finish
<1>6. ASSUME NEW c \in Calls, Settle(c) PROVE CallsInv'
  <2>1. \A d \in Calls \ {c} : CallInv(d)'
    BY <1>6, OtherCalls DEF Settle
  <2>2. CallInv(c)'
    BY <1>6 DEF Settle, CallInv, Permits, process
  <2> QED BY <1>6, <2>1, <2>2 DEF Settle
<1>7. CASE UNCHANGED vars
  BY <1>7, OtherCalls DEF vars, calls
<1> QED BY <1>1, <1>2, <1>3, <1>4, <1>5, <1>6, <1>7 DEF Next

THEOREM CallsInvHolds == Spec => []CallsInv
  BY CallsInvInit, CallsInvStep, PTL DEF Spec

-------------------------------------------------------------------------------

\* The list and the dispatcher agree, and nothing that is not listed is submitted.
THEOREM OnlyListed == Spec => []ToolsAsListed
<1>1. CallsInv => ToolsAsListed
  BY ListAgrees, ReadsApart DEF CallsInv, CallInv, ToolsAsListed
<1> QED BY <1>1, CallsInvHolds, PTL

\* Every write that Core accepts changes the fields its caller set, to what the
\* caller set, and no other.
THEOREM UpdatesArePartial == Spec => PartialUpdates
<1> DEFINE Merged == \A c \in Calls : copy[c] = "flying" /\ copy'[c] = "accepted" =>
                \A f \in Fields :
                    config'[f] = IF f \in DOMAIN ask[c] THEN ask[c][f] ELSE config[f]
<1>1. CallsInv /\ [Next]_vars => [Merged]_vars
  <2> SUFFICES ASSUME CallsInv, Next, NEW c \in Calls,
                      copy[c] = "flying", copy'[c] = "accepted", NEW f \in Fields
               PROVE  config'[f] = IF f \in DOMAIN ask[c] THEN ask[c][f] ELSE config[f]
    OBVIOUS
  <2>1. DOMAIN copy = Calls /\ patch[c] = ask[c]
    BY DEF CallsInv, CallInv
  <2>2. PICK d \in Calls : Begin(d) \/ Resolve(d) \/ Submit(d) \/ Look(d) \/ Finish(d)
                            \/ Settle(d)
    BY DEF Next
  <2>3. Settle(d) /\ d = c
    BY <2>1, <2>2 DEF Begin, Resolve, Submit, Look, Finish, Settle
  <2>4. config' = [g \in Fields |-> IF g \in DOMAIN patch[c] THEN patch[c][g]
                                    ELSE config[g]]
    BY <2>1, <2>3 DEF Settle
  <2> QED BY <2>1, <2>4
<1>2. PartialUpdates <=> [][Merged]_vars
  BY PTL DEF PartialUpdates
<1> QED BY <1>1, <1>2, CallsInvHolds, PTL DEF Spec

-------------------------------------------------------------------------------
(* Types *)

\* What TypeOK says of one call, and what it rests on while the call is under way.
CallTyped(c) ==
    /\ DOMAIN ask[c] \subseteq Fields /\ DOMAIN patch[c] \subseteq Fields
    /\ \A f \in DOMAIN ask[c] : ask[c][f] \in {c, Empty}
    /\ \A f \in DOMAIN patch[c] : patch[c][f] \in {c, Empty}
    /\ \A f \in DOMAIN view[c].config : view[c].config[f] \in Values
    /\ view[c].operations \subseteq Calls
    /\ pc[c] \in {"sent", "applied", "failed", "unknown"} <=> copy[c] # "none"
    /\ pc[c] # "shown" => view[c] = [config |-> <<>>, operations |-> {}]
    /\ copy[c] # "none" \/ pc[c] \in {"resolving", "ready"} =>
            (tool[c] \in DOMAIN Sets => DOMAIN patch[c] # {})

\* The types of the rest.
RestTyped ==
    /\ profile \in {"status", "read-only", "operations", "full"}
    /\ admin \in BOOLEAN /\ native \in BOOLEAN
    /\ upload \in {"text", "empty", "binary", "none"}
    /\ tool \in [Calls -> Tools]
    /\ pc \in [Calls -> {"idle", "resolving", "ready", "sent"} \cup Outcomes]
    /\ copy \in [Calls -> {"none", "flying", "accepted", "rejected", "lost"}]
    /\ config \in [Fields -> Calls \cup {Empty, "old"}]
    /\ looked \in [Calls -> SUBSET Calls]
    /\ DOMAIN ask = Calls /\ DOMAIN patch = Calls /\ DOMAIN view = Calls

TypeInv == RestTyped /\ \A c \in Calls : CallTyped(c)

\* What a caller may set is some of the fields, each to its own value or to Empty.
LEMMA RequestTyped ==
  ASSUME NEW c \in Calls, NEW t \in Tools, NEW a \in Requests(c, t)
  PROVE  DOMAIN a \subseteq Fields /\ \A f \in DOMAIN a : a[f] \in {c, Empty}
<1>1. CASE t \notin DOMAIN Sets
  <2>1. a = <<>>
    BY <1>1 DEF Requests
  <2>2. DOMAIN a = {}
    BY <2>1
  <2> QED BY <2>2
<1>2. CASE t \in DOMAIN Sets
  <2>1. PICK F \in IF t \in Optional THEN SUBSET Sets[t] ELSE {Sets[t]},
             v \in {c, Empty} : a \in [F -> {v}]
    BY <1>2 DEF Requests
  <2>2. Sets[t] \subseteq Fields
    BY <1>2 DEF Fields
  <2>3. F \subseteq Sets[t]
    BY <2>1
  <2> QED BY <2>1, <2>2, <2>3
<1> QED BY <1>1, <1>2

\* A read shows fields of the configuration.
LEMMA ShowsFields == \A t \in DOMAIN Shows : Shows[t] \subseteq Fields
  BY DEF Shows, Fields, Sets

LEMMA TypeInit == Init => TypeInv
<1> SUFFICES ASSUME Init PROVE TypeInv
  OBVIOUS
<1>1. "operations_search" \in Tools
  BY DEF Tools, Reads, Shows
<1>2. DOMAIN <<>> = {}
  OBVIOUS
<1>3. \A c \in Calls : CallTyped(c)
  BY <1>2 DEF Init, CallTyped
<1>4. /\ admin \in BOOLEAN /\ native \in BOOLEAN
      /\ upload \in {"text", "empty", "binary", "none"}
  BY DEF Init
<1>5. RestTyped
  BY <1>1, <1>4 DEF Init, RestTyped
<1> QED BY <1>3, <1>5 DEF TypeInv

\* A step that does not concern a call leaves its part alone.
LEMMA OtherTyped ==
  ASSUME NEW c, tool'[c] = tool[c], ask'[c] = ask[c], pc'[c] = pc[c], view'[c] = view[c],
         patch'[c] = patch[c], copy'[c] = copy[c], CallTyped(c)
  PROVE  CallTyped(c)'
  BY DEF CallTyped

LEMMA TypeStep == TypeInv /\ [Next]_vars => TypeInv'
<1> SUFFICES ASSUME TypeInv, [Next]_vars PROVE TypeInv'
  OBVIOUS
<1>0. RestTyped /\ \A c \in Calls : CallTyped(c)
  BY DEF TypeInv
<1>1. ASSUME NEW c \in Calls, Begin(c) PROVE TypeInv'
  <2> PICK t \in Tools : \E a \in Requests(c, t) :
        /\ tool' = [tool EXCEPT ![c] = t]
        /\ ask' = [ask EXCEPT ![c] = a]
        /\ IF Permits(t) /\ Valid(c, t, a)
           THEN /\ pc' = [pc EXCEPT ![c] = IF t = "operations_search" THEN "ready"
                                           ELSE "resolving"]
                /\ patch' = [patch EXCEPT ![c] = Patch(c, t, a)]
           ELSE pc' = [pc EXCEPT ![c] = "refused"] /\ UNCHANGED patch
        /\ upload' = IF Permits(t) /\ native /\ Custom(c, t, a) THEN "none" ELSE upload
    BY <1>1 DEF Begin
  <2> PICK a \in Requests(c, t) :
        /\ tool' = [tool EXCEPT ![c] = t]
        /\ ask' = [ask EXCEPT ![c] = a]
        /\ IF Permits(t) /\ Valid(c, t, a)
           THEN /\ pc' = [pc EXCEPT ![c] = IF t = "operations_search" THEN "ready"
                                           ELSE "resolving"]
                /\ patch' = [patch EXCEPT ![c] = Patch(c, t, a)]
           ELSE pc' = [pc EXCEPT ![c] = "refused"] /\ UNCHANGED patch
        /\ upload' = IF Permits(t) /\ native /\ Custom(c, t, a) THEN "none" ELSE upload
    OBVIOUS
  <2>1. UNCHANGED <<process, config, copy, view, looked>> /\ pc[c] = "idle"
    BY <1>1 DEF Begin
  <2>2. \A d \in Calls \ {c} : CallTyped(d)'
    BY <1>0, <2>1, OtherTyped DEF RestTyped
  <2>3. DOMAIN a \subseteq Fields /\ \A f \in DOMAIN a : a[f] \in {c, Empty}
    BY RequestTyped
  <2>4. ask'[c] = a /\ tool'[c] = t /\ pc'[c] \in {"refused", "ready", "resolving"}
    BY <1>0 DEF RestTyped
  <2>5. \/ patch'[c] = patch[c] /\ pc'[c] = "refused"
        \/ patch'[c] = a /\ (t \in DOMAIN Sets => DOMAIN a # {})
    BY <1>0, SentAsAsked DEF RestTyped, Valid
  <2>6. copy'[c] = "none"
    BY <1>0, <2>1 DEF CallTyped
  <2>7. CallTyped(c)'
    BY <1>0, <2>1, <2>3, <2>4, <2>5, <2>6 DEF CallTyped, Values
  <2>8. pc' \in [Calls -> {"idle", "resolving", "ready", "sent"} \cup Outcomes]
    BY <1>0 DEF RestTyped, Outcomes
  <2>9. RestTyped'
    BY <1>0, <2>1, <2>8 DEF RestTyped, process
  <2> QED BY <2>2, <2>7, <2>9 DEF TypeInv
<1>2. ASSUME NEW c \in Calls, Resolve(c) PROVE TypeInv'
  <2>1. \A d \in Calls \ {c} : CallTyped(d)'
    BY <1>0, <1>2, OtherTyped DEF Resolve, RestTyped
  <2>2. CallTyped(c)'
    BY <1>0, <1>2 DEF Resolve, CallTyped, RestTyped
  <2>3. RestTyped'
    BY <1>0, <1>2 DEF Resolve, RestTyped, process, Outcomes
  <2> QED BY <2>1, <2>2, <2>3 DEF TypeInv
<1>3. ASSUME NEW c \in Calls, Submit(c) PROVE TypeInv'
  <2>1. \A d \in Calls \ {c} : CallTyped(d)'
    BY <1>0, <1>3, OtherTyped DEF Submit, RestTyped
  <2>2. CallTyped(c)'
    BY <1>0, <1>3 DEF Submit, CallTyped, RestTyped
  <2>3. RestTyped'
    BY <1>0, <1>3 DEF Submit, RestTyped, process, Outcomes
  <2> QED BY <2>1, <2>2, <2>3 DEF TypeInv
<1>4. ASSUME NEW c \in Calls, Look(c) PROVE TypeInv'
  <2>1. \A d \in Calls \ {c} : CallTyped(d)'
    BY <1>0, <1>4, OtherTyped DEF Look, RestTyped
  <2>2. CASE pc'[c] = "refused"
    <3>1. pc' = [pc EXCEPT ![c] = "refused"] /\ UNCHANGED <<view, looked>>
      BY <1>0, <1>4, <2>2 DEF Look, RestTyped
    <3>2. CallTyped(c)'
      BY <1>0, <1>4, <3>1 DEF Look, CallTyped, RestTyped
    <3>3. RestTyped'
      BY <1>0, <1>4, <3>1 DEF Look, RestTyped, process, Outcomes
    <3> QED BY <2>1, <3>2, <3>3 DEF TypeInv
  <2>3. CASE pc'[c] = "shown"
    <3>1. /\ view'[c] = [config |-> [f \in Shows[tool[c]] |-> Projected(tool[c], f)],
                         operations |-> IF tool[c] = "operations_search" THEN Accepted
                                        ELSE {}]
          /\ looked' = [looked EXCEPT ![c] = Accepted] /\ tool[c] \in DOMAIN Shows
          /\ pc' = [pc EXCEPT ![c] = "shown"] /\ pc[c] = "ready" /\ DOMAIN view' = Calls
      BY <1>0, <1>4, <2>3 DEF Look, RestTyped, Reads
    <3>2. Accepted \subseteq Calls
      BY DEF Accepted
    <3>3. \A f \in Shows[tool[c]] : Projected(tool[c], f) \in Values
      <4>1. Shows[tool[c]] \subseteq Fields
        BY <3>1, ShowsFields
      <4> QED BY <1>0, <4>1 DEF Projected, Values, RestTyped
    <3>4. /\ \A f \in DOMAIN view'[c].config : view'[c].config[f] \in Values
          /\ view'[c].operations \subseteq Calls
      BY <3>1, <3>2, <3>3
    <3>5. CallTyped(c)'
      BY <1>0, <1>4, <3>1, <3>4 DEF Look, CallTyped, RestTyped, Values
    <3>6. RestTyped'
      BY <1>0, <1>4, <3>1, <3>2 DEF Look, RestTyped, process, Outcomes
    <3> QED BY <2>1, <3>5, <3>6 DEF TypeInv
  <2> QED BY <1>0, <1>4, <2>2, <2>3 DEF Look, RestTyped
<1>5. ASSUME NEW c \in Calls, Finish(c) PROVE TypeInv'
  <2>1. \A d \in Calls \ {c} : CallTyped(d)'
    BY <1>0, <1>5, OtherTyped DEF Finish, RestTyped
  <2>2. CallTyped(c)'
    BY <1>0, <1>5 DEF Finish, CallTyped, RestTyped
  <2>3. RestTyped'
    BY <1>0, <1>5 DEF Finish, RestTyped, process, Outcomes
  <2> QED BY <2>1, <2>2, <2>3 DEF TypeInv
<1>6. ASSUME NEW c \in Calls, Settle(c) PROVE TypeInv'
  <2>1. \A d \in Calls \ {c} : CallTyped(d)'
    BY <1>0, <1>6, OtherTyped DEF Settle, RestTyped
  <2>2. CallTyped(c)'
    BY <1>0, <1>6 DEF Settle, CallTyped, RestTyped
  <2>3. \A f \in DOMAIN patch[c] : patch[c][f] \in Calls \cup {Empty}
    BY <1>0 DEF CallTyped
  <2>4. config' \in [Fields -> Calls \cup {Empty, "old"}]
    BY <1>0, <1>6, <2>3 DEF Settle, RestTyped
  <2>5. RestTyped'
    BY <1>0, <1>6, <2>4 DEF Settle, RestTyped, process
  <2> QED BY <2>1, <2>2, <2>5 DEF TypeInv
<1>7. CASE UNCHANGED vars
  <2>1. \A d \in Calls : CallTyped(d)'
    BY <1>0, <1>7, OtherTyped DEF vars, calls
  <2>2. RestTyped'
    BY <1>0, <1>7 DEF vars, calls, process, RestTyped
  <2> QED BY <2>1, <2>2 DEF TypeInv
<1> QED BY <1>1, <1>2, <1>3, <1>4, <1>5, <1>6, <1>7 DEF Next

\* The types of the model's state.
THEOREM TypeCorrect == Spec => []TypeOK
<1>1. TypeInv => TypeOK
  BY DEF TypeInv, RestTyped, CallTyped, TypeOK
<1> QED BY <1>1, TypeInit, TypeStep, PTL DEF Spec

-------------------------------------------------------------------------------
(* What a read can tell *)

\* A field of the configuration if w is the only write that Core has accepted, or
\* if it has not accepted even that.
Alone(w) == \A other \in Calls \ {w} : copy[other] # "accepted"
After(w, done, f) == IF done /\ f \in DOMAIN ask[w] THEN ask[w][f] ELSE "old"

\* The secret is shown as it is by one tool only.
Plain(t, f) == f # "webhook_secret" \/ t = "webhook_secret_read"

WriteInv(w) ==
    /\ copy[w] # "none" \/ pc[w] \in {"resolving", "ready"} =>
            (tool[w] \in DOMAIN Sets => DOMAIN ask[w] \subseteq Sets[tool[w]])
    /\ Alone(w) => \A f \in Fields : config[f] = After(w, w \in Accepted, f)

ReadInv(w, r) ==
    pc[r] = "shown" =>
        /\ tool[r] \in Reads /\ looked[r] \subseteq Accepted
        /\ DOMAIN view[r].config = Shows[tool[r]]
        /\ tool[r] = "operations_search" => view[r].operations = looked[r]
        /\ Alone(w) => \A f \in Shows[tool[r]] : Plain(tool[r], f) =>
                view[r].config[f] = After(w, w \in looked[r], f)

HistoryInv == \A w \in Calls : WriteInv(w) /\ \A r \in Calls : ReadInv(w, r)

KnownInv == TypeInv /\ CallsInv /\ HistoryInv

\* A caller sets fields of the tool it calls.
LEMMA RequestOfTool ==
  ASSUME NEW c \in Calls, NEW t \in DOMAIN Sets, NEW a \in Requests(c, t)
  PROVE  DOMAIN a \subseteq Sets[t]
<1>1. PICK F \in IF t \in Optional THEN SUBSET Sets[t] ELSE {Sets[t]},
           v \in {c, Empty} : a \in [F -> {v}]
  BY DEF Requests
<1> QED BY <1>1

\* The named tool shows what a write may set, as it is.
LEMMA PlainlyShown ==
  \A t \in DOMAIN Sets : /\ Sets[t] \subseteq Shows[ReconcileWith(t)]
                         /\ \A f \in Sets[t] : Plain(ReconcileWith(t), f)
  BY DEF Sets, Shows, Fields, ReconcileWith, Plain

LEMMA HistoryInit == Init => HistoryInv
<1> SUFFICES ASSUME Init, NEW w \in Calls PROVE WriteInv(w) /\ \A r \in Calls : ReadInv(w, r)
  BY DEF HistoryInv
<1>1. w \notin Accepted
  BY DEF Init, Accepted
<1>2. WriteInv(w)
  BY <1>1 DEF Init, WriteInv, After
<1>3. \A r \in Calls : ReadInv(w, r)
  BY DEF Init, ReadInv
<1> QED BY <1>2, <1>3

\* As long as what was accepted stays so and a write that was asks for the same, a
\* read that was shown remains what it was.
LEMMA ShownStays ==
  ASSUME TypeInv, HistoryInv, NEW w \in Calls, NEW r \in Calls,
         \A c \in Calls : copy[c] = "accepted" => copy'[c] = "accepted",
         w \in Accepted => ask'[w] = ask[w],
         pc'[r] = pc[r], tool'[r] = tool[r], view'[r] = view[r], looked'[r] = looked[r]
  PROVE  ReadInv(w, r)'
<1> SUFFICES ASSUME pc[r] = "shown" PROVE ReadInv(w, r)'
  BY DEF ReadInv
<1>1. ReadInv(w, r)
  BY DEF HistoryInv
<1>2. Accepted \subseteq Accepted' /\ (Alone(w)' => Alone(w))
  BY DEF Accepted, Alone
<1>3. \A f : After(w, w \in looked[r], f)' = After(w, w \in looked[r], f)
  BY <1>1 DEF ReadInv, After
<1> QED BY <1>1, <1>2, <1>3 DEF ReadInv, Plain

\* A write of which nothing changes but that others have been accepted.
LEMMA WriteStays ==
  ASSUME HistoryInv, NEW w \in Calls,
         \A c \in Calls : copy[c] = "accepted" => copy'[c] = "accepted",
         \A c \in Calls : copy'[c] = "accepted" => copy[c] = "accepted",
         w \in Accepted => ask'[w] = ask[w], config' = config,
         \/ copy'[w] # "none" \/ pc'[w] \in {"resolving", "ready"} =>
                /\ copy[w] # "none" \/ pc[w] \in {"resolving", "ready"}
                /\ tool'[w] = tool[w] /\ ask'[w] = ask[w]
         \/ tool'[w] \in DOMAIN Sets => DOMAIN ask'[w] \subseteq Sets[tool'[w]]
  PROVE  WriteInv(w)'
<1>1. WriteInv(w)
  BY DEF HistoryInv
<1>2. Accepted = Accepted' /\ (Alone(w)' => Alone(w))
  BY DEF Accepted, Alone
<1>3. \A f : After(w, w \in Accepted, f)' = After(w, w \in Accepted, f)
  BY <1>2 DEF After
<1>4. Alone(w)' => \A f \in Fields : config'[f] = After(w, w \in Accepted, f)'
  BY <1>1, <1>2, <1>3 DEF WriteInv
<1> QED BY <1>1, <1>4 DEF WriteInv

LEMMA HistoryStep == TypeInv /\ CallsInv /\ HistoryInv /\ [Next]_vars => HistoryInv'
<1> SUFFICES ASSUME TypeInv, CallsInv, HistoryInv, [Next]_vars PROVE HistoryInv'
  OBVIOUS
<1>0. TypeInv /\ RestTyped /\ HistoryInv /\ \A c \in Calls : CallTyped(c) /\ CallInv(c)
  BY DEF TypeInv, CallsInv
<1>1. ASSUME NEW c \in Calls, Begin(c) PROVE HistoryInv'
  <2>1. UNCHANGED <<config, copy, view, looked>> /\ copy[c] = "none"
    BY <1>0, <1>1 DEF Begin, CallTyped
  <2>2. /\ pc'[c] # "shown"
        /\ tool'[c] \in DOMAIN Sets => DOMAIN ask'[c] \subseteq Sets[tool'[c]]
        /\ \A d \in Calls \ {c} : pc'[d] = pc[d] /\ tool'[d] = tool[d] /\ ask'[d] = ask[d]
    BY <1>0, <1>1, RequestOfTool DEF Begin, RestTyped
  <2>3. \A w \in Calls : w \in Accepted => ask'[w] = ask[w]
    BY <2>1, <2>2 DEF Accepted
  <2>4. \A w \in Calls : WriteInv(w)'
    BY <2>1, <2>2, <2>3, WriteStays
  <2>5. \A w, r \in Calls : ReadInv(w, r)'
    <3>1. \A w \in Calls, r \in Calls \ {c} : ReadInv(w, r)'
      BY <1>0, <2>1, <2>2, <2>3, ShownStays
    <3>2. \A w \in Calls : ReadInv(w, c)'
      BY <2>2 DEF ReadInv
    <3> QED BY <3>1, <3>2
  <2> QED BY <2>4, <2>5 DEF HistoryInv
<1>2. ASSUME NEW c \in Calls, Resolve(c) PROVE HistoryInv'
  <2>1. /\ \A d \in Calls : copy'[d] = "accepted" <=> copy[d] = "accepted"
        /\ UNCHANGED <<config, ask, tool, view, looked>>
    BY <1>0, <1>2 DEF Resolve, RestTyped, CallTyped
  <2>2. /\ pc[c] # "idle" /\ pc'[c] # "shown"
        /\ \A d \in Calls \ {c} : pc'[d] = pc[d] /\ copy'[d] = copy[d]
    BY <1>0, <1>2 DEF Resolve, RestTyped
  <2>3. copy[c] # "none" \/ pc[c] \in {"resolving", "ready"}
    BY <1>0, <1>2 DEF Resolve, CallTyped
  <2>4. \A w \in Calls : WriteInv(w)'
    BY <2>1, <2>2, <2>3, WriteStays
  <2>5. \A w, r \in Calls : ReadInv(w, r)'
    <3>1. \A w \in Calls, r \in Calls \ {c} : ReadInv(w, r)'
      BY <1>0, <2>1, <2>2, ShownStays
    <3>2. \A w \in Calls : ReadInv(w, c)'
      BY <2>2 DEF ReadInv
    <3> QED BY <3>1, <3>2
  <2> QED BY <2>4, <2>5 DEF HistoryInv
<1>3. ASSUME NEW c \in Calls, Submit(c) PROVE HistoryInv'
  <2>1. /\ \A d \in Calls : copy'[d] = "accepted" <=> copy[d] = "accepted"
        /\ UNCHANGED <<config, ask, tool, view, looked>>
    BY <1>0, <1>3 DEF Submit, RestTyped, CallTyped
  <2>2. /\ pc[c] # "idle" /\ pc'[c] # "shown"
        /\ \A d \in Calls \ {c} : pc'[d] = pc[d] /\ copy'[d] = copy[d]
    BY <1>0, <1>3 DEF Submit, RestTyped
  <2>3. copy[c] # "none" \/ pc[c] \in {"resolving", "ready"}
    BY <1>0, <1>3 DEF Submit, CallTyped
  <2>4. \A w \in Calls : WriteInv(w)'
    BY <2>1, <2>2, <2>3, WriteStays
  <2>5. \A w, r \in Calls : ReadInv(w, r)'
    <3>1. \A w \in Calls, r \in Calls \ {c} : ReadInv(w, r)'
      BY <1>0, <2>1, <2>2, ShownStays
    <3>2. \A w \in Calls : ReadInv(w, c)'
      BY <2>2 DEF ReadInv
    <3> QED BY <3>1, <3>2
  <2> QED BY <2>4, <2>5 DEF HistoryInv
<1>5. ASSUME NEW c \in Calls, Finish(c) PROVE HistoryInv'
  <2>1. /\ \A d \in Calls : copy'[d] = "accepted" <=> copy[d] = "accepted"
        /\ UNCHANGED <<config, ask, tool, view, looked>>
    BY <1>0, <1>5 DEF Finish, RestTyped, CallTyped
  <2>2. /\ pc[c] # "idle" /\ pc'[c] # "shown"
        /\ \A d \in Calls \ {c} : pc'[d] = pc[d] /\ copy'[d] = copy[d]
    BY <1>0, <1>5 DEF Finish, RestTyped
  <2>3. copy[c] # "none" \/ pc[c] \in {"resolving", "ready"}
    BY <1>0, <1>5 DEF Finish, CallTyped
  <2>4. \A w \in Calls : WriteInv(w)'
    BY <2>1, <2>2, <2>3, WriteStays
  <2>5. \A w, r \in Calls : ReadInv(w, r)'
    <3>1. \A w \in Calls, r \in Calls \ {c} : ReadInv(w, r)'
      BY <1>0, <2>1, <2>2, ShownStays
    <3>2. \A w \in Calls : ReadInv(w, c)'
      BY <2>2 DEF ReadInv
    <3> QED BY <3>1, <3>2
  <2> QED BY <2>4, <2>5 DEF HistoryInv
<1>4. ASSUME NEW c \in Calls, Look(c) PROVE HistoryInv'
  <2>1. UNCHANGED <<config, copy, ask, tool>> /\ pc[c] = "ready" /\ tool[c] \in Reads
    BY <1>4 DEF Look
  <2>2. \A d \in Calls \ {c} : pc'[d] = pc[d] /\ view'[d] = view[d] /\ looked'[d] = looked[d]
    BY <1>0, <1>4 DEF Look, RestTyped
  <2>3. \A w \in Calls : WriteInv(w)'
    BY <1>0, <2>1, <2>2, WriteStays
  <2>4. \A w \in Calls, r \in Calls \ {c} : ReadInv(w, r)'
    BY <1>0, <2>1, <2>2, ShownStays
  <2>5. ASSUME NEW w \in Calls PROVE ReadInv(w, c)'
    <3>1. SUFFICES ASSUME pc'[c] = "shown" PROVE ReadInv(w, c)'
      BY DEF ReadInv
    <3>2. /\ view'[c] = [config |-> [f \in Shows[tool[c]] |-> Projected(tool[c], f)],
                         operations |-> IF tool[c] = "operations_search" THEN Accepted
                                        ELSE {}]
          /\ looked'[c] = Accepted
      BY <1>0, <1>4, <3>1 DEF Look, RestTyped
    <3>3. Accepted' = Accepted /\ (Alone(w)' <=> Alone(w)) /\ tool'[c] = tool[c]
          /\ \A done, f : After(w, done, f)' = After(w, done, f)
      BY <2>1 DEF Accepted, Alone, After
    <3>4. Shows[tool[c]] \subseteq Fields
      BY <2>1, ShowsFields DEF Reads
    <3>5. Alone(w) => \A f \in Shows[tool[c]] : Plain(tool[c], f) =>
                Projected(tool[c], f) = After(w, w \in Accepted, f)
      BY <1>0, <3>4 DEF HistoryInv, WriteInv, Projected, Plain
    <3> QED BY <2>1, <3>2, <3>3, <3>5 DEF ReadInv, Plain
  <2> QED BY <2>3, <2>4, <2>5 DEF HistoryInv
<1>6. ASSUME NEW c \in Calls, Settle(c) PROVE HistoryInv'
  <2>1. /\ UNCHANGED <<ask, tool, pc, patch, view, looked>> /\ copy[c] = "flying"
        /\ \A d \in Calls \ {c} : copy'[d] = copy[d]
    BY <1>0, <1>6 DEF Settle, RestTyped
  <2>2. \A d \in Calls : copy[d] = "accepted" => copy'[d] = "accepted"
    BY <2>1
  <2>3. \A w, r \in Calls : ReadInv(w, r)'
    BY <1>0, <2>1, <2>2, ShownStays
  <2>4. CASE copy'[c] # "accepted"
    <3>1. UNCHANGED config
      BY <1>0, <1>6, <2>4 DEF Settle, RestTyped
    <3>2. \A w \in Calls : WriteInv(w)'
      BY <1>0, <2>1, <2>4, <3>1, WriteStays
    <3> QED BY <2>3, <3>2 DEF HistoryInv
  <2>5. CASE copy'[c] = "accepted"
    <3>1. config' = [f \in Fields |-> IF f \in DOMAIN patch[c] THEN patch[c][f]
                                      ELSE config[f]]
      BY <1>0, <1>6, <2>5 DEF Settle, RestTyped
    <3>2. \A w \in Calls \ {c} : WriteInv(w)'
      <4>1. \A w \in Calls \ {c} : ~Alone(w)'
        BY <2>5 DEF Alone
      <4> QED BY <1>0, <2>1, <4>1 DEF HistoryInv, WriteInv
    <3>3. WriteInv(c)'
      <4>1. WriteInv(c) /\ c \notin Accepted /\ c \in Accepted' /\ patch[c] = ask[c]
        BY <1>0, <2>1, <2>5 DEF HistoryInv, Accepted, CallInv
      <4>2. Alone(c)' => Alone(c)
        BY <2>1 DEF Alone
      <4>3. Alone(c) => \A f \in Fields : config[f] = "old"
        BY <4>1 DEF WriteInv, After
      <4>4. Alone(c)' => \A f \in Fields : config'[f] = After(c, c \in Accepted, f)'
        BY <2>1, <3>1, <4>1, <4>2, <4>3 DEF After
      <4> QED BY <2>1, <4>1, <4>4 DEF WriteInv
    <3> QED BY <2>3, <3>2, <3>3 DEF HistoryInv
  <2> QED BY <2>4, <2>5
<1>7. CASE UNCHANGED vars
  <2>1. UNCHANGED <<config, calls>>
    BY <1>7 DEF vars
  <2>2. \A w \in Calls : WriteInv(w)'
    BY <2>1, WriteStays DEF calls
  <2>3. \A w, r \in Calls : ReadInv(w, r)'
    BY <1>0, <2>1, ShownStays DEF calls
  <2> QED BY <2>2, <2>3 DEF HistoryInv
<1> QED BY <1>1, <1>2, <1>3, <1>4, <1>5, <1>6, <1>7 DEF Next

THEOREM KnownInvHolds == Spec => []KnownInv
<1>1. Init => KnownInv
  BY TypeInit, CallsInvInit, HistoryInit DEF KnownInv
<1>2. KnownInv /\ [Next]_vars => KnownInv'
  BY TypeStep, CallsInvStep, HistoryStep DEF KnownInv
<1> QED BY <1>1, <1>2, PTL DEF Spec

\* What an uncertain answer names is offered by the same process, and settles the
\* write if nobody else has written.
THEOREM WritesReconcile == Spec => []Reconcilable
<1>1. ASSUME KnownInv, NEW w \in Calls, pc[w] = "unknown"
      PROVE  ReconcileWith(tool[w]) \in Listed
  BY DEF ReconcileWith, Listed, InProfile, Tools, Reads, Shows
<1>2. ASSUME KnownInv, NEW w \in Calls, NEW r \in Calls, pc[w] = "unknown",
             pc[r] = "shown", tool[r] = ReconcileWith(tool[w]), Alone(w)
      PROVE  Evidence(w, view[r]) <=> w \in looked[r]
  <2>1. CallTyped(w) /\ CallInv(w) /\ WriteInv(w) /\ ReadInv(w, r) /\ copy[w] # "none"
    BY <1>2 DEF KnownInv, TypeInv, CallsInv, HistoryInv, CallTyped
  <2>2. CASE tool[w] \in DOMAIN Sets
    <3>1. DOMAIN ask[w] \subseteq Sets[tool[w]] /\ DOMAIN ask[w] # {}
      BY <2>1, <2>2 DEF WriteInv, CallTyped, CallInv
    <3>2. /\ Sets[tool[w]] \subseteq Shows[tool[r]] /\ \A f \in Sets[tool[w]] : Plain(tool[r], f)
      BY <1>2, <2>2, PlainlyShown
    <3>3. \A f \in DOMAIN ask[w] : view[r].config[f] = After(w, w \in looked[r], f)
      BY <1>2, <2>1, <3>1, <3>2 DEF ReadInv
    <3>4. \A f \in DOMAIN ask[w] : ask[w][f] # "old"
      BY <2>1, ValuesDiffer DEF CallTyped
    <3> QED BY <1>2, <2>1, <2>2, <3>1, <3>2, <3>3, <3>4 DEF Evidence, After, ReadInv
  <2>3. CASE tool[w] \notin DOMAIN Sets
    <3>1. tool[r] = "operations_search"
      BY <1>2, <2>3 DEF ReconcileWith, Sets
    <3> QED BY <1>2, <2>1, <2>3, <3>1 DEF Evidence, ReadInv
  <2> QED BY <2>2, <2>3
<1>3. KnownInv => Reconcilable
  BY <1>1, <1>2 DEF Reconcilable, Alone
<1> QED BY <1>3, KnownInvHolds, PTL

===================================================================================
