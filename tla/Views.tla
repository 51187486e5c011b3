----------------------------------- MODULE Views -----------------------------------
(***************************************************************************)
(* What the reading tools make of Core's records: the status and the       *)
(* diagnostics of a stack, the outcome of an operation, and the filter by  *)
(* which operations are asked for.                                         *)
(***************************************************************************)
EXTENDS Naturals, Integers, Sequences, SequencesExt, FiniteSetsExt

-------------------------------------------------------------------------------
(* Operations *)

\* "Paused" stands for what a later Core may report.
Statuses == {"Queued", "InProgress", "Complete", "Paused"}
Outcomes == {"Accepted", "Running", "Succeeded", "Failed", "Unknown"}
Unfiltered == "any"
NoTime == -2

\* operation_outcome: the outcome, and whether it succeeded if that is known.
operation_outcome(status, success) ==
    CASE status = "Queued" -> [outcome |-> "Accepted", success |-> "null"]
      [] status = "InProgress" -> [outcome |-> "Running", success |-> "null"]
      [] status = "Complete" /\ success -> [outcome |-> "Succeeded", success |-> "true"]
      [] status = "Complete" /\ ~success -> [outcome |-> "Failed", success |-> "false"]
      [] OTHER -> [outcome |-> "Unknown", success |-> "null"]

\* validated_query: the times must be in order.
\* (Variant: they may be the same.)
ValidFilterOfNothing(f) ==
    /\ f.after # NoTime => f.after >= 0
    /\ f.before # NoTime => f.before >= 0
    /\ NoTime \notin {f.after, f.before} => f.after <= f.before
ValidFilter(f) ==
    /\ f.after # NoTime => f.after >= 0
    /\ f.before # NoTime => f.before >= 0
    /\ NoTime \notin {f.after, f.before} => f.after < f.before

\* An outcome in Core's terms: a status, and for what is complete its success.
OfOutcome(o) ==
    CASE o = "Accepted" -> [status |-> "Queued", success |-> Unfiltered]
      [] o = "Running" -> [status |-> "InProgress", success |-> Unfiltered]
      [] o = "Succeeded" -> [status |-> "Complete", success |-> "true"]
      [] o = "Failed" -> [status |-> "Complete", success |-> "false"]
      [] o = "Unknown" -> [status |-> "Other", success |-> Unfiltered]
      [] o = Unfiltered -> [status |-> Unfiltered, success |-> Unfiltered]

\* OperationQuery::matches, which is also what Core makes of upstream_query.
MatchesQuery(f, item) ==
    LET query == OfOutcome(f.outcome)
    IN  /\ f.target \in {Unfiltered, item.target}
        /\ \/ query.status \in {Unfiltered, item.status}
           \/ query.status = "Other" /\ item.status \notin {"Queued", "InProgress", "Complete"}
        /\ query.success \in {Unfiltered, IF item.success THEN "true" ELSE "false"}
        /\ f.after # NoTime => item.start >= f.after
        /\ f.before # NoTime => item.start < f.before

-------------------------------------------------------------------------------
(* Stacks *)

\* States are compared without regard to case.
stack_health(state, missing) ==
    CASE state = "running" /\ ~missing -> "healthy"
      [] state = "down" -> "down"
      [] OTHER -> "unhealthy"

\* Services that have an update.
Updates(services) == Cardinality({k \in DOMAIN services : services[k]})

\* A summary leaves out the record itself.
StackStatus(stack, projection) ==
    [health |-> stack_health(stack.state, stack.missing),
     services |-> Len(stack.services), updates |-> Updates(stack.services),
     resource |-> projection = "detail"]

\* collection_page: a window of a list, and what it says of the list. Where there
\* is no list there is no total.
PageOf(items, window) ==
    SubSeq(items, window.offset + 1, Min({window.offset + window.limit, Len(items)}))
Unknown == -1
CollectionPage(items, window) ==
    LET shown == PageOf(items.list, window)
        end == Min({window.offset + window.limit, Len(items.list)})
    IN  [available |-> items.known, list |-> shown,
         total |-> IF items.known THEN Len(items.list) ELSE Unknown,
         truncated |-> Len(shown) < Len(items.list),
         next |-> IF end < Len(items.list) THEN end ELSE Unknown]

\* (Variant: what is counted is what is shown.)
DiagnosticsOfPage(stack, window) ==
    LET shown == PageOf(stack.services, window)
    IN  [health |-> stack_health(stack.state, stack.missing),
         services |-> Len(shown), updates |-> Updates(shown), page |-> shown,
         upToDate |-> IF "none" \in {stack.deployed, stack.latest} THEN "null"
                      ELSE IF stack.deployed = stack.latest THEN "true" ELSE "false"]
StackDiagnostics(stack, window) ==
    [health |-> stack_health(stack.state, stack.missing),
     services |-> Len(stack.services), updates |-> Updates(stack.services),
     page |-> PageOf(stack.services, window),
     upToDate |-> IF "none" \in {stack.deployed, stack.latest} THEN "null"
                  ELSE IF stack.deployed = stack.latest THEN "true" ELSE "false"]

-------------------------------------------------------------------------------
(* The configuration of a stack, in the four tools that show some of it *)

\* An empty secret is Core's own.
webhook_secret_source(secret) == IF secret = "empty" THEN "inherited" ELSE "custom"

ConfigView(detail, window) ==
    [compose |-> detail.contents # "empty", secret |-> webhook_secret_source(detail.secret),
     paths |-> CollectionPage([known |-> TRUE, list |-> detail.paths], window)]

\* What is configured is at most one file, and never unknown.
Configured(detail) ==
    [known |-> TRUE,
     list |-> IF detail.contents = "empty" THEN <<>>
              ELSE IF detail.paths = <<>> THEN <<"compose.yaml">> ELSE <<detail.paths[1]>>]
ComposeView(source, detail, window) ==
    CollectionPage(CASE source = "configured" -> Configured(detail)
                     [] source = "deployed" -> detail.deployed
                     [] source = "latest" -> detail.latest, window)

WebhookStatus(detail) == [secret |-> webhook_secret_source(detail.secret)]

\* A custom secret leaves in a file, or not at all.
WebhookSecret(detail, native) ==
    CASE detail.secret = "empty" -> [source |-> "inherited", available |-> FALSE, file |-> FALSE]
      [] detail.secret # "empty" /\ native -> [source |-> "custom", available |-> TRUE, file |-> TRUE]
      [] OTHER -> [source |-> "refused", available |-> FALSE, file |-> FALSE]

-------------------------------------------------------------------------------
(* The other resources *)

server_health(state) ==
    CASE state = "ok" -> "healthy"
      [] state = "disabled" -> "disabled"
      [] OTHER -> "unhealthy"
deployment_health(state) ==
    CASE state = "running" -> "healthy"
      [] state = "not_deployed" -> "down"
      [] OTHER -> "unhealthy"
build_health(state) ==
    CASE state = "ok" -> "healthy"
      [] state \in {"failed", "building"} -> state
      [] OTHER -> "unknown"
repo_health(state) ==
    CASE state = "ok" -> "healthy"
      [] state = "failed" -> "failed"
      [] state \in {"cloning", "pulling", "building"} -> "active"
      [] OTHER -> "unknown"

\* A status carries the record it was made of, which a summary leaves out.
Brief(status, projection) ==
    IF projection = "summary" THEN [status EXCEPT !.resource = "none"] ELSE status

\* What the search and the status tool of its kind make of one record.
ServerViews(state, projection) ==
    LET status == [health |-> server_health(state), resource |-> state]
    IN  [search |-> Brief(status, projection), status |-> Brief(status, projection)]
ResourceViews(kind, state, projection) ==
    LET health == CASE kind = "deployment" -> deployment_health(state)
                    [] kind = "build" -> build_health(state)
                    [] kind = "repo" -> repo_health(state)
        status == [health |-> health, resource |-> state]
    IN  [search |-> Brief(status, projection), status |-> Brief(status, projection)]

=====================================================================================
