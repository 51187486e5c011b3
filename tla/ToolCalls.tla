--------------------------------- MODULE ToolCalls ---------------------------------
(***************************************************************************)
(* What a caller gets to see. Either a client walks through a search       *)
(* (Searches), or several ask at once for what depends on Core's version   *)
(* (CoreVersion), or one makes a single call, and the call                 *)
(*   fails    at Core, in a read, a look-up of an operation or a write,    *)
(*   shows    operations with the configuration before and after,          *)
(*   filters  operations, or                                               *)
(*   looks    at a stack, its configuration or another resource.           *)
(* A native caller can be handed files, as long as there is room.          *)
(***************************************************************************)
EXTENDS Searches, History, Views, CoreVersion

CONSTANTS
    Letters,       \* of the texts in a diagnostic
    MaxText,       \* bound: the length of an error
    MaxTrace,      \* bound: the length of the text in its trace
    Room,          \* bound: files that still have room
    Longest,       \* bound: elements of a list, and of a window
    Latest         \* bound: times

\* What is known of the credentials is texts, and a diagnostic may have one segment.
ASSUME TextsOfLetters ==
    /\ {Key, Secret, Token} \subseteq Seq(Letters)
    /\ {MaxText, MaxTrace, Room, Longest, Latest} \subseteq Nat /\ MaxSegments \in Nat \ {0}

VARIABLES
    session,       \* do clients walk, ask or call?
    call,          \* the call, or NoCall
    received,      \* what Core answered
    answer         \* what the caller is told

single == <<call, received, answer>>

NoCall == [kind |-> "none"]
NoAnswer == [form |-> "none"]

CallInit == call = NoCall /\ received = <<>> /\ answer = NoAnswer

-------------------------------------------------------------------------------
(* A call that fails *)

Writes == {"execute", "UpdateStack"}
Failing == {"read", "lookup"} \cup Writes

Bodies ==
    {[kind |-> k, texts |-> <<>>] : k \in {"empty", "binary"}}
    \cup {[kind |-> "text", texts |-> <<t>>] : t \in BoundedSeq(Letters, MaxText) \ {<<>>}}
    \cup {[kind |-> "text", texts |-> <<t, u>>] :
            t \in BoundedSeq(Letters, MaxText),
            u \in BoundedSeq(Letters, MaxTrace)}

NoBody == [kind |-> "empty", texts |-> <<>>]
Responses ==
    {[status |-> 0, end |-> "none", matcher |-> TRUE, body |-> NoBody]}
    \cup [status : {200, 401, 403, 404, 409, 503}, end : {"interrupted", "oversized"},
          matcher : {TRUE}, body : {NoBody}]
    \cup [status : {200}, end : {"complete"}, matcher : {TRUE}, body : {NoBody}]
    \cup [status : {401, 403, 404, 409, 503}, end : {"complete"}, matcher : {TRUE}, body : Bodies]
    \cup [status : {409}, end : {"complete"}, matcher : {FALSE},
          body : {NoBody, [kind |-> "text", texts |-> <<Key>>]}]

\* Only a native caller has files at all; a token goes with an UpdateStack.
Ask ==
    /\ call = NoCall
    /\ \E kind \in Failing, native \in BOOLEAN, room \in 0..1, token \in BOOLEAN :
        /\ token => kind = "UpdateStack"
        /\ call' = [kind |-> kind, native |-> native, room |-> room,
                    known |-> Known(kind, token), attempts |-> 1]
    /\ UNCHANGED <<received, answer>>

\* Core fails the request: a read may be worth another attempt, which decides.
Fail ==
    /\ call.kind \in Failing /\ answer = NoAnswer
    /\ \E response \in Responses :
        LET error == post_once(response, call.known)
        IN  IF call.kind \notin Writes /\ call.attempts = 1 /\ WorthRetrying(error)
            THEN call' = [call EXCEPT !.attempts = 2] /\ UNCHANGED <<received, answer>>
            ELSE /\ received' = response
                 /\ answer' = AsResult(
                        CASE call.kind = "read" -> api_error(error, call.native, call.room)
                          [] call.kind = "lookup" ->
                                operation_lookup_error(error, call.native, call.room)
                          [] call.kind \in Writes ->
                                mutation_error(error, "target", call.native, call.room))
                 /\ UNCHANGED call

-------------------------------------------------------------------------------
(* A call that succeeds *)

\* One document of every kind, and records of a few documents.
Ordinary == Document(<<[kind |-> "deployment", shape |-> "table", config |-> TRUE,
                        value |-> "number"]>>)
Custom == Document(<<[kind |-> "stack", shape |-> "tables", config |-> TRUE,
                      value |-> "literal"]>>)
Few == {Ordinary, Custom, Invalid}
Single == {Document(<<r>>) : r \in Plain \cup Builders \cup Alerters({"table"})}
          \cup {Document(rs) : rs \in [1..2 -> {r \in Plain : r.shape = "inline"}]}
Records == BoundedSeq(Few, Longest)

\* operations.status shows the documents of one record, operations.search those of the
\* window of its page.
Shows == {<<d>> : d \in Single} \cup Records
         \cup UNION {{r \o s : s \in Records} : r \in Records}
ShowOperations ==
    /\ call = NoCall
    /\ \E documents \in Shows, projection \in {"summary", "detail"},
          native \in BOOLEAN, room \in 0..Room :
        /\ call' = [kind |-> "show", native |-> native, room |-> room]
        /\ received' = IF projection = "summary" THEN <<>> ELSE documents
        /\ answer' = [form |-> "documents",
                      shown |-> project_operations(documents, projection, native, room)]

Stored == [status : Statuses, success : BOOLEAN, target : {"s1", "s2"}, start : 0..Latest]
FilterOperations ==
    /\ call = NoCall
    /\ \E f \in [outcome : Outcomes \cup {Unfiltered}, target : {"s1", Unfiltered},
                 after : {NoTime} \cup -1..Latest, before : {NoTime} \cup -1..Latest] :
        /\ call' = [kind |-> "filter", filter |-> f]
        /\ answer' = IF ValidFilter(f)
                     THEN [form |-> "found",
                           found |-> {item \in Stored : MatchesQuery(f, item)}]
                     ELSE [form |-> "refused"]
    /\ UNCHANGED received

Windows == [offset : 0..Longest, limit : 1..Longest]
Stacks == [state : {"running", "down", "unhealthy"}, missing : BOOLEAN,
           services : BoundedSeq(BOOLEAN, Longest), deployed : {"none", "h1"},
           latest : {"none", "h1", "h2"}]
LookAtStack ==
    /\ call = NoCall
    /\ \E stack \in Stacks, window \in Windows,
          projection \in {"summary", "detail"} :
        /\ call' = [kind |-> "look", window |-> window]
        /\ received' = <<stack>>
        /\ answer' = [form |-> "stack", status |-> StackStatus(stack, projection),
                      diagnostics |-> StackDiagnostics(stack, window)]

\* Core's record of a stack, with and without what an older Core does not report.
FilesKnown == {[known |-> FALSE, list |-> <<>>]}
              \cup {[known |-> TRUE, list |-> l] : l \in BoundedSeq({"f1", "f2"}, Longest)}
Details == [contents : {"empty", "text"}, paths : BoundedSeq({"f1", "f2"}, Longest),
            secret : {"empty", "custom"}, deployed : FilesKnown, latest : FilesKnown]
LookAtConfiguration ==
    /\ call = NoCall
    /\ \E detail \in Details, window \in Windows,
          source \in {"configured", "deployed", "latest"}, native \in BOOLEAN :
        /\ call' = [kind |-> "configuration", window |-> window, source |-> source,
                    native |-> native]
        /\ received' = <<detail>>
        /\ answer' = [form |-> "configuration", config |-> ConfigView(detail, window),
                      compose |-> ComposeView(source, detail, window),
                      webhook |-> WebhookStatus(detail),
                      secret |-> WebhookSecret(detail, native)]

StatesOf ==
    [server |-> {"ok", "disabled", "not_ok"},
     deployment |-> {"running", "not_deployed", "restarting"},
     build |-> {"ok", "failed", "building", "pending"},
     repo |-> {"ok", "failed", "cloning", "pulling", "building", "pending"}]
LookAtResource ==
    /\ call = NoCall
    /\ \E kind \in DOMAIN StatesOf : \E state \in StatesOf[kind] :
       \E projection \in {"summary", "detail"} :
        /\ call' = [kind |-> "resource", projection |-> projection]
        /\ received' = <<state>>
        /\ answer' = [form |-> "resource",
                      views |-> IF kind = "server" THEN ServerViews(state, projection)
                                ELSE ResourceViews(kind, state, projection)]

Calls ==
    \/ Ask \/ Fail \/ ShowOperations \/ FilterOperations
    \/ LookAtStack \/ LookAtConfiguration \/ LookAtResource

-------------------------------------------------------------------------------
(* Sessions *)

\* No search is under way.
NoWalk ==
    /\ tool = "collection" /\ modern = TRUE /\ limit = Max(Limits)
    /\ name = [i \in Items |-> Min(Names)] /\ hits = {} /\ listing = <<>>
    /\ page = 0 /\ offset = 0 /\ pc = "ended"
    /\ seen = [i \in Items |-> 0] /\ cut = FALSE /\ changes = 0

toolVars == <<session, vars, single, versionVars>>

ToolInit ==
    /\ CallInit
    /\ \/ session = "walks" /\ Init /\ NobodyAsks
       \/ session = "asks" /\ NoWalk /\ VersionInit
       \/ session = "calls" /\ NoWalk /\ NobodyAsks

Walk(step) == session = "walks" /\ step /\ UNCHANGED <<session, single, versionVars>>
Asking(step) == session = "asks" /\ step /\ UNCHANGED <<session, vars, single>>

ToolNext ==
    \/ Walk(Next)
    \/ Asking(VersionNext)
    \/ session = "calls" /\ Calls /\ UNCHANGED <<session, vars, versionVars>>

\* A client that walks goes on; the mutex goes round, and time passes.
ToolSpec ==
    /\ ToolInit /\ [][ToolNext]_toolVars
    /\ WF_toolVars(Walk(Call \/ Refuse))
    /\ WF_toolVars(Asking(Elapse))
    /\ \A a \in Askers : WF_toolVars(Asking(Progress(a)))

-------------------------------------------------------------------------------
(* Correctness *)

Answered == answer # NoAnswer

\* No credential that the client knows is in what stays inline of a diagnostic, not
\* even one that comes to be when others are cut out around it, and none that a
\* document has in a place for credentials (errors.rs, history.rs).
Within(part, text) ==
    \E i \in 1..Len(text) : IsPrefix(part, SubSeq(text, i, Len(text)))
Bare(r) ==
    IF r.kind # "alerter" THEN r.value = "literal"
    ELSE \/ r.url.password = "literal" \/ Contains(r.url.path, "literal")
         \/ \E k \in DOMAIN r.url.query : r.url.query[k].value = "literal"
NoLiteralInline ==
    /\ answer.form \in {"error", "result"} =>
        \A k \in DOMAIN answer.views :
            \A j \in DOMAIN answer.views[k].segments, c \in call.known :
                ~Within(c, answer.views[k].segments[j])
    /\ answer.form = "documents" =>
        \A k \in DOMAIN answer.shown :
            \A j \in DOMAIN answer.shown[k].toml : ~Bare(answer.shown[k].toml[j])

\* Nothing of Core's text is lost without a word. What was taken out of an answer
\* is in a file for a native caller as long as there is room, and the answer says
\* why where it is not; what was left whole is the original, and has no file.
OriginalAccounted ==
    /\ answer.form \in {"error", "result"} =>
        LET texts == received.body.texts
            found == \E k \in DOMAIN texts, c \in call.known : Within(c, texts[k])
        IN  /\ answer.present = "yes" => found
            /\ answer.upstream /\ received.matcher /\ found =>
                answer.present = "yes" /\ (answer.file \/ answer.why # "none")
            /\ answer.present = "no" =>
                /\ ~answer.file /\ answer.why = "none"
                /\ \A k \in DOMAIN answer.views : answer.views[k].segments = <<texts[k]>>
            /\ answer.file => call.native /\ call.room > 0
    /\ answer.form = "documents" =>
        /\ Len(answer.shown) = Len(received)
        /\ \A k \in DOMAIN received :
            LET shown == answer.shown[k]
                exact == shown.toml = received[k].resources /\ received[k].valid
            IN  /\ exact <=> ~shown.file /\ shown.why = "none"
                /\ shown.formatError <=> ~received[k].valid
                /\ ~(shown.file /\ shown.why # "none")
                /\ shown.file => call.native
        /\ Cardinality({k \in DOMAIN answer.shown : answer.shown[k].file}) <= call.room

\* Whatever becomes of the diagnostic of a write, the caller is told to reconcile
\* unless Core has certainly not taken it, and the write is sent once; a read asks
\* for no reconciliation (mutation_error, call_tool).
OutcomeSurvives ==
    answer.form \in {"error", "result"} =>
        IF call.kind \in Writes
        THEN /\ call.attempts = 1
             /\ answer.reconcile =
                    IF received.status \in {401, 403, 404} THEN NoRecord ELSE "target"
        ELSE answer.reconcile = NoRecord

\* A filter finds the operations that are shown with its outcome, on its target and at a
\* time between its two, and no other; it is refused if it names a time before all
\* others, or two times with none between them, and for nothing else.
Interval(f) ==
    {t \in 0..Latest : /\ f.after = NoTime \/ f.after <= t
                       /\ f.before = NoTime \/ t < f.before}
FilterExact ==
    answer.form \in {"found", "refused"} =>
        LET f == call.filter
            named == {f.after, f.before} \ {NoTime}
        IN  IF (\E t \in named : t < 0) \/ (NoTime \notin {f.after, f.before} /\ Interval(f) = {})
            THEN answer.form = "refused"
            ELSE /\ answer.form = "found"
                 /\ answer.found =
                        {item \in Stored :
                            /\ f.outcome \in {Unfiltered,
                                    operation_outcome(item.status, item.success).outcome}
                            /\ f.target \in {Unfiltered, item.target}
                            /\ item.start \in Interval(f)}

\* The tools that show parts of one stack agree, whatever window of its lists they
\* show: status and diagnostics on its health and services; configuration and
\* compose file on what is configured; three tools on the secret, of which there is a
\* value only in a file. What Core does not report is not taken for empty.
ViewsAgree ==
    /\ answer.form = "stack" =>
        LET s == answer.status
            d == answer.diagnostics
        IN  /\ s.health = d.health /\ s.services = d.services /\ s.updates = d.updates
            /\ Len(d.page) <= call.window.limit
            /\ Cardinality({k \in DOMAIN d.page : d.page[k]}) <= s.updates
            /\ s.health = "healthy" => ~received[1].missing
    /\ answer.form = "configuration" =>
        LET stored == received[1]
            files == answer.compose
        IN  /\ call.source = "configured" =>
                /\ files.total = IF answer.config.compose THEN 1 ELSE 0
                /\ call.window.offset = 0 /\ answer.config.paths.list # <<>> =>
                    ToSet(files.list) \subseteq {answer.config.paths.list[1]}
            /\ call.source = "latest" => (files.available <=> stored.latest.known)
            /\ call.source = "deployed" => (files.available <=> stored.deployed.known)
            /\ files.total = 0 => files.available /\ ~files.truncated
            /\ files.next # Unknown => files.next > call.window.offset
            /\ answer.config.secret = answer.webhook.secret
            /\ answer.secret.source \in {answer.config.secret, "refused"}
            /\ answer.secret.available => answer.secret.file /\ call.native
    /\ answer.form = "resource" =>
        /\ answer.views.search = answer.views.status
        /\ answer.views.status.resource # "none" <=> call.projection = "detail"

\* Nobody waits for the version for ever, behind a mutex that is held while Core is
\* asked, though Core may never answer and reads are dropped while they hold it.
AskersServed == \A a \in Askers : asker[a].st \in Blocked ~> asker[a].st \notin Blocked

===============================================================================
