# komodo-mcp-rs: a TLA+ development

`komodo-mcp-rs` is a Model Context Protocol server in front of Komodo Core. It
turns tool calls into reads and mutations of Core, over Streamable HTTP behind a
gateway or over stdio. This directory holds TLA+ models of the parts of it whose
correctness depends on interleaving, failure, time or many cases, the TLC
configurations that check them, and TLAPS proofs of every safety property the runs check. Line numbers refer to the Rust sources beside it.

## 1. The system

| Component | State | Operations | Talks to |
|---|---|---|---|
| Request lifecycle (`komodo-server/src/lifecycle.rs`, `komodo-mcp/src/execution.rs`) | a semaphore of permits, a shutdown token, per request a lease (permit clone and budget), a drop guard, a response body | admit, refuse, spawn the handler, answer, cut, deliver | hyper and axum (outside), rmcp (inside), the handler |
| Tool execution and submission (`komodo-mcp/src/lib.rs`, `errors.rs`) | per call: budget, rpc token, stage | check, resolve the target, check again (`admin`), post, classify the result | the API client |
| API client (`komodo-api/src/lib.rs`) | a cached Core version | `post` with one retry for reads, `post_once`, bounded body | Komodo Core |
| Inventory and target resolution (`komodo-api/src/inventory.rs`, `select`) | none beyond a call | id query, version query, list or pages, exact match | the API client |
| Credential file store (`komodo-server/src/files.rs`) | a registry under one lock, a semaphore of stored bytes, grants, streaming bodies | authorize, upload, publish, download, take, prune, clear | HTTP transfers, tools, a cleanup task |
| Identity key cache (`komodo-server/src/auth.rs`) | a key set with an expiry, a refresh mutex with the next permitted refresh | look up, refresh | the issuer's JWKS endpoint |
| Ingress checks (`auth.rs`) | bearers, hosts, origins, actor, read-only | compare, verify claims | |
| Stdio transport (`stdio.rs`) | partial input line, pending ids, write lock | receive, send, close | rmcp, the peer's pipes |
| Searches and collections (`lib.rs`, `inventory.rs`, `networks.rs`) | none beyond a call; the client carries page and offset | one page, match, order, window, continuation | the API client, the client's next call |
| Tool registry and stack configuration (`lib.rs`, `errors.rs`) | profile and credentials, fixed at start | list, dispatch, validate, write, read | the API client, the file store |
| Core version (`komodo-api/src/lib.rs`, `network.rs`) | a remembered version behind a mutex | look, ask, remember, choose a form | Komodo Core |
| Failure diagnostics (`komodo-api/src/errors.rs`, `lib.rs`, `errors.rs`) | none beyond a call | classify, redact, truncate, hand over the original, report | the file store |
| Operation history (`komodo-mcp/src/history.rs`) | none beyond a call | inspect a document, replace what is a credential, window | the file store |
| Views of the read tools (`lib.rs`) | none | status, diagnostics, configuration, outcome, filter | |
| Configuration (`komodo-server/src/config.rs`, `main.rs`) | settings, fixed when it serves | read, trim, default, bound, check in pairs | the environment |
| Start, signals, health (`server.rs`, `main.rs`) | listening, draining | bind, serve, stop, drain for five seconds at most | the operating system |
| Logging, scripts | none | | |

**How they interact.** An HTTP request passes `admit`, which takes a permit and
starts a deadline; the inner layers authenticate it (which may fetch signing
keys) and limit its body; rmcp copies the request's parts, the lease among them,
into a handler task of its own. The handler reads Core to find its target and
posts at most one mutation, or uses the file store. Its answer travels back in a
body that owns the transport's lease. File transfers enter through the same
`admit`, after a check of their grant. The shutdown token reaches everything;
a background task clears the file store.

**What is hard.** Work that outlives its caller and still holds a permit; the
moment at which a mutation is sent relative to the moment a lifetime ends;
answers that are lost after the mutation was accepted; a check, then an await,
then a use (grants, budgets, inventories, keys); resources that move between
owners (permits, stored bytes); refreshes shared by many callers; a target that
is searched for page by page while others change the inventory; a diagnostic
that repeats a credential, whole or across the cut of what stays inline; a
version of Core that is remembered while Core is replaced. `hazards` in
`PROJECT.json` lists each at its line, with the properties that cover it.

## 2. The modules

| Module | What it is |
|---|---|
| `MutationContract` | what a caller is promised about one mutation: takes effect at most once, and is never reported falsely; it counts the effects |
| `RequestLifecycle` | admission, permits, deadlines, the detached handler, submission, Core; implements `MutationContract` |
| `RequestLifecycleProofs` | theorems about it |
| `OneShotFile` | what the store promises about each file: fixed content, one delivery, to the owner, and no return |
| `TransferFiles` | the registry, the byte semaphore, grants, transfers, tools, cleanup; implements `OneShotFile` |
| `JwksCache` | the key cache, its refresh mutex and rate limit, an issuer that rotates keys |
| `JwksCacheProofs` | theorems about it |
| `TransferFilesProofs` | theorems about it, the refinement among them |
| `TargetResolution` | from a selector to an id, by id, list or pages, against an inventory that changes, and the one write to that id |
| `TargetResolutionProofs` | theorems about it |
| `StdioFrames` | how the stdio transport cuts its input into messages, byte by byte |
| `StdioTransport` | pending requests, answers under the writer's lock, a peer that reads when it likes |
| `StdioProofs` | theorems about both |
| `StackTools` | profiles, dispatch, configuration writes and reads of a stack, the evidence an uncertain write leaves |
| `StackToolsProofs` | theorems about it |
| `Searches` | a client that walks through pages and offsets of a search while Core's contents change |
| `CoreVersion` | the remembered version of Core, shared by reads, and the form of a request that follows from it |
| `Diagnostics` | from a failed response to what the caller is told |
| `History` | what an answer shows of the configuration before and after an operation |
| `Views` | what the read tools make of Core's records |
| `ToolCalls` | composes the last five: walks, reads that ask for the version, single calls |
| `ToolCallsProofs` | theorems about it and all it composes |
| `Startup` | from the command line and environment to a process that serves, and to its exit |
| `Ingress` | one HTTP request through the layers of the router |
| `Gateway` | composes the two: a whole process |
| `GatewayProofs` | theorems about it and the two it composes |
| `MC...` | what a `.cfg` cannot say: symmetry sets and constants that are sequences. The other values are in the `.cfg` files. Runs with a liveness property use no symmetry, which TLC does not allow there |

Definitions marked *Variant* in a module, just before the one they resemble, are
plausible mistakes; no action uses them. Replacing the definition by its variant
makes TLC report the property that `PROJECT.json` pairs it with.

### RequestLifecycle

One action is one step of one task between two points where another task can
intervene. `transport[r]` follows `admit` and `LifetimeBody` (absent, arriving, admitted,
ingress, serving, body, closed), `task[r]` the handler (queued, lookup, resolved, cleared,
writing, done). The steps from resolved to writing are one poll in the code;
they are separate here because a token can be cancelled, and the clock run, on
another thread in between, so `Clear` (the check in `admin`) and `Submit` (the
post) do not see the same instant. So it is with `admit`: `Arrive` looks at the shutdown
token, `Acquire` takes a permit without looking again, and between the two
the token may be cancelled and all other permits come back: a request may take a permit behind the
drain, and what is true is that nothing is done for it (`DrainedStaysAtRest`). `Enter` is the first poll of
the `select!`, which looks at the request's own token before it runs the inner layers. The permit is an `Arc` with two owners:
`AfterDrop` returns it with the second drop. `Cancelled` is derived: the drop
guard fires when the transport task is gone, and the request's token is a child
of the shutdown token. A deadline may be noticed late (timer granularity), a
cancelled token may not, because every `select!` is biased.

Core is an actor: a posted copy travels (`wire`), may be lost, and may be
accepted after everybody here has given up. Core is trusted not to answer 401,
403 or 404 to a mutation it has accepted; any other status, and any failure of
the answer, may follow an accepted one. One logical read stands for all reads of
a lookup, which `TargetResolution` details.

### TransferFiles

Every operation holds the registry's mutex throughout, so it is one action, and
begins with `prune`: `Swept` is the pruned registry and `Available` the capacity
that leaves, since a dropped entry returns its permits. An upload or download is
four steps: grant check outside `admit`, body received and budget checked, use of
the store, end of the response body. Of tools, `tool[o]` says that some calls of `o`
are past their last budget check (`ToolChecked`); as many as there are, each may use the store as often
as it likes until the last of them is over (`ToolDone`): a page of operations publishes
up to two documents of each. Time is what is left of each lifetime and `Tick` takes one off;
no operation is bound to happen before a tick. An identifier is 32 random bytes
and is never used twice. An upload that does not match its declared size or
digest fails and leaves the grant in place, which `Upload` allows at any time.

### JwksCache

`queue` is the fair tokio mutex with its holder first. A verification looks in
the cache, queues, looks again, and either is refused (a refresh was begun too
recently) or fetches. The moment the issuer composes its answer (`Answer`) and
the moment the answer is cached (`Store`) are separate, and the request may be
dropped at every await (`Cancel`), which frees the mutex but not the stamp that
puts off the next refresh. `stored` remembers whether the last fetch got as far as the cache. `Tick` does not pass the timeout of a fetch.

### TargetResolution

Names are ranks in Core's sort order; the selector is known by which names equal
it (`Exact`) or contain it (`Similar`), and by the id it may be. Core's list is a set and a
page the resources that so many others precede by name; an item that is kept carries the
page it was on, so that one resource met twice counts twice, as in the code. Core composes
each answer from the inventory of that moment; `Change` is any other client. A read
is attempted twice at most, and `TimeUp` is the time limit of the whole search. `Submit`
is the one write that follows: it names the id that was chosen, whatever the
inventory has become.

### StdioFrames and StdioTransport

The two halves of `BoundedStdio` share only its `closed` flag (`over` and `closed` in the modules,
which share no name, so that one module can hold the proofs of both). In the first, a byte is a
newline or another one; `Arrive` is one read, of any number of bytes that are
there, with the whole reaction of `receive` to it, and `DropReceive` the service's
`select!` that leaves a waiting `receive` for another event. Whether a line parses
is settled by the peer that ends it, and the transport recognises a message only
if its buffer holds exactly that line. In the second, a request is a job: in its
handler, then in `send`. rmcp runs every `send` in a task of its own, so several
wait for the writer's mutex (`queue`); an answer is written in pieces, because
tokio's stdout takes one larger than its buffer so. Stdout holds one piece (`buffer`) and a
thread of its own writes it to the pipe when there is room (`Flow`), also after the task that
gave it has ended. The flush waits until it has (`Flushed`); `Finish` (written and flushed, mutex free) and
`Release` (id counted no longer) are separate steps, as the locks are in the code. `TimeOut` drops the
write or the flush wherever it stands, but one that can go on is polled before the timer. So a
send can be given up although stdout has all of its answer: the peer reads that later, and the id goes
on counting.

### StackTools

`Begin` is dispatch with the validation that follows in the same poll; a custom
secret takes its file there, before the stack is looked up. A request (`ask`) is
what the caller set, a patch what is sent; a call's name stands for any value
with content, `Empty` for one that clears. Core (`Settle`) merges, refuses or
loses a copy, possibly after the answer. `Look` is the one read of Core behind a
read tool and what it projects; `stacks.config.read` and `stacks.webhook.status`
show whether a secret is custom, only `stacks.webhook.secret.read` shows it.
`Accepted` also stands for the operation history that `operations.search` reads.

### ToolCalls and what it composes

A client walks, or several ask, or one calls: the three never share a state, so their
states add up and one run checks all.

*A walk* (`Searches`) is one module for four kinds of tools, which differ in what Core
answers (`Answers`: pages, everything in any order, everything in Core's order) and in
how the match is ordered. A stable sort is given by what precedes what (`Precedes`), and a
match has its `Place` by how many others precede it; a window shows those with certain places.
`Call` is one whole tool call: check, one answer of
Core, match, order, window, continuation. The page and offset are the client's; it
follows `nextOffset` and then `nextPage`, as `docs/tool-surface.md:51-61` says.
Names count in lower case, the query by what it matches. A window over a
collection has no limit on the offset it offers, which the assumption on
`MaxWindow` reflects, and its `truncated` means something else and is not used.

*Asking* (`CoreVersion`): askers queue for the mutex (`line`), the first one looks at what is
remembered and asks Core if that is too old. `Serve` is Core composing its answer,
`Learn` the client remembering it, and between them Core may be replaced (`Replace`). A
read may be dropped at every await (`Abandon`), which frees the mutex. What an older
Core does with a request in the newer form is unknown, so nothing is said of the
answer; the property bounds how old the form may be.

*A failed call* (`Diagnostics`): a text is a sequence of letters, and a credential a sequence
that may overlap another or itself. `Between` are the texts that remain between the
occurrences, as the code's leftmost-first matcher finds them, by a function from each place
on; `post_once` makes an
error of a response, `AsResult` a result of the error. Whether the
original can be handed over depends on the caller and on the room in the store.

*Operations* (`History`): a document is a sequence of resources, each with the shape
the code tells apart. A value is a literal credential or not by its key and kind, and
an URL may hold one only if it has a scheme, for the code looks at no other. Percent encoding
and the normalisation of an URL are left out.

*A look* (`Views`): the records are those of Core with the fields that decide something; fields
that are copied are left out.

### Startup, Ingress, Gateway

`Script` is the order in which the code reads its variables, which depends on the mode
and the profile; the values are classes of text (white space, not Unicode,
too short, with a line break, equal to another), and `ReadNumber` and `ReadText` are one
variable each, with its default, bound or refusal. What was made of the texts is in `settings`,
the numbers that will apply in `limits`. `Ingress` takes one request at a time
through the layers in the router's order: how requests share permits is in
`RequestLifecycle`, and nothing else here is shared. A tick is thirty seconds, the skew
of the claim checks; a token has any age from a tick before to a tick beyond each
bound, negative ones among them, and a timeout is rounded up to ticks. A drain lasts
five seconds, hence a tick at most.

## 3. Runs

| Run | Bounds | Shows |
|---|---|---|
| `lifecycle` | 2 requests, 1 permit | permits conserved and returned, honest reports, no late submission, a server that stays at rest once it is, and the refinement, with the effects counted |
| `files` | 2 files for 1 entry and 1 byte, 2 transfers, 2 subjects, 2 grants a file | latest live grant only, capacity exact on every path, nothing used after its time, one delivery to the owner (refinement), and what nobody fetches is erased |
| `files_shutdown` | 1 file | violation, see findings |
| `jwks` | 3 callers, 1 key, lifetimes 3, 4, 2 | bounded trust in retired keys, refusals for cause only, bounded fetches, every caller answered |
| `target` | 3 resources, 5 names, 3 pages of 1, 2 changes | sound choice, agreement with the definition, the write goes to what was chosen, bounded reads |
| `target_ambiguity` | 3 resources, pages of 2, 1 change | violation, see findings |
| `stdio_frames` | 3 lines, up to 2 bytes too long, pipe of 5 | what becomes of every line is its peer's doing: messages delivered, long lines not, closed for cause |
| `stdio` | 2 ids, 2 may be pending, 3 tasks, answers of 2 pieces, room for 1 in the pipe beside the one in stdout, 2 ticks for a send | answers bounded, pieces mixed only after a write was given up, sends end, a request whose answer is in the pipe in time ceases to count |
| `stdio_lines` | 3 ids, room for 2 pieces | violation, see findings |
| `tool_calls` | 3 items, pages of 2, offsets to 1, limits 0 to 2, 2 changes; texts to 5 letters with a trace of 2, 2 segments inline, room for 2 files, lists and windows of 2, times to 2; 3 askers, spans 2, 1, 1 | undisturbed walks exact, no operation passed over, walks end; no known credential inline, originals accounted for, an uncertain write stays uncertain, filters and views agree; the form of a request fits a recent Core, and every asker is served |
| `stack_tools` | 2 calls, every tool, profile and file | list and dispatch agree, only listed tools reach Core, writes partial, uncertain writes reconcilable |
| `gateway` | every process, every class of text; one number set, to any edge of its bounds, and the others by default | what serves is configured soundly, every number within its documented range, an identity is in use for a bounded time, a drain ends |

*Why the bounds suffice.* Two requests and one permit give every race for a
permit, every refusal and every pair of a live handler and a dead transport; a
request interacts with another only through permits and shutdown. For the store,
two files and one entry have every way of running out and two transfers and two
subjects every race for one copy; files outlive a grant, so a
file sees its grants replaced and expired. Refreshes
need one fetcher, one waiter that profits and one that does not, hence three
callers; an interval longer than the lifetime of a set exercises the minimum of
the two. Three names that contain the selector, two of them equal to it, with
pages of one, reach ambiguity across pages and the page limit. A frame of three
bytes has a beginning, a middle and a newline, and lines of up to five are one
short of, at and beyond every comparison; two pieces and room for one are the
least that leave a write in the middle, and as stdout holds one more, an answer can be taken
entirely and still wait for its flush. Each number of the configuration is checked by itself, so one that is
set at a time meets every edge. Three items in pages of two give a full
page, a partial one and an empty last one, and an offset that may and one that
may not be offered. The credentials of `tool_calls` overlap (`<<2>>`, `<<1, 1>>`,
`<<1, 2, 1>>`), and texts of five letters hold each of them at the beginning, in the middle
and at the end, beside others, and more segments than stay inline; room for two files
runs out between the documents of one answer. Three askers are the one that asks, one
that finds the answer and one that finds it too old. One write with one read, and two
writes, are all the pairs a property of `StackTools` speaks of; the proofs cover more calls.

The bounds of the models themselves are `MaxTokens` (grants per file), `MaxChanges`
(changes by others, of the inventory or during a walk), `MaxLines`, `PipeSize`, `Jobs`
(stdio), `MostSet` (numbers set in an environment), `MaxText`, `MaxTrace`, `Room`, `Longest` and `Latest` (calls), and the saturation of the histories of
`JwksCache` and `CoreVersion`, which count no further than the
properties compare; nothing else is cut.

*Deadlock* is not checked where the modelled work is finite: requests are
one-shot, a resolution or a walk ends, a call is answered, a process exits, a store
that was shut down and a closed stream stay still. `JwksCache` never stops and is
checked for deadlock.

*Fairness.* `RequestLifecycle`: the clock passes deadlines; the runtime polls a
task whose timer or token is ready (`Cut`, `End`); a cleared handler posts in the
same poll (`Submit`). Nothing is assumed of Core, of callers, of the ingress
layers or of rmcp. hyper polls the body it was given, which holds for the single
frame of a tool's answer; see the hazard at `lifecycle.rs:123` for downloads.
`TransferFiles`: the clock and the cleanup task only. `JwksCache`: the clock, the
polling of ready tasks and the HTTP client's own timeout, never the issuer.
`StdioTransport`: the clock, the polling of tasks that can go on, and the thread of stdout when the pipe has room; no handler
has to return and the peer may stop reading for ever. `ToolCalls`: the client of a walk goes
on; for askers the clock, and the polling of one that can go on (`Progress`), never Core.
`Gateway`: the clock, the polling of due timers and of a cancelled token (`Cut`), and the end of
the drain; a body need not come, a handler need not return, and a caller need not take
its answer.

## 4. Findings

All are differences between documentation and code, each shown by a run.

1. *A name may be resolved although it is ambiguous* (`target_ambiguity`). Name
   search reads pages by offset. If a resource that sorts before the matches is
   deleted between two pages, a second exact match slides onto a page already
   read; the first is returned as unique, though both bore the name throughout.
   `docs/tool-surface.md:138-142` promises failure when uniqueness cannot be
   proved. That is the only way (`AmbiguityBehindPages`): if the selector meant several
   resources throughout and one was chosen, a page beyond the first was being read and
   the inventory had changed.
2. *The store may hold a file after its clearing at shutdown* (`files_shutdown`).
   The cleanup task clears once and returns; an operation past its lifetime check
   inserts afterwards. The memory goes with the process, at most five seconds
   later; `docs/file-transfers.md:83-84` says storage is cleared on shutdown. More does not
   happen: such a file is a new one of a subject whose calls were past their check, and no call
   joins those (`LateFiles`); no transfer under way is for it, and no upload is left to
   take (`Clears`); and nothing leaves the store any more (`NothingServed`). How many such files there are is
   limited only by the store (`StoreBounded`), for one call may publish several.
3. *A line of stdout may be two torn answers* (`stdio_lines`). A write that times
   out leaves its beginning behind, the stream stays open and the next answer ends
   that line. It takes an answer that stdout accepts in pieces and a peer that pauses
   for thirty seconds. `docs/quickstart.md:99` promises only protocol messages. A line is
   torn in no other way (`TornByTimeout`): as long as no write is given up, every line is
   one whole answer (`WholeWithoutTimeout`).

Smaller ones have no run: a read is also repeated after a 5xx status, where
`docs/architecture.md:84-85` speaks of an unavailable transport only; and a peer
of the stdio transport can read an answer before its id is released and be closed
for a next request within the limit of `docs/quickstart.md:93-94`.

## 5. Proofs

| Module | For every | Proves |
|---|---|---|
| `RequestLifecycleProofs` | finite set of requests, positive limit | all safety properties of `lifecycle` and the refinement |
| `TransferFilesProofs` | files, subjects, transfers, sizes and bounds | all safety properties of `files`, `StoreBounded` among them, the refinement of `OneShotFile`, that no file's end is put off, and what the store may hold after its clearing |
| `JwksCacheProofs` | callers, keys, lifetimes, intervals, fetch times | the safety properties of `jwks` |
| `TargetResolutionProofs` | finite inventory, names, page sizes and limits | all safety properties of `target`: `SoundChoice`, `RightWhenQuiet`, `ActsOnTarget`, `ReadsBounded`; and where an ambiguity can go unnoticed |
| `StdioProofs` | frame length, number of lines, pipe; ids, jobs, sizes and times | `LinesDecided`, and that no byte is lost or read twice; `AnswersBounded` and `Unmixed`, and what tears a line of stdout |
| `StackToolsProofs` | set of calls | all properties of `stack_tools` |
| `ToolCallsProofs` | finite set of items, names, page size, limits; texts, credentials, lists, windows, room for files; askers and spans | all safety properties of `tool_calls`: `WalkIsExact`, `NoOperationMissed`, `NoLiteralInline`, `OriginalAccounted`, `OutcomeSurvives`, `FilterExact`, `ViewsAgree`, `FormFits`; and that a continuation is accepted and leads on |
| `GatewayProofs` | process, profile, value in each variable, numbers at either end of their bounds among them; request and token | the safety properties of `gateway`: `SoundStart` and `BoundedUse`; and that a process that changes nothing reads no administrative variable |

*The lifecycle's invariant.* `PermitConservation` is not enough by itself, nor
are the others: that a report is honest needs to know that a copy is on its way,
was handled or was lost only while or after the handler stood in `writing`, that
no second attempt of a write is ever begun, and what Core's verdict says about
`applied`. `InductiveInvariant` ties task stage, attempts, copies in flight,
verdict, applications and report together per request; permits are counted with
the finite-set theorems of the library, one lemma for a request that becomes live
and one for a request that ceases to be. Each action touches one request, which a
frame lemma states once. The action properties and the refinement follow step by
step from the invariant.

*The store's invariant.* A step deals with each file in one of five ways, whichever
operation it is: it leaves it, erases it, makes it known, completes it or hands it out
(`Stays`, `IsErased`, `IsBorn`, `IsCompleted`, `IsHanded`). Each way keeps what is known of the
file (`FileInv`: the last grant is its owner's and only that may be live, a file without
entry has no grant) and of the transfers that have passed a check (`TransferInv`), and
each is a step of `OneShotFile` or a stutter. So the operations, with the pruning
that all begin with, are shown to be one of the five and nothing more.

*The store's time.* Nothing an operation puts under a name that is in use lives longer than what was there
(`LivesRunOut`), so `ExpiredErased` needs only the clock and the cleanup task.

*The store's capacity.* What is free, the bytes of the entries and those of the bodies under way
add up to the capacity, and the entries are as many as are admitted at most (`CapacityInv`). The
sums are folds over sets of any size: `Sums` says of a function on sets of files that
it adds their sizes up, one file at a time; such a function exists, there is only one, and the fold is its
value, so a sum splits, grows and shrinks with its set. Every operation gives back what it
sweeps and takes from that (`Available`).

*The cache's invariant.* A set in the cache with `ttl` to go was composed at most
`CacheTTL - ttl + FetchTime` ago, a set on its way with `left` to go at most
`FetchTime - left` ago; so every key of either was published that recently. As long as the stamp
forbids a refresh the set that the last fetch stored is alive, since the interval is no longer than its
lifetime; so whoever is refused was told by a set that is alive, or by a fetch that failed. The
mutex's holder is the only fetcher: a caller joins behind it, and one that gives
up a place leaves the head to it (`WithoutOne`, a lemma about the queue). What is
left of the interval and the time since the last fetch add up to the gap at
least, so a permitted fetch is late enough.

*After the clearing.* A transfer under way is for a file that is gone, and by the
five ways a file that is gone does not come back; only an upload that completes leaves
something to take, and none is left to complete (`ClearedInv`). What appears can therefore only be
made known, by a call that is past its check. This rests on nothing about times or numbers of calls.

*The resolution's bound.* Every read that is over was posted twice at most, the
present one as often as it was attempted, and only a search by pages turns pages
(`ReadsInv`).

*The resolution's choice.* That a choice is sound needs only that every match kept fitted the
selector when it was read (`ChoiceInv`). That it is right in an inventory that stands still needs
what was read so far: the matches kept are those among the resources with the first places, as
many as the pages before the present one hold (`QuietInv`). So the lemmas count: below the
size of a set each place is taken, by one resource. Hence a page that is not full leaves
nothing to read, and the search ends with all the matches or with two.

*The resolution's ambiguity.* If a selector meant several resources throughout (`unclear`), it
means several now, and an answer that is judged alone, to an id, a list or a first page,
shows more than one of them or leaves a page to turn: none is chosen of it (`ReferenceAlone`). What is put together from
several pages is right while nothing changes (`QuietInv`). So a choice in spite of it needs
a later page and a change (`AmbiguityInv`).

*The frames' invariant.* Counted from the first byte on its way, the line being read
began as many bytes earlier as the buffer is long, and each line not yet delivered
ends as many bytes after the one before as the peer typed (`Layout`). Every step
preserves that layout, an arrival of any size and a dropped `receive` included, and
that bytes are kept and lines decided is one look at it.

*The lines of stdout.* What the peer has of the present line is the beginning of one answer, and what is on
its way goes on with it, unless an answer in it was given up (`LineInv`); ids are not taken again
while a piece is on its way, so that "the same answer" means something.

*The transport's invariant.* An answer that is partly written is the mutex holder's, so
its last piece is the last one on stdout, and the next piece follows it; a job that gives
up leaves its id pending, so nobody takes that id again. Ids of live jobs differ and are
pending, which bounds the answers, and so is the id of what stdout holds back (`HeldInv`).

*The version's invariant.* Each place a form can be in bounds its age: the form of an
answer under way is no older than the attempt, the remembered one no older than that
and the time it has been kept, the one in use no older than all three.

*The walk's invariant.* On its page, or among all there is, a match has its turn (`Turn`): as many come
before it as it waits for. While nothing changes, those whose turn came before the
present offset were seen once and the later ones not at all; of what lies behind the page
(`Behind`) all was seen once, unless truncated was said (`QuietWalk`). Operations only begin, so an
arrival moves what there was to later places, never to earlier ones, and what was there is seen
once the walk has passed it (`NothingMissed`). That an answer shows what
its places say, that a page is what the listing holds at certain places and that an
insertion shifts those places by one are the lemmas this rests on.

*The walk's way.* `WalkEnds` is two safety properties and fairness, and the first two are proved: no
continuation that was advertised is refused (`ContinuationsAccepted`), and each call ends the walk or moves it, to a
larger offset within its bound or to a page that begins within what there can be, as the page before
it was full when it was read (`WalksForward`). Neither depends on what others change.

*Credentials in a text.* Every segment that remains is a piece of the text between two places at
which the matcher stopped; a credential within it would occur in the text at a place where the
matcher looked and found none (`Between`, `MatchLength`). So what is inline holds nothing that is
known, whatever the credentials are and however they overlap. A
document is shown resource by resource, and a path by its first marker.

*A call's invariant.* `CallInv` says what each kind of call may be and what was made of it:
an answer is the function of the call and the response that the code computes, and the five
properties of calls are theorems about those functions, for every call and response in
question. `ToolInv` joins it with those of walks and of the version; a step of one
session leaves the other two alone.

*The process's invariant.* The start reads the variables of a list that mode and profile fix
(`Script`). At each place the settings are exactly those read, each of a value its reading may
leave, and each check that follows a variable already read holds (`Checked`); it goes on
holding because the list names nothing twice and a check asks only for what was read before it
(`Ordered`, proved of every list the code can follow). A process serves at the end of its
list, where all checks hold. A token exceeds the bounds of the claim checks by no more than what has
passed of its request's time limit (`Spent`), for both move with the clock.

*Induction over data.* The prover's induction theorems cannot be used for the functions on places of a
text and for sums. Their proofs take a least counterexample instead: a nonempty set of numbers has a
least element (`LeastNumber`), a set of subsets of a finite set has one that contains no other
(`LeastSubset`), both from well-foundedness, and the definition at that place shows that it is none.

*The stack tools' invariants.* A call under way was permitted, and what it sends is
what was asked (`CallsInv`); with the types (`TypeInv`) that gives the first three
properties. That an uncertain write can be reconciled needs the past: if nobody
else has written, every field of Core is the old one or the write's, and what a
read showed was that of the moment it came (`HistoryInv`); that the named tool
shows all the fields its write may set, as they are, is a lemma about the tables.

*A precaution.* tlapm 1.4.5 hands Z3 an axiom by which every value that an
obligation speaks of is a sequence as soon as it mentions `Len`; next to a function on
`0..Len(lines)`, say, that proves anything. `Layout` therefore speaks of the ends one by
one, never of the domain they are defined on, and every leaf of the eight modules was also
proved with that axiom restricted to what is known to be a sequence.

*Assumptions.* The named `ASSUME`s of the modules, which TLC evaluates for the values of the runs:
finite sets (`RequestsFinite`, `IdsFinite`, the items of `SearchNumbers`), positive limits and spans,
names that are ranks (`NamesNested`), marks that are no value (`GoneIsNothing`, `NoneIsNone`,
`ValuesDiffer`), credentials that are texts (`TextsOfLetters`). One says something of the
code: a collection holds no more items than an offset may reach (`SearchNumbers`), because a response is
bounded in bytes.

*Only model-checked:* liveness alone (`PermitReturns`, `ExpiredErased`,
`CallersAnswered`, `SendsEnd`, `AnsweredReleased`, `WalkEnds`, `AskersServed`, `Exits`), which
is beyond the prover.

## 6. Plan

1. Done: the lifecycle with its contract, the file store with its one-shot
   abstraction, the key cache, target resolution with the write that follows, the
   stdio transport, the stack tools, and walks, failures, history, views and the version of
   Core in one composition, and the whole process from its configuration to its exit, each with
   proofs of all its safety properties.
2. The reads and actions of the other resources in `StackTools`; they follow the
   same paths, so what is new in them is which fields they name.
3. A composition of `StackTools` with the submission of `RequestLifecycle`: the evidence an
   uncertain write leaves, when the handler dies between the post and the answer.

## 7. Not modelled

rmcp, hyper, reqwest and Komodo Core appear only through what the code relies on.
Searches stop short of pages beyond 32 bits, of filters whose answer changes for an
operation during a walk, of items that are renamed and not replaced, and of networks without a name. The logs of a stack, its
environment and its commands, and the records of networks, are copied field by field and
would be modelled by the identity. Of texts, percent encoding, the normalisation of
URLs and the wording of messages are left out. The health endpoints and the
exported catalogs change nothing and depend on nothing but the settings. Logging and the
release scripts have no behaviour that another step could disturb. The five-second
limit on the drain ends the process and with it every state described here.
