-------------------------------- MODULE Diagnostics --------------------------------
(***************************************************************************)
(* What a caller is told when a request to Komodo Core fails: which error  *)
(* the client makes of the response, what of Core's diagnostic stays       *)
(* inline, what becomes of the original, and how a write whose outcome is  *)
(* unknown is reported.                                                    *)
(*                                                                         *)
(* A text is a sequence of letters. A known credential is removed from it, *)
(* and what is left stays in separate segments.                            *)
(***************************************************************************)
EXTENDS Naturals, Sequences, SequencesExt, FiniteSetsExt

CONSTANTS
    Key, Secret,   \* the client's credentials
    Token,         \* the webhook secret of an UpdateStack
    MaxSegments    \* segments of a text that stay inline

-------------------------------------------------------------------------------
(* Known credentials in a text *)

\* post_once: the client's own, and the token that it has just sent. An empty text is
\* no credential.
Known(request, token) ==
    ({Key, Secret} \cup IF request = "UpdateStack" /\ token THEN {Token} ELSE {}) \ {<<>>}

\* The longest known credential that begins at i: AhoCorasick with LeftmostLongest.
MatchLength(text, i, known) ==
    Max({0} \cup {Len(c) : c \in {c \in known : IsPrefix(c, SubSeq(text, i, Len(text)))}})

\* The text between one match and the next, from left to right: what comes before the
\* first match, the pieces after it, and whether there is one. Nothing is no piece.
Pieces(left) == IF left.head = <<>> THEN left.rest ELSE <<left.head>> \o left.rest
Between(text, known) ==
    LET from[i \in 1..Len(text) + 1] ==
            IF i > Len(text) THEN [head |-> <<>>, rest |-> <<>>, cut |-> FALSE]
            ELSE LET n == MatchLength(text, i, known)
                 IN  IF n > 0
                     THEN [head |-> <<>>, rest |-> Pieces(from[i + n]), cut |-> TRUE]
                     ELSE [from[i + 1] EXCEPT !.head = <<text[i]>> \o @]
    IN  from[1]

\* (Variant: what is left is put together again.)
ProjectJoined(text, known) ==
    LET left == Between(text, known)
    IN  [whole |-> ~left.cut, segments |-> <<FlattenSeq(Pieces(left))>>]
project_text(text, known) ==
    LET left == Between(text, known)
    IN  [whole |-> ~left.cut, segments |-> IF left.cut THEN Pieces(left) ELSE <<text>>]

Fragmented(view) == ~view.whole /\ Len(view.segments) > MaxSegments

-------------------------------------------------------------------------------
(* UpstreamFailure *)

\* A body is empty, binary, or has texts: an error and perhaps one of its trace.
\* The matcher is built, or not.
from_response(status, body, known, matcher) ==
    LET views == [k \in DOMAIN body.texts |-> project_text(body.texts[k], known)]
        present == \E k \in DOMAIN views : ~views[k].whole
        fragmented == \E k \in DOMAIN views : Fragmented(views[k])
    IN  IF ~matcher
        THEN [kind |-> "Upstream", status |-> status, views |-> <<>>,
              reason |-> "projection", present |-> "unknown", original |-> TRUE]
        ELSE [kind |-> "Upstream", status |-> status,
              views |-> IF fragmented THEN <<>> ELSE views,
              reason |-> CASE fragmented -> "segments"
                           [] ~fragmented /\ body.kind # "text" -> body.kind
                           [] OTHER -> "none",
              present |-> CASE body.kind # "text" -> "unknown"
                            [] body.kind = "text" /\ present -> "yes"
                            [] OTHER -> "no",
              original |-> present]

without_body(status, reason) ==
    [kind |-> "Upstream", status |-> status, views |-> <<>>,
     reason |-> reason, present |-> "unknown", original |-> FALSE]

Local(kind) ==
    [kind |-> kind, status |-> 0, views |-> <<>>, reason |-> "none",
     present |-> "unknown", original |-> FALSE]

\* post_once: a response that does not succeed, or whose body is of no use.
post_once(response, known) ==
    CASE response.status = 0 -> Local("Unavailable")
      [] response.status = 200 ->
            Local(CASE response.end = "interrupted" -> "Unavailable"
                    [] response.end = "oversized" -> "ResponseTooLarge"
                    [] response.end = "complete" -> "IncompatibleResponse")
      [] response.status \notin {0, 200} ->
            IF response.end = "complete"
            THEN from_response(response.status, response.body, known, response.matcher)
            ELSE without_body(response.status, response.end)

\* post: a read is worth a second attempt if Core could not be reached or failed.
WorthRetrying(error) ==
    \/ error.kind = "Unavailable"
    \/ error.kind = "Upstream" /\ error.status \in 500..599

mutation_outcome_unknown(error) ==
    \/ error.kind \in {"Unavailable", "IncompatibleResponse", "ResponseTooLarge"}
    \/ error.kind = "Upstream" /\ error.status \notin {401, 403, 404}
resource_not_found(error) == error.kind = "Upstream" /\ error.status = 404

-------------------------------------------------------------------------------
(* The answer *)

\* The original goes to a file, or the answer says why it does not.
\* (Variant: an original that has no room is dropped without a word.)
HandedSilently(original, native, room) ==
    IF original /\ ~native THEN [file |-> FALSE, why |-> "native"]
    ELSE [file |-> original /\ room > 0, why |-> "none"]
Handed(original, native, room) ==
    CASE ~original -> [file |-> FALSE, why |-> "none"]
      [] original /\ ~native -> [file |-> FALSE, why |-> "native"]
      [] original /\ native /\ room = 0 -> [file |-> FALSE, why |-> "capacity"]
      [] OTHER -> [file |-> TRUE, why |-> "none"]

\* A record of what has to be done before the next write: absent, or for a target.
NoRecord == "none"

api_error(error, native, room) ==
    LET handed == Handed(error.original, native, room)
    IN  [form |-> "error", code |-> "internal", upstream |-> error.kind = "Upstream",
         views |-> error.views, reason |-> error.reason, present |-> error.present,
         file |-> handed.file, why |-> handed.why, reconcile |-> NoRecord]

mutation_error(error, target, native, room) ==
    [api_error(error, native, room) EXCEPT
        !.reconcile = IF mutation_outcome_unknown(error) THEN target ELSE NoRecord]

operation_lookup_error(error, native, room) ==
    [api_error(error, native, room) EXCEPT
        !.code = IF resource_not_found(error) THEN "invalid params" ELSE @]

\* call_tool: an error that withholds an original becomes a result of the tool, so
\* that its file can be imported.
\* (Variant: the result has the diagnostic's fields only.)
AsResultOfDiagnostic(answer) ==
    IF answer.file \/ answer.why # "none"
    THEN [answer EXCEPT !.form = "result", !.reconcile = NoRecord] ELSE answer
AsResult(answer) ==
    IF answer.file \/ answer.why # "none" THEN [answer EXCEPT !.form = "result"] ELSE answer

=====================================================================================
