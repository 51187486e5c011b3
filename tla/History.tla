---------------------------------- MODULE History ----------------------------------
(***************************************************************************)
(* The configuration before and after an operation, as an answer shows it: *)
(* a document's literal credentials are replaced, its original goes to a   *)
(* file, and a document that is no TOML is not shown at all.               *)
(*                                                                         *)
(* A document that is TOML is a sequence of resources. "literal" stands    *)
(* for what is a credential where it occurs, by the kind of the resource   *)
(* or its URL; "x" is any other text, "empty" the empty one, and "number"  *)
(* is no text.                                                             *)
(***************************************************************************)
EXTENDS Diagnostics

Invalid == [valid |-> FALSE, resources |-> <<>>]
Document(resources) == [valid |-> TRUE, resources |-> resources]
Withheld == "withheld"

-------------------------------------------------------------------------------
(* What is in a document *)

\* Array of tables, array of inline tables, table: or anything else.
Shapes == {"tables", "inline", "table", "scalar"}

\* A value that is read has a place: shape and configuration are tables.
Placed(r) == r.value # "absent" => r.shape # "scalar" /\ r.config

Values == {"absent", "empty", "number", "literal"}
Plain == {r \in [kind : {"server", "stack", "deployment"}, shape : Shapes,
                 config : BOOLEAN, value : Values] :
            Placed(r) /\ (r.kind = "deployment" => r.value # "literal")}

Builders == {r \in [kind : {"builder"}, shape : Shapes, config : BOOLEAN,
                    type : {"Url", "Server"}, params : BOOLEAN, value : Values] :
                /\ Placed(r) /\ (r.value # "absent" => r.params)
                /\ r.type = "Server" => r.value # "literal"}

\* Where a service's URLs have their credentials.
Marker(type) == IF type = "Slack" THEN "services" ELSE "webhooks"
Offset(type) == IF type = "Slack" THEN 3 ELSE 2
Paths(type) ==
    {<<>>, <<"x">>} \cup
    IF type \in {"Slack", "Discord"}
    THEN {before \o <<Marker(type)>> \o [k \in 1..Offset(type) - 1 |-> "x"] \o rest :
            before \in {<<>>, <<"x">>},
            rest \in {<<>>, <<"empty">>, <<"literal">>, <<"literal", "x">>}}
    ELSE {<<"services", "x", "x", "x">>}
Queries(type) ==
    LET pairs == {[name |-> "title", value |-> "x"], [name |-> "token", value |-> "empty"]}
                 \cup IF type # "Pushover" THEN {[name |-> "user", value |-> "x"]}
                      ELSE {[name |-> n, value |-> "literal"] : n \in {"token", "user"}}
    IN  {<<>>} \cup {<<p>> : p \in pairs} \cup {<<p, q>> : p, q \in pairs}

\* "//" without a scheme is an endpoint too; a text or mailto: has no authority.
Urls(type) ==
    [form : {"absolute", "relative"}, password : {"none", "empty", "literal"},
     path : Paths(type), query : Queries(type)]
    \cup [form : {"text", "opaque"}, password : {"none"}, path : {<<"x">>}, query : {<<>>}]

Types == {"Slack", "Discord", "Pushover", "Custom"}
Alerters(shapes) ==
    UNION {[kind : {"alerter"}, shape : shapes, config : {TRUE}, type : {type},
            params : {TRUE}, url : Urls(type)] : type \in Types}

-------------------------------------------------------------------------------
(* Projection *)

\* replace_literal: a text that is not empty.
Replaced(value) == IF value = "literal" THEN Withheld ELSE value

\* project_endpoint_path: the first marker decides.
project_endpoint_path(path, type) ==
    LET at == SelectInSeq(path, LAMBDA part : part = Marker(type)) + Offset(type)
    IN  IF /\ type \in {"Slack", "Discord"} /\ Contains(path, Marker(type))
           /\ at \in DOMAIN path /\ path[at] # "empty"
        THEN [path EXCEPT ![at] = Withheld] ELSE path

project_endpoint_query(query, type) ==
    [k \in DOMAIN query |->
        IF type = "Pushover" /\ query[k].name \in {"token", "user"} /\ query[k].value # "empty"
        THEN [query[k] EXCEPT !.value = Withheld] ELSE query[k]]

project_endpoint_url(url, type) ==
    IF url.form \in {"text", "opaque"} THEN url
    ELSE [form |-> url.form, password |-> Replaced(url.password),
          path |-> project_endpoint_path(url.path, type),
          query |-> project_endpoint_query(url.query, type)]

\* project_collection finds the resources in every shape, project_resource what is
\* a credential of their kind.
project_resource(r) ==
    CASE r.shape = "scalar" \/ ~r.config \/ r.kind = "deployment" -> r
      [] r.shape # "scalar" /\ r.config /\ r.kind \in {"server", "stack"} ->
            [r EXCEPT !.value = Replaced(@)]
      [] r.shape # "scalar" /\ r.config /\ r.kind = "builder" ->
            IF r.type = "Url" /\ r.params THEN [r EXCEPT !.value = Replaced(@)] ELSE r
      [] r.shape # "scalar" /\ r.config /\ r.kind = "alerter" ->
            IF r.params THEN [r EXCEPT !.url = project_endpoint_url(@, r.type)] ELSE r

\* PreparedDocument::parse. The fields are the resources that lost something.
Parse(document) ==
    IF ~document.valid
    THEN [toml |-> <<>>, fields |-> {}, original |-> TRUE, formatError |-> TRUE]
    ELSE LET toml == [k \in DOMAIN document.resources |->
                            project_resource(document.resources[k])]
             fields == {k \in DOMAIN toml : toml[k] # document.resources[k]}
         IN  [toml |-> toml, fields |-> fields, original |-> fields # {},
              formatError |-> FALSE]

-------------------------------------------------------------------------------
(* Publication *)

\* PreparedDocument::publish.
Publish(prepared, native, room) ==
    LET handed == Handed(prepared.original, native, room)
    IN  [toml |-> prepared.toml, fields |-> prepared.fields,
         formatError |-> prepared.formatError, file |-> handed.file, why |-> handed.why]

\* project_operation for one record after another: a summary has no documents, and
\* every file takes room from those that follow.
project_operations(documents, projection, native, room) ==
    LET shown[k \in DOMAIN documents] ==
            Publish(Parse(documents[k]), native,
                    room - Cardinality({j \in 1..k - 1 : shown[j].file}))
    IN  IF projection = "summary" THEN <<>> ELSE shown

=====================================================================================
