-------------------------- MODULE RespondToWebhook --------------------------
(***************************************************************************)
(* execute() of the Respond to Webhook node (packages/nodes-base/nodes/    *)
(* RespondToWebhook/RespondToWebhook.node.ts): it builds the headers from  *)
(* the responseHeaders option (names lower-cased, a later entry replacing  *)
(* an earlier one of the same name), picks the status code and the body    *)
(* for the respondWith mode, adds the headers the mode needs and sends the *)
(* response once.  The execution is one synchronous step: execute() has no *)
(* await between reading its parameters and sendResponse.                  *)
(***************************************************************************)
EXTENDS Naturals, Sequences, SequencesExt, TLC

CONSTANTS
    HeaderName,    \* header names as the user types them
    ToLower(_),    \* String.prototype.toLowerCase on those names
    HeaderValue,   \* header values
    Code,          \* response codes the user may set
    NoCode,        \* the responseCode option is not set
    MaxEntries     \* responseHeaders entries

Mode == {"json", "firstIncomingItem", "text", "binary", "redirect", "noData", "other"}

\* The first item's binary: whether it has one, its property names in
\* Object.keys order, and whether the data is in the binary data manager
\* (has an id) or inline.
BinaryInput == [present: BOOLEAN, keys: {<<>>, <<"data">>, <<"file", "data">>}, stored: BOOLEAN]

Options == [respondWith: Mode,
            responseCode: Code \cup {NoCode},
            entries: UNION {[1..n -> [name: HeaderName, value: HeaderValue]] : n \in 0..MaxEntries},
            bodyParameter: {"", "valid", "invalid"},   \* the JSON responseBody
            binary: BinaryInput,
            dataSource: {"automatically", "set"}]

VARIABLES
    rstatus,    \* "idle" | "sent" | "thrown"
    opts,       \* the node's parameters and the first input item
    response    \* the response handed to sendResponse

vars == <<rstatus, opts, response>>

NoResponse == [statusCode |-> NoCode, headers |-> <<>>, body |-> "none"]

Init ==
    /\ rstatus = "idle"
    /\ opts = CHOOSE o \in Options : TRUE
    /\ response = NoResponse

\* Fault model: the names are used as typed.
UserHeadersCaseSensitive(o) ==
    FoldLeft(LAMBDA h, e : (e.name :> e.value) @@ h, <<>>, o.entries)

\* The responseHeaders loop: headers[name.toLowerCase()] = value.
UserHeaders(o) ==
    FoldLeft(LAMBDA h, e : (ToLower(e.name) :> e.value) @@ h, <<>>, o.entries)

\* The property responseDataSource selects: inputFieldName ('data') or the
\* first key; "none" when there is none to take.
BinaryProperty(o) ==
    IF o.dataSource = "set" THEN "data"
    ELSE IF o.binary.keys = <<>> THEN "none" ELSE Head(o.binary.keys)

\* The whole of execute(): every throw happens before sendResponse.
Execute ==
    /\ rstatus = "idle"
    /\ \E o \in Options :
       LET h == UserHeaders(o)
           code == IF o.responseCode = NoCode THEN 200 ELSE o.responseCode
           Send(c, hs, body) ==
               /\ rstatus' = "sent"
               /\ response' = [statusCode |-> c, headers |-> hs, body |-> body]
           Throw == rstatus' = "thrown" /\ UNCHANGED response
       IN
       /\ opts' = o
       /\ CASE o.respondWith = "json" ->
                 IF o.bodyParameter = "invalid" THEN Throw   \* jsonParse
                 ELSE Send(code, h, IF o.bodyParameter = "" THEN "undefined" ELSE "json")
            [] o.respondWith \in {"firstIncomingItem", "text"} -> Send(code, h, o.respondWith)
            [] o.respondWith = "binary" ->
                 IF ~o.binary.present THEN Throw   \* item.binary === undefined
                 ELSE LET p == BinaryProperty(o) IN
                      IF p = "none" \/ p \notin Range(o.binary.keys) THEN Throw   \* assertBinaryData
                      ELSE LET withLength == IF o.binary.stored THEN h
                                             ELSE ("content-length" :> "length") @@ h
                               withType == IF "content-type" \in DOMAIN withLength THEN withLength
                                           ELSE ("content-type" :> "mimeType") @@ withLength
                           IN  Send(code, withType,
                                    IF o.binary.stored THEN "binaryData" ELSE "buffer")
            [] o.respondWith = "redirect" ->
                 Send(IF o.responseCode = NoCode THEN 307 ELSE o.responseCode,
                      ("location" :> "redirectURL") @@ h, "undefined")
            [] o.respondWith = "noData" -> Send(code, h, "undefined")
            [] OTHER -> Throw   \* 'The Response Data option ... is not supported!'

Ended ==
    /\ rstatus \in {"sent", "thrown"}
    /\ UNCHANGED vars

Next == Execute \/ Ended

Spec == Init /\ [][Next]_vars

-----------------------------------------------------------------------------
TypeOK ==
    /\ rstatus \in {"idle", "sent", "thrown"}
    /\ opts \in Options
    /\ response.statusCode \in Code \cup {NoCode, 200, 307}
    /\ response.body \in {"none", "undefined", "json", "firstIncomingItem", "text",
                          "binaryData", "buffer"}

\* The value of the last responseHeaders entry whose name is n in any case.
LastEntry(o, n) ==
    LET is == {i \in DOMAIN o.entries : ToLower(o.entries[i].name) = n}
    IN  o.entries[CHOOSE i \in is : \A j \in is : j <= i]

\* The header names the node itself adds for the mode it answers with.
NodeHeader(o, n) ==
    \/ n = "location" /\ o.respondWith = "redirect"
    \/ n = "content-length" /\ o.respondWith = "binary" /\ ~o.binary.stored

(***************************************************************************)
(* The sent headers are the user's headers matched case-insensitively,     *)
(* the last entry of a name winning, except for the headers the mode sets  *)
(* itself; a binary answer always has a content-type, the user's if given *)
(* under any spelling, otherwise the data's mime type, never both.         *)
(***************************************************************************)
HeadersFollowOptions ==
    rstatus = "sent" =>
        \A n \in DOMAIN response.headers \cup {ToLower(x) : x \in HeaderName}
                  \cup {"content-type", "content-length", "location"} :
            LET user == {i \in DOMAIN opts.entries : ToLower(opts.entries[i].name) = n} # {}
            IN  CASE NodeHeader(opts, n) ->
                       n \in DOMAIN response.headers /\ response.headers[n] \notin HeaderValue
                  [] user ->
                       n \in DOMAIN response.headers
                       /\ response.headers[n] = LastEntry(opts, n).value
                  [] n = "content-type" /\ opts.respondWith = "binary" ->
                       response.headers[n] = "mimeType"
                  [] OTHER -> n \notin DOMAIN response.headers

=============================================================================
