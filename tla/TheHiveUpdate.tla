--------------------------- MODULE TheHiveUpdate ---------------------------
(***************************************************************************)
(* The case update operation of the TheHive node (packages/nodes-base/     *)
(* nodes/TheHiveProject/actions/case/update.operation.ts).  The loop over  *)
(* the body's keys (Object.keys order) splits them into the fields to     *)
(* match on and the update body, built with lodash set; custom fields come *)
(* either as keys `customFields.<name>` or as one `customFields` object,   *)
(* whose matching entries are taken out.  Matching on `id` PATCHes the     *)
(* case of that id with the whole body; otherwise the node queries the     *)
(* cases equal to the item on every match field, throws when there is none *)
(* and PATCHes all of them in bulk with the update body.                   *)
(*                                                                         *)
(* The TheHive server is outside the repository: a query answers the cases *)
(* whose fields equal the filter's values, a PATCH sets the fields of its  *)
(* body (a customFields object entry by entry), and a PATCH of a missing   *)
(* case fails.  The item's body and the match columns are enumerated.      *)
(***************************************************************************)
EXTENDS Naturals, Sequences, SequencesExt, FiniteSets

CONSTANTS
    CaseId,     \* ids of the server's cases
    Value       \* field values

\* The top-level fields of a case; a custom field "a" lives at customFields.a.
Field == {"title", "customFields.a"}
Custom == {"a", "b"}
MatchColumn == {"id"} \cup Field

\* A body entry: a key and its value; the customFields object is a
\* function from some custom field names to values.
Entry == [key: {"id"}, value: CaseId] \cup [key: Field, value: Value]
         \cup [key: {"customFields"}, value: UNION {[S -> Value] : S \in SUBSET Custom}]

VARIABLES
    hstatus,     \* "idle" | "built" | "queried" | "done" | "failed"
    body,        \* the item's body: a sequence of entries in key order
    matchOn,     \* fields.matchingColumns
    updateBody,  \* [top: field -> value, custom: name -> value]
    matchFields, \* match column -> value
    matches,     \* the case ids the query answered
    cases,       \* the server's cases: id -> [title, custom]
    before,      \* the cases as they were when the operation started
    updated      \* the `updated` count returned

vars == <<hstatus, body, matchOn, updateBody, matchFields, matches, cases, before, updated>>

CaseState == [title: Value, custom: [Custom -> Value]]

\* The items' bodies tried: an id or not, a title or not, a custom field a
\* given as a `customFields.a` key, as an entry of the customFields object,
\* or both, in either key order.
BodyChoice ==
    LET opt(S) == {<<>>} \cup {<<e>> : e \in S}
        ids == opt([key: {"id"}, value: CaseId])
        titles == opt([key: {"title"}, value: Value])
        dotted == opt([key: {"customFields.a"}, value: Value])
        objects == opt([key: {"customFields"}, value: {("a" :> v) : v \in Value} \cup {("b" :> v) : v \in Value}])
    IN  {i \o t \o c : i \in ids, t \in titles, c \in {d \o o : d \in dotted, o \in objects}
                                                \cup {o \o d : d \in dotted, o \in objects}}

EmptyUpdate == [top |-> <<>>, custom |-> <<>>]

Init ==
    /\ hstatus = "idle"
    /\ body = <<>>
    /\ matchOn = {}
    /\ updateBody = EmptyUpdate
    /\ matchFields = <<>>
    /\ matches = {}
    /\ cases = [c \in CaseId |-> CHOOSE s \in CaseState : TRUE]
    /\ before = cases
    /\ updated = 0

\* set(obj, path, v) on the update body: `customFields.<name>` is nested.
SetPath(u, key, v) ==
    IF key = "customFields.a" THEN [u EXCEPT !.custom = ("a" :> v) @@ @]
    ELSE [u EXCEPT !.top = (key :> v) @@ @]

\* Fault model: every entry of the customFields object kept for the update.
CustomEntryNotMatched(cols, name) == TRUE

\* fieldsToMatchOn.includes(`customFields.${customField}`) is false.
CustomEntryKept(cols, name) == ("customFields." \o name) \notin cols

\* One iteration of the for loop over Object.keys(body).
SplitEntry(cols, acc, e) ==
    IF e.key = "customFields"
    THEN LET kept == {n \in DOMAIN e.value : CustomEntryKept(cols, n)}
             taken == {n \in DOMAIN e.value : ~CustomEntryKept(cols, n)}
         IN  [u |-> [acc.u EXCEPT !.custom = [n \in kept |-> e.value[n]]],
              m |-> [f \in {"customFields." \o n : n \in taken} |->
                       e.value[CHOOSE n \in taken : f = "customFields." \o n]] @@ acc.m]
    ELSE IF e.key \in cols THEN [acc EXCEPT !.m = (e.key :> e.value) @@ @]
    ELSE [acc EXCEPT !.u = SetPath(@, e.key, e.value)]

\* execute() reads the body and the match columns and runs the loop.
Build ==
    /\ hstatus = "idle"
    /\ hstatus' = "built"
    /\ \E b \in BodyChoice, cols \in SUBSET MatchColumn, cs \in [CaseId -> CaseState] :
          LET r == FoldLeft(LAMBDA acc, e : SplitEntry(cols, acc, e), [u |-> EmptyUpdate, m |-> <<>>], b)
          IN  /\ body' = b
              /\ matchOn' = cols
              /\ updateBody' = r.u
              /\ matchFields' = r.m
              /\ cases' = cs
              /\ before' = cs
    /\ UNCHANGED <<matches, updated>>

\* The value of a match column on a case.
CaseField(st, f) == IF f = "title" THEN st.title ELSE st.custom["a"]

\* The server applies a PATCH: the fields given are set, the others kept.
ApplyUpdate(st, u) ==
    [title |-> IF "title" \in DOMAIN u.top THEN u.top["title"] ELSE st.title,
     custom |-> [n \in Custom |-> IF n \in DOMAIN u.custom THEN u.custom[n] ELSE st.custom[n]]]

\* The body sent as is (the id path): the same, read off its entries.
BodyAsUpdate(b) ==
    FoldLeft(LAMBDA u, e :
                 CASE e.key = "id" -> u
                   [] e.key = "customFields" -> [u EXCEPT !.custom = e.value @@ @]
                   [] OTHER -> SetPath(u, e.key, e.value),
             EmptyUpdate, b)

\* The id the body carries (`const { id } = body`), "undefined" without one.
BodyId(b) == IF \E j \in DOMAIN b : b[j].key = "id"
             THEN b[CHOOSE j \in DOMAIN b : b[j].key = "id"].value ELSE "undefined"

\* Matching on id: PATCH /v1/case/${id} with the whole body.
PatchById ==
    /\ hstatus = "built"
    /\ "id" \in matchOn
    /\ \/ /\ BodyId(body) \in CaseId
          /\ hstatus' = "done"
          /\ cases' = [cases EXCEPT ![BodyId(body)] = ApplyUpdate(@, BodyAsUpdate(body))]
          /\ updated' = 1
       \/ /\ hstatus' = "failed"   \* no such case, or the request fails
          /\ UNCHANGED <<cases, updated>>
    /\ UNCHANGED <<body, matchOn, updateBody, matchFields, matches, before>>

\* POST /v1/query with the filter _eq on every match column; an absent
\* value (undefined) matches no case.  No match throws.
Query ==
    /\ hstatus = "built"
    /\ "id" \notin matchOn
    /\ LET found == {c \in CaseId : \A f \in matchOn :
                        f \in DOMAIN matchFields /\ CaseField(cases[c], f) = matchFields[f]}
       IN  \/ /\ found # {}
              /\ hstatus' = "queried"
              /\ matches' = found
           \/ /\ hstatus' = "failed"   \* 'No matching alerts found', or the request fails
              /\ UNCHANGED matches
    /\ UNCHANGED <<body, matchOn, updateBody, matchFields, cases, before, updated>>

\* PATCH /v1/case/_bulk with updateBody and ids; updated = ids.length.
PatchBulk ==
    /\ hstatus = "queried"
    /\ \/ /\ hstatus' = "done"
          /\ cases' = [c \in CaseId |-> IF c \in matches THEN ApplyUpdate(cases[c], updateBody) ELSE cases[c]]
          /\ updated' = Cardinality(matches)
       \/ /\ hstatus' = "failed"
          /\ UNCHANGED <<cases, updated>>
    /\ UNCHANGED <<body, matchOn, updateBody, matchFields, matches, before>>

Ended ==
    /\ hstatus \in {"done", "failed"}
    /\ UNCHANGED vars

Next == Build \/ PatchById \/ Query \/ PatchBulk \/ Ended

Spec == Init /\ [][Next]_vars

-----------------------------------------------------------------------------
TypeOK ==
    /\ hstatus \in {"idle", "built", "queried", "done", "failed"}
    /\ body \in Seq(Entry)
    /\ matchOn \subseteq MatchColumn
    /\ matches \subseteq CaseId
    /\ cases \in [CaseId -> CaseState]
    /\ updated \in 0..Cardinality(CaseId)

(***************************************************************************)
(* Matching on fields other than id, the update reaches exactly the cases  *)
(* equal to the item on every match column and never changes a value used *)
(* for matching ("values used for matching should not be updated"), a     *)
(* custom field matched inside the customFields object included; the      *)
(* count returned is the number of cases updated.                          *)
(***************************************************************************)
UpdateLeavesMatchFields ==
    hstatus = "done" /\ "id" \notin matchOn =>
        /\ \A c \in CaseId \ matches : cases[c] = before[c]
        /\ \A c \in matches, f \in matchOn : CaseField(cases[c], f) = CaseField(before[c], f)
        /\ updated = Cardinality(matches)

====
