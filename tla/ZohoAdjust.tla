----------------------------- MODULE ZohoAdjust -----------------------------
(***************************************************************************)
(* The payload adjusters of the Zoho CRM node (packages/nodes-base/nodes/  *)
(* Zoho/GenericFunctions.ts).  Each resource's adjuster is a lodash flow   *)
(* of field adjusters applied to the node's fields:                        *)
(*   - a location adjuster replaces a location field (Billing_Address ...) *)
(*     by its address_fields, spread at the top level after the others;   *)
(*   - a date adjuster cuts the datepicker's time off a date field, in     *)
(*     place, on the object it is given;                                   *)
(*   - an id adjuster replaces an id field (accountId ...) by a field of   *)
(*     its name property (Account_Name ...) holding { id }.                *)
(* An adjuster whose field is absent or falsy returns its argument.        *)
(* adjustProductDetails nests each product's id and defaults its quantity. *)
(*                                                                         *)
(* Field values are symbols: "" is falsy; a date is "d", or "dT" with the *)
(* time; an id is "i1"; a location field is "loc" (no address_fields) or  *)
(* "loc1" / "loc2", whose address_fields hold a Street of value a1 / a2.   *)
(***************************************************************************)
EXTENDS Naturals, Sequences, SequencesExt, FiniteSets

LocationType == {"Address", "Billing_Address", "Mailing_Address", "Shipping_Address", "Other_Address"}
DateType == {"Date_of_Birth", "Closing_Date", "Invoice_Date", "Due_Date", "PO_Date", "Valid_Till"}
NameOf == [accountId |-> "Account_Name", contactId |-> "Full_Name", dealId |-> "Deal_Name"]
IdType == DOMAIN NameOf

\* A field adjuster of a flow.
Loc(t) == [kind |-> "location", field |-> t]
Date(t) == [kind |-> "date", field |-> t]
Id(t) == [kind |-> "id", field |-> t]

\* The payload adjusters, resource by resource.
Adjusters ==
    [account |-> <<Loc("Billing_Address"), Loc("Shipping_Address")>>,
     contact |-> <<Loc("Mailing_Address"), Loc("Other_Address"), Date("Date_of_Birth")>>,
     deal |-> <<Date("Closing_Date")>>,
     invoice |-> <<Loc("Billing_Address"), Loc("Shipping_Address"), Date("Invoice_Date"),
                   Date("Due_Date"), Id("accountId")>>,
     lead |-> <<Loc("Address")>>,
     purchaseOrder |-> <<Loc("Billing_Address"), Loc("Shipping_Address"), Date("Due_Date"),
                         Date("PO_Date")>>,
     quote |-> <<Loc("Billing_Address"), Loc("Shipping_Address"), Date("Valid_Till")>>,
     salesOrder |-> <<Loc("Billing_Address"), Loc("Shipping_Address"), Date("Due_Date"),
                      Id("accountId"), Id("contactId"), Id("dealId")>>,
     vendor |-> <<Loc("Address")>>]

Resource == DOMAIN Adjusters

\* locationField.address_fields
AddressFields(v) ==
    CASE v = "loc1" -> [Street |-> "a1"]
      [] v = "loc2" -> [Street |-> "a2"]
      [] OTHER -> <<>>

\* dateField.split('T')[0]
Cut(v) == IF v = "dT" THEN "d" ELSE v

\* { id: idValue }
Nested(v) == "id:" \o v

\* The values a field of the resource's payload may hold.
Values(k) ==
    CASE k \in LocationType -> {"", "loc", "loc1", "loc2"}
      [] k \in DateType -> {"", "d", "dT"}
      [] k \in IdType -> {"", "i1"}
      [] OTHER -> {"v1"}

\* The fields a payload of resource r may have: its adjusters' fields, the
\* name properties of its ids and a Street the user set at the top level.
FieldsOf(r) ==
    {Adjusters[r][j].field : j \in DOMAIN Adjusters[r]}
    \cup {NameOf[Adjusters[r][j].field] : j \in {j \in DOMAIN Adjusters[r] : Adjusters[r][j].kind = "id"}}
    \cup {"Street"}

\* Every payload over a set of fields, each field absent or one of its values.
RECURSIVE PayloadsOver(_)
PayloadsOver(S) ==
    IF S = {} THEN {<<>>}
    ELSE LET k == CHOOSE k \in S : TRUE
         IN  PayloadsOver(S \ {k}) \cup {(k :> v) @@ p : p \in PayloadsOver(S \ {k}), v \in Values(k)}

Present(p, k) == k \in DOMAIN p /\ p[k] # ""

VARIABLES
    zaStatus,   \* "idle" | "adjusted"
    resource,   \* the resource whose adjuster runs
    fields,     \* the fields the node passed in, as they are after the call
    input,      \* the fields as they were before the call
    payload,    \* the adjusted payload returned
    products,   \* the product details passed to adjustProductDetails
    lineItems   \* what it returned

vars == <<zaStatus, resource, fields, input, payload, products, lineItems>>

\* A product detail: its product id and the quantity, if the user set one.
ProductDetail == [id: {"p1", "p2"}, quantitySet: BOOLEAN, quantity: 0..2]

Init ==
    /\ zaStatus = "idle"
    /\ resource = "lead"
    /\ fields = <<>>
    /\ input = <<>>
    /\ payload = <<>>
    /\ products = <<>>
    /\ lineItems = <<>>

\* The fields without the one named: omit(k, allFields), a new object.
Omit(k, p) == [f \in DOMAIN p \ {k} |-> p[f]]

\* Fault model: the address fields spread before the other fields.
SpreadAddressFirst(t, p) == Omit(t, p) @@ AddressFields(p[t])

\* adjustLocationFields: { ...omit(locationType, allFields), ...address_fields }
AdjustLocationFields(t, p) == AddressFields(p[t]) @@ Omit(t, p)

\* adjustIdField: { ...omit(idType, allFields), [nameProperty]: { id } }
AdjustIdField(t, p) == (NameOf[t] :> Nested(p[t])) @@ Omit(t, p)

(***************************************************************************)
(* One field adjuster of the flow on st = [obj, fresh, caller]: obj is the *)
(* object it receives, fresh whether an earlier adjuster made obj a new   *)
(* object, caller the caller's object.  A date adjuster assigns into obj, *)
(* so while obj is not fresh it changes the caller's object too.          *)
(***************************************************************************)
Step(a, st) ==
    LET t == a.field
        p == st.obj
    IN  CASE ~Present(p, t) -> st
          [] a.kind = "location" -> [st EXCEPT !.obj = AdjustLocationFields(t, p), !.fresh = TRUE]
          [] a.kind = "id" -> [st EXCEPT !.obj = AdjustIdField(t, p), !.fresh = TRUE]
          [] OTHER -> LET o == [p EXCEPT ![t] = Cut(p[t])]
                      IN  [st EXCEPT !.obj = o, !.caller = IF st.fresh THEN @ ELSE o]

\* flow(...adjusters)(allFields)
Flow(r, p) == FoldLeft(LAMBDA st, a : Step(a, st), [obj |-> p, fresh |-> FALSE, caller |-> p], Adjusters[r])

\* The node calls the payload adjuster of a resource on its fields.
Adjust ==
    /\ zaStatus = "idle"
    /\ zaStatus' = "adjusted"
    /\ \E r \in Resource :
          \E p \in PayloadsOver(FieldsOf(r)) :
             LET out == Flow(r, p)
             IN  /\ resource' = r
                 /\ input' = p
                 /\ payload' = out.obj
                 /\ fields' = out.caller
    /\ UNCHANGED <<products, lineItems>>

\* adjustProductDetails: { ...omit('product', p), product: { id: p.id },
\* quantity: p.quantity || 1 } for each product detail.
AdjustProductDetails(ps) ==
    [j \in DOMAIN ps |-> [id |-> ps[j].id, product |-> ps[j].id,
                          quantity |-> IF ps[j].quantitySet /\ ps[j].quantity # 0
                                       THEN ps[j].quantity ELSE 1]]

\* The node adjusts the product details of an invoice or order.
AdjustProducts ==
    /\ zaStatus = "idle"
    /\ zaStatus' = "adjusted"
    /\ \E n \in 1..2, d \in [1..2 -> ProductDetail] :
          /\ products' = [j \in 1..n |-> d[j]]
          /\ lineItems' = AdjustProductDetails([j \in 1..n |-> d[j]])
    /\ UNCHANGED <<resource, fields, input, payload>>

Adjusted ==
    /\ zaStatus = "adjusted"
    /\ UNCHANGED vars

Next == Adjust \/ AdjustProducts \/ Adjusted

Spec == Init /\ [][Next]_vars

-----------------------------------------------------------------------------
TypeOK ==
    /\ zaStatus \in {"idle", "adjusted"}
    /\ resource \in Resource
    /\ products \in Seq(ProductDetail)
    /\ \A j \in DOMAIN lineItems : lineItems[j].quantity \in 1..2

\* The position of a field's adjuster in the resource's flow.
Position(r, t) == CHOOSE j \in DOMAIN Adjusters[r] : Adjusters[r][j].field = t

\* The payload the adjusters promise, field by field: the consumed location
\* and id fields gone, the Street of the last location adjuster in the flow
\* that has one, ids nested under their name property, dates without time.
Expected(r, p) ==
    LET own(kind) == {Adjusters[r][j].field : j \in {j \in DOMAIN Adjusters[r] : Adjusters[r][j].kind = kind}}
        locs == {t \in own("location") : Present(p, t)}
        ids == {t \in own("id") : Present(p, t)}
        streets == {t \in locs : "Street" \in DOMAIN AddressFields(p[t])}
        last == CHOOSE t \in streets : \A u \in streets : Position(r, u) <= Position(r, t)
        names == {NameOf[t] : t \in ids}
    IN  [k \in (DOMAIN p \ (locs \cup ids)) \cup names \cup (IF streets = {} THEN {} ELSE {"Street"}) |->
           CASE k \in names -> Nested(p[CHOOSE t \in ids : NameOf[t] = k])
             [] k = "Street" /\ streets # {} -> AddressFields(p[last]).Street
             [] k \in own("date") -> Cut(p[k])
             [] OTHER -> p[k]]

(***************************************************************************)
(* The adjusted payload is what the resource's adjusters promise together, *)
(* whatever fields are set: a location's address fields win over a field   *)
(* of the same name the user set, and over those of an earlier location in *)
(* the flow; nothing else the user set is lost or changed.                 *)
(***************************************************************************)
AdjustedPayloadMatches ==
    zaStatus = "adjusted" => payload = Expected(resource, input)

====
