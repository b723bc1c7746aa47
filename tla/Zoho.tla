-------------------------------- MODULE Zoho --------------------------------
(***************************************************************************)
(* The listing helpers of the Zoho CRM node (packages/nodes-base/nodes/    *)
(* Zoho/GenericFunctions.ts): handleListing calls zohoApiRequestAllItems,  *)
(* which requests page after page through zohoApiRequest and concatenates  *)
(* their `data` while `info.more_records` is true, and then either returns *)
(* everything or the first `limit` records.                                *)
(*                                                                         *)
(* zohoApiRequest sends to `uri ?? <api_domain>/crm/v2<endpoint>`; the loop *)
(* sets `uri = responseData.info.more_records`, a boolean, so every request *)
(* after the first one is sent to the URI `true`, which the request library *)
(* rejects as invalid.  The server is outside the repository: a request to *)
(* the endpoint either fails (NodeApiError) or answers with the first page *)
(* of the listing (the loop starts at qs.page = 0; Zoho's pages count from *)
(* 1), or with no body when the module holds no records.                   *)
(***************************************************************************)
EXTENDS Naturals, Sequences, SequencesExt

CONSTANTS
    Listings,    \* the listings the server may hold: sequences of pages of records
    MaxLimit     \* largest `limit` parameter tried

VARIABLES
    zstatus,     \* "idle" | "requesting" | "returned" | "thrown"
    returnAll,   \* the returnAll parameter
    limit,       \* the limit parameter
    pages,       \* the server's listing for the endpoint
    uri,         \* the loop's `uri`: "undefined", or the boolean more_records
    page,        \* qs.page
    returnData,  \* records collected so far
    result,      \* what handleListing returned
    apiFailed    \* history: a request to the endpoint failed or answered an error

vars == <<zstatus, returnAll, limit, pages, uri, page, returnData, result, apiFailed>>

Records == UNION {Range(FlattenSeq(l)) : l \in Listings}

Init ==
    /\ zstatus = "idle"
    /\ returnAll = FALSE
    /\ limit = 0
    /\ pages = <<>>
    /\ uri = "undefined"
    /\ page = 0
    /\ returnData = <<>>
    /\ result = <<>>
    /\ apiFailed = FALSE

\* handleListing reads returnAll; zohoApiRequestAllItems sets per_page = 200
\* and page = 0 before its first request.
Start ==
    /\ zstatus = "idle"
    /\ zstatus' = "requesting"
    /\ \E ra \in BOOLEAN, lim \in 1..MaxLimit, l \in Listings :
          /\ returnAll' = ra
          /\ limit' = lim
          /\ pages' = l
    /\ UNCHANGED <<uri, page, returnData, result, apiFailed>>

\* Fault model: the limit is not applied.
ListingResultWithoutLimit(data) == data

\* handleListing: everything, or returnData.slice(0, limit).
ListingResult(data) ==
    IF returnAll THEN data ELSE SubSeq(data, 1, IF limit < Len(data) THEN limit ELSE Len(data))

\* Fault model: returnData.push(responseData.data), the page as one item.
PushWithoutSpread(acc, data) == Append(acc, data)

\* returnData.push(...responseData.data)
PushAll(acc, data) == acc \o data

\* One iteration of the do-while loop: the request, the empty-answer return,
\* the push of `data`, `uri = more_records`, `page++` and the loop condition.
Request ==
    /\ zstatus = "requesting"
    /\ \/ \* the request fails, or the answer has data[0].status = 'error':
          \* NodeApiError
          /\ uri = "undefined"
          /\ zstatus' = "thrown"
          /\ apiFailed' = TRUE
          /\ UNCHANGED <<uri, page, returnData, result>>
       \/ \* the request library rejects the URI `true`: NodeApiError
          /\ uri = "true"
          /\ zstatus' = "thrown"
          /\ UNCHANGED <<uri, page, returnData, result, apiFailed>>
       \/ \* no body: zohoApiRequest returns [] and the loop returns returnData
          /\ uri = "undefined"
          /\ pages = <<>>
          /\ zstatus' = "returned"
          /\ result' = ListingResult(returnData)
          /\ UNCHANGED <<uri, page, returnData, apiFailed>>
       \/ \* the first page, and whether more records follow it
          /\ uri = "undefined"
          /\ pages # <<>>
          /\ LET more == Len(pages) > 1
                 data == PushAll(returnData, Head(pages))
             IN  /\ returnData' = data
                 /\ uri' = IF more THEN "true" ELSE "false"
                 /\ page' = page + 1
                 /\ IF more
                      THEN UNCHANGED <<zstatus, result>>
                      ELSE zstatus' = "returned" /\ result' = ListingResult(data)
                 /\ UNCHANGED apiFailed
    /\ UNCHANGED <<returnAll, limit, pages>>

\* The listing is over; the node goes on with its other items.
Returned ==
    /\ zstatus \in {"returned", "thrown"}
    /\ UNCHANGED vars

Next == Start \/ Request \/ Returned

Spec == Init /\ [][Next]_vars

-----------------------------------------------------------------------------
TypeOK ==
    /\ zstatus \in {"idle", "requesting", "returned", "thrown"}
    /\ returnAll \in BOOLEAN
    /\ limit \in 0..MaxLimit
    /\ pages \in Listings \cup {<<>>}
    /\ uri \in {"undefined", "true", "false"}
    /\ page \in Nat
    /\ returnData \in Seq(Records)
    /\ result \in Seq(Records)
    /\ apiFailed \in BOOLEAN

(***************************************************************************)
(* A listing that handleListing returns is never silently short: with      *)
(* returnAll it holds every record of every page in the server's order,    *)
(* otherwise exactly the first `limit` of them (or all, if fewer).         *)
(***************************************************************************)
ReturnedListingIsComplete ==
    zstatus = "returned" =>
        LET all == FlattenSeq(pages)
        IN  result = IF returnAll THEN all
                     ELSE SubSeq(all, 1, IF limit < Len(all) THEN limit ELSE Len(all))

(***************************************************************************)
(* The doc comment of zohoApiRequestAllItems: it makes the requests "and   *)
(* return[s] all items".  A listing ends in NodeApiError only when a       *)
(* request to Zoho failed or Zoho answered an error, never because of how  *)
(* the loop asks for the next page.                                        *)
(***************************************************************************)
ListingFailsOnlyOnApiError == zstatus = "thrown" => apiFailed

=============================================================================
