---------------------------- MODULE FunctionItem ----------------------------
(***************************************************************************)
(* execute() of the Function Item node (packages/nodes-base/nodes/         *)
(* FunctionItem/FunctionItem.node.ts).  For each input item in turn it     *)
(* copies the item, runs the user's code in a NodeVM with the copy's json  *)
(* as `item` and binary accessors on the copy, and pushes the returned     *)
(* object (cleaned up) with pairedItem and the copy's binary.  An error of *)
(* the code, or code that returns undefined, is pushed as an error item    *)
(* when continueOnFail is set, and rejects the execution otherwise.        *)
(*                                                                         *)
(* The user's code is outside the repository: per item it returns an      *)
(* object, returns undefined or throws, and may await setBinaryDataAsync   *)
(* with new binary data.  One action is one iteration of the loop.         *)
(***************************************************************************)
EXTENDS Naturals, Sequences

CONSTANTS
    MaxItems,    \* input items 1..MaxItems
    Binary,      \* binary data values
    NoBinary     \* an item without binary data

Outcome == {"object", "undefined", "throws"}

\* An input item: its binary, and what the code does when run on it.
ItemInput == [binary: Binary \cup {NoBinary}, outcome: Outcome,
              setBinary: Binary \cup {"keep"}]

\* An output item: data returned by the code or an error item, the input
\* index in pairedItem (0 when it has none), and its binary.
OutputItem == [kind: {"data", "error"}, paired: 0..MaxItems,
               binary: Binary \cup {NoBinary}]

VARIABLES
    fstatus,       \* "idle" | "running" | "done" | "rejected"
    items,         \* the input items
    continueOnFail,
    itemIndex,     \* the loop index (1-based)
    returnData     \* the output items pushed so far

vars == <<fstatus, items, continueOnFail, itemIndex, returnData>>

Init ==
    /\ fstatus = "idle"
    /\ items = <<>>
    /\ continueOnFail = FALSE
    /\ itemIndex = 1
    /\ returnData = <<>>

\* execute() is called with the node's input items.
Start ==
    /\ fstatus = "idle"
    /\ fstatus' = "running"
    /\ \E n \in 1..MaxItems, in \in [1..MaxItems -> ItemInput], c \in BOOLEAN :
          /\ items' = [i \in 1..n |-> in[i]]
          /\ continueOnFail' = c
    /\ UNCHANGED <<itemIndex, returnData>>

\* The copy's binary after the code ran: setBinaryDataAsync replaced it.
CopyBinary(it) == IF it.setBinary = "keep" THEN it.binary ELSE it.setBinary

\* Fault model: the binary of the input item instead of the copy's.
ReturnItemOfInputBinary(i) ==
    [kind |-> "data", paired |-> i, binary |-> items[i].binary]

\* The successful end of an iteration: the cleaned returned object with
\* pairedItem {item: itemIndex} and the copy's binary, if it has one.
ReturnItem(i) ==
    [kind |-> "data", paired |-> i, binary |-> CopyBinary(items[i])]

\* The error item of the outer catch, paired with the item.
PairedErrorItem(i) == [kind |-> "error", paired |-> i, binary |-> NoBinary]

\* The error item of the catch around vm.run: it has no pairedItem.
CodeErrorItem == [kind |-> "error", paired |-> 0, binary |-> NoBinary]

Push(o) ==
    /\ returnData' = Append(returnData, o)
    /\ itemIndex' = itemIndex + 1
    /\ UNCHANGED fstatus

\* Reject the execution: error.message gets the item index (or, when the
\* stack has no FunctionItem line, the stack parsing throws a TypeError).
Reject ==
    /\ fstatus' = "rejected"
    /\ UNCHANGED <<itemIndex, returnData>>

\* One iteration of the for loop over the items.
RunItem ==
    /\ fstatus = "running"
    /\ itemIndex <= Len(items)
    /\ LET it == items[itemIndex] IN
       \/ /\ it.outcome = "object"
          /\ Push(ReturnItem(itemIndex))
       \/ /\ it.outcome = "throws"
          /\ IF continueOnFail THEN Push(CodeErrorItem) ELSE Reject
       \/ /\ it.outcome = "undefined"   \* 'No data got returned.'
          /\ IF continueOnFail THEN Push(PairedErrorItem(itemIndex)) ELSE Reject
    /\ UNCHANGED <<items, continueOnFail>>

\* The loop is over: prepareOutputData(returnData).
Finish ==
    /\ fstatus = "running"
    /\ itemIndex > Len(items)
    /\ fstatus' = "done"
    /\ UNCHANGED <<items, continueOnFail, itemIndex, returnData>>

Ended ==
    /\ fstatus \in {"done", "rejected"}
    /\ UNCHANGED vars

Next == Start \/ RunItem \/ Finish \/ Ended

Spec == Init /\ [][Next]_vars

-----------------------------------------------------------------------------
TypeOK ==
    /\ fstatus \in {"idle", "running", "done", "rejected"}
    /\ items \in Seq(ItemInput) /\ Len(items) <= MaxItems
    /\ continueOnFail \in BOOLEAN
    /\ itemIndex \in 1..MaxItems + 1
    /\ returnData \in Seq(OutputItem)

(***************************************************************************)
(* The output of a finished execution follows its input item by item: the *)
(* k-th output item is the k-th input's result, an error item exactly when *)
(* that input's code failed or returned nothing, and a data item paired    *)
(* with input k that carries the binary the code left on its copy.         *)
(***************************************************************************)
OutputFollowsInput ==
    fstatus = "done" =>
        /\ Len(returnData) = Len(items)
        /\ \A k \in 1..Len(items) :
              /\ (returnData[k].kind = "error") <=> (items[k].outcome # "object")
              /\ returnData[k].kind = "data" =>
                    /\ returnData[k].paired = k
                    /\ returnData[k].binary = CopyBinary(items[k])

=============================================================================
