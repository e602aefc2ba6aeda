--------------------------- MODULE CleanupJournal ---------------------------
(***************************************************************************)
(* The append-only cleanup journal of clean-disk-server: the records a     *)
(* cleanup writes to it, what one append can leave in the file, and the    *)
(* receipts that are rebuilt from the file whenever one is asked for.      *)
(*                                                                         *)
(* A journal is a sequence of lines.  A line is a record or Torn, a line   *)
(* that does not parse.  The operation id of a record is always the        *)
(* command id of the request that executes the cleanup, so one field "op"  *)
(* stands for both.                                                        *)
(***************************************************************************)
EXTENDS Naturals, Sequences, FiniteSetsExt

CONSTANTS
  Commands,   \* command ids of execute requests
  Nodes       \* snapshot nodes a cleanup plan can name; a node is its path

ItemStates == {"pending", "dispatch_recorded", "moved_to_trash", "failed",
               "blocked", "unknown_requires_review"}

FinalStates == {"completed", "completed_with_failures",
                "completed_with_unknowns"}

OpenStates == {"intent_recorded", "receipt_skeleton_recorded", "running"}

IntentRecord == [kind : {"intent"}, op : Commands, nodes : SUBSET Nodes]
SkeletonRecord == [kind : {"skeleton"}, op : Commands, nodes : SUBSET Nodes]
DispatchRecord == [kind : {"dispatch"}, op : Commands, node : Nodes]
OutcomeRecord == [kind : {"outcome"}, op : Commands, node : Nodes,
                  state : {"moved_to_trash", "failed", "blocked"}]
FinalizedRecord == [kind : {"finalized"}, op : Commands, state : FinalStates]

Records == IntentRecord \cup SkeletonRecord \cup DispatchRecord
             \cup OutcomeRecord \cup FinalizedRecord

Torn == [kind |-> "torn"]

Lines == Records \cup {Torn}

-----------------------------------------------------------------------------
(* Appending.  FileCleanupJournal::append opens the file for appending,     *)
(* serialises the record straight into it, writes the newline and syncs.    *)
(* Each of these can fail and stop there:                                   *)
(*   "refused"       nothing reached the file                               *)
(*   "torn"          a part of the record did                               *)
(*   "unterminated"  the record did, without its newline                    *)
(*   "unsynced"      the whole line did, and only the sync reported an error*)
(* "ended" says whether the last line of the file has its newline.          *)

FaultKinds == {"refused", "torn", "unterminated", "unsynced"}

\* What is written next starts a line of its own, or lengthens the last line
\* when that has no newline yet; the longer line no longer parses.
Written(lines, ended, line) ==
  IF ended THEN Append(lines, line)
           ELSE [lines EXCEPT ![Len(lines)] = Torn]

FaultyAppend(lines, ended, record, fault) ==
  CASE fault = "refused" ->
         [lines |-> lines, ended |-> ended, ok |-> FALSE]
    [] fault = "torn" ->
         [lines |-> Written(lines, ended, Torn), ended |-> FALSE, ok |-> FALSE]
    [] fault = "unterminated" ->
         [lines |-> Written(lines, ended, record), ended |-> FALSE,
          ok |-> FALSE]
    [] fault = "unsynced" ->
         [lines |-> Written(lines, ended, record), ended |-> TRUE,
          ok |-> FALSE]

GoodAppend(lines, ended, record) ==
  [lines |-> Written(lines, ended, record), ended |-> TRUE, ok |-> TRUE]

\* FileCleanupJournal::records fails as a whole on the first line that does
\* not parse.
Readable(lines) == \A i \in DOMAIN lines : lines[i] # Torn

-----------------------------------------------------------------------------
(* Receipts.  build_cleanup_receipts folds the records of a file into one   *)
(* receipt per operation (module CleanupReceiptFold).  What comes out can   *)
(* be said without the fold, and is said so here: the last skeleton of an   *)
(* operation, or else its first intent, opens its receipt; of the records   *)
(* after that the last one about an item, or about the receipt, counts.     *)

LinesOf(lines, op, kinds) ==
  {i \in DOMAIN lines : lines[i].kind \in kinds /\ lines[i].op = op}

Opening(lines, op) ==
  LET skeletons == LinesOf(lines, op, {"skeleton"})
  IN IF skeletons # {} THEN Max(skeletons)
                       ELSE Min(LinesOf(lines, op, {"intent"}))

HasReceipt(lines, op) == LinesOf(lines, op, {"intent", "skeleton"}) # {}

\* The records that changed the receipt since it was opened.
Changes(lines, op, kinds) ==
  LET opening == Opening(lines, op)
  IN {i \in LinesOf(lines, op, kinds) : i > opening}

\* Mutant: a dispatch marker does not change the item.
ItemStateWithoutMarkers(lines, op, node) ==
  LET changes == {i \in Changes(lines, op, {"outcome"}) :
                    lines[i].node = node}
  IN IF changes = {} THEN "pending" ELSE lines[Max(changes)].state

ItemState(lines, op, node) ==
  LET changes == {i \in Changes(lines, op, {"dispatch", "outcome"}) :
                    lines[i].node = node}
      last == lines[Max(changes)]
  IN IF changes = {} THEN "pending"
     ELSE IF last.kind = "dispatch" THEN "dispatch_recorded" ELSE last.state

OpeningState == [intent |-> "intent_recorded",
                 skeleton |-> "receipt_skeleton_recorded"]

OperationState(lines, op) ==
  LET changes == Changes(lines, op, {"dispatch", "finalized"})
      last == lines[Max(changes)]
  IN IF changes = {} THEN OpeningState[lines[Opening(lines, op)].kind]
     ELSE IF last.kind = "dispatch" THEN "running" ELSE last.state

\* What a receipt says of an item.  A receipt that was never finalized is
\* reported as interrupted: what was dispatched without an outcome is unknown.
ItemReport(lines, op, node) ==
  LET state == ItemState(lines, op, node)
  IN IF state = "dispatch_recorded" /\ OperationState(lines, op) \in OpenStates
     THEN "unknown_requires_review" ELSE state

ReceiptNodes(lines, op) == lines[Opening(lines, op)].nodes

ReceiptState(lines, op) ==
  IF OperationState(lines, op) \notin OpenStates THEN OperationState(lines, op)
  ELSE IF \E n \in ReceiptNodes(lines, op) :
            ItemReport(lines, op, n) = "unknown_requires_review"
  THEN "completed_with_unknowns" ELSE "interrupted_requires_review"

\* FileCleanupJournal::receipt_for_command
ReceiptFor(lines, op) ==
  [state |-> ReceiptState(lines, op),
   items |-> [n \in ReceiptNodes(lines, op) |-> ItemReport(lines, op, n)]]

\* Mutant: only operations with unknown items are listed.
InboxOfUnknowns(lines) ==
  {op \in Commands : HasReceipt(lines, op)
                       /\ ReceiptState(lines, op) = "completed_with_unknowns"}

\* FileCleanupJournal::recovery_inbox
RecoveryInbox(lines) ==
  {op \in Commands : HasReceipt(lines, op) /\ ReceiptState(lines, op) \in
     {"interrupted_requires_review", "completed_with_unknowns"}}

\* Mutant: the state of the unfinished receipt is taken for final.
FinalStateOfReceipt(receipt) == receipt.state

\* cleanup_final_state
FinalState(receipt) ==
  LET has(states) == \E n \in DOMAIN receipt.items : receipt.items[n] \in states
  IN IF has({"unknown_requires_review"}) THEN "completed_with_unknowns"
     ELSE IF has({"blocked", "failed"}) THEN "completed_with_failures"
     ELSE "completed"
=============================================================================
