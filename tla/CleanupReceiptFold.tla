------------------------- MODULE CleanupReceiptFold -------------------------
(***************************************************************************)
(* build_cleanup_receipts, record by record: a fold over the journal with  *)
(* one accumulator per operation.  The other modules describe the receipts *)
(* without the fold (ReceiptFor in CleanupJournal); this module compares   *)
(* the two on every journal that cleanups write.                           *)
(***************************************************************************)
EXTENDS CleanupRefinement

Accumulator(state, nodes) ==
  [state |-> state, items |-> [n \in nodes |-> "pending"]]

NoReceipts == [op \in {} |-> {}]

Known(receipts, op) == op \in DOMAIN receipts

Put(receipts, op, receipt) ==
  [c \in DOMAIN receipts \cup {op} |-> IF c = op THEN receipt ELSE receipts[c]]

WithItem(receipt, node, state) ==
  IF node \in DOMAIN receipt.items
  THEN [receipt EXCEPT !.items[node] = state]
  ELSE receipt

\* An intent opens a receipt once; a skeleton replaces what there was; the
\* other records change a receipt that exists and are ignored otherwise.
Absorb(receipts, record) ==
  LET op == record.op
  IN CASE record.kind = "intent" /\ ~Known(receipts, op) ->
            Put(receipts, op, Accumulator("intent_recorded", record.nodes))
       [] record.kind = "skeleton" ->
            Put(receipts, op, Accumulator("receipt_skeleton_recorded",
                                          record.nodes))
       [] record.kind = "dispatch" /\ Known(receipts, op) ->
            Put(receipts, op, [WithItem(receipts[op], record.node,
                                        "dispatch_recorded")
                                 EXCEPT !.state = "running"])
       [] record.kind = "outcome" /\ Known(receipts, op) ->
            Put(receipts, op, WithItem(receipts[op], record.node,
                                       record.state))
       [] record.kind = "finalized" /\ Known(receipts, op) ->
            Put(receipts, op, [receipts[op] EXCEPT !.state = record.state])
       [] OTHER -> receipts

\* Mutant: only the state of the receipt is reviewed, not its items.
ReviewedByState(receipt) ==
  LET unknown == \E n \in DOMAIN receipt.items :
                   receipt.items[n] = "dispatch_recorded"
  IN IF receipt.state \notin OpenStates THEN receipt
     ELSE [receipt EXCEPT
             !.state = IF unknown THEN "completed_with_unknowns"
                                  ELSE "interrupted_requires_review"]

\* A receipt that was never finalized is reported as interrupted: what was
\* dispatched without an outcome is unknown.
Reviewed(receipt) ==
  LET items == [n \in DOMAIN receipt.items |->
                  IF receipt.items[n] = "dispatch_recorded"
                  THEN "unknown_requires_review" ELSE receipt.items[n]]
      unknown == \E n \in DOMAIN items : items[n] = "unknown_requires_review"
  IN IF receipt.state \notin OpenStates THEN receipt
     ELSE [receipt EXCEPT
             !.items = items,
             !.state = IF unknown THEN "completed_with_unknowns"
                                  ELSE "interrupted_requires_review"]

\* build_cleanup_receipts
BuildReceipts(records) ==
  LET built == FoldLeft(Absorb, NoReceipts, records)
  IN [op \in DOMAIN built |-> Reviewed(built[op])]

-----------------------------------------------------------------------------
\* The fold and the description of receipts the other modules use agree on
\* every journal that parses: the operations that have a receipt, its state
\* and the state of each item, at every moment of every cleanup, with failed
\* appends and after a crash.  (build_cleanup_receipts)
FoldAgrees ==
  Readable(journal) =>
    LET built == BuildReceipts(journal)
    IN /\ DOMAIN built = {op \in Commands : HasReceipt(journal, op)}
       /\ \A op \in DOMAIN built : built[op] = ReceiptFor(journal, op)
=============================================================================
