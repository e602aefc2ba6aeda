------------------------- MODULE CleanupRefinement -------------------------
(***************************************************************************)
(* CleanupExecution implements CleanupPromise: a report is what the        *)
(* receipt rebuilt from the journal says of the item.  The mapping speaks  *)
(* of a journal that parses.                                               *)
(***************************************************************************)
EXTENDS CleanupExecution

Reported(op, n) ==
  IF HasReceipt(journal, op) /\ n \in ReceiptNodes(journal, op)
  THEN ItemReport(journal, op, n)
  ELSE "absent"

MovedItems ==
  {<<trashed[i].op, trashed[i].node>> :
     i \in {j \in DOMAIN trashed : trashed[j].moved}}

Promise == INSTANCE CleanupPromise WITH
  report <- [x \in Commands \X Nodes |-> Reported(x[1], x[2])],
  moved <- MovedItems

\* Every step of every cleanup, retry, disconnect and crash is a step of the
\* promise, or changes nothing in it.  (execute_cleanup_record and
\* build_cleanup_receipts)
ImplementsPromise == Promise!Spec
=============================================================================
