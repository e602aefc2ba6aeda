--------------------------- MODULE CleanupPromise ---------------------------
(***************************************************************************)
(* What clean-disk-server promises about a cleanup, item by item: the user *)
(* can always learn what may have happened to a file.  An item is pending  *)
(* until it is announced; only an announced item is moved, once; only then *)
(* is an outcome reported, and it is the true one.  Nothing is ever        *)
(* reported back to an earlier state, whatever crashes in between.         *)
(***************************************************************************)
CONSTANTS Commands, Nodes

VARIABLES
  report,   \* what a receipt says of an item of a command
  moved     \* the items that were really moved to the trash

Items == Commands \X Nodes

Reports == {"absent", "pending", "unknown_requires_review", "moved_to_trash",
            "failed", "blocked"}

Init ==
  /\ report = [x \in Items |-> "absent"]
  /\ moved = {}

Says(x, from, to) ==
  /\ report[x] = from
  /\ report' = [report EXCEPT ![x] = to]

\* A command is admitted with all its items at once.
Admit(op) ==
  /\ \A n \in Nodes : report[<<op, n>>] = "absent"
  /\ \E nodes \in SUBSET Nodes :
       report' = [x \in Items |-> IF x[1] = op /\ x[2] \in nodes
                                 THEN "pending" ELSE report[x]]
  /\ UNCHANGED moved

Announce(x) == Says(x, "pending", "unknown_requires_review") /\ UNCHANGED moved

Refuse(x) == Says(x, "pending", "blocked") /\ UNCHANGED moved

Move(x) ==
  /\ report[x] = "unknown_requires_review"
  /\ x \notin moved
  /\ moved' = moved \cup {x}
  /\ UNCHANGED report

Conclude(x) ==
  /\ Says(x, "unknown_requires_review",
             IF x \in moved THEN "moved_to_trash" ELSE "failed")
  /\ UNCHANGED moved

Open(x) == report[x] \in {"pending", "unknown_requires_review"}

Next ==
  \/ \E op \in Commands : Admit(op)
  \/ \E x \in Items :
       Open(x) /\ (Announce(x) \/ Refuse(x) \/ Move(x) \/ Conclude(x))

Spec == Init /\ [][Next]_<<report, moved>>
=============================================================================
