--------------------------- MODULE IndexedDbProbes ---------------------------
(***************************************************************************)
(* How workers find out whether the browser has IndexedDB, and whether a   *)
(* database is in it.  For the first they open a database that is there    *)
(* for nothing else, and delete it; for the second they ask for the list   *)
(* of databases, or, in a browser without it, open the database and give   *)
(* up the upgrade that a new one begins with.                              *)
(*                                                                         *)
(* A tab may open and close the database meanwhile, and another may delete *)
(* it.  IndexedDB is external: it takes the requests for a database in     *)
(* order, and deletes one only when nobody has it open.                    *)
(***************************************************************************)
EXTENDS Naturals, Sequences, SequencesExt

CONSTANTS
  Probers,      \* the workers that check
  Listing       \* those whose browser can list its databases

ASSUME ProbesAssumption == Listing \subseteq Probers /\ {"tab", "remover"} \cap Probers = {}

VARIABLES
  store,        \* of a database: "absent", "upgrading" or "present"
  requests,     \* the requests for it, in order
  users,        \* who has it open
  progress,     \* of a worker: what it does next
  found,        \* of a worker: what it has found
  seen,         \* of a worker: whether the database was there, or not, meanwhile
  visit,        \* of the tab: "none", "opening", "open", "closed"
  removal,      \* of the other: "none", "asked", "blocked" or "done"
  made          \* whether the tab has made the database, and nobody deleted it

probeStates == <<store, requests, users, progress, found, visit, removal, made>>
probesVars == <<probeStates, seen>>

-----------------------------------------------------------------------------
Names == {"mock", "database"}
Actors == Probers \cup {"tab", "remover"}
Request(by, kind) == [by |-> by, kind |-> kind]

ProbesInit ==
  /\ store = [n \in Names |-> "absent"]
  /\ requests = [n \in Names |-> <<>>]
  /\ users = [n \in Names |-> {}]
  /\ progress = [w \in Probers |-> "idle"]
  /\ found = [w \in Probers |-> "nothing"]
  /\ seen = [w \in Probers |-> {}]
  /\ visit = "none" /\ removal = "none" /\ made = FALSE

AsksFor(n, request) == requests' = [requests EXCEPT ![n] = Append(@, request)]
Goes(w, pc) == progress' = [progress EXCEPT ![w] = pc]
Answers(w, is) ==
  /\ Goes(w, "done")
  /\ found' = [found EXCEPT ![w] = IF is THEN "there" ELSE "not there"]

-----------------------------------------------------------------------------
(* IndexedDB *)

Served(n) == requests' = [requests EXCEPT ![n] = Tail(@)]

\* What the success of an open request means for who has made it.
Opened(n, by) ==
  /\ users' = [users EXCEPT ![n] = @ \cup {by}]
  /\ progress' = IF by \in Probers THEN [progress EXCEPT ![by] = "opened " \o n]
                 ELSE progress
  /\ visit' = IF by = "tab" THEN "open" ELSE visit

OpenExisting(n) ==
  /\ requests[n] # <<>> /\ Head(requests[n]).kind = "open" /\ store[n] = "present"
  /\ Opened(n, Head(requests[n]).by)
  /\ Served(n)
  /\ UNCHANGED <<store, found, removal, made>>

BeginUpgrade(n) ==
  /\ requests[n] # <<>> /\ Head(requests[n]).kind = "open" /\ store[n] = "absent"
  /\ store' = [store EXCEPT ![n] = "upgrading"]
  /\ UNCHANGED <<requests, users, progress, found, visit, removal, made>>

\* a plausible mistake: the upgrade goes on
NeverAborts(n, by) == FALSE
\* A worker that looks for a database aborts the upgrade.
Aborts(n, by) == n = "database" /\ by \in Probers

EndUpgrade(n) ==
  /\ store[n] = "upgrading"
  /\ LET by == Head(requests[n]).by
     IN  IF Aborts(n, by)
         THEN /\ store' = [store EXCEPT ![n] = "absent"]
              /\ Answers(by, FALSE)
              /\ UNCHANGED <<users, visit, made>>
         ELSE /\ store' = [store EXCEPT ![n] = "present"]
              /\ Opened(n, by)
              /\ made' = (made \/ (n = "database" /\ by = "tab"))
              /\ UNCHANGED found
  /\ Served(n)
  /\ UNCHANGED removal

\* A deletion waits until nobody has the database open.  The one who asked is
\* told that it is blocked, and takes that for the end.
DeleteNow(n) ==
  /\ requests[n] # <<>> /\ Head(requests[n]).kind = "delete" /\ users[n] = {}
  /\ store' = [store EXCEPT ![n] = "absent"]
  /\ made' = IF n = "database" THEN FALSE ELSE made
  /\ removal' = IF n = "database" THEN "done" ELSE removal
  /\ Served(n)
  /\ UNCHANGED <<users, progress, found, visit>>

DeletionBlocked ==
  /\ requests["database"] # <<>> /\ Head(requests["database"]).kind = "delete"
  /\ users["database"] # {} /\ removal = "asked"
  /\ removal' = "blocked"
  /\ UNCHANGED <<store, requests, users, progress, found, visit, made>>

-----------------------------------------------------------------------------
(* Workers *)

CheckSupport(w) ==
  /\ progress[w] = "idle"
  /\ Goes(w, "opening mock")
  /\ AsksFor("mock", Request(w, "open"))
  /\ UNCHANGED <<store, users, found, visit, removal, made>>

\* It does not wait for the deletion.
DeleteMock(w) ==
  /\ progress[w] = "opened mock"
  /\ users' = [users EXCEPT !["mock"] = @ \ {w}]
  /\ AsksFor("mock", Request(w, "delete"))
  /\ Goes(w, "supported")
  /\ UNCHANGED <<store, found, visit, removal, made>>

LookInList(w) ==
  /\ progress[w] = "supported" /\ w \in Listing
  /\ Answers(w, store["database"] = "present")
  /\ UNCHANGED <<store, requests, users, visit, removal, made>>

LookByOpening(w) ==
  /\ progress[w] = "supported" /\ w \notin Listing
  /\ Goes(w, "opening database")
  /\ AsksFor("database", Request(w, "open"))
  /\ UNCHANGED <<store, users, found, visit, removal, made>>

CloseFound(w) ==
  /\ progress[w] = "opened database"
  /\ users' = [users EXCEPT !["database"] = @ \ {w}]
  /\ Answers(w, TRUE)
  /\ UNCHANGED <<store, requests, visit, removal, made>>

-----------------------------------------------------------------------------
(* The tab, and the one who deletes *)

Visit ==
  /\ visit \in {"none", "closed"}
  /\ visit' = "opening"
  /\ AsksFor("database", Request("tab", "open"))
  /\ UNCHANGED <<store, users, progress, found, removal, made>>

Leave ==
  /\ visit = "open"
  /\ visit' = "closed"
  /\ users' = [users EXCEPT !["database"] = @ \ {"tab"}]
  /\ UNCHANGED <<store, requests, progress, found, removal, made>>

RemoveDatabase ==
  /\ removal = "none"
  /\ removal' = "asked"
  /\ AsksFor("database", Request("remover", "delete"))
  /\ UNCHANGED <<store, users, progress, found, visit, made>>

ProbesStep ==
  \/ \E n \in Names : OpenExisting(n) \/ BeginUpgrade(n) \/ EndUpgrade(n) \/ DeleteNow(n)
  \/ DeletionBlocked
  \/ \E w \in Probers :
       CheckSupport(w) \/ DeleteMock(w) \/ LookInList(w) \/ LookByOpening(w) \/ CloseFound(w)
  \/ Visit \/ Leave \/ RemoveDatabase

Looking(w) == progress[w] \in {"supported", "opening database"}

\* seen follows the database while a worker looks for it.
ProbesNext ==
  /\ ProbesStep
  /\ seen' = [w \in Probers |->
                IF Looking(w) \/ Looking(w)'
                THEN seen[w] \cup {store["database"] = "present"}
                             \cup {store'["database"] = "present"}
                ELSE seen[w]]

ProbesSpec == ProbesInit /\ [][ProbesNext]_probesVars

-----------------------------------------------------------------------------
(* Properties *)

\* The state of the databases, of their users and of the workers.
ProbesTypeOK ==
  /\ store \in [Names -> {"absent", "upgrading", "present"}]
  /\ \A n \in Names :
       /\ \A i \in DOMAIN requests[n] : requests[n][i].by \in Actors
       /\ users[n] \subseteq Actors
       /\ users[n] # {} => store[n] = "present"
  /\ progress \in [Probers -> {"idle", "opening mock", "opened mock", "supported",
                               "opening database", "opened database", "done"}]
  /\ found \in [Probers -> {"nothing", "there", "not there"}]
  /\ visit \in {"none", "opening", "open", "closed"}
  /\ removal \in {"none", "asked", "blocked", "done"}

\* A worker finds what was so at some time while it looked.  However checks,
\* the tab and a deletion get in each other's way, a check neither makes the
\* database nor loses it to the one who opens it next, and in the end nothing
\* is left of what was opened to try.
ProbesLeaveNoTrace ==
  /\ \A w \in Probers :
       /\ found[w] = "there" => TRUE \in seen[w]
       /\ found[w] = "not there" => FALSE \in seen[w]
  /\ made <=> store["database"] = "present"
  /\ (\A w \in Probers : progress[w] = "done") /\ requests["mock"] = <<>>
       => store["mock"] = "absent"
=============================================================================
