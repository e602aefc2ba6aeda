------------------------------ MODULE FixedFiles ------------------------------
(***************************************************************************)
(* The file system of a worker that keeps both files of its database open  *)
(* in the origin private file system, the database and its journal.  They  *)
(* cannot come and go while they are open, so a third file, "meta", has a  *)
(* mark for each that is there for SQLite.  The worker has a copy of the   *)
(* marks, and it writes the whole copy.                                    *)
(*                                                                         *)
(* SQLite is external, and modelled by the order in which its pager calls  *)
(* the file system.  The worker may end between any two writes; what it    *)
(* has written until then stays.                                           *)
(***************************************************************************)
EXTENDS Naturals, FiniteSets

CONSTANTS
  MaxPages,          \* bound on the pages of the database
  MaxTransactions,   \* bound on transactions
  MaxStops           \* bound on the times a worker ends

ASSUME FixedAssumption == {MaxPages, MaxTransactions, MaxStops} \subseteq Nat

VARIABLES
  marks,      \* the file "meta"
  copy,       \* the marks as the worker has them
  database,   \* the bytes of the database: what the pages hold
  journal,    \* the bytes of the journal
  step,       \* what SQLite does next
  todo,       \* the pages it has to write
  version,    \* how many transactions there were
  durable,    \* the database after the last commit
  stops       \* how many workers have ended

fixedVars ==
  <<marks, copy, database, journal, step, todo, version, durable, stops>>

-----------------------------------------------------------------------------
FixedNames == {"database", "journal"}
NoMarks == [f \in FixedNames |-> FALSE]
NoBytes == <<>>

\* A journal starts with a header: how many pages the database had, and which
\* of them follow.
NoJournal == [header |-> FALSE, size |-> 0, saved |-> NoBytes]
HasPages(content) == DOMAIN content

FixedInit ==
  /\ marks = NoMarks /\ copy = NoMarks
  /\ database = NoBytes /\ journal = NoJournal
  /\ step = "down" /\ todo = {} /\ version = 0 /\ durable = NoBytes /\ stops = 0

\* The database when what a transaction has begun is undone.
Undone(content, j) ==
  [p \in 1..j.size |-> IF p \in HasPages(j.saved) THEN j.saved[p] ELSE content[p]]

Found ==
  CASE ~marks["database"] -> NoBytes
    [] marks["database"] /\ (~marks["journal"] \/ ~journal.header \/ database = NoBytes) ->
         database
    [] marks["database"] /\ marks["journal"] /\ journal.header /\ database # NoBytes ->
         Undone(database, journal)

-----------------------------------------------------------------------------
(* The file system *)

ReadsMarks == copy' = marks

\* The copy is written as it is.
Sets(f, there) ==
  /\ copy' = [copy EXCEPT ![f] = there]
  /\ marks' = copy'

\* a plausible mistake: the bytes of the file that was deleted stay
StaysAsItWas(bytes, empty) == bytes
\* What xOpen makes of a file that is not marked before it marks it.
Truncated(bytes, empty) == empty

-----------------------------------------------------------------------------
(* SQLite *)

\* xOpen of the database.
OpenMarked ==
  /\ step = "down" /\ marks["database"]
  /\ ReadsMarks
  /\ step' = "look"
  /\ UNCHANGED <<marks, database, journal, todo, version, durable, stops>>

OpenUnmarked ==
  /\ step = "down" /\ ~marks["database"]
  /\ ReadsMarks
  /\ database' = Truncated(database, NoBytes)
  /\ step' = "mark database"
  /\ UNCHANGED <<marks, journal, todo, version, durable, stops>>

MarkDatabase ==
  /\ step = "mark database"
  /\ Sets("database", TRUE)
  /\ step' = "look"
  /\ UNCHANGED <<database, journal, todo, version, durable, stops>>

\* xAccess of the journal: one that has a header is played back, if there is
\* anything in the database.
LookForJournal ==
  /\ step = "look"
  /\ ReadsMarks
  /\ step' = CASE ~marks["journal"] -> "idle"
               [] marks["journal"] /\ (~journal.header \/ database = NoBytes) -> "drop"
               [] marks["journal"] /\ journal.header /\ database # NoBytes -> "undo"
  /\ todo' = IF step' = "undo" THEN HasPages(journal.saved) ELSE {}
  /\ UNCHANGED <<marks, database, journal, version, durable, stops>>

\* xDelete of a journal that says nothing.
DropJournal ==
  /\ step = "drop"
  /\ Sets("journal", FALSE)
  /\ step' = "idle"
  /\ UNCHANGED <<database, journal, todo, version, durable, stops>>

UndoPage(p) ==
  /\ step = "undo" /\ p \in todo
  /\ database' = [database EXCEPT ![p] = journal.saved[p]]
  /\ todo' = todo \ {p}
  /\ UNCHANGED <<marks, copy, journal, step, version, durable, stops>>

\* The database gets as long as it was, then the journal is deleted.
CutDatabase ==
  /\ step = "undo" /\ todo = {}
  /\ database' = [p \in 1..journal.size |-> database[p]]
  /\ step' = "drop"
  /\ UNCHANGED <<marks, copy, journal, todo, version, durable, stops>>

\* A transaction writes page one, and perhaps others; it creates the journal.
BeginTransaction(pages) ==
  /\ step = "idle" /\ version < MaxTransactions
  /\ 1 \in pages /\ HasPages(database) \cup pages = 1..Cardinality(HasPages(database) \cup pages)
  /\ version' = version + 1
  /\ todo' = pages
  /\ ReadsMarks
  /\ journal' = IF marks["journal"] THEN journal ELSE Truncated(journal, NoJournal)
  /\ step' = "mark journal"
  /\ UNCHANGED <<marks, database, durable, stops>>

MarkJournal ==
  /\ step = "mark journal"
  /\ Sets("journal", TRUE)
  /\ step' = "header"
  /\ UNCHANGED <<database, journal, todo, version, durable, stops>>

WriteHeader ==
  /\ step = "header"
  /\ journal' = [header |-> TRUE, size |-> Cardinality(HasPages(database)), saved |-> NoBytes]
  /\ step' = "save"
  /\ UNCHANGED <<marks, copy, database, todo, version, durable, stops>>

\* The pages count as saved when the header says so.
SavePages ==
  /\ step = "save"
  /\ journal' = [journal EXCEPT !.saved = [p \in todo \cap HasPages(database) |-> database[p]]]
  /\ step' = "write"
  /\ UNCHANGED <<marks, copy, database, todo, version, durable, stops>>

WritePage(p) ==
  /\ step = "write" /\ p \in todo
  /\ \A q \in todo : p <= q
  /\ database' = [q \in HasPages(database) \cup {p} |->
                    IF q = p THEN version ELSE database[q]]
  /\ todo' = todo \ {p}
  /\ UNCHANGED <<marks, copy, journal, step, version, durable, stops>>

RollBack ==
  /\ step = "write"
  /\ step' = "undo" /\ todo' = HasPages(journal.saved)
  /\ UNCHANGED <<marks, copy, database, journal, version, durable, stops>>

\* The transaction is committed when its journal is not there any more.
CommitByDelete ==
  /\ step = "write" /\ todo = {}
  /\ Sets("journal", FALSE)
  /\ durable' = database
  /\ step' = "idle"
  /\ UNCHANGED <<database, journal, todo, version, stops>>

\* The worker is closed, or ends; a new one knows of no marks before it reads.
StopWorker ==
  /\ step # "down" /\ stops < MaxStops
  /\ stops' = stops + 1
  /\ step' = "down" /\ todo' = {} /\ copy' = NoMarks
  /\ UNCHANGED <<marks, database, journal, version, durable>>

FixedNext ==
  \/ OpenMarked \/ OpenUnmarked \/ MarkDatabase \/ LookForJournal \/ DropJournal
  \/ CutDatabase \/ MarkJournal \/ WriteHeader \/ SavePages \/ RollBack
  \/ CommitByDelete \/ StopWorker
  \/ \E pages \in SUBSET (1..MaxPages) : BeginTransaction(pages)
  \/ \E p \in 1..MaxPages : WritePage(p) \/ UndoPage(p)

FixedSpec == FixedInit /\ [][FixedNext]_fixedVars

-----------------------------------------------------------------------------
(* Properties *)

\* The state of the files and of SQLite.
FixedTypeOK ==
  /\ marks \in [FixedNames -> BOOLEAN] /\ copy \in [FixedNames -> BOOLEAN]
  /\ HasPages(database) \subseteq 1..MaxPages /\ HasPages(durable) \subseteq 1..MaxPages
  /\ HasPages(journal.saved) \subseteq 1..MaxPages /\ journal.size \in 0..MaxPages
  /\ todo \subseteq 1..MaxPages
  /\ version \in 0..MaxTransactions /\ stops \in 0..MaxStops

\* Whenever the worker ends, what the next one finds is the database after the
\* last commit: a mark is never set before the bytes of an earlier file are
\* gone, and writing the copy never loses the mark of the other file.
LastCommitFound == Found = durable
=============================================================================
