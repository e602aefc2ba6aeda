--------------------------- MODULE IndexedDbFiles ---------------------------
(***************************************************************************)
(* The file system of the web worker that keeps its files in IndexedDB.    *)
(* SQLite calls it synchronously and it answers from memory; what changes  *)
(* is queued as work items, which are stored later, one at a time, each in *)
(* a transaction of IndexedDB.  Items may be merged with, or take out,     *)
(* items that are queued already.  xSync does nothing.                     *)
(*                                                                         *)
(* The calls SQLite makes within a turn of the event loop are one action:  *)
(* no item is stored in between.  SQLite keeps a rollback journal, which   *)
(* it deletes to commit.                                                   *)
(***************************************************************************)
EXTENDS Naturals, Sequences, SequencesExt, FiniteSets

CONSTANTS
  MaxPages,          \* bound on the pages of the database
  MaxTransactions,   \* bound on the transactions
  MaxCrashes         \* bound on the crashes of the tab

ASSUME FilesAssumption ==
  MaxPages \in Nat /\ MaxTransactions \in Nat /\ MaxCrashes \in Nat

VARIABLES
  worker,     \* "down", "open", or "closing" its files
  memory,     \* the files as SQLite reads them
  queue,      \* the work items that wait
  running,    \* the work item that is being stored
  stored,     \* the files in IndexedDB
  version,    \* how many transactions have ended
  committed,  \* the database after each commit since it was opened
  spilled,    \* transactions that wrote to the database before they ended
  crashes

fileVars == <<worker, memory, queue, running, stored, version, committed,
              spilled, crashes>>

-----------------------------------------------------------------------------
(* Files and work items *)

\* A file is a function of its slots: the pages of the database, numbered from
\* one; the header of a journal and the pages it keeps.  The header says how
\* large the database was and which pages follow, once they have been synced.
Database == "database"
Journal == "journal"
Empty == <<>>
Header == 0
Unsynced == [hot |-> FALSE, size |-> 0, kept |-> {}]
Synced(size, pages) == [hot |-> TRUE, size |-> size, kept |-> pages]

\* One slot, and slots that take the place of those there were.
One(p, x) == [q \in {p} |-> x]
Over(new, old) ==
  [p \in DOMAIN new \cup DOMAIN old |->
     IF p \in DOMAIN new THEN new[p] ELSE old[p]]

NoItem == [kind |-> "none", file |-> "none", data |-> Empty, size |-> 0]
Item(kind, f, data, size) ==
  [kind |-> kind, file |-> f, data |-> data, size |-> size]

FilesInit ==
  /\ worker = "down"
  /\ memory = Empty /\ stored = Empty
  /\ queue = <<>> /\ running = NoItem
  /\ version = 0 /\ committed = <<Empty>>
  /\ spilled = {}
  /\ crashes = 0

\* What a call changes: the files in memory, the queue and its running item.
Now == [memory |-> memory, queue |-> queue, running |-> running]

Become(s) ==
  memory' = s.memory /\ queue' = s.queue /\ running' = s.running

\* _startWorkingIfNeeded
Started(s) ==
  IF s.running # NoItem \/ s.queue = <<>> THEN s
  ELSE [s EXCEPT !.running = Head(s.queue), !.queue = Tail(@)]

\* _submitWork of an item that is not merged
Submitted(s, item) == Started([s EXCEPT !.queue = Append(@, item)])

\* xOpen creates a file that is not there.
Opened(s, f) ==
  IF f \in DOMAIN s.memory THEN s
  ELSE Submitted([s EXCEPT !.memory = Over(@, One(f, Empty))],
                 Item("create", f, Empty, 0))

\* a plausible mistake: a write is merged with the last write of its file
MergesWithAny(q, f) ==
  {i \in DOMAIN q :
     /\ q[i].kind = "write" /\ q[i].file = f
     /\ \A j \in (i + 1)..Len(q) : ~(q[j].kind = "write" /\ q[j].file = f)}

\* A write is merged with one of its file that only writes and creations of
\* other files follow.
MergesWith(q, f) ==
  {i \in DOMAIN q :
     /\ q[i].kind = "write" /\ q[i].file = f
     /\ \A j \in (i + 1)..Len(q) :
          q[j].kind \in {"write", "create"} /\ q[j].file # f}

\* xWrite
WithMore(x, data) == [x EXCEPT !.data = Over(data, @)]
Written(s, f, data) ==
  LET m == [s EXCEPT !.memory[f] = Over(data, @)]
      merged == MergesWith(s.queue, f)
  IN  IF merged = {} THEN Submitted(m, Item("write", f, data, 0))
      ELSE [m EXCEPT !.queue = [i \in DOMAIN @ |->
              IF i \in merged THEN WithMore(@[i], data) ELSE @[i]]]

Shortened(c, size) == [p \in {p \in DOMAIN c : p <= size} |-> c[p]]

\* xTruncate
Truncated(s, f, size) ==
  Submitted([s EXCEPT !.memory[f] = Shortened(@, size)],
            Item("truncate", f, Empty, size))

Without(files, f) == [g \in DOMAIN files \ {f} |-> files[g]]

\* Where a deletion that goes back over the queue stops: at an item that
\* creates or deletes the file, at a truncation, or in front of the queue.
IsOwn(x, f) == x.kind \in {"create", "delete"} /\ x.file = f
Stops(q, f) ==
  {i \in DOMAIN q : IsOwn(q[i], f) \/ q[i].kind \in {"truncate", "close"}}
StopsAt(q, f) ==
  IF Stops(q, f) = {} THEN 0
  ELSE CHOOSE i \in Stops(q, f) : \A j \in Stops(q, f) : j <= i

\* Items but for the writes of a file.
WithoutWrites(q, f) ==
  LET others == {x \in ToSet(q) : ~(x.kind = "write" /\ x.file = f)}
  IN  FoldLeft(LAMBDA rest, x : IF x \in others THEN Append(rest, x) ELSE rest,
               <<>>, q)

\* a plausible mistake: a deletion that is superfluous leaves the creation
DeletedLeavingFile(s, f) ==
  LET q == s.queue
      stop == StopsAt(q, f)
      m == [s EXCEPT !.memory = Without(@, f),
                     !.queue = SubSeq(q, 1, stop)
                               \o WithoutWrites(SubSeq(q, stop + 1, Len(q)), f)]
  IN  IF stop = 0 \/ ~IsOwn(q[stop], f)
      THEN Submitted(m, Item("delete", f, Empty, 0)) ELSE m

\* xDelete takes out the writes of the file, and its creation, which makes the
\* deletion superfluous.
Deleted(s, f) ==
  LET q == s.queue
      stop == StopsAt(q, f)
      rest == WithoutWrites(SubSeq(q, stop + 1, Len(q)), f)
      m == [s EXCEPT !.memory = Without(@, f)]
  IN  IF stop = 0 \/ ~IsOwn(q[stop], f)
      THEN Submitted([m EXCEPT !.queue = SubSeq(q, 1, stop) \o rest],
                     Item("delete", f, Empty, 0))
      ELSE [m EXCEPT !.queue =
              SubSeq(q, 1, IF q[stop].kind = "create" THEN stop - 1 ELSE stop)
                \o rest]

-----------------------------------------------------------------------------
(* The work items *)

\* What is stored once an item has run.  A write changes the blocks it has
\* and the length of the file, a truncation takes the blocks behind it.
AfterItem(files, item) ==
  CASE item.kind = "create" -> Over(files, One(item.file, Empty))
    [] item.kind = "write" -> [files EXCEPT ![item.file] = Over(item.data, @)]
    [] item.kind = "truncate" ->
         [files EXCEPT ![item.file] = Shortened(@, item.size)]
    [] item.kind = "delete" -> Without(files, item.file)
    [] item.kind = "close" -> files

\* An item has been stored, the next one starts.
Store ==
  /\ running # NoItem
  /\ stored' = AfterItem(stored, running)
  /\ LET s == Started([Now EXCEPT !.running = NoItem])
     IN  queue' = s.queue /\ running' = s.running
  /\ IF running.kind = "close" THEN worker' = "down" /\ memory' = Empty
     ELSE UNCHANGED <<worker, memory>>
  /\ UNCHANGED <<version, committed, spilled, crashes>>

-----------------------------------------------------------------------------
(* SQLite *)

\* Pages are written to a file one after the other.
PagesWritten(s, f, pages, content) ==
  LET after[p \in 0..MaxPages] ==
        IF p = 0 THEN s
        ELSE IF p \in pages THEN Written(after[p - 1], f, One(p, content[p]))
        ELSE after[p - 1]
  IN  after[MaxPages]

IsHot(files) ==
  /\ Journal \in DOMAIN files /\ Header \in DOMAIN files[Journal]
  /\ files[Journal][Header].hot

\* The database without the transaction that left a hot journal.
RolledBack(files) ==
  IF Database \notin DOMAIN files THEN Empty
  ELSE LET c == files[Database]
           j == files[Journal]
           keeps(p) == p \in j[Header].kept \cap DOMAIN j
       IN  IF c = Empty \/ ~IsHot(files) THEN c
           ELSE [p \in 1..j[Header].size |->
                   IF keeps(p) THEN j[p] ELSE IF p \in DOMAIN c THEN c[p] ELSE 0]

\* Before SQLite changes pages it journals those the database had, and writes
\* the header again when the journal is complete.
Journaled(s, pages) ==
  LET c == s.memory[Database]
      going == IsHot(s.memory)
      size == IF going THEN s.memory[Journal][Header].size
              ELSE Cardinality(DOMAIN c)
      kept == IF going THEN s.memory[Journal][Header].kept ELSE {}
      new == {p \in pages : p <= size /\ p \notin kept}
      begun == IF going THEN s
               ELSE Written(Opened(s, Journal), Journal, One(Header, Unsynced))
  IN  Written(PagesWritten(begun, Journal, new, c), Journal,
              One(Header, Synced(size, kept \cup new)))

\* SQLite plays back the journal, then deletes it.
PlayedBack(s) ==
  LET c == RolledBack(s.memory)
      cut == IF DOMAIN s.memory[Database] \subseteq DOMAIN c THEN s
             ELSE Truncated(s, Database, Cardinality(DOMAIN c))
  IN  Deleted(PagesWritten(cut, Database, s.memory[Journal][Header].kept, c),
              Journal)

\* A tab opens the database: the files are read, and a hot journal is played
\* back.  SQLite deletes one of an empty database.
Load ==
  /\ worker = "down"
  /\ worker' = "open"
  /\ LET s == Opened([Now EXCEPT !.memory = stored], Database)
     IN  Become(IF Journal \notin DOMAIN stored THEN s
                ELSE IF s.memory[Database] = Empty THEN Deleted(s, Journal)
                ELSE IF IsHot(stored) THEN PlayedBack(s) ELSE s)
  /\ committed' = <<RolledBack(stored)>>
  /\ UNCHANGED <<stored, version, spilled, crashes>>

Current == version + 1
Changed(p) == p \in DOMAIN memory[Database] /\ memory[Database][p] = Current

\* The cache is full: a page is written while the transaction goes on.
Spill(p) ==
  /\ worker = "open" /\ version < MaxTransactions
  /\ ~Changed(p) /\ p <= Cardinality(DOMAIN memory[Database]) + 1
  /\ Become(Written(Journaled(Now, {p}), Database, One(p, Current)))
  /\ spilled' = spilled \cup {Current}
  /\ UNCHANGED <<worker, stored, version, committed, crashes>>

\* Page one is written by every commit.
Commit(pages) ==
  /\ worker = "open" /\ version < MaxTransactions
  /\ 1 \in pages /\ \A p \in pages \ {1} : ~Changed(p)
  /\ LET size == Cardinality(DOMAIN memory[Database] \cup pages)
         s == PagesWritten(Journaled(Now, pages), Database, pages,
                           [p \in pages |-> Current])
     IN  /\ DOMAIN memory[Database] \cup pages = 1..size
         /\ Become(Deleted(s, Journal))
         /\ committed' = Append(committed, s.memory[Database])
  /\ version' = Current
  /\ UNCHANGED <<worker, stored, spilled, crashes>>

\* A transaction that has written nothing has nothing to undo.
Rollback ==
  /\ worker = "open" /\ IsHot(memory)
  /\ Become(IF memory[Database] = Empty THEN Deleted(Now, Journal)
            ELSE PlayedBack(Now))
  /\ version' = Current
  /\ UNCHANGED <<worker, stored, committed, spilled, crashes>>

\* close queues an item behind the others.
Close ==
  /\ worker = "open" /\ ~IsHot(memory)
  /\ worker' = "closing"
  /\ Become(Submitted(Now, Item("close", "none", Empty, 0)))
  /\ UNCHANGED <<stored, version, committed, spilled, crashes>>

\* The tab is closed or crashes.  What was not stored is lost.
Crash ==
  /\ worker # "down" /\ crashes < MaxCrashes
  /\ crashes' = crashes + 1
  /\ worker' = "down"
  /\ memory' = Empty /\ queue' = <<>> /\ running' = NoItem
  /\ version' = Current
  /\ UNCHANGED <<stored, committed, spilled>>

FilesNext ==
  \/ Load \/ Store \/ Rollback \/ Close \/ Crash
  \/ \E p \in 1..MaxPages : Spill(p)
  \/ \E pages \in SUBSET (1..MaxPages) : Commit(pages)

FilesSpec == FilesInit /\ [][FilesNext]_fileVars

-----------------------------------------------------------------------------
(* Properties *)

Files == {Database, Journal}
Kinds == {"none", "create", "write", "truncate", "delete", "close"}
IsItem(i) ==
  /\ i.kind \in Kinds /\ i.file \in Files \cup {"none"}
  /\ DOMAIN i.data \subseteq 0..MaxPages

\* The state of the worker and of the files; an item waits only behind one
\* that is being stored.
FilesTypeOK ==
  /\ worker \in {"down", "open", "closing"}
  /\ DOMAIN memory \subseteq Files /\ DOMAIN stored \subseteq Files
  /\ \A i \in DOMAIN queue : IsItem(queue[i])
  /\ IsItem(running)
  /\ running = NoItem => queue = <<>>
  /\ version \in Nat /\ spilled \subseteq 1..MaxTransactions
  /\ committed # <<>>

Page(c, p) == IF p \in DOMAIN c THEN c[p] ELSE 0

\* Whenever the tab crashes, what a new one finds is the database after some
\* commit: items are merged and taken out so that no transaction is half
\* stored, unless it wrote to the database before it ended.
CrashTearsNone ==
  \E k \in DOMAIN committed : \A p \in 1..MaxPages :
    LET found == Page(RolledBack(stored), p)
    IN  found = Page(committed[k], p) \/ found \in spilled

\* When the queue has drained, the files are stored as SQLite sees them.
DrainedIsSaved == worker = "open" /\ running = NoItem => stored = memory

\* What was committed is stored whole, and in the end it is stored.
CommitsStored == CrashTearsNone /\ DrainedIsSaved
=============================================================================
