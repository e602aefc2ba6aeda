---------------------------- MODULE WorkerServers ----------------------------
(***************************************************************************)
(* The worker that tabs share keeps a database server for every database   *)
(* that is open.  A tab that connects is given the server there is, or a   *)
(* new one, which opens its files with the first request.  With its last   *)
(* tab a server is taken out of the map, then closes its files.            *)
(*                                                                         *)
(* The module follows one database, which is kept in IndexedDB.  Files are *)
(* sets of commits, and what a server stores replaces what was there: it   *)
(* writes the pages it has in memory.                                      *)
(***************************************************************************)
EXTENDS Naturals, Sequences, FiniteSets

CONSTANTS
  Visitors,    \* the tabs
  MaxCommits   \* bound on the commits

ASSUME ServersAssumption == MaxCommits \in Nat /\ "no tab" \notin Visitors

VARIABLES
  visit,       \* of a tab: "new", "connected", "left", or "crashed"
  inMap,       \* the number of the server that tabs are given, or zero
  servers,     \* all servers, by number
  inStorage,   \* the commits in IndexedDB
  commits,     \* the commits of the database
  drawn,       \* how many commits there were
  doomed,      \* whether a deletion waits for connections to be closed
  met          \* whether files were read next to a server on its way out

serverVars == <<visit, inMap, servers, inStorage, commits, drawn, doomed, met>>

-----------------------------------------------------------------------------
\* A database that is there has commit zero, its creation.
NoDatabase == {}
NoSource == "no tab"

\* The source of a server is the tab that may have an initial database.
NewServer(t, source) ==
  [state |-> "new", tabs |-> {t}, source |-> source, files |-> {},
   queued |-> FALSE]

ServersInit ==
  /\ visit = [t \in Visitors |-> "new"]
  /\ inMap = 0 /\ servers = <<>>
  /\ inStorage = NoDatabase
  /\ commits = {} /\ drawn = 0
  /\ doomed = FALSE /\ met = FALSE

\* The servers that have a connection to IndexedDB.
Connected ==
  {i \in DOMAIN servers :
     servers[i].state \in {"reads", "asks", "open", "closing"}}

-----------------------------------------------------------------------------
(* Tabs *)

\* serve
Connect(t) ==
  /\ visit[t] = "new"
  /\ visit' = [visit EXCEPT ![t] = "connected"]
  /\ \/ /\ inMap # 0
        /\ servers' = [servers EXCEPT ![inMap].tabs = @ \cup {t}]
        /\ UNCHANGED inMap
     \/ /\ inMap = 0
        /\ \E source \in {t, NoSource} :
             servers' = Append(servers, NewServer(t, source))
        /\ inMap' = Len(servers) + 1
  /\ UNCHANGED <<inStorage, commits, drawn, doomed, met>>

\* What becomes of a server that is shut down: one that is opening its files
\* closes them when they are open, one that has none is done.
ShutDown(s) ==
  CASE s.state \in {"new", "failed"} -> [s EXCEPT !.state = "closed"]
    [] s.state = "open" -> [s EXCEPT !.state = "closing"]
    [] OTHER -> s

\* A tab disconnects.
Disconnect(t) ==
  /\ visit[t] = "connected"
  /\ visit' = [visit EXCEPT ![t] = "left"]
  /\ \E i \in DOMAIN servers :
       /\ t \in servers[i].tabs
       /\ LET s == [servers[i] EXCEPT !.tabs = @ \ {t}]
          IN  /\ servers' = [servers EXCEPT ![i] =
                               IF s.tabs = {} THEN ShutDown(s) ELSE s]
              /\ inMap' = IF s.tabs = {} THEN 0 ELSE inMap
  /\ UNCHANGED <<inStorage, commits, drawn, doomed, met>>

\* A tab ends without a word while another keeps the worker: its server is
\* never told.
Vanish(t) ==
  /\ visit[t] = "connected"
  /\ \E u \in Visitors \ {t} : visit[u] = "connected"
  /\ visit' = [visit EXCEPT ![t] = "crashed"]
  /\ UNCHANGED <<inMap, servers, inStorage, commits, drawn, doomed, met>>

-----------------------------------------------------------------------------
(* Opening and closing *)

Becomes(i, s) == servers' = [servers EXCEPT ![i] = s]
HasOpened(s) ==
  [s EXCEPT !.state = IF s.tabs = {} THEN "closing" ELSE "open"]

\* The first request.  A connection to IndexedDB waits for a deletion.
Open(i) ==
  /\ servers[i].state = "new"
  /\ Becomes(i, [servers[i] EXCEPT !.state = "opening"])
  /\ UNCHANGED <<visit, inMap, inStorage, commits, drawn, doomed, met>>

ConnectStorage(i) ==
  /\ servers[i].state = "opening" /\ ~doomed
  /\ Becomes(i, [servers[i] EXCEPT !.state = "reads"])
  /\ UNCHANGED <<visit, inMap, inStorage, commits, drawn, doomed, met>>

\* The files are read into memory.  Without a database there, the tab that
\* made the server is asked for one.
ReadFiles(i) ==
  LET there == inStorage # NoDatabase
      s == [servers[i] EXCEPT !.files = inStorage \cup {0},
                              !.queued = ~there]
  IN  /\ servers[i].state = "reads"
      /\ Becomes(i, IF there \/ s.source = NoSource THEN HasOpened(s)
                    ELSE [s EXCEPT !.state = "asks"])
      /\ met' = (met \/ \E j \in Connected \ {i} :
                           s.tabs = {} \/ servers[j].tabs = {})
      /\ UNCHANGED <<visit, inMap, inStorage, commits, drawn, doomed>>

\* The tab that was asked answers, with a database or without one.
GiveDatabase(i) ==
  /\ servers[i].state = "asks"
  /\ visit[servers[i].source] = "connected"
  /\ Becomes(i, HasOpened(servers[i]))
  /\ UNCHANGED <<visit, inMap, inStorage, commits, drawn, doomed, met>>

\* What has failed stays so for every tab until the last one leaves.
OpeningFails(i) ==
  /\ servers[i].state = "opening"
  /\ Becomes(i, [servers[i] EXCEPT !.state =
                   IF servers[i].tabs = {} THEN "closed" ELSE "failed"])
  /\ UNCHANGED <<visit, inMap, inStorage, commits, drawn, doomed, met>>

\* A transaction of some tab is committed to the files in memory.
CommitTo(i) ==
  /\ servers[i].state = "open" /\ drawn < MaxCommits
  /\ drawn' = drawn + 1
  /\ commits' = commits \cup {drawn'}
  /\ Becomes(i, [servers[i] EXCEPT !.files = @ \cup {drawn'}, !.queued = TRUE])
  /\ UNCHANGED <<visit, inMap, inStorage, doomed, met>>

\* The queue of changes has been stored.
StoreChanges(i) ==
  /\ servers[i].state \in {"open", "closing"} /\ servers[i].queued
  /\ inStorage' = servers[i].files
  /\ Becomes(i, [servers[i] EXCEPT !.queued = FALSE])
  /\ UNCHANGED <<visit, inMap, commits, drawn, doomed, met>>

\* a plausible mistake: the connection is closed ahead of the queue
CloseFilesAtOnce(i) ==
  /\ servers[i].state = "closing"
  /\ Becomes(i, [servers[i] EXCEPT !.state = "closed"])
  /\ IF doomed /\ Connected = {i}
     THEN inStorage' = NoDatabase /\ commits' = {} /\ doomed' = FALSE
     ELSE UNCHANGED <<inStorage, commits, doomed>>
  /\ UNCHANGED <<visit, inMap, drawn, met>>

\* The connection is closed behind the queue.  A deletion that was waiting for
\* it is carried out.
CloseFiles(i) ==
  /\ servers[i].state = "closing" /\ ~servers[i].queued
  /\ Becomes(i, [servers[i] EXCEPT !.state = "closed"])
  /\ IF doomed /\ Connected = {i}
     THEN inStorage' = NoDatabase /\ commits' = {} /\ doomed' = FALSE
     ELSE UNCHANGED <<inStorage, commits, doomed>>
  /\ UNCHANGED <<visit, inMap, drawn, met>>

\* A tab has the database deleted.  While there are connections the browser
\* says that it is blocked, which the tab is told as an error, and deletes it
\* later.
DeleteDatabase ==
  /\ inStorage # NoDatabase /\ ~doomed
  /\ IF Connected = {}
     THEN inStorage' = NoDatabase /\ commits' = {} /\ UNCHANGED doomed
     ELSE doomed' = TRUE /\ UNCHANGED <<inStorage, commits>>
  /\ UNCHANGED <<visit, inMap, servers, drawn, met>>

-----------------------------------------------------------------------------
ServeStep(i) ==
  \/ Open(i) \/ ConnectStorage(i) \/ ReadFiles(i) \/ GiveDatabase(i)
  \/ StoreChanges(i) \/ CloseFiles(i)

ServersNext ==
  \/ \E t \in Visitors : Connect(t) \/ Disconnect(t) \/ Vanish(t)
  \/ \E i \in DOMAIN servers : ServeStep(i) \/ OpeningFails(i) \/ CommitTo(i)
  \/ DeleteDatabase

ServersSpec == ServersInit /\ [][ServersNext]_serverVars

\* The event loop, the browser and the tab that was asked go on.
ServersFairness == \A i \in 1..Cardinality(Visitors) :
  WF_serverVars(i \in DOMAIN servers /\ ServeStep(i))

-----------------------------------------------------------------------------
(* Properties *)

Server ==
  [state : {"new", "opening", "reads", "asks", "open", "failed", "closing",
            "closed"},
   tabs : SUBSET Visitors, source : Visitors \cup {NoSource},
   files : SUBSET (0..MaxCommits), queued : BOOLEAN]

\* The state of the tabs, the servers and the storage.  Tabs that have not
\* left are all at the server in the map.
ServersTypeOK ==
  /\ visit \in [Visitors -> {"new", "connected", "left", "crashed"}]
  /\ inMap \in 0..Len(servers)
  /\ servers \in Seq(Server)
  /\ inStorage \subseteq 0..MaxCommits
  /\ commits \subseteq 1..MaxCommits
  /\ drawn \in 0..MaxCommits
  /\ doomed \in BOOLEAN /\ met \in BOOLEAN
  /\ \A i \in DOMAIN servers :
       /\ servers[i].tabs # {} <=> i = inMap
       /\ servers[i].state = "closing" => i # inMap

\* Whatever tabs come and go, the server they are given has every commit of
\* the servers before it, unless it read the files while one that all its tabs had
\* left was still at them.
CommitsOutlastServers ==
  \A i \in DOMAIN servers :
    servers[i].state = "open" => met \/ commits \subseteq servers[i].files

Unsettled(i) ==
  /\ i \in DOMAIN servers
  /\ servers[i].state \in {"opening", "reads", "asks", "closing"}

\* A server waits for an initial database from a tab that is gone, or the
\* connections of others hold up a deletion.
HeldUp ==
  \/ \E i \in DOMAIN servers :
       /\ servers[i].state = "asks"
       /\ visit[servers[i].source] # "connected"
  \/ doomed

\* A server that opens its files gets there or fails, and one that closes them
\* gets there.
ServersSettle ==
  \A i \in 1..Cardinality(Visitors) :
    Unsettled(i) ~> ~Unsettled(i) \/ HeldUp
=============================================================================
