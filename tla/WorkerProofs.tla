---------------------------- MODULE WorkerProofs ----------------------------
(***************************************************************************)
(* Proofs about the web worker.  WorkerServers, for every set of tabs and  *)
(* every number of commits: types, who has tabs, and that commits outlast  *)
(* the servers.  DriftServer, for every finite set of clients, every       *)
(* number of requests and any depth of nesting: statements are isolated.   *)
(* OpfsFiles, for every set of tabs, every number of attempts and of       *)
(* calls: types, the handle, and what a lock is worth.  FixedFiles, for    *)
(* every number of pages, of transactions and of ends of the worker: the   *)
(* last commit is found.  WorkerChecks, for every number of tabs and of    *)
(* questions: what a tab is told of the access handles is the truth.       *)
(***************************************************************************)
EXTENDS WorkerServers, DriftServer, OpfsFiles, FixedFiles, WorkerChecks,
        FiniteSetTheorems, TLAPS

(* Servers and commits: the inductive invariant. *)

\* The servers that have the files in memory.
HaveRead == {i \in DOMAIN servers : servers[i].state \in {"asks", "open", "closing"}}

\* Commits are in storage, or queued by the one server that has read them:
\* as long as no two servers read the files next to each other.
CommitsKept ==
  ~met =>
    /\ \A i, j \in HaveRead : i = j
    /\ \A i \in HaveRead : commits \subseteq servers[i].files
    /\ commits \subseteq inStorage \/ \E i \in HaveRead : servers[i].queued

\* A server with open files has tabs.
OpenHasTabs ==
  \A i \in DOMAIN servers : servers[i].state = "open" => servers[i].tabs # {}

ServersInv == ServersTypeOK /\ OpenHasTabs /\ CommitsKept

-----------------------------------------------------------------------------
LEMMA CommitCounts ==
  /\ 0 \in 0..MaxCommits
  /\ \A n \in 0..MaxCommits :
       n < MaxCommits => n + 1 \in 0..MaxCommits /\ n + 1 \in 1..MaxCommits
<1>1. MaxCommits \in Nat
  BY ServersAssumption
<1>2. QED
  BY <1>1

LEMMA ServersInitInv == ServersInit => ServersInv
<1> SUFFICES ASSUME ServersInit PROVE ServersInv
  OBVIOUS
<1>1. DOMAIN servers = {} /\ servers \in Seq(Server) /\ inMap \in 0..Len(servers)
  BY DEF ServersInit
<1>2. drawn \in 0..MaxCommits
  BY CommitCounts DEF ServersInit
<1>3. ServersTypeOK
  <2>1. visit \in [Visitors -> {"new", "connected", "left", "crashed"}]
    BY DEF ServersInit
  <2>2. inStorage = {} /\ commits = {} /\ doomed = FALSE /\ met = FALSE
    BY DEF ServersInit, NoDatabase
  <2>3. QED
    BY <1>1, <1>2, <2>1, <2>2 DEF ServersTypeOK
<1>4. OpenHasTabs /\ CommitsKept
  BY <1>1 DEF ServersInit, OpenHasTabs, CommitsKept, HaveRead
<1>5. QED
  BY <1>3, <1>4 DEF ServersInv

\* One server is replaced by another of its type: what the rest of the
\* invariant says of servers is said of the others as before.
LEMMA BecomesServer ==
  ASSUME servers \in Seq(Server), NEW i \in DOMAIN servers, NEW s \in Server,
         servers' = [servers EXCEPT ![i] = s]
  PROVE  /\ servers' \in Seq(Server)
         /\ Len(servers') = Len(servers)
         /\ DOMAIN servers' = DOMAIN servers
         /\ servers'[i] = s
         /\ \A j \in DOMAIN servers : j # i => servers'[j] = servers[j]
OBVIOUS

\* A step of server i that keeps its tabs, and reads or writes no commits.
LEMMA QuietInv ==
  ASSUME ServersInv, NEW i \in DOMAIN servers, NEW s \in Server,
         Becomes(i, s),
         s.tabs = servers[i].tabs, s.files = servers[i].files,
         s.queued = servers[i].queued,
         s.state = "closing" => s.tabs = {},
         s.state = "open" => s.tabs # {},
         (s.state \in {"asks", "open", "closing"}) <=> (i \in HaveRead),
         UNCHANGED <<inMap, inStorage, commits, drawn, met>>,
         visit' \in [Visitors -> {"new", "connected", "left", "crashed"}],
         doomed' \in BOOLEAN
  PROVE  ServersInv'
<1> USE DEF ServersInv
<1>1. /\ servers' \in Seq(Server) /\ Len(servers') = Len(servers)
      /\ DOMAIN servers' = DOMAIN servers /\ servers'[i] = s
      /\ \A j \in DOMAIN servers : j # i => servers'[j] = servers[j]
  BY BecomesServer DEF ServersTypeOK, Becomes
<1>2. ServersTypeOK'
  BY <1>1 DEF ServersTypeOK
<1>3. OpenHasTabs'
  BY <1>1 DEF OpenHasTabs
<1>4. HaveRead' = HaveRead
  BY <1>1 DEF HaveRead
<1>5. \A j \in DOMAIN servers : /\ servers'[j].files = servers[j].files
                                /\ servers'[j].queued = servers[j].queued
  BY <1>1
<1>6. CommitsKept'
  BY <1>4, <1>5 DEF CommitsKept, HaveRead
<1>7. QED
  BY <1>2, <1>3, <1>6

-----------------------------------------------------------------------------
(* Tabs. *)

LEMMA ConnectInv ==
  ASSUME ServersInv, NEW t \in Visitors, Connect(t)
  PROVE  ServersInv'
<1> USE DEF ServersInv
<1>1. /\ visit' \in [Visitors -> {"new", "connected", "left", "crashed"}]
      /\ UNCHANGED <<inStorage, commits, drawn, doomed, met>>
  BY DEF Connect, ServersTypeOK
<1>2. CASE /\ inMap # 0
           /\ servers' = [servers EXCEPT ![inMap].tabs = @ \cup {t}]
           /\ UNCHANGED inMap
  <2>1. inMap \in DOMAIN servers /\ servers[inMap] \in Server
    BY <1>2 DEF ServersTypeOK
  <2> DEFINE s == [servers[inMap] EXCEPT !.tabs = @ \cup {t}]
  <2>2. /\ s \in Server /\ s.tabs = servers[inMap].tabs \cup {t}
        /\ s.state = servers[inMap].state /\ s.files = servers[inMap].files
        /\ s.queued = servers[inMap].queued
    BY <2>1 DEF Server
  <2>3. servers' = [servers EXCEPT ![inMap] = s]
    BY <1>2
  <2> HIDE DEF s
  <2>4. /\ servers' \in Seq(Server) /\ Len(servers') = Len(servers)
        /\ DOMAIN servers' = DOMAIN servers /\ servers'[inMap] = s
        /\ \A j \in DOMAIN servers : j # inMap => servers'[j] = servers[j]
    BY <2>1, <2>2, <2>3, BecomesServer DEF ServersTypeOK
  <2>5. ServersTypeOK' /\ OpenHasTabs'
    BY <1>1, <1>2, <2>1, <2>2, <2>4 DEF ServersTypeOK, OpenHasTabs
  <2>6. HaveRead' = HaveRead
    BY <2>1, <2>2, <2>4 DEF HaveRead
  <2>7. \A j \in DOMAIN servers : /\ servers'[j].files = servers[j].files
                                  /\ servers'[j].queued = servers[j].queued
    BY <2>2, <2>4
  <2>8. CommitsKept'
    BY <1>1, <2>6, <2>7 DEF CommitsKept, HaveRead
  <2>9. QED
    BY <2>5, <2>8
<1>3. CASE /\ inMap = 0
           /\ \E source \in {t, NoSource} :
                servers' = Append(servers, NewServer(t, source))
           /\ inMap' = Len(servers) + 1
  <2>1. PICK source \in {t, NoSource} :
          servers' = Append(servers, NewServer(t, source))
    BY <1>3
  <2> DEFINE s == NewServer(t, source)
  <2>2. s \in Server /\ s.tabs = {t} /\ s.state = "new"
    BY DEF NewServer, Server
  <2>3. servers' = Append(servers, s)
    BY <2>1
  <2> HIDE DEF s
  <2>4. /\ servers' \in Seq(Server) /\ Len(servers') = Len(servers) + 1
        /\ Len(servers) \in Nat /\ DOMAIN servers = 1..Len(servers)
        /\ DOMAIN servers' = 1..(Len(servers) + 1)
        /\ servers'[Len(servers) + 1] = s
        /\ \A j \in DOMAIN servers : servers'[j] = servers[j]
    BY <2>2, <2>3 DEF ServersTypeOK
  <2>5. DOMAIN servers' = DOMAIN servers \cup {inMap'}
    BY <1>3, <2>4
  <2>6. inMap' \notin DOMAIN servers /\ inMap' \in 0..Len(servers') /\ servers'[inMap'] = s
    BY <1>3, <2>4
  <2>7. ServersTypeOK' /\ OpenHasTabs'
    <3>1. \A j \in DOMAIN servers : servers[j].tabs = {} /\ j # inMap'
      BY <1>3, <2>6 DEF ServersTypeOK
    <3>2. \A j \in DOMAIN servers' :
            /\ servers'[j].tabs # {} <=> j = inMap'
            /\ servers'[j].state = "closing" => j # inMap'
            /\ servers'[j].state = "open" => servers'[j].tabs # {}
      BY <2>2, <2>4, <2>5, <2>6, <3>1 DEF OpenHasTabs
    <3>3. QED
      BY <1>1, <2>4, <2>6, <3>2 DEF ServersTypeOK, OpenHasTabs
  <2>8. HaveRead' = HaveRead
    BY <2>2, <2>4, <2>5, <2>6 DEF HaveRead
  <2>9. CommitsKept'
    BY <1>1, <2>4, <2>8 DEF CommitsKept, HaveRead
  <2>10. QED
    BY <2>7, <2>9
<1>4. QED
  BY <1>2, <1>3 DEF Connect

\* The last tab of a server takes it out of the map.
LEMMA DisconnectInv ==
  ASSUME ServersInv, NEW t \in Visitors, Disconnect(t)
  PROVE  ServersInv'
<1> USE DEF ServersInv
<1>1. /\ visit' \in [Visitors -> {"new", "connected", "left", "crashed"}]
      /\ UNCHANGED <<inStorage, commits, drawn, doomed, met>>
  BY DEF Disconnect, ServersTypeOK
<1>2. PICK i \in DOMAIN servers :
        /\ t \in servers[i].tabs
        /\ LET s == [servers[i] EXCEPT !.tabs = @ \ {t}]
           IN  /\ servers' = [servers EXCEPT ![i] =
                                IF s.tabs = {} THEN ShutDown(s) ELSE s]
               /\ inMap' = IF s.tabs = {} THEN 0 ELSE inMap
  BY DEF Disconnect
<1> DEFINE left == [servers[i] EXCEPT !.tabs = @ \ {t}]
           s == IF left.tabs = {} THEN ShutDown(left) ELSE left
<1>3. /\ servers[i] \in Server /\ i = inMap /\ servers[i].state # "closing"
  BY <1>2 DEF ServersTypeOK
<1>4. /\ left \in Server /\ left.tabs = servers[i].tabs \ {t}
      /\ left.state = servers[i].state /\ left.files = servers[i].files
      /\ left.queued = servers[i].queued
  BY <1>3 DEF Server
<1>5. /\ servers' = [servers EXCEPT ![i] = s]
      /\ inMap' = IF left.tabs = {} THEN 0 ELSE inMap
  BY <1>2
<1>6. /\ s \in Server /\ s.tabs = left.tabs /\ s.files = servers[i].files
      /\ s.queued = servers[i].queued
      /\ s.state = "open" => s.tabs # {}
      /\ s.state = "closing" => s.tabs = {}
      /\ (s.state \in {"asks", "open", "closing"}) <=> (i \in HaveRead)
  <2> HIDE DEF left
  <2>1. CASE left.tabs = {}
    BY <1>3, <1>4, <2>1 DEF ShutDown, Server, HaveRead
  <2>2. CASE left.tabs # {}
    BY <1>3, <1>4, <2>2 DEF HaveRead
  <2>3. QED
    BY <2>1, <2>2
<1> HIDE DEF left, s
<1>7. /\ servers' \in Seq(Server) /\ Len(servers') = Len(servers)
      /\ DOMAIN servers' = DOMAIN servers /\ servers'[i] = s
      /\ \A j \in DOMAIN servers : j # i => servers'[j] = servers[j]
  BY <1>5, <1>6, BecomesServer DEF ServersTypeOK
<1>8. ServersTypeOK' /\ OpenHasTabs'
  <2>1. inMap' \in 0..Len(servers')
    BY <1>5, <1>7 DEF ServersTypeOK
  <2>2. \A j \in DOMAIN servers' :
          /\ servers'[j].tabs # {} <=> j = inMap'
          /\ servers'[j].state = "closing" => j # inMap'
          /\ servers'[j].state = "open" => servers'[j].tabs # {}
    <3>1. 0 \notin DOMAIN servers
      BY DEF ServersTypeOK
    <3>2. QED
      BY <1>3, <1>5, <1>6, <1>7, <3>1 DEF ServersTypeOK, OpenHasTabs
  <2>3. QED
    BY <1>1, <1>7, <2>1, <2>2 DEF ServersTypeOK, OpenHasTabs
<1>9. HaveRead' = HaveRead
  BY <1>6, <1>7 DEF HaveRead
<1>10. \A j \in DOMAIN servers : /\ servers'[j].files = servers[j].files
                                 /\ servers'[j].queued = servers[j].queued
  BY <1>6, <1>7
<1>11. CommitsKept'
  BY <1>1, <1>9, <1>10 DEF CommitsKept, HaveRead
<1>12. QED
  BY <1>8, <1>11

LEMMA VanishInv ==
  ASSUME ServersInv, NEW t \in Visitors, Vanish(t)
  PROVE  ServersInv'
BY DEF ServersInv, Vanish, ServersTypeOK, OpenHasTabs, CommitsKept, HaveRead

-----------------------------------------------------------------------------
(* Opening and closing. *)

LEMMA QuietStepInv ==
  ASSUME ServersInv, NEW i \in DOMAIN servers,
         Open(i) \/ ConnectStorage(i) \/ GiveDatabase(i) \/ OpeningFails(i)
  PROVE  ServersInv'
<1>1. servers[i] \in Server
  BY DEF ServersInv, ServersTypeOK
<1>2. /\ visit' \in [Visitors -> {"new", "connected", "left", "crashed"}]
      /\ UNCHANGED <<inMap, inStorage, commits, drawn, met>>
      /\ doomed' \in BOOLEAN
  BY DEF Open, ConnectStorage, GiveDatabase, OpeningFails, ServersInv, ServersTypeOK
<1>3. PICK pc \in {"opening", "reads", "open", "closing", "failed", "closed"} :
        /\ Becomes(i, [servers[i] EXCEPT !.state = pc])
        /\ pc = "closing" => servers[i].tabs = {}
        /\ pc = "open" => servers[i].tabs # {}
        /\ (pc \in {"open", "closing"}) <=> (i \in HaveRead)
  BY DEF Open, ConnectStorage, GiveDatabase, OpeningFails, HasOpened, HaveRead
<1> DEFINE s == [servers[i] EXCEPT !.state = pc]
<1>4. /\ s \in Server /\ s.tabs = servers[i].tabs /\ s.files = servers[i].files
      /\ s.queued = servers[i].queued /\ s.state = pc
  BY <1>1 DEF Server
<1>5. Becomes(i, s)
  BY <1>3
<1> HIDE DEF s
<1>6. QED
  BY <1>2, <1>3, <1>4, <1>5, QuietInv

\* The server that reads the files while no other has them read: what is in
\* storage are all commits.
LEMMA ReadFilesInv ==
  ASSUME ServersInv, NEW i \in DOMAIN servers, ReadFiles(i)
  PROVE  ServersInv'
<1> USE DEF ServersInv
<1> DEFINE there == inStorage # NoDatabase
           read == [servers[i] EXCEPT !.files = inStorage \cup {0},
                                      !.queued = ~there]
           s == IF there \/ read.source = NoSource THEN HasOpened(read)
                ELSE [read EXCEPT !.state = "asks"]
<1>1. /\ Becomes(i, s)
      /\ met' = (met \/ \E j \in Connected \ {i} :
                          read.tabs = {} \/ servers[j].tabs = {})
      /\ UNCHANGED <<visit, inMap, inStorage, commits, drawn, doomed>>
      /\ servers[i].state = "reads"
  BY DEF ReadFiles
<1>2. servers[i] \in Server
  BY DEF ServersTypeOK
<1>3. /\ read \in Server /\ read.tabs = servers[i].tabs
      /\ read.files = inStorage \cup {0}
  <2>1. inStorage \cup {0} \subseteq 0..MaxCommits
    BY CommitCounts DEF ServersTypeOK
  <2>2. there \in BOOLEAN
    OBVIOUS
  <2> HIDE DEF there
  <2>3. QED
    BY <1>2, <2>1, <2>2 DEF Server
<1>4. /\ s \in Server /\ s.tabs = servers[i].tabs
      /\ s.files = inStorage \cup {0}
      /\ s.state \in {"asks", "open", "closing"}
      /\ s.state = "closing" => s.tabs = {}
      /\ s.state = "open" => s.tabs # {}
  <2> HIDE DEF read
  <2>1. QED
    BY <1>3 DEF HasOpened, Server
<1> HIDE DEF s, read, there
<1>5. /\ servers' \in Seq(Server) /\ Len(servers') = Len(servers)
      /\ DOMAIN servers' = DOMAIN servers /\ servers'[i] = s
      /\ \A j \in DOMAIN servers : j # i => servers'[j] = servers[j]
  BY <1>1, <1>4, BecomesServer DEF ServersTypeOK, Becomes
<1>6. ServersTypeOK' /\ OpenHasTabs'
  <2>1. met' \in BOOLEAN
    BY <1>1 DEF ServersTypeOK
  <2>2. \A j \in DOMAIN servers' :
          /\ servers'[j].tabs # {} <=> j = inMap'
          /\ servers'[j].state = "closing" => j # inMap'
          /\ servers'[j].state = "open" => servers'[j].tabs # {}
    BY <1>1, <1>4, <1>5 DEF ServersTypeOK, OpenHasTabs
  <2>3. QED
    BY <1>1, <1>5, <2>1, <2>2 DEF ServersTypeOK, OpenHasTabs
<1>7. CommitsKept'
  <2> SUFFICES ASSUME ~met'
               PROVE  /\ HaveRead' = {i}
                      /\ commits \subseteq inStorage
    BY <1>1, <1>4, <1>5 DEF CommitsKept
  <2>1. ~met /\ \A j \in Connected \ {i} : servers[i].tabs # {} /\ servers[j].tabs # {}
    BY <1>1, <1>3
  <2>2. \A j \in Connected : j = i
    BY <2>1 DEF Connected, ServersTypeOK
  <2>3. HaveRead = {}
    BY <1>1, <2>2 DEF Connected, HaveRead
  <2>4. HaveRead' = {i}
    BY <1>4, <1>5, <2>3 DEF HaveRead
  <2>5. QED
    BY <2>1, <2>3, <2>4 DEF CommitsKept
<1>8. QED
  BY <1>6, <1>7

\* The server that commits, stores or closes is the only one with the files
\* in memory, or two have met.
LEMMA CommitToInv ==
  ASSUME ServersInv, NEW i \in DOMAIN servers, CommitTo(i)
  PROVE  ServersInv'
<1> USE DEF ServersInv
<1> DEFINE s == [servers[i] EXCEPT !.files = @ \cup {drawn'}, !.queued = TRUE]
<1>1. /\ Becomes(i, s) /\ drawn < MaxCommits /\ drawn' = drawn + 1
      /\ commits' = commits \cup {drawn'} /\ servers[i].state = "open"
      /\ UNCHANGED <<visit, inMap, inStorage, doomed, met>>
  BY DEF CommitTo
<1>2. drawn' \in 0..MaxCommits /\ drawn' \in 1..MaxCommits
  <2>1. drawn \in 0..MaxCommits
    BY DEF ServersTypeOK
  <2>2. drawn < MaxCommits /\ drawn' = drawn + 1
    BY <1>1
  <2>3. QED
    BY <2>1, <2>2, CommitCounts
<1>3. servers[i] \in Server
  BY DEF ServersTypeOK
<1>4. /\ s \in Server /\ s.tabs = servers[i].tabs /\ s.state = "open"
      /\ s.files = servers[i].files \cup {drawn'} /\ s.queued
  BY <1>1, <1>2, <1>3 DEF Server
<1> HIDE DEF s
<1>5. /\ servers' \in Seq(Server) /\ Len(servers') = Len(servers)
      /\ DOMAIN servers' = DOMAIN servers /\ servers'[i] = s
      /\ \A j \in DOMAIN servers : j # i => servers'[j] = servers[j]
  BY <1>1, <1>4, BecomesServer DEF ServersTypeOK, Becomes
<1>6. ServersTypeOK' /\ OpenHasTabs'
  <2>1. \A j \in DOMAIN servers' :
          /\ servers'[j].tabs # {} <=> j = inMap'
          /\ servers'[j].state = "closing" => j # inMap'
          /\ servers'[j].state = "open" => servers'[j].tabs # {}
    BY <1>1, <1>4, <1>5 DEF ServersTypeOK, OpenHasTabs
  <2>2. commits' \subseteq 1..MaxCommits
    BY <1>1, <1>2 DEF ServersTypeOK
  <2>3. QED
    BY <1>1, <1>2, <1>5, <2>1, <2>2 DEF ServersTypeOK, OpenHasTabs
<1>7. HaveRead' = HaveRead /\ i \in HaveRead
  BY <1>1, <1>4, <1>5 DEF HaveRead
<1>8. CommitsKept'
  BY <1>1, <1>4, <1>5, <1>7 DEF CommitsKept
<1>9. QED
  BY <1>6, <1>8

LEMMA StoreChangesInv ==
  ASSUME ServersInv, NEW i \in DOMAIN servers, StoreChanges(i)
  PROVE  ServersInv'
<1> USE DEF ServersInv
<1> DEFINE s == [servers[i] EXCEPT !.queued = FALSE]
<1>1. /\ Becomes(i, s) /\ servers[i].state \in {"open", "closing"}
      /\ inStorage' = servers[i].files
      /\ UNCHANGED <<visit, inMap, commits, drawn, doomed, met>>
  BY DEF StoreChanges
<1>2. servers[i] \in Server
  BY DEF ServersTypeOK
<1>3. /\ s \in Server /\ s.tabs = servers[i].tabs
      /\ s.state = servers[i].state /\ s.files = servers[i].files
  BY <1>2 DEF Server
<1> HIDE DEF s
<1>4. /\ servers' \in Seq(Server) /\ Len(servers') = Len(servers)
      /\ DOMAIN servers' = DOMAIN servers /\ servers'[i] = s
      /\ \A j \in DOMAIN servers : j # i => servers'[j] = servers[j]
  BY <1>1, <1>3, BecomesServer DEF ServersTypeOK, Becomes
<1>5. ServersTypeOK' /\ OpenHasTabs'
  <2>1. \A j \in DOMAIN servers' :
          /\ servers'[j].tabs # {} <=> j = inMap'
          /\ servers'[j].state = "closing" => j # inMap'
          /\ servers'[j].state = "open" => servers'[j].tabs # {}
    BY <1>1, <1>3, <1>4 DEF ServersTypeOK, OpenHasTabs
  <2>2. inStorage' \subseteq 0..MaxCommits
    BY <1>1, <1>2 DEF Server
  <2>3. QED
    BY <1>1, <1>4, <2>1, <2>2 DEF ServersTypeOK, OpenHasTabs
<1>6. HaveRead' = HaveRead /\ i \in HaveRead
  BY <1>1, <1>3, <1>4 DEF HaveRead
<1>7. CommitsKept'
  BY <1>1, <1>3, <1>4, <1>6 DEF CommitsKept
<1>8. QED
  BY <1>5, <1>7

\* A connection is closed with nothing in the queue: if no two have met, all
\* commits are in storage.
LEMMA CloseFilesInv ==
  ASSUME ServersInv, NEW i \in DOMAIN servers, CloseFiles(i)
  PROVE  ServersInv'
<1> USE DEF ServersInv
<1> DEFINE s == [servers[i] EXCEPT !.state = "closed"]
<1>1. /\ Becomes(i, s) /\ servers[i].state = "closing" /\ ~servers[i].queued
      /\ UNCHANGED <<visit, inMap, drawn, met>>
      /\ \/ inStorage' = {} /\ commits' = {} /\ doomed' = FALSE
         \/ UNCHANGED <<inStorage, commits, doomed>>
  BY DEF CloseFiles, NoDatabase
<1>2. servers[i] \in Server
  BY DEF ServersTypeOK
<1>3. s \in Server /\ s.tabs = servers[i].tabs /\ s.state = "closed"
  BY <1>2 DEF Server
<1> HIDE DEF s
<1>4. /\ servers' \in Seq(Server) /\ Len(servers') = Len(servers)
      /\ DOMAIN servers' = DOMAIN servers /\ servers'[i] = s
      /\ \A j \in DOMAIN servers : j # i => servers'[j] = servers[j]
  BY <1>1, <1>3, BecomesServer DEF ServersTypeOK, Becomes
<1>5. ServersTypeOK' /\ OpenHasTabs'
  <2>1. \A j \in DOMAIN servers' :
          /\ servers'[j].tabs # {} <=> j = inMap'
          /\ servers'[j].state = "closing" => j # inMap'
          /\ servers'[j].state = "open" => servers'[j].tabs # {}
    BY <1>1, <1>3, <1>4 DEF ServersTypeOK, OpenHasTabs
  <2>2. /\ inStorage' \subseteq 0..MaxCommits /\ commits' \subseteq 1..MaxCommits
        /\ doomed' \in BOOLEAN
    BY <1>1 DEF ServersTypeOK
  <2>3. QED
    BY <1>1, <1>4, <2>1, <2>2 DEF ServersTypeOK, OpenHasTabs
<1>6. HaveRead' = HaveRead \ {i} /\ i \in HaveRead
  BY <1>1, <1>3, <1>4 DEF HaveRead
<1>7. CommitsKept'
  <2> SUFFICES ASSUME ~met' PROVE CommitsKept'
    BY DEF CommitsKept
  <2>1. HaveRead' = {} /\ commits \subseteq inStorage
    BY <1>1, <1>6 DEF CommitsKept
  <2>2. QED
    BY <1>1, <2>1 DEF CommitsKept
<1>8. QED
  BY <1>5, <1>7

LEMMA DeleteDatabaseInv ==
  ASSUME ServersInv, DeleteDatabase
  PROVE  ServersInv'
<1> USE DEF ServersInv, DeleteDatabase, NoDatabase
<1>1. ServersTypeOK' /\ OpenHasTabs'
  BY DEF ServersTypeOK, OpenHasTabs
<1>2. HaveRead' = HaveRead
  BY DEF HaveRead
<1>3. CASE Connected = {}
  <2>1. HaveRead = {}
    BY <1>3 DEF Connected, HaveRead
  <2>2. QED
    BY <1>1, <1>2, <1>3, <2>1 DEF CommitsKept
<1>4. CASE Connected # {}
  BY <1>1, <1>2, <1>4 DEF CommitsKept
<1>5. QED
  BY <1>3, <1>4

-----------------------------------------------------------------------------
LEMMA ServersNextInv == ServersInv /\ [ServersNext]_serverVars => ServersInv'
<1> SUFFICES ASSUME ServersInv, [ServersNext]_serverVars PROVE ServersInv'
  OBVIOUS
<1>1. ASSUME NEW t \in Visitors, Connect(t) \/ Disconnect(t) \/ Vanish(t)
      PROVE  ServersInv'
  BY <1>1, ConnectInv, DisconnectInv, VanishInv
<1>2. ASSUME NEW i \in DOMAIN servers,
             ServeStep(i) \/ OpeningFails(i) \/ CommitTo(i)
      PROVE  ServersInv'
  BY <1>2, QuietStepInv, ReadFilesInv, StoreChangesInv, CloseFilesInv,
     CommitToInv DEF ServeStep
<1>3. CASE UNCHANGED serverVars
  BY <1>3 DEF serverVars, ServersInv, ServersTypeOK, OpenHasTabs, CommitsKept, HaveRead
<1>4. QED
  BY <1>1, <1>2, <1>3, DeleteDatabaseInv DEF ServersNext

THEOREM ServersInvariant == ServersSpec => []ServersInv
BY ServersInitInv, ServersNextInv, PTL DEF ServersSpec

\* The types of the map and the servers, and that the tabs that are there are
\* all at the server in the map.
THEOREM ServersTypesOK == ServersSpec => []ServersTypeOK
<1>1. ServersInv => ServersTypeOK
  BY DEF ServersInv
<1>2. QED
  BY ServersInvariant, <1>1, PTL

\* The server of the tabs has every commit of those before it, unless files
\* were read next to a server on its way out (h6, close of A.ho).
THEOREM CommitsOutlast == ServersSpec => []CommitsOutlastServers
<1>1. ServersInv => CommitsOutlastServers
  BY DEF ServersInv, CommitsKept, CommitsOutlastServers, HaveRead
<1>2. QED
  BY ServersInvariant, <1>1, PTL

-----------------------------------------------------------------------------
(***************************************************************************)
(* The database server: what says in which transaction a statement runs.   *)
(***************************************************************************)

Users == {Statement(r) : r \in Slots} \cup {Inner(e) : e \in Ids}

\* The state that says which statement runs in which transaction.
DriftTypes ==
  /\ req \in [Slots -> Requests]
  /\ nested \in [Clients -> Seq(Ids)]
  /\ executor \in Seq(Executors)
  /\ DOMAIN lock = Ids /\ \A e \in Ids : lock[e] \in Seq(Users)
  /\ raw \in Seq(Ids)
  /\ strays \subseteq Slots

\* There is an executor left for each request that is to make one.
RoomIsKept == Len(executor) + Cardinality(Making) <= MaxExecutors

\* Transactions are made one after the other, the inner ones later.
ParentsEarlier(s) ==
  /\ \A i \in DOMAIN s : s[i] \in 1..Len(executor)
  /\ \A i, j \in DOMAIN s : i < j => s[i] < s[j]

InQueue == {"turn", "passed", "lock"}
Starting == {"begin", "begun"}

\* A request a client awaits is for the innermost transaction it knows.
Fits(r) ==
  Outstanding(r) =>
    /\ IF r[2] = "main" THEN req[r].on = Innermost(ClientOf(r))
       ELSE req[r].kind = "statement" /\ ClientOf(r) \in Hasty
    /\ req[r].pc = "release" => req[r].kind \in {"commit", "rollback"}
    /\ req[r].kind \in {"commit", "rollback"} => nested[ClientOf(r)] # <<>>
    /\ req[r].pc \in Starting =>
         /\ req[r].kind = "begin"
         /\ req[r].on < req[r].makes /\ req[r].makes <= Len(executor)
    /\ req[r].pc = "begin" =>
         /\ \A i \in DOMAIN raw : raw[i] # req[r].makes
         /\ executor[req[r].makes].parent = req[r].on
    /\ req[r].pc \in InQueue /\ req[r].kind \in {"open", "begin"} =>
         req[r].makes = 0

OwnExecutors ==
  \A r, s \in Slots :
    /\ req[r].pc \in Starting /\ req[s].pc \in Starting
    /\ req[r].makes = req[s].makes
    => r = s

\* The transactions of a client that SQLite has.
Of(c) ==
  LET q == req[<<c, "main">>]
  IN  CASE q.pc = "release" -> Front(nested[c])
        [] q.pc = "begun" -> Append(nested[c], q.makes)
        [] OTHER -> nested[c]

OneAtATime ==
  /\ \A c \in Clients : Of(c) = <<>> \/ Of(c) = raw
  /\ \A c, d \in Clients : Of(c) # <<>> /\ Of(d) # <<>> => c = d

\* A transaction has the lock of the executor around it.
Around(i) == IF i = 1 THEN Connection ELSE raw[i - 1]
ParentsAround == \A i \in DOMAIN raw : executor[raw[i]].parent = Around(i)
LocksAreHeld == \A i \in DOMAIN raw : Holds(Around(i), Inner(raw[i]))

DriftInv ==
  /\ DriftTypes /\ RoomIsKept
  /\ ParentsEarlier(raw) /\ \A c \in Clients : ParentsEarlier(nested[c])
  /\ \A r \in Slots : Fits(r)
  /\ OwnExecutors /\ OneAtATime /\ ParentsAround /\ LocksAreHeld /\ Isolated

-----------------------------------------------------------------------------
LEMMA SlotsAre ==
  ASSUME NEW r \in Slots
  PROVE  /\ ClientOf(r) \in Clients /\ r[2] \in {"main", "loose"}
         /\ r = <<ClientOf(r), r[2]>>
         /\ r[2] = "main" => r = <<ClientOf(r), "main">>
BY DEF Slots, ClientOf

LEMMA MainSlots == \A c \in Clients : /\ <<c, "main">> \in Slots /\ <<c, "loose">> \in Slots
                                      /\ ClientOf(<<c, "main">>) = c
                                      /\ ClientOf(<<c, "loose">>) = c
BY DEF Slots, ClientOf

LEMMA SlotsAreFinite == IsFiniteSet(Slots)
<1>1. IsFiniteSet(Clients)
  BY ServerAssumption
<1>2. IsFiniteSet({"main", "loose"})
  <2>1. {"main", "loose"} = {"main"} \cup {"loose"}
    OBVIOUS
  <2>2. IsFiniteSet({"main"}) /\ IsFiniteSet({"loose"})
    BY FS_Singleton
  <2>3. IsFiniteSet({"main"} \cup {"loose"})
    BY <2>2, FS_Union
  <2>4. QED
    BY <2>1, <2>3
<1>3. QED
  BY <1>1, <1>2, FS_Product DEF Slots

LEMMA ExecutorIds == 0 \in Ids /\ Ids \subseteq Nat
BY ServerAssumption DEF Ids

LEMMA DriftInitInv == DriftInit => DriftInv
<1> SUFFICES ASSUME DriftInit PROVE DriftInv
  OBVIOUS
<1>1. Idle \in Requests /\ \A r \in Slots : req[r] = Idle /\ req[r].pc = "idle"
  BY ExecutorIds DEF DriftInit, Idle, Requests
<1>2. DriftTypes
  BY <1>1 DEF DriftInit, DriftTypes
<1>3. RoomIsKept
  <2>1. Making = {}
    BY <1>1 DEF Making, Outstanding
  <2>2. Cardinality(Making) = 0 /\ Len(executor) = 0
    BY <2>1, FS_EmptySet DEF DriftInit
  <2>3. QED
    BY <2>2, ServerAssumption DEF RoomIsKept
<1>4. ParentsEarlier(raw) /\ \A c \in Clients : ParentsEarlier(nested[c])
  BY DEF DriftInit, ParentsEarlier
<1>5. (\A r \in Slots : Fits(r)) /\ OwnExecutors
  BY <1>1 DEF Fits, Outstanding, OwnExecutors, Starting
<1>6. OneAtATime /\ ParentsAround /\ LocksAreHeld
  <2>1. \A c \in Clients : Of(c) = <<>>
    BY <1>1, MainSlots DEF Of, DriftInit
  <2>2. QED
    BY <2>1 DEF OneAtATime, ParentsAround, LocksAreHeld, DriftInit
<1>7. Isolated
  BY DEF DriftInit, Isolated
<1>8. QED
  BY <1>2, <1>3, <1>4, <1>5, <1>6, <1>7 DEF DriftInv

-----------------------------------------------------------------------------
(* Steps of one request that leave the transactions as they are. *)

\* Request r becomes q.
Turns(r, q) == q \in Requests /\ req' = [req EXCEPT ![r] = q]

LEMMA TurnsSays ==
  ASSUME DriftTypes, NEW r \in Slots, NEW q, Turns(r, q)
  PROVE  /\ req' \in [Slots -> Requests]
         /\ \A s \in Slots : req'[s] = IF s = r THEN q ELSE req[s]
BY DEF DriftTypes, Turns

\* Outstanding requests that have made an executor, or never will, use no room.
LEMMA RoomStays ==
  ASSUME RoomIsKept, Len(executor') = Len(executor), Making' \subseteq Making,
         Len(executor) \in Nat
  PROVE  RoomIsKept'
<1>1. IsFiniteSet(Making)
  BY SlotsAreFinite, FS_Subset DEF Making
<1>2. /\ Cardinality(Making) \in Nat /\ Cardinality(Making') \in Nat
      /\ Cardinality(Making') <= Cardinality(Making)
  BY <1>1, FS_Subset, FS_CardinalityType
<1>3. MaxExecutors \in Nat
  BY ServerAssumption
<1>4. QED
  BY <1>2, <1>3 DEF RoomIsKept

\* A request that was to make an executor makes it.
LEMMA RoomIsUsed ==
  ASSUME RoomIsKept, Len(executor') = Len(executor) + 1, Len(executor) \in Nat,
         NEW r \in Making, Making' \subseteq Making \ {r}
  PROVE  RoomIsKept' /\ Len(executor) + 1 \in Ids
<1>1. IsFiniteSet(Making)
  BY SlotsAreFinite, FS_Subset DEF Making
<1>2. /\ IsFiniteSet(Making \ {r})
      /\ Cardinality(Making \ {r}) = Cardinality(Making) - 1
  BY <1>1, FS_RemoveElement
<1>3. /\ Cardinality(Making) \in Nat /\ Cardinality(Making \ {r}) \in Nat
      /\ Cardinality(Making') \in Nat
      /\ Cardinality(Making') <= Cardinality(Making \ {r})
  BY <1>1, <1>2, FS_Subset, FS_CardinalityType
<1>4. MaxExecutors \in Nat
  BY ServerAssumption
<1>5. QED
  BY <1>2, <1>3, <1>4 DEF RoomIsKept, Ids

\* Executors are made, and closed.
ExecutorsKept ==
  /\ executor' \in Seq(Executors) /\ Len(executor) <= Len(executor')
  /\ \A e \in DOMAIN executor : executor'[e].parent = executor[e].parent

LEMMA LenExecutor ==
  ASSUME DriftTypes
  PROVE  Len(executor) \in Nat /\ DOMAIN executor = 1..Len(executor)
<1>1. executor \in Seq(Executors)
  BY DEF DriftTypes
<1>2. QED
  BY <1>1

\* What holds of the request that makes a step, and of the locks, is left to
\* the lemma of the step.
LEMMA SteadyInv ==
  ASSUME DriftInv, NEW r \in Slots, NEW q, Turns(r, q),
         UNCHANGED <<nested, raw>>,
         ExecutorsKept, RoomIsKept',
         q.pc \notin Starting \cup {"release"},
         req[r].pc \notin {"begun", "release"},
         q.pc \notin Answers \cup {"idle"} =>
           /\ IF r[2] = "main" THEN q.on = Innermost(ClientOf(r))
              ELSE q.kind = "statement" /\ ClientOf(r) \in Hasty
           /\ q.kind \in {"commit", "rollback"} => nested[ClientOf(r)] # <<>>
           /\ q.pc \in InQueue /\ q.kind \in {"open", "begin"} => q.makes = 0,
         DOMAIN lock' = Ids, \A e \in Ids : lock'[e] \in Seq(Users),
         LocksAreHeld',
         strays' \subseteq Slots, Isolated'
  PROVE  DriftInv'
<1>1. /\ req' \in [Slots -> Requests]
      /\ \A s \in Slots : req'[s] = IF s = r THEN q ELSE req[s]
  BY TurnsSays DEF DriftInv
<1>2. DriftTypes'
  BY <1>1 DEF DriftInv, DriftTypes, ExecutorsKept
<1>3. /\ Len(executor) \in Nat /\ Len(executor') \in Nat
      /\ DOMAIN executor = 1..Len(executor)
      /\ 1..Len(executor) \subseteq 1..Len(executor')
  <2>1. Len(executor) \in Nat /\ DOMAIN executor = 1..Len(executor)
    BY LenExecutor DEF DriftInv
  <2>2. Len(executor') \in Nat /\ Len(executor) <= Len(executor')
    BY DEF ExecutorsKept
  <2>3. QED
    BY <2>1, <2>2
<1>4. ASSUME NEW s \in Slots PROVE Fits(s)'
  <2>1. CASE s = r
    BY <1>1, <2>1 DEF Fits, Outstanding, Innermost, Starting
  <2>2. CASE s # r
    <3>1. req'[s] = req[s] /\ req[s] \in Requests
      BY <1>1, <2>2 DEF DriftInv, DriftTypes
    <3>2. req[s].makes \in Nat /\ req[s].on \in Nat
      BY <3>1, ExecutorIds DEF Requests
    <3>3. Fits(s)
      BY DEF DriftInv
    <3>4. req[s].makes <= Len(executor) => req[s].makes <= Len(executor')
      BY <1>3, <3>2 DEF ExecutorsKept
    <3>5. req[s].on < req[s].makes /\ req[s].makes <= Len(executor) =>
            executor'[req[s].makes].parent = executor[req[s].makes].parent
      BY <1>3, <3>2 DEF ExecutorsKept
    <3>6. QED
      BY <3>1, <3>3, <3>4, <3>5 DEF Fits, Outstanding, Innermost, Starting
  <2>3. QED
    BY <2>1, <2>2
<1>9. ParentsEarlier(raw)' /\ (\A c \in Clients : ParentsEarlier(nested[c])')
  BY <1>3 DEF DriftInv, ParentsEarlier
<1>10. ParentsAround'
  BY <1>3 DEF DriftInv, ParentsEarlier, ParentsAround, Around, ExecutorsKept
<1>5. OwnExecutors'
  BY <1>1 DEF DriftInv, OwnExecutors
<1>6. \A c \in Clients : Of(c)' = Of(c)
  BY <1>1, MainSlots DEF Of, Starting
<1>7. OneAtATime'
  BY <1>6 DEF DriftInv, OneAtATime
<1>8. QED
  BY <1>2, <1>4, <1>5, <1>7, <1>9, <1>10 DEF DriftInv

LEMMA AroundIsId ==
  ASSUME DriftTypes, NEW i \in DOMAIN raw
  PROVE  Around(i) \in Ids /\ raw[i] \in Ids
BY ExecutorIds DEF DriftTypes, Around, Connection

LEMMA UsersDiffer ==
  /\ \A r, e : Statement(r) # Inner(e)
  /\ \A r \in Slots : Statement(r) \in Users
  /\ \A e \in Ids : Inner(e) \in Users
  /\ \A d, e : Inner(d) = Inner(e) => d = e
BY DEF Statement, Inner, Users

LEMMA AppendKeepsHead ==
  ASSUME NEW S, NEW s \in Seq(S), NEW x \in S
  PROVE  /\ Append(s, x) \in Seq(S) /\ Append(s, x) # <<>>
         /\ s # <<>> => Head(Append(s, x)) = Head(s)
<1>1. /\ Append(s, x) \in Seq(S) /\ Len(Append(s, x)) = Len(s) + 1
      /\ Len(s) \in Nat
  OBVIOUS
<1>2. s # <<>> => Head(Append(s, x)) = Head(s)
  OBVIOUS
<1>3. QED
  BY <1>1, <1>2

\* One more waits for a lock.
LEMMA LockGrows ==
  ASSUME DriftTypes, LocksAreHeld, NEW e, NEW u \in Users,
         lock' = [lock EXCEPT ![e] = Append(@, u)], UNCHANGED raw
  PROVE  /\ DOMAIN lock' = Ids /\ \A d \in Ids : lock'[d] \in Seq(Users)
         /\ LocksAreHeld'
<1>1. DOMAIN lock' = Ids
  BY DEF DriftTypes
<1>2. ASSUME NEW d \in Ids
      PROVE  /\ lock'[d] \in Seq(Users)
             /\ lock[d] # <<>> => lock'[d] # <<>> /\ Head(lock'[d]) = Head(lock[d])
  <2>1. lock[d] \in Seq(Users)
    BY DEF DriftTypes
  <2>2. lock'[d] = IF d = e THEN Append(lock[d], u) ELSE lock[d]
    BY DEF DriftTypes
  <2> HIDE DEF DriftTypes
  <2>3. /\ Append(lock[d], u) \in Seq(Users) /\ Append(lock[d], u) # <<>>
        /\ lock[d] # <<>> => Head(Append(lock[d], u)) = Head(lock[d])
    BY <2>1, AppendKeepsHead
  <2>4. QED
    BY <2>1, <2>2, <2>3
<1>3. LocksAreHeld'
  <2>1. ASSUME NEW i \in DOMAIN raw
        PROVE  lock'[Around(i)] # <<>> /\ Head(lock'[Around(i)]) = Inner(raw[i])
    BY <1>2, AroundIsId DEF LocksAreHeld, Holds
  <2>2. QED
    BY <2>1 DEF LocksAreHeld, Holds, Around
<1>4. QED
  BY <1>1, <1>2, <1>3

\* The holder of a lock gives it back, which is not an open transaction.
LEMMA LockPasses ==
  ASSUME DriftTypes, LocksAreHeld, NEW e, NEW u, Holds(e, u),
         \A i \in DOMAIN raw : u # Inner(raw[i]),
         lock' = [lock EXCEPT ![e] = Tail(@)], UNCHANGED raw
  PROVE  /\ DOMAIN lock' = Ids /\ \A d \in Ids : lock'[d] \in Seq(Users)
         /\ LocksAreHeld'
<1>1. DOMAIN lock' = Ids
  BY DEF DriftTypes
<1>2. ASSUME NEW d \in Ids
      PROVE  lock'[d] \in Seq(Users) /\ (d # e => lock'[d] = lock[d])
  <2>1. lock[d] \in Seq(Users) /\ (d = e => lock[d] # <<>>)
    BY DEF DriftTypes, Holds
  <2>2. lock'[d] = IF d = e THEN Tail(lock[d]) ELSE lock[d]
    BY DEF DriftTypes
  <2>3. lock[d] # <<>> => Tail(lock[d]) \in Seq(Users)
    BY <2>1
  <2>4. QED
    BY <2>1, <2>2, <2>3
<1>3. LocksAreHeld'
  <2>1. ASSUME NEW i \in DOMAIN raw
        PROVE  lock'[Around(i)] # <<>> /\ Head(lock'[Around(i)]) = Inner(raw[i])
    <3>1. lock[Around(i)] # <<>> /\ Head(lock[Around(i)]) = Inner(raw[i])
      BY DEF LocksAreHeld, Holds
    <3>2. Around(i) # e
      BY <3>1 DEF Holds
    <3>3. QED
      BY <1>2, <3>1, <3>2, AroundIsId
  <2>2. QED
    BY <2>1 DEF LocksAreHeld, Holds, Around
<1>4. QED
  BY <1>1, <1>2, <1>3

\* The transactions and the locks stay as they are.
LEMMA LocksStay ==
  ASSUME DriftTypes, LocksAreHeld, UNCHANGED <<raw, lock>>
  PROVE  /\ DOMAIN lock' = Ids /\ \A d \in Ids : lock'[d] \in Seq(Users)
         /\ LocksAreHeld'
BY DEF DriftTypes, LocksAreHeld, Holds, Around

LEMMA ExecutorsStay ==
  ASSUME DriftTypes, UNCHANGED executor
  PROVE  /\ ExecutorsKept /\ Len(executor') = Len(executor)
         /\ Len(executor) \in Nat
<1>1. executor \in Seq(Executors)
  BY DEF DriftTypes
<1>2. Len(executor) \in Nat /\ Len(executor) <= Len(executor)
  BY <1>1
<1>3. QED
  BY <1>1, <1>2 DEF ExecutorsKept

\* An executor changes its state.
LEMMA StateChanges ==
  ASSUME executor \in Seq(Executors), NEW e,
         NEW state \in {"waiting", "open", "closed"},
         executor' = [executor EXCEPT ![e].state = state]
  PROVE  ExecutorsKept /\ Len(executor') = Len(executor)
<1> USE DEF ExecutorsKept
<1>1. CASE e \in DOMAIN executor
  <2>1. [executor[e] EXCEPT !.state = state] \in Executors
    <3>1. PICK x \in Executors : executor[e] = x
      BY <1>1
    <3>2. [x EXCEPT !.state = state] \in Executors
      BY DEF Executors
    <3>3. QED
      BY <3>1, <3>2
  <2>2. PICK x \in Executors : x = [executor[e] EXCEPT !.state = state]
    BY <2>1
  <2>3. executor' = [executor EXCEPT ![e] = x]
    BY <2>2
  <2>4. /\ executor' \in Seq(Executors) /\ Len(executor') = Len(executor)
        /\ Len(executor) \in Nat
        /\ \A d \in DOMAIN executor :
             executor'[d] = IF d = e THEN x ELSE executor[d]
    BY <1>1, <2>3
  <2>5. x.parent = executor[e].parent
    <3>1. PICK y \in Executors : executor[e] = y
      BY <1>1
    <3>2. QED
      BY <2>2, <3>1 DEF Executors
  <2>6. QED
    BY <2>4, <2>5
<1>2. CASE e \notin DOMAIN executor
  <2>1. executor = [i \in DOMAIN executor |-> executor[i]]
    OBVIOUS
  <2>2. executor' = [i \in DOMAIN executor |-> executor[i]]
    BY <1>2, Zenon
  <2>3. executor' = executor
    BY <2>1, <2>2, Zenon
  <2>4. Len(executor) \in Nat
    OBVIOUS
  <2>5. Len(executor) <= Len(executor)
    BY <2>4
  <2>6. QED
    BY <2>3, <2>5, Zenon
<1>3. QED
  BY <1>1, <1>2

LEMMA Closed ==
  ASSUME executor \in Seq(Executors), NEW e,
         executor' = [executor EXCEPT ![e].state = "closed"]
  PROVE  ExecutorsKept /\ Len(executor') = Len(executor)
BY StateChanges

LEMMA Opened ==
  ASSUME executor \in Seq(Executors), NEW e,
         executor' = [executor EXCEPT ![e].state = "open"]
  PROVE  ExecutorsKept /\ Len(executor') = Len(executor)
BY StateChanges

-----------------------------------------------------------------------------
(* The steps. *)

LEMMA InnermostIsId ==
  ASSUME DriftTypes, NEW c \in Clients
  PROVE  Innermost(c) \in Ids
<1>1. nested[c] \in Seq(Ids)
  BY DEF DriftTypes
<1>2. QED
  BY <1>1, ExecutorIds DEF Innermost, Connection, Last

\* A step that sends a request.
LEMMA SendInv ==
  ASSUME DriftInv, NEW r \in Slots,
         NEW kind \in {"open", "statement", "begin", "commit", "rollback"},
         ~Outstanding(r),
         Send(r, kind, Innermost(ClientOf(r))),
         kind \in {"commit", "rollback"} => nested[ClientOf(r)] # <<>>,
         kind \in {"open", "begin"} => RoomForExecutor,
         r[2] = "loose" => kind = "statement" /\ ClientOf(r) \in Hasty,
         UNCHANGED <<nested, executor, lock, raw, strays>>
  PROVE  DriftInv'
<1>0. PICK q : q = [Idle EXCEPT !.pc = "turn", !.kind = kind,
                                !.on = Innermost(ClientOf(r))]
  OBVIOUS
<1>1. /\ q \in Requests /\ q.pc = "turn" /\ q.kind = kind
      /\ q.on = Innermost(ClientOf(r)) /\ q.makes = 0
  <2>1. Innermost(ClientOf(r)) \in Ids
    BY SlotsAre, InnermostIsId DEF DriftInv
  <2>2. QED
    BY <1>0, <2>1, ExecutorIds DEF Idle, Requests
<1>2. Turns(r, q)
  BY <1>0, <1>1 DEF Send, Turns
<1>3. /\ ExecutorsKept
      /\ Len(executor) \in Nat /\ Len(executor') = Len(executor)
  BY ExecutorsStay DEF DriftInv
<1>4. \A s \in Slots : req'[s] = IF s = r THEN q ELSE req[s]
  BY <1>2, TurnsSays DEF DriftInv
<1>5. RoomIsKept'
  <2>1. CASE kind \in {"open", "begin"}
    <3>1. Making' \subseteq Making \cup {r}
      BY <1>4 DEF Making, Outstanding
    <3>2. IsFiniteSet(Making) /\ Cardinality(Making) \in Nat
      BY SlotsAreFinite, FS_Subset, FS_CardinalityType DEF Making
    <3>3. /\ IsFiniteSet(Making \cup {r})
          /\ Cardinality(Making \cup {r}) <= Cardinality(Making) + 1
      <4>1. /\ IsFiniteSet(Making \cup {r})
            /\ \/ Cardinality(Making \cup {r}) = Cardinality(Making)
               \/ Cardinality(Making \cup {r}) = Cardinality(Making) + 1
        BY <3>2, FS_AddElement, Zenon
      <4>2. QED
        BY <3>2, <4>1
    <3>4. /\ Cardinality(Making \cup {r}) \in Nat /\ Cardinality(Making') \in Nat
          /\ Cardinality(Making') <= Cardinality(Making \cup {r})
      BY <3>1, <3>3, FS_Subset, FS_CardinalityType
    <3>5. MaxExecutors \in Nat /\ Len(executor) + Cardinality(Making) < MaxExecutors
      BY <2>1, ServerAssumption DEF RoomForExecutor
    <3>6. QED
      BY <1>3, <3>2, <3>3, <3>4, <3>5 DEF RoomIsKept
  <2>2. CASE kind \notin {"open", "begin"}
    <3>1. Making' \subseteq Making
      BY <1>1, <1>4, <2>2 DEF Making, Outstanding
    <3>2. QED
      BY <1>3, <3>1, RoomStays DEF DriftInv
  <2>3. QED
    BY <2>1, <2>2
<1>6. q.pc \notin Starting \cup {"release"} /\ req[r].pc \notin {"begun", "release"}
  BY <1>1 DEF Starting, Outstanding, Answers
<1>7. q.pc \notin Answers \cup {"idle"} =>
           /\ IF r[2] = "main" THEN q.on = Innermost(ClientOf(r))
              ELSE q.kind = "statement" /\ ClientOf(r) \in Hasty
           /\ q.kind \in {"commit", "rollback"} => nested[ClientOf(r)] # <<>>
           /\ q.pc \in InQueue /\ q.kind \in {"open", "begin"} => q.makes = 0
  BY <1>1, SlotsAre
<1>8. /\ DOMAIN lock' = Ids /\ \A d \in Ids : lock'[d] \in Seq(Users)
      /\ LocksAreHeld'
  BY LocksStay DEF DriftInv
<1>9. strays' \subseteq Slots /\ Isolated'
  BY DEF DriftInv, DriftTypes, Isolated
<1>10. QED
  BY <1>2, <1>3, <1>5, <1>6, <1>7, <1>8, <1>9, SteadyInv

LEMMA AskInv ==
  ASSUME DriftInv, NEW c \in Clients,
         NEW kind \in {"open", "statement", "begin", "commit", "rollback"},
         Ask(c, kind)
  PROVE  DriftInv'
<1>1. /\ <<c, "main">> \in Slots /\ ClientOf(<<c, "main">>) = c
      /\ <<c, "main">>[2] # "loose"
  BY MainSlots
<1>2. QED
  BY <1>1, SendInv DEF Ask

LEMMA AskLooselyInv ==
  ASSUME DriftInv, NEW c \in Clients, AskLoosely(c)
  PROVE  DriftInv'
<1>1. <<c, "loose">> \in Slots /\ ClientOf(<<c, "loose">>) = c
  BY MainSlots
<1>2. QED
  BY <1>1, SendInv DEF AskLoosely

\* Nothing of this changes.
LEMMA NothingChangesInv ==
  ASSUME DriftInv, UNCHANGED <<nested, req, executor, lock, raw, strays>>
  PROVE  DriftInv'
<1>1. UNCHANGED <<nested, req, executor, lock, raw, strays>>
  OBVIOUS
<1>2. DriftTypes' /\ Isolated' /\ LocksAreHeld' /\ ParentsAround'
  BY <1>1 DEF DriftInv, DriftTypes, Isolated, LocksAreHeld, Holds, Around,
              ParentsAround
<1>3. Making' = Making
  BY <1>1 DEF Making, Outstanding
<1>4. RoomIsKept' /\ ParentsEarlier(raw)' /\ \A d \in Clients : ParentsEarlier(nested[d])'
  BY <1>1, <1>3 DEF DriftInv, RoomIsKept, ParentsEarlier
<1>5. (\A r \in Slots : Fits(r))' /\ OwnExecutors'
  BY <1>1 DEF DriftInv, Fits, Outstanding, Innermost, OwnExecutors
<1>6. OneAtATime'
  BY <1>1 DEF DriftInv, OneAtATime, Of
<1>7. QED
  BY <1>2, <1>4, <1>5, <1>6 DEF DriftInv

LEMMA LeaveInv ==
  ASSUME DriftInv, NEW c \in Clients, Leave(c)
  PROVE  DriftInv'
BY NothingChangesInv DEF Leave

\* A request goes on and stays the same otherwise, or it is answered;
\* transactions are as they were.
LEMMA GoesOnInv ==
  ASSUME DriftInv, NEW r \in Slots, NEW q, Turns(r, q),
         \/ /\ Outstanding(r)
            /\ \/ q.pc = req[r].pc /\ q.pc \notin Starting \cup {"release"}
               \/ {req[r].pc, q.pc} \subseteq InQueue
            /\ q.on = req[r].on /\ q.kind = req[r].kind /\ q.makes = req[r].makes
         \/ /\ req[r].pc \notin {"begun", "release"}
            /\ q.pc \in Answers,
         UNCHANGED <<nested, raw>>,
         ExecutorsKept, Len(executor') = Len(executor),
         DOMAIN lock' = Ids, \A e \in Ids : lock'[e] \in Seq(Users),
         LocksAreHeld',
         strays' \subseteq Slots, Isolated'
  PROVE  DriftInv'
<1>1. \A s \in Slots : req'[s] = IF s = r THEN q ELSE req[s]
  BY TurnsSays DEF DriftInv
<1>2. Len(executor) \in Nat
  BY LenExecutor DEF DriftInv
<1>3. Making' \subseteq Making
  BY <1>1 DEF Making, Outstanding
<1>4. RoomIsKept'
  BY <1>2, <1>3, RoomStays DEF DriftInv
<1>5. q.pc \notin Starting \cup {"release"} /\ req[r].pc \notin {"begun", "release"}
  BY DEF Starting, Answers, InQueue
<1>6. q.pc \notin Answers \cup {"idle"} =>
           /\ IF r[2] = "main" THEN q.on = Innermost(ClientOf(r))
              ELSE q.kind = "statement" /\ ClientOf(r) \in Hasty
           /\ q.kind \in {"commit", "rollback"} => nested[ClientOf(r)] # <<>>
           /\ q.pc \in InQueue /\ q.kind \in {"open", "begin"} => q.makes = 0
  BY DEF DriftInv, Fits
<1>7. QED
  BY <1>2, <1>4, <1>5, <1>6, SteadyInv

LEMMA AnswerTurns ==
  ASSUME DriftTypes, NEW r \in Slots, NEW a \in Answers, Answer(r, a)
  PROVE  \E q : Turns(r, q) /\ q.pc = a /\ q.pc \in Answers
<1>1. PICK q : q = [Idle EXCEPT !.pc = a]
  OBVIOUS
<1>2. q \in Requests /\ q.pc = a
  BY <1>1, ExecutorIds DEF Idle, Requests, Answers
<1>3. QED
  BY <1>1, <1>2 DEF Answer, Turns

LEMMA GoesToTurns ==
  ASSUME DriftTypes, NEW r \in Slots, GoTo(r, "passed") \/ GoTo(r, "lock")
  PROVE  \E q : /\ Turns(r, q) /\ q.pc \in {"passed", "lock"}
                /\ q.on = req[r].on /\ q.kind = req[r].kind /\ q.makes = req[r].makes
<1>1. PICK pc \in {"passed", "lock"} : GoTo(r, pc)
  OBVIOUS
<1>2. PICK x \in Requests : x = req[r]
  BY DEF DriftTypes
<1>3. PICK q : q = [x EXCEPT !.pc = pc]
  OBVIOUS
<1>4. q \in Requests /\ q.pc = pc /\ q.on = x.on /\ q.kind = x.kind /\ q.makes = x.makes
  BY <1>3 DEF Requests
<1>5. req' = [req EXCEPT ![r] = q]
  BY <1>1, <1>2, <1>3 DEF GoTo
<1>6. QED
  BY <1>2, <1>4, <1>5 DEF Turns

LEMMA TransactionsStay ==
  ASSUME DriftInv, UNCHANGED <<executor, raw, lock, strays>>
  PROVE  /\ ExecutorsKept /\ Len(executor') = Len(executor)
         /\ DOMAIN lock' = Ids /\ \A e \in Ids : lock'[e] \in Seq(Users)
         /\ LocksAreHeld'
         /\ strays' \subseteq Slots /\ Isolated'
<1>1. DriftTypes /\ LocksAreHeld /\ Isolated
  BY DEF DriftInv
<1>2. ExecutorsKept /\ Len(executor') = Len(executor)
  BY <1>1, ExecutorsStay
<1>5. strays' \subseteq Slots
  BY <1>1 DEF DriftTypes
<1>3. Isolated'
  BY <1>1 DEF Isolated
<1>4. QED
  BY <1>1, <1>2, <1>3, <1>5, LocksStay

LEMMA CancelInv ==
  ASSUME DriftInv, NEW r \in Slots, Cancel(r)
  PROVE  DriftInv'
<1>1. PICK x \in Requests : x = req[r]
  BY DEF DriftInv, DriftTypes
<1>2. PICK q : q = [x EXCEPT !.canceled = TRUE]
  OBVIOUS
<1>3. q \in Requests /\ q.pc = x.pc /\ q.on = x.on /\ q.kind = x.kind /\ q.makes = x.makes
  BY <1>2 DEF Requests
<1>4. Turns(r, q)
  BY <1>1, <1>2, <1>3 DEF Turns, Cancel
<1>5. req[r].pc \notin Starting \cup {"release"} /\ Outstanding(r)
  BY DEF Cancel, DriftInv, Fits
<1>6. QED
  BY <1>1, <1>3, <1>4, <1>5, TransactionsStay, GoesOnInv DEF Cancel

LEMMA PassTurnInv ==
  ASSUME DriftInv, NEW r \in Slots, PassTurn(r)
  PROVE  DriftInv'
<1>1. PICK q : /\ Turns(r, q) /\ q.pc \in {"passed", "lock"}
               /\ q.on = req[r].on /\ q.kind = req[r].kind /\ q.makes = req[r].makes
  BY GoesToTurns DEF PassTurn, DriftInv
<1>2. Outstanding(r) /\ {req[r].pc, q.pc} \subseteq InQueue
  BY <1>1 DEF PassTurn, Outstanding, Answers, InQueue
<1>4. QED
  BY <1>1, <1>2, TransactionsStay, GoesOnInv DEF PassTurn

LEMMA QueueOpenInv ==
  ASSUME DriftInv, NEW r \in Slots, QueueOpen(r)
  PROVE  DriftInv'
<1>1. PICK q : /\ Turns(r, q) /\ q.pc \in {"passed", "lock"}
               /\ q.on = req[r].on /\ q.kind = req[r].kind /\ q.makes = req[r].makes
  BY GoesToTurns DEF QueueOpen, DriftInv
<1>2. Outstanding(r) /\ {req[r].pc, q.pc} \subseteq InQueue
  BY <1>1 DEF QueueOpen, Outstanding, Answers, InQueue
<1>4. QED
  BY <1>1, <1>2, TransactionsStay, GoesOnInv DEF QueueOpen

LEMMA OpenEndsInv ==
  ASSUME DriftInv, NEW r \in Slots, OpenAgain(r) \/ OpenFails(r)
  PROVE  DriftInv'
<1>1. Answer(r, "answered") /\ "answered" \in Answers
  BY DEF OpenAgain, OpenFails, Answers
<1>2. PICK q : Turns(r, q) /\ q.pc \in Answers
  BY <1>1, AnswerTurns DEF DriftInv
<1>3. req[r].pc \notin {"begun", "release"}
  BY DEF OpenAgain, OpenFails
<1>4. UNCHANGED <<nested, executor, raw, lock, strays>>
  BY DEF OpenAgain, OpenFails
<1>5. QED
  BY <1>2, <1>3, <1>4, TransactionsStay, GoesOnInv

\* A statement waits for the lock of its executor.
LEMMA DispatchInv ==
  ASSUME DriftInv, NEW r \in Slots, Dispatch(r)
  PROVE  DriftInv'
<1>1. /\ Outstanding(r) /\ req[r].pc \in InQueue
      /\ req[r].pc \notin {"begun", "release"}
      /\ UNCHANGED <<nested, executor, raw, strays>>
  BY DEF Dispatch, Outstanding, Answers, InQueue
<1>2. /\ ExecutorsKept /\ Len(executor') = Len(executor)
      /\ strays' \subseteq Slots /\ Isolated'
  BY <1>1, ExecutorsStay DEF DriftInv, DriftTypes, Isolated
<1>3. CASE req[r].canceled
  <2>1. Answer(r, "canceled") /\ UNCHANGED lock /\ "canceled" \in Answers
    BY <1>3 DEF Dispatch, Answers
  <2>2. PICK q : Turns(r, q) /\ q.pc \in Answers
    BY <2>1, AnswerTurns DEF DriftInv
  <2>3. QED
    BY <1>1, <2>1, <2>2, TransactionsStay, GoesOnInv
<1>4. CASE ~req[r].canceled
  <2>1. /\ GoTo(r, "lock")
        /\ lock' = [lock EXCEPT ![req[r].on] = Append(@, Statement(r))]
    BY <1>4 DEF Dispatch
  <2>2. PICK q : /\ Turns(r, q) /\ q.pc \in {"passed", "lock"}
                 /\ q.on = req[r].on /\ q.kind = req[r].kind /\ q.makes = req[r].makes
    BY <2>1, GoesToTurns DEF DriftInv
  <2>3. {req[r].pc, q.pc} \subseteq InQueue
    BY <1>1, <2>2 DEF InQueue
  <2>4. /\ DOMAIN lock' = Ids /\ \A d \in Ids : lock'[d] \in Seq(Users)
        /\ LocksAreHeld'
    BY <1>1, <2>1, UsersDiffer, LockGrows DEF DriftInv
  <2>5. QED
    BY <1>1, <1>2, <2>2, <2>3, <2>4, GoesOnInv
<1>5. QED
  BY <1>3, <1>4

\* The transaction a request of a client waits in is the innermost that
\* SQLite has, unless the client does not await its statements.
LEMMA StatementInPlace ==
  ASSUME DriftInv, NEW r \in Slots, req[r].pc = "lock", r[2] = "main",
         Holds(req[r].on, Statement(r))
  PROVE  /\ InItsPlace(req[r].on)
         /\ nested[ClientOf(r)] # <<>> =>
              raw = nested[ClientOf(r)] /\ raw # <<>> /\ Last(raw) = req[r].on
<1> DEFINE c == ClientOf(r)
<1>1. c \in Clients /\ r = <<c, "main">>
  BY SlotsAre
<1>2. Of(c) = nested[c]
  BY <1>1 DEF Of
<1>3. req[r].on = Innermost(c)
  BY DEF DriftInv, Fits, Outstanding, Answers
<1>4. nested[c] \in Seq(Ids) /\ raw \in Seq(Ids)
  BY <1>1 DEF DriftInv, DriftTypes
<1> HIDE DEF c
<1>5. CASE nested[c] = <<>>
  <2>1. req[r].on = Connection
    BY <1>3, <1>5 DEF Innermost
  <2>2. ASSUME raw # <<>> PROVE FALSE
    <3>1. 1 \in DOMAIN raw
      BY <1>4, <2>2
    <3>2. Holds(Connection, Inner(raw[1]))
      BY <3>1 DEF DriftInv, LocksAreHeld, Around
    <3>3. QED
      BY <2>1, <3>2, UsersDiffer DEF Holds
  <2>3. QED
    BY <1>5, <2>1, <2>2 DEF InItsPlace, c
<1>6. CASE nested[c] # <<>>
  <2>1. raw = nested[c] /\ raw # <<>>
    BY <1>1, <1>2, <1>6 DEF DriftInv, OneAtATime
  <2>2. req[r].on = Last(raw)
    BY <1>3, <1>6, <2>1 DEF Innermost
  <2>3. Len(raw) \in DOMAIN raw
    BY <1>4, <2>1
  <2>4. Last(raw) \in 1..Len(executor)
    BY <2>3 DEF DriftInv, ParentsEarlier, Last
  <2>5. Len(executor) \in Nat
    BY LenExecutor DEF DriftInv
  <2>6. Last(raw) # Connection
    BY <2>4, <2>5 DEF Connection
  <2>7. QED
    BY <2>1, <2>2, <2>6 DEF InItsPlace, c
<1>7. QED
  BY <1>5, <1>6

LEMMA RunInv ==
  ASSUME DriftInv, NEW r \in Slots, Run(r)
  PROVE  DriftInv'
<1>1. /\ Outstanding(r) /\ req[r].pc = "lock"
      /\ req[r].pc \notin {"begun", "release"}
      /\ Holds(req[r].on, Statement(r))
      /\ lock' = [lock EXCEPT ![req[r].on] = Tail(@)]
      /\ UNCHANGED <<nested, executor, raw>>
  BY DEF Run, Unlock, Outstanding, Answers
<1>2. PICK q : Turns(r, q) /\ q.pc \in Answers
  <2>1. PICK a \in Answers : Answer(r, a)
    BY DEF Run, Answers
  <2>2. QED
    BY <2>1, AnswerTurns DEF DriftInv
<1>3. /\ DOMAIN lock' = Ids /\ \A d \in Ids : lock'[d] \in Seq(Users)
      /\ LocksAreHeld'
  <2>1. \A i \in DOMAIN raw : Statement(r) # Inner(raw[i])
    BY UsersDiffer
  <2>2. DriftTypes /\ LocksAreHeld
    BY DEF DriftInv
  <2>3. QED
    BY <1>1, <2>1, <2>2, LockPasses
<1>4. ExecutorsKept /\ Len(executor') = Len(executor)
  BY <1>1, ExecutorsStay DEF DriftInv
<1>5. strays' \subseteq Slots /\ Isolated'
  <2>1. strays \subseteq Slots /\ Isolated
    BY DEF DriftInv, DriftTypes
  <2>2. \/ strays' = strays
        \/ strays' = strays \cup {r} /\ ~InItsPlace(req[r].on)
    BY DEF Run
  <2>3. r[2] = "main" => InItsPlace(req[r].on)
    BY <1>1, StatementInPlace
  <2>4. r[2] # "main" => ClientOf(r) \in Hasty
    BY <1>1 DEF DriftInv, Fits
  <2>5. QED
    BY <2>1, <2>2, <2>3, <2>4 DEF Isolated
<1>6. QED
  BY <1>1, <1>2, <1>3, <1>4, <1>5, GoesOnInv

LEMMA CommitFailsInv ==
  ASSUME DriftInv, NEW r \in Slots, CommitFails(r)
  PROVE  DriftInv'
<1>1. /\ req[r].pc \notin {"begun", "release"}
      /\ Holds(req[r].on, Statement(r))
      /\ lock' = [lock EXCEPT ![req[r].on] = Tail(@)]
      /\ UNCHANGED <<nested, executor, raw, strays>>
      /\ Answer(r, "answered") /\ "answered" \in Answers
  BY DEF CommitFails, Unlock, Answers
<1>2. PICK q : Turns(r, q) /\ q.pc \in Answers
  BY <1>1, AnswerTurns DEF DriftInv
<1>3. /\ DOMAIN lock' = Ids /\ \A d \in Ids : lock'[d] \in Seq(Users)
      /\ LocksAreHeld'
  <2>1. \A i \in DOMAIN raw : Statement(r) # Inner(raw[i])
    BY UsersDiffer
  <2>2. DriftTypes /\ LocksAreHeld
    BY DEF DriftInv
  <2>3. QED
    BY <1>1, <2>1, <2>2, LockPasses
<1>4. /\ ExecutorsKept /\ Len(executor') = Len(executor)
      /\ strays' \subseteq Slots /\ Isolated'
  BY <1>1, ExecutorsStay DEF DriftInv, DriftTypes, Isolated
<1>5. QED
  BY <1>1, <1>2, <1>3, <1>4, GoesOnInv

LEMMA MigratedInv ==
  ASSUME DriftInv, NEW r \in Slots, Migrated(r)
  PROVE  DriftInv'
<1>1. /\ req[r].pc \notin {"begun", "release"}
      /\ executor' = [executor EXCEPT ![req[r].makes].state = "closed"]
      /\ UNCHANGED <<nested, lock, raw, strays>>
      /\ Answer(r, "answered") /\ "answered" \in Answers
  BY DEF Migrated, Answers
<1>2. PICK q : Turns(r, q) /\ q.pc \in Answers
  BY <1>1, AnswerTurns DEF DriftInv
<1>3. executor \in Seq(Executors) /\ strays \subseteq Slots /\ Isolated
  BY DEF DriftInv, DriftTypes
<1>4. ExecutorsKept /\ Len(executor') = Len(executor)
  BY <1>1, <1>3, Closed
<1>5. /\ DOMAIN lock' = Ids /\ \A d \in Ids : lock'[d] \in Seq(Users)
      /\ LocksAreHeld'
  BY <1>1, LocksStay DEF DriftInv
<1>6. strays' \subseteq Slots /\ Isolated'
  BY <1>1, <1>3 DEF Isolated
<1>7. QED
  BY <1>1, <1>2, <1>4, <1>5, <1>6, GoesOnInv

-----------------------------------------------------------------------------
(* Executors are made. *)

LEMMA OneMore ==
  ASSUME DriftTypes, NEW x \in Executors, executor' = Append(executor, x)
  PROVE  /\ ExecutorsKept /\ Len(executor') = Len(executor) + 1
         /\ executor'[Len(executor) + 1] = x
<1>1. executor \in Seq(Executors)
  BY DEF DriftTypes
<1>2. /\ executor' \in Seq(Executors) /\ Len(executor') = Len(executor) + 1
      /\ Len(executor) \in Nat
      /\ \A i \in DOMAIN executor : executor'[i] = executor[i]
      /\ executor'[Len(executor) + 1] = x
  BY <1>1
<1>3. QED
  BY <1>2 DEF ExecutorsKept

\* A request a client awaits is for the connection or for an executor there is.
LEMMA OnThere ==
  ASSUME DriftInv, NEW c \in Clients
  PROVE  /\ Innermost(c) \in 0..Len(executor)
         /\ nested[c] # <<>> => Innermost(c) = Last(nested[c])
         /\ \A i \in DOMAIN nested[c] : nested[c][i] <= Innermost(c)
<1>1. nested[c] \in Seq(Ids) /\ ParentsEarlier(nested[c]) /\ Len(executor) \in Nat
  BY LenExecutor DEF DriftInv, DriftTypes
<1>2. CASE nested[c] = <<>>
  BY <1>1, <1>2 DEF Innermost, Connection
<1>3. CASE nested[c] # <<>>
  <2>1. /\ Len(nested[c]) \in DOMAIN nested[c]
        /\ DOMAIN nested[c] = 1..Len(nested[c]) /\ Len(nested[c]) \in Nat
    BY <1>1, <1>3
  <2>2. Innermost(c) = nested[c][Len(nested[c])]
    BY <1>3 DEF Innermost, Last
  <2>3. nested[c][Len(nested[c])] \in 1..Len(executor)
    BY <1>1, <2>1 DEF ParentsEarlier
  <2>4. ASSUME NEW i \in DOMAIN nested[c] PROVE nested[c][i] <= Innermost(c)
    <3>1. i = Len(nested[c]) \/ i < Len(nested[c])
      BY <2>1
    <3>2. nested[c][i] \in 1..Len(executor)
      BY <1>1 DEF ParentsEarlier
    <3>3. i < Len(nested[c]) => nested[c][i] < nested[c][Len(nested[c])]
      BY <1>1, <2>1 DEF ParentsEarlier
    <3>4. QED
      BY <1>1, <2>2, <2>3, <3>1, <3>2, <3>3
  <2>5. QED
    BY <1>1, <1>3, <2>2, <2>3, <2>4 DEF Last
<1>4. QED
  BY <1>2, <1>3

\* The request of a transaction is one that its client awaits.
LEMMA MainOnly ==
  ASSUME DriftInv, NEW r \in Slots, Outstanding(r), req[r].kind # "statement"
  PROVE  /\ r[2] = "main" /\ r = <<ClientOf(r), "main">> /\ ClientOf(r) \in Clients
         /\ req[r].on = Innermost(ClientOf(r))
<1>1. Fits(r)
  BY DEF DriftInv
<1>2. QED
  BY <1>1, SlotsAre DEF Fits

LEMMA OpenFirstInv ==
  ASSUME DriftInv, NEW r \in Slots, OpenFirst(r)
  PROVE  DriftInv'
<1> DEFINE e == Len(executor) + 1
<1>1. DriftTypes /\ RoomIsKept /\ Len(executor) \in Nat
  BY LenExecutor DEF DriftInv
<1>2. PICK x \in Requests : x = req[r]
  BY <1>1 DEF DriftTypes
<1>3. PICK q : q = [x EXCEPT !.pc = "migrating", !.makes = e]
  OBVIOUS
<1>4. /\ Outstanding(r) /\ x.pc = "lock" /\ x.kind = "open"
      /\ req' = [req EXCEPT ![r].pc = "migrating", ![r].makes = e]
      /\ UNCHANGED <<nested, lock, raw, strays>>
  BY <1>2 DEF OpenFirst, Outstanding, Answers
<1>5. q.pc = "migrating" /\ q.on = x.on /\ q.kind = x.kind /\ q.makes = e
  BY <1>3 DEF Requests
<1>6. req' = [req EXCEPT ![r] = q]
  BY <1>2, <1>3, <1>4
<1>7. \A s \in Slots : req'[s] = IF s = r THEN q ELSE req[s]
  BY <1>1, <1>6 DEF DriftTypes
<1>8. PICK y : /\ y = [parent |-> Connection, owner |-> ClientOf(r), state |-> "open"]
               /\ executor' = Append(executor, y)
  BY DEF OpenFirst
<1>9. y \in Executors
  BY <1>8, SlotsAre, ExecutorIds DEF Executors, Connection
<1>10. ExecutorsKept /\ Len(executor') = Len(executor) + 1
  BY <1>1, <1>8, <1>9, OneMore
<1>11. RoomIsKept' /\ e \in Ids
  <2>1. r \in Making
    BY <1>2, <1>4 DEF Making, DriftInv, Fits, InQueue
  <2>2. Making' \subseteq Making \ {r}
    <3>1. e # 0
      BY <1>1
    <3>2. QED
      BY <1>5, <1>7, <3>1 DEF Making, Outstanding
  <2>3. QED
    BY <1>1, <1>10, <2>1, <2>2, RoomIsUsed
<1>12. q \in Requests
  BY <1>3, <1>11 DEF Requests
<1>13. Turns(r, q)
  BY <1>6, <1>12 DEF Turns
<1>14. q.pc \notin Starting \cup {"release"} /\ req[r].pc \notin {"begun", "release"}
  BY <1>2, <1>4, <1>5 DEF Starting
<1>15. q.pc \notin Answers \cup {"idle"} =>
           /\ IF r[2] = "main" THEN q.on = Innermost(ClientOf(r))
              ELSE q.kind = "statement" /\ ClientOf(r) \in Hasty
           /\ q.kind \in {"commit", "rollback"} => nested[ClientOf(r)] # <<>>
           /\ q.pc \in InQueue /\ q.kind \in {"open", "begin"} => q.makes = 0
  BY <1>2, <1>4, <1>5 DEF DriftInv, Fits, InQueue
<1>16. /\ DOMAIN lock' = Ids /\ \A d \in Ids : lock'[d] \in Seq(Users)
       /\ LocksAreHeld'
  BY <1>4, LocksStay DEF DriftInv
<1>17. strays' \subseteq Slots /\ Isolated'
  BY <1>4 DEF DriftInv, DriftTypes, Isolated
<1>18. QED
  BY <1>4, <1>10, <1>11, <1>13, <1>14, <1>15, <1>16, <1>17, SteadyInv

LEMMA SpawnInv ==
  ASSUME DriftInv, NEW r \in Slots, Spawn(r)
  PROVE  DriftInv'
<1> DEFINE e == Len(executor) + 1
           c == ClientOf(r)
<1>1. /\ DriftTypes /\ RoomIsKept /\ Len(executor) \in Nat
      /\ DOMAIN executor = 1..Len(executor)
  BY LenExecutor DEF DriftInv
<1>2. PICK x \in Requests : x = req[r]
  BY <1>1 DEF DriftTypes
<1>3. PICK q : q = [x EXCEPT !.pc = "begin", !.makes = e]
  OBVIOUS
<1>4. /\ Outstanding(r) /\ x.pc = "passed" /\ x.kind = "begin"
      /\ req' = [req EXCEPT ![r].pc = "begin", ![r].makes = e]
      /\ lock' = [lock EXCEPT ![x.on] = Append(@, Inner(e))]
      /\ UNCHANGED <<nested, raw, strays>>
  BY <1>2 DEF Spawn, Outstanding, Answers
<1>5. q.pc = "begin" /\ q.on = x.on /\ q.kind = "begin" /\ q.makes = e
  BY <1>3, <1>4 DEF Requests
<1>6. req' = [req EXCEPT ![r] = q]
  BY <1>2, <1>3, <1>4
<1>7. \A s \in Slots : req'[s] = IF s = r THEN q ELSE req[s]
  BY <1>1, <1>6 DEF DriftTypes
<1>8. PICK y : /\ y = [parent |-> x.on, owner |-> c, state |-> "waiting"]
               /\ executor' = Append(executor, y)
  BY <1>2 DEF Spawn
<1>9. y \in Executors /\ y.parent = x.on
  BY <1>8, SlotsAre DEF Executors, Requests
<1>10. ExecutorsKept /\ Len(executor') = Len(executor) + 1 /\ executor'[e] = y
  BY <1>1, <1>8, <1>9, OneMore
<1>11. RoomIsKept' /\ e \in Ids
  <2>1. r \in Making
    BY <1>2, <1>4 DEF Making, DriftInv, Fits, InQueue
  <2>2. Making' \subseteq Making \ {r}
    <3>1. e # 0
      BY <1>1
    <3>2. QED
      BY <1>5, <1>7, <3>1 DEF Making, Outstanding
  <2>3. QED
    BY <1>1, <1>10, <2>1, <2>2, RoomIsUsed
<1>12. q \in Requests
  BY <1>3, <1>11 DEF Requests
<1>13. /\ DOMAIN lock' = Ids /\ \A d \in Ids : lock'[d] \in Seq(Users)
       /\ LocksAreHeld'
  <2>1. Inner(e) \in Users
    BY <1>11, UsersDiffer
  <2>2. QED
    BY <1>1, <1>4, <2>1, LockGrows DEF DriftInv
<1>14. c \in Clients /\ r = <<c, "main">> /\ r[2] = "main" /\ x.on = Innermost(c)
  BY <1>2, <1>4, MainOnly
<1>15. x.on \in 0..Len(executor)
  BY <1>14, OnThere
<1> HIDE DEF c, e
<1>16. e = Len(executor) + 1
  BY DEF e
<1>17. DriftTypes'
  <2>1. req' \in [Slots -> Requests]
    BY <1>1, <1>6, <1>12 DEF DriftTypes
  <2>2. QED
    BY <1>1, <1>4, <1>10, <1>13, <2>1 DEF DriftTypes, ExecutorsKept
<1>18. ParentsEarlier(raw)' /\ (\A d \in Clients : ParentsEarlier(nested[d])')
  <2>1. 1..Len(executor) \subseteq 1..Len(executor')
    BY <1>1, <1>10
  <2>2. QED
    BY <1>4, <2>1 DEF DriftInv, ParentsEarlier
<1>19. \A i \in DOMAIN raw : raw[i] \in 1..Len(executor)
  BY DEF DriftInv, ParentsEarlier
<1>20. ASSUME NEW s \in Slots PROVE Fits(s)'
  <2>1. CASE s = r
    <3>1. q.on < q.makes /\ q.makes <= Len(executor')
      BY <1>1, <1>5, <1>10, <1>15, <1>16
    <3>2. \A i \in DOMAIN raw' : raw'[i] # q.makes
      BY <1>1, <1>4, <1>5, <1>16, <1>19
    <3>3. executor'[q.makes].parent = q.on
      BY <1>5, <1>9, <1>10
    <3>4. q.on = Innermost(c)'
      BY <1>4, <1>5, <1>14 DEF Innermost
    <3>5. c = ClientOf(r)
      BY DEF c
    <3>6. QED
      BY <1>5, <1>7, <1>14, <2>1, <3>1, <3>2, <3>3, <3>4, <3>5
         DEF Fits, Starting, InQueue
  <2>2. CASE s # r
    <3>1. req'[s] = req[s] /\ req[s] \in Requests
      BY <1>1, <1>7, <2>2 DEF DriftTypes
    <3>2. req[s].makes \in Nat /\ req[s].on \in Nat
      BY <3>1, ExecutorIds DEF Requests
    <3>3. Fits(s)
      BY DEF DriftInv
    <3>4. req[s].makes <= Len(executor) => req[s].makes <= Len(executor')
      BY <1>1, <1>10, <3>2
    <3>5. req[s].on < req[s].makes /\ req[s].makes <= Len(executor) =>
            executor'[req[s].makes].parent = executor[req[s].makes].parent
      BY <1>1, <1>10, <3>2 DEF ExecutorsKept
    <3>6. QED
      BY <1>4, <3>1, <3>3, <3>4, <3>5 DEF Fits, Outstanding, Innermost, Starting
  <2>3. QED
    BY <2>1, <2>2
<1>21. OwnExecutors'
  <2>1. ASSUME NEW s \in Slots, s # r, req[s].pc \in Starting
        PROVE  req[s].makes # e
    <3>1. req[s].makes <= Len(executor)
      BY <2>1 DEF DriftInv, Fits, Outstanding, Starting, Answers
    <3>2. req[s].makes \in Nat
      BY <1>1, ExecutorIds DEF DriftTypes, Requests
    <3>3. QED
      BY <1>1, <1>16, <3>1, <3>2
  <2>2. QED
    BY <1>5, <1>7, <2>1 DEF DriftInv, OwnExecutors
<1>22. \A d \in Clients : Of(d)' = Of(d)
  BY <1>2, <1>4, <1>5, <1>7, MainSlots DEF Of
<1>23. OneAtATime'
  BY <1>4, <1>22 DEF DriftInv, OneAtATime
<1>24. ParentsAround'
  BY <1>1, <1>4, <1>10, <1>19 DEF DriftInv, ParentsAround, Around, ExecutorsKept
<1>25. Isolated'
  BY <1>4 DEF DriftInv, Isolated
<1>26. QED
  BY <1>11, <1>13, <1>17, <1>18, <1>20, <1>21, <1>23, <1>24, <1>25 DEF DriftInv

-----------------------------------------------------------------------------
(* Transactions begin and end. *)

\* The one that has a transaction of its own has all of them.
LEMMA OnlyOwner ==
  ASSUME DriftInv, NEW c \in Clients, Of(c) # <<>> \/ raw = <<>>
  PROVE  /\ Of(c) = raw
         /\ \A d \in Clients : d # c => Of(d) = <<>>
BY DEF DriftInv, OneAtATime

LEMMA OneLonger ==
  ASSUME NEW S, NEW s \in Seq(S), NEW x \in S
  PROVE  /\ Append(s, x) \in Seq(S) /\ Append(s, x) # <<>>
         /\ DOMAIN Append(s, x) = DOMAIN s \cup {Len(s) + 1}
         /\ Append(s, x)[Len(s) + 1] = x /\ Last(Append(s, x)) = x
         /\ \A i \in DOMAIN s : Append(s, x)[i] = s[i] /\ i < Len(s) + 1 /\ i - 1 < Len(s)
         /\ \A i \in DOMAIN s : i # 1 => i - 1 \in DOMAIN s
         /\ Len(s) \in Nat /\ (s # <<>> => Len(s) \in DOMAIN s /\ Len(s) + 1 # 1)
<1>1. /\ Append(s, x) \in Seq(S) /\ Len(Append(s, x)) = Len(s) + 1
      /\ Len(s) \in Nat /\ Append(s, x)[Len(s) + 1] = x
      /\ \A i \in 1..Len(s) : Append(s, x)[i] = s[i]
  OBVIOUS
<1>2. DOMAIN s = 1..Len(s) /\ DOMAIN Append(s, x) = 1..(Len(s) + 1)
  BY <1>1
<1>3. s # <<>> => Len(s) # 0
  OBVIOUS
<1>4. QED
  BY <1>1, <1>2, <1>3 DEF Last

LEMMA OneShorter ==
  ASSUME NEW S, NEW s \in Seq(S), s # <<>>
  PROVE  /\ Front(s) \in Seq(S)
         /\ DOMAIN Front(s) = DOMAIN s \ {Len(s)}
         /\ Len(s) \in DOMAIN s /\ Last(s) = s[Len(s)] /\ Len(s) \in Nat
         /\ \A i \in DOMAIN Front(s) : Front(s)[i] = s[i] /\ i < Len(s)
         /\ \A i \in DOMAIN Front(s) : i # 1 => i - 1 \in DOMAIN Front(s)
<1>1. Len(s) \in Nat \ {0} /\ DOMAIN s = 1..Len(s)
  OBVIOUS
<1>2. /\ Front(s) \in Seq(S) /\ Len(Front(s)) = Len(s) - 1
      /\ \A i \in 1..(Len(s) - 1) : Front(s)[i] = s[i]
  BY <1>1 DEF Front
<1>3. DOMAIN Front(s) = 1..(Len(s) - 1)
  BY <1>1, <1>2
<1>4. QED
  BY <1>1, <1>2, <1>3 DEF Last

LEMMA BeforeLast ==
  ASSUME NEW S, NEW s \in Seq(S), s # <<>>, ParentsEarlier(s), Len(executor) \in Nat
  PROVE  Before(s, Last(s)) = Front(s)
<1>1. Len(s) \in DOMAIN s /\ Last(s) = s[Len(s)] /\ DOMAIN s = 1..Len(s) /\ Len(s) \in Nat
  <2>1. Len(s) \in DOMAIN s /\ Last(s) = s[Len(s)] /\ Len(s) \in Nat
    BY OneShorter
  <2>2. DOMAIN s = 1..Len(s)
    OBVIOUS
  <2>3. QED
    BY <2>1, <2>2
<1>2. ASSUME NEW i \in DOMAIN s, s[i] = Last(s) PROVE i = Len(s)
  <2>1. i = Len(s) \/ i < Len(s)
    BY <1>1
  <2>2. i < Len(s) => s[i] < s[Len(s)]
    BY <1>1 DEF ParentsEarlier
  <2>3. s[i] \in 1..Len(executor)
    BY DEF ParentsEarlier
  <2>4. QED
    BY <1>1, <1>2, <2>1, <2>2, <2>3
<1>3. (CHOOSE i \in DOMAIN s : s[i] = Last(s)) = Len(s)
  BY <1>1, <1>2
<1>4. QED
  BY <1>3 DEF Before, Front

\* The transaction that begins is inside of those of its client, and nobody
\* else has one.
LEMMA BeginsInside ==
  ASSUME DriftInv, NEW r \in Slots, req[r].pc = "begin",
         Holds(req[r].on, Inner(req[r].makes))
  PROVE  LET c == ClientOf(r)
         IN  /\ raw = nested[c] /\ Of(c) = raw
             /\ req[r].on = Innermost(c)
             /\ \A d \in Clients : d # c => Of(d) = <<>>
<1> DEFINE c == ClientOf(r)
<1>1. /\ c \in Clients /\ r = <<c, "main">> /\ req[r].on = Innermost(c)
      /\ \A i \in DOMAIN raw : raw[i] # req[r].makes
  <2>1. Outstanding(r) /\ req[r].kind = "begin"
    BY DEF DriftInv, Fits, Outstanding, Answers, Starting
  <2>2. QED
    BY <2>1, MainOnly DEF DriftInv, Fits
<1>2. Of(c) = nested[c]
  BY <1>1 DEF Of
<1>3. nested[c] # <<>> \/ raw = <<>>
  <2>1. ASSUME nested[c] = <<>>, raw # <<>> PROVE FALSE
    <3>1. req[r].on = Connection
      BY <1>1, <2>1 DEF Innermost
    <3>2. 1 \in DOMAIN raw
      BY <2>1 DEF DriftInv, DriftTypes
    <3>3. Holds(Connection, Inner(raw[1]))
      BY <3>2 DEF DriftInv, LocksAreHeld, Around
    <3>4. Inner(raw[1]) = Inner(req[r].makes)
      BY <3>1, <3>3 DEF Holds
    <3>5. raw[1] = req[r].makes
      BY <3>4 DEF Inner
    <3>6. QED
      BY <1>1, <3>2, <3>5
  <2>2. QED
    BY <2>1
<1>4. QED
  BY <1>1, <1>2, <1>3, OnlyOwner

LEMMA BeginInv ==
  ASSUME DriftInv, NEW r \in Slots, Begin(r)
  PROVE  DriftInv'
<1> DEFINE e == req[r].makes
           c == ClientOf(r)
<1>1. /\ DriftTypes /\ Len(executor) \in Nat
      /\ DOMAIN executor = 1..Len(executor) /\ executor \in Seq(Executors)
  BY LenExecutor DEF DriftInv, DriftTypes
<1>2. /\ req[r].pc = "begin" /\ Holds(req[r].on, Inner(e))
      /\ UNCHANGED <<nested, strays>>
  BY DEF Begin
<1>3. PICK x \in Requests : x = req[r]
  BY <1>1 DEF DriftTypes
<1>4. /\ x.kind = "begin" /\ x.on < e /\ e <= Len(executor)
      /\ \A i \in DOMAIN raw : raw[i] # e
      /\ executor[e].parent = x.on
  BY <1>2, <1>3 DEF DriftInv, Fits, Outstanding, Answers, Starting
<1>5. e \in Ids /\ e \in Nat /\ x.on \in Nat /\ x.on \in Ids
  BY <1>3, ExecutorIds DEF Requests
<1>6. e \in DOMAIN executor /\ e \in 1..Len(executor)
  BY <1>1, <1>4, <1>5
<1>7. /\ raw = nested[c] /\ Of(c) = raw /\ x.on = Innermost(c)
      /\ \A d \in Clients : d # c => Of(d) = <<>>
  BY <1>2, <1>3, BeginsInside
<1>8. c \in Clients /\ r = <<c, "main">> /\ r[2] = "main"
  <2>1. Outstanding(r)
    BY <1>2 DEF Outstanding, Answers
  <2>2. QED
    BY <1>3, <1>4, <2>1, MainOnly
<1> HIDE DEF c
<1>9. CASE /\ Answer(r, "answered")
           /\ executor' = [executor EXCEPT ![e].state = "closed"]
           /\ lock' = Unlock(r)
           /\ UNCHANGED raw
  <2>1. PICK q : Turns(r, q) /\ q.pc \in Answers
    BY <1>1, <1>9, AnswerTurns DEF Answers
  <2>2. ExecutorsKept /\ Len(executor') = Len(executor)
    BY <1>1, <1>9, Closed
  <2>3. /\ DOMAIN lock' = Ids /\ \A d \in Ids : lock'[d] \in Seq(Users)
        /\ LocksAreHeld'
    <3>1. \A i \in DOMAIN raw : Inner(e) # Inner(raw[i])
      BY <1>4 DEF Inner
    <3>2. LocksAreHeld
      BY DEF DriftInv
    <3>3. lock' = [lock EXCEPT ![req[r].on] = Tail(@)]
      BY <1>9 DEF Unlock
    <3>4. QED
      BY <1>1, <1>2, <1>9, <3>1, <3>2, <3>3, LockPasses, ZenonT(60)
  <2>4. strays' \subseteq Slots /\ Isolated'
    BY <1>2 DEF DriftInv, DriftTypes, Isolated
  <2>5. req[r].pc \notin {"begun", "release"}
    BY <1>2
  <2>6. QED
    BY <1>2, <1>9, <2>1, <2>2, <2>3, <2>4, <2>5, GoesOnInv
<1>10. CASE /\ GoTo(r, "begun")
            /\ executor' = [executor EXCEPT ![e].state = "open"]
            /\ raw' = Append(raw, e)
            /\ UNCHANGED lock
  <2>1. PICK q : q = [x EXCEPT !.pc = "begun"]
    OBVIOUS
  <2>2. /\ q \in Requests /\ q.pc = "begun" /\ q.kind = "begin"
        /\ q.on = x.on /\ q.makes = e
    BY <1>3, <1>4, <2>1 DEF Requests
  <2>3. req' = [req EXCEPT ![r] = q]
    BY <1>3, <1>10, <2>1 DEF GoTo
  <2>4. Turns(r, q)
    BY <2>2, <2>3 DEF Turns
  <2>5. /\ req' \in [Slots -> Requests]
        /\ \A s \in Slots : req'[s] = IF s = r THEN q ELSE req[s]
    BY <1>1, <2>4, TurnsSays
  <2>6. ExecutorsKept /\ Len(executor') = Len(executor)
    BY <1>1, <1>10, Opened
  <2>7. raw \in Seq(Ids)
    BY <1>1 DEF DriftTypes
  <2>8. /\ raw' \in Seq(Ids) /\ raw' # <<>>
        /\ DOMAIN raw' = DOMAIN raw \cup {Len(raw) + 1}
        /\ raw'[Len(raw) + 1] = e
        /\ \A i \in DOMAIN raw : raw'[i] = raw[i] /\ i < Len(raw) + 1 /\ i - 1 < Len(raw)
        /\ \A i \in DOMAIN raw : i # 1 => i - 1 \in DOMAIN raw
        /\ Len(raw) \in Nat /\ (raw # <<>> => Len(raw) \in DOMAIN raw /\ Len(raw) + 1 # 1)
    BY <1>5, <1>10, <2>7, OneLonger
  <2>9. DriftTypes'
    BY <1>1, <1>2, <1>10, <2>5, <2>6, <2>8 DEF DriftTypes, ExecutorsKept
  <2>10. RoomIsKept'
    <3>1. Making' \subseteq Making
      BY <2>2, <2>5, <1>3, <1>4, <1>6, <1>1 DEF Making, Outstanding
    <3>2. QED
      BY <1>1, <2>6, <3>1, RoomStays DEF DriftInv
  <2>11. ParentsEarlier(raw)'
    <3>1. \A i \in DOMAIN raw : raw[i] \in 1..Len(executor)
      BY DEF DriftInv, ParentsEarlier
    <3>2. \A i \in DOMAIN raw' : raw'[i] \in 1..Len(executor')
      BY <1>6, <2>6, <2>8, <3>1
    <3>3. \A i \in DOMAIN raw : raw[i] < e
      <4>1. \A i \in DOMAIN raw : raw[i] <= x.on
        BY <1>7, <1>8, OnThere
      <4>2. QED
        BY <1>4, <1>5, <3>1, <4>1
    <3>4. ASSUME NEW i \in DOMAIN raw', NEW j \in DOMAIN raw', i < j
          PROVE  raw'[i] < raw'[j]
      <4>1. CASE j = Len(raw) + 1
        <5>1. i \in DOMAIN raw
          BY <2>8, <3>4, <4>1
        <5>2. QED
          BY <2>8, <3>3, <4>1, <5>1
      <4>2. CASE j # Len(raw) + 1
        <5>1. j \in DOMAIN raw /\ j < Len(raw) + 1
          BY <2>8, <4>2
        <5>2. i \in DOMAIN raw
          <6>1. DOMAIN raw = 1..Len(raw)
            BY <2>7
          <6>2. QED
            BY <2>8, <3>4, <5>1, <6>1
        <5>3. raw[i] < raw[j]
          BY <3>4, <5>1, <5>2 DEF DriftInv, ParentsEarlier
        <5>4. QED
          BY <2>8, <5>1, <5>2, <5>3
      <4>3. QED
        BY <4>1, <4>2
    <3>5. QED
      BY <3>2, <3>4 DEF ParentsEarlier
  <2>12. \A d \in Clients : ParentsEarlier(nested[d])'
    BY <1>2, <2>6 DEF DriftInv, ParentsEarlier
  <2>13. ASSUME NEW s \in Slots PROVE Fits(s)'
    <3>1. CASE s = r
      BY <1>2, <1>4, <1>7, <1>8, <2>2, <2>5, <2>6, <3>1
         DEF Fits, Outstanding, Innermost, Starting, InQueue, c
    <3>2. CASE s # r
      <4>1. req'[s] = req[s] /\ req[s] \in Requests
        BY <1>1, <2>5, <3>2 DEF DriftTypes
      <4>2. req[s].makes \in Nat /\ req[s].on \in Nat
        BY <4>1, ExecutorIds DEF Requests
      <4>3. Fits(s)
        BY DEF DriftInv
      <4>4. req[s].pc \in Starting => req[s].makes # e
        BY <1>2, <3>2 DEF DriftInv, OwnExecutors, Starting
      <4>5. req[s].on < req[s].makes /\ req[s].makes <= Len(executor) =>
              executor'[req[s].makes].parent = executor[req[s].makes].parent
        BY <1>1, <2>6, <4>2 DEF ExecutorsKept
      <4>6. req[s].pc = "begin" /\ Outstanding(s) =>
              /\ \A i \in DOMAIN raw' : raw'[i] # req[s].makes
              /\ executor'[req[s].makes].parent = req[s].on
        BY <2>8, <4>3, <4>4, <4>5 DEF Fits, Starting
      <4>7. QED
        BY <1>2, <2>6, <4>1, <4>3, <4>6 DEF Fits, Outstanding, Innermost
    <3>3. QED
      BY <3>1, <3>2
  <2>14. OwnExecutors'
    BY <1>2, <1>3, <2>2, <2>5 DEF DriftInv, OwnExecutors, Starting
  <2>15. Of(c)' = raw'
    <3>1. Of(c)' = Append(nested'[c], q.makes)
      BY <1>8, <2>2, <2>5 DEF Of
    <3>2. QED
      BY <1>2, <1>7, <1>10, <2>2, <3>1
  <2>16. \A d \in Clients : d # c => Of(d)' = <<>>
    BY <1>2, <1>7, <1>8, <2>5, MainSlots DEF Of
  <2>17. OneAtATime'
    BY <2>15, <2>16 DEF OneAtATime
  <2>17a. PICK k \in Nat : k = Len(raw) + 1
    BY <2>8
  <2>18. /\ Around(k)' = x.on
         /\ \A i \in DOMAIN raw : Around(i)' = Around(i)
    <3>1. \A i \in DOMAIN raw : Around(i)' = Around(i)
      BY <2>8 DEF Around
    <3>2. CASE raw = <<>>
      <4>1. x.on = Connection
        BY <1>7, <3>2 DEF Innermost
      <4>2. k = 1
        BY <2>17a, <3>2
      <4>3. Around(k)' = x.on
        BY <4>1, <4>2 DEF Around, Connection
      <4>4. QED
        BY <3>1, <4>3
    <3>3. CASE raw # <<>>
      <4>1. x.on = raw[Len(raw)]
        BY <1>7, <3>3 DEF Innermost, Last
      <4>2. k # 1 /\ k - 1 = Len(raw) /\ raw'[Len(raw)] = raw[Len(raw)]
        BY <2>8, <2>17a, <3>3
      <4>3. Around(k)' = x.on
        BY <4>1, <4>2 DEF Around
      <4>4. QED
        BY <3>1, <4>3
    <3>4. QED
      BY <3>2, <3>3
  <2>19. ParentsAround'
    <3>1. ASSUME NEW i \in DOMAIN raw'
          PROVE  executor'[raw'[i]].parent = Around(i)'
      <4>1. CASE i \in DOMAIN raw
        <5>1. raw[i] \in DOMAIN executor
          BY <1>1, <4>1 DEF DriftInv, ParentsEarlier
        <5>2. QED
          BY <2>6, <2>8, <2>18, <4>1, <5>1 DEF DriftInv, ParentsAround, ExecutorsKept
      <4>2. CASE i = k
        BY <1>4, <1>6, <2>6, <2>8, <2>17a, <2>18, <4>2 DEF ExecutorsKept
      <4>3. QED
        BY <2>8, <2>17a, <4>1, <4>2
    <3>2. QED
      BY <3>1 DEF ParentsAround
  <2>20. LocksAreHeld'
    <3>1. ASSUME NEW i \in DOMAIN raw'
          PROVE  Holds(Around(i), Inner(raw[i]))'
      <4>1. CASE i \in DOMAIN raw
        BY <1>10, <2>8, <2>18, <4>1 DEF DriftInv, LocksAreHeld, Holds
      <4>2. CASE i = k
        BY <1>2, <1>3, <1>10, <2>8, <2>17a, <2>18, <4>2 DEF Holds
      <4>3. QED
        BY <2>8, <2>17a, <4>1, <4>2
    <3>2. QED
      BY <3>1 DEF LocksAreHeld
  <2>21. Isolated'
    BY <1>2 DEF DriftInv, Isolated
  <2>22. QED
    BY <2>9, <2>10, <2>11, <2>12, <2>13, <2>14, <2>17, <2>19, <2>20, <2>21
       DEF DriftInv
<1>11. QED
  BY <1>9, <1>10 DEF Begin

\* A request in the middle of a transaction's begin or end is answered, and
\* its client knows then of what SQLite has.
LEMMA KnownInv ==
  ASSUME DriftInv, NEW r \in Slots, r[2] = "main", Outstanding(r),
         req[r].pc \in {"begun", "release"}, Answer(r, "answered"),
         NEW s \in Seq(Ids), ParentsEarlier(s), s = Of(ClientOf(r)),
         nested' = [nested EXCEPT ![ClientOf(r)] = s],
         UNCHANGED <<executor, lock, raw, strays>>
  PROVE  DriftInv'
<1> DEFINE c == ClientOf(r)
<1>1. DriftTypes /\ Len(executor) \in Nat
  BY LenExecutor DEF DriftInv
<1>2. c \in Clients /\ r = <<c, "main">>
  BY SlotsAre
<1>3. PICK q : Turns(r, q) /\ q.pc \in Answers
  BY <1>1, AnswerTurns DEF Answers
<1>4. /\ req' \in [Slots -> Requests]
      /\ \A t \in Slots : req'[t] = IF t = r THEN q ELSE req[t]
  BY <1>1, <1>3, TurnsSays
<1>5. \A d \in Clients : nested'[d] = IF d = c THEN s ELSE nested[d]
  BY <1>1 DEF DriftTypes
<1> HIDE DEF c
<1>6. ExecutorsKept /\ Len(executor') = Len(executor)
  BY <1>1, ExecutorsStay
<1>7. nested' \in [Clients -> Seq(Ids)]
  BY <1>1 DEF DriftTypes, c
<1>8. DriftTypes'
  BY <1>1, <1>4, <1>6, <1>7 DEF DriftTypes
<1>9. RoomIsKept'
  <2>1. Making' \subseteq Making
    BY <1>3, <1>4 DEF Making, Outstanding
  <2>2. QED
    BY <1>1, <1>6, <2>1, RoomStays DEF DriftInv
<1>10. ParentsEarlier(raw)' /\ \A d \in Clients : ParentsEarlier(nested[d])'
  <2>1. ASSUME NEW d \in Clients PROVE ParentsEarlier(nested[d])'
    <3>1. ParentsEarlier(nested'[d])
      BY <1>5 DEF DriftInv
    <3>2. QED
      BY <3>1 DEF ParentsEarlier
  <2>2. QED
    BY <2>1 DEF DriftInv, ParentsEarlier
<1>11. ASSUME NEW t \in Slots PROVE Fits(t)'
  <2>1. CASE t = r
    BY <1>3, <1>4, <2>1 DEF Fits, Outstanding
  <2>2. CASE t # r
    <3>1. req'[t] = req[t] /\ Fits(t)
      BY <1>4, <2>2 DEF DriftInv
    <3>2. CASE t[2] = "main"
      <4>1. ClientOf(t) # c /\ ClientOf(t) \in Clients
        BY <1>2, <2>2, <3>2, SlotsAre
      <4>2. nested'[ClientOf(t)] = nested[ClientOf(t)]
        BY <1>5, <4>1
      <4>3. QED
        BY <3>1, <4>2 DEF Fits, Outstanding, Innermost
    <3>3. CASE t[2] # "main"
      BY <3>1, <3>3 DEF Fits, Outstanding
    <3>4. QED
      BY <3>2, <3>3
  <2>3. QED
    BY <2>1, <2>2
<1>12. OwnExecutors'
  BY <1>3, <1>4 DEF DriftInv, OwnExecutors, Starting, Answers
<1>13. Of(c)' = s /\ s = Of(c)
  <2>1. Of(c)' = nested'[c]
    BY <1>2, <1>3, <1>4 DEF Of, Answers
  <2>2. QED
    BY <1>2, <1>5, <2>1 DEF c
<1>14. ASSUME NEW d \in Clients PROVE Of(d)' = Of(d)
  <2>1. CASE d = c
    BY <1>13, <2>1
  <2>2. CASE d # c
    BY <1>2, <1>4, <1>5, <2>2, MainSlots DEF Of
  <2>3. QED
    BY <2>1, <2>2
<1>15. OneAtATime'
  BY <1>14 DEF DriftInv, OneAtATime
<1>16. ParentsAround' /\ LocksAreHeld' /\ Isolated'
  BY DEF DriftInv, ParentsAround, LocksAreHeld, Holds, Around, Isolated
<1>17. QED
  BY <1>8, <1>9, <1>10, <1>11, <1>12, <1>15, <1>16 DEF DriftInv

LEMMA PublishInv ==
  ASSUME DriftInv, NEW r \in Slots, Publish(r)
  PROVE  DriftInv'
<1> DEFINE c == ClientOf(r)
<1>1. DriftTypes /\ Len(executor) \in Nat
  BY LenExecutor DEF DriftInv
<1>2. PICK x \in Requests : x = req[r]
  BY <1>1 DEF DriftTypes
<1>3. /\ Outstanding(r) /\ x.kind = "begin" /\ x.on < x.makes
      /\ x.makes <= Len(executor) /\ x.pc = "begun"
  BY <1>2 DEF Publish, DriftInv, Fits, Outstanding, Answers, Starting
<1>4. c \in Clients /\ r = <<c, "main">> /\ r[2] = "main" /\ x.on = Innermost(c)
  BY <1>2, <1>3, MainOnly
<1>5. x.makes \in Ids /\ x.makes \in Nat /\ x.on \in Nat
  BY ExecutorIds DEF Requests
<1>6. nested[c] \in Seq(Ids)
  BY <1>1, <1>4 DEF DriftTypes
<1> HIDE DEF c
<1>7. PICK s : s = Append(nested[c], x.makes)
  OBVIOUS
<1>8. PICK k : k = Len(nested[c]) + 1
  OBVIOUS
<1>9. /\ s \in Seq(Ids) /\ DOMAIN s = DOMAIN nested[c] \cup {k}
      /\ s[k] = x.makes
      /\ \A i \in DOMAIN nested[c] : s[i] = nested[c][i] /\ i < k
      /\ k \in Nat
  BY <1>5, <1>6, <1>7, <1>8, OneLonger
<1>10. ParentsEarlier(s)
  <2>1. \A i \in DOMAIN nested[c] : nested[c][i] \in 1..Len(executor)
    BY <1>4 DEF DriftInv, ParentsEarlier
  <2>2. x.makes \in 1..Len(executor)
    BY <1>1, <1>3, <1>5
  <2>3. \A i \in DOMAIN nested[c] : nested[c][i] < x.makes
    <3>1. \A i \in DOMAIN nested[c] : nested[c][i] <= x.on
      BY <1>4, OnThere
    <3>2. QED
      BY <1>3, <1>5, <2>1, <3>1
  <2>4. ASSUME NEW i \in DOMAIN s, NEW j \in DOMAIN s, i < j
        PROVE  s[i] < s[j]
    <3>1. CASE j = k
      <4>1. i \in DOMAIN nested[c]
        BY <1>9, <2>4, <3>1
      <4>2. QED
        BY <1>9, <2>3, <3>1, <4>1
    <3>2. CASE j # k
      <4>1. j \in DOMAIN nested[c] /\ j < k
        BY <1>9, <3>2
      <4>2. DOMAIN nested[c] \subseteq Nat
        BY <1>6
      <4>3. i \in DOMAIN nested[c]
        BY <1>9, <2>4, <4>1, <4>2
      <4>4. nested[c][i] < nested[c][j]
        BY <1>4, <2>4, <4>1, <4>3 DEF DriftInv, ParentsEarlier
      <4>5. QED
        BY <1>9, <4>1, <4>3, <4>4
    <3>3. QED
      BY <3>1, <3>2
  <2>5. QED
    BY <1>9, <2>1, <2>2, <2>4 DEF ParentsEarlier
<1>11. s = Of(c)
  BY <1>2, <1>3, <1>4, <1>7 DEF Of
<1>12. nested' = [nested EXCEPT ![c] = s]
  BY <1>2, <1>7 DEF Publish, c
<1>13. c = ClientOf(r)
  BY DEF c
<1>14. /\ req[r].pc \in {"begun", "release"} /\ Answer(r, "answered")
       /\ UNCHANGED <<executor, lock, raw, strays>>
  BY DEF Publish
<1>15. QED
  BY <1>3, <1>4, <1>9, <1>10, <1>11, <1>12, <1>13, <1>14, KnownInv

LEMMA NestedFront ==
  ASSUME NEW s \in Seq(Ids), s # <<>>, ParentsEarlier(s)
  PROVE  ParentsEarlier(Front(s))
<1>1. /\ DOMAIN Front(s) \subseteq DOMAIN s
      /\ \A i \in DOMAIN Front(s) : Front(s)[i] = s[i]
  BY OneShorter
<1>2. QED
  BY <1>1 DEF ParentsEarlier

LEMMA ReleaseInv ==
  ASSUME DriftInv, NEW r \in Slots, Release(r)
  PROVE  DriftInv'
<1> DEFINE c == ClientOf(r)
<1>1. DriftTypes /\ Len(executor) \in Nat
  BY LenExecutor DEF DriftInv
<1>2. /\ Outstanding(r) /\ req[r].kind \in {"commit", "rollback"}
      /\ nested[c] # <<>> /\ req[r].pc = "release"
  BY DEF Release, DriftInv, Fits, Outstanding, Answers
<1>3. c \in Clients /\ r = <<c, "main">> /\ r[2] = "main" /\ req[r].on = Innermost(c)
  BY <1>2, MainOnly
<1>4. nested[c] \in Seq(Ids) /\ ParentsEarlier(nested[c])
  BY <1>1, <1>3 DEF DriftInv, DriftTypes
<1> HIDE DEF c
<1>5. req[r].on = Last(nested[c])
  BY <1>2, <1>3 DEF Innermost
<1>6. Before(nested[c], req[r].on) = Front(nested[c])
  BY <1>1, <1>2, <1>4, <1>5, BeforeLast
<1>7. PICK s : s = Front(nested[c])
  OBVIOUS
<1>8. s \in Seq(Ids)
  BY <1>2, <1>4, <1>7, OneShorter
<1>9. ParentsEarlier(s)
  BY <1>2, <1>4, <1>7, NestedFront
<1>10. s = Of(c)
  BY <1>2, <1>3, <1>7 DEF Of
<1>11. nested' = [nested EXCEPT ![c] = s]
  BY <1>6, <1>7 DEF Release, c
<1>12. c = ClientOf(r)
  BY DEF c
<1>13. /\ req[r].pc \in {"begun", "release"} /\ Answer(r, "answered")
       /\ UNCHANGED <<executor, lock, raw, strays>>
  BY DEF Release
<1>14. QED
  BY <1>2, <1>3, <1>8, <1>9, <1>10, <1>11, <1>12, <1>13, KnownInv

LEMMA EndInv ==
  ASSUME DriftInv, NEW r \in Slots, End(r)
  PROVE  DriftInv'
<1> DEFINE c == ClientOf(r)
           e == req[r].on
           up == executor[e].parent
<1>1. /\ DriftTypes /\ Len(executor) \in Nat /\ DOMAIN executor = 1..Len(executor)
      /\ executor \in Seq(Executors) /\ raw \in Seq(Ids)
  BY LenExecutor DEF DriftInv, DriftTypes
<1>2. /\ Outstanding(r) /\ req[r].pc = "lock"
      /\ req[r].kind \in {"commit", "rollback"}
      /\ Holds(e, Statement(r))
      /\ GoTo(r, "release")
      /\ raw' = Before(raw, e)
      /\ executor' = [executor EXCEPT ![e].state = "closed"]
      /\ lock' = [lock EXCEPT ![e] = Tail(@), ![up] = Tail(@)]
      /\ UNCHANGED <<nested, strays>>
  BY DEF End, Outstanding, Answers
<1>3. c \in Clients /\ r = <<c, "main">> /\ r[2] = "main" /\ e = Innermost(c)
  BY <1>2, MainOnly
<1>4. nested[c] # <<>>
  BY <1>2 DEF DriftInv, Fits
<1>5. raw = nested[c] /\ raw # <<>> /\ Last(raw) = e
  BY <1>2, <1>3, <1>4, StatementInPlace
<1>6. Of(c) = raw
  BY <1>2, <1>3, <1>5 DEF Of
<1>7. \A d \in Clients : d # c => Of(d) = <<>>
  BY <1>3, <1>5, <1>6, OnlyOwner
<1>8. ParentsEarlier(raw)
  BY DEF DriftInv
<1>9. raw' = Front(raw)
  BY <1>1, <1>2, <1>5, <1>8, BeforeLast
<1>10. PICK n : n = Len(raw)
  OBVIOUS
<1>11. /\ raw' \in Seq(Ids) /\ DOMAIN raw' = DOMAIN raw \ {n}
       /\ n \in DOMAIN raw /\ e = raw[n] /\ n \in Nat
       /\ \A i \in DOMAIN raw' : raw'[i] = raw[i] /\ i < n
       /\ \A i \in DOMAIN raw' : i # 1 => i - 1 \in DOMAIN raw'
  BY <1>1, <1>5, <1>9, <1>10, OneShorter
<1>12. /\ e \in 1..Len(executor) /\ e \in DOMAIN executor
       /\ up = Around(n) /\ e \in Ids /\ up \in Ids
  <2>1. up = Around(n) /\ e \in 1..Len(executor)
    BY <1>8, <1>11 DEF DriftInv, ParentsAround, ParentsEarlier
  <2>2. Around(n) \in Ids /\ raw[n] \in Ids
    BY <1>1, <1>11, AroundIsId
  <2>3. QED
    BY <1>1, <1>11, <2>1, <2>2
<1>13. ExecutorsKept /\ Len(executor') = Len(executor)
  BY <1>1, <1>2, Closed
<1> HIDE DEF c
<1>14. PICK x \in Requests : x = req[r]
  BY <1>1 DEF DriftTypes
<1>15. PICK q : q = [x EXCEPT !.pc = "release"]
  OBVIOUS
<1>16. /\ q \in Requests /\ q.pc = "release" /\ q.kind = x.kind
       /\ q.on = x.on /\ q.makes = x.makes
  BY <1>15 DEF Requests
<1>17. Turns(r, q)
  BY <1>2, <1>14, <1>15, <1>16 DEF Turns, GoTo
<1>18. /\ req' \in [Slots -> Requests]
       /\ \A s \in Slots : req'[s] = IF s = r THEN q ELSE req[s]
  BY <1>1, <1>17, TurnsSays
<1>19. PICK p : p = up
  OBVIOUS
<1>20. PICK f : f = e
  OBVIOUS
<1> HIDE DEF e, up
<1>21. ASSUME NEW i \in DOMAIN raw'
       PROVE  /\ Around(i)' = Around(i) /\ Around(i) # f /\ Around(i) # p
              /\ Around(i) \in Ids
  <2>1. i \in DOMAIN raw /\ i < n
    BY <1>11
  <2>2. Around(i)' = Around(i)
    BY <1>11 DEF Around
  <2>3. /\ \A j \in DOMAIN raw : raw[j] # Connection
        /\ \A j, k \in DOMAIN raw : raw[j] = raw[k] => j = k
    <3>1. DOMAIN raw \subseteq Nat
      BY <1>1
    <3>2. \A j \in DOMAIN raw : raw[j] \in Nat \ {0}
      BY <1>1, <1>8 DEF ParentsEarlier
    <3>3. ASSUME NEW j \in DOMAIN raw, NEW k \in DOMAIN raw, raw[j] = raw[k]
          PROVE  j = k
      <4>1. j < k \/ k < j \/ j = k
        BY <3>1
      <4>2. (j < k => raw[j] < raw[k]) /\ (k < j => raw[k] < raw[j])
        BY <1>8 DEF ParentsEarlier
      <4>3. QED
        BY <3>2, <3>3, <4>1, <4>2
    <3>4. QED
      BY <3>2, <3>3 DEF Connection
  <2>4. DOMAIN raw = 1..Len(raw)
    BY <1>1
  <2>5. i # 1 => i - 1 \in DOMAIN raw /\ i - 1 < n - 1
    BY <1>11, <2>1, <2>4
  <2>6. n # 1 /\ n - 1 \in DOMAIN raw /\ n - 1 < n
    BY <1>10, <1>11, <2>1, <2>4
  <2>7. Around(i) # raw[n]
    <3>1. CASE i = 1
      BY <1>11, <2>3, <3>1 DEF Around
    <3>2. CASE i # 1
      <4>1. i - 1 # n
        BY <1>11, <2>1, <2>4
      <4>2. QED
        BY <1>11, <2>3, <2>5, <3>2, <4>1 DEF Around
    <3>3. QED
      BY <3>1, <3>2
  <2>8. Around(i) # Around(n)
    <3>1. CASE i = 1
      BY <2>3, <2>6, <3>1 DEF Around
    <3>2. CASE i # 1
      <4>1. i - 1 # n - 1
        BY <1>11, <2>1, <2>4
      <4>2. QED
        BY <2>3, <2>5, <2>6, <3>2, <4>1 DEF Around
    <3>3. QED
      BY <3>1, <3>2
  <2>9. Around(i) \in Ids
    BY <1>1, <2>1, AroundIsId
  <2>10. QED
    BY <1>11, <1>12, <1>19, <1>20, <2>2, <2>7, <2>8, <2>9
<1>22. /\ DOMAIN lock' = Ids
       /\ \A d \in Ids : d # f /\ d # p => lock'[d] = lock[d]
       /\ \A d \in Ids : lock'[d] \in Seq(Users)
  <2>1. lock[f] \in Seq(Users) /\ lock[f] # <<>> /\ f \in Ids /\ p \in Ids
    BY <1>1, <1>2, <1>12, <1>19, <1>20 DEF DriftTypes, Holds
  <2>2. lock[p] \in Seq(Users) /\ lock[p] # <<>> /\ p # f
    <3>1. Holds(Around(n), Inner(raw[n]))
      BY <1>11 DEF DriftInv, LocksAreHeld
    <3>2. Head(lock[p]) = Inner(raw[n]) /\ lock[p] # <<>>
      BY <1>12, <1>19, <3>1 DEF Holds
    <3>3. Head(lock[f]) = Statement(r)
      BY <1>2, <1>20 DEF Holds
    <3>4. QED
      BY <1>1, <2>1, <3>2, <3>3, UsersDiffer DEF DriftTypes
  <2>3. lock' = [lock EXCEPT ![f] = Tail(@), ![p] = Tail(@)]
    BY <1>2, <1>19, <1>20
  <2>4. DOMAIN lock = Ids
    BY <1>1 DEF DriftTypes
  <2>5. /\ DOMAIN lock' = Ids
        /\ \A d \in Ids : d # f /\ d # p => lock'[d] = lock[d]
        /\ lock'[f] = Tail(lock[f]) /\ lock'[p] = Tail(lock[p])
    BY <2>1, <2>2, <2>3, <2>4
  <2>6. Tail(lock[f]) \in Seq(Users) /\ Tail(lock[p]) \in Seq(Users)
    BY <2>1, <2>2
  <2>7. QED
    BY <1>1, <2>5, <2>6 DEF DriftTypes
<1>23. DriftTypes'
  BY <1>1, <1>2, <1>11, <1>13, <1>18, <1>22 DEF DriftTypes, ExecutorsKept
<1>24. RoomIsKept'
  <2>1. Making' \subseteq Making
    BY <1>2, <1>14, <1>16, <1>18 DEF Making, Outstanding
  <2>2. QED
    BY <1>1, <1>13, <2>1, RoomStays DEF DriftInv
<1>25. ParentsEarlier(raw)'
  <2>1. DOMAIN raw' \subseteq DOMAIN raw
    BY <1>11
  <2>2. QED
    BY <1>8, <1>11, <1>13, <2>1 DEF ParentsEarlier
<1>26. \A d \in Clients : ParentsEarlier(nested[d])'
  BY <1>2, <1>13 DEF DriftInv, ParentsEarlier
<1>27. ASSUME NEW s \in Slots PROVE Fits(s)'
  <2>1. CASE s = r
    BY <1>2, <1>3, <1>4, <1>14, <1>16, <1>18, <2>1
       DEF Fits, Outstanding, Innermost, Starting, InQueue, c, e
  <2>2. CASE s # r
    <3>1. req'[s] = req[s] /\ req[s] \in Requests
      BY <1>1, <1>18, <2>2 DEF DriftTypes
    <3>2. req[s].makes \in Nat /\ req[s].on \in Nat
      BY <3>1, ExecutorIds DEF Requests
    <3>3. Fits(s)
      BY DEF DriftInv
    <3>4. req[s].on < req[s].makes /\ req[s].makes <= Len(executor) =>
            executor'[req[s].makes].parent = executor[req[s].makes].parent
      BY <1>1, <1>13, <3>2 DEF ExecutorsKept
    <3>5. (\A i \in DOMAIN raw : raw[i] # req[s].makes) =>
            \A i \in DOMAIN raw' : raw'[i] # req[s].makes
      BY <1>11
    <3>6. QED
      BY <1>2, <1>13, <3>1, <3>3, <3>4, <3>5
         DEF Fits, Outstanding, Innermost, Starting
  <2>3. QED
    BY <2>1, <2>2
<1>28. OwnExecutors'
  BY <1>16, <1>18 DEF DriftInv, OwnExecutors, Starting
<1>29. Of(c)' = raw'
  <2>1. Of(c)' = Front(nested'[c])
    BY <1>3, <1>16, <1>18 DEF Of
  <2>2. QED
    BY <1>2, <1>5, <1>9, <2>1
<1>30. \A d \in Clients : d # c => Of(d)' = <<>>
  BY <1>2, <1>3, <1>7, <1>18, MainSlots DEF Of
<1>31. OneAtATime'
  BY <1>29, <1>30 DEF OneAtATime
<1>32. ParentsAround'
  <2>1. ASSUME NEW i \in DOMAIN raw'
        PROVE  executor'[raw'[i]].parent = Around(i)'
    <3>1. i \in DOMAIN raw /\ raw'[i] = raw[i]
      BY <1>11
    <3>2. raw[i] \in DOMAIN executor
      BY <1>1, <1>8, <3>1 DEF ParentsEarlier
    <3>3. executor'[raw[i]].parent = Around(i)
      BY <1>13, <3>1, <3>2 DEF DriftInv, ParentsAround, ExecutorsKept
    <3>4. QED
      BY <1>21, <3>1, <3>3
  <2>2. QED
    BY <2>1 DEF ParentsAround
<1>33. LocksAreHeld'
  <2>1. ASSUME NEW i \in DOMAIN raw'
        PROVE  Holds(Around(i), Inner(raw[i]))'
    <3>1. i \in DOMAIN raw /\ raw'[i] = raw[i]
      BY <1>11
    <3>2. Holds(Around(i), Inner(raw[i]))
      BY <3>1 DEF DriftInv, LocksAreHeld
    <3>3. Around(i)' = Around(i) /\ lock'[Around(i)] = lock[Around(i)]
      BY <1>21, <1>22
    <3>4. QED
      BY <3>1, <3>2, <3>3 DEF Holds
  <2>2. QED
    BY <2>1 DEF LocksAreHeld
<1>34. Isolated'
  BY <1>2 DEF DriftInv, Isolated
<1>35. QED
  BY <1>23, <1>24, <1>25, <1>26, <1>27, <1>28, <1>31, <1>32, <1>33, <1>34
     DEF DriftInv

-----------------------------------------------------------------------------
LEMMA DriftNextInv == DriftInv /\ [DriftNext]_driftVars => DriftInv'
<1> SUFFICES ASSUME DriftInv, [DriftNext]_driftVars PROVE DriftInv'
  OBVIOUS
<1>1. ASSUME NEW c \in Clients,
             \/ Ask(c, "open") \/ Ask(c, "statement") \/ Ask(c, "begin")
             \/ Ask(c, "commit") \/ Ask(c, "rollback")
      PROVE  DriftInv'
  BY <1>1, AskInv
<1>2. ASSUME NEW c \in Clients, AskLoosely(c) \/ Leave(c)
      PROVE  DriftInv'
  BY <1>2, AskLooselyInv, LeaveInv
<1>3. ASSUME NEW r \in Slots, Cancel(r) \/ ServerStep(r)
      PROVE  DriftInv'
  BY <1>3, CancelInv, PassTurnInv, DispatchInv, RunInv, SpawnInv, BeginInv,
     PublishInv, EndInv, CommitFailsInv, ReleaseInv, QueueOpenInv,
     OpenEndsInv, OpenFirstInv, MigratedInv DEF ServerStep
<1>4. ASSUME UNCHANGED driftVars PROVE DriftInv'
  <2>1. UNCHANGED <<nested, req, executor, lock, raw, strays>>
    BY <1>4 DEF driftVars
  <2>2. QED
    BY <2>1, NothingChangesInv
<1>5. QED
  BY <1>1, <1>2, <1>3, <1>4 DEF DriftNext

\* A statement of a client that awaits its requests runs in the transaction it
\* was meant for, whatever other clients do meanwhile, whichever transactions
\* fail and whoever leaves: for any number of clients and requests and any
\* depth of nesting.  (_BaseExecutor._synchronized,
\* _StatementBasedTransactionExecutor)
THEOREM StatementsAreIsolated == DriftSpec => []Isolated
<1>1. DriftInit => DriftInv
  BY DriftInitInv
<1>2. DriftInv /\ [DriftNext]_driftVars => DriftInv'
  BY DriftNextInv
<1>3. DriftInv => Isolated
  BY DEF DriftInv
<1>4. QED
  BY <1>1, <1>2, <1>3, PTL DEF DriftSpec

-----------------------------------------------------------------------------
(* Handles and locks: the inductive invariant. *)

\* A server that carries a call out has the handle, and so has a tab that had
\* it for the locked file, as long as its server did not pause.
HandleInv ==
  /\ \A t \in Tabs : server[t] = "acts" => handle = t
  /\ \A t \in held : t \notin paused => handle = t

OpfsInv == OpfsTypeOK /\ HandleInv /\ LocksHold

-----------------------------------------------------------------------------
LEMMA AttemptCounts ==
  /\ 0 \in 0..Attempts /\ 1 \in 0..Attempts /\ 0 \in 0..MaxCalls
  /\ \A a \in 0..Attempts : a # Attempts => a + 1 \in 0..Attempts
BY OpfsAssumption

LEMMA OpfsInitInv == OpfsInit => OpfsInv
<1> SUFFICES ASSUME OpfsInit PROVE OpfsInv
  OBVIOUS
<1>1. /\ implicit = Tabs \cap {handle} /\ explicit \subseteq implicit
      /\ held \subseteq Tabs /\ paused \cup overtaken \subseteq held
  BY OpfsAssumption DEF OpfsInit
<1>2. attempt \in [Tabs -> 0..Attempts] /\ calls \in 0..MaxCalls
  BY AttemptCounts DEF OpfsInit
<1>3. OpfsTypeOK
  BY <1>1, <1>2 DEF OpfsInit, OpfsTypeOK
<1>4. HandleInv /\ LocksHold
  BY DEF OpfsInit, HandleInv, LocksHold
<1>5. QED
  BY <1>3, <1>4 DEF OpfsInv

(* What SQLite does leaves the handles alone. *)

LEMMA CallInv ==
  ASSUME OpfsInv, NEW t \in Tabs, NEW c \in Calls, Call(t, c)
  PROVE  OpfsInv'
<1>1. calls \in 0..MaxCalls /\ calls < MaxCalls /\ calls' = calls + 1
  BY DEF OpfsInv, OpfsTypeOK, Call
<1>2. calls' \in 0..MaxCalls
  BY <1>1, OpfsAssumption
<1> USE DEF OpfsInv, Call, clientVars, handleVars, ghostVars
<1>3. OpfsTypeOK'
  BY <1>2 DEF OpfsTypeOK
<1>4. HandleInv' /\ LocksHold'
  BY DEF HandleInv, LocksHold
<1>5. QED
  BY <1>3, <1>4

LEMMA LockAgainInv ==
  ASSUME OpfsInv, NEW t \in Tabs, LockAgain(t)
  PROVE  OpfsInv'
<1>1. calls \in 0..MaxCalls /\ calls < MaxCalls /\ calls' = calls + 1
  BY DEF OpfsInv, OpfsTypeOK, LockAgain
<1>2. calls' \in 0..MaxCalls
  BY <1>1, OpfsAssumption
<1> USE DEF OpfsInv, LockAgain, handleVars, ghostVars
<1>3. OpfsTypeOK'
  BY <1>2 DEF OpfsTypeOK
<1>4. HandleInv' /\ LocksHold'
  BY DEF HandleInv, LocksHold
<1>5. QED
  BY <1>3, <1>4

LEMMA ReturnInv ==
  ASSUME OpfsInv, NEW t \in Tabs, Return(t)
  PROVE  OpfsInv'
<1> USE DEF OpfsInv, Return, clientVars, handleVars, ghostVars
<1>1. OpfsTypeOK'
  <2>1. /\ opened' \in [Tabs -> BOOLEAN] /\ locked' \in [Tabs -> BOOLEAN]
        /\ level' \in [Tabs -> BOOLEAN]
    BY DEF OpfsTypeOK
  <2>2. QED
    BY <2>1 DEF OpfsTypeOK
<1>2. HandleInv' /\ LocksHold'
  BY DEF HandleInv, LocksHold
<1>3. QED
  BY <1>1, <1>2

\* The tab that goes takes its handle and its lock with it.
LEMMA CloseTabInv ==
  ASSUME OpfsInv, NEW t \in Tabs, CloseTab(t)
  PROVE  OpfsInv'
<1> USE DEF OpfsInv, CloseTab, ServerGoes, Unheld
<1>1. OpfsTypeOK'
  <2>1. attempt' \in [Tabs -> 0..Attempts]
    BY AttemptCounts DEF OpfsTypeOK
  <2>2. /\ handle' \in Tabs \cup {Nobody} /\ implicit' = Tabs \cap {handle'}
        /\ explicit' \subseteq implicit'
    BY OpfsAssumption DEF OpfsTypeOK
  <2>3. /\ held' \subseteq Tabs
        /\ paused' \cup overtaken' \subseteq held'
    BY DEF OpfsTypeOK
  <2>4. /\ opened' \in [Tabs -> BOOLEAN] /\ locked' \in [Tabs -> BOOLEAN]
        /\ level' \in [Tabs -> BOOLEAN]
        /\ client' \in [Tabs -> {"idle", "waits", "gone"}]
        /\ server' \in [Tabs -> {"waits", "timed out", "handles", "opens",
                                 "acts", "ok", "error", "ended"}]
    BY DEF OpfsTypeOK
  <2>5. /\ call' \in [Tabs -> Calls \cup {None}]
        /\ request' \in [Tabs -> Calls \cup {None}]
        /\ answer' \in [Tabs -> {None, "ok", "error"}]
        /\ calls' \in 0..MaxCalls
    BY DEF OpfsTypeOK
  <2>6. QED
    BY <2>1, <2>2, <2>3, <2>4, <2>5 DEF OpfsTypeOK
<1>2. HandleInv'
  BY DEF OpfsTypeOK, HandleInv
<1>3. LocksHold'
  BY DEF LocksHold
<1>4. QED
  BY <1>1, <1>2, <1>3

(* The server: taking a request, answering it, and the time out. *)

LEMMA CellsInv ==
  ASSUME OpfsInv, NEW t \in Tabs, Take(t) \/ TimeOut(t) \/ Reply(t)
  PROVE  OpfsInv'
<1> USE DEF OpfsInv, Take, TimeOut, Reply, ServerGoes, clientVars, handleVars,
            ghostVars
<1>1. OpfsTypeOK'
  <2>1. CASE Take(t)
    BY <2>1 DEF OpfsTypeOK
  <2>2. CASE TimeOut(t)
    BY <2>2 DEF OpfsTypeOK
  <2>3. CASE Reply(t)
    BY <2>3 DEF OpfsTypeOK
  <2>4. QED
    BY <2>1, <2>2, <2>3
<1>2. HandleInv' /\ LocksHold'
  BY DEF OpfsTypeOK, HandleInv, LocksHold
<1>3. QED
  BY <1>1, <1>2

\* A server that does not act may let its handle go when it notes the pause.
LEMMA ReleaseActInv ==
  ASSUME OpfsInv, NEW t \in Tabs, NEW pc \in {"waits", "ok"}, ServerGoes(t, pc),
         ReleaseImplicit(t), Pause(t), held \subseteq held',
         held' \subseteq held \cup {t}
  PROVE  /\ handle' \in Tabs \cup {Nobody}
         /\ implicit' = Tabs \cap {handle'}
         /\ explicit' \subseteq implicit'
         /\ HandleInv'
<1> USE DEF OpfsInv, OpfsTypeOK, ServerGoes, Pause
<1>1. CASE t \in implicit
  <2>1. handle = t /\ handle' = Nobody
    BY <1>1 DEF ReleaseImplicit, CloseHandle
  <2>2. implicit' = {} /\ explicit' = {}
    BY <1>1, <2>1 DEF ReleaseImplicit, CloseHandle
  <2>3. HandleInv'
    BY <2>1 DEF HandleInv
  <2>4. QED
    BY <2>1, <2>2, <2>3, OpfsAssumption
<1>2. CASE t \notin implicit
  <2>1. UNCHANGED handleVars
    BY <1>2 DEF ReleaseImplicit
  <2>2. HandleInv'
    BY <2>1 DEF HandleInv, handleVars
  <2>3. QED
    BY <2>1, <2>2 DEF handleVars
<1>3. QED
  BY <1>1, <1>2

LEMMA LetGoInv ==
  ASSUME OpfsInv, NEW t \in Tabs, LetGo(t)
  PROVE  OpfsInv'
<1> USE DEF OpfsInv
<1>1. /\ ServerGoes(t, "waits") /\ ReleaseImplicit(t) /\ Pause(t)
      /\ held' = held /\ overtaken' = overtaken
      /\ UNCHANGED <<client, opened, locked, level, call, calls, request, answer, attempt>>
  BY DEF LetGo, clientVars
<1>2. /\ handle' \in Tabs \cup {Nobody} /\ implicit' = Tabs \cap {handle'}
      /\ explicit' \subseteq implicit' /\ HandleInv'
  BY <1>1, ReleaseActInv
<1>3. paused' \cup overtaken' \subseteq held' /\ LocksHold'
  BY <1>1 DEF OpfsTypeOK, Pause, LocksHold
<1>4. OpfsTypeOK'
  BY <1>1, <1>2, <1>3 DEF OpfsTypeOK, ServerGoes
<1>5. QED
  BY <1>2, <1>3, <1>4

(* The calls. *)

LEMMA HandleStepInv ==
  ASSUME OpfsInv, NEW t \in Tabs, Handle(t)
  PROVE  OpfsInv'
<1> USE DEF OpfsInv
<1>1. /\ server[t] = "handles"
      /\ UNCHANGED <<client, opened, locked, level, call, calls, request, answer>>
  BY DEF Handle, clientVars
<1>2. CASE /\ ServerGoes(t, "ok")
           /\ UNCHANGED <<handleVars, ghostVars, attempt>>
  BY <1>1, <1>2 DEF OpfsTypeOK, HandleInv, LocksHold, ServerGoes, handleVars,
                    ghostVars
<1>3. CASE /\ ServerGoes(t, "ok") /\ ReleaseImplicit(t) /\ Pause(t)
           /\ UNCHANGED <<held, overtaken, attempt>>
  <2>1. /\ handle' \in Tabs \cup {Nobody} /\ implicit' = Tabs \cap {handle'}
        /\ explicit' \subseteq implicit' /\ HandleInv'
    BY <1>3, ReleaseActInv
  <2>2. paused' \cup overtaken' \subseteq held' /\ LocksHold'
    BY <1>3 DEF OpfsTypeOK, Pause, LocksHold
  <2>3. OpfsTypeOK'
    BY <1>1, <1>3, <2>1, <2>2 DEF OpfsTypeOK, ServerGoes
  <2>4. QED
    BY <2>1, <2>2, <2>3
<1>4. CASE /\ ServerGoes(t, "ok") /\ CloseHandle(t) /\ Unheld(t)
           /\ UNCHANGED attempt
  <2>1. OpfsTypeOK'
    BY <1>1, <1>4, OpfsAssumption
    DEF OpfsTypeOK, ServerGoes, CloseHandle, Unheld
  <2>2. HandleInv' /\ LocksHold'
    BY <1>1, <1>4
    DEF OpfsTypeOK, HandleInv, LocksHold, ServerGoes, CloseHandle, Unheld
  <2>3. QED
    BY <2>1, <2>2
<1>5. CASE /\ ServerGoes(t, IF handle = t THEN "acts" ELSE "opens")
           /\ attempt' = [attempt EXCEPT ![t] = IF handle = t THEN 0 ELSE 1]
           /\ UNCHANGED <<handleVars, ghostVars>>
  <2>1. attempt' \in [Tabs -> 0..Attempts]
    BY <1>5, AttemptCounts DEF OpfsTypeOK
  <2>2. OpfsTypeOK'
    BY <1>1, <1>5, <2>1 DEF OpfsTypeOK, ServerGoes, handleVars, ghostVars
  <2>3. HandleInv' /\ LocksHold'
    BY <1>1, <1>5
    DEF OpfsTypeOK, HandleInv, LocksHold, ServerGoes, handleVars, ghostVars
  <2>4. QED
    BY <2>2, <2>3
<1>6. QED
  BY <1>2, <1>3, <1>4, <1>5 DEF Handle

\* A handle that nobody has is nobody's lock either.
LEMMA OpenHandleInv ==
  ASSUME OpfsInv, NEW t \in Tabs, OpenHandle(t)
  PROVE  OpfsInv'
<1> USE DEF OpfsInv
<1>1. /\ server[t] = "opens"
      /\ UNCHANGED <<client, opened, locked, level, call, calls, request, answer,
                     held, paused, overtaken>>
  BY DEF OpenHandle, clientVars, ghostVars
<1>2. CASE /\ handle = Nobody /\ handle' = t
           /\ implicit' = IF t \in explicit THEN implicit ELSE implicit \cup {t}
           /\ ServerGoes(t, "acts")
           /\ attempt' = [attempt EXCEPT ![t] = 0]
           /\ UNCHANGED explicit
  <2>1. implicit = {} /\ explicit = {}
    BY <1>2, OpfsAssumption DEF OpfsTypeOK
  <2>2. /\ handle' \in Tabs \cup {Nobody} /\ implicit' = Tabs \cap {handle'}
        /\ explicit' \subseteq implicit'
    BY <1>2, <2>1
  <2>3. attempt' \in [Tabs -> 0..Attempts]
    BY <1>2, AttemptCounts DEF OpfsTypeOK
  <2>4. OpfsTypeOK'
    BY <1>1, <1>2, <2>2, <2>3 DEF OpfsTypeOK, ServerGoes
  <2>5. HandleInv'
    BY <1>1, <1>2, OpfsAssumption DEF OpfsTypeOK, HandleInv, ServerGoes
  <2>6. LocksHold'
    BY <1>1 DEF LocksHold
  <2>7. QED
    BY <2>4, <2>5, <2>6
<1>3. CASE /\ \/ /\ ServerGoes(t, "error")
                 /\ attempt' = [attempt EXCEPT ![t] = 0]
              \/ /\ attempt[t] # Attempts
                 /\ attempt' = [attempt EXCEPT ![t] = @ + 1]
                 /\ UNCHANGED server
           /\ UNCHANGED handleVars
  <2>1. attempt' \in [Tabs -> 0..Attempts]
    <3>1. CASE attempt' = [attempt EXCEPT ![t] = 0]
      BY <3>1, AttemptCounts DEF OpfsTypeOK
    <3>2. CASE /\ attempt[t] # Attempts
               /\ attempt' = [attempt EXCEPT ![t] = @ + 1]
      BY <3>2, AttemptCounts DEF OpfsTypeOK
    <3>3. QED
      BY <1>3, <3>1, <3>2
  <2>2. server' \in [Tabs -> {"waits", "timed out", "handles", "opens", "acts",
                              "ok", "error", "ended"}]
    BY <1>3 DEF OpfsTypeOK, ServerGoes
  <2>3. OpfsTypeOK'
    BY <1>1, <1>3, <2>1, <2>2 DEF OpfsTypeOK, handleVars
  <2>4. HandleInv' /\ LocksHold'
    BY <1>1, <1>3 DEF OpfsTypeOK, HandleInv, LocksHold, ServerGoes, handleVars
  <2>5. QED
    BY <2>3, <2>4
<1>4. QED
  BY <1>2, <1>3 DEF OpenHandle

\* Who changes the file has the handle: a tab that did not pause is not
\* overtaken.
LEMMA ActInv ==
  ASSUME OpfsInv, NEW t \in Tabs, Act(t)
  PROVE  OpfsInv'
<1> USE DEF OpfsInv
<1>1. /\ server[t] = "acts" /\ handle = t
      /\ ServerGoes(t, "ok")
      /\ UNCHANGED <<client, opened, locked, level, call, calls, request, answer, attempt>>
  BY DEF Act, clientVars, HandleInv
<1>2. \A u \in held : u # t => u \in paused
  BY <1>1 DEF HandleInv
<1>3. CASE /\ explicit' = explicit \cup {t} /\ held' = held \cup {t}
           /\ paused' = paused \ {t} /\ overtaken' = overtaken \ {t}
           /\ UNCHANGED <<handle, implicit>>
  <2>1. OpfsTypeOK'
    BY <1>1, <1>3 DEF OpfsTypeOK, ServerGoes
  <2>2. HandleInv' /\ LocksHold'
    BY <1>1, <1>3 DEF OpfsTypeOK, HandleInv, LocksHold, ServerGoes
  <2>3. QED
    BY <2>1, <2>2
<1>4. CASE /\ held' = held \cup Locker(t)
           /\ overtaken' \in {overtaken, overtaken \cup (held \ {t})}
           /\ \/ ReleaseImplicit(t) /\ Pause(t)
              \/ UNCHANGED <<handleVars, paused>>
  <2>1. Locker(t) \subseteq {t}
    BY DEF Locker
  <2>2. /\ held' \subseteq Tabs
        /\ held \subseteq held' /\ held' \subseteq held \cup {t}
    BY <1>4, <2>1 DEF OpfsTypeOK
  <2>3. /\ paused \subseteq paused'
        /\ paused' \cup overtaken' \subseteq held'
    BY <1>4 DEF OpfsTypeOK, Pause
  <2>4. LocksHold'
    <3> SUFFICES ASSUME NEW u \in held', u \in overtaken' PROVE u \in paused'
      BY DEF LocksHold
    <3>1. CASE u # t
      BY <1>2, <2>2, <2>3, <3>1
    <3>2. CASE u = t
      <4>1. t \in overtaken
        BY <1>4, <3>2
      <4>2. t \in paused
        BY <4>1 DEF OpfsTypeOK, LocksHold
      <4>3. QED
        BY <2>3, <3>2, <4>2
    <3>3. QED
      BY <3>1, <3>2
  <2>5. /\ handle' \in Tabs \cup {Nobody} /\ implicit' = Tabs \cap {handle'}
        /\ explicit' \subseteq implicit' /\ HandleInv'
    <3>1. CASE ReleaseImplicit(t) /\ Pause(t)
      BY <1>1, <2>2, <3>1, ReleaseActInv
    <3>2. CASE UNCHANGED <<handleVars, paused>>
      BY <1>1, <2>2, <3>2 DEF OpfsTypeOK, HandleInv, ServerGoes, handleVars
    <3>3. QED
      BY <1>4, <3>1, <3>2
  <2>6. OpfsTypeOK'
    BY <1>1, <2>2, <2>3, <2>5 DEF OpfsTypeOK, ServerGoes
  <2>7. QED
    BY <2>4, <2>5, <2>6
<1>5. QED
  BY <1>3, <1>4 DEF Act

-----------------------------------------------------------------------------
LEMMA OpfsNextInv == OpfsInv /\ [OpfsNext]_opfsVars => OpfsInv'
<1> SUFFICES ASSUME OpfsInv, [OpfsNext]_opfsVars PROVE OpfsInv'
  OBVIOUS
<1>1. CASE OpfsNext
  <2>1. PICK t \in Tabs :
          \/ \E c \in Calls : Call(t, c)
          \/ LockAgain(t) \/ Return(t) \/ CloseTab(t) \/ TimeOut(t) \/ ServerAct(t)
    BY <1>1 DEF OpfsNext
  <2>2. QED
    BY <2>1, CallInv, LockAgainInv, ReturnInv, CloseTabInv, CellsInv, LetGoInv,
       HandleStepInv, OpenHandleInv, ActInv DEF ServerAct
<1>2. CASE UNCHANGED opfsVars
  BY <1>2 DEF opfsVars, OpfsInv, OpfsTypeOK, HandleInv, LocksHold
<1>3. QED
  BY <1>1, <1>2

THEOREM OpfsInvariant == OpfsSpec => []OpfsInv
BY OpfsInitInv, OpfsNextInv, PTL DEF OpfsSpec

\* The types of the cells, and that the handle that is open is the one the
\* server has noted.
THEOREM OpfsTypesOK == OpfsSpec => []OpfsTypeOK
<1>1. OpfsInv => OpfsTypeOK
  BY DEF OpfsInv
<1>2. QED
  BY OpfsInvariant, <1>1, PTL

\* What a tab has had of the file since SQLite locked it is changed by another
\* tab before the unlock only after its server paused: for any number of tabs
\* and calls, the locks that reach the server and those that do not (xLock and
\* xUnlock of the file object and of the file system server).
THEOREM LockHolds == OpfsSpec => []LocksHold
<1>1. OpfsInv => LocksHold
  BY DEF OpfsInv
<1>2. QED
  BY OpfsInvariant, <1>1, PTL

-----------------------------------------------------------------------------
(* Files that are kept open: the inductive invariant. *)

IsContent(c) == c = [p \in DOMAIN c |-> c[p]]

FilesTyped ==
  /\ marks \in [FixedNames -> BOOLEAN] /\ copy \in [FixedNames -> BOOLEAN]
  /\ IsContent(database) /\ IsContent(durable) /\ IsContent(journal.saved)
  /\ journal = [header |-> journal.header, size |-> journal.size, saved |-> journal.saved]
  /\ journal.header \in BOOLEAN /\ journal.size \in Nat

\* A journal that counts.
Active == marks["journal"] /\ journal.header

\* An active journal has the size of the last commit, and every page of it
\* that the database may have lost.
Undoes ==
  /\ HasPages(durable) = 1..journal.size
  /\ 1..journal.size \subseteq HasPages(database)
  /\ HasPages(journal.saved) \subseteq 1..journal.size
  /\ \A p \in HasPages(journal.saved) : durable[p] = journal.saved[p]
  /\ \A p \in 1..journal.size :
       p \notin HasPages(journal.saved) => durable[p] = database[p]

\* There always is a way back to the last commit.
Recoverable == IF Active THEN Undoes ELSE durable = database

\* A database that is not marked was never written.
MarkedFirst ==
  /\ step # "down" => copy = marks
  /\ ~marks["database"] =>
       /\ database = NoBytes /\ durable = NoBytes /\ ~marks["journal"]
       /\ step \in {"down", "mark database"}

Gapless(pages) == \E n \in Nat : pages = 1..n

\* What SQLite relies on at each of its steps.
InPlace ==
  /\ Gapless(HasPages(durable))
  /\ step \in {"mark journal", "header", "save", "write"} =>
       Gapless(HasPages(database) \cup todo)
  /\ step \in {"idle", "mark journal"} => ~marks["journal"]
  /\ step = "mark journal" => ~journal.header
  /\ step = "header" => marks["journal"] /\ ~journal.header
  /\ step \in {"save", "write", "undo"} => Active
  /\ step = "save" =>
       HasPages(database) = 1..journal.size /\ HasPages(journal.saved) = {}
  /\ step = "write" => \A p \in todo : p \in 1..journal.size => p \in HasPages(journal.saved)
  /\ step = "undo" =>
       /\ todo \subseteq HasPages(journal.saved)
       /\ \A p \in HasPages(journal.saved) \ todo : database[p] = journal.saved[p]
  /\ step = "drop" => marks["journal"] /\ durable = database

FilesInv == FilesTyped /\ Recoverable /\ MarkedFirst /\ InPlace

-----------------------------------------------------------------------------
(* Contents. *)

LEMMA NoBytesContent == IsContent(NoBytes) /\ HasPages(NoBytes) = {}
BY SMT DEF IsContent, NoBytes, HasPages

LEMMA SameContent ==
  ASSUME NEW c, NEW d, IsContent(c), IsContent(d), HasPages(c) = HasPages(d),
         \A p \in HasPages(c) : c[p] = d[p]
  PROVE  c = d
BY DEF IsContent, HasPages

LEMMA OnlyNoBytes ==
  ASSUME NEW c, IsContent(c), HasPages(c) = {} PROVE c = NoBytes
BY NoBytesContent, SameContent

LEMMA Counted == \A n \in Nat : IsFiniteSet(1..n) /\ Cardinality(1..n) = n
<1> SUFFICES ASSUME NEW n \in Nat PROVE IsFiniteSet(1..n) /\ Cardinality(1..n) = n
  OBVIOUS
<1>1. IsFiniteSet(1..n) /\ Cardinality(1..n) = IF 1 > n THEN 0 ELSE n - 1 + 1
  BY FS_Interval
<1>2. QED
  BY <1>1

(* The steps. *)

LEMMA FilesInitInv == FixedInit => FilesInv
<1> SUFFICES ASSUME FixedInit PROVE FilesInv
  OBVIOUS
<1> USE DEF FixedInit
<1>1. IsContent(NoBytes) /\ HasPages(NoBytes) = {}
  BY NoBytesContent
<1>2. FilesTyped
  BY <1>1 DEF FilesTyped, NoMarks, NoJournal, FixedNames
<1>3. ~marks["journal"]
  BY DEF NoMarks, FixedNames
<1>4. Recoverable /\ MarkedFirst
  BY <1>3 DEF Recoverable, Active, MarkedFirst
<1>5. Gapless(HasPages(durable))
  <2>1. {} = 1..0
    OBVIOUS
  <2>2. QED
    BY <1>1, <2>1 DEF Gapless
<1>6. InPlace
  BY <1>5 DEF InPlace
<1>7. QED
  BY <1>2, <1>4, <1>6 DEF FilesInv

\* Facts of a state in which the invariant holds, without the definitions.
LEMMA Plain ==
  ASSUME FilesInv
  PROVE  /\ marks["journal"] \in BOOLEAN /\ marks["database"] \in BOOLEAN
         /\ \A f \in FixedNames, b \in BOOLEAN :
              /\ [copy EXCEPT ![f] = b] \in [FixedNames -> BOOLEAN]
              /\ [copy EXCEPT ![f] = b][f] = b
              /\ \A g \in FixedNames : g # f => [copy EXCEPT ![f] = b][g] = copy[g]
BY DEF FilesInv, FilesTyped, FixedNames

-----------------------------------------------------------------------------
(* Steps of the marks alone *)

LEMMA OpeningKeeps ==
  ASSUME FilesInv, OpenMarked \/ OpenUnmarked \/ LookForJournal PROVE FilesInv'
<1> USE DEF FilesInv, ReadsMarks
<1>1. CASE OpenMarked
  <2> USE <1>1 DEF OpenMarked
  <2>1. FilesTyped'
    BY DEF FilesTyped
  <2>2. Recoverable' /\ MarkedFirst' /\ InPlace'
    BY DEF Recoverable, Active, Undoes, MarkedFirst, InPlace, HasPages, Gapless
  <2>3. QED
    BY <2>1, <2>2
<1>2. CASE OpenUnmarked
  <2> USE <1>2 DEF OpenUnmarked
  <2>1. database' = database
    BY DEF MarkedFirst, Truncated
  <2>2. FilesTyped'
    BY <2>1 DEF FilesTyped
  <2>3. Recoverable' /\ MarkedFirst' /\ InPlace'
    BY <2>1 DEF Recoverable, Active, Undoes, MarkedFirst, InPlace, HasPages, Gapless
  <2>4. QED
    BY <2>2, <2>3
<1>3. CASE LookForJournal
  <2> USE <1>3 DEF LookForJournal
  <2>1. FilesTyped' /\ Recoverable' /\ MarkedFirst'
    BY DEF FilesTyped, Recoverable, Active, Undoes, MarkedFirst, HasPages
  <2>2. CASE ~marks["journal"]
    BY <2>1, <2>2 DEF InPlace, Gapless, HasPages
  <2>3. CASE marks["journal"] /\ ~journal.header
    <3>1. step' = "drop" /\ durable = database
      BY <2>3 DEF Recoverable, Active
    <3>2. QED
      BY <2>1, <2>3, <3>1 DEF InPlace, Gapless, HasPages
  <2>4. CASE Active /\ database = NoBytes
    <3>1. HasPages(durable) = {}
      BY <2>4, NoBytesContent DEF Recoverable, Undoes
    <3>2. durable = database
      BY <2>4, <3>1, OnlyNoBytes DEF FilesTyped
    <3>3. step' = "drop"
      BY <2>4 DEF Active
    <3>4. QED
      BY <2>1, <2>4, <3>2, <3>3 DEF InPlace, Gapless, HasPages, Active
  <2>5. CASE Active /\ database # NoBytes
    <3>1. step' = "undo" /\ todo' = HasPages(journal.saved)
      BY <2>5 DEF Active
    <3>2. QED
      BY <2>1, <2>5, <3>1 DEF InPlace, Gapless, HasPages, Active
  <2>6. QED
    BY <2>2, <2>3, <2>4, <2>5, Plain DEF Active, FilesTyped
<1>4. QED
  BY <1>1, <1>2, <1>3

LEMMA MarkingKeeps ==
  ASSUME FilesInv, MarkDatabase \/ MarkJournal \/ DropJournal \/ CommitByDelete
  PROVE  FilesInv'
<1> USE DEF FilesInv
<1>0. copy = marks
  BY DEF MarkedFirst, MarkDatabase, MarkJournal, DropJournal, CommitByDelete
<1>1. CASE MarkDatabase
  <2>1. /\ marks' = [marks EXCEPT !["database"] = TRUE] /\ copy' = marks'
        /\ step = "mark database" /\ step' = "look"
        /\ UNCHANGED <<database, journal, todo, version, durable, stops>>
    BY <1>0, <1>1 DEF MarkDatabase, Sets
  <2>2. FilesTyped'
    BY <2>1 DEF FilesTyped, FixedNames
  <2>3. marks'["journal"] = marks["journal"] /\ marks'["database"]
    BY <2>1 DEF FilesTyped, FixedNames
  <2>4. Recoverable' /\ MarkedFirst' /\ InPlace'
    BY <2>1, <2>3 DEF Recoverable, Active, Undoes, MarkedFirst, InPlace, HasPages, Gapless
  <2>5. QED
    BY <2>2, <2>4
<1>2. CASE MarkJournal
  <2>1. /\ marks' = [marks EXCEPT !["journal"] = TRUE] /\ copy' = marks'
        /\ step = "mark journal" /\ step' = "header"
        /\ UNCHANGED <<database, journal, todo, version, durable, stops>>
    BY <1>0, <1>2 DEF MarkJournal, Sets
  <2>2. FilesTyped'
    BY <2>1 DEF FilesTyped, FixedNames
  <2>3. marks'["journal"] /\ marks'["database"] = marks["database"]
    BY <2>1 DEF FilesTyped, FixedNames
  <2>4. ~journal.header /\ ~journal'.header /\ marks["database"]
    BY <2>1 DEF InPlace, MarkedFirst
  <2>5. Recoverable' /\ MarkedFirst' /\ InPlace'
    BY <2>1, <2>3, <2>4 DEF Recoverable, Active, MarkedFirst, InPlace, HasPages, Gapless
  <2>6. QED
    BY <2>2, <2>5
<1>3. CASE DropJournal \/ CommitByDelete
  <2>1. /\ marks' = [marks EXCEPT !["journal"] = FALSE] /\ copy' = marks'
        /\ step' = "idle" /\ step \in {"drop", "write"}
        /\ UNCHANGED <<database, journal>>
    BY <1>0, <1>3 DEF DropJournal, CommitByDelete, Sets
  <2>2. durable' = database
    BY <1>3 DEF DropJournal, CommitByDelete, InPlace
  <2>3. FilesTyped'
    BY <2>1, <2>2 DEF FilesTyped, FixedNames
  <2>4. ~marks'["journal"] /\ marks'["database"] = marks["database"]
    BY <2>1 DEF FilesTyped, FixedNames
  <2>5. marks["database"]
    BY <2>1 DEF MarkedFirst
  <2>6. Gapless(HasPages(durable'))
    <3>1. CASE DropJournal
      BY <3>1, <2>2 DEF InPlace, DropJournal
    <3>2. CASE CommitByDelete
      <4>1. todo = {} /\ Gapless(HasPages(database) \cup todo)
        BY <3>2 DEF CommitByDelete, InPlace
      <4>2. HasPages(database) \cup {} = HasPages(database)
        OBVIOUS
      <4>3. QED
        BY <4>1, <4>2, <2>2
    <3>3. QED
      BY <1>3, <3>1, <3>2
  <2>7. Recoverable' /\ MarkedFirst' /\ InPlace'
    BY <2>1, <2>2, <2>4, <2>5, <2>6 DEF Recoverable, Active, MarkedFirst, InPlace, HasPages
  <2>8. QED
    BY <2>3, <2>7
<1>4. QED
  BY <1>1, <1>2, <1>3

-----------------------------------------------------------------------------
(* A transaction *)

LEMMA BeginKeeps ==
  ASSUME FilesInv, NEW pages \in SUBSET (1..MaxPages), BeginTransaction(pages)
  PROVE  FilesInv'
<1> USE DEF FilesInv
<1>1. /\ step = "idle" /\ step' = "mark journal" /\ todo' = pages
      /\ copy' = marks /\ marks' = marks
      /\ database' = database /\ durable' = durable
      /\ ~marks["journal"]
  BY DEF BeginTransaction, ReadsMarks, InPlace
<1>2. journal' = NoJournal
  BY <1>1 DEF BeginTransaction, Truncated
<1>3. FilesTyped'
  BY <1>1, <1>2, NoBytesContent DEF FilesTyped, NoJournal
<1>4. Gapless(HasPages(database) \cup pages)
  <2>1. PICK n \in Nat : HasPages(database) = 1..n
    BY <1>1 DEF InPlace, Recoverable, Active, Gapless
  <2>2. IsFiniteSet(HasPages(database)) /\ IsFiniteSet(1..MaxPages)
    BY <2>1, Counted, FixedAssumption DEF FixedAssumption
  <2>3. IsFiniteSet(pages)
    BY <2>2, FS_Subset
  <2>4. IsFiniteSet(HasPages(database) \cup pages)
    BY <2>2, <2>3, FS_Union
  <2>5. Cardinality(HasPages(database) \cup pages) \in Nat
    BY <2>4, FS_CardinalityType
  <2>6. QED
    BY <2>5 DEF Gapless, BeginTransaction
<1>5. ~journal'.header
  BY <1>2 DEF NoJournal
<1>6. Recoverable' /\ MarkedFirst' /\ InPlace'
  BY <1>1, <1>4, <1>5 DEF Recoverable, Active, MarkedFirst, InPlace, HasPages, Gapless
<1>7. QED
  BY <1>3, <1>6

LEMMA HeaderKeeps == ASSUME FilesInv, WriteHeader PROVE FilesInv'
<1> USE DEF FilesInv
<1>1. /\ step = "header" /\ step' = "save"
      /\ UNCHANGED <<marks, copy, database, todo, durable>>
      /\ marks["journal"] /\ ~journal.header
  BY DEF WriteHeader, InPlace
<1>2. PICK n \in Nat : HasPages(durable) = 1..n
  BY DEF InPlace, Gapless
<1>3. durable = database
  BY <1>1 DEF Recoverable, Active
<1>4. Cardinality(HasPages(database)) = n
  BY <1>2, <1>3, Counted
<1>5. journal' = [header |-> TRUE, size |-> n, saved |-> NoBytes]
  BY <1>4 DEF WriteHeader
<1>6. FilesTyped'
  BY <1>1, <1>5, NoBytesContent DEF FilesTyped
<1>7. journal'.header /\ journal'.size = n /\ HasPages(journal'.saved) = {}
  BY <1>5, NoBytesContent
<1>8. Active' /\ HasPages(journal.saved)' = {}
  BY <1>1, <1>7 DEF Active, HasPages
<1>9. Undoes'
  BY <1>1, <1>2, <1>3, <1>7 DEF Undoes, HasPages
<1>10. MarkedFirst'
  BY <1>1 DEF MarkedFirst
<1>11. InPlace'
  BY <1>1, <1>2, <1>3, <1>7, <1>8 DEF InPlace, HasPages, Gapless
<1>12. QED
  BY <1>6, <1>8, <1>9, <1>10, <1>11 DEF Recoverable

LEMMA SaveKeeps == ASSUME FilesInv, SavePages PROVE FilesInv'
<1> USE DEF FilesInv
<1> DEFINE kept == [p \in todo \cap HasPages(database) |-> database[p]]
<1>1. /\ step = "save" /\ step' = "write"
      /\ UNCHANGED <<marks, copy, database, todo, durable>>
      /\ Active /\ HasPages(database) = 1..journal.size /\ HasPages(journal.saved) = {}
      /\ Undoes
  BY DEF SavePages, InPlace, Recoverable
<1>2. journal' = [header |-> journal.header, size |-> journal.size, saved |-> kept]
  BY DEF SavePages, FilesTyped
<1>3. journal'.header = journal.header /\ journal'.size = journal.size /\ journal'.saved = kept
  BY <1>2
<1>4. HasPages(kept) = todo \cap HasPages(database)
  BY DEF HasPages
<1>5. FilesTyped'
  BY <1>1, <1>2, <1>3 DEF FilesTyped, IsContent
<1>6. Active'
  BY <1>1, <1>3 DEF Active
<1>7. Undoes'
  BY <1>1, <1>3, <1>4 DEF Undoes, HasPages
<1>8. MarkedFirst'
  BY <1>1 DEF MarkedFirst
<1>9. InPlace'
  BY <1>1, <1>3, <1>4, <1>6 DEF InPlace, HasPages, Gapless
<1>10. QED
  BY <1>5, <1>6, <1>7, <1>8, <1>9 DEF Recoverable

LEMMA WriteKeeps ==
  ASSUME FilesInv, NEW p \in 1..MaxPages, WritePage(p) PROVE FilesInv'
<1> USE DEF FilesInv
<1>1. /\ step = "write" /\ step' = "write" /\ p \in todo /\ todo' = todo \ {p}
      /\ UNCHANGED <<marks, copy, journal, durable>>
      /\ Active /\ Undoes
      /\ p \in 1..journal.size => p \in HasPages(journal.saved)
  BY DEF WritePage, InPlace, Recoverable
<1>2. /\ IsContent(database')
      /\ HasPages(database') = HasPages(database) \cup {p}
      /\ \A q \in HasPages(database) : q # p => database'[q] = database[q]
  BY DEF WritePage, IsContent, HasPages
<1>3. FilesTyped'
  BY <1>1, <1>2 DEF FilesTyped
<1>4. Active'
  BY <1>1 DEF Active
<1>5. Undoes'
  BY <1>1, <1>2 DEF Undoes, HasPages
<1>6. MarkedFirst'
  BY <1>1 DEF MarkedFirst
<1>7. HasPages(database') \cup todo' = HasPages(database) \cup todo
  BY <1>1, <1>2
<1>8. InPlace'
  BY <1>1, <1>4, <1>7 DEF InPlace, HasPages, Gapless
<1>9. QED
  BY <1>3, <1>4, <1>5, <1>6, <1>8 DEF Recoverable

LEMMA RollBackKeeps == ASSUME FilesInv, RollBack PROVE FilesInv'
<1> USE DEF FilesInv
<1>1. /\ step = "write" /\ step' = "undo" /\ todo' = HasPages(journal.saved)
      /\ UNCHANGED <<marks, copy, database, journal, durable>> /\ Active
  BY DEF RollBack, InPlace
<1>2. FilesTyped' /\ Recoverable' /\ MarkedFirst'
  BY <1>1 DEF FilesTyped, Recoverable, Active, Undoes, MarkedFirst, HasPages
<1>3. InPlace'
  BY <1>1 DEF InPlace, HasPages, Gapless, Active
<1>4. QED
  BY <1>2, <1>3

-----------------------------------------------------------------------------
(* Playing a journal back, and the end of a worker *)

LEMMA UndoKeeps ==
  ASSUME FilesInv, NEW p \in 1..MaxPages, UndoPage(p) PROVE FilesInv'
<1> USE DEF FilesInv
<1>1. /\ step = "undo" /\ step' = "undo" /\ p \in todo /\ todo' = todo \ {p}
      /\ UNCHANGED <<marks, copy, journal, durable>>
      /\ Active /\ Undoes
      /\ p \in HasPages(journal.saved) /\ p \in HasPages(database)
      /\ todo \subseteq HasPages(journal.saved)
      /\ \A q \in HasPages(journal.saved) \ todo : database[q] = journal.saved[q]
  BY DEF UndoPage, InPlace, Recoverable, Undoes
<1>2. /\ IsContent(database')
      /\ HasPages(database') = HasPages(database)
      /\ database'[p] = journal.saved[p]
      /\ \A q \in HasPages(database) : q # p => database'[q] = database[q]
  BY <1>1 DEF UndoPage, IsContent, HasPages, FilesTyped
<1>3. FilesTyped'
  BY <1>1, <1>2 DEF FilesTyped
<1>4. Active'
  BY <1>1 DEF Active
<1>5. Undoes'
  BY <1>1, <1>2 DEF Undoes, HasPages
<1>6. MarkedFirst'
  BY <1>1 DEF MarkedFirst
<1>7. \A q \in HasPages(journal.saved) \ todo' : database'[q] = journal.saved[q]
  BY <1>1, <1>2 DEF Undoes
<1>8. InPlace'
  BY <1>1, <1>4, <1>7 DEF InPlace, HasPages, Gapless
<1>9. QED
  BY <1>3, <1>4, <1>5, <1>6, <1>8 DEF Recoverable

LEMMA CutKeeps == ASSUME FilesInv, CutDatabase PROVE FilesInv'
<1> USE DEF FilesInv
<1>1. /\ step = "undo" /\ step' = "drop" /\ todo = {}
      /\ UNCHANGED <<marks, copy, journal, todo, durable>>
      /\ Active /\ Undoes
      /\ \A q \in HasPages(journal.saved) : database[q] = journal.saved[q]
  BY DEF CutDatabase, InPlace, Recoverable
<1>2. /\ IsContent(database') /\ HasPages(database') = 1..journal.size
      /\ \A q \in 1..journal.size : database'[q] = database[q]
  BY DEF CutDatabase, IsContent, HasPages
<1>3. \A q \in HasPages(durable) : durable[q] = database'[q]
  BY <1>1, <1>2 DEF Undoes
<1>4. durable = database'
  BY <1>1, <1>2, <1>3, SameContent DEF Undoes, FilesTyped
<1>5. FilesTyped'
  BY <1>1, <1>2 DEF FilesTyped
<1>6. Active'
  BY <1>1 DEF Active
<1>7. Undoes'
  BY <1>1, <1>2, <1>3 DEF Undoes, HasPages
<1>8. MarkedFirst' /\ InPlace'
  BY <1>1, <1>4 DEF MarkedFirst, InPlace, HasPages, Gapless, Active
<1>9. QED
  BY <1>5, <1>6, <1>7, <1>8 DEF Recoverable

LEMMA StopKeeps == ASSUME FilesInv, StopWorker PROVE FilesInv'
<1> USE DEF FilesInv, StopWorker
<1>1. FilesTyped' /\ Recoverable'
  BY DEF FilesTyped, Recoverable, Active, Undoes, HasPages, NoMarks, FixedNames
<1>2. MarkedFirst' /\ InPlace'
  BY DEF MarkedFirst, InPlace, HasPages, Gapless
<1>3. QED
  BY <1>1, <1>2

LEMMA FilesNextInv == FilesInv /\ [FixedNext]_fixedVars => FilesInv'
<1> SUFFICES ASSUME FilesInv, [FixedNext]_fixedVars PROVE FilesInv'
  OBVIOUS
<1>1. CASE OpenMarked \/ OpenUnmarked \/ LookForJournal
  BY <1>1, OpeningKeeps
<1>2. CASE MarkDatabase \/ MarkJournal \/ DropJournal \/ CommitByDelete
  BY <1>2, MarkingKeeps
<1>3. CASE \E pages \in SUBSET (1..MaxPages) : BeginTransaction(pages)
  BY <1>3, BeginKeeps
<1>4. CASE WriteHeader \/ SavePages
  BY <1>4, HeaderKeeps, SaveKeeps
<1>5. CASE \E p \in 1..MaxPages : WritePage(p) \/ UndoPage(p)
  BY <1>5, WriteKeeps, UndoKeeps
<1>6. CASE RollBack \/ CutDatabase \/ StopWorker
  BY <1>6, RollBackKeeps, CutKeeps, StopKeeps
<1>7. CASE UNCHANGED fixedVars
  BY <1>7 DEF fixedVars, FilesInv, FilesTyped, Recoverable, Active, Undoes,
              MarkedFirst, InPlace, HasPages, Gapless
<1>8. QED
  BY <1>1, <1>2, <1>3, <1>4, <1>5, <1>6, <1>7 DEF FixedNext

LEMMA FilesInvariant == FixedSpec => []FilesInv
BY FilesInitInv, FilesNextInv, PTL DEF FixedSpec

LEMMA FoundIsDurable == ASSUME FilesInv PROVE LastCommitFound
<1> USE DEF FilesInv
<1>1. CASE ~marks["database"]
  BY <1>1 DEF MarkedFirst, LastCommitFound, Found
<1>2. CASE marks["database"] /\ ~Active
  BY <1>2 DEF Recoverable, Active, LastCommitFound, Found
<1>3. CASE marks["database"] /\ Active /\ database = NoBytes
  <2>1. HasPages(durable) = {}
    BY <1>3, NoBytesContent DEF Recoverable, Undoes
  <2>2. durable = database
    BY <1>3, <2>1, OnlyNoBytes DEF FilesTyped
  <2>3. QED
    BY <1>3, <2>2 DEF Active, LastCommitFound, Found
<1>4. CASE marks["database"] /\ Active /\ database # NoBytes
  <2>1. Found = Undone(database, journal)
    BY <1>4 DEF Active, Found
  <2>2. IsContent(Undone(database, journal)) /\ HasPages(Undone(database, journal)) = 1..journal.size
    BY DEF Undone, IsContent, HasPages
  <2>3. \A p \in HasPages(durable) : durable[p] = Undone(database, journal)[p]
    BY <1>4 DEF Recoverable, Undoes, Undone
  <2>4. durable = Undone(database, journal)
    BY <1>4, <2>2, <2>3, SameContent DEF FilesTyped, Recoverable, Undoes
  <2>5. QED
    BY <2>1, <2>4 DEF LastCommitFound
<1>5. QED
  BY <1>1, <1>2, <1>3, <1>4

\* Whenever the worker ends, between any two of its calls, the next one finds
\* the database that the last commit left: the marks of the two files and the
\* journal tell it (the file system of files that are kept open, and SQLite's
\* journal on it).
THEOREM CommitsAreFound == FixedSpec => []LastCommitFound
BY FilesInvariant, FoundIsDurable, PTL
-----------------------------------------------------------------------------
(* The checks of WorkerChecks: the inductive invariant. *)

Quiet(w) == \A v \in Workers \ {w} : detection[v] = "idle"

\* A question that has the lock waits in front, and what is ready is about what
\* is known.  A detection that meets no other finds the file where it made it,
\* and the handle free.
DetectionInv ==
  \A w \in Workers :
    /\ detection[w] # "idle" => waiting[w] # <<>> /\ ~known[w]
    /\ ready[w] # {} => known[w]
    /\ w # "nested" => waiting[w] \in Seq({w}) /\ ready[w] \subseteq {w}
    /\ w \notin contested =>
         /\ detection[w] # "idle" => Quiet(w)
         /\ detection[w] \in {"handle", "close", "remove"} => probe
         /\ detection[w] \in {"close", "remove"} => outcome[w]
         /\ known[w] => outcome[w]

\* The nested worker fails only before it knows, and its failures come first:
\* none is on its way once a tab was told to use it.
NewsInv ==
  /\ known["nested"] \/ /\ offered = {} /\ served = {}
                        /\ \A i \in DOMAIN news : news[i] = Failure
  /\ \A i, j \in DOMAIN news : i < j /\ news[j] = Failure => news[i] = Failure
  /\ \A i \in DOMAIN news :
       IF news[i] = Failure
       THEN offered = {} /\ served = {} /\ "nested" \in contested
       ELSE news[i].opfs \/ "nested" \in contested

\* While a tab waits for the shared worker and met no other there, the nested
\* worker has nothing but its question.
AloneInv ==
  \A t \in listening \ disturbed :
    /\ waiting["nested"] \in Seq({t}) /\ ready["nested"] \subseteq {t}
    /\ \A i \in DOMAIN news : news[i] # Failure => news[i].about = t

ChecksInv == ChecksTypeOK /\ DetectionInv /\ NewsInv /\ AloneInv /\ AnswersHold

LEMMA CheckNames ==
  /\ "nested" \in Workers /\ "nested" \notin Openers /\ Openers \subseteq Workers
  /\ NoProber \notin Workers /\ \A w \in Workers : w # "nested" => w \in Openers
BY ChecksAssumption DEF Workers, NoProber

LEMMA Reported ==
  /\ Failure \notin Reports /\ Failure # Untold
  /\ \A b \in BOOLEAN, t \in Openers :
       /\ Report(b, t) \in Reports /\ Report(b, t) # Failure
       /\ Report(b, t).opfs = b /\ Report(b, t).about = t
  /\ \A r \in Reports : /\ r = Report(r.opfs, r.about) /\ r # Failure
                        /\ r.opfs \in BOOLEAN /\ r.about \in Openers
<1>1. "error" \notin Openers /\ "error" # "nothing"
  BY ChecksAssumption
<1>2. Failure \notin Reports /\ Failure # Untold
  BY <1>1 DEF Failure, Untold, Report, Reports
<1>3. \A b \in BOOLEAN, t \in Openers :
       /\ Report(b, t) \in Reports
       /\ Report(b, t).opfs = b /\ Report(b, t).about = t
  BY DEF Report, Reports
<1>4. \A r \in Reports : /\ r = Report(r.opfs, r.about)
                         /\ r.opfs \in BOOLEAN /\ r.about \in Openers
  BY DEF Report, Reports
<1>5. QED
  BY <1>2, <1>3, <1>4

\* A sequence with one more at its end, and without its first.
LEMMA LastAdded ==
  ASSUME NEW S, NEW q \in Seq(S), NEW x \in S
  PROVE  /\ Append(q, x) \in Seq(S) /\ Append(q, x) # <<>>
         /\ DOMAIN Append(q, x) = DOMAIN q \cup {Len(q) + 1}
         /\ Append(q, x)[Len(q) + 1] = x
         /\ \A i \in DOMAIN q : /\ Append(q, x)[i] = q[i] /\ i \in Nat
                                /\ i < Len(q) + 1
<1>1. /\ Append(q, x) \in Seq(S) /\ Len(Append(q, x)) = Len(q) + 1 /\ Len(q) \in Nat
      /\ Append(q, x)[Len(q) + 1] = x
      /\ \A i \in 1..Len(q) : Append(q, x)[i] = q[i]
  OBVIOUS
<1>2. /\ DOMAIN q = 1..Len(q) /\ DOMAIN Append(q, x) = 1..(Len(q) + 1)
  BY <1>1
<1>3. Append(q, x) # <<>>
  BY <1>1
<1>4. QED
  BY <1>1, <1>2, <1>3

LEMMA FirstTaken ==
  ASSUME NEW S, NEW q \in Seq(S), q # <<>>
  PROVE  /\ Head(q) \in S /\ Tail(q) \in Seq(S)
         /\ 1 \in DOMAIN q /\ q[1] = Head(q)
         /\ \A i \in DOMAIN q : i \in Nat /\ 1 <= i
         /\ \A i \in DOMAIN Tail(q) : /\ i \in Nat /\ 1 < i + 1
                                      /\ i + 1 \in DOMAIN q
                                      /\ Tail(q)[i] = q[i + 1]
OBVIOUS

-----------------------------------------------------------------------------
LEMMA ChecksInitInv == ChecksInit => ChecksInv
<1> SUFFICES ASSUME ChecksInit PROVE ChecksInv
  OBVIOUS
<1>1. ChecksTypeOK
  <2>1. 0 \in 0..MaxChecks
    BY ChecksAssumption
  <2>2. waiting \in [Workers -> Seq(Openers)] /\ news \in Seq({Failure} \cup Reports)
    BY DEF ChecksInit
  <2>3. \A w \in Workers : prober = w <=> detection[w] = "close"
    BY CheckNames DEF ChecksInit
  <2>4. QED
    BY <2>1, <2>2, <2>3 DEF ChecksInit, ChecksTypeOK
<1>2. DetectionInv
  BY DEF ChecksInit, DetectionInv
<1>3. NewsInv /\ AloneInv
  BY DEF ChecksInit, NewsInv, AloneInv
<1>4. AnswersHold
  BY DEF ChecksInit, AnswersHold
<1>5. QED
  BY <1>1, <1>2, <1>3, <1>4 DEF ChecksInv

\* A detection that meets no other is the only one.
LEMMA OthersIdle ==
  ASSUME DetectionInv, NEW v \in Workers, NEW w \in Workers, v # w,
         v \notin contested, detection[w] # "idle"
  PROVE  detection[v] = "idle"
BY DEF DetectionInv, Quiet

(* Questions. *)

LEMMA AskOwnInv ==
  ASSUME ChecksInv, NEW t \in Openers, AskOwn(t)
  PROVE  ChecksInv'
<1> USE DEF ChecksInv
<1>1. t \in Workers /\ t # "nested"
  BY CheckNames
<1>2. /\ waiting' = [waiting EXCEPT ![t] = Append(waiting[t], t)]
      /\ told' = [told EXCEPT ![t] = Untold]
      /\ question' = [question EXCEPT ![t] = "own"]
      /\ checks < MaxChecks /\ checks' = checks + 1
  BY DEF AskOwn, Question, Queued
<1>3. /\ UNCHANGED <<probe, prober, detection, outcome, known, ready, alive,
                     listening, news, offered, served, lost, disturbed, contested>>
  BY DEF AskOwn, probeVars, sharedVars
<1>4. /\ waiting[t] \in Seq({t}) /\ waiting[t] \in Seq(Openers)
  BY <1>1 DEF DetectionInv, ChecksTypeOK
<1>5. /\ Append(waiting[t], t) \in Seq({t}) /\ Append(waiting[t], t) \in Seq(Openers)
      /\ Append(waiting[t], t) # <<>>
  BY <1>4
<1>6. \A w \in Workers : waiting'[w] = IF w = t THEN Append(waiting[t], t) ELSE waiting[w]
  BY <1>1, <1>2 DEF ChecksTypeOK
<1>7. ChecksTypeOK'
  <2>1. checks' \in 0..MaxChecks
    BY <1>2, ChecksAssumption DEF ChecksTypeOK
  <2>2. waiting' \in [Workers -> Seq(Openers)]
    BY <1>1, <1>2, <1>5 DEF ChecksTypeOK
  <2>3. /\ told' \in [Openers -> {Untold, Failure} \cup Reports]
        /\ question' \in [Openers -> {"none", "own", "shared"}]
    BY <1>2 DEF ChecksTypeOK
  <2>4. QED
    BY <1>3, <2>1, <2>2, <2>3 DEF ChecksTypeOK
<1>8. DetectionInv'
  <2> SUFFICES ASSUME NEW w \in Workers
               PROVE  /\ detection[w] # "idle" => waiting'[w] # <<>> /\ ~known[w]
                      /\ ready[w] # {} => known[w]
                      /\ w # "nested" => waiting'[w] \in Seq({w}) /\ ready[w] \subseteq {w}
                      /\ w \notin contested =>
                           /\ detection[w] # "idle" => Quiet(w)
                           /\ detection[w] \in {"handle", "close", "remove"} => probe
                           /\ detection[w] \in {"close", "remove"} => outcome[w]
                           /\ known[w] => outcome[w]
    BY <1>3 DEF DetectionInv, Quiet
  <2>1. QED
    BY <1>5, <1>6 DEF DetectionInv
<1>9. NewsInv' /\ AloneInv'
  BY <1>1, <1>3, <1>6, CheckNames DEF NewsInv, AloneInv
<1>10. AnswersHold'
  BY <1>2, <1>3 DEF AnswersHold, ChecksTypeOK
<1>11. QED
  BY <1>7, <1>8, <1>9, <1>10

LEMMA AskSharedInv ==
  ASSUME ChecksInv, NEW t \in Openers, AskShared(t)
  PROVE  ChecksInv'
<1> USE DEF ChecksInv
<1> DEFINE line == waiting["nested"]
<1>1. /\ waiting' = [waiting EXCEPT !["nested"] = Append(line, t)]
      /\ told' = [told EXCEPT ![t] = Untold]
      /\ question' = [question EXCEPT ![t] = "shared"]
      /\ checks < MaxChecks /\ checks' = checks + 1
      /\ alive' = TRUE /\ listening' = listening \cup {t}
      /\ disturbed' = IF Nested = {} THEN disturbed \ {t}
                      ELSE disturbed \cup Nested \cup {t}
  BY DEF AskShared, Question, Queued
<1>2. UNCHANGED <<probe, prober, detection, outcome, known, ready, news,
                  offered, served, lost, contested>>
  BY DEF AskShared, probeVars
<1>3. line \in Seq(Openers)
  BY CheckNames DEF ChecksTypeOK
<1>4. Append(line, t) \in Seq(Openers) /\ Append(line, t) # <<>>
  BY <1>3
<1>5. \A w \in Workers : waiting'[w] = IF w = "nested" THEN Append(line, t) ELSE waiting[w]
  BY <1>1, CheckNames DEF ChecksTypeOK
<1>6. Nested \subseteq Openers /\ listening \subseteq Nested
  <2>1. ready["nested"] \subseteq Openers /\ listening \subseteq Openers
    BY CheckNames DEF ChecksTypeOK
  <2>2. ToSet(line) \subseteq Openers
    BY <1>3 DEF ToSet
  <2>3. QED
    BY <2>1, <2>2 DEF Nested
<1>7. ChecksTypeOK'
  <2>1. checks' \in 0..MaxChecks
    BY <1>1, ChecksAssumption DEF ChecksTypeOK
  <2>2. waiting' \in [Workers -> Seq(Openers)]
    BY <1>1, <1>4, CheckNames DEF ChecksTypeOK
  <2>3. /\ told' \in [Openers -> {Untold, Failure} \cup Reports]
        /\ question' \in [Openers -> {"none", "own", "shared"}]
    BY <1>1 DEF ChecksTypeOK
  <2>4. /\ listening' \subseteq Openers /\ disturbed' \subseteq Openers
        /\ alive' \in BOOLEAN
    BY <1>1, <1>6 DEF ChecksTypeOK
  <2>5. QED
    BY <1>2, <2>1, <2>2, <2>3, <2>4 DEF ChecksTypeOK
<1>8. DetectionInv'
  BY <1>2, <1>4, <1>5 DEF DetectionInv, Quiet
<1>9. NewsInv'
  BY <1>2 DEF NewsInv
<1>10. AloneInv'
  <2> SUFFICES ASSUME NEW u \in listening' \ disturbed'
               PROVE  /\ waiting'["nested"] \in Seq({u}) /\ ready["nested"] \subseteq {u}
                      /\ \A i \in DOMAIN news : news[i] # Failure => news[i].about = u
    BY <1>2 DEF AloneInv
  <2>1. Nested = {} /\ u = t
    BY <1>1, <1>6
  <2>2. line = <<>> /\ ready["nested"] = {} /\ news = <<>>
    <3>1. DOMAIN line = {}
      BY <2>1 DEF Nested, ToSet
    <3>2. line = <<>>
      BY <1>3, <3>1, FirstTaken
    <3>3. QED
      BY <2>1, <3>2 DEF Nested
  <2>3. waiting'["nested"] = Append(<<>>, t)
    BY <1>5, <2>2, CheckNames
  <2>4. QED
    BY <2>1, <2>2, <2>3
<1>11. AnswersHold'
  <2>1. \A u \in Openers \ disturbed' : u # t => u \notin disturbed
    BY <1>1
  <2>2. \A u \in Openers : told'[u] = IF u = t THEN Untold ELSE told[u]
    BY <1>1 DEF ChecksTypeOK
  <2>3. QED
    BY <1>2, <2>1, <2>2 DEF AnswersHold
<1>12. QED
  BY <1>7, <1>8, <1>9, <1>10, <1>11

(* The detection. *)

\* What a step of a worker leaves alone.
LEMMA Undisturbed ==
  ASSUME ChecksInv, UNCHANGED <<tabVars, sharedVars>>,
         contested \subseteq contested', contested' \subseteq Workers,
         known' = known, waiting' = waiting, ready' = ready,
         probe' \in BOOLEAN, prober' \in Workers \cup {NoProber},
         outcome' \in [Workers -> BOOLEAN],
         detection' \in [Workers -> {"idle", "file", "handle", "close", "remove"}],
         \A w \in Workers : prober' = w <=> detection'[w] = "close"
  PROVE  ChecksTypeOK' /\ NewsInv' /\ AloneInv' /\ AnswersHold'
<1> USE DEF ChecksInv, tabVars, sharedVars
<1>1. ChecksTypeOK'
  BY DEF ChecksTypeOK
<1>2. NewsInv'
  BY DEF NewsInv
<1>3. AloneInv'
  BY DEF AloneInv
<1>4. AnswersHold'
  BY DEF AnswersHold
<1>5. QED
  BY <1>1, <1>2, <1>3, <1>4

LEMMA TakeLockInv ==
  ASSUME ChecksInv, NEW w \in Workers, TakeLock(w)
  PROVE  ChecksInv'
<1> USE DEF ChecksInv
<1> DEFINE line == waiting[w]
<1>1. /\ detection[w] = "idle" /\ line # <<>>
      /\ UNCHANGED <<question, told, checks, probe, prober, outcome, known, alive,
                     listening, news, offered, served, lost, disturbed>>
  BY DEF TakeLock, tabVars, probeVars, sharedVars
<1>2. line \in Seq(Openers)
  BY DEF ChecksTypeOK
<1>3. CASE known[w]
  <2>1. /\ ready' = [ready EXCEPT ![w] = @ \cup {Head(line)}]
        /\ waiting' = [waiting EXCEPT ![w] = Tail(line)]
        /\ UNCHANGED <<detection, contested>>
    BY <1>3 DEF TakeLock
  <2>2. Head(line) \in Openers /\ Tail(line) \in Seq(Openers)
    BY <1>1, <1>2
  <2>3. \A v \in Workers :
          /\ ready'[v] = IF v = w THEN ready[w] \cup {Head(line)} ELSE ready[v]
          /\ waiting'[v] = IF v = w THEN Tail(line) ELSE waiting[v]
    BY <2>1 DEF ChecksTypeOK
  <2>4. \A t : line \in Seq({t}) => Head(line) = t /\ Tail(line) \in Seq({t})
    <3> TAKE t
    <3>1. ASSUME line \in Seq({t}) PROVE Head(line) \in {t} /\ Tail(line) \in Seq({t})
      BY <1>1, <3>1, FirstTaken
    <3>2. QED
      BY <3>1
  <2> HIDE DEF line
  <2>5. ChecksTypeOK'
    <3>1. waiting' \in [Workers -> Seq(Openers)] /\ ready' \in [Workers -> SUBSET Openers]
      BY <2>1, <2>2 DEF ChecksTypeOK
    <3>2. QED
      BY <1>1, <2>1, <3>1 DEF ChecksTypeOK
  <2>6. DetectionInv'
    <3> SUFFICES ASSUME NEW v \in Workers
                 PROVE  /\ detection[v] # "idle" => waiting'[v] # <<>> /\ ~known[v]
                        /\ ready'[v] # {} => known[v]
                        /\ v # "nested" => waiting'[v] \in Seq({v}) /\ ready'[v] \subseteq {v}
                        /\ v \notin contested =>
                             /\ detection[v] # "idle" => Quiet(v)
                             /\ detection[v] \in {"handle", "close", "remove"} => probe
                             /\ detection[v] \in {"close", "remove"} => outcome[v]
                             /\ known[v] => outcome[v]
      BY <1>1, <2>1 DEF DetectionInv, Quiet
    <3>1. CASE v = w
      <4>1. ready'[w] = ready[w] \cup {Head(line)} /\ waiting'[w] = Tail(line)
        BY <2>3
      <4>2. w # "nested" => line \in Seq({w}) /\ ready[w] \subseteq {w}
        BY DEF DetectionInv, line
      <4>3. w # "nested" => Head(line) = w /\ Tail(line) \in Seq({w})
        BY <2>4, <4>2
      <4>4. QED
        BY <1>1, <1>3, <3>1, <4>1, <4>2, <4>3 DEF DetectionInv
    <3>2. CASE v # w
      BY <2>3, <3>2 DEF DetectionInv
    <3>3. QED
      BY <3>1, <3>2
  <2>7. NewsInv'
    BY <1>1, <2>1 DEF NewsInv
  <2>8. AloneInv'
    <3> SUFFICES ASSUME NEW u \in listening \ disturbed
                 PROVE  /\ waiting'["nested"] \in Seq({u}) /\ ready'["nested"] \subseteq {u}
                        /\ \A i \in DOMAIN news : news[i] # Failure => news[i].about = u
      BY <1>1 DEF AloneInv
    <3>1. CASE w = "nested"
      <4>1. /\ line \in Seq({u}) /\ ready["nested"] \subseteq {u}
            /\ \A i \in DOMAIN news : news[i] # Failure => news[i].about = u
        BY <3>1 DEF AloneInv, line
      <4>2. Head(line) = u /\ Tail(line) \in Seq({u})
        BY <2>4, <4>1
      <4>3. ready'[w] = ready[w] \cup {Head(line)} /\ waiting'[w] = Tail(line)
        BY <2>3
      <4>4. QED
        BY <3>1, <4>1, <4>2, <4>3
    <3>2. CASE w # "nested"
      BY <2>3, <3>2, CheckNames DEF AloneInv
    <3>3. QED
      BY <3>1, <3>2
  <2>9. AnswersHold'
    BY <1>1, <2>1 DEF AnswersHold
  <2>10. QED
    BY <2>5, <2>6, <2>7, <2>8, <2>9
<1>4. CASE ~known[w]
  <2> DEFINE others == {v \in Workers \ {w} : detection[v] # "idle"}
  <2>1. /\ detection' = [detection EXCEPT ![w] = "file"]
        /\ contested' = IF others = {} THEN contested
                        ELSE contested \cup others \cup {w}
        /\ UNCHANGED <<ready, waiting>>
    BY <1>4 DEF TakeLock, Goes
  <2>2. \A v \in Workers : detection'[v] = IF v = w THEN "file" ELSE detection[v]
    BY <2>1 DEF ChecksTypeOK
  <2>3. contested \subseteq contested' /\ contested' \subseteq Workers
    BY <2>1 DEF ChecksTypeOK
  <2>4. \A v \in Workers \ {w} : v \notin contested' => detection[v] = "idle"
    BY <2>1
  <2>5. w \notin contested' => Quiet(w)
    BY <2>1 DEF Quiet
  <2>6. /\ prober \in Workers \cup {NoProber} /\ probe \in BOOLEAN
        /\ outcome \in [Workers -> BOOLEAN]
        /\ detection' \in [Workers -> {"idle", "file", "handle", "close", "remove"}]
        /\ \A v \in Workers : prober = v <=> detection'[v] = "close"
    BY <1>1, <2>1, <2>2 DEF ChecksTypeOK
  <2>7. ChecksTypeOK' /\ NewsInv' /\ AloneInv' /\ AnswersHold'
    BY <1>1, <2>1, <2>3, <2>6, Undisturbed DEF tabVars, sharedVars
  <2>8. DetectionInv'
    <3> SUFFICES ASSUME NEW v \in Workers
                 PROVE  /\ detection'[v] # "idle" => waiting[v] # <<>> /\ ~known[v]
                        /\ v \notin contested' =>
                             /\ detection'[v] # "idle" => Quiet(v)'
                             /\ detection'[v] \in {"handle", "close", "remove"} => probe
                             /\ detection'[v] \in {"close", "remove"} => outcome[v]
                             /\ known[v] => outcome[v]
      BY <1>1, <2>1 DEF DetectionInv
    <3>1. CASE v = w
      BY <1>1, <1>4, <2>2, <2>5, <3>1 DEF DetectionInv, Quiet
    <3>2. CASE v # w
      BY <2>2, <2>3, <2>4, <3>2 DEF DetectionInv
    <3>3. QED
      BY <3>1, <3>2
  <2>9. QED
    BY <2>7, <2>8
<1>5. QED
  BY <1>3, <1>4

\* A step of a detection to its next one.
LEMMA ProbeStepInv ==
  ASSUME ChecksInv, NEW w \in Workers, MakeFile(w) \/ OpenProbe(w) \/ CloseProbe(w)
  PROVE  ChecksInv'
<1> USE DEF ChecksInv
<1>1. PICK pc \in {"handle", "close", "remove"} :
        detection' = [detection EXCEPT ![w] = pc]
  <2>1. CASE MakeFile(w)
    BY <2>1 DEF MakeFile, Goes
  <2>2. CASE OpenProbe(w)
    BY <2>2 DEF OpenProbe, Goes
  <2>3. CASE CloseProbe(w)
    BY <2>3 DEF CloseProbe, Goes
  <2>4. QED
    BY <2>1, <2>2, <2>3
<1>2. \A v \in Workers : detection'[v] = IF v = w THEN pc ELSE detection[v]
  BY <1>1 DEF ChecksTypeOK
<1>3. detection[w] # "idle" /\ UNCHANGED <<tabVars, sharedVars, contested, known, waiting, ready>>
  BY DEF MakeFile, OpenProbe, CloseProbe
<1>4. /\ probe \in BOOLEAN /\ prober \in Workers \cup {NoProber}
      /\ \A v \in Workers : prober = v <=> detection[v] = "close"
      /\ \A v \in Workers : outcome[v] \in BOOLEAN
  BY DEF ChecksTypeOK
<1>5. /\ probe' \in BOOLEAN /\ prober' \in Workers \cup {NoProber}
      /\ outcome' \in [Workers -> BOOLEAN]
      /\ \A v \in Workers : prober' = v <=> detection'[v] = "close"
      /\ \A v \in Workers \ {w} : outcome'[v] = outcome[v]
      /\ probe => probe'
      /\ w \notin contested => probe' /\ (pc \in {"close", "remove"} => outcome'[w])
  <2>1. CASE MakeFile(w)
    <3>1. /\ probe' = TRUE /\ prober' = prober /\ outcome' = outcome
          /\ detection[w] = "file" /\ detection'[w] = "handle"
      BY <2>1 DEF MakeFile, Goes, ChecksTypeOK
    <3>2. QED
      BY <1>2, <1>4, <3>1 DEF ChecksTypeOK
  <2>2. CASE OpenProbe(w)
    <3> DEFINE free == probe /\ prober = NoProber
    <3>1. /\ detection[w] = "handle" /\ probe' = probe
          /\ detection'[w] = IF free THEN "close" ELSE "remove"
          /\ prober' = IF free THEN w ELSE prober
          /\ outcome' = [outcome EXCEPT ![w] = free]
      BY <2>2 DEF OpenProbe, Goes, ChecksTypeOK
    <3>2. ASSUME w \notin contested PROVE free
      <4>1. probe /\ \A v \in Workers : detection[v] # "close"
        BY <3>1, <3>2 DEF DetectionInv, Quiet
      <4>2. QED
        BY <1>4, <4>1
    <3>3. free \in BOOLEAN
      BY <1>4
    <3>4. prober' \in Workers \cup {NoProber}
      BY <1>4, <3>1
    <3>5. \A v \in Workers : prober' = v <=> detection'[v] = "close"
      BY <1>2, <1>4, <3>1, CheckNames
    <3>6. /\ outcome' \in [Workers -> BOOLEAN]
          /\ \A v \in Workers \ {w} : outcome'[v] = outcome[v]
          /\ outcome'[w] = free
      BY <3>1, <3>3 DEF ChecksTypeOK
    <3>7. QED
      BY <1>4, <3>1, <3>2, <3>4, <3>5, <3>6
  <2>3. CASE CloseProbe(w)
    <3>1. /\ detection[w] = "close" /\ probe' = probe /\ outcome' = outcome
          /\ detection'[w] = "remove" /\ prober' = NoProber
      BY <2>3 DEF CloseProbe, Goes, ChecksTypeOK
    <3>2. \A v \in Workers : prober' = v <=> detection'[v] = "close"
      BY <1>2, <1>4, <3>1, CheckNames
    <3>3. w \notin contested => probe /\ outcome[w]
      BY <3>1 DEF DetectionInv
    <3>4. QED
      BY <1>4, <3>1, <3>2, <3>3 DEF ChecksTypeOK
  <2>4. QED
    BY <2>1, <2>2, <2>3
<1>6. detection' \in [Workers -> {"idle", "file", "handle", "close", "remove"}]
  BY <1>1 DEF ChecksTypeOK
<1>7. ChecksTypeOK' /\ NewsInv' /\ AloneInv' /\ AnswersHold'
  <2>1. contested' = contested /\ contested \subseteq Workers
    BY <1>3 DEF ChecksTypeOK
  <2>2. QED
    BY <1>3, <1>5, <1>6, <2>1, Undisturbed DEF tabVars, sharedVars
<1>8. DetectionInv'
  <2> SUFFICES ASSUME NEW v \in Workers
               PROVE  /\ detection'[v] # "idle" => waiting[v] # <<>> /\ ~known[v]
                      /\ v \notin contested =>
                           /\ detection'[v] # "idle" => Quiet(v)'
                           /\ detection'[v] \in {"handle", "close", "remove"} => probe'
                           /\ detection'[v] \in {"close", "remove"} => outcome'[v]
                           /\ known[v] => outcome'[v]
    BY <1>3 DEF DetectionInv
  <2>1. CASE v = w
    BY <1>2, <1>3, <1>5, <2>1 DEF DetectionInv, Quiet
  <2>2. CASE v # w
    <3>1. v \notin contested => detection[v] = "idle"
      BY <1>3, <2>2, OthersIdle
    <3>2. QED
      BY <1>2, <1>5, <2>2, <3>1 DEF DetectionInv
  <2>3. QED
    BY <2>1, <2>2
<1>9. QED
  BY <1>7, <1>8

\* A detection fails only if it met another one.
LEMMA FailsContested ==
  ASSUME ChecksInv, NEW w \in Workers, detection[w] = "remove",
         ~(probe /\ prober = NoProber)
  PROVE  w \in contested
<1> USE DEF ChecksInv
<1> SUFFICES ASSUME w \notin contested PROVE FALSE
  OBVIOUS
<1>1. probe /\ \A v \in Workers : detection[v] # "close"
  BY DEF DetectionInv, Quiet
<1>2. prober \in Workers \cup {NoProber} /\ \A v \in Workers : prober = v <=> detection[v] = "close"
  BY DEF ChecksTypeOK
<1>3. QED
  BY <1>1, <1>2

\* The detection is over, and the first question in line has left it.
LEMMA DetectedInv ==
  ASSUME ChecksInv, NEW w \in Workers, detection[w] = "remove",
         detection' = [detection EXCEPT ![w] = "idle"],
         waiting' = [waiting EXCEPT ![w] = Tail(waiting[w])],
         prober' = prober, outcome' = outcome, contested' = contested,
         \/ /\ known' = [known EXCEPT ![w] = TRUE]
            /\ ready' = [ready EXCEPT ![w] = @ \cup {Head(waiting[w])}]
         \/ known' = known /\ ready' = ready /\ probe' = probe
  PROVE  /\ DetectionInv'
         /\ waiting' \in [Workers -> Seq(Openers)]
         /\ ready' \in [Workers -> SUBSET Openers]
         /\ known' \in [Workers -> BOOLEAN]
         /\ detection' \in [Workers -> {"idle", "file", "handle", "close", "remove"}]
         /\ \A v \in Workers : prober' = v <=> detection'[v] = "close"
         /\ Head(waiting[w]) \in Openers
         /\ \A t : waiting["nested"] \in Seq({t}) /\ ready["nested"] \subseteq {t}
              => waiting'["nested"] \in Seq({t}) /\ ready'["nested"] \subseteq {t}
<1> USE DEF ChecksInv
<1> DEFINE line == waiting[w]
<1>1. line \in Seq(Openers) /\ line # <<>> /\ ~known[w]
  BY DEF ChecksTypeOK, DetectionInv
<1>2. Head(line) \in Openers /\ Tail(line) \in Seq(Openers)
  BY <1>1
<1>3. \A t : line \in Seq({t}) => Head(line) = t /\ Tail(line) \in Seq({t})
  <2> TAKE t
  <2>1. ASSUME line \in Seq({t}) PROVE Head(line) \in {t} /\ Tail(line) \in Seq({t})
    BY <1>1, <2>1, FirstTaken
  <2>2. QED
    BY <2>1
<1>4. \A v \in Workers : /\ detection'[v] = IF v = w THEN "idle" ELSE detection[v]
                         /\ waiting'[v] = IF v = w THEN Tail(line) ELSE waiting[v]
  BY DEF ChecksTypeOK
<1>5. \A v \in Workers \ {w} : known'[v] = known[v] /\ ready'[v] = ready[v]
  BY DEF ChecksTypeOK
<1>6. \/ known'[w] /\ ready'[w] = ready[w] \cup {Head(line)}
      \/ known'[w] = known[w] /\ ready'[w] = ready[w] /\ probe' = probe
  BY DEF ChecksTypeOK
<1>7. waiting' \in [Workers -> Seq(Openers)] /\ ready' \in [Workers -> SUBSET Openers]
      /\ known' \in [Workers -> BOOLEAN]
  <2>1. waiting' \in [Workers -> Seq(Openers)]
    BY <1>2 DEF ChecksTypeOK
  <2>2. known \in [Workers -> BOOLEAN] /\ ready \in [Workers -> SUBSET Openers]
    BY DEF ChecksTypeOK
  <2>3. known' \in [Workers -> BOOLEAN]
    BY <2>2
  <2>4. ready[w] \cup {Head(line)} \in SUBSET Openers
    BY <1>2, <2>2
  <2>5. ready' \in [Workers -> SUBSET Openers]
    BY <2>2, <2>4
  <2>6. QED
    BY <2>1, <2>3, <2>5
<1>8. /\ detection' \in [Workers -> {"idle", "file", "handle", "close", "remove"}]
      /\ \A v \in Workers : prober' = v <=> detection'[v] = "close"
  BY <1>4 DEF ChecksTypeOK
<1> HIDE DEF line
<1>9. DetectionInv'
  <2> SUFFICES ASSUME NEW v \in Workers
               PROVE  /\ detection'[v] # "idle" => waiting'[v] # <<>> /\ ~known'[v]
                      /\ ready'[v] # {} => known'[v]
                      /\ v # "nested" => waiting'[v] \in Seq({v}) /\ ready'[v] \subseteq {v}
                      /\ v \notin contested =>
                           /\ detection'[v] # "idle" => Quiet(v)'
                           /\ detection'[v] \in {"handle", "close", "remove"} => probe'
                           /\ detection'[v] \in {"close", "remove"} => outcome[v]
                           /\ known'[v] => outcome[v]
    BY DEF DetectionInv
  <2>1. CASE v = w
    <3>1. w # "nested" => line \in Seq({w}) /\ ready[w] \subseteq {w}
      BY DEF DetectionInv, line
    <3>2. w # "nested" => Head(line) = w /\ Tail(line) \in Seq({w})
      BY <1>3, <3>1
    <3>3. w \notin contested => outcome[w]
      BY DEF DetectionInv
    <3>4. ready[w] # {} => known[w]
      BY DEF DetectionInv
    <3>5. detection'[w] = "idle" /\ waiting'[w] = Tail(line)
      BY <1>4
    <3>6. ready'[w] # {} => known'[w]
      BY <1>6, <3>4
    <3>7. w # "nested" => ready'[w] \subseteq {w}
      BY <1>6, <3>1, <3>2
    <3>8. QED
      BY <2>1, <3>2, <3>3, <3>5, <3>6, <3>7
  <2>2. CASE v # w
    <3>1. v \notin contested => detection[v] = "idle"
      BY <2>2, OthersIdle
    <3>2. QED
      BY <1>4, <1>5, <2>2, <3>1 DEF DetectionInv
  <2>3. QED
    BY <2>1, <2>2
<1>10. ASSUME NEW t, waiting["nested"] \in Seq({t}), ready["nested"] \subseteq {t}
       PROVE  waiting'["nested"] \in Seq({t}) /\ ready'["nested"] \subseteq {t}
  <2>1. CASE w = "nested"
    <3>1. line \in Seq({t})
      BY <1>10, <2>1 DEF line
    <3>2. Head(line) = t /\ Tail(line) \in Seq({t})
      BY <1>3, <3>1
    <3>3. QED
      BY <1>4, <1>6, <1>10, <2>1, <3>2
  <2>2. CASE w # "nested"
    BY <1>4, <1>5, <1>10, <2>2, CheckNames
  <2>3. QED
    BY <2>1, <2>2
<1>11. QED
  BY <1>2, <1>7, <1>8, <1>9, <1>10 DEF line

LEMMA RemoveFileInv ==
  ASSUME ChecksInv, NEW w \in Workers, RemoveFile(w)
  PROVE  ChecksInv'
<1> USE DEF ChecksInv
<1> DEFINE free == probe /\ prober = NoProber
<1>1. /\ detection[w] = "remove"
      /\ detection' = [detection EXCEPT ![w] = "idle"]
      /\ waiting' = [waiting EXCEPT ![w] = Tail(waiting[w])]
      /\ UNCHANGED <<checks, prober, outcome, alive, listening, offered,
                     served, lost, disturbed, contested>>
  BY DEF RemoveFile, Goes
<1>2. CASE free
  <2>1. /\ probe' = FALSE /\ UNCHANGED <<question, told, news>>
        /\ known' = [known EXCEPT ![w] = TRUE]
        /\ ready' = [ready EXCEPT ![w] = @ \cup {Head(waiting[w])}]
    BY <1>2 DEF RemoveFile
  <2>2. /\ DetectionInv'
        /\ waiting' \in [Workers -> Seq(Openers)]
        /\ ready' \in [Workers -> SUBSET Openers]
        /\ known' \in [Workers -> BOOLEAN]
        /\ detection' \in [Workers -> {"idle", "file", "handle", "close", "remove"}]
        /\ \A v \in Workers : prober' = v <=> detection'[v] = "close"
        /\ \A t : waiting["nested"] \in Seq({t}) /\ ready["nested"] \subseteq {t}
             => waiting'["nested"] \in Seq({t}) /\ ready'["nested"] \subseteq {t}
    BY <1>1, <2>1, DetectedInv
  <2>3. ChecksTypeOK'
    BY <1>1, <2>1, <2>2 DEF ChecksTypeOK
  <2>4. known["nested"] => known'["nested"]
    BY <2>1 DEF ChecksTypeOK
  <2>5. NewsInv'
    BY <1>1, <2>1, <2>4 DEF NewsInv
  <2>6. AloneInv'
    BY <1>1, <2>1, <2>2 DEF AloneInv
  <2>7. AnswersHold'
    BY <1>1, <2>1 DEF AnswersHold
  <2>8. QED
    BY <2>2, <2>3, <2>5, <2>6, <2>7
<1>3. CASE ~free
  <2>1. Throws(w, Head(waiting[w])) /\ UNCHANGED <<probe, known, ready>>
    BY <1>3 DEF RemoveFile
  <2>2. /\ DetectionInv'
        /\ waiting' \in [Workers -> Seq(Openers)]
        /\ detection' \in [Workers -> {"idle", "file", "handle", "close", "remove"}]
        /\ \A v \in Workers : prober' = v <=> detection'[v] = "close"
        /\ Head(waiting[w]) \in Openers
        /\ \A t : waiting["nested"] \in Seq({t}) /\ ready["nested"] \subseteq {t}
             => waiting'["nested"] \in Seq({t}) /\ ready'["nested"] \subseteq {t}
    BY <1>1, <2>1, DetectedInv
  <2>3. w \in contested
    BY <1>1, <1>3, FailsContested
  <2>4. CASE w = "nested"
    <3>1. news' = Append(news, Failure) /\ UNCHANGED <<question, told>>
      BY <2>1, <2>4 DEF Throws
    <3>2. ~known["nested"] /\ news \in Seq({Failure} \cup Reports)
      BY <1>1, <2>4 DEF DetectionInv, ChecksTypeOK
    <3>3. /\ news' \in Seq({Failure} \cup Reports)
          /\ DOMAIN news' = DOMAIN news \cup {Len(news) + 1}
          /\ news'[Len(news) + 1] = Failure
          /\ \A i \in DOMAIN news : news'[i] = news[i] /\ i \in Nat /\ i < Len(news) + 1
      BY <3>1, <3>2, LastAdded
    <3>4. ChecksTypeOK'
      BY <1>1, <2>1, <2>2, <3>1, <3>3 DEF ChecksTypeOK
    <3>5. offered = {} /\ served = {} /\ \A i \in DOMAIN news : news[i] = Failure
      BY <3>2 DEF NewsInv
    <3>6. \A i \in DOMAIN news' : news'[i] = Failure
      BY <3>3, <3>5
    <3>7. NewsInv'
      BY <1>1, <2>3, <2>4, <3>5, <3>6 DEF NewsInv
    <3>8. AloneInv'
      BY <1>1, <2>2, <3>6 DEF AloneInv
    <3>9. AnswersHold'
      BY <1>1, <3>1 DEF AnswersHold
    <3>10. QED
      BY <2>2, <3>4, <3>7, <3>8, <3>9
  <2>5. CASE w # "nested"
    <3> DEFINE t == Head(waiting[w])
    <3>1. /\ question' = [question EXCEPT ![t] = "none"]
          /\ told' = [told EXCEPT ![t] = Failure] /\ news' = news
      BY <2>1, <2>5 DEF Throws
    <3>2. t = w /\ w \in Openers
      <4>1. waiting[w] \in Seq({w}) /\ waiting[w] # <<>>
        BY <1>1, <2>5 DEF DetectionInv
      <4>2. QED
        BY <2>5, <4>1, CheckNames
    <3> HIDE DEF t
    <3>3. ChecksTypeOK'
      BY <1>1, <2>1, <2>2, <3>1, <3>2 DEF ChecksTypeOK
    <3>4. NewsInv'
      BY <1>1, <2>1, <3>1 DEF NewsInv
    <3>5. AloneInv'
      BY <1>1, <2>1, <2>2, <3>1 DEF AloneInv
    <3>6. \A u \in Openers : told'[u] = IF u = w THEN Failure ELSE told[u]
      BY <3>1, <3>2 DEF ChecksTypeOK
    <3>7. AnswersHold'
      BY <1>1, <2>3, <3>6 DEF AnswersHold
    <3>8. QED
      BY <2>2, <3>3, <3>4, <3>5, <3>7
  <2>6. QED
    BY <2>4, <2>5
<1>4. QED
  BY <1>2, <1>3

LEMMA AnswerCheckInv ==
  ASSUME ChecksInv, NEW w \in Workers, NEW t \in Openers, AnswerCheck(w, t)
  PROVE  ChecksInv'
<1> USE DEF ChecksInv
<1>1. /\ t \in ready[w] /\ ready' = [ready EXCEPT ![w] = ready[w] \ {t}]
      /\ UNCHANGED <<checks, probe, prober, waiting, detection, outcome, known, alive,
                     listening, offered, served, lost, disturbed, contested>>
  BY DEF AnswerCheck, probeVars
<1>2. known[w] /\ (outcome[w] \/ w \in contested) /\ outcome[w] \in BOOLEAN
  BY <1>1 DEF DetectionInv, ChecksTypeOK
<1>3. /\ \A v \in Workers : ready'[v] \subseteq ready[v]
      /\ ready' \in [Workers -> SUBSET Openers]
  BY <1>1 DEF ChecksTypeOK
<1>4. DetectionInv'
  <2> SUFFICES ASSUME NEW v \in Workers
               PROVE  /\ ready'[v] # {} => known[v]
                      /\ v # "nested" => ready'[v] \subseteq {v}
    BY <1>1 DEF DetectionInv, Quiet
  <2>1. QED
    BY <1>3 DEF DetectionInv
<1>5. /\ Report(outcome[w], t) \in Reports /\ Report(outcome[w], t) # Failure
      /\ Report(outcome[w], t).opfs = outcome[w]
      /\ Report(outcome[w], t).about = t
  BY <1>2, Reported
<1>6. CASE w = "nested"
  <2>1. news' = Append(news, Report(outcome[w], t)) /\ UNCHANGED <<question, told>>
    BY <1>6 DEF AnswerCheck
  <2>2. news \in Seq({Failure} \cup Reports)
    BY DEF ChecksTypeOK
  <2>3. /\ news' \in Seq({Failure} \cup Reports)
        /\ DOMAIN news' = DOMAIN news \cup {Len(news) + 1}
        /\ news'[Len(news) + 1] = Report(outcome[w], t)
        /\ \A i \in DOMAIN news : news'[i] = news[i] /\ i \in Nat /\ i < Len(news) + 1
    BY <1>5, <2>1, <2>2, LastAdded
  <2>4. ChecksTypeOK'
    BY <1>1, <1>3, <2>1, <2>3 DEF ChecksTypeOK
  <2>5. NewsInv'
    <3>1. known'["nested"] /\ Len(news) \in Nat
      BY <1>1, <1>2, <1>6, <2>2
    <3>2. ASSUME NEW i \in DOMAIN news', NEW j \in DOMAIN news', i < j, news'[j] = Failure
          PROVE  news'[i] = Failure
      <4>1. j \in DOMAIN news
        BY <1>5, <2>3, <3>2
      <4>2. i \in DOMAIN news
        BY <2>3, <3>1, <3>2, <4>1
      <4>3. QED
        BY <2>3, <3>2, <4>1, <4>2 DEF NewsInv
    <3>3. \A i \in DOMAIN news' :
            IF news'[i] = Failure
            THEN offered = {} /\ served = {} /\ "nested" \in contested
            ELSE news'[i].opfs \/ "nested" \in contested
      BY <1>2, <1>5, <1>6, <2>3 DEF NewsInv
    <3>4. QED
      BY <1>1, <3>1, <3>2, <3>3 DEF NewsInv
  <2>6. AloneInv'
    <3> SUFFICES ASSUME NEW u \in listening \ disturbed
                 PROVE  /\ waiting["nested"] \in Seq({u}) /\ ready'["nested"] \subseteq {u}
                        /\ \A i \in DOMAIN news' : news'[i] # Failure => news'[i].about = u
      BY <1>1 DEF AloneInv
    <3>1. t = u
      BY <1>1, <1>6 DEF AloneInv
    <3>2. \A i \in DOMAIN news' : news'[i] # Failure => news'[i].about = u
      BY <1>5, <2>3, <3>1 DEF AloneInv
    <3>3. QED
      BY <1>3, <3>2, CheckNames DEF AloneInv
  <2>7. AnswersHold'
    BY <1>1, <2>1 DEF AnswersHold
  <2>8. QED
    BY <1>4, <2>4, <2>5, <2>6, <2>7
<1>7. CASE w # "nested"
  <2>1. /\ question' = [question EXCEPT ![t] = "none"]
        /\ told' = [told EXCEPT ![t] = Report(outcome[w], t)] /\ news' = news
    BY <1>7 DEF AnswerCheck
  <2>2. t = w
    BY <1>1, <1>7 DEF DetectionInv
  <2>3. ChecksTypeOK'
    BY <1>1, <1>3, <1>5, <2>1 DEF ChecksTypeOK
  <2>4. NewsInv'
    BY <1>1, <2>1 DEF NewsInv
  <2>5. AloneInv'
    BY <1>1, <1>3, <2>1, CheckNames DEF AloneInv
  <2>6. outcome[w] = TRUE \/ w \in contested
    BY <1>2
  <2>7. \A u \in Openers : told'[u] = IF u = t THEN Report(outcome[w], t) ELSE told[u]
    BY <2>1 DEF ChecksTypeOK
  <2>8. AnswersHold'
    BY <1>1, <2>2, <2>6, <2>7 DEF AnswersHold
  <2>9. QED
    BY <1>4, <2>3, <2>4, <2>5, <2>8
<1>8. QED
  BY <1>6, <1>7

(* The shared worker. *)

LEMMA HearAnswerInv ==
  ASSUME ChecksInv, HearAnswer
  PROVE  ChecksInv'
<1> USE DEF ChecksInv
<1> DEFINE first == Head(news)
<1>1. /\ news # <<>> /\ first # Failure /\ news' = Tail(news)
      /\ told' = [t \in Openers |-> IF t \in listening THEN first ELSE told[t]]
      /\ question' = [t \in Openers |->
                        IF t \in listening THEN "none" ELSE question[t]]
      /\ listening' = {}
      /\ offered' = IF first.opfs THEN offered \cup listening ELSE offered
      /\ UNCHANGED <<checks, probe, prober, waiting, detection, outcome, known,
                     ready, alive, served, lost, disturbed, contested>>
  BY DEF HearAnswer, Told, probeVars, workVars
<1>2. news \in Seq({Failure} \cup Reports)
  BY DEF ChecksTypeOK
<1>3. /\ first \in Reports /\ news' \in Seq({Failure} \cup Reports)
      /\ 1 \in DOMAIN news /\ news[1] = first
      /\ \A i \in DOMAIN news : i \in Nat /\ 1 <= i
      /\ \A i \in DOMAIN news' : /\ i \in Nat /\ 1 < i + 1
                                 /\ i + 1 \in DOMAIN news
                                 /\ news'[i] = news[i + 1]
  BY <1>1, <1>2, FirstTaken
<1> HIDE DEF first
<1>4. \A i \in DOMAIN news' : news'[i] # Failure
  BY <1>1, <1>3 DEF NewsInv
<1>5. known["nested"] /\ (first.opfs \/ "nested" \in contested)
  BY <1>1, <1>3 DEF NewsInv
<1>6. ChecksTypeOK'
  <2>1. told' \in [Openers -> {Untold, Failure} \cup Reports]
    BY <1>1, <1>3 DEF ChecksTypeOK
  <2>2. question' \in [Openers -> {"none", "own", "shared"}]
    BY <1>1 DEF ChecksTypeOK
  <2>3. listening' \subseteq Openers /\ offered' \subseteq Openers
    BY <1>1 DEF ChecksTypeOK
  <2>4. QED
    BY <1>1, <1>3, <2>1, <2>2, <2>3 DEF ChecksTypeOK
<1>7. DetectionInv'
  BY <1>1 DEF DetectionInv, Quiet
<1>8. NewsInv'
  <2>1. \A i \in DOMAIN news' : news'[i].opfs \/ "nested" \in contested
    BY <1>3, <1>4 DEF NewsInv
  <2>2. QED
    BY <1>1, <1>4, <1>5, <2>1 DEF NewsInv
<1>9. AloneInv'
  BY <1>1 DEF AloneInv
<1>10. AnswersHold'
  <2> SUFFICES ASSUME NEW t \in Openers \ disturbed, told'[t] # Untold
               PROVE  told'[t] = Report(TRUE, t) \/ contested \cap {t, "nested"} # {}
    BY <1>1 DEF AnswersHold
  <2>1. CASE t \in listening
    <3>1. told'[t] = first
      BY <1>1, <2>1
    <3>2. first.about = t
      BY <1>1, <1>3, <2>1 DEF AloneInv
    <3>3. first = Report(first.opfs, first.about) /\ first.opfs \in BOOLEAN
      BY <1>3, Reported
    <3>4. QED
      BY <1>5, <3>1, <3>2, <3>3
  <2>2. CASE t \notin listening
    BY <1>1, <2>2 DEF AnswersHold
  <2>3. QED
    BY <2>1, <2>2
<1>11. QED
  BY <1>6, <1>7, <1>8, <1>9, <1>10

LEMMA HearErrorInv ==
  ASSUME ChecksInv, HearError
  PROVE  ChecksInv'
<1> USE DEF ChecksInv
<1>1. /\ news # <<>> /\ Head(news) = Failure
      /\ news \in Seq({Failure} \cup Reports)
      /\ UNCHANGED <<disturbed, contested>>
  BY DEF HearError, ChecksTypeOK
<1>2. /\ 1 \in DOMAIN news /\ news[1] = Failure
      /\ Tail(news) \in Seq({Failure} \cup Reports)
      /\ \A i \in DOMAIN Tail(news) : /\ i \in Nat /\ i + 1 \in DOMAIN news
                                      /\ Tail(news)[i] = news[i + 1]
  BY <1>1, FirstTaken
<1>3. offered = {} /\ served = {} /\ "nested" \in contested
  BY <1>2 DEF NewsInv
<1>4. CASE listening = {}
  <2>1. /\ news' = Tail(news)
        /\ UNCHANGED <<question, told, checks, probe, prober, waiting, detection,
                       outcome, known, ready, alive, listening, offered, served, lost>>
    BY <1>4 DEF HearError, tabVars, probeVars, workVars
  <2>2. ChecksTypeOK'
    BY <1>1, <1>2, <2>1 DEF ChecksTypeOK
  <2>3. DetectionInv'
    BY <1>1, <2>1 DEF DetectionInv, Quiet
  <2>4. NewsInv'
    <3>1. \A i \in DOMAIN news' : news'[i] = news[i + 1] /\ i + 1 \in DOMAIN news
      BY <1>2, <2>1
    <3>2. \A i, j \in DOMAIN news' : i < j /\ news'[j] = Failure => news'[i] = Failure
      <4> SUFFICES ASSUME NEW i \in DOMAIN news', NEW j \in DOMAIN news', i < j,
                          news'[j] = Failure
                   PROVE  news'[i] = Failure
        OBVIOUS
      <4>1. i + 1 < j + 1
        BY <1>2, <2>1
      <4>2. QED
        BY <3>1, <4>1 DEF NewsInv
    <3>3. known["nested"] \/ \A i \in DOMAIN news' : news'[i] = Failure
      BY <3>1 DEF NewsInv
    <3>4. \A i \in DOMAIN news' :
            IF news'[i] = Failure
            THEN offered = {} /\ served = {} /\ "nested" \in contested
            ELSE news'[i].opfs \/ "nested" \in contested
      BY <1>3
    <3>5. QED
      BY <1>1, <1>3, <2>1, <3>2, <3>3, <3>4 DEF NewsInv
  <2>5. AloneInv'
    BY <1>4, <2>1 DEF AloneInv
  <2>6. AnswersHold'
    BY <1>1, <2>1 DEF AnswersHold
  <2>7. QED
    BY <2>2, <2>3, <2>4, <2>5, <2>6
<1>5. CASE listening # {}
  <2>1. /\ news' = <<>>
        /\ told' = [t \in Openers |-> IF t \in listening THEN Report(FALSE, t) ELSE told[t]]
        /\ question' = [t \in Openers |->
                          IF t \in listening THEN "none" ELSE question[t]]
        /\ listening' = {} /\ alive' = FALSE
        /\ waiting' = [waiting EXCEPT !["nested"] = <<>>]
        /\ detection' = [detection EXCEPT !["nested"] = "idle"]
        /\ outcome' = [outcome EXCEPT !["nested"] = FALSE]
        /\ known' = [known EXCEPT !["nested"] = FALSE]
        /\ ready' = [ready EXCEPT !["nested"] = {}]
        /\ prober' = IF prober = "nested" THEN NoProber ELSE prober
        /\ lost' = lost \cup offered \cup served
        /\ offered' = {} /\ served' = {}
        /\ UNCHANGED <<checks, probe>>
    BY <1>5 DEF HearError, Told
  <2>2. \A v \in Workers \ {"nested"} :
          /\ waiting'[v] = waiting[v] /\ detection'[v] = detection[v]
          /\ outcome'[v] = outcome[v] /\ known'[v] = known[v] /\ ready'[v] = ready[v]
    BY <2>1 DEF ChecksTypeOK
  <2>3. detection'["nested"] = "idle" /\ ~known'["nested"] /\ ready'["nested"] = {}
    BY <2>1, CheckNames DEF ChecksTypeOK
  <2>4. ChecksTypeOK'
    <3>1. told' \in [Openers -> {Untold, Failure} \cup Reports]
      BY <2>1, Reported DEF ChecksTypeOK
    <3>2. question' \in [Openers -> {"none", "own", "shared"}]
      BY <2>1 DEF ChecksTypeOK
    <3>3. waiting' \in [Workers -> Seq(Openers)]
      <4>1. <<>> \in Seq(Openers) /\ waiting \in [Workers -> Seq(Openers)]
        BY DEF ChecksTypeOK
      <4>2. QED
        BY <2>1, <4>1
    <3>4. /\ detection' \in [Workers -> {"idle", "file", "handle", "close", "remove"}]
          /\ outcome' \in [Workers -> BOOLEAN] /\ known' \in [Workers -> BOOLEAN]
          /\ ready' \in [Workers -> SUBSET Openers]
      BY <2>1 DEF ChecksTypeOK
    <3>5. /\ prober' \in Workers \cup {NoProber}
          /\ \A v \in Workers : prober' = v <=> detection'[v] = "close"
      BY <2>1, <2>2, <2>3, CheckNames DEF ChecksTypeOK
    <3>6. lost' \subseteq Openers /\ news' \in Seq({Failure} \cup Reports)
      BY <2>1 DEF ChecksTypeOK
    <3>7. QED
      BY <1>1, <2>1, <3>1, <3>2, <3>3, <3>4, <3>5, <3>6 DEF ChecksTypeOK
  <2>5. DetectionInv'
    <3> SUFFICES ASSUME NEW v \in Workers
                 PROVE  /\ detection'[v] # "idle" => waiting'[v] # <<>> /\ ~known'[v]
                        /\ ready'[v] # {} => known'[v]
                        /\ v # "nested" => waiting'[v] \in Seq({v}) /\ ready'[v] \subseteq {v}
                        /\ v \notin contested =>
                             /\ detection'[v] # "idle" => Quiet(v)'
                             /\ detection'[v] \in {"handle", "close", "remove"} => probe
                             /\ detection'[v] \in {"close", "remove"} => outcome'[v]
                             /\ known'[v] => outcome'[v]
      BY <1>1, <2>1 DEF DetectionInv
    <3>1. CASE v = "nested"
      BY <2>3, <3>1
    <3>2. CASE v # "nested"
      <4>1. Quiet(v) => Quiet(v)'
        BY <2>2, <2>3 DEF Quiet
      <4>2. QED
        BY <2>2, <3>2, <4>1 DEF DetectionInv
    <3>3. QED
      BY <3>1, <3>2
  <2>6. NewsInv'
    BY <2>1 DEF NewsInv
  <2>7. AloneInv'
    BY <2>1 DEF AloneInv
  <2>8. AnswersHold'
    BY <1>1, <1>3, <2>1 DEF AnswersHold
  <2>9. QED
    BY <2>4, <2>5, <2>6, <2>7, <2>8
<1>6. QED
  BY <1>4, <1>5

LEMMA ServeInv ==
  ASSUME ChecksInv, NEW t \in Openers, Serve(t)
  PROVE  ChecksInv'
<1> USE DEF ChecksInv
<1>1. /\ t \in offered /\ offered' = offered \ {t} /\ served' = served \cup {t}
      /\ UNCHANGED <<question, told, checks, probe, prober, waiting, detection,
                     outcome, known, ready, alive, listening, news, lost,
                     disturbed, contested>>
  BY DEF Serve, tabVars, probeVars, workVars
<1>2. ChecksTypeOK'
  BY <1>1 DEF ChecksTypeOK
<1>3. DetectionInv' /\ AloneInv'
  BY <1>1 DEF DetectionInv, Quiet, AloneInv
<1>4. NewsInv'
  BY <1>1 DEF NewsInv
<1>5. AnswersHold'
  BY <1>1 DEF AnswersHold
<1>6. QED
  BY <1>2, <1>3, <1>4, <1>5

LEMMA ChecksNextInv == ChecksInv /\ [ChecksNext]_checkVars => ChecksInv'
<1> SUFFICES ASSUME ChecksInv, [ChecksNext]_checkVars PROVE ChecksInv'
  OBVIOUS
<1>1. CASE UNCHANGED checkVars
  BY <1>1 DEF checkVars, ChecksInv, ChecksTypeOK, DetectionInv, Quiet, NewsInv,
              AloneInv, AnswersHold
<1>2. ASSUME NEW t \in Openers, AskOwn(t) \/ AskShared(t) \/ Serve(t)
      PROVE  ChecksInv'
  BY <1>2, AskOwnInv, AskSharedInv, ServeInv
<1>3. CASE CheckStep
  BY <1>3, TakeLockInv, ProbeStepInv, RemoveFileInv, AnswerCheckInv,
     HearAnswerInv, HearErrorInv DEF CheckStep
<1>4. QED
  BY <1>1, <1>2, <1>3 DEF ChecksNext

THEOREM ChecksInvariant == ChecksSpec => []ChecksInv
BY ChecksInitInv, ChecksNextInv, PTL DEF ChecksSpec

\* The types of the questions, the workers and the detection, and that the
\* handle of the shared file is held by the one detection that is to close it.
THEOREM ChecksTypesOK == ChecksSpec => []ChecksTypeOK
<1>1. ChecksInv => ChecksTypeOK
  BY DEF ChecksInv
<1>2. QED
  BY ChecksInvariant, <1>1, PTL

\* The tabs that ask what their workers can do are told the truth, unless
\* checks met in the shared worker or detections at the file they share; and
\* no tab loses the nested worker it was told to use.
THEOREM AnswersAreTrue == ChecksSpec => []AnswersHold
<1>1. ChecksInv => AnswersHold
  BY DEF ChecksInv
<1>2. QED
  BY ChecksInvariant, <1>1, PTL

=============================================================================
