----------------------------- MODULE DriftServer -----------------------------
(***************************************************************************)
(* The database server of the web worker: clients (tabs) open the database *)
(* over a channel each, run statements, and nest transactions.  A request  *)
(* names the executor it is for; it waits for its turn in the backlog of   *)
(* the server, and then for the lock of the executor.                      *)
(*                                                                         *)
(* Executor 0 is the connection.  Others are made one at a time: a         *)
(* transaction or savepoint inside its parent, or the one of a migration.  *)
(* A request waits, is dispatched in a later turn of the event loop, and   *)
(* is answered; between these steps other requests go on.                  *)
(***************************************************************************)
EXTENDS Naturals, Sequences, FiniteSets, SequencesExt

CONSTANTS
  Clients,       \* the channels that are open
  Hasty,         \* those that do not await all of their statements
  MaxRequests,   \* bound on the requests, but for rollbacks
  MaxExecutors   \* bound on the executors

ASSUME ServerAssumption ==
  /\ IsFiniteSet(Clients) /\ Hasty \subseteq Clients
  /\ MaxRequests \in Nat /\ MaxExecutors \in Nat

VARIABLES
  channel,    \* of a client: "new", "ready" with an open database, "closed"
  nested,     \* the executors of the transactions a client knows it is in
  asked,      \* how many requests the clients have sent
  req,        \* the requests under way
  db,         \* DelegatedDatabase: whether it is open
  opening,    \* its lock for opening: the requests that wait for it
  executor,   \* the executors made so far
  lock,       \* the lock of each executor: who holds it and who waits
  backlog,    \* ServerImplementation: the executors that have a turn, in order
  raw,        \* the transaction of SQLite: the executors it is nested in
  strays      \* requests whose statement ran in a transaction of others

driftVars == <<channel, nested, asked, req, db, opening, executor, lock,
               backlog, raw, strays>>

-----------------------------------------------------------------------------
Connection == 0

\* A client awaits its main request; a loose one it does not.
Slots == Clients \X {"main", "loose"}
ClientOf(r) == r[1]

Ids == 0..MaxExecutors
Executors == [parent : Ids, owner : Clients, state : {"waiting", "open",
                                                      "closed"}]

Idle == [pc |-> "idle", kind |-> "none", on |-> 0, makes |-> 0,
         canceled |-> FALSE]
Requests ==
  [pc : {"idle", "turn", "passed", "lock", "begin", "begun", "release",
         "migrating", "answered", "canceled"},
   kind : {"none", "open", "statement", "begin", "commit", "rollback"},
   on : Ids, makes : Ids, canceled : BOOLEAN]

Answers == {"answered", "canceled"}
Outstanding(r) == req[r].pc \notin Answers \cup {"idle"}

\* Who may be at a lock: a request, or a transaction inside the executor.
Statement(r) == <<"request", r>>
Inner(e) == <<"inner", e>>

DriftInit ==
  /\ channel = [c \in Clients |-> "new"]
  /\ nested = [c \in Clients |-> <<>>]
  /\ asked = 0
  /\ req = [r \in Slots |-> Idle]
  /\ db = "closed" /\ opening = <<>>
  /\ executor = <<>>
  /\ lock = [e \in Ids |-> <<>>]
  /\ backlog = <<>>
  /\ raw = <<>>
  /\ strays = {}

Holds(e, user) == lock[e] # <<>> /\ Head(lock[e]) = user
Innermost(c) == IF nested[c] = <<>> THEN Connection ELSE Last(nested[c])
GoTo(r, pc) == req' = [req EXCEPT ![r].pc = pc]
Answer(r, a) == req' = [req EXCEPT ![r] = [Idle EXCEPT !.pc = a]]

-----------------------------------------------------------------------------
(* Clients *)

Send(r, kind, on) ==
  req' = [req EXCEPT ![r] = [Idle EXCEPT !.pc = "turn", !.kind = kind,
                                         !.on = on]]

\* The bound leaves an executor for every request that is to make one.
Making == {r \in Slots : /\ Outstanding(r) /\ req[r].makes = 0
                         /\ req[r].kind \in {"open", "begin"}}
RoomForExecutor == Len(executor) + Cardinality(Making) < MaxExecutors

\* A client opens the database first, and ends only what it has begun.
Ask(c, kind) ==
  LET r == <<c, "main">>
  IN  /\ ~Outstanding(r)
      /\ channel[c] = IF kind = "open" THEN "new" ELSE "ready"
      /\ kind \in {"commit", "rollback"} => nested[c] # <<>>
      /\ kind \in {"open", "begin"} => RoomForExecutor
      /\ IF kind = "rollback" THEN UNCHANGED asked
         ELSE asked < MaxRequests /\ asked' = asked + 1
      /\ Send(r, kind, Innermost(c))
      /\ UNCHANGED <<channel, nested, db, opening, executor, lock, backlog,
                     raw, strays>>

AskLoosely(c) ==
  LET r == <<c, "loose">>
  IN  /\ c \in Hasty /\ channel[c] = "ready"
      /\ ~Outstanding(r) /\ asked < MaxRequests
      /\ asked' = asked + 1
      /\ Send(r, "statement", Innermost(c))
      /\ UNCHANGED <<channel, nested, db, opening, executor, lock, backlog,
                     raw, strays>>

\* RequestCancellation reaches the token of a statement under way.
Cancel(r) ==
  /\ channel[ClientOf(r)] # "closed"
  /\ Outstanding(r) /\ req[r].kind = "statement" /\ ~req[r].canceled
  /\ req' = [req EXCEPT ![r].canceled = TRUE]
  /\ UNCHANGED <<channel, nested, asked, db, opening, executor, lock, backlog,
                 raw, strays>>

\* The server forgets the channel and goes on with its requests; answers to
\* them are dropped.
Leave(c) ==
  /\ channel[c] # "closed"
  /\ channel' = [channel EXCEPT ![c] = "closed"]
  /\ UNCHANGED <<nested, asked, req, db, opening, executor, lock, backlog, raw,
                 strays>>

-----------------------------------------------------------------------------
(* The turn of a request *)

\* _waitForTurn: the connection has a turn when no transaction is open.
Turn(e) == IF e = Connection THEN backlog = <<>>
           ELSE backlog # <<>> /\ Head(backlog) = e

\* _loadExecutor
PassTurn(r) ==
  /\ req[r].pc = "turn" /\ Turn(req[r].on)
  /\ GoTo(r, "passed")
  /\ UNCHANGED <<channel, nested, asked, db, opening, executor, lock, backlog,
                 raw, strays>>

\* putExecutor: a new executor has the turn before its parent.
Enter(e) == backlog' = <<e>> \o backlog

\* _releaseExecutor
Exit(e) == backlog' = SelectSeq(backlog, LAMBDA x : x # e)

-----------------------------------------------------------------------------
(* Statements *)

\* The last check before the executor; every executor takes its lock.
Dispatch(r) ==
  /\ req[r].pc = "passed" /\ req[r].kind \in {"statement", "commit", "rollback"}
  /\ IF req[r].canceled
     THEN Answer(r, "canceled") /\ UNCHANGED lock
     ELSE /\ GoTo(r, "lock")
          /\ lock' = [lock EXCEPT ![req[r].on] = Append(@, Statement(r))]
  /\ UNCHANGED <<channel, nested, asked, db, opening, executor, backlog, raw,
                 strays>>

Unlock(r) == [lock EXCEPT ![req[r].on] = Tail(@)]

InItsPlace(e) == IF e = Connection THEN raw = <<>>
                 ELSE raw # <<>> /\ Last(raw) = e

\* a plausible mistake: a statement does not wait for the lock
RunUnlocked(r) ==
  /\ req[r].pc = "lock" /\ req[r].kind = "statement"
  /\ lock' = [lock EXCEPT ![req[r].on] =
                SelectSeq(@, LAMBDA u : u # Statement(r))]
  /\ Answer(r, "answered")
  /\ strays' = IF InItsPlace(req[r].on) THEN strays ELSE strays \cup {r}
  /\ UNCHANGED <<channel, nested, asked, db, opening, executor, backlog, raw>>

\* The token is looked at once more behind the lock.  The statement goes to
\* SQLite whatever has become of its executor.
Run(r) ==
  /\ req[r].pc = "lock" /\ req[r].kind = "statement"
  /\ Holds(req[r].on, Statement(r))
  /\ lock' = Unlock(r)
  /\ IF req[r].canceled
     THEN Answer(r, "canceled") /\ UNCHANGED strays
     ELSE /\ Answer(r, "answered")
          /\ strays' = IF InItsPlace(req[r].on) THEN strays
                       ELSE strays \cup {r}
  /\ UNCHANGED <<channel, nested, asked, db, opening, executor, backlog, raw>>

-----------------------------------------------------------------------------
(* Transactions *)

\* beginTransaction makes an executor, and ensureOpen queues it at the lock
\* of its parent, which it holds until it ends.
Spawn(r) ==
  /\ req[r].pc = "passed" /\ req[r].kind = "begin"
  /\ LET e == Len(executor) + 1
     IN  /\ executor' = Append(executor, [parent |-> req[r].on,
              owner |-> ClientOf(r), state |-> "waiting"])
         /\ lock' = [lock EXCEPT ![req[r].on] = Append(@, Inner(e))]
         /\ req' = [req EXCEPT ![r].pc = "begin", ![r].makes = e]
  /\ UNCHANGED <<channel, nested, asked, db, opening, backlog, raw, strays>>

\* BEGIN or SAVEPOINT, which may fail.
Begin(r) ==
  LET e == req[r].makes
  IN  /\ req[r].pc = "begin" /\ Holds(req[r].on, Inner(e))
      /\ \/ /\ GoTo(r, "begun")
            /\ executor' = [executor EXCEPT ![e].state = "open"]
            /\ raw' = Append(raw, e)
            /\ UNCHANGED lock
         \/ /\ Answer(r, "answered")
            /\ executor' = [executor EXCEPT ![e].state = "closed"]
            /\ lock' = Unlock(r)
            /\ UNCHANGED raw
  /\ UNCHANGED <<channel, nested, asked, db, opening, backlog, strays>>

Publish(r) ==
  /\ req[r].pc = "begun"
  /\ Enter(req[r].makes)
  /\ Answer(r, "answered")
  /\ nested' = [nested EXCEPT ![ClientOf(r)] = Append(@, req[r].makes)]
  /\ UNCHANGED <<channel, asked, db, opening, executor, lock, raw, strays>>

\* What of s is before x.
Before(s, x) == SubSeq(s, 1, (CHOOSE i \in DOMAIN s : s[i] = x) - 1)

\* COMMIT, RELEASE or ROLLBACK ends what is nested in the executor too, and
\* gives the lock of its parent back.  A rollback closes the executor even if
\* it fails.
End(r) ==
  LET e == req[r].on
      up == executor[e].parent
  IN  /\ req[r].pc = "lock" /\ req[r].kind \in {"commit", "rollback"}
      /\ Holds(e, Statement(r))
      /\ GoTo(r, "release")
      /\ raw' = Before(raw, e)
      /\ executor' = [executor EXCEPT ![e].state = "closed"]
      /\ lock' = [lock EXCEPT ![e] = Tail(@), ![up] = Tail(@)]
      /\ UNCHANGED <<channel, nested, asked, db, opening, backlog, strays>>

\* A commit that fails leaves its transaction as it was.
CommitFails(r) ==
  /\ req[r].pc = "lock" /\ req[r].kind = "commit"
  /\ Holds(req[r].on, Statement(r))
  /\ lock' = Unlock(r)
  /\ Answer(r, "answered")
  /\ UNCHANGED <<channel, nested, asked, db, opening, executor, backlog, raw,
                 strays>>

Release(r) ==
  /\ req[r].pc = "release"
  /\ Exit(req[r].on)
  /\ Answer(r, "answered")
  /\ nested' = [nested EXCEPT ![ClientOf(r)] = Before(@, req[r].on)]
  /\ UNCHANGED <<channel, asked, db, opening, executor, lock, raw, strays>>

-----------------------------------------------------------------------------
(* Opening the database *)

QueueOpen(r) ==
  /\ req[r].pc = "passed" /\ req[r].kind = "open"
  /\ GoTo(r, "lock")
  /\ opening' = Append(opening, r)
  /\ UNCHANGED <<channel, nested, asked, db, executor, lock, backlog, raw,
                 strays>>

Ready(r) == IF channel[ClientOf(r)] = "closed" THEN channel
            ELSE [channel EXCEPT ![ClientOf(r)] = "ready"]

\* A database that is open is as it was, one that failed fails again.
OpenAgain(r) ==
  /\ req[r].pc = "lock" /\ req[r].kind = "open"
  /\ opening # <<>> /\ Head(opening) = r
  /\ db # "closed"
  /\ Answer(r, "answered")
  /\ channel' = IF db = "open" THEN Ready(r) ELSE channel
  /\ opening' = Tail(opening)
  /\ UNCHANGED <<nested, asked, db, executor, lock, backlog, raw, strays>>

\* SQLite cannot open the file: the next request tries again.
OpenFails(r) ==
  /\ req[r].pc = "lock" /\ req[r].kind = "open"
  /\ opening # <<>> /\ Head(opening) = r
  /\ db = "closed"
  /\ Answer(r, "answered")
  /\ opening' = Tail(opening)
  /\ UNCHANGED <<channel, nested, asked, db, executor, lock, backlog, raw,
                 strays>>

\* The first to open it is asked to migrate it, with an executor of its own
\* that is in the backlog meanwhile.
OpenFirst(r) ==
  LET e == Len(executor) + 1
  IN  /\ req[r].pc = "lock" /\ req[r].kind = "open"
      /\ opening # <<>> /\ Head(opening) = r
      /\ db = "closed"
      /\ db' = "migrating"
      /\ executor' = Append(executor, [parent |-> Connection,
                       owner |-> ClientOf(r), state |-> "open"])
      /\ Enter(e)
      /\ req' = [req EXCEPT ![r].pc = "migrating", ![r].makes = e]
      /\ UNCHANGED <<channel, nested, asked, opening, lock, raw, strays>>

\* a plausible mistake: the turn is given back only if the client answers well
MigratedInTurn(r) ==
  /\ req[r].pc = "migrating"
  /\ Answer(r, "answered")
  /\ \E a \in {"ok", "error"} :
       /\ channel[ClientOf(r)] = "closed" => a = "error"
       /\ db' = IF a = "ok" THEN "open" ELSE "failed"
       /\ channel' = IF a = "ok" THEN Ready(r) ELSE channel
       /\ IF a = "ok" THEN Exit(req[r].makes) ELSE UNCHANGED backlog
  /\ executor' = [executor EXCEPT ![req[r].makes].state = "closed"]
  /\ opening' = Tail(opening)
  /\ UNCHANGED <<nested, asked, lock, raw, strays>>

\* The client answers, or its channel is closed, which fails the migration.
Migrated(r) ==
  /\ req[r].pc = "migrating"
  /\ Answer(r, "answered")
  /\ \E a \in {"ok", "error"} :
       /\ channel[ClientOf(r)] = "closed" => a = "error"
       /\ db' = IF a = "ok" THEN "open" ELSE "failed"
       /\ channel' = IF a = "ok" THEN Ready(r) ELSE channel
  /\ executor' = [executor EXCEPT ![req[r].makes].state = "closed"]
  /\ Exit(req[r].makes)
  /\ opening' = Tail(opening)
  /\ UNCHANGED <<nested, asked, lock, raw, strays>>

-----------------------------------------------------------------------------
ServerStep(r) ==
  \/ PassTurn(r) \/ Dispatch(r) \/ Run(r)
  \/ Spawn(r) \/ Begin(r) \/ Publish(r)
  \/ End(r) \/ CommitFails(r) \/ Release(r)
  \/ QueueOpen(r) \/ OpenAgain(r) \/ OpenFails(r)
  \/ OpenFirst(r) \/ Migrated(r)

DriftNext ==
  \/ \E c \in Clients :
       \/ Ask(c, "open") \/ Ask(c, "statement") \/ Ask(c, "begin")
       \/ Ask(c, "commit") \/ Ask(c, "rollback")
       \/ AskLoosely(c) \/ Leave(c)
  \/ \E r \in Slots : Cancel(r) \/ ServerStep(r)

DriftSpec == DriftInit /\ [][DriftNext]_driftVars

\* The event loop goes on, and a client that stays ends its transactions.
DriftFairness ==
  /\ \A r \in Slots : WF_driftVars(ServerStep(r))
  /\ \A c \in Clients : WF_driftVars(Ask(c, "rollback"))

-----------------------------------------------------------------------------
(* Properties *)

\* Transactions that are open at once are nested and of one client, and the
\* backlog holds them as SQLite does, the innermost first, but for one that
\* has just begun.
BacklogIsNesting ==
  /\ \A i, j \in DOMAIN raw : executor[raw[i]].owner = executor[raw[j]].owner
  /\ LET begun == SelectSeq(Reverse(backlog), LAMBDA e : e \in ToSet(raw))
     IN  \/ raw = begun
         \/ /\ raw # <<>> /\ begun = Front(raw)
            /\ \E r \in Slots : req[r].pc = "begun" /\ req[r].makes = Last(raw)

\* The state of the clients, the requests and the executors.  No executor has
\* the turn that is closed, but for one whose release is under way, and the
\* backlog is nested as the transactions are.
DriftTypeOK ==
  /\ channel \in [Clients -> {"new", "ready", "closed"}]
  /\ nested \in [Clients -> Seq(Ids)]
  /\ asked \in 0..MaxRequests
  /\ req \in [Slots -> Requests]
  /\ db \in {"closed", "migrating", "open", "failed"}
  /\ opening \in Seq(Slots)
  /\ executor \in Seq(Executors)
  /\ DOMAIN lock = Ids
  /\ backlog \in Seq(DOMAIN executor)
  /\ \A e \in ToSet(backlog) :
       \/ executor[e].state # "closed"
       \/ \E r \in Slots : req[r].pc = "release" /\ req[r].on = e
  /\ raw \in Seq(DOMAIN executor)
  /\ strays \subseteq Slots
  /\ BacklogIsNesting

\* A statement of a client that awaits its requests runs in the transaction
\* it was meant for, or in none: never between the BEGIN and the COMMIT of
\* another client.
Isolated == \A r \in strays : ClientOf(r) \in Hasty

\* A client has left in the middle of a transaction: the server keeps it.
Abandoned ==
  \E e \in DOMAIN executor :
    executor[e].state # "closed" /\ channel[executor[e].owner] = "closed"

Awaits(c) == Outstanding(<<c, "main">>)
AwaitEnds(c) ==
  ~Outstanding(<<c, "main">>) \/ Abandoned \/ channel[c] = "closed"

\* Every request that a client awaits is answered, the waits for turns and
\* for locks never block each other, unless a client that has left holds all
\* of them up.
RequestsAnswered == \A c \in Clients : Awaits(c) ~> AwaitEnds(c)
=============================================================================
