--------------------------- MODULE WorkspaceStore ---------------------------
(***************************************************************************)
(* ScanWorkspaceStore of the scan feature, with the home page that polls   *)
(* it, against a daemon that runs scans.  Every call to the daemon is      *)
(* three steps (it is sent, the daemon answers, the store goes on after    *)
(* the await), and events of the socket are applied in between.            *)
(*                                                                         *)
(* Scans are numbered in the order they are started; a scan, its session   *)
(* and its snapshot have the same number here, and 0 is none.              *)
(***************************************************************************)
EXTENDS Naturals, Sequences, SequencesExt

CONSTANTS
  MaxStarts,      \* bound on the scans
  MaxTaps,        \* bound on what the user does
  MaxBuffered     \* _pendingScanEventLimit

ASSUME StoreAssumption ==
  /\ MaxStarts \in Nat /\ MaxTaps \in Nat
  /\ MaxBuffered \in Nat

VARIABLES
  daemon,      \* the state of each scan
  wire,        \* events on their way to the store
  lastSent,    \* the sequence number of the last of them
  shown,       \* what the store holds: session status, snapshot, rows
  lastSeen,    \* _lastEventSequence
  buffered,    \* _pendingSessionEvents
  starting,    \* where start() is
  status,      \* the status calls under way, by what made them
  tree,        \* the call of _loadTreeRoot
  watched,     \* _pendingSnapshotLoadSessionId of the home page
  autoloaded,  \* its _lastAutoLoadedSessionId and _lastAutoLoadedSnapshotId
  overtaken,   \* whether an answer was applied after a newer one
  taps         \* what the user did

storeVars == <<daemon, wire, lastSent, shown, lastSeen, buffered, starting,
               status, tree, watched, autoloaded, overtaken, taps>>

-----------------------------------------------------------------------------
Starts == 1..MaxStarts
\* A failed scan ends like a canceled one.
EndStates == {"completed", "canceled"}
ScanStates == EndStates \cup {"none", "running", "disposed"}
\* An event of progress is like one of the start: the session runs.
EventKinds == EndStates \cup {"started"}
WireEvents == [scan : Starts, kind : EventKinds, seq : Nat]

Callers == {"missed events", "cancel", "poll"}
NoCall == [at |-> "idle", scan |-> 0, answer |-> "none"]

Shown == [session : 0..MaxStarts, state : ScanStates, snapshot : 0..MaxStarts,
          roots : BOOLEAN, load : {"idle", "loading", "failed"},
          rows : 0..MaxStarts, loaded : BOOLEAN, stale : BOOLEAN]

EmptyStore == [session |-> 0, state |-> "none", snapshot |-> 0,
               roots |-> FALSE, load |-> "idle", rows |-> 0, loaded |-> FALSE,
               stale |-> FALSE]

NoAutoload == <<0, 0>>

NoTree == [at |-> "idle", session |-> 0, snapshot |-> 0, ok |-> FALSE,
           polled |-> FALSE]

StoreInit ==
  /\ daemon = [s \in Starts |-> "none"]
  /\ wire = <<>> /\ lastSent = 0
  /\ shown = EmptyStore
  /\ lastSeen = 0
  /\ buffered = <<>>
  /\ starting = [at |-> "idle", scan |-> 0]
  /\ status = [c \in Callers |-> NoCall]
  /\ tree = NoTree
  /\ watched = 0 /\ autoloaded = NoAutoload
  /\ overtaken = FALSE
  /\ taps = 0

Tap == taps < MaxTaps /\ taps' = taps + 1

\* canQueryPages and a root to query
Readable == shown.session # 0 /\ shown.snapshot # 0 /\ shown.roots

-----------------------------------------------------------------------------
(* The daemon and the event socket *)

\* The socket lags or reconnects now and then: the store never gets the event.
Send(s, kind) ==
  /\ lastSent' = lastSent + 1
  /\ \/ wire' = Append(wire, [scan |-> s, kind |-> kind, seq |-> lastSent + 1])
     \/ wire' = wire

EndRealScan(s) ==
  /\ daemon[s] = "running"
  /\ \E kind \in EndStates :
       /\ daemon' = [daemon EXCEPT ![s] = kind]
       /\ Send(s, kind)
  /\ UNCHANGED <<shown, lastSeen, buffered, starting, status, tree, watched,
                 overtaken, taps, autoloaded>>

-----------------------------------------------------------------------------
(* What the store does with statuses and events *)

\* _applySessionStatus
WithStatus(store, scan, state) ==
  [store EXCEPT
     !.session = scan, !.state = state, !.roots = (state = "completed"),
     !.snapshot = IF state = "completed" THEN scan ELSE @,
     !.stale = IF state = "completed" THEN FALSE ELSE @]

\* a plausible mistake: an ended session hears of progress again
ReconcileAlways(store, e) ==
  CASE e.kind = "started" -> [store EXCEPT !.state = "running"]
    [] e.kind = "completed" ->
         [store EXCEPT
            !.state = "completed", !.snapshot = e.scan,
            !.stale = @ /\ store.snapshot \notin {0, e.scan} /\ store.rows # 0]
    [] e.kind = "canceled" -> [store EXCEPT !.state = e.kind]

\* reconcileEvent, for an event of the session of the store: an ended session
\* is not reopened, a snapshot makes the rows of another one stale.
Reconcile(store, e) ==
  CASE e.kind = "started" ->
         [store EXCEPT !.state = IF @ \in EndStates THEN @ ELSE "running"]
    [] e.kind = "completed" ->
         [store EXCEPT
            !.state = "completed", !.snapshot = e.scan,
            !.stale = store.snapshot \notin {0, e.scan} /\ store.rows # 0]
    [] e.kind = "canceled" -> [store EXCEPT !.state = e.kind]

\* a plausible mistake: nothing makes room
BufferAll(events, e) == Append(events, e)

\* _bufferPendingSessionEvent: the oldest events make room.
Buffer(events, e) ==
  LET all == Append(events, e)
  IN  IF Len(all) > MaxBuffered
      THEN SubSeq(all, Len(all) - MaxBuffered + 1, Len(all)) ELSE all

\* An event after a gap makes the store ask for the status of its session.
ApplyEvent ==
  /\ wire # <<>>
  /\ LET e == Head(wire)
         missed == lastSeen # 0 /\ e.seq > lastSeen + 1
     IN  /\ wire' = Tail(wire)
         /\ lastSeen' = IF e.seq > lastSeen THEN e.seq ELSE lastSeen
         /\ IF e.scan = shown.session
            THEN /\ shown' = Reconcile(shown, e)
                 /\ UNCHANGED buffered
            ELSE /\ buffered' = IF shown.session = 0 \/ shown.load = "loading"
                                THEN Buffer(buffered, e) ELSE buffered
                 /\ UNCHANGED shown
         /\ IF missed /\ shown.session # 0
               /\ status["missed events"].at = "idle"
            THEN status' = [status EXCEPT !["missed events"] =
                   [at |-> "asked", scan |-> shown.session,
                    answer |-> "none"]]
            ELSE UNCHANGED status
  /\ UNCHANGED <<daemon, lastSent, starting, tree, watched, overtaken, taps,
                 autoloaded>>

-----------------------------------------------------------------------------
(* Status calls *)

\* cancelCurrentScan: what the daemon does about it shows in how the scan
\* ends, the answer is a status like that of the other calls.
AskCancel ==
  /\ Tap
  /\ shown.session # 0 /\ status["cancel"].at = "idle"
  /\ status' = [status EXCEPT !["cancel"] =
                  [at |-> "asked", scan |-> shown.session, answer |-> "none"]]
  /\ UNCHANGED <<daemon, wire, lastSent, shown, lastSeen, buffered, starting,
                 tree, watched, overtaken, autoloaded>>

AnswerStatus(c) ==
  /\ status[c].at = "asked"
  /\ status' = [status EXCEPT ![c].at = "answered",
                              ![c].answer = daemon[status[c].scan]]
  /\ UNCHANGED <<daemon, wire, lastSent, shown, lastSeen, buffered, starting,
                 tree, watched, overtaken, taps, autoloaded>>

\* _isOlderSnapshotStatus; a cancel has no such check.
Outdated(c) ==
  /\ c # "cancel"
  /\ \/ shown.session # 0 /\ status[c].scan # shown.session
     \/ /\ status[c].answer = "completed"
        /\ shown.snapshot # 0 /\ status[c].scan < shown.snapshot

\* Whether the answer would take the store back: to a scan it has left, or
\* to a state its scan had before.
TakesBack(c) ==
  \/ status[c].scan # shown.session
  \/ status[c].answer = "running" /\ shown.state \in EndStates

ApplyStatus(c) ==
  /\ status[c].at = "answered"
  /\ status' = [status EXCEPT ![c] = NoCall]
  /\ LET scan == status[c].scan
         answer == status[c].answer
     IN  IF answer = "disposed"
         THEN /\ shown' = [shown EXCEPT !.load = "failed"]
              /\ UNCHANGED overtaken
         ELSE IF Outdated(c) THEN UNCHANGED <<shown, overtaken>>
         ELSE /\ shown' = WithStatus(shown, scan, answer)
              /\ overtaken' = (overtaken \/ TakesBack(c))
  /\ UNCHANGED <<daemon, wire, lastSent, lastSeen, buffered, starting, tree,
                 watched, taps, autoloaded>>

-----------------------------------------------------------------------------
(* start() *)

Start ==
  /\ Tap
  /\ starting.at = "idle"
  /\ starting' = [at |-> "disposing", scan |-> shown.session]
  /\ shown' = [shown EXCEPT !.load = "loading"]
  /\ UNCHANGED <<daemon, wire, lastSent, lastSeen, buffered, status, tree,
                 watched, overtaken>>
  /\ autoloaded' = NoAutoload

\* _disposeCurrentSession was answered or failed, and everything but the
\* status of the session is reset.
Reset ==
  /\ starting.at = "disposing"
  /\ \E reached \in {starting.scan # 0, FALSE} :
       daemon' = IF reached
                 THEN [daemon EXCEPT ![starting.scan] = "disposed"]
                 ELSE daemon
  /\ starting' = [at |-> "asked", scan |-> 0]
  /\ lastSeen' = 0
  /\ shown' = [shown EXCEPT !.snapshot = 0, !.rows = 0,
                          !.loaded = FALSE, !.stale = FALSE]
  /\ UNCHANGED <<wire, lastSent, buffered, status, tree, watched, overtaken,
                 taps, autoloaded>>

AnswerStart ==
  /\ starting.at = "asked"
  /\ \E s \in Starts :
       /\ daemon[s] = "none"
       /\ \A t \in 1..(s - 1) : daemon[t] # "none"
       /\ daemon' = [daemon EXCEPT ![s] = "running"]
       /\ Send(s, "started")
       /\ starting' = [at |-> "answered", scan |-> s]
  /\ UNCHANGED <<shown, lastSeen, buffered, status, tree, watched, overtaken,
                 taps, autoloaded>>

\* _replayPendingEventsForSession: an answer that says running is trusted
\* more than the end of the scan that was heard before it.  What is left are
\* events of progress, and it is all one in which order they are replayed.
Replay(store, e) == IF e.kind \in EndStates THEN store ELSE Reconcile(store, e)

Replayed(store, events, scan) ==
  FoldLeft(LAMBDA st, e : IF e.scan = scan THEN Replay(st, e) ELSE st,
           store, events)

OfOthers(events, scan) ==
  FoldLeft(LAMBDA kept, e : IF e.scan = scan THEN kept ELSE Append(kept, e),
           <<>>, events)

ApplyStart ==
  /\ starting.at = "answered"
  /\ shown' = Replayed([WithStatus(shown, starting.scan, "running")
                          EXCEPT !.load = "idle"],
                       buffered, starting.scan)
  /\ buffered' = OfOthers(buffered, starting.scan)
  /\ watched' = starting.scan
  /\ starting' = [at |-> "idle", scan |-> 0]
  /\ UNCHANGED <<daemon, wire, lastSent, lastSeen, status, tree, overtaken,
                 taps, autoloaded>>

\* The daemon refuses, or cannot be reached; the home page watches whatever
\* session the store has.
FailStart ==
  /\ starting.at = "asked"
  /\ shown' = [shown EXCEPT !.load = "failed"]
  /\ watched' = shown.session
  /\ starting' = [at |-> "idle", scan |-> 0]
  /\ UNCHANGED <<daemon, wire, lastSent, lastSeen, buffered, status, tree,
                 overtaken, taps, autoloaded>>

\* clearReadModelForTargetChange
ChangeTarget ==
  /\ Tap
  /\ starting.at = "idle" /\ shown.session # 0
  /\ shown' = EmptyStore
  /\ lastSeen' = 0
  /\ UNCHANGED <<daemon, wire, lastSent, buffered, starting, status, tree,
                 overtaken>>
  /\ autoloaded' = NoAutoload
  /\ watched' = 0

-----------------------------------------------------------------------------
(* The home page, and the rows *)

\* _loadTreeRoot
AskTree(polled) ==
  /\ Readable /\ tree.at = "idle"
  /\ tree' = [at |-> "asked", session |-> shown.session,
              snapshot |-> shown.snapshot, ok |-> FALSE, polled |-> polled]
  /\ shown' = [shown EXCEPT !.load = "loading", !.loaded = FALSE]
  /\ UNCHANGED <<daemon, wire, lastSent, lastSeen, buffered, starting, status,
                 watched, overtaken, autoloaded>>

\* The user asks for the rows again.
Reload == Tap /\ AskTree(FALSE)

AnswerTree ==
  /\ tree.at = "asked"
  /\ tree' = [tree EXCEPT !.at = "answered",
                !.ok = /\ daemon[tree.session] = "completed"
                       /\ tree.snapshot = tree.session]
  /\ UNCHANGED <<daemon, wire, lastSent, shown, lastSeen, buffered, starting,
                 status, watched, overtaken, taps, autoloaded>>

\* _isCurrentSnapshot
Current == tree.session = shown.session /\ tree.snapshot = shown.snapshot

\* The home page stops watching when the rows of a poll are there, also if it
\* has begun to watch another session meanwhile.
StopsAnother == tree.polled /\ watched \notin {0, tree.session}

ApplyTree ==
  /\ tree.at = "answered"
  /\ shown' =
       IF ~Current
       THEN [shown EXCEPT !.load = IF @ = "loading" THEN "idle" ELSE @]
       ELSE IF tree.ok
       THEN [shown EXCEPT !.rows = tree.snapshot, !.loaded = TRUE,
                          !.stale = FALSE, !.load = "idle"]
       ELSE [shown EXCEPT !.load = "failed"]
  /\ watched' = IF tree.polled THEN 0 ELSE watched
  /\ overtaken' = (overtaken \/ StopsAnother)
  /\ tree' = NoTree
  /\ UNCHANGED <<daemon, wire, lastSent, lastSeen, buffered, starting, status,
                 taps, autoloaded>>

\* _maybeAutoloadReadableTree, in a microtask after the store has changed: the
\* rows of each snapshot are loaded once without being asked for.
Autoload ==
  /\ status["poll"].at = "idle" /\ ~tree.polled
  /\ shown.session # 0 /\ shown.snapshot # 0 /\ ~shown.loaded
  /\ autoloaded # <<shown.session, shown.snapshot>>
  /\ autoloaded' = <<shown.session, shown.snapshot>>
  /\ watched' = shown.session
  /\ UNCHANGED <<daemon, wire, lastSent, shown, lastSeen, buffered, starting,
                 status, tree, overtaken, taps>>

\* a plausible mistake: an ended scan is not asked about
PollStatusWhileRunning ==
  /\ shown.state = "running"
  /\ watched # 0 /\ watched = shown.session /\ ~Readable
  /\ status["poll"].at = "idle" /\ ~tree.polled
  /\ status' = [status EXCEPT !["poll"] =
                  [at |-> "asked", scan |-> shown.session, answer |-> "none"]]
  /\ UNCHANGED <<daemon, wire, lastSent, shown, lastSeen, buffered, starting,
                 tree, watched, overtaken, taps, autoloaded>>

\* The timer of the home page asks for the status until there is a snapshot
\* to read, and then loads its rows once.
PollStatus ==
  /\ watched # 0 /\ watched = shown.session /\ ~Readable
  /\ status["poll"].at = "idle" /\ ~tree.polled
  /\ status' = [status EXCEPT !["poll"] =
                  [at |-> "asked", scan |-> shown.session, answer |-> "none"]]
  /\ UNCHANGED <<daemon, wire, lastSent, shown, lastSeen, buffered, starting,
                 tree, watched, overtaken, taps, autoloaded>>

PollRows ==
  /\ watched # 0 /\ watched = shown.session
  /\ status["poll"].at = "idle"
  /\ AskTree(TRUE)
  /\ UNCHANGED taps

StopWatching ==
  /\ watched # 0 /\ watched # shown.session
  /\ watched' = 0
  /\ UNCHANGED <<daemon, wire, lastSent, shown, lastSeen, buffered, starting,
                 status, tree, overtaken, taps, autoloaded>>

-----------------------------------------------------------------------------
StoreNext ==
  \/ \E s \in Starts : EndRealScan(s)
  \/ ApplyEvent
  \/ AskCancel \/ \E c \in Callers : AnswerStatus(c) \/ ApplyStatus(c)
  \/ Start \/ Reset \/ AnswerStart \/ ApplyStart \/ FailStart \/ ChangeTarget
  \/ Reload \/ AnswerTree \/ ApplyTree
  \/ Autoload \/ PollStatus \/ PollRows \/ StopWatching

StoreSpec == StoreInit /\ [][StoreNext]_storeVars

\* Calls are answered and awaits go on, and the timer of the home page fires.
StoreFairness ==
  /\ \A c \in Callers : /\ WF_storeVars(AnswerStatus(c))
                        /\ WF_storeVars(ApplyStatus(c))
  /\ WF_storeVars(Reset) /\ WF_storeVars(AnswerStart \/ FailStart)
  /\ WF_storeVars(ApplyStart)
  /\ WF_storeVars(AnswerTree) /\ WF_storeVars(ApplyTree)
  /\ WF_storeVars(Autoload) /\ WF_storeVars(PollStatus)
  /\ WF_storeVars(PollRows)

-----------------------------------------------------------------------------
(* Properties *)

\* The state of the daemon, the store and the calls between them; the buffer
\* keeps to its limit.
StoreTypeOK ==
  /\ daemon \in [Starts -> ScanStates]
  /\ wire \in Seq(WireEvents) /\ lastSent \in Nat
  /\ shown \in Shown
  /\ lastSeen \in 0..lastSent
  /\ buffered \in Seq(WireEvents) /\ Len(buffered) <= MaxBuffered
  /\ starting \in [at : {"idle", "disposing", "asked", "answered"},
                   scan : 0..MaxStarts]
  /\ status \in [Callers -> [at : {"idle", "asked", "answered"},
                             scan : 0..MaxStarts, answer : ScanStates]]
  /\ tree \in [at : {"idle", "asked", "answered"}, session : 0..MaxStarts,
               snapshot : 0..MaxStarts, ok : BOOLEAN, polled : BOOLEAN]
  /\ watched \in 0..MaxStarts
  /\ autoloaded \in (0..MaxStarts) \X (0..MaxStarts)
  /\ overtaken \in BOOLEAN
  /\ taps \in 0..MaxTaps

\* A session that has ended is not shown as running again, unless an answer
\* that the daemon gave before is applied: events, in whatever order they are
\* buffered, replayed and applied, never do it.
EndedStaysEnded ==
  [][/\ shown.state \in EndStates
     /\ shown'.session = shown.session
     /\ shown'.state = "running"
     => overtaken']_storeVars

\* A completed scan that the store shows becomes readable and its rows are
\* loaded, though its events may be lost, dropped or skipped, as long as no
\* older answer is applied and the user does nothing else.
RowsAwaited(s) == daemon[s] = "completed" /\ shown.session = s /\ watched = s
RowsShown(s) ==
  \/ shown.rows = s \/ overtaken
  \/ shown.session # s \/ starting.at # "idle" \/ shown.load = "failed"

CompletedIsShown == \A s \in Starts : RowsAwaited(s) ~> RowsShown(s)

=============================================================================
