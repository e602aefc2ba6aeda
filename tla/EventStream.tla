---------------------------- MODULE EventStream ----------------------------
(***************************************************************************)
(* The event stream of clean-disk-server, end to end: scan threads push    *)
(* events into the bounded event log and the broadcast channel, the event  *)
(* socket replays the log and then follows the channel, and the workspace  *)
(* store of the client watches the sequence numbers for gaps.              *)
(*                                                                         *)
(* push_event takes three steps: it looks the session up under one lock,   *)
(* draws a sequence number, and publishes under another lock.              *)
(***************************************************************************)
EXTENDS Naturals, FiniteSets, SequencesExt

CONSTANTS
  Sessions,      \* the scans that may run
  Disposable,    \* those that a client may dispose while they run
  MaxScans,      \* WorkerBudget::max_active_scans
  LogLimit,      \* SessionRegistry::event_buffer_limit
  RingSize,      \* capacity of the broadcast channel
  Updates,       \* bound on the progress and tree events of a scan
  MaxConnects,   \* bound on the connections of the client
  MaxRestarts    \* bound on restarts of the daemon

ASSUME StreamAssumption ==
  /\ IsFiniteSet(Sessions)
  /\ Disposable \subseteq Sessions
  /\ MaxScans \in Nat \ {0}
  /\ LogLimit \in Nat \ {0}
  /\ RingSize \in Nat /\ RingSize >= LogLimit
  /\ Updates \in Nat /\ MaxConnects \in Nat /\ MaxRestarts \in Nat

VARIABLES
  scan,       \* what the thread of each scan has left to say
  push,       \* the push_event call of each scan thread
  gone,       \* sessions whose record was disposed
  sequence,   \* SessionRegistry::event_sequence
  log,        \* SessionRegistry::event_log
  sent,       \* every envelope ever broadcast
  socket,     \* open_events_socket
  client,     \* ScanWorkspaceStore: the sequence numbers it saw
  spent       \* how much of each bound has been used

vars == <<scan, push, gone, sequence, log, sent, socket, client, spent>>

-----------------------------------------------------------------------------
Kinds == {"started", "progress", "batch", "final"}

\* id is the place of the envelope in the broadcast; the code has no such
\* field, it names envelopes across restarts of the daemon.
Envelopes == [id : Nat, seq : Nat, session : Sessions, kind : Kinds]

NoPush == [at |-> "none", kind |-> "started", seq |-> 0]
Pushes == [at : {"none", "number", "publish"}, kind : Kinds, seq : Nat]

Scans == [at : {"waiting", "begin", "scanning", "ending", "done"},
          left : 0..Updates]

\* A scan holds its permit until its last event is out.
Running == {s \in Sessions : scan[s].at \notin {"waiting", "done"}}

Closed == [pc |-> "closed", opened |-> 0, next |-> 0, replay |-> <<>>,
           watermark |-> 0, oldest |-> 0, heard |-> <<>>]

Sockets == [pc : {"closed", "subscribed", "replaying", "live"},
            opened : Nat, next : Nat, replay : Seq(Envelopes),
            watermark : Nat, oldest : Nat, heard : Seq(Nat)]

\* _lastEventSequence, with what a reader of the log of the client would know
\* since it was last forgotten: the first event, all events, and the event
\* that made the store ask for the status last.
Clients == [last : Nat, first : Nat, got : SUBSET Nat, refreshed : Nat]

NewClient == [last |-> 0, first |-> 0, got |-> {}, refreshed |-> 0]

Init ==
  /\ scan = [s \in Sessions |-> [at |-> "waiting", left |-> Updates]]
  /\ push = [s \in Sessions |-> NoPush]
  /\ gone = {}
  /\ sequence = 1
  /\ log = <<>>
  /\ sent = <<>>
  /\ socket = Closed
  /\ client = NewClient
  /\ spent = [connects |-> 0, restarts |-> 0]

-----------------------------------------------------------------------------
(* Scan threads *)

Admit(s) ==
  /\ scan[s].at = "waiting"
  /\ Cardinality(Running) < MaxScans
  /\ scan' = [scan EXCEPT ![s].at = "begin"]
  /\ UNCHANGED <<push, gone, sequence, log, sent, socket, client, spent>>

\* push_event: the record of the session, which keeps the event; an event of
\* a disposed session goes no further.
Record(s, kind) ==
  /\ push[s].at = "none"
  /\ push' = IF s \in gone THEN push
             ELSE [push EXCEPT ![s] = [at |-> "number", kind |-> kind,
                                       seq |-> 0]]
  /\ UNCHANGED <<gone, sequence, log, sent, socket, client, spent>>

EmitStarted(s) ==
  /\ scan[s].at = "begin"
  /\ Record(s, "started")
  /\ scan' = [scan EXCEPT ![s].at = "scanning"]

EmitUpdate(s) ==
  /\ scan[s].at = "scanning"
  /\ scan[s].left > 0
  /\ \E kind \in {"progress", "batch"} : Record(s, kind)
  /\ scan' = [scan EXCEPT ![s].left = @ - 1]

\* A scan that was canceled before it began has no other event.
EmitFinal(s) ==
  /\ scan[s].at \in {"begin", "scanning"}
  /\ Record(s, "final")
  /\ scan' = [scan EXCEPT ![s].at = "ending"]

EndScan(s) ==
  /\ scan[s].at = "ending"
  /\ push[s].at = "none"
  /\ scan' = [scan EXCEPT ![s].at = "done"]
  /\ UNCHANGED <<push, gone, sequence, log, sent, socket, client, spent>>

\* next_event_envelope
Number(s) ==
  /\ push[s].at = "number"
  /\ push' = [push EXCEPT ![s].at = "publish", ![s].seq = sequence]
  /\ sequence' = sequence + 1
  /\ UNCHANGED <<scan, gone, log, sent, socket, client, spent>>

\* is_progress_for_session
IsProgressOf(s, envelope) ==
  envelope.kind = "progress" /\ envelope.session = s

\* The place of the last progress event of s in the log, 0 for none.
LastProgress(s, i) ==
  IF \E j \in DOMAIN log : IsProgressOf(s, log[j])
  THEN /\ i \in DOMAIN log
       /\ IsProgressOf(s, log[i])
       /\ \A j \in DOMAIN log : IsProgressOf(s, log[j]) => j <= i
  ELSE i = 0

Without(i) == IF i = 0 THEN log ELSE RemoveAt(log, i)

\* the oldest event makes room for one more
Evicted(l) == IF Len(l) >= LogLimit THEN Tail(l) ELSE l

\* push_event under the lock of the event log: a progress event replaces the
\* one before it, the log stays within its limit, and receivers get the event.
Publish(s) ==
  /\ push[s].at = "publish"
  /\ LET envelope == [id |-> Len(sent) + 1, seq |-> push[s].seq,
                      session |-> s, kind |-> push[s].kind]
     IN /\ \E i \in 0..Len(log) :
             /\ IF push[s].kind = "progress" THEN LastProgress(s, i) ELSE i = 0
             /\ log' = Append(Evicted(Without(i)), envelope)
        /\ sent' = Append(sent, envelope)
  /\ push' = [push EXCEPT ![s] = NoPush]
  /\ UNCHANGED <<scan, gone, sequence, socket, client, spent>>

\* SessionRegistry::dispose
Dispose(s) ==
  /\ s \in Disposable \ gone
  /\ scan[s].at # "waiting"
  /\ gone' = gone \cup {s}
  /\ UNCHANGED <<scan, push, sequence, log, sent, socket, client, spent>>

\* The daemon stops and is started again: nothing of this is persisted.
Restart ==
  /\ spent.restarts < MaxRestarts
  /\ spent' = [spent EXCEPT !.restarts = @ + 1]
  /\ scan' = [s \in Sessions |-> IF s \in Running
                                 THEN [scan[s] EXCEPT !.at = "done"]
                                 ELSE scan[s]]
  /\ push' = [s \in Sessions |-> NoPush]
  /\ gone' = {s \in Sessions : scan[s].at # "waiting"}
  /\ sequence' = 1
  /\ log' = <<>>
  /\ socket' = Closed
  /\ UNCHANGED <<sent, client>>

-----------------------------------------------------------------------------
(* The event socket *)

\* open_events_socket: the subscription, which starts after the last event;
\* the client reconnects when the stream breaks.
Subscribe ==
  /\ socket.pc = "closed"
  /\ spent.connects < MaxConnects
  /\ spent' = [spent EXCEPT !.connects = @ + 1]
  /\ socket' = [Closed EXCEPT !.pc = "subscribed", !.opened = Len(sent) + 1,
                              !.next = Len(sent) + 1]
  /\ UNCHANGED <<scan, push, gone, sequence, log, sent, client>>

\* then the copy of the log to replay, and its high watermark
CopyLog ==
  /\ socket.pc = "subscribed"
  /\ socket' =
       [socket EXCEPT !.pc = "replaying", !.replay = log,
                      !.watermark = IF log = <<>> THEN 0 ELSE Last(log).seq,
                      !.oldest = IF log = <<>> THEN 0 ELSE Head(log).id]
  /\ UNCHANGED <<scan, push, gone, sequence, log, sent, client, spent>>

\* a plausible mistake: one missing number is not taken for a gap
HearLenient(e) ==
  client' =
    [last |-> IF e.seq > client.last THEN e.seq ELSE client.last,
     first |-> IF client.first = 0 THEN e.id ELSE client.first,
     got |-> client.got \cup {e.id},
     refreshed |-> IF client.last # 0 /\ e.seq > client.last + 2
                   THEN e.id ELSE client.refreshed]

\* ScanWorkspaceStore._recordEventSequence and the refresh it asks for; the
\* event itself is reconciled either way.
Hear(e) ==
  client' =
    [last |-> IF e.seq > client.last THEN e.seq ELSE client.last,
     first |-> IF client.first = 0 THEN e.id ELSE client.first,
     got |-> client.got \cup {e.id},
     refreshed |-> IF client.last # 0 /\ e.seq > client.last + 1
                   THEN e.id ELSE client.refreshed]

SendReplay ==
  /\ socket.pc = "replaying"
  /\ IF socket.replay = <<>>
     THEN /\ socket' = [socket EXCEPT !.pc = "live"]
          /\ UNCHANGED client
     ELSE /\ Hear(Head(socket.replay))
          /\ socket' = [socket EXCEPT !.replay = Tail(@),
                          !.heard = Append(@, Head(socket.replay).seq)]
  /\ UNCHANGED <<scan, push, gone, sequence, log, sent, spent>>

\* the channel keeps the last RingSize events for its receivers
Lagging == Len(sent) >= socket.next + RingSize

\* a plausible mistake: the watermark itself is not skipped
ReceiveFromWatermark ==
  /\ socket.pc = "live"
  /\ socket.next <= Len(sent)
  /\ ~Lagging
  /\ LET e == sent[socket.next]
     IN IF e.seq < socket.watermark
        THEN /\ socket' = [socket EXCEPT !.next = @ + 1]
             /\ UNCHANGED client
        ELSE /\ Hear(e)
             /\ socket' = [socket EXCEPT !.next = @ + 1,
                                         !.heard = Append(@, e.seq)]
  /\ UNCHANGED <<scan, push, gone, sequence, log, sent, spent>>

\* events.recv: an event that the replay covered is skipped
Receive ==
  /\ socket.pc = "live"
  /\ socket.next <= Len(sent)
  /\ ~Lagging
  /\ LET e == sent[socket.next]
     IN IF e.seq <= socket.watermark
        THEN /\ socket' = [socket EXCEPT !.next = @ + 1]
             /\ UNCHANGED client
        ELSE /\ Hear(e)
             /\ socket' = [socket EXCEPT !.next = @ + 1,
                                         !.heard = Append(@, e.seq)]
  /\ UNCHANGED <<scan, push, gone, sequence, log, sent, spent>>

\* RecvError::Lagged: go on with the oldest event that is left
Lag ==
  /\ socket.pc = "live"
  /\ Lagging
  /\ socket' = [socket EXCEPT !.next = Len(sent) - RingSize + 1]
  /\ UNCHANGED <<scan, push, gone, sequence, log, sent, client, spent>>

\* ScanWorkspaceStore.start and connectEvents: the store forgets the sequence
\* numbers it saw.
ForgetSequence ==
  /\ client # NewClient
  /\ client' = NewClient
  /\ UNCHANGED <<scan, push, gone, sequence, log, sent, socket, spent>>

\* The connection breaks.
Drop ==
  /\ socket.pc # "closed"
  /\ socket' = Closed
  /\ UNCHANGED <<scan, push, gone, sequence, log, sent, client, spent>>

-----------------------------------------------------------------------------
ScanStep(s) == \/ EmitStarted(s) \/ EmitUpdate(s) \/ EmitFinal(s)
               \/ EndScan(s) \/ Number(s) \/ Publish(s)

SocketStep == CopyLog \/ SendReplay \/ Receive \/ Lag

Next == \/ \E s \in Sessions : Admit(s) \/ ScanStep(s) \/ Dispose(s)
        \/ SocketStep \/ Subscribe \/ Drop \/ ForgetSequence \/ Restart

Spec == Init /\ [][Next]_vars

\* The socket task is scheduled and its client reads.
FairSpec == Spec /\ WF_vars(SocketStep)

-----------------------------------------------------------------------------
(* Safety *)

TypeOK ==
  /\ scan \in [Sessions -> Scans]
  /\ push \in [Sessions -> Pushes]
  /\ gone \subseteq Sessions
  /\ sequence \in Nat
  /\ log \in Seq(Envelopes) /\ Len(log) <= LogLimit
  /\ sent \in Seq(Envelopes)
  /\ socket \in Sockets
  /\ client \in Clients
  /\ spent \in [connects : 0..MaxConnects, restarts : 0..MaxRestarts]

\* The log is in the order of its sequence numbers, as the high watermark of
\* the socket needs it, although a number is drawn before the lock of the log
\* is taken.  It holds because one scan runs at a time.  (push_event)
LogOrdered ==
  \A i, j \in DOMAIN log : i < j => log[i].seq < log[j].seq

\* On one connection no event is heard twice or late, whatever is published
\* between the subscription and the copy of the log.  (open_events_socket)
HeardInOrder ==
  \A i, j \in DOMAIN socket.heard : i < j => socket.heard[i] < socket.heard[j]

\* The client knows of what it missed, by lagging, by a broken connection, or
\* because the log dropped it, once it has heard a later event: it asked for
\* the status of its session after the gap.  What nothing follows, or comes
\* before the first event it ever heard, it cannot know of.  A daemon that is started again is left out: see
\* the README.  (open_events_socket, _recordEventSequence)
GapsNoticed ==
  \A i \in DOMAIN sent :
    i \notin client.got /\ i > client.first =>
      \A j \in client.got : i < j => i < client.refreshed

-----------------------------------------------------------------------------
(* Liveness *)

\* The socket has event i still before it: in the replay or in the channel.
Owed(i) ==
  /\ i \in DOMAIN sent /\ i >= socket.next
  /\ \/ socket.pc = "subscribed"
     \/ /\ socket.pc \in {"replaying", "live"}
        /\ \/ sent[i].seq > socket.watermark
           \/ \E k \in DOMAIN socket.replay : socket.replay[k].id = i

\* The end of a scan that is published while a connection is being set up or
\* is open reaches the client, or the client asks for the status later than
\* that, or the connection closes.  Lost to a connection are events that left
\* the log before it was copied, and those skipped before the client heard of
\* anything.  (open_events_socket)
EndOwed(i) == Owed(i) /\ sent[i].kind = "final"
EndKnown(i) ==
  \/ i \in client.got \/ i < client.refreshed
  \/ socket.pc = "closed" \/ i < socket.oldest \/ i < client.first

EndOfScanReaches ==
  \A i \in 1..(Cardinality(Sessions) * (Updates + 2)) : EndOwed(i) ~> EndKnown(i)
=============================================================================
