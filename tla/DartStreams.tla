----------------------------- MODULE DartStreams -----------------------------
(***************************************************************************)
(* A stream controller of dart:async with its one subscription, as they    *)
(* are compiled into drift_worker.js.  The producer either adds events     *)
(* when it likes, or asks a JavaScript iterator for one after the other    *)
(* (the listing of the OPFS directory); the consumer has callbacks, or is  *)
(* an await-for loop (StreamIterator).                                     *)
(*                                                                         *)
(* The worker has one thread: while a callback runs, only it takes steps,  *)
(* and what it calls may add, pause, resume and cancel.                    *)
(***************************************************************************)
EXTENDS Naturals, Sequences, SequencesExt

CONSTANTS
  MaxEvents,       \* bound on events added
  MaxPauses,       \* bound on pauses at a time
  MaxSignals       \* bound on onPause and onResume calls before a pause

ASSUME StreamsAssumption == {MaxEvents, MaxPauses, MaxSignals} \subseteq Nat

VARIABLES
  stream,      \* the controller, its events, the subscription
  setup,       \* how the parts were made; it does not change
  pull,        \* the request to the JavaScript iterator
  moves,       \* moveNext calls of the await-for loop
  added,       \* history: all events, in the order they were added
  heard,       \* history: events the consumer heard, and pauses meanwhile
  signals      \* history: onPause and onResume calls of the producer

streamVars == <<stream, setup, pull, moves, added, heard, signals>>

-----------------------------------------------------------------------------
Done == <<"done">>
Events == ({"value", "error"} \X (1..MaxEvents)) \cup {Done}

\* sync: StreamController(sync: true).  slow: onCancel returns a future that
\* completes later.
Setups ==
  [sync : BOOLEAN, slow : BOOLEAN, cancelOnError : BOOLEAN,
   pulls : BOOLEAN, iterates : BOOLEAN]

\* closed, listened and canceled are bits of the controller, dispatch is the
\* state of its _PendingEvents (3: the microtask will find nothing to do); the
\* others are bits of the subscription.  firing is the callback that runs, and
\* last an error or done that waits for onCancel.
Stream ==
  [closed : BOOLEAN, listened : BOOLEAN, canceled : BOOLEAN,
   queue : Seq(Events), dispatch : {0, 1, 3},
   inputPaused : BOOLEAN, pauses : 0..MaxPauses, hasPending : BOOLEAN,
   dead : BOOLEAN, waits : BOOLEAN, cleaned : BOOLEAN,
   firing : {"rest", "listening", "event", "last"}, was : BOOLEAN,
   last : Events \cup {<<"none">>}]

StreamsInit ==
  /\ stream = [closed |-> FALSE, listened |-> FALSE, canceled |-> FALSE,
               queue |-> <<>>, dispatch |-> 0,
               inputPaused |-> FALSE, pauses |-> 0, hasPending |-> FALSE,
               dead |-> FALSE, waits |-> FALSE, cleaned |-> TRUE,
               firing |-> "rest", was |-> FALSE,
               last |-> <<"none">>]
  /\ setup \in {s \in Setups :
                  /\ s.pulls => s.sync /\ ~s.slow
                  /\ s.iterates => s.cancelOnError}
  /\ pull = "idle" /\ moves = 0
  /\ added = <<>> /\ heard = <<>> /\ signals = <<>>

-----------------------------------------------------------------------------
(* _PendingEvents and _BufferingStreamSubscription *)

\* schedule: a microtask that was given up is taken up again.
Scheduled(s) == [s EXCEPT !.dispatch = 1]
GivenUp(s) == IF s.dispatch = 1 THEN [s EXCEPT !.dispatch = 3] ELSE s

\* _addPending
Pend(s, event) ==
  LET pended == [s EXCEPT !.queue = Append(@, event), !.hasPending = TRUE]
  IN  IF ~s.hasPending /\ s.pauses = 0 THEN Scheduled(pended) ELSE pended

\* _checkState, behind a callback; was tells whether the input was paused
\* before it.
Unpended(s) ==
  IF s.hasPending /\ s.queue = <<>>
  THEN [s EXCEPT !.hasPending = FALSE,
                 !.inputPaused = @ /\ s.pauses > 0]
  ELSE s

Checked(s) ==
  IF s.dead THEN [Unpended(s) EXCEPT !.queue = <<>>]
  ELSE LET t == Unpended(s)
       IN  IF t.hasPending /\ t.pauses = 0 THEN Scheduled(t) ELSE t

\* The calls of onPause and onResume that _checkState makes.
Signaled(s, was) ==
  LET t == Unpended(s)
  IN  IF s.dead \/ t.inputPaused = was THEN <<>>
      ELSE <<IF t.inputPaused THEN "pause" ELSE "resume">>

\* _cancel: the controller forgets its events, unless a callback is running.
Canceled(s) ==
  LET t == GivenUp(s)
  IN  [t EXCEPT !.dead = TRUE, !.listened = FALSE, !.canceled = TRUE,
                !.queue = IF s.firing = "rest" THEN <<>> ELSE @,
                !.cleaned = IF s.dead THEN @ ELSE ~setup.slow]

\* A subscription that is at rest, and has nothing before an event, tells it
\* at once.
AtOnce(s) == s.firing = "rest" /\ ~s.hasPending /\ s.pauses = 0

\* _sendData: the callback begins.
SendData(s) == [s EXCEPT !.firing = "event", !.was = s.inputPaused]

\* _sendError and _sendDone: an error that cancels, and done, wait for what
\* onCancel returns.
SendError(s, event) ==
  IF setup.cancelOnError
  THEN [Canceled([s EXCEPT !.waits = TRUE]) EXCEPT !.last = event]
  ELSE SendData(s)

SendDone(s) == [Canceled([s EXCEPT !.waits = TRUE]) EXCEPT !.last = Done]

SendEvent(s, event) ==
  CASE event = Done -> SendDone(s)
    [] event[1] = "value" -> SendData(s)
    [] event[1] = "error" -> SendError(s, event)

\* The consumer hears an event when its callback begins.
Hears(s, event) ==
  IF event[1] = "value" \/ (event[1] = "error" /\ ~setup.cancelOnError)
  THEN Append(heard, <<event, s.pauses>>) ELSE heard

-----------------------------------------------------------------------------
(* The producer *)

\* No callback runs, and nothing is half done.
Resting == stream.firing = "rest" /\ pull # "adding"

\* Of an error or done that is due, the callback is called next.
LastDue == stream.last # <<"none">> /\ stream.cleaned /\ stream.firing = "rest"

AtRest == Resting /\ ~LastDue
InCallback == stream.firing # "rest"

\* a plausible mistake: an event passes those that wait
PushAnyway(s, event) ==
  IF setup.sync /\ s.firing = "rest" /\ s.pauses = 0
  THEN <<SendEvent(s, event), Hears(s, event)>> ELSE <<Pend(s, event), heard>>

\* _add, _addError and _close of the subscription.
Push(s, event) ==
  IF setup.sync /\ AtOnce(s) THEN <<SendEvent(s, event), Hears(s, event)>>
  ELSE <<Pend(s, event), heard>>

\* Before there is a listener the controller keeps the events; after a cancel
\* it drops them.
Receive(event) ==
  /\ ~stream.closed
  /\ added' = Append(added, event)
  /\ LET s == [stream EXCEPT !.closed = event = Done]
     IN  IF s.listened
         THEN stream' = Push(s, event)[1] /\ heard' = Push(s, event)[2]
         ELSE /\ stream' = IF s.canceled THEN s
                           ELSE [s EXCEPT !.queue = Append(@, event)]
              /\ UNCHANGED heard

NextEvents == {"value", "error"} \X {Len(added) + 1}

\* A producer that adds when it likes: also from a callback.
AddEvent ==
  /\ ~setup.pulls /\ (AtRest \/ InCallback)
  /\ Len(added) < MaxEvents
  /\ \E event \in NextEvents : Receive(event)
  /\ UNCHANGED <<setup, pull, moves, signals>>

CloseStream ==
  /\ ~setup.pulls /\ (AtRest \/ InCallback)
  /\ Receive(Done)
  /\ UNCHANGED <<setup, pull, moves, signals>>

\* isPaused, as the producer reads it.
IsPaused(s) == IF s.listened THEN s.inputPaused ELSE ~s.canceled

\* The JavaScript iterator answers, with an element or with its end.
Answer ==
  /\ pull = "asked" /\ AtRest
  /\ \/ Len(added) < MaxEvents /\ Receive(<<"value", Len(added) + 1>>)
     \/ Receive(Done)
     \/ stream.closed /\ UNCHANGED <<stream, added, heard>>
  /\ pull' = "adding"
  /\ UNCHANGED <<setup, moves, signals>>

\* It is asked for the next element unless the subscription is paused.
AskNext == pull' = IF stream.closed \/ IsPaused(stream) THEN "idle" ELSE "asked"

Answered ==
  /\ pull = "adding" /\ stream.firing = "rest" /\ ~LastDue
  /\ AskNext
  /\ UNCHANGED <<stream, setup, moves, added, heard, signals>>

\* onPause and onResume of a producer; the latter asks that iterator.
Signals(s, new) ==
  /\ signals' = signals \o new
  /\ pull' = IF setup.pulls /\ new = <<"resume">> /\ pull = "idle" /\ ~IsPaused(s)
             THEN "asked" ELSE pull

-----------------------------------------------------------------------------
(* The consumer *)

\* A stream is listened to once.  What was added meanwhile comes in microtasks.
ListenOnce ==
  /\ AtRest /\ ~stream.listened /\ ~stream.canceled
  /\ LET s == [stream EXCEPT !.listened = TRUE, !.firing = "listening"]
     IN  stream' = IF s.queue = <<>> THEN s
                   ELSE Scheduled([s EXCEPT !.hasPending = TRUE])
  /\ moves' = IF setup.iterates THEN 1 ELSE 0
  /\ pull' = IF setup.pulls THEN "asked" ELSE "idle"
  /\ UNCHANGED <<setup, added, heard, signals>>

Paused(s) ==
  LET t == IF s.pauses = 0 THEN GivenUp(s) ELSE s
  IN  [t EXCEPT !.pauses = @ + 1, !.inputPaused = TRUE]

\* Events that wait come before the producer is resumed.
Resumed(s) ==
  CASE s.pauses # 1 -> [s EXCEPT !.pauses = @ - 1]
    [] s.pauses = 1 /\ s.hasPending /\ s.queue # <<>> ->
         Scheduled([s EXCEPT !.pauses = 0])
    [] s.pauses = 1 /\ ~(s.hasPending /\ s.queue # <<>>) ->
         [s EXCEPT !.pauses = 0, !.inputPaused = FALSE]

\* The producer is told outside callbacks only, where the state is checked once
\* more; behind a callback EndCallback does both.
Turned(s) ==
  IF s.firing # "rest" \/ s.inputPaused = stream.inputPaused
  THEN stream' = s /\ UNCHANGED <<pull, signals>>
  ELSE /\ stream' = Checked(s)
       /\ Signals(Checked(s), <<IF s.inputPaused THEN "pause" ELSE "resume">>)

Active == stream.listened /\ (AtRest \/ InCallback)

PauseSubscription ==
  /\ Active /\ ~setup.iterates /\ stream.pauses < MaxPauses
  /\ Len(signals) < MaxSignals
  /\ Turned(Paused(stream))
  /\ UNCHANGED <<setup, moves, added, heard>>

ResumeSubscription ==
  /\ Active /\ ~setup.iterates /\ stream.pauses > 0
  /\ Turned(Resumed(stream))
  /\ UNCHANGED <<setup, moves, added, heard>>

\* cancel() also calls off an error or done that still waits for onCancel.
CancelSubscription ==
  /\ stream.listened \/ stream.dead
  /\ AtRest \/ InCallback
  /\ stream' = [IF stream.dead THEN stream ELSE Canceled(stream)
                  EXCEPT !.waits = FALSE]
  /\ UNCHANGED <<setup, pull, moves, added, heard, signals>>

\* The await-for loop has an event that it has not gone on from.
Has == setup.iterates /\ moves > 0 /\ moves = Len(heard)

\* moveNext() resumes, if the event was not taken before its callback's end.
MoveNext ==
  /\ Active /\ Has
  /\ moves' = moves + 1
  /\ IF stream.pauses > 0 THEN Turned(Resumed(stream))
     ELSE UNCHANGED <<stream, pull, signals>>
  /\ UNCHANGED <<setup, added, heard>>

\* The loop holds an event: it pauses the stream until moveNext.
Held(s) == IF Has /\ ~s.dead THEN Paused(s) ELSE s

EndCallback ==
  /\ stream.firing \in {"listening", "event"}
  /\ LET s == [Held(stream) EXCEPT !.firing = "rest"]
     IN  stream' = Checked(s) /\ Signals(Checked(s), Signaled(s, stream.was))
  /\ UNCHANGED <<setup, moves, added, heard>>

\* The microtask of _PendingEvents.
Dispatch ==
  /\ stream.dispatch # 0 /\ AtRest
  /\ LET s == [stream EXCEPT !.dispatch = 0]
     IN  IF stream.dispatch = 3 THEN stream' = s /\ UNCHANGED heard
         ELSE /\ stream' = SendEvent([s EXCEPT !.queue = Tail(@)], Head(s.queue))
              /\ heard' = Hears(s, Head(s.queue))
  /\ UNCHANGED <<setup, pull, moves, added, signals>>

\* The future of onCancel completes.
CleanUp ==
  /\ ~stream.cleaned /\ stream.firing = "rest"
  /\ stream' = [stream EXCEPT !.cleaned = TRUE]
  /\ UNCHANGED <<setup, pull, moves, added, heard, signals>>

\* An error that cancels, or done, is told unless cancel() was called.
SendLast ==
  /\ LastDue
  /\ stream' = [stream EXCEPT !.last = <<"none">>,
                              !.firing = IF stream.waits THEN "last" ELSE "rest"]
  /\ heard' = IF stream.waits THEN Append(heard, <<stream.last, stream.pauses>>)
              ELSE heard
  /\ UNCHANGED <<setup, pull, moves, added, signals>>

EndLast ==
  /\ stream.firing = "last"
  /\ stream' = [stream EXCEPT !.firing = "rest"]
  /\ UNCHANGED <<setup, pull, moves, added, heard, signals>>

StreamsNext ==
  \/ AddEvent \/ CloseStream \/ Answer \/ Answered
  \/ ListenOnce \/ PauseSubscription \/ ResumeSubscription \/ CancelSubscription \/ MoveNext
  \/ EndCallback \/ Dispatch \/ CleanUp \/ SendLast \/ EndLast

StreamsSpec == StreamsInit /\ [][StreamsNext]_streamVars

-----------------------------------------------------------------------------
(* Properties *)

\* The state of the stream.
StreamsTypeOK ==
  /\ stream \in Stream /\ setup \in Setups
  /\ pull \in {"idle", "asked", "adding"} /\ moves \in 0..(MaxEvents + 2)
  /\ added \in Seq(Events)
  /\ heard \in Seq(Events \X (0..MaxPauses))
  /\ signals \in Seq({"pause", "resume"})

\* The consumer hears the events in the order they were added, each once and
\* none left out, none while it has paused, and an await-for loop never more
\* than it has asked for.
HeardAsAdded ==
  /\ Len(heard) <= Len(added)
  /\ \A i \in DOMAIN heard : heard[i] = <<added[i], 0>>
  /\ setup.iterates => Len(heard) <= moves

\* The producer is told to pause and to resume in turns.
ToldInTurns ==
  \A i \in DOMAIN signals :
    signals[i] = IF i % 2 = 1 THEN "pause" ELSE "resume"

\* Nothing is stuck: when no callback runs and the consumer has not paused,
\* events that wait have a microtask, and without any the producer is not
\* left paused; the JavaScript iterator has been asked for the next.
NothingStuck ==
  AtRest /\ stream.listened /\ stream.pauses = 0 =>
    IF stream.queue # <<>> THEN stream.dispatch = 1
    ELSE /\ ~stream.inputPaused
         /\ Len(signals) % 2 = 0
         /\ setup.pulls /\ ~stream.closed => pull = "asked"

StreamsDeliver == HeardAsAdded /\ ToldInTurns /\ NothingStuck
=============================================================================
