----------------------------- MODULE DartFutures -----------------------------
(***************************************************************************)
(* The futures and the microtask loop of the library dart:async, as they   *)
(* are compiled into drift_worker.js: every await, completer and message   *)
(* handler of the worker runs on them.                                     *)
(*                                                                         *)
(* A call of the library runs to its end, and tells listeners on its way,  *)
(* so an operator takes the state of all futures (a heap) and returns the  *)
(* one after the call.  A result is numbered by the future that had it     *)
(* first.                                                                  *)
(***************************************************************************)
EXTENDS Naturals, Sequences, SequencesExt

CONSTANTS
  MaxFutures,      \* bound on futures
  MaxListeners     \* bound on listeners

ASSUME FuturesAssumption == {MaxFutures, MaxListeners} \subseteq Nat

VARIABLES
  heap,        \* the futures and the tasks
  loop         \* the microtask loop: idle, scheduled or running

futureVars == <<heap, loop>>

-----------------------------------------------------------------------------
FutureIds == 1..MaxFutures
Numbers == 1..MaxListeners

\* What is in the fields a and c of a _Future: nothing yet, a completion that
\* is scheduled, another future that it is chained to, a value or an error.
Results == {<<"none">>, <<"pending">>}
             \cup ({"chained", "value", "error"} \X FutureIds)

\* What the callback of a listener does.
Deeds == {<<"value">>, <<"throw">>} \cup ({"returns"} \X FutureIds)

\* A _FutureListener, and the number it was added as.  "pass" is the one
\* whenComplete adds to the future its callback returns.
Listener ==
  [kind : {"then", "thenError", "whenDone", "pass", "await", "wait"},
   to : FutureIds, does : Deeds, no : 0..MaxListeners]

\* The listeners of a _Future are in the order of its list: the last is first.
\* left and failed are what Future.wait counts for its future.
Future ==
  [result : Results, listeners : Seq(Listener), completer : BOOLEAN,
   left : 0..MaxListeners, failed : Results]

Task ==
  ({"tell"} \X FutureIds \X Seq(Listener))
    \cup ({"settle"} \X FutureIds \X Results)
    \cup ({"adopt"} \X FutureIds \X FutureIds)
    \cup ({"rethrow"} \X Results)

Heap ==
  [futures : Seq(Future), tasks : Seq(Task), urgent : Nat,
   asked : Seq(FutureIds \X {"then", "thenError", "whenDone", "await", "wait"}), told : Seq(Numbers \X Results),
   uncaught : Seq(Results)]

NewFuture ==
  [result |-> <<"none">>, listeners |-> <<>>, completer |-> FALSE,
   left |-> 0, failed |-> <<"none">>]

FuturesInit ==
  /\ heap = [futures |-> <<>>, tasks |-> <<>>, urgent |-> 0,
             asked |-> <<>>, told |-> <<>>, uncaught |-> <<>>]
  /\ loop = "idle"

-----------------------------------------------------------------------------
Result(h, f) == h.futures[f].result
Open(h, f) == Result(h, f)[1] \in {"none", "pending"}
Chained(h, f) == Result(h, f)[1] = "chained"
Settled(h, f) == Result(h, f)[1] \in {"value", "error"}

SetResult(h, f, result) == [h EXCEPT !.futures[f].result = result]
Schedule(h, task) == [h EXCEPT !.tasks = Append(@, task)]

\* The microtask that throws an uncaught error goes before all others, behind
\* those that were put there since the running task has begun.
Report(h, error) ==
  [h EXCEPT !.tasks = InsertAt(@, h.urgent + 1, <<"rethrow", error>>),
            !.urgent = @ + 1]

\* A listener that is added to, or moves to, a future that is chained goes to
\* the source; one on a settled future is told in a microtask.
RECURSIVE Attach(_, _, _)
Attach(h, f, listeners) ==
  CASE listeners = <<>> -> h
    [] Open(h, f) ->
         [h EXCEPT !.futures[f].listeners = listeners \o @]
    [] Chained(h, f) ->
         LET source == Result(h, f)[2]
         IN  IF Settled(h, source)
             THEN Schedule(SetResult(h, f, Result(h, source)),
                           <<"tell", f, Reverse(listeners)>>)
             ELSE Attach(h, source, listeners)
    [] OTHER -> Schedule(h, <<"tell", f, Reverse(listeners)>>)

RECURSIVE Source(_, _)
Source(h, f) == IF Chained(h, f) THEN Source(h, Result(h, f)[2]) ELSE f

SettleLater(h, f, result) ==
  Schedule(SetResult(h, f, <<"pending">>), <<"settle", f, result>>)

\* a plausible mistake: the listeners are told in the order of the list
TakenAsListed(h, f) == h.futures[f].listeners
\* The listeners of a future, in the order they were added.
Taken(h, f) == Reverse(h.futures[f].listeners)

\* Nobody listens: an error is uncaught.
TellNobody(h, f) ==
  IF Result(h, f)[1] = "error" THEN Report(h, Result(h, f)) ELSE h

RECURSIVE Tell(_, _, _), Settle(_, _, _), Chain(_, _, _, _), Notify(_, _, _)

\* The result of f goes to listeners, one after the other.
Tell(h, f, listeners) ==
  IF listeners = <<>> THEN TellNobody(h, f)
  ELSE LET told == Notify(h, f, Head(listeners))
       IN  IF Len(listeners) = 1 THEN told ELSE Tell(told, f, Tail(listeners))

Settle(h, f, result) ==
  LET settled ==
        [h EXCEPT !.futures[f].result = result, !.futures[f].listeners = <<>>]
  IN  Tell(settled, f, Taken(h, f))

\* f takes over the result of g, when g has one.
Chain(h, g, f, sync) ==
  LET source == Source(h, g)
  IN  CASE source = f -> SettleLater(h, f, <<"error", f>>)
        [] ~Settled(h, source) /\ source # f ->
             Attach([h EXCEPT !.futures[f].result = <<"chained", source>>,
                              !.futures[f].listeners = <<>>],
                    source, h.futures[f].listeners)
        [] Settled(h, source) ->
             IF \/ sync
                \/ h.futures[f].listeners = <<>> /\ Result(h, source)[1] = "value"
             THEN Settle(h, f, Result(h, source))
             ELSE Schedule(SetResult(h, f, <<"pending">>), <<"adopt", source, f>>)

\* What a callback did completes the future of its listener.
Deliver(h, f, deed) ==
  CASE deed[1] = "value" -> Settle(h, f, <<"value", f>>)
    [] deed[1] = "throw" -> Settle(h, f, <<"error", f>>)
    [] deed[1] = "returns" ->
         IF Settled(h, deed[2]) THEN Settle(h, f, Result(h, deed[2]))
         ELSE Chain(h, deed[2], f, TRUE)

\* The callback of whenComplete decides over its future only with an error.
DeliverAfter(h, f, source, deed) ==
  CASE deed[1] = "value" -> Settle(h, f, Result(h, source))
    [] deed[1] = "throw" -> Settle(h, f, <<"error", f>>)
    [] deed[1] = "returns" /\ Settled(h, deed[2]) ->
         Settle(h, f, IF Result(h, deed[2])[1] = "error"
                      THEN Result(h, deed[2]) ELSE Result(h, source))
    [] deed[1] = "returns" /\ ~Settled(h, deed[2]) ->
         Attach(h, deed[2], <<[kind |-> "pass", to |-> f, no |-> 0,
                               does |-> <<"returns", source>>]>>)

\* Future.wait: the last of its futures completes it, with the first error.
CountDown(h, f, result) ==
  LET left == h.futures[f].left - 1
      failed == IF h.futures[f].failed = <<"none">> /\ result[1] = "error"
                THEN result ELSE h.futures[f].failed
      counted == [h EXCEPT !.futures[f].left = left, !.futures[f].failed = failed]
  IN  CASE left > 0 -> counted
        [] left = 0 /\ failed = <<"none">> -> Settle(counted, f, <<"value", f>>)
        [] left = 0 /\ failed # <<"none">> -> Settle(counted, f, failed)

\* An async function goes on behind its await, and returns or throws.
GoOn(h, l, result) ==
  CASE result[1] = "error" -> Settle(h, l.to, result)
    [] l.does[1] = "returns" -> Chain(h, l.does[2], l.to, FALSE)
    [] OTHER -> Deliver(h, l.to, l.does)

CalledBack(h, l, result) ==
  IF l.no = 0 THEN h ELSE [h EXCEPT !.told = Append(@, <<l.no, result>>)]

Notify(h, f, l) ==
  LET result == Result(h, f)
      called == CalledBack(h, l, result)
  IN  CASE l.kind = "await" -> GoOn(called, l, result)
        [] l.kind = "wait" -> CountDown(called, l.to, result)
        [] l.kind = "whenDone" -> DeliverAfter(called, l.to, f, l.does)
        [] l.kind = "pass" ->
             Settle(called, l.to, IF result[1] = "error" THEN result
                                  ELSE Result(h, l.does[2]))
        [] l.kind = "then" /\ result[1] = "error" -> Settle(h, l.to, result)
        [] l.kind = "thenError" \/ (l.kind = "then" /\ result[1] = "value") ->
             Deliver(called, l.to, l.does)

-----------------------------------------------------------------------------
(* What the worker does with the library, between two tasks or in one *)

Ids == DOMAIN heap.futures
RoomForOne == Len(heap.futures) < MaxFutures
NewId == Len(heap.futures) + 1
MayListen(n) == Len(heap.asked) + n <= MaxListeners

Created(h, future) == [h EXCEPT !.futures = Append(@, future)]

Asks(h, f, kind, to, does) ==
  Attach([h EXCEPT !.asked = Append(@, <<f, kind>>)], f,
         <<[kind |-> kind, to |-> to, does |-> does, no |-> Len(h.asked) + 1]>>)

\* The first task schedules the loop, a running one goes on by itself.
Does(h) ==
  /\ heap' = h
  /\ loop' = IF loop = "idle" /\ h.tasks # <<>> THEN "scheduled" ELSE loop

\* new Completer()
NewCompleter ==
  /\ RoomForOne
  /\ Does(Created(heap, [NewFuture EXCEPT !.completer = TRUE]))

\* Completer.complete with a value or a future, of one that completes its
\* future in a microtask, or of a synchronous one.
Complete(f) ==
  /\ heap.futures[f].completer /\ Result(heap, f) = <<"none">>
  /\ \/ Does(SettleLater(heap, f, <<"value", f>>))
     \/ Does(Settle(heap, f, <<"value", f>>))
     \/ \E g \in Ids : \E sync \in BOOLEAN : Does(Chain(heap, g, f, sync))

CompleteError(f) ==
  /\ heap.futures[f].completer /\ Result(heap, f) = <<"none">>
  /\ \/ Does(SettleLater(heap, f, <<"error", f>>))
     \/ Does(Settle(heap, f, <<"error", f>>))

\* then, with a handler of errors or without, and whenComplete.
ListenTo(f) ==
  /\ RoomForOne /\ MayListen(1)
  /\ \E kind \in {"then", "thenError", "whenDone"} :
       \E does \in {<<"value">>, <<"throw">>} \cup ({"returns"} \X Ids) :
         Does(Asks(Created(heap, NewFuture), f, kind, NewId, does))

\* A call of an async function that awaits f.
AwaitIn(f) ==
  /\ RoomForOne /\ MayListen(1)
  /\ \E does \in {<<"value">>, <<"throw">>} \cup ({"returns"} \X Ids) :
       Does(Asks(Created(heap, NewFuture), f, "await", NewId, does))

\* A call of an async function that awaits nothing completes its future later.
CallAsync ==
  /\ RoomForOne
  /\ LET h == Created(heap, NewFuture)
     IN  \/ Does(SettleLater(h, NewId, <<"value", NewId>>))
         \/ Does(SettleLater(h, NewId, <<"error", NewId>>))
         \/ \E g \in Ids : Does(Chain(h, g, NewId, FALSE))

\* Future.wait of two futures.
Wait(f, g) ==
  /\ RoomForOne /\ MayListen(2)
  /\ LET h == Created(heap, [NewFuture EXCEPT !.left = 2])
     IN  Does(Asks(Asks(h, f, "wait", NewId, <<"value">>),
                   g, "wait", NewId, <<"value">>))

StartLoop ==
  /\ loop = "scheduled"
  /\ loop' = "running" /\ UNCHANGED heap

Run(h, task) ==
  CASE task[1] = "tell" -> Tell(h, task[2], task[3])
    [] task[1] = "settle" -> Settle(h, task[2], task[3])
    [] task[1] = "adopt" -> Chain(h, task[2], task[3], TRUE)
    [] task[1] = "rethrow" -> [h EXCEPT !.uncaught = Append(@, task[2])]

\* The loop takes the next task.  An error that a task throws ends the loop,
\* which is scheduled again for the other tasks.
RunTask ==
  /\ loop = "running"
  /\ LET task == Head(heap.tasks)
     IN  /\ heap' = Run([heap EXCEPT !.tasks = Tail(@), !.urgent = 0], task)
         /\ loop' = CASE heap'.tasks = <<>> -> "idle"
                      [] heap'.tasks # <<>> /\ task[1] = "rethrow" -> "scheduled"
                      [] heap'.tasks # <<>> /\ task[1] # "rethrow" -> "running"

FuturesNext ==
  \/ NewCompleter \/ CallAsync
  \/ \E f \in Ids : Complete(f) \/ CompleteError(f) \/ ListenTo(f) \/ AwaitIn(f)
  \/ \E f, g \in Ids : Wait(f, g)
  \/ StartLoop \/ RunTask

FuturesFairness == WF_futureVars(StartLoop) /\ WF_futureVars(RunTask)

FuturesSpec == FuturesInit /\ [][FuturesNext]_futureVars /\ FuturesFairness

-----------------------------------------------------------------------------
(* Properties *)

\* The state of the futures and of the loop.
FuturesTypeOK == heap \in Heap /\ loop \in {"idle", "scheduled", "running"}

\* What the futures asked by listener n has come to.
Outcome(n) == Result(heap, Source(heap, heap.asked[n][1]))

ToldPlaces(n) == {i \in DOMAIN heap.told : heap.told[i][1] = n}

\* No listener is told twice, each is told the outcome of the future it was
\* added to, through all chains, and the listeners of one future are told in
\* the order they were added (_Future._propagateToListeners).
ListenersToldInOrder ==
  /\ \A n \in DOMAIN heap.asked :
       \A i, j \in ToldPlaces(n) : i = j /\ heap.told[i][2] = Outcome(n)
  /\ \A i, j \in DOMAIN heap.told :
       i < j /\ heap.asked[heap.told[i][1]][1] = heap.asked[heap.told[j][1]][1]
         => heap.told[i][1] < heap.told[j][1]

\* When no task is left, every listener of a settled future has been told (one
\* without a handler of errors only of a value), and no error is lost: a
\* callback has got it or it has been reported as uncaught.
NothingLeftUntold ==
  heap.tasks = <<>> =>
    /\ \A n \in DOMAIN heap.asked :
         \/ ToldPlaces(n) # {}
         \/ Outcome(n)[1] \in {"none", "chained"}
         \/ heap.asked[n][2] = "then" /\ Outcome(n)[1] = "error"
    /\ \A f \in Ids :
         Result(heap, f)[1] = "error" =>
           \/ Result(heap, f) \in ToSet(heap.uncaught)
           \/ \E i \in DOMAIN heap.told : heap.told[i][2] = Result(heap, f)

\* Tasks wait only for a loop that is on its way.
LoopOnItsWay == heap.tasks # <<>> <=> loop # "idle"

FuturesTell == ListenersToldInOrder /\ NothingLeftUntold /\ LoopOnItsWay
=============================================================================
