--------------------------- MODULE DartBroadcasts ---------------------------
(***************************************************************************)
(* The synchronous broadcast controller of dart:async, as it is compiled   *)
(* into drift_worker.js, where it tells the connections of a database      *)
(* server of changed tables.  It calls its listeners one after the other;  *)
(* they may cancel, themselves or others, and listen meanwhile.  None of   *)
(* them pauses (DartStreams has what a subscription that pauses does).     *)
(***************************************************************************)
EXTENDS Naturals, Integers, Sequences, SequencesExt

CONSTANTS
  Listeners,       \* subscriptions, each is used once
  MaxFired,        \* bound on events
  MaxLatePauses    \* bound on pauses of a late subscription

ASSUME BroadcastsAssumption == {MaxFired, MaxLatePauses} \subseteq Nat

VARIABLES
  order,       \* the list of subscriptions
  listener,    \* each of them
  controller,  \* the bits of the controller, and the event that is told
  turn,        \* the subscription whose callback runs
  hooks,       \* history: calls of onListen and onCancel
  late         \* a subscription that comes when the controller is closed

broadcastVars == <<order, listener, controller, turn, hooks, late>>

-----------------------------------------------------------------------------
Nobody == "nobody"

\* parity, firing and leaves are the bits of _eventState; since is the number
\* of events before it has listened, got those it was told (history).
ListenerRecord ==
  [on : {"new", "on", "off"}, parity : BOOLEAN, firing : BOOLEAN,
   leaves : BOOLEAN, since : 0..MaxFired, got : Seq(1..MaxFired)]

\* alone: the event goes to the only subscription, without the parity bits.
Controller ==
  [parity : BOOLEAN, firing : BOOLEAN, alone : BOOLEAN, closed : BOOLEAN,
   closing : BOOLEAN, fired : 0..MaxFired, done : BOOLEAN]

\* state and tasks of a _DoneStreamSubscription; paused and told are history.
Late ==
  [state : Int, tasks : Nat, paused : Nat, told : Nat, canceled : BOOLEAN]

BroadcastsInit ==
  /\ order = <<>>
  /\ listener = [l \in Listeners |->
                   [on |-> "new", parity |-> FALSE, firing |-> FALSE,
                    leaves |-> FALSE, since |-> 0, got |-> <<>>]]
  /\ controller = [parity |-> FALSE, firing |-> FALSE, alone |-> FALSE,
                   closed |-> FALSE, closing |-> FALSE, fired |-> 0,
                   done |-> FALSE]
  /\ turn = Nobody
  /\ hooks = <<>>
  /\ late = [state |-> -1, tasks |-> 0, paused |-> 0, told |-> 0,
             canceled |-> FALSE]

-----------------------------------------------------------------------------
\* Between two callbacks the loop over the list goes on by itself.
MayCall == ~controller.firing \/ turn # Nobody

\* a plausible mistake: a new subscription takes part in the event being told
OldParity == IF controller.firing THEN ~controller.parity ELSE controller.parity
\* A new subscription has the parity of those that were told already.
NewParity == controller.parity

\* The first subscription calls onListen.
Subscribe(l) ==
  /\ MayCall /\ ~controller.closed /\ listener[l].on = "new"
  /\ listener' = [listener EXCEPT ![l].on = "on", ![l].parity = NewParity,
                                  ![l].since = controller.fired]
  /\ order' = Append(order, l)
  /\ hooks' = IF order = <<>> THEN Append(hooks, "listen") ELSE hooks
  /\ UNCHANGED <<controller, turn, late>>

\* _callOnCancel: also completes the future of close().
NoneLeft(c) ==
  /\ hooks' = Append(hooks, "cancel")
  /\ controller' = [c EXCEPT !.done = @ \/ c.closed]

\* A subscription that is being told leaves when its callback is over.
Unsubscribe(l) ==
  /\ MayCall /\ listener[l].on = "on"
  /\ IF listener[l].firing
     THEN /\ listener' = [listener EXCEPT ![l].leaves = TRUE]
          /\ UNCHANGED <<order, hooks, controller>>
     ELSE /\ listener' = [listener EXCEPT ![l].on = "off"]
          /\ order' = Remove(order, l)
          /\ IF order' = <<>> /\ ~controller.firing
             THEN NoneLeft(controller) ELSE UNCHANGED <<hooks, controller>>
  /\ UNCHANGED <<turn, late>>

\* The callback of l begins.  Done makes a subscription cancel itself.
CallingBack(l, c) ==
  [listener EXCEPT
     ![l].firing = ~c.alone,
     ![l].got = IF c.closing THEN @ ELSE Append(@, c.fired),
     ![l].leaves = @ \/ (c.closing /\ ~c.alone)]

\* _forEachListener: it tells those whose parity is that of before.
Fire(c) ==
  LET first == Head(order)
  IN  /\ controller' = c
      /\ turn' = first /\ listener' = CallingBack(first, c)
      /\ UNCHANGED <<order, hooks, late>>

\* add: nobody can while an event is told.  One subscription is told directly.
Broadcast ==
  /\ ~controller.firing /\ ~controller.closed
  /\ controller.fired < MaxFired
  /\ LET alone == Len(order) = 1
         c == [controller EXCEPT !.fired = @ + 1]
     IN  IF order = <<>>
         THEN controller' = c /\ UNCHANGED <<order, listener, turn, hooks, late>>
         ELSE Fire([c EXCEPT !.firing = TRUE, !.alone = alone,
                             !.parity = IF alone THEN @ ELSE ~@])

CloseBroadcast ==
  /\ ~controller.firing /\ ~controller.closed
  /\ LET c == [controller EXCEPT !.closed = TRUE]
     IN  IF order = <<>>
         THEN /\ controller' = [c EXCEPT !.done = TRUE]
              /\ UNCHANGED <<order, listener, turn, hooks, late>>
         ELSE Fire([c EXCEPT !.firing = TRUE, !.closing = TRUE,
                             !.alone = FALSE, !.parity = ~@])

\* Those behind a place in the list that have not been told.
Untold(place) ==
  {i \in place..Len(order) : listener[order[i]].parity # controller.parity}

Least(numbers) == CHOOSE n \in numbers : \A m \in numbers : n <= m

\* The callback is over: its subscription leaves if it was canceled, and the
\* next one in the list, as it is now, is told.
Return ==
  /\ turn # Nobody
  /\ LET place == IF controller.alone THEN Len(order)
                  ELSE Least({i \in DOMAIN order : order[i] = turn})
         left == listener[turn].leaves
         told == [listener EXCEPT
                    ![turn].parity = IF controller.alone THEN @ ELSE ~@,
                    ![turn].firing = FALSE, ![turn].leaves = FALSE,
                    ![turn].on = IF left THEN "off" ELSE @]
         rest == IF controller.alone THEN {} ELSE Untold(place + 1)
         after == [controller EXCEPT !.firing = FALSE, !.alone = FALSE]
     IN  /\ order' = IF left THEN Remove(order, turn) ELSE order
         /\ IF rest # {}
            THEN LET next == order[Least(rest)]
                 IN  /\ turn' = next
                     /\ listener' =
                          [told EXCEPT
                             ![next] = CallingBack(next, controller)[next]]
                     /\ UNCHANGED <<controller, hooks>>
            ELSE /\ turn' = Nobody /\ listener' = told
                 /\ IF order' = <<>> THEN NoneLeft(after)
                    ELSE controller' = after /\ UNCHANGED hooks
  /\ UNCHANGED late

-----------------------------------------------------------------------------
(* _DoneStreamSubscription: a listener of a closed controller is told done *)
(* in a microtask, unless it has paused.                                   *)

LateListen ==
  /\ MayCall /\ controller.closed
  /\ late.state = -1 /\ late.told = 0 /\ ~late.canceled
  /\ late' = [late EXCEPT !.state = 1, !.tasks = 1]
  /\ UNCHANGED <<order, listener, controller, turn, hooks>>

LatePause ==
  /\ MayCall /\ late.state >= 0 /\ late.paused < MaxLatePauses
  /\ late' = [late EXCEPT !.state = @ + 2, !.paused = @ + 1]
  /\ UNCHANGED <<order, listener, controller, turn, hooks>>

\* A microtask that is still to come will do.
NewTask(state) == IF state = 0 THEN 1 ELSE 0

LateResume ==
  /\ MayCall /\ late.state >= 2
  /\ LET state == late.state - 2
     IN  late' = [late EXCEPT !.paused = @ - 1,
                              !.state = IF state = 0 THEN 1 ELSE state,
                              !.tasks = @ + NewTask(state)]
  /\ UNCHANGED <<order, listener, controller, turn, hooks>>

LateCancel ==
  /\ MayCall /\ late.state >= 0
  /\ late' = [late EXCEPT !.state = -1, !.canceled = TRUE]
  /\ UNCHANGED <<order, listener, controller, turn, hooks>>

LateTask ==
  /\ ~controller.firing /\ late.tasks > 0
  /\ late' = IF late.state = 1
             THEN [late EXCEPT !.tasks = @ - 1, !.state = -1, !.told = @ + 1]
             ELSE [late EXCEPT !.tasks = @ - 1, !.state = @ - 1]
  /\ UNCHANGED <<order, listener, controller, turn, hooks>>

BroadcastsNext ==
  \/ Broadcast \/ CloseBroadcast \/ Return
  \/ \E l \in Listeners : Subscribe(l) \/ Unsubscribe(l)
  \/ LateListen \/ LatePause \/ LateResume \/ LateCancel \/ LateTask

BroadcastsSpec == BroadcastsInit /\ [][BroadcastsNext]_broadcastVars

-----------------------------------------------------------------------------
(* Properties *)

\* The state of the controller and its subscriptions.
BroadcastsTypeOK ==
  /\ order \in Seq(Listeners)
  /\ listener \in [Listeners -> ListenerRecord]
  /\ controller \in Controller
  /\ turn \in Listeners \cup {Nobody}
  /\ hooks \in Seq({"listen", "cancel"})
  /\ late \in Late

\* Each subscription is told every event since it has listened, in order and
\* none twice, up to the one told now or to its cancel, whoever came and went
\* in callbacks meanwhile.
EachToldAll ==
  \A l \in Listeners :
    LET r == listener[l]
    IN  /\ \A i \in DOMAIN r.got : r.got[i] = r.since + i
        /\ r.on = "on" /\ ~controller.firing => r.since + Len(r.got) = controller.fired
        /\ r.since + Len(r.got) <= controller.fired
        /\ r.on = "on" /\ ~r.leaves => r.since + Len(r.got) >= controller.fired - 1

\* onCancel comes once for each time that the listeners have gone, onListen at
\* least once before it; when nothing is being told the last call says whether
\* there are listeners, and close() completes when the last one has gone.
OwnerKnows ==
  /\ \A i \in DOMAIN hooks :
       hooks[i] = "cancel" => i > 1 /\ hooks[i - 1] = "listen"
  /\ ~controller.firing =>
       /\ order = <<>> <=> hooks = <<>> \/ Last(hooks) = "cancel"
       /\ controller.closed => order = <<>> /\ controller.done

\* A late listener is told done once, not while it has paused or when it has
\* canceled, and is not left without a microtask.
LateToldOnce ==
  /\ late.told <= 1 /\ late.tasks <= 1
  /\ late.told = 1 => late.paused = 0 /\ ~late.canceled
  /\ late.state = 1 => late.tasks = 1

BroadcastReaches == EachToldAll /\ OwnerKnows /\ LateToldOnce
=============================================================================
