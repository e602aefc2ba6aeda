---------------------------- MODULE ClientProofs ----------------------------
(***************************************************************************)
(* Proofs about HttpClient, for every finite set of requests, every policy *)
(* and every number of expiries: types, that the queue of errors loses     *)
(* none and handles none twice, and how often a request is sent at most.   *)
(* And about WorkspaceStore, for every number of scans and taps and every  *)
(* size of the buffer: types, and that no event reopens an ended session.  *)
(***************************************************************************)
EXTENDS HttpClient, WorkspaceStore, FiniteSetTheorems, FoldLemmas

(* The inductive invariant of the HTTP client. *)

Handled == {"refreshing", "refreshed", "resent"}
Waiting == {"queued"} \cup Handled

\* An error that is thrown is caught by a handler that has a frame.
Framed(r) == r.pc = "retry" => r.frames # <<>>

InQueue(c) == \E i \in DOMAIN errorQueue : errorQueue[i] = c

\* A request is in the queue while it waits or is handled, in one place, and
\* is handled only at the head.
QueueInv ==
  \A c \in Calls :
    /\ InQueue(c) <=> call[c].pc \in Waiting
    /\ \A i, j \in DOMAIN errorQueue : errorQueue[i] = c /\ errorQueue[j] = c => i = j
    /\ call[c].pc \in Handled => errorQueue # <<>> /\ Head(errorQueue) = c

Inv == HttpTypeOK /\ (\A c \in Calls : Framed(call[c])) /\ QueueInv

-----------------------------------------------------------------------------
LEMMA AttemptCounts == MaxAttempts \in Nat /\ 0 \in 0..MaxAttempts
<1>1. MaxAttempts \in 1..10
  BY HttpAssumption
<1>2. QED
  BY <1>1

LEMMA InitInv == HttpInit => Inv
<1> SUFFICES ASSUME HttpInit PROVE Inv
  OBVIOUS
<1>1. NewCall \in CallRecord /\ NewCall.pc = "idle"
  BY AttemptCounts DEF NewCall, CallRecord
<1>2. HttpTypeOK
  <2>1. call \in [Calls -> CallRecord] /\ sends \in [Calls -> Nat]
    BY <1>1 DEF HttpInit
  <2>2. errorQueue \in Seq(Calls \cup {RefreshError})
    BY DEF HttpInit
  <2>3. savedToken = 1 /\ expired = 0
    BY DEF HttpInit
  <2>4. delegate \in Delegates /\ loggedOut \in BOOLEAN
    BY DEF HttpInit
  <2>5. QED
    BY <2>1, <2>2, <2>3, <2>4 DEF HttpTypeOK
<1>3. \A c \in Calls : Framed(call[c])
  BY <1>1 DEF HttpInit, Framed
<1>4. QueueInv
  BY <1>1 DEF HttpInit, QueueInv, InQueue, Waiting, Handled
<1>5. QED
  BY <1>2, <1>3, <1>4 DEF Inv

\* What a step does not say of the queue, and of one request.
Steps(c, r) ==
  /\ r \in CallRecord /\ Framed(r)
  /\ call' = [call EXCEPT ![c] = r]
  /\ savedToken' \in Nat \ {0} /\ expired' \in Nat
  /\ delegate' = delegate /\ loggedOut' \in BOOLEAN
  /\ sends' \in [Calls -> Nat]

LEMMA StepsTyped ==
  ASSUME Inv, NEW c \in Calls, NEW r, Steps(c, r),
         errorQueue' \in Seq(Calls \cup {RefreshError})
  PROVE  /\ HttpTypeOK' /\ \A d \in Calls : Framed(call'[d])
         /\ \A d \in Calls : call'[d] = IF d = c THEN r ELSE call[d]
<1>1. \A d \in Calls : call'[d] = IF d = c THEN r ELSE call[d]
  BY DEF Steps, Inv, HttpTypeOK
<1>2. \A d \in Calls : Framed(call'[d])
  BY <1>1 DEF Steps, Inv
<1>3. HttpTypeOK'
  BY DEF Steps, Inv, HttpTypeOK
<1>4. QED
  BY <1>1, <1>2, <1>3

\* The queue stays as it is.
LEMMA StaysInv ==
  ASSUME Inv, NEW c \in Calls, NEW r, Steps(c, r), errorQueue' = errorQueue,
         r.pc \in Waiting <=> call[c].pc \in Waiting,
         r.pc \in Handled => errorQueue # <<>> /\ Head(errorQueue) = c
  PROVE  Inv'
<1>1. /\ HttpTypeOK' /\ \A d \in Calls : Framed(call'[d])
      /\ \A d \in Calls : call'[d] = IF d = c THEN r ELSE call[d]
  BY StepsTyped DEF Inv, HttpTypeOK
<1>2. QueueInv'
  BY <1>1 DEF Inv, QueueInv, InQueue
<1>3. QED
  BY <1>1, <1>2 DEF Inv

\* Where things are in a queue that grows by one.
LEMMA Appended ==
  ASSUME NEW S, NEW q \in Seq(S), NEW x \in S
  PROVE  LET p == Append(q, x)
         IN  /\ p \in Seq(S) /\ p # <<>>
             /\ DOMAIN p = DOMAIN q \cup {Len(q) + 1}
             /\ Len(q) + 1 \notin DOMAIN q
             /\ p[Len(q) + 1] = x
             /\ \A i \in DOMAIN q : p[i] = q[i]
             /\ q # <<>> => Head(p) = Head(q)
<1> DEFINE p == Append(q, x)
<1>1. /\ p \in Seq(S) /\ Len(p) = Len(q) + 1 /\ Len(q) \in Nat
      /\ p[Len(q) + 1] = x /\ \A i \in 1..Len(q) : p[i] = q[i]
  OBVIOUS
<1>2. DOMAIN q = 1..Len(q) /\ DOMAIN p = 1..(Len(q) + 1)
  BY <1>1
<1>3. p # <<>> /\ DOMAIN p = DOMAIN q \cup {Len(q) + 1} /\ Len(q) + 1 \notin DOMAIN q
  BY <1>1, <1>2
<1>4. q # <<>> => Head(p) = Head(q)
  OBVIOUS
<1>5. QED
  BY <1>1, <1>2, <1>3, <1>4

\* Where things are in a queue without its head.
LEMMA HeadTaken ==
  ASSUME NEW S, NEW q \in Seq(S), q # <<>>
  PROVE  /\ Tail(q) \in Seq(S)
         /\ 1 \in DOMAIN q /\ q[1] = Head(q)
         /\ \A i \in DOMAIN Tail(q) : /\ i + 1 \in DOMAIN q /\ i + 1 # 1
                                      /\ i \in Nat /\ Tail(q)[i] = q[i + 1]
         /\ \A i \in DOMAIN q \ {1} : /\ i - 1 \in DOMAIN Tail(q)
                                      /\ Tail(q)[i - 1] = q[i]
OBVIOUS

\* The error of a request is put at the end.
LEMMA QueuedInv ==
  ASSUME Inv, NEW c \in Calls, NEW r, Steps(c, r),
         errorQueue' = Append(errorQueue, c),
         call[c].pc \notin Waiting, r.pc = "queued"
  PROVE  Inv'
<1> DEFINE last == Len(errorQueue) + 1
<1>1. /\ errorQueue' \in Seq(Calls \cup {RefreshError}) /\ errorQueue' # <<>>
      /\ DOMAIN errorQueue' = DOMAIN errorQueue \cup {last}
      /\ last \notin DOMAIN errorQueue /\ errorQueue'[last] = c
      /\ \A i \in DOMAIN errorQueue : errorQueue'[i] = errorQueue[i]
      /\ errorQueue # <<>> => Head(errorQueue') = Head(errorQueue)
  BY Appended DEF Inv, HttpTypeOK
<1> HIDE DEF last
<1>2. /\ HttpTypeOK' /\ \A d \in Calls : Framed(call'[d])
      /\ \A d \in Calls : call'[d] = IF d = c THEN r ELSE call[d]
  BY <1>1, StepsTyped
<1>3. \A d \in Calls : InQueue(d)' <=> InQueue(d) \/ d = c
  BY <1>1 DEF InQueue
<1>4. ~InQueue(c)
  BY DEF Inv, QueueInv
<1>5. QueueInv'
  <2> SUFFICES ASSUME NEW d \in Calls
               PROVE  /\ InQueue(d)' <=> call'[d].pc \in Waiting
                      /\ \A i, j \in DOMAIN errorQueue' :
                           errorQueue'[i] = d /\ errorQueue'[j] = d => i = j
                      /\ call'[d].pc \in Handled =>
                           errorQueue' # <<>> /\ Head(errorQueue') = d
    BY DEF QueueInv
  <2>1. CASE d = c
    BY <1>1, <1>2, <1>3, <1>4, <2>1 DEF InQueue, Waiting, Handled
  <2>2. CASE d # c
    BY <1>1, <1>2, <1>3, <2>2 DEF Inv, QueueInv
  <2>3. QED
    BY <2>1, <2>2
<1>6. QED
  BY <1>2, <1>5 DEF Inv

\* The head of the queue has been handled.
LEMMA HandledInv ==
  ASSUME Inv, NEW c \in Calls, NEW r, Steps(c, r),
         errorQueue # <<>>, Head(errorQueue) = c,
         errorQueue' = Tail(errorQueue), r.pc \notin Waiting
  PROVE  Inv'
<1>1. /\ errorQueue' \in Seq(Calls \cup {RefreshError})
      /\ 1 \in DOMAIN errorQueue /\ errorQueue[1] = c
      /\ \A i \in DOMAIN errorQueue' :
           i + 1 \in DOMAIN errorQueue /\ i + 1 # 1 /\ i \in Nat
           /\ errorQueue'[i] = errorQueue[i + 1]
      /\ \A i \in DOMAIN errorQueue \ {1} :
           i - 1 \in DOMAIN errorQueue' /\ errorQueue'[i - 1] = errorQueue[i]
  BY HeadTaken DEF Inv, HttpTypeOK
<1>2. /\ HttpTypeOK' /\ \A d \in Calls : Framed(call'[d])
      /\ \A d \in Calls : call'[d] = IF d = c THEN r ELSE call[d]
  BY <1>1, StepsTyped
<1>3. ~InQueue(c)'
  BY <1>1 DEF InQueue, Inv, QueueInv
<1>4. QueueInv'
  <2> SUFFICES ASSUME NEW d \in Calls
               PROVE  /\ InQueue(d)' <=> call'[d].pc \in Waiting
                      /\ \A i, j \in DOMAIN errorQueue' :
                           errorQueue'[i] = d /\ errorQueue'[j] = d => i = j
                      /\ call'[d].pc \in Handled =>
                           errorQueue' # <<>> /\ Head(errorQueue') = d
    BY DEF QueueInv
  <2>1. CASE d = c
    BY <1>2, <1>3, <2>1, SMTT(20) DEF InQueue, Waiting
  <2>2. CASE d # c
    <3>1. InQueue(d)' <=> InQueue(d)
      BY <1>1, <2>2, ZenonT(60) DEF InQueue
    <3>2. \A i, j \in DOMAIN errorQueue' :
            errorQueue'[i] = d /\ errorQueue'[j] = d => i = j
      <4> TAKE i, j \in DOMAIN errorQueue'
      <4>1. errorQueue'[i] = d /\ errorQueue'[j] = d => i + 1 = j + 1
        BY <1>1 DEF Inv, QueueInv
      <4>2. i \in Nat /\ j \in Nat
        BY <1>1
      <4>3. QED
        BY <4>1, <4>2
    <3>3. call[d].pc \notin Handled
      BY <2>2 DEF Inv, QueueInv
    <3>4. QED
      BY <1>2, <2>2, <3>1, <3>2, <3>3 DEF Inv, QueueInv
  <2>3. QED
    BY <2>1, <2>2
<1>5. QED
  BY <1>2, <1>4 DEF Inv

-----------------------------------------------------------------------------
(* The requests. *)

LEMMA ThrownTyped ==
  ASSUME NEW r \in CallRecord, NEW code \in {"401", "500", "other", "none"}
  PROVE  /\ Thrown(r, code) \in CallRecord /\ Framed(Thrown(r, code))
         /\ Thrown(r, code).pc \notin Waiting
BY DEF Thrown, CallRecord, Framed, Waiting, Handled

LEMMA Typed ==
  ASSUME Inv, NEW c \in Calls
  PROVE  /\ call[c] \in CallRecord /\ sends[c] \in Nat
         /\ sends \in [Calls -> Nat] /\ loggedOut \in BOOLEAN
         /\ savedToken \in Nat \ {0} /\ expired \in Nat
         /\ DOMAIN call = Calls
BY DEF Inv, HttpTypeOK

LEMMA SendCallInv ==
  ASSUME Inv, NEW c \in Calls, SendCall(c)
  PROVE  Inv'
<1> DEFINE r == [call[c] EXCEPT !.pc = "sent", !.token = savedToken]
<1>1. call' = [call EXCEPT ![c] = r] /\ errorQueue' = errorQueue
  BY Typed DEF SendCall
<1>2. /\ r \in CallRecord /\ Framed(r) /\ r.pc \notin Waiting
      /\ call[c].pc \notin Waiting
  BY Typed DEF SendCall, CallRecord, Framed, Waiting, Handled
<1>3. sends' \in [Calls -> Nat] /\ UNCHANGED <<savedToken, expired, delegate, loggedOut>>
  BY Typed DEF SendCall
<1> HIDE DEF r
<1>4. Steps(c, r)
  BY <1>1, <1>2, <1>3, Typed DEF Steps
<1>5. QED
  BY <1>1, <1>2, <1>4, StaysInv DEF Waiting

LEMMA SucceedInv ==
  ASSUME Inv, NEW c \in Calls, Succeed(c)
  PROVE  Inv'
<1> DEFINE r == [call[c] EXCEPT !.pc = "ok"]
<1>1. call' = [call EXCEPT ![c] = r] /\ errorQueue' = errorQueue
  BY Typed DEF Succeed
<1>2. /\ r \in CallRecord /\ Framed(r) /\ r.pc \notin Waiting
      /\ call[c].pc \notin Waiting
  BY Typed DEF Succeed, CallRecord, Framed, Waiting, Handled
<1>3. Steps(c, r)
  BY <1>1, <1>2, Typed DEF Steps, Succeed
<1> HIDE DEF r
<1>4. QED
  BY <1>1, <1>2, <1>3, StaysInv DEF Waiting

LEMMA FailInv ==
  ASSUME Inv, NEW c \in Calls, Fail(c)
  PROVE  Inv'
<1>1. PICK code \in {"401", "500"} :
        call' = [call EXCEPT ![c].pc = "queued", ![c].code = code]
  BY DEF Fail
<1> DEFINE r == [call[c] EXCEPT !.pc = "queued", !.code = code]
<1>2. call' = [call EXCEPT ![c] = r] /\ errorQueue' = Append(errorQueue, c)
  BY <1>1, Typed DEF Fail
<1>3. /\ r \in CallRecord /\ Framed(r) /\ r.pc = "queued"
      /\ call[c].pc \notin Waiting
  BY Typed, ZenonT(60) DEF Fail, CallRecord, Framed, Waiting, Handled
<1>4. Steps(c, r)
  BY <1>2, <1>3, Typed DEF Steps, Fail
<1> HIDE DEF r
<1>5. QED
  BY <1>2, <1>3, <1>4, QueuedInv

LEMMA ExpireInv ==
  ASSUME Inv, Expire
  PROVE  Inv'
<1>1. HttpTypeOK'
  BY DEF Inv, HttpTypeOK, Expire
<1>2. QED
  BY <1>1 DEF Inv, QueueInv, InQueue, Expire

(* The refresh interceptor. *)

LEMMA PassOnInv ==
  ASSUME Inv, NEW c \in Calls, PassOn(c)
  PROVE  Inv'
<1> DEFINE r == [call[c] EXCEPT !.pc = "retry",
                                !.frames = Append(@, call[c].attempt)]
<1>1. /\ call' = [call EXCEPT ![c] = r] /\ errorQueue' = Tail(errorQueue)
      /\ errorQueue # <<>> /\ Head(errorQueue) = c
  BY Typed DEF PassOn, Handles
<1>2. call[c].frames \in Seq(Nat) /\ call[c].attempt \in Nat
  BY Typed, AttemptCounts DEF CallRecord
<1>3. /\ Append(call[c].frames, call[c].attempt) \in Seq(Nat)
      /\ Append(call[c].frames, call[c].attempt) # <<>>
  BY <1>2
<1>4. r \in CallRecord /\ Framed(r) /\ r.pc \notin Waiting
  BY <1>3, Typed DEF CallRecord, Framed, Waiting, Handled
<1>5. Steps(c, r)
  BY <1>1, <1>4, Typed DEF Steps, PassOn
<1> HIDE DEF r
<1>6. QED
  BY <1>1, <1>4, <1>5, HandledInv

\* An error that is thrown by the handler of the refresh interceptor.
LEMMA ThrowsInv ==
  ASSUME Inv, NEW c \in Calls,
         RefuseAgain(c) \/ RefreshRefused(c) \/ RefreshThrows(c) \/ ResendFails(c)
  PROVE  Inv'
<1>1. PICK code \in {"401", "500", "other", "none"} :
        call' = [call EXCEPT ![c] = Thrown(call[c], code)]
  BY Typed DEF RefuseAgain, RefreshRefused, RefreshThrows, ResendFails
<1> DEFINE r == Thrown(call[c], code)
<1>2. r \in CallRecord /\ Framed(r) /\ r.pc \notin Waiting
  BY Typed, ThrownTyped
<1>3. /\ errorQueue # <<>> /\ Head(errorQueue) = c
      /\ errorQueue' = Tail(errorQueue)
  BY DEF RefuseAgain, RefreshRefused, RefreshThrows, ResendFails, Handles
<1>4. /\ savedToken' = savedToken /\ expired' = expired /\ delegate' = delegate
      /\ sends' = sends /\ loggedOut' \in BOOLEAN
  BY Typed DEF RefuseAgain, RefreshRefused, RefreshThrows, ResendFails
<1>5. Steps(c, r)
  BY <1>1, <1>2, <1>4, Typed DEF Steps
<1> HIDE DEF r
<1>6. QED
  BY <1>2, <1>3, <1>5, HandledInv

\* The steps of a handler that keeps the head of the queue.
LEMMA RefreshStepsInv ==
  ASSUME Inv, NEW c \in Calls, BeginRefresh(c) \/ Refresh(c) \/ Resend(c)
  PROVE  Inv'
<1>1. PICK pc \in Handled, refreshed \in BOOLEAN, token \in Nat :
        call' = [call EXCEPT ![c] = [call[c] EXCEPT
                   !.pc = pc, !.refreshed = refreshed, !.token = token]]
  <2>1. /\ call[c] \in CallRecord /\ call[c].refreshed \in BOOLEAN
        /\ call[c].token \in Nat /\ savedToken \in Nat /\ DOMAIN call = Calls
    BY Typed DEF CallRecord
  <2>2. CASE BeginRefresh(c) \/ Refresh(c)
    <3>1. PICK pc \in Handled : call' = [call EXCEPT ![c].pc = pc]
      BY <2>2 DEF BeginRefresh, Refresh, Handled
    <3>2. [call[c] EXCEPT !.pc = pc] = [call[c] EXCEPT
             !.pc = pc, !.refreshed = call[c].refreshed, !.token = call[c].token]
      BY <2>1 DEF CallRecord
    <3>3. QED
      BY <2>1, <3>1, <3>2
  <2>3. CASE Resend(c)
    <3>1. call' = [call EXCEPT ![c] = [call[c] EXCEPT
             !.pc = "resent", !.refreshed = TRUE, !.token = savedToken]]
      BY <2>1, <2>3 DEF Resend
    <3>2. QED
      BY <2>1, <3>1 DEF Handled
  <2>4. QED
    BY <2>2, <2>3
<1> DEFINE r == [call[c] EXCEPT !.pc = pc, !.refreshed = refreshed, !.token = token]
<1>2. /\ r \in CallRecord /\ Framed(r) /\ r.pc \in Handled
      /\ call[c].pc \in Waiting
  BY Typed, ZenonT(60) DEF CallRecord, Framed, Waiting, Handled, BeginRefresh,
               Refresh, Resend, Handles
<1>3. /\ errorQueue # <<>> /\ Head(errorQueue) = c
      /\ errorQueue' = errorQueue
  BY DEF BeginRefresh, Refresh, Resend, Handles
<1>4. /\ savedToken' \in Nat \ {0} /\ expired' = expired /\ delegate' = delegate
      /\ sends' = sends /\ loggedOut' = loggedOut
  BY Typed DEF BeginRefresh, Refresh, Resend
<1>5. Steps(c, r)
  BY <1>1, <1>2, <1>4, Typed DEF Steps
<1> HIDE DEF r
<1>6. QED
  BY <1>2, <1>3, <1>5, StaysInv DEF Waiting

LEMMA RefreshFailsInClientInv ==
  ASSUME Inv, NEW c \in Calls, RefreshFailsInClient(c)
  PROVE  Inv'
<1> DEFINE last == Len(errorQueue) + 1
<1>1. /\ errorQueue' \in Seq(Calls \cup {RefreshError}) /\ errorQueue' # <<>>
      /\ DOMAIN errorQueue' = DOMAIN errorQueue \cup {last}
      /\ errorQueue'[last] = RefreshError
      /\ \A i \in DOMAIN errorQueue : errorQueue'[i] = errorQueue[i]
      /\ errorQueue # <<>> => Head(errorQueue') = Head(errorQueue)
  <2>1. errorQueue \in Seq(Calls \cup {RefreshError})
    BY DEF Inv, HttpTypeOK
  <2>2. errorQueue' = Append(errorQueue, RefreshError)
    BY DEF RefreshFailsInClient
  <2>3. QED
    BY <2>1, <2>2, Appended
<1> HIDE DEF last
<1>2. HttpTypeOK'
  BY <1>1 DEF RefreshFailsInClient, Inv, HttpTypeOK
<1>3. \A d \in Calls : d # RefreshError
  BY HttpAssumption
<1>4. \A d \in Calls : InQueue(d)' <=> InQueue(d)
  BY <1>1, <1>3 DEF InQueue
<1>5. call' = call
  BY DEF RefreshFailsInClient
<1>6. QueueInv'
  BY <1>1, <1>3, <1>4, <1>5 DEF Inv, QueueInv
<1>7. QED
  BY <1>2, <1>5, <1>6 DEF Inv

LEMMA ResendSucceedsInv ==
  ASSUME Inv, NEW c \in Calls, ResendSucceeds(c)
  PROVE  Inv'
<1> DEFINE r == [call[c] EXCEPT !.pc = "ok"]
<1>1. /\ call' = [call EXCEPT ![c] = r] /\ errorQueue' = Tail(errorQueue)
      /\ errorQueue # <<>> /\ Head(errorQueue) = c
  BY Typed DEF ResendSucceeds, Handles
<1>2. r \in CallRecord /\ Framed(r) /\ r.pc \notin Waiting
  BY Typed DEF CallRecord, Framed, Waiting, Handled
<1>3. Steps(c, r)
  BY <1>1, <1>2, Typed DEF Steps, ResendSucceeds
<1> HIDE DEF r
<1>4. QED
  BY <1>1, <1>2, <1>3, HandledInv

(* The retry interceptor. *)

LEMMA FrontTyped ==
  ASSUME NEW frames \in Seq(Nat), frames # <<>>
  PROVE  /\ Front(frames) \in Seq(Nat)
         /\ Last(frames) \in Nat
BY DEF Front, Last

LEMMA RetryInv ==
  ASSUME Inv, NEW c \in Calls, Retry(c)
  PROVE  Inv'
<1> DEFINE attempt == Last(call[c].frames) + 1
           frames == Append(Front(call[c].frames), attempt)
           r == [call[c] EXCEPT !.pc = "sent", !.attempt = attempt,
                                !.frames = frames]
<1>1. /\ call' = [call EXCEPT ![c] = r] /\ errorQueue' = errorQueue
      /\ call[c].pc = "retry" /\ attempt < MaxAttempts
  BY Typed DEF Retry, ShouldRetry
<1>2. call[c].frames \in Seq(Nat) /\ call[c].frames # <<>>
  BY <1>1, Typed DEF Inv, Framed, CallRecord
<1>3. Last(call[c].frames) \in Nat /\ Front(call[c].frames) \in Seq(Nat)
  BY <1>2, FrontTyped
<1>4. attempt \in 0..MaxAttempts
  BY <1>1, <1>3, AttemptCounts
<1>5. frames \in Seq(Nat)
  BY <1>3
<1>6. sends' \in [Calls -> Nat] /\ UNCHANGED <<savedToken, expired, delegate, loggedOut>>
  BY Typed DEF Retry
<1> HIDE DEF attempt, frames
<1>7. /\ r \in CallRecord /\ Framed(r) /\ r.pc \notin Waiting
      /\ call[c].pc \notin Waiting
  BY <1>1, <1>4, <1>5, Typed DEF CallRecord, Framed, Waiting, Handled
<1>8. Steps(c, r)
  BY <1>1, <1>6, <1>7, Typed DEF Steps
<1> HIDE DEF r
<1>9. QED
  BY <1>1, <1>7, <1>8, StaysInv DEF Waiting

LEMMA GiveUpInv ==
  ASSUME Inv, NEW c \in Calls, GiveUp(c)
  PROVE  Inv'
<1> DEFINE caught == [call[c] EXCEPT !.frames = Front(@)]
           r == Thrown(caught, call[c].code)
<1>1. /\ call' = [call EXCEPT ![c] = r] /\ errorQueue' = errorQueue
      /\ call[c].pc = "retry"
  BY Typed DEF GiveUp
<1>2. call[c].frames \in Seq(Nat) /\ call[c].frames # <<>>
  BY <1>1, Typed DEF Inv, Framed, CallRecord
<1>3. caught \in CallRecord
  BY <1>2, FrontTyped, Typed DEF CallRecord
<1>4. call[c].code \in {"401", "500", "other", "none"}
  BY Typed DEF CallRecord
<1>5. UNCHANGED <<savedToken, expired, delegate, loggedOut, sends>>
  BY DEF GiveUp
<1> HIDE DEF caught
<1>6. /\ r \in CallRecord /\ Framed(r) /\ r.pc \notin Waiting
      /\ call[c].pc \notin Waiting
  BY <1>1, <1>3, <1>4, ThrownTyped DEF Waiting, Handled
<1>7. Steps(c, r)
  BY <1>1, <1>5, <1>6, Typed DEF Steps
<1> HIDE DEF r
<1>8. QED
  BY <1>1, <1>6, <1>7, StaysInv DEF Waiting

-----------------------------------------------------------------------------
LEMMA NextInv == Inv /\ [HttpNext]_httpVars => Inv'
<1> SUFFICES ASSUME Inv, [HttpNext]_httpVars PROVE Inv'
  OBVIOUS
<1>1. ASSUME NEW c \in Calls, CallStep(c) PROVE Inv'
  BY <1>1, SendCallInv, SucceedInv, FailInv, PassOnInv, ThrowsInv,
     RefreshStepsInv, RefreshFailsInClientInv, ResendSucceedsInv, RetryInv,
     GiveUpInv DEF CallStep
<1>2. CASE UNCHANGED httpVars
  BY <1>2 DEF httpVars, Inv, HttpTypeOK, QueueInv, InQueue
<1>3. QED
  BY <1>1, <1>2, ExpireInv DEF HttpNext

THEOREM Invariant == HttpSpec => []Inv
BY InitInv, NextInv, PTL DEF HttpSpec

\* The types of the requests and their extras; attempts keep to the policy.
THEOREM TypeCorrect == HttpSpec => []HttpTypeOK
<1>1. Inv => HttpTypeOK
  BY DEF Inv
<1>2. QED
  BY Invariant, <1>1, PTL

\* Every error that waits for DioTokenRefreshInterceptor is in its queue once,
\* and only the head is handled.
THEOREM QueueLosesNone == HttpSpec => []QueueHoldsErrors
<1>1. Inv => QueueHoldsErrors
  <2> SUFFICES ASSUME Inv, NEW c \in Calls
               PROVE  LET places == {i \in DOMAIN errorQueue : errorQueue[i] = c}
                      IN  /\ Cardinality(places) =
                               IF call[c].pc \in {"queued", "refreshing", "refreshed", "resent"}
                               THEN 1 ELSE 0
                          /\ call[c].pc \in {"refreshing", "refreshed", "resent"} =>
                               Head(errorQueue) = c
    BY DEF QueueHoldsErrors
  <2> DEFINE places == {i \in DOMAIN errorQueue : errorQueue[i] = c}
  <2>1. CASE InQueue(c)
    <3>1. PICK i \in DOMAIN errorQueue : errorQueue[i] = c
      BY <2>1 DEF InQueue
    <3>2. places = {i}
      BY <3>1 DEF Inv, QueueInv
    <3>3. Cardinality(places) = 1
      BY <3>2, FS_Singleton
    <3>4. QED
      BY <2>1, <3>3 DEF Inv, QueueInv, Waiting, Handled
  <2>2. CASE ~InQueue(c)
    <3>1. places = {}
      BY <2>2 DEF InQueue
    <3>2. Cardinality(places) = 0
      BY <3>1, FS_EmptySet
    <3>3. QED
      BY <2>2, <3>2 DEF Inv, QueueInv, Waiting, Handled
  <2>3. QED
    BY <2>1, <2>2
<1>2. QED
  BY Invariant, <1>1, PTL
-----------------------------------------------------------------------------
(* How often a request is sent. *)

\* How many requests come of one with this attempt, all that fail: itself, and
\* those of the handler that catches its error, which starts the later ones.
Sent(attempt) == 2 ^ (MaxAttempts - 1 - attempt)
Later(attempt) == Sent(attempt) - 1

\* A handler is at an attempt of the policy, and an inner one is further on.
\* Where it has just caught the error of its own attempt, it is one behind.
FramesInv(r) ==
  /\ r.frames \in Seq(0..(MaxAttempts - 1))
  /\ \A i \in DOMAIN r.frames :
       /\ i - 1 <= r.frames[i]
       /\ i < Len(r.frames) \/ r.pc # "retry" => i <= r.frames[i]

Active == {"idle", "sent"} \cup Waiting

AttemptInv(r) ==
  r.pc \in Active => Len(r.frames) <= r.attempt /\ r.attempt <= MaxAttempts - 1

\* The requests that the handlers of frames may still start: the last of the
\* sums s[i] of the first i handlers.
Sums(frames, s) ==
  /\ s \in [0..Len(frames) -> Nat]
  /\ s[0] = 0
  /\ \A i \in DOMAIN frames : s[i] = s[i - 1] + Later(frames[i])

Owed(frames, n) == \E s : Sums(frames, s) /\ n = s[Len(frames)]

\* The requests that come of the one that is under way.
Own(r) ==
  CASE r.pc = "idle" -> Sent(r.attempt)
    [] r.pc \in Active \ {"idle"} -> Later(r.attempt)
    [] OTHER -> 0

\* What was sent and what may still be sent is within what the policy allows.
Budget(r, n) == \E m \in Nat : Owed(r.frames, m) /\ n + Own(r) + m <= Sent(0)

\* A request that was not sent yet has no handlers.
Bounded(r, n) ==
  /\ r.pc = "idle" => r.attempt = 0 /\ r.frames = <<>>
  /\ FramesInv(r) /\ AttemptInv(r) /\ Budget(r, n)

BoundInv == \A c \in Calls : Bounded(call[c], sends[c])

LEMMA Doubling ==
  \A k \in 0..9 : 2 ^ k \in Nat \ {0} /\ 2 ^ (k + 1) = 2 * (2 ^ k)
<1>1. /\ 2 ^ 0 = 1 /\ 2 ^ 1 = 2 /\ 2 ^ 2 = 4 /\ 2 ^ 3 = 8 /\ 2 ^ 4 = 16
      /\ 2 ^ 5 = 32 /\ 2 ^ 6 = 64 /\ 2 ^ 7 = 128 /\ 2 ^ 8 = 256
      /\ 2 ^ 9 = 512 /\ 2 ^ 10 = 1024
  OBVIOUS
<1> SUFFICES ASSUME NEW k \in 0..9
             PROVE  2 ^ k \in Nat \ {0} /\ 2 ^ (k + 1) = 2 * (2 ^ k)
  OBVIOUS
<1>2. \/ k = 0 \/ k = 1 \/ k = 2 \/ k = 3 \/ k = 4
      \/ k = 5 \/ k = 6 \/ k = 7 \/ k = 8 \/ k = 9
  OBVIOUS
<1>3. CASE k = 0
  BY <1>1, <1>3
<1>4. CASE k = 1
  BY <1>1, <1>4
<1>5. CASE k = 2
  BY <1>1, <1>5
<1>6. CASE k = 3
  BY <1>1, <1>6
<1>7. CASE k = 4
  BY <1>1, <1>7
<1>8. CASE k = 5
  BY <1>1, <1>8
<1>9. CASE k = 6
  BY <1>1, <1>9
<1>10. CASE k = 7
  BY <1>1, <1>10
<1>11. CASE k = 8
  BY <1>1, <1>11
<1>12. CASE k = 9
  BY <1>1, <1>12
<1>13. QED
  BY <1>2, <1>3, <1>4, <1>5, <1>6, <1>7, <1>8, <1>9, <1>10, <1>11, <1>12

\* The later attempts of a request are the next one and those after it.
LEMMA Attempts ==
  /\ MaxAttempts - 1 \in Nat
  /\ \A a \in 0..(MaxAttempts - 1) : Sent(a) \in Nat \ {0} /\ Later(a) \in Nat
  /\ \A a \in 0..(MaxAttempts - 1) :
       a + 1 <= MaxAttempts - 1 => Later(a) = 1 + Later(a + 1) + Later(a + 1)
<1>1. MaxAttempts \in 1..10
  BY HttpAssumption
<1>2. ASSUME NEW a \in 0..(MaxAttempts - 1)
      PROVE  Sent(a) \in Nat \ {0} /\ Later(a) \in Nat
  <2>1. PICK k \in 0..9 : k = MaxAttempts - 1 - a
    BY <1>1
  <2>2. Sent(a) = 2 ^ k
    BY <2>1 DEF Sent
  <2>3. Sent(a) \in Nat \ {0}
    BY <2>2, Doubling
  <2>4. QED
    BY <2>3 DEF Later
<1>3. ASSUME NEW a \in 0..(MaxAttempts - 1), a + 1 <= MaxAttempts - 1
      PROVE  Later(a) = 1 + Later(a + 1) + Later(a + 1)
  <2>1. PICK k \in 0..9 : k = MaxAttempts - 1 - (a + 1)
    BY <1>1, <1>3
  <2>2. k + 1 = MaxAttempts - 1 - a
    BY <1>1, <2>1
  <2>3. Sent(a) = 2 ^ (k + 1) /\ Sent(a + 1) = 2 ^ k
    BY <2>1, <2>2 DEF Sent
  <2>4. Sent(a + 1) \in Nat /\ Sent(a) = 2 * Sent(a + 1)
    BY <2>3, Doubling
  <2>5. QED
    BY <2>4 DEF Later
<1>4. QED
  BY <1>1, <1>2, <1>3

(* What the handlers owe, as they come and go. *)

LEMMA NothingOwed == Owed(<<>>, 0)
<1>1. Sums(<<>>, [i \in 0..0 |-> 0])
  BY DEF Sums
<1>2. QED
  BY <1>1 DEF Owed

LEMMA OwesMore ==
  ASSUME NEW frames \in Seq(0..(MaxAttempts - 1)), NEW m, Owed(frames, m),
         NEW a \in 0..(MaxAttempts - 1)
  PROVE  Owed(Append(frames, a), m + Later(a)) /\ m \in Nat
<1>1. PICK s : Sums(frames, s) /\ m = s[Len(frames)]
  BY DEF Owed
<1>2. Len(frames) \in Nat /\ m \in Nat
  BY <1>1 DEF Sums
<1>3. Later(a) \in Nat
  BY Attempts
<1> DEFINE more == Append(frames, a)
           t == [i \in 0..(Len(frames) + 1) |->
                   IF i = Len(frames) + 1 THEN m + Later(a) ELSE s[i]]
<1>4. /\ Len(more) = Len(frames) + 1 /\ more[Len(frames) + 1] = a
      /\ DOMAIN more = 1..(Len(frames) + 1) /\ DOMAIN frames = 1..Len(frames)
      /\ \A i \in 1..Len(frames) : more[i] = frames[i]
  OBVIOUS
<1> HIDE DEF more
<1>5. t \in [0..Len(more) -> Nat] /\ t[0] = 0
  BY <1>1, <1>2, <1>3, <1>4 DEF Sums
<1>6. ASSUME NEW i \in DOMAIN more
      PROVE  t[i] = t[i - 1] + Later(more[i])
  <2>1. CASE i = Len(frames) + 1
    <3>1. t[i] = m + Later(a) /\ t[i - 1] = s[Len(frames)]
      BY <1>2, <2>1
    <3>2. QED
      BY <1>1, <1>4, <2>1, <3>1
  <2>2. CASE i # Len(frames) + 1
    <3>1. i \in DOMAIN frames /\ i \in 1..Len(frames)
      BY <1>4, <2>2
    <3>2. t[i] = s[i] /\ t[i - 1] = s[i - 1]
      BY <1>2, <3>1
    <3>3. QED
      BY <1>1, <1>4, <3>1, <3>2 DEF Sums
  <2>3. QED
    BY <2>1, <2>2
<1>7. t[Len(more)] = m + Later(a)
  BY <1>2, <1>4
<1> HIDE DEF t
<1>8. Sums(more, t)
  BY <1>5, <1>6 DEF Sums
<1>9. QED
  BY <1>2, <1>7, <1>8 DEF Owed, more

LEMMA ElementOf ==
  ASSUME NEW S, NEW q \in Seq(S), NEW i \in DOMAIN q
  PROVE  q[i] \in S /\ i \in Nat /\ i <= Len(q)
OBVIOUS

\* The numbers of FramesInv.
LEMMA FrameNumbers ==
  ASSUME NEW r, FramesInv(r)
  PROVE  \A i \in DOMAIN r.frames :
           /\ i \in Nat /\ r.frames[i] \in 0..(MaxAttempts - 1)
           /\ r.frames[i] \in Nat /\ i - 1 <= r.frames[i]
           /\ i < Len(r.frames) \/ r.pc # "retry" => i <= r.frames[i]
<1> SUFFICES ASSUME NEW i \in DOMAIN r.frames
             PROVE  /\ i \in Nat /\ r.frames[i] \in 0..(MaxAttempts - 1)
                    /\ r.frames[i] \in Nat /\ i - 1 <= r.frames[i]
                    /\ i < Len(r.frames) \/ r.pc # "retry" => i <= r.frames[i]
  OBVIOUS
<1>1. i \in Nat /\ r.frames[i] \in 0..(MaxAttempts - 1)
  BY ElementOf DEF FramesInv
<1>2. r.frames[i] \in Nat
  BY <1>1
<1>3. QED
  BY <1>1, <1>2 DEF FramesInv

LEMMA FrontOfFrames ==
  ASSUME NEW S, NEW frames \in Seq(S), frames # <<>>
  PROVE  /\ Front(frames) \in Seq(S) /\ Last(frames) \in S
         /\ Len(frames) \in Nat \ {0} /\ Len(Front(frames)) = Len(frames) - 1
         /\ Last(frames) = frames[Len(frames)]
         /\ DOMAIN frames = 1..Len(frames)
         /\ DOMAIN Front(frames) = 1..(Len(frames) - 1)
         /\ \A i \in 1..(Len(frames) - 1) : Front(frames)[i] = frames[i]
<1>1. Len(frames) \in Nat \ {0} /\ DOMAIN frames = 1..Len(frames)
  OBVIOUS
<1>2. PICK n \in Nat : n = Len(frames) - 1
  <2>1. Len(frames) - 1 \in Nat
    BY <1>1
  <2>2. QED
    BY <2>1
<1>3. Front(frames) = SubSeq(frames, 1, n) /\ n + 1 = Len(frames)
  BY <1>1, <1>2 DEF Front
<1>4. \A i \in 1..n : frames[i] \in S
  BY <1>1, <1>2
<1>5. SubSeq(frames, 1, n) = [i \in 1..n |-> frames[i]]
  BY <1>1, <1>3
<1>6. Front(frames) \in Seq(S) /\ Len(Front(frames)) = n
  BY <1>3, <1>4, <1>5
<1>7. DOMAIN Front(frames) = 1..n /\ \A i \in 1..n : Front(frames)[i] = frames[i]
  BY <1>3, <1>5
<1>8. Last(frames) = frames[Len(frames)] /\ Last(frames) \in S
  BY <1>1 DEF Last
<1>9. QED
  BY <1>1, <1>2, <1>6, <1>7, <1>8

LEMMA OwesLess ==
  ASSUME NEW frames \in Seq(0..(MaxAttempts - 1)), frames # <<>>,
         NEW m, Owed(frames, m)
  PROVE  \E k \in Nat : Owed(Front(frames), k) /\ m = k + Later(Last(frames))
<1>1. PICK s : Sums(frames, s) /\ m = s[Len(frames)]
  BY DEF Owed
<1>2. PICK n \in Nat : n = Len(frames) - 1
  OBVIOUS
<1> DEFINE t == [i \in 0..n |-> s[i]]
<1>3. Len(frames) = n + 1 /\ n + 1 \in DOMAIN frames
  BY <1>2, FrontOfFrames
<1>4. Len(Front(frames)) = n /\ DOMAIN Front(frames) = 1..n
      /\ \A i \in 1..n : Front(frames)[i] = frames[i] /\ i \in DOMAIN frames
  BY <1>2, FrontOfFrames
<1>5. t \in [0..n -> Nat] /\ t[0] = 0 /\ t[n] = s[n] /\ s[n] \in Nat
  BY <1>1, <1>3, SMTT(20) DEF Sums
<1>6. \A i \in 1..n : t[i] = t[i - 1] + Later(Front(frames)[i])
  BY <1>1, <1>4, SMTT(30) DEF Sums
<1>7. Sums(Front(frames), t)
  BY <1>4, <1>5, <1>6 DEF Sums
<1>8. m = s[n] + Later(Last(frames))
  <2>1. s[n + 1] = s[(n + 1) - 1] + Later(frames[n + 1])
    BY <1>1, <1>3 DEF Sums
  <2>2. (n + 1) - 1 = n
    OBVIOUS
  <2>3. Last(frames) = frames[n + 1]
    BY <1>3 DEF Last
  <2>4. QED
    BY <1>1, <1>3, <2>1, <2>2, <2>3
<1>9. QED
  BY <1>4, <1>5, <1>7, <1>8 DEF Owed

-----------------------------------------------------------------------------
LEMMA InitBound == HttpInit => BoundInv
<1> SUFFICES ASSUME HttpInit, NEW c \in Calls PROVE Bounded(call[c], sends[c])
  BY DEF BoundInv
<1>1. call[c] = NewCall /\ sends[c] = 0
  BY DEF HttpInit
<1>2. /\ NewCall.pc = "idle" /\ NewCall.attempt = 0 /\ NewCall.frames = <<>>
  BY DEF NewCall
<1>3. FramesInv(NewCall) /\ AttemptInv(NewCall)
  BY <1>2, Attempts DEF FramesInv, AttemptInv
<1>4. Own(NewCall) = Sent(0) /\ Sent(0) \in Nat
  BY <1>2, Attempts DEF Own
<1>5. Budget(NewCall, 0)
  BY <1>2, <1>4, NothingOwed DEF Budget
<1>6. QED
  BY <1>1, <1>2, <1>3, <1>5 DEF Bounded

\* A step of one request leaves the others alone.
LEMMA OthersBounded ==
  ASSUME Inv, BoundInv, NEW c \in Calls, NEW r, NEW n,
         call' = [call EXCEPT ![c] = r], sends' = [sends EXCEPT ![c] = n],
         Bounded(r, n)
  PROVE  BoundInv'
<1> SUFFICES ASSUME NEW d \in Calls PROVE Bounded(call'[d], sends'[d])
  BY DEF BoundInv
<1>1. DOMAIN call = Calls /\ DOMAIN sends = Calls
  BY DEF Inv, HttpTypeOK
<1>2. CASE d = c
  BY <1>1, <1>2
<1>3. CASE d # c
  BY <1>1, <1>3 DEF BoundInv
<1>4. QED
  BY <1>2, <1>3

LEMMA SameSends ==
  ASSUME Inv, NEW c \in Calls
  PROVE  sends = [sends EXCEPT ![c] = sends[c]]
BY DEF Inv, HttpTypeOK

\* What is owed is a number, and so is what comes of a request under way.
LEMMA Counts ==
  ASSUME Inv, BoundInv, NEW c \in Calls
  PROVE  /\ sends[c] \in Nat /\ Sent(0) \in Nat /\ Own(call[c]) \in Nat
         /\ call[c].attempt \in Nat
         /\ call[c].pc \in Active => call[c].attempt \in 0..(MaxAttempts - 1)
<1>1. sends[c] \in Nat /\ call[c].attempt \in Nat
  BY Typed DEF CallRecord
<1>2. AttemptInv(call[c]) /\ FramesInv(call[c])
  BY DEF BoundInv, Bounded
<1>3. MaxAttempts - 1 \in Nat
  BY Attempts
<1>4. call[c].pc \in Active => call[c].attempt \in 0..(MaxAttempts - 1)
  BY <1>1, <1>2, <1>3 DEF AttemptInv
<1>5. Sent(0) \in Nat
  BY Attempts
<1>6. Own(call[c]) \in Nat
  BY <1>4, Attempts DEF Own, Active
<1>7. QED
  BY <1>1, <1>4, <1>5, <1>6

\* The steps of a request that keep its attempt and its handlers, or end it,
\* or throw its error: nothing more is sent for it.
LEMMA Settles ==
  ASSUME Inv, BoundInv, NEW c \in Calls, NEW r,
         call[c].pc \in Active \ {"idle"},
         r.pc # "idle", r.attempt = call[c].attempt, r.frames = call[c].frames
  PROVE  Bounded(r, sends[c])
<1> DEFINE q == call[c]
<1>1. Bounded(q, sends[c])
  BY DEF BoundInv
<1>2. FramesInv(r) /\ AttemptInv(r)
  <2>1. q.pc # "retry" /\ q.pc \in Active
    BY DEF Active, Waiting, Handled
  <2>2. FramesInv(q) /\ AttemptInv(q)
    BY <1>1 DEF Bounded
  <2> HIDE DEF q
  <2>3. FramesInv(r)
    BY <2>1, <2>2 DEF FramesInv, q
  <2>4. QED
    BY <2>1, <2>2, <2>3 DEF AttemptInv, q
<1>3. PICK m \in Nat : Owed(q.frames, m) /\ sends[c] + Own(q) + m <= Sent(0)
  BY <1>1 DEF Bounded, Budget
<1>4. Own(r) = Own(q) \/ Own(r) = 0
  BY DEF Own
<1>5. sends[c] + Own(r) + m <= Sent(0)
  BY <1>3, <1>4, Counts
<1>6. Budget(r, sends[c])
  BY <1>3, <1>5 DEF Budget
<1>7. QED
  BY <1>2, <1>6 DEF Bounded

LEMMA SettlesBound ==
  ASSUME Inv, BoundInv, NEW c \in Calls,
         \/ Succeed(c) \/ Fail(c) \/ RefuseAgain(c) \/ BeginRefresh(c)
         \/ Refresh(c) \/ RefreshRefused(c) \/ RefreshThrows(c)
         \/ Resend(c) \/ ResendSucceeds(c) \/ ResendFails(c)
  PROVE  BoundInv'
<1>1. call[c] \in CallRecord /\ DOMAIN call = Calls
  BY Typed
<1>2. sends' = sends
  BY DEF Succeed, Fail, RefuseAgain, BeginRefresh, Refresh, RefreshRefused,
         RefreshThrows, Resend, ResendSucceeds, ResendFails
<1>3. call[c].pc \in Active \ {"idle"}
  BY DEF Succeed, Fail, RefuseAgain, BeginRefresh, Refresh, RefreshRefused,
         RefreshThrows, Resend, ResendSucceeds, ResendFails, Handles,
         Active, Waiting, Handled
<1>4. \E r : /\ call' = [call EXCEPT ![c] = r] /\ r.pc # "idle"
             /\ r.attempt = call[c].attempt /\ r.frames = call[c].frames
  <2>1. CASE Succeed(c) \/ ResendSucceeds(c)
    <3>1. call' = [call EXCEPT ![c] = [call[c] EXCEPT !.pc = "ok"]]
      BY <1>1, <2>1 DEF Succeed, ResendSucceeds
    <3>2. QED
      BY <1>1, <3>1 DEF CallRecord
  <2>2. CASE Fail(c)
    <3>1. PICK code : call' = [call EXCEPT ![c] =
                         [call[c] EXCEPT !.pc = "queued", !.code = code]]
      BY <1>1, <2>2 DEF Fail
    <3> DEFINE r == [call[c] EXCEPT !.pc = "queued", !.code = code]
    <3>2. /\ r.pc # "idle" /\ r.attempt = call[c].attempt
          /\ r.frames = call[c].frames
      BY <1>1 DEF CallRecord
    <3>3. QED
      BY <3>1, <3>2
  <2>3. CASE BeginRefresh(c) \/ Refresh(c)
    <3>1. PICK pc \in Handled : call' = [call EXCEPT ![c] =
                                   [call[c] EXCEPT !.pc = pc]]
      BY <1>1, <2>3 DEF BeginRefresh, Refresh, Handled
    <3> DEFINE r == [call[c] EXCEPT !.pc = pc]
    <3>2. /\ r.pc # "idle" /\ r.attempt = call[c].attempt
          /\ r.frames = call[c].frames
      BY <1>1 DEF CallRecord, Handled
    <3>3. QED
      BY <3>1, <3>2
  <2>4. CASE Resend(c)
    <3>1. call' = [call EXCEPT ![c] = [call[c] EXCEPT
                     !.pc = "resent", !.refreshed = TRUE, !.token = savedToken]]
      BY <1>1, <2>4 DEF Resend
    <3> DEFINE r == [call[c] EXCEPT
                       !.pc = "resent", !.refreshed = TRUE, !.token = savedToken]
    <3>2. /\ r.pc # "idle" /\ r.attempt = call[c].attempt
          /\ r.frames = call[c].frames
      BY <1>1 DEF CallRecord
    <3>3. QED
      BY <3>1, <3>2
  <2>5. CASE RefuseAgain(c) \/ RefreshRefused(c) \/ RefreshThrows(c) \/ ResendFails(c)
    <3>1. PICK code : call' = [call EXCEPT ![c] = Thrown(call[c], code)]
      BY <1>1, <2>5 DEF RefuseAgain, RefreshRefused, RefreshThrows, ResendFails
    <3> DEFINE r == Thrown(call[c], code)
    <3>2. /\ r.pc # "idle" /\ r.attempt = call[c].attempt
          /\ r.frames = call[c].frames
      BY <1>1 DEF CallRecord, Thrown
    <3>3. QED
      BY <3>1, <3>2
  <2>6. QED
    BY <2>1, <2>2, <2>3, <2>4, <2>5
<1>5. PICK r : /\ call' = [call EXCEPT ![c] = r] /\ r.pc # "idle"
               /\ r.attempt = call[c].attempt /\ r.frames = call[c].frames
  BY <1>4
<1>6. Bounded(r, sends[c])
  BY <1>3, <1>5, Settles
<1>7. sends' = [sends EXCEPT ![c] = sends[c]]
  BY <1>2, SameSends
<1>8. QED
  BY <1>5, <1>6, <1>7, OthersBounded

LEMMA SendCallBound ==
  ASSUME Inv, BoundInv, NEW c \in Calls, SendCall(c)
  PROVE  BoundInv'
<1> DEFINE q == call[c]
           r == [q EXCEPT !.pc = "sent", !.token = savedToken]
           n == sends[c] + 1
<1>1. /\ call' = [call EXCEPT ![c] = r] /\ sends' = [sends EXCEPT ![c] = n]
      /\ q.pc = "idle" /\ q \in CallRecord
  BY Typed DEF SendCall
<1>2. /\ r.pc = "sent" /\ r.attempt = q.attempt /\ r.frames = q.frames
  BY <1>1 DEF CallRecord
<1>3. q.attempt = 0 /\ q.frames = <<>> /\ AttemptInv(q) /\ FramesInv(q)
      /\ Budget(q, sends[c])
  BY <1>1 DEF BoundInv, Bounded
<1> HIDE DEF r, q
<1>4. PICK m \in Nat : Owed(q.frames, m) /\ sends[c] + Own(q) + m <= Sent(0)
  BY <1>3 DEF Budget
<1>5. Own(q) = Sent(0) /\ Own(r) = Later(0) /\ Sent(0) \in Nat
  BY <1>1, <1>2, <1>3, Attempts DEF Own, Active
<1>6. sends[c] \in Nat
  BY Typed
<1>7. n + Own(r) + m <= Sent(0)
  BY <1>4, <1>5, <1>6 DEF Later
<1>8. Budget(r, n)
  BY <1>2, <1>4, <1>7 DEF Budget
<1>9. FramesInv(r) /\ AttemptInv(r)
  BY <1>1, <1>2, <1>3 DEF FramesInv, AttemptInv, Active
<1>10. Bounded(r, n)
  BY <1>2, <1>8, <1>9 DEF Bounded
<1> HIDE DEF n
<1>11. QED
  BY <1>1, <1>10, OthersBounded

LEMMA PassOnBound ==
  ASSUME Inv, BoundInv, NEW c \in Calls, PassOn(c)
  PROVE  BoundInv'
<1> DEFINE q == call[c]
           a == q.attempt
           r == [q EXCEPT !.pc = "retry", !.frames = Append(@, a)]
<1>1. /\ call' = [call EXCEPT ![c] = r] /\ sends' = sends
      /\ q.pc = "queued" /\ q \in CallRecord
  BY Typed DEF PassOn, Handles
<1>2. r.pc = "retry" /\ r.attempt = a /\ r.frames = Append(q.frames, a)
  BY <1>1 DEF CallRecord
<1>3. AttemptInv(q) /\ FramesInv(q) /\ Budget(q, sends[c])
  BY DEF BoundInv, Bounded
<1>4. q.pc \in Active \ {"idle"} /\ a \in 0..(MaxAttempts - 1)
  BY <1>1, Counts DEF Active, Waiting
<1> HIDE DEF r, q, a
<1>5. PICK m \in Nat : Owed(q.frames, m) /\ sends[c] + Own(q) + m <= Sent(0)
  BY <1>3 DEF Budget
<1>6. q.frames \in Seq(0..(MaxAttempts - 1)) /\ Len(q.frames) <= a
  BY <1>3, <1>4 DEF FramesInv, AttemptInv, a
<1>7. Own(q) = Later(a) /\ Own(r) = 0 /\ Later(a) \in Nat
  BY <1>2, <1>4, Attempts DEF Own, a, Active, Waiting, Handled
<1>8. Owed(r.frames, m + Later(a))
  BY <1>2, <1>4, <1>5, <1>6, OwesMore
<1>9. sends[c] + Own(r) + (m + Later(a)) <= Sent(0)
  BY <1>5, <1>7, Counts
<1>10. Budget(r, sends[c])
  BY <1>7, <1>8, <1>9 DEF Budget
<1>11. FramesInv(r)
  <2>1. /\ r.frames \in Seq(0..(MaxAttempts - 1))
        /\ Len(r.frames) = Len(q.frames) + 1 /\ Len(q.frames) \in Nat
        /\ DOMAIN r.frames = 1..(Len(q.frames) + 1)
        /\ DOMAIN q.frames = 1..Len(q.frames)
        /\ r.frames[Len(q.frames) + 1] = a
        /\ \A i \in 1..Len(q.frames) : r.frames[i] = q.frames[i]
    BY <1>2, <1>4, <1>6
  <2>2. \A i \in DOMAIN q.frames : i <= q.frames[i] /\ q.frames[i] \in Nat
    BY <1>1, <1>3, FrameNumbers
  <2>3. ASSUME NEW i \in DOMAIN r.frames
        PROVE  /\ i - 1 <= r.frames[i]
               /\ i < Len(r.frames) \/ r.pc # "retry" => i <= r.frames[i]
    <3>1. CASE i = Len(q.frames) + 1
      BY <1>2, <1>4, <1>6, <2>1, <3>1
    <3>2. CASE i # Len(q.frames) + 1
      <4>1. i \in DOMAIN q.frames /\ i \in Nat /\ r.frames[i] = q.frames[i]
        BY <2>1, <3>2
      <4>2. QED
        BY <2>2, <4>1
    <3>3. QED
      BY <3>1, <3>2
  <2>4. QED
    BY <2>1, <2>3 DEF FramesInv
<1>12. AttemptInv(r)
  BY <1>2 DEF AttemptInv, Active, Waiting, Handled
<1>13. Bounded(r, sends[c])
  BY <1>2, <1>10, <1>11, <1>12 DEF Bounded
<1>14. sends' = [sends EXCEPT ![c] = sends[c]]
  BY <1>1, SameSends
<1>15. QED
  BY <1>1, <1>13, <1>14, OthersBounded

LEMMA RetryBound ==
  ASSUME Inv, BoundInv, NEW c \in Calls, Retry(c)
  PROVE  BoundInv'
<1> DEFINE q == call[c]
           last == Last(q.frames)
           a == last + 1
           r == [q EXCEPT !.pc = "sent", !.attempt = a,
                          !.frames = Append(Front(q.frames), a)]
           n == sends[c] + 1
<1>1. /\ call' = [call EXCEPT ![c] = r] /\ sends' = [sends EXCEPT ![c] = n]
      /\ q.pc = "retry" /\ q \in CallRecord /\ q.frames # <<>>
      /\ a < MaxAttempts
  BY Typed DEF Retry, ShouldRetry, Inv, Framed
<1>2. r.pc = "sent" /\ r.attempt = a /\ r.frames = Append(Front(q.frames), a)
  BY <1>1 DEF CallRecord
<1>3. FramesInv(q) /\ Budget(q, sends[c])
  BY DEF BoundInv, Bounded
<1> HIDE DEF r, q
<1>4. /\ q.frames \in Seq(0..(MaxAttempts - 1))
      /\ Front(q.frames) \in Seq(0..(MaxAttempts - 1))
      /\ last \in 0..(MaxAttempts - 1) /\ last = q.frames[Len(q.frames)]
      /\ Len(q.frames) \in Nat \ {0} /\ DOMAIN q.frames = 1..Len(q.frames)
      /\ Len(Front(q.frames)) = Len(q.frames) - 1
      /\ \A i \in 1..(Len(q.frames) - 1) : Front(q.frames)[i] = q.frames[i]
  BY <1>1, <1>3, FrontOfFrames DEF FramesInv
<1> HIDE DEF last
<1>5. last \in Nat /\ a \in 0..(MaxAttempts - 1) /\ last + 1 <= MaxAttempts - 1
  BY <1>1, <1>4, AttemptCounts
<1>6. Later(last) = 1 + Later(a) + Later(a) /\ Later(a) \in Nat
  BY <1>4, <1>5, Attempts
<1>7. PICK m \in Nat : Owed(q.frames, m) /\ sends[c] + Own(q) + m <= Sent(0)
  BY <1>3 DEF Budget
<1>8. PICK k \in Nat : Owed(Front(q.frames), k) /\ m = k + Later(last)
  BY <1>1, <1>4, <1>7, OwesLess DEF last
<1>9. Owed(r.frames, k + Later(a))
  BY <1>2, <1>4, <1>5, <1>8, OwesMore
<1>10. Own(q) = 0 /\ Own(r) = Later(a) /\ sends[c] \in Nat /\ Sent(0) \in Nat
  BY <1>1, <1>2, Typed, Attempts DEF Own, Active, Waiting, Handled
<1>11. n + Own(r) + (k + Later(a)) <= Sent(0)
  BY <1>6, <1>7, <1>8, <1>10
<1>12. Budget(r, n)
  BY <1>6, <1>9, <1>11 DEF Budget
<1>13. /\ r.frames \in Seq(0..(MaxAttempts - 1))
       /\ Len(r.frames) = Len(q.frames)
       /\ DOMAIN r.frames = 1..Len(q.frames)
       /\ r.frames[Len(q.frames)] = a
       /\ \A i \in 1..(Len(q.frames) - 1) : r.frames[i] = q.frames[i]
  BY <1>2, <1>4, <1>5
<1>14. \A i \in DOMAIN q.frames :
         /\ i - 1 <= q.frames[i]
         /\ i < Len(q.frames) => i <= q.frames[i]
         /\ q.frames[i] \in Nat
  BY <1>3, FrameNumbers
<1>15. Len(q.frames) <= a
  <2>1. Len(q.frames) \in DOMAIN q.frames
    BY <1>4
  <2>2. Len(q.frames) - 1 <= last
    BY <1>4, <1>14, <2>1
  <2>3. QED
    BY <1>4, <1>5, <2>2
<1>16. ASSUME NEW i \in DOMAIN r.frames
       PROVE  i - 1 <= r.frames[i] /\ i <= r.frames[i]
  <2>1. i \in Nat /\ i <= Len(q.frames) /\ i \in DOMAIN q.frames
    BY <1>4, <1>13
  <2>2. CASE i = Len(q.frames)
    BY <1>5, <1>13, <1>15, <2>1, <2>2
  <2>3. CASE i # Len(q.frames)
    <3>1. i < Len(q.frames) /\ i \in 1..(Len(q.frames) - 1)
      BY <1>4, <1>13, <2>1, <2>3
    <3>2. QED
      BY <1>13, <1>14, <2>1, <3>1
  <2>4. QED
    BY <2>2, <2>3
<1>17. FramesInv(r)
  BY <1>13, <1>16 DEF FramesInv
<1>18. AttemptInv(r)
  BY <1>2, <1>5, <1>13, <1>15 DEF AttemptInv
<1>19. Bounded(r, n)
  BY <1>2, <1>12, <1>17, <1>18 DEF Bounded
<1> HIDE DEF n
<1>20. QED
  BY <1>1, <1>19, OthersBounded

LEMMA GiveUpBound ==
  ASSUME Inv, BoundInv, NEW c \in Calls, GiveUp(c)
  PROVE  BoundInv'
<1> DEFINE q == call[c]
           r == Thrown([q EXCEPT !.frames = Front(q.frames)], q.code)
<1>1. /\ call' = [call EXCEPT ![c] = r] /\ sends' = sends
      /\ q.pc = "retry" /\ q \in CallRecord /\ q.frames # <<>>
  BY Typed DEF GiveUp, Inv, Framed
<1>2. r.pc \in {"retry", "error"} /\ r.frames = Front(q.frames)
  BY <1>1 DEF CallRecord, Thrown
<1>3. FramesInv(q) /\ Budget(q, sends[c])
  BY DEF BoundInv, Bounded
<1> HIDE DEF r, q
<1>4. PICK m \in Nat : Owed(q.frames, m) /\ sends[c] + Own(q) + m <= Sent(0)
  BY <1>3 DEF Budget
<1>5. /\ q.frames \in Seq(0..(MaxAttempts - 1))
      /\ Front(q.frames) \in Seq(0..(MaxAttempts - 1))
      /\ Last(q.frames) \in 0..(MaxAttempts - 1)
      /\ Len(q.frames) \in Nat \ {0} /\ DOMAIN q.frames = 1..Len(q.frames)
      /\ DOMAIN Front(q.frames) = 1..(Len(q.frames) - 1)
      /\ \A i \in 1..(Len(q.frames) - 1) : Front(q.frames)[i] = q.frames[i]
  BY <1>1, <1>3, FrontOfFrames DEF FramesInv
<1>6. PICK k \in Nat : Owed(Front(q.frames), k) /\ m = k + Later(Last(q.frames))
  BY <1>1, <1>4, <1>5, OwesLess
<1>7. Later(Last(q.frames)) \in Nat
  BY <1>5, Attempts
<1>8. Own(q) = 0 /\ Own(r) = 0 /\ sends[c] \in Nat /\ Sent(0) \in Nat
  BY <1>1, <1>2, Typed, Attempts DEF Own, Active, Waiting, Handled
<1>9. sends[c] + Own(r) + k <= Sent(0)
  BY <1>4, <1>6, <1>7, <1>8
<1>10. Budget(r, sends[c])
  BY <1>2, <1>6, <1>9 DEF Budget
<1>11. ASSUME NEW i \in DOMAIN r.frames
       PROVE  i - 1 <= r.frames[i] /\ i <= r.frames[i]
  <2>1. i \in DOMAIN q.frames /\ i < Len(q.frames) /\ i \in Nat
        /\ r.frames[i] = q.frames[i]
    BY <1>2, <1>5
  <2>2. q.frames[i] \in Nat /\ i <= q.frames[i]
    BY <1>3, <2>1, FrameNumbers
  <2>3. QED
    BY <2>1, <2>2
<1>12. FramesInv(r)
  BY <1>2, <1>5, <1>11 DEF FramesInv
<1>13. AttemptInv(r)
  BY <1>2 DEF AttemptInv, Active, Waiting, Handled
<1>14. Bounded(r, sends[c])
  BY <1>2, <1>10, <1>12, <1>13 DEF Bounded
<1>15. sends' = [sends EXCEPT ![c] = sends[c]]
  BY <1>1, SameSends
<1>16. QED
  BY <1>1, <1>14, <1>15, OthersBounded

LEMMA NextBound == Inv /\ BoundInv /\ [HttpNext]_httpVars => BoundInv'
<1> SUFFICES ASSUME Inv, BoundInv, [HttpNext]_httpVars PROVE BoundInv'
  OBVIOUS
<1>1. ASSUME call' = call, sends' = sends PROVE BoundInv'
  BY <1>1 DEF BoundInv
<1>2. ASSUME NEW c \in Calls, CallStep(c) PROVE BoundInv'
  <2>1. CASE RefreshFailsInClient(c)
    BY <1>1, <2>1 DEF RefreshFailsInClient
  <2>2. QED
    BY <1>2, <2>1, SendCallBound, SettlesBound, PassOnBound, RetryBound,
       GiveUpBound DEF CallStep
<1>3. CASE Expire
  BY <1>1, <1>3 DEF Expire
<1>4. CASE UNCHANGED httpVars
  BY <1>1, <1>4 DEF httpVars
<1>5. QED
  BY <1>2, <1>3, <1>4 DEF HttpNext

\* However the retries of DioRetryInterceptor nest, and whatever is refreshed
\* in between, a request is sent no more often than the policy allows: twice
\* as often for each attempt after the first.
THEOREM RetriesAreBounded == HttpSpec => []NestedRetriesBounded
<1>1. Inv /\ BoundInv => NestedRetriesBounded
  <2> SUFFICES ASSUME Inv, BoundInv, NEW c \in Calls
               PROVE  /\ sends[c] <= 2 ^ (MaxAttempts - 1)
                      /\ Len(call[c].frames) < MaxAttempts + 1
    BY DEF NestedRetriesBounded
  <2>1. FramesInv(call[c]) /\ Budget(call[c], sends[c])
    BY DEF BoundInv, Bounded
  <2>2. PICK m \in Nat : sends[c] + Own(call[c]) + m <= Sent(0)
    BY <2>1 DEF Budget
  <2>3. sends[c] <= Sent(0)
    BY <2>2, Counts
  <2>4. Sent(0) = 2 ^ (MaxAttempts - 1)
    <3>1. MaxAttempts - 1 - 0 = MaxAttempts - 1
      BY AttemptCounts
    <3>2. QED
      BY <3>1 DEF Sent
  <2>5. Len(call[c].frames) < MaxAttempts + 1
    <3>1. call[c].frames \in Seq(0..(MaxAttempts - 1))
      BY <2>1 DEF FramesInv
    <3>2. CASE call[c].frames = <<>>
      BY <3>2, AttemptCounts
    <3>3. CASE call[c].frames # <<>>
      <4>1. PICK n \in DOMAIN call[c].frames : n = Len(call[c].frames)
        BY <3>1, <3>3
      <4>2. n \in Nat /\ n - 1 <= call[c].frames[n]
            /\ call[c].frames[n] \in 0..(MaxAttempts - 1)
        BY <2>1, <4>1, FrameNumbers
      <4>3. QED
        BY <4>1, <4>2, AttemptCounts
    <3>4. QED
      BY <3>2, <3>3
  <2>6. QED
    BY <2>3, <2>4, <2>5
<1>2. HttpSpec => [](Inv /\ BoundInv)
  BY InitInv, NextInv, InitBound, NextBound, PTL DEF HttpSpec
<1>3. QED
  BY <1>1, <1>2, PTL

-----------------------------------------------------------------------------
(* Folds over the events the store has buffered. *)

LEMMA ReplayedIs ==
  ASSUME NEW store, NEW events, NEW scan
  PROVE  Replayed(store, events, scan) =
           (CHOOSE g : g = [s \in SUBSET DOMAIN events |->
              IF s = {} THEN store
              ELSE IF events[Max(s)].scan = scan
                   THEN Replay(g[s \ {Max(s)}], events[Max(s)])
                   ELSE g[s \ {Max(s)}]])[DOMAIN events]
BY DEF Replayed, FoldLeft, MapThenFoldSet

LEMMA OfOthersIs ==
  ASSUME NEW events, NEW scan
  PROVE  OfOthers(events, scan) =
           (CHOOSE g : g = [s \in SUBSET DOMAIN events |->
              IF s = {} THEN <<>>
              ELSE IF events[Max(s)].scan = scan
                   THEN g[s \ {Max(s)}]
                   ELSE Append(g[s \ {Max(s)}], events[Max(s)])])[DOMAIN events]
BY DEF OfOthers, FoldLeft, MapThenFoldSet

\* Folding replayed events keeps to a set of stores that replaying one event
\* keeps to.
LEMMA ReplayedStays ==
  ASSUME NEW V, NEW store \in V, NEW events \in Seq(WireEvents), NEW scan,
         \A st \in V, e \in WireEvents : e.scan = scan => Replay(st, e) \in V
  PROVE  Replayed(store, events, scan) \in V
<1> DEFINE n == Len(events)
           Step(st, i) == IF events[i].scan = scan THEN Replay(st, events[i])
                          ELSE st
           RHS(g, s) == IF s = {} THEN store
                        ELSE IF events[Max(s)].scan = scan
                             THEN Replay(g[s \ {Max(s)}], events[Max(s)])
                             ELSE g[s \ {Max(s)}]
           G == CHOOSE g : g = [s \in SUBSET DOMAIN events |-> RHS(g, s)]
           f == [x \in V \X (1 .. n) |-> Step(x[1], x[2])]
<1>1. n \in Nat /\ DOMAIN events = 1 .. n
      /\ \A i \in 1 .. n : events[i] \in WireEvents
  OBVIOUS
<1>2. \A st \in V, i \in 1 .. n : Step(st, i) \in V
  BY <1>1
<1> HIDE DEF n
<1>3. G = [s \in SUBSET (1 .. n) |-> RHS(G, s)]
  <2>1. IsStep(f, n, V)
    BY <1>2 DEF IsStep
  <2> HIDE DEF f
  <2> DEFINE g == Recursion(n, V, store, f)
  <2>2. /\ g \in [SUBSET (1 .. n) -> V]
        /\ \A s \in SUBSET (1 .. n) :
             g[s] = IF s = {} THEN store ELSE f[<<g[s \ {Max(s)}], Max(s)>>]
    <3>1. Recursive(Recursion(n, V, store, f), n, V, store, f)
      BY <1>1, <2>1, RecursionHasValue
    <3>2. QED
      BY <3>1 DEF Recursive
  <2> HIDE DEF g
  <2>3. ASSUME NEW s \in SUBSET (1 .. n) PROVE g[s] = RHS(g, s)
    <3>1. CASE s = {}
      BY <2>2, <3>1
    <3>2. CASE s # {}
      <4>1. Max(s) \in 1 .. n
        BY <1>1, <3>2, FirstAndLast
      <4>2. g[s \ {Max(s)}] \in V
        BY <2>2
      <4>3. f[<<g[s \ {Max(s)}], Max(s)>>] = Step(g[s \ {Max(s)}], Max(s))
        BY <4>1, <4>2 DEF f
      <4>4. QED
        BY <2>2, <3>2, <4>3
    <3>3. QED
      BY <3>1, <3>2
  <2> HIDE DEF RHS
  <2>4. g = [s \in SUBSET (1 .. n) |-> RHS(g, s)]
    BY <2>2, <2>3
  <2>5. QED
    BY <1>1, <2>4
<1> HIDE DEF G
<1> DEFINE T == {k \in Nat : k <= n => G[1 .. k] \in V}
<1>4. 0 \in T
  <2>1. 1 .. 0 = {} /\ {} \in SUBSET (1 .. n)
    OBVIOUS
  <2>2. G[{}] = store
    BY <1>3
  <2>3. QED
    BY <2>1, <2>2
<1>5. ASSUME NEW k \in T PROVE k + 1 \in T
  <2> SUFFICES ASSUME k + 1 <= n PROVE G[1 .. (k + 1)] \in V
    OBVIOUS
  <2>1. k \in Nat /\ k + 1 \in 1 .. n /\ G[1 .. k] \in V
    BY <1>1
  <2>2. 1 .. (k + 1) \in SUBSET (1 .. n)
    BY <1>1, <2>1
  <2>3. G[1 .. (k + 1)] = Step(G[1 .. k], k + 1)
    <3>1. /\ Max(1 .. (k + 1)) = k + 1 /\ 1 .. (k + 1) # {}
          /\ (1 .. (k + 1)) \ {k + 1} = 1 .. k
      BY <2>1, PlacesUpTo
    <3>2. G[1 .. (k + 1)] = RHS(G, 1 .. (k + 1))
      <4> HIDE DEF RHS
      <4> QED
        BY <1>3, <2>2
    <3>3. QED
      BY <3>1, <3>2
  <2> HIDE DEF Step
  <2>4. QED
    BY <1>2, <2>1, <2>3
<1>6. T = Nat
  <2>1. T \in SUBSET Nat
    OBVIOUS
  <2> HIDE DEF T
  <2>2. QED
    BY <1>4, <1>5, <2>1, Numbers
<1>7. G[1 .. n] \in V
  BY <1>1, <1>6
<1>8. QED
  BY <1>1, <1>7, ReplayedIs DEF G

\* The events of the other scans are some of those that were buffered.
LEMMA OfOthersStays ==
  ASSUME NEW events \in Seq(WireEvents), NEW scan
  PROVE  /\ OfOthers(events, scan) \in Seq(WireEvents)
         /\ Len(OfOthers(events, scan)) <= Len(events)
<1> DEFINE n == Len(events)
           V == Seq(WireEvents)
           Step(kept, i) == IF events[i].scan = scan THEN kept
                            ELSE Append(kept, events[i])
           RHS(g, s) == IF s = {} THEN <<>>
                        ELSE IF events[Max(s)].scan = scan
                             THEN g[s \ {Max(s)}]
                             ELSE Append(g[s \ {Max(s)}], events[Max(s)])
           G == CHOOSE g : g = [s \in SUBSET DOMAIN events |-> RHS(g, s)]
           f == [x \in V \X (1 .. n) |-> Step(x[1], x[2])]
<1>1. n \in Nat /\ DOMAIN events = 1 .. n
      /\ \A i \in 1 .. n : events[i] \in WireEvents
  OBVIOUS
<1>2. \A kept \in V, i \in 1 .. n :
        Step(kept, i) \in V /\ Len(Step(kept, i)) <= Len(kept) + 1
  BY <1>1
<1>2a. <<>> \in V /\ Len(<<>>) = 0
  OBVIOUS
<1> HIDE DEF n, V
<1>3. G = [s \in SUBSET (1 .. n) |-> RHS(G, s)]
  <2>1. IsStep(f, n, V)
    BY <1>2 DEF IsStep
  <2> HIDE DEF f
  <2> DEFINE g == Recursion(n, V, <<>>, f)
  <2>2. /\ g \in [SUBSET (1 .. n) -> V]
        /\ \A s \in SUBSET (1 .. n) :
             g[s] = IF s = {} THEN <<>> ELSE f[<<g[s \ {Max(s)}], Max(s)>>]
    <3>1. Recursive(Recursion(n, V, <<>>, f), n, V, <<>>, f)
      BY <1>1, <1>2a, <2>1, RecursionHasValue
    <3>2. QED
      BY <3>1 DEF Recursive
  <2> HIDE DEF g
  <2>3. ASSUME NEW s \in SUBSET (1 .. n) PROVE g[s] = RHS(g, s)
    <3>1. CASE s = {}
      BY <2>2, <3>1
    <3>2. CASE s # {}
      <4>1. Max(s) \in 1 .. n
        BY <1>1, <3>2, FirstAndLast
      <4>2. g[s \ {Max(s)}] \in V
        BY <2>2
      <4>3. f[<<g[s \ {Max(s)}], Max(s)>>] = Step(g[s \ {Max(s)}], Max(s))
        BY <4>1, <4>2 DEF f
      <4>4. QED
        BY <2>2, <3>2, <4>3
    <3>3. QED
      BY <3>1, <3>2
  <2> HIDE DEF RHS
  <2>4. g = [s \in SUBSET (1 .. n) |-> RHS(g, s)]
    BY <2>2, <2>3
  <2>5. QED
    BY <1>1, <2>4
<1> HIDE DEF G
<1> DEFINE T == {k \in Nat : k <= n => G[1 .. k] \in V /\ Len(G[1 .. k]) <= k}
<1>4. 0 \in T
  <2>1. 1 .. 0 = {} /\ {} \in SUBSET (1 .. n)
    OBVIOUS
  <2>2. G[{}] = <<>>
    BY <1>3
  <2>3. QED
    BY <1>2a, <2>1, <2>2
<1>5. ASSUME NEW k \in T PROVE k + 1 \in T
  <2> SUFFICES ASSUME k + 1 <= n
               PROVE  G[1 .. (k + 1)] \in V /\ Len(G[1 .. (k + 1)]) <= k + 1
    OBVIOUS
  <2>1. k \in Nat /\ k + 1 \in 1 .. n /\ G[1 .. k] \in V /\ Len(G[1 .. k]) <= k
    BY <1>1
  <2>2. 1 .. (k + 1) \in SUBSET (1 .. n)
    BY <1>1, <2>1
  <2>3. G[1 .. (k + 1)] = Step(G[1 .. k], k + 1)
    <3>1. /\ Max(1 .. (k + 1)) = k + 1 /\ 1 .. (k + 1) # {}
          /\ (1 .. (k + 1)) \ {k + 1} = 1 .. k
      BY <2>1, PlacesUpTo
    <3>2. G[1 .. (k + 1)] = RHS(G, 1 .. (k + 1))
      <4> HIDE DEF RHS
      <4> QED
        BY <1>3, <2>2
    <3>3. QED
      BY <3>1, <3>2
  <2>4. \A q \in V : Len(q) \in Nat
    BY DEF V
  <2> HIDE DEF Step
  <2>5. G[1 .. (k + 1)] \in V /\ Len(G[1 .. (k + 1)]) <= Len(G[1 .. k]) + 1
    BY <1>2, <2>1, <2>3
  <2>6. QED
    BY <2>1, <2>4, <2>5
<1>6. T = Nat
  <2>1. T \in SUBSET Nat
    OBVIOUS
  <2> HIDE DEF T
  <2>2. QED
    BY <1>4, <1>5, <2>1, Numbers
<1>7. G[1 .. n] \in V /\ Len(G[1 .. n]) <= n
  BY <1>1, <1>6
<1>8. QED
  BY <1>1, <1>7, OfOthersIs DEF G, n, V

-----------------------------------------------------------------------------
(* The inductive invariant of the store. *)

\* Events are numbered as they are sent.
NumbersSent == \A i \in DOMAIN wire : wire[i].seq <= lastSent

\* A status is asked of a scan.
AskedOfScans == \A c \in Callers : status[c].at = "asked" => status[c].scan \in Starts

\* The store and the calls under way speak of scans that were started, and
\* none speaks yet of the one that start() is about to show.
Begun(s) == s # 0 => daemon[s] # "none"

ScansBegun ==
  /\ Begun(shown.session)
  /\ \A c \in Callers : Begun(status[c].scan)
  /\ starting.at = "answered" =>
       /\ starting.scan \in Starts /\ daemon[starting.scan] # "none"
       /\ shown.session # starting.scan
       /\ \A c \in Callers : status[c].scan # starting.scan

StoreInv == StoreTypeOK /\ NumbersSent /\ AskedOfScans /\ ScansBegun

LEMMA StoreInitInv == StoreInit => StoreInv
<1> SUFFICES ASSUME StoreInit PROVE StoreInv
  OBVIOUS
<1>1. MaxStarts \in Nat /\ MaxTaps \in Nat /\ MaxBuffered \in Nat
  BY StoreAssumption
<1>2. shown \in Shown
  BY <1>1 DEF StoreInit, EmptyStore, Shown, ScanStates, EndStates
<1>3. status \in [Callers -> [at : {"idle", "asked", "answered"},
                              scan : 0..MaxStarts, answer : ScanStates]]
  BY <1>1 DEF StoreInit, NoCall, ScanStates
<1>4. StoreTypeOK
  <2>1. daemon \in [Starts -> ScanStates]
    BY DEF StoreInit, ScanStates
  <2>2. /\ wire \in Seq(WireEvents) /\ lastSent \in Nat /\ lastSeen \in 0..lastSent
        /\ buffered \in Seq(WireEvents) /\ Len(buffered) <= MaxBuffered
    BY <1>1 DEF StoreInit
  <2>3. starting \in [at : {"idle", "disposing", "asked", "answered"},
                      scan : 0..MaxStarts]
    BY <1>1 DEF StoreInit
  <2>4. tree \in [at : {"idle", "asked", "answered"}, session : 0..MaxStarts,
                  snapshot : 0..MaxStarts, ok : BOOLEAN, polled : BOOLEAN]
    BY <1>1 DEF StoreInit, NoTree
  <2>5. /\ watched \in 0..MaxStarts /\ taps \in 0..MaxTaps
        /\ autoloaded \in (0..MaxStarts) \X (0..MaxStarts)
        /\ overtaken \in BOOLEAN
    <3>1. 0 \in 0..MaxStarts /\ 0 \in 0..MaxTaps
      BY <1>1
    <3>2. <<0, 0>> \in (0..MaxStarts) \X (0..MaxStarts)
      BY <3>1
    <3>3. QED
      BY <3>1, <3>2 DEF StoreInit, NoAutoload
  <2>6. QED
    BY <1>2, <1>3, <2>1, <2>2, <2>3, <2>4, <2>5 DEF StoreTypeOK
<1>5. NumbersSent /\ AskedOfScans /\ ScansBegun
  BY DEF StoreInit, NumbersSent, AskedOfScans, ScansBegun, Begun, NoCall, EmptyStore
<1>6. QED
  BY <1>4, <1>5 DEF StoreInv

(* What the steps share. *)

LEMMA TapCounts ==
  ASSUME StoreInv, Tap \/ taps' = taps
  PROVE  taps' \in 0..MaxTaps
<1>1. taps \in 0..MaxTaps /\ MaxTaps \in Nat
  BY StoreAssumption DEF StoreInv, StoreTypeOK
<1>2. \/ taps' = taps
      \/ taps < MaxTaps /\ taps' = taps + 1
  BY DEF Tap
<1>3. QED
  BY <1>1, <1>2

\* A message more on the wire, or none.
LEMMA SendKeeps ==
  ASSUME StoreInv, NEW s \in Starts, NEW kind \in EventKinds, Send(s, kind)
  PROVE  /\ wire' \in Seq(WireEvents) /\ lastSent' \in Nat
         /\ lastSent' > lastSent
         /\ NumbersSent'
<1> USE DEF StoreInv, StoreTypeOK
<1> DEFINE e == [scan |-> s, kind |-> kind, seq |-> lastSent + 1]
<1>1. e \in WireEvents
  BY DEF WireEvents
<1>2. lastSent' = lastSent + 1 /\ (wire' = Append(wire, e) \/ wire' = wire)
  BY DEF Send
<1>3. e.seq = lastSent + 1
  OBVIOUS
<1> HIDE DEF e
<1>4. \A i \in DOMAIN wire : wire[i] \in WireEvents /\ wire[i].seq \in Nat
  <2>1. \A w \in WireEvents : w.seq \in Nat
    BY DEF WireEvents
  <2>2. QED
    BY <2>1
<1>5. CASE wire' = Append(wire, e)
  <2>1. \A i \in DOMAIN wire' : \/ i \in DOMAIN wire /\ wire'[i] = wire[i]
                                \/ wire'[i] = e
    BY <1>5
  <2>2. wire' \in Seq(WireEvents)
    BY <1>1, <1>5
  <2>3. /\ lastSent \in Nat /\ lastSent' = lastSent + 1
        /\ \A i \in DOMAIN wire : wire[i].seq \in Nat /\ wire[i].seq <= lastSent
    BY <1>2, <1>4 DEF NumbersSent
  <2> HIDE DEF StoreInv, StoreTypeOK
  <2>4. ASSUME NEW i \in DOMAIN wire' PROVE wire'[i].seq <= lastSent'
    <3>1. CASE i \in DOMAIN wire /\ wire'[i] = wire[i]
      BY <2>3, <3>1
    <3>2. CASE wire'[i] = e
      BY <1>3, <2>3, <3>2
    <3>3. QED
      BY <2>1, <3>1, <3>2
  <2>5. NumbersSent'
    BY <2>4 DEF NumbersSent
  <2>6. QED
    BY <2>2, <2>3, <2>5
<1>6. CASE wire' = wire
  BY <1>2, <1>4, <1>6 DEF NumbersSent
<1>7. QED
  BY <1>2, <1>5, <1>6

\* What a status makes of the store.
LEMMA WithStatusShown ==
  ASSUME NEW store \in Shown, NEW scan \in 0..MaxStarts, NEW state \in ScanStates
  PROVE  /\ WithStatus(store, scan, state) \in Shown
         /\ WithStatus(store, scan, state).session = scan
         /\ WithStatus(store, scan, state).state = state
BY DEF WithStatus, Shown

\* What an event makes of the store.
LEMMA ReconcileShown ==
  ASSUME NEW store \in Shown, NEW e \in WireEvents
  PROVE  /\ Reconcile(store, e) \in Shown
         /\ Reconcile(store, e).session = store.session
         /\ Reconcile(store, e).state = "running" => store.state \notin EndStates
<1>1. e.scan \in 0..MaxStarts /\ e.kind \in {"started", "completed", "canceled"}
  BY StoreAssumption DEF WireEvents, Starts, EventKinds, EndStates
<1>2. CASE e.kind = "started"
  BY <1>2 DEF Reconcile, Shown, ScanStates, EndStates
<1>3. CASE e.kind = "completed"
  BY <1>1, <1>3 DEF Reconcile, Shown, ScanStates, EndStates
<1>4. CASE e.kind = "canceled"
  BY <1>4 DEF Reconcile, Shown, ScanStates, EndStates
<1>5. QED
  BY <1>1, <1>2, <1>3, <1>4

\* The oldest events make room in the buffer.
LEMMA BufferBounded ==
  ASSUME NEW events \in Seq(WireEvents), Len(events) <= MaxBuffered,
         NEW e \in WireEvents
  PROVE  Buffer(events, e) \in Seq(WireEvents) /\ Len(Buffer(events, e)) <= MaxBuffered
<1> DEFINE all == Append(events, e)
           n == Len(all)
<1>1. all \in Seq(WireEvents) /\ n \in Nat /\ n <= MaxBuffered + 1
      /\ MaxBuffered \in Nat
  BY StoreAssumption
<1> HIDE DEF all
<1>2. CASE n > MaxBuffered
  <2>1. n = MaxBuffered + 1
    BY <1>1, <1>2
  <2>2. Buffer(events, e) = SubSeq(all, 2, n)
    <3>1. Buffer(events, e) = SubSeq(all, n - MaxBuffered + 1, n)
      BY <1>2 DEF Buffer, all
    <3>2. n - MaxBuffered + 1 = 2
      BY <1>1, <2>1
    <3>3. QED
      BY <3>1, <3>2
  <2>3. SubSeq(all, 2, n) \in Seq(WireEvents) /\ Len(SubSeq(all, 2, n)) <= MaxBuffered
    BY <1>1, <2>1
  <2>4. QED
    BY <2>2, <2>3
<1>3. CASE ~(n > MaxBuffered)
  BY <1>1, <1>3 DEF Buffer, all
<1>4. QED
  BY <1>2, <1>3

\* A new status call, about the session that is shown.
LEMMA AskKeeps ==
  ASSUME StoreInv, NEW c \in Callers, shown.session # 0,
         status' = [status EXCEPT ![c] = [at |-> "asked",
                      scan |-> shown.session, answer |-> "none"]]
  PROVE  /\ status' \in [Callers -> [at : {"idle", "asked", "answered"},
                           scan : 0..MaxStarts, answer : ScanStates]]
         /\ AskedOfScans'
         /\ \A d \in Callers : status'[d].scan \in {status[d].scan, shown.session}
<1> DEFINE made == [at |-> "asked", scan |-> shown.session, answer |-> "none"]
<1>1. shown.session \in 0..MaxStarts /\ shown.session \in Starts
  BY StoreAssumption DEF StoreInv, StoreTypeOK, Shown, Starts
<1>2. made \in [at : {"idle", "asked", "answered"}, scan : 0..MaxStarts,
                answer : ScanStates]
      /\ made.scan = shown.session
  BY <1>1 DEF ScanStates
<1> HIDE DEF made
<1>3. status' = [status EXCEPT ![c] = made]
  BY DEF made
<1>4. QED
  BY <1>1, <1>2, <1>3 DEF StoreInv, StoreTypeOK, AskedOfScans

(* The steps. *)

LEMMA EndRealScanInv ==
  ASSUME StoreInv, NEW s \in Starts, EndRealScan(s)
  PROVE  StoreInv'
<1> USE DEF StoreInv
<1>1. PICK kind \in EndStates :
        daemon' = [daemon EXCEPT ![s] = kind] /\ Send(s, kind)
  BY DEF EndRealScan
<1>2. /\ wire' \in Seq(WireEvents) /\ lastSent' \in Nat
      /\ lastSent' > lastSent /\ NumbersSent'
  BY <1>1, SendKeeps DEF EventKinds
<1>3. StoreTypeOK'
  <2>1. daemon' \in [Starts -> ScanStates]
    BY <1>1 DEF StoreTypeOK, ScanStates
  <2>2. lastSeen' \in 0..lastSent'
    <3>1. lastSeen' = lastSeen /\ lastSeen \in 0..lastSent /\ lastSent \in Nat
      BY DEF EndRealScan, StoreTypeOK
    <3>2. QED
      BY <1>2, <3>1
  <2>3. UNCHANGED <<shown, buffered, starting, status, tree, watched,
                    overtaken, taps, autoloaded>>
    BY DEF EndRealScan
  <2>4. QED
    BY <1>2, <2>1, <2>2, <2>3 DEF StoreTypeOK
<1>4. AskedOfScans'
  BY DEF EndRealScan, AskedOfScans
<1>5. \A t \in Starts : daemon'[t] = "none" => daemon[t] = "none"
  BY <1>1 DEF StoreTypeOK, EndStates
<1>6. ScansBegun'
  <2>1. \A t \in 0..MaxStarts : Begun(t) => Begun(t)'
    BY <1>5 DEF Begun, Starts
  <2>2. QED
    BY <1>5, <2>1 DEF EndRealScan, ScansBegun, StoreTypeOK, Shown
<1>7. QED
  BY <1>2, <1>3, <1>4, <1>6

LEMMA ApplyEventInv ==
  ASSUME StoreInv, ApplyEvent
  PROVE  StoreInv'
<1> USE DEF StoreInv
<1> DEFINE e == Head(wire)
<1>1. /\ e \in WireEvents /\ e.seq \in Nat /\ e.seq <= lastSent
      /\ Tail(wire) \in Seq(WireEvents)
      /\ \A i \in DOMAIN Tail(wire) : i + 1 \in DOMAIN wire
                                      /\ Tail(wire)[i] = wire[i + 1]
  <2>1. wire # <<>> /\ wire \in Seq(WireEvents)
    BY DEF ApplyEvent, StoreTypeOK
  <2>2. e = wire[1] /\ 1 \in DOMAIN wire
    BY <2>1
  <2>3. e \in WireEvents
    BY <2>1
  <2>4. e.seq <= lastSent
    BY <2>2 DEF NumbersSent
  <2>5. QED
    BY <2>1, <2>3, <2>4 DEF WireEvents
<1> HIDE DEF e
<1>2. /\ wire' = Tail(wire) /\ lastSent' = lastSent
      /\ lastSeen' = IF e.seq > lastSeen THEN e.seq ELSE lastSeen
  BY DEF ApplyEvent, e
<1>3. NumbersSent'
  BY <1>1, <1>2 DEF NumbersSent
<1>4. shown' \in Shown /\ shown'.session = shown.session
  <2>1. shown' = Reconcile(shown, e) \/ shown' = shown
    BY DEF ApplyEvent, e
  <2>2. QED
    BY <1>1, <2>1, ReconcileShown DEF StoreTypeOK
<1>5. buffered' \in Seq(WireEvents) /\ Len(buffered') <= MaxBuffered
  <2>1. buffered' = Buffer(buffered, e) \/ buffered' = buffered
    BY DEF ApplyEvent, e
  <2>2. buffered \in Seq(WireEvents) /\ Len(buffered) <= MaxBuffered
    BY DEF StoreTypeOK
  <2>3. /\ Buffer(buffered, e) \in Seq(WireEvents)
        /\ Len(Buffer(buffered, e)) <= MaxBuffered
    BY <1>1, <2>2, BufferBounded
  <2>4. QED
    BY <2>1, <2>2, <2>3
<1>6. /\ status' \in [Callers -> [at : {"idle", "asked", "answered"},
                       scan : 0..MaxStarts, answer : ScanStates]]
      /\ AskedOfScans'
      /\ \A d \in Callers : status'[d].scan \in {status[d].scan, shown.session}
  <2>1. \/ /\ shown.session # 0
           /\ status' = [status EXCEPT !["missed events"] =
                [at |-> "asked", scan |-> shown.session, answer |-> "none"]]
        \/ status' = status
    BY DEF ApplyEvent, e
  <2>2. CASE status' = status
    BY <2>2 DEF StoreTypeOK, AskedOfScans
  <2>3. CASE status' # status
    BY <2>1, <2>3, AskKeeps DEF Callers
  <2>4. QED
    BY <2>2, <2>3
<1>7. StoreTypeOK'
  <2>1. lastSeen' \in 0..lastSent'
    BY <1>1, <1>2 DEF StoreTypeOK
  <2>2. wire' \in Seq(WireEvents) /\ lastSent' \in Nat
    BY <1>1, <1>2 DEF StoreTypeOK
  <2>3. UNCHANGED <<daemon, starting, tree, watched, overtaken, taps, autoloaded>>
    BY DEF ApplyEvent
  <2>4. QED
    BY <1>4, <1>5, <1>6, <2>1, <2>2, <2>3 DEF StoreTypeOK
<1>8. ScansBegun'
  <2>1. \A t : Begun(t)' <=> Begun(t)
    BY DEF ApplyEvent, Begun
  <2>2. daemon' = daemon /\ starting' = starting
    BY DEF ApplyEvent
  <2>3. QED
    BY <1>4, <1>6, <2>1, <2>2 DEF ScansBegun
<1>9. QED
  BY <1>3, <1>6, <1>7, <1>8

LEMMA AskStatusInv ==
  ASSUME StoreInv, AskCancel \/ PollStatus
  PROVE  StoreInv'
<1> USE DEF StoreInv
<1>1. \E c \in Callers : /\ shown.session # 0
                         /\ status' = [status EXCEPT ![c] =
                              [at |-> "asked", scan |-> shown.session,
                               answer |-> "none"]]
  <2>1. CASE AskCancel
    BY <2>1 DEF AskCancel, Callers
  <2>2. CASE PollStatus
    BY <2>2 DEF PollStatus, Callers
  <2>3. QED
    BY <2>1, <2>2
<1>2. /\ status' \in [Callers -> [at : {"idle", "asked", "answered"},
                       scan : 0..MaxStarts, answer : ScanStates]]
      /\ AskedOfScans'
      /\ \A d \in Callers : status'[d].scan \in {status[d].scan, shown.session}
  BY <1>1, AskKeeps
<1>3. /\ UNCHANGED <<daemon, wire, lastSent, shown, lastSeen, buffered,
                     starting, tree, watched, overtaken, autoloaded>>
      /\ taps' \in 0..MaxTaps
  BY TapCounts DEF AskCancel, PollStatus
<1>4. StoreTypeOK'
  BY <1>2, <1>3 DEF StoreTypeOK
<1>5. NumbersSent'
  BY <1>3 DEF NumbersSent
<1>6. ScansBegun'
  <2>1. \A t : Begun(t)' <=> Begun(t)
    BY <1>3 DEF Begun
  <2>2. QED
    BY <1>2, <1>3, <2>1 DEF ScansBegun
<1>7. QED
  BY <1>2, <1>4, <1>5, <1>6

LEMMA AnswerStatusInv ==
  ASSUME StoreInv, NEW c \in Callers, AnswerStatus(c)
  PROVE  StoreInv'
<1> USE DEF StoreInv
<1> DEFINE made == [status[c] EXCEPT !.at = "answered",
                                     !.answer = daemon[status[c].scan]]
<1>1. status[c].scan \in Starts
  BY DEF AnswerStatus, AskedOfScans
<1>2. daemon[status[c].scan] \in ScanStates
  BY <1>1 DEF StoreTypeOK
<1>3. /\ made \in [at : {"idle", "asked", "answered"}, scan : 0..MaxStarts,
                   answer : ScanStates]
      /\ made.at = "answered" /\ made.scan = status[c].scan
  BY <1>2 DEF StoreTypeOK
<1>4. status' = [status EXCEPT ![c] = made]
  BY DEF AnswerStatus, StoreTypeOK
<1> HIDE DEF made
<1>5. StoreTypeOK'
  <2>1. status' \in [Callers -> [at : {"idle", "asked", "answered"},
                       scan : 0..MaxStarts, answer : ScanStates]]
    BY <1>3, <1>4 DEF StoreTypeOK
  <2>2. UNCHANGED <<daemon, wire, lastSent, shown, lastSeen, buffered, starting,
                    tree, watched, overtaken, taps, autoloaded>>
    BY DEF AnswerStatus
  <2>3. QED
    BY <2>1, <2>2 DEF StoreTypeOK
<1>6. NumbersSent' /\ AskedOfScans'
  BY <1>3, <1>4 DEF AnswerStatus, StoreTypeOK, NumbersSent, AskedOfScans
<1>7. ScansBegun'
  <2>1. \A t : Begun(t)' <=> Begun(t)
    BY DEF AnswerStatus, Begun
  <2>2. \A d \in Callers : status'[d].scan = status[d].scan
    BY <1>3, <1>4 DEF StoreTypeOK
  <2>3. daemon' = daemon /\ starting' = starting /\ shown' = shown
    BY DEF AnswerStatus
  <2>4. QED
    BY <2>1, <2>2, <2>3 DEF ScansBegun
<1>8. QED
  BY <1>5, <1>6, <1>7

LEMMA ApplyStatusInv ==
  ASSUME StoreInv, NEW c \in Callers, ApplyStatus(c)
  PROVE  StoreInv'
<1> USE DEF StoreInv
<1>1. status[c].scan \in 0..MaxStarts /\ status[c].answer \in ScanStates
  BY DEF StoreTypeOK
<1>2. NoCall \in [at : {"idle", "asked", "answered"}, scan : 0..MaxStarts,
                  answer : ScanStates]
      /\ NoCall.scan = 0 /\ NoCall.at = "idle"
  BY StoreAssumption DEF NoCall, ScanStates
<1>3. status' = [status EXCEPT ![c] = NoCall]
  BY DEF ApplyStatus
<1>4. shown' \in Shown /\ shown'.session \in {shown.session, status[c].scan}
  <2>0. shown \in Shown
    BY DEF StoreTypeOK
  <2>1. \/ shown' = [shown EXCEPT !.load = "failed"]
        \/ shown' = shown
        \/ shown' = WithStatus(shown, status[c].scan, status[c].answer)
    BY DEF ApplyStatus
  <2>2. [shown EXCEPT !.load = "failed"] \in Shown
        /\ [shown EXCEPT !.load = "failed"].session = shown.session
    BY DEF StoreTypeOK, Shown
  <2>3. QED
    <3>1. /\ WithStatus(shown, status[c].scan, status[c].answer) \in Shown
          /\ WithStatus(shown, status[c].scan, status[c].answer).session
               = status[c].scan
      BY <1>1, <2>0, WithStatusShown
    <3>2. QED
      BY <2>0, <2>1, <2>2, <3>1
<1>5. overtaken' \in BOOLEAN
  BY DEF ApplyStatus, StoreTypeOK, TakesBack
<1>6. StoreTypeOK'
  <2>1. status' \in [Callers -> [at : {"idle", "asked", "answered"},
                       scan : 0..MaxStarts, answer : ScanStates]]
    BY <1>2, <1>3 DEF StoreTypeOK
  <2>2. UNCHANGED <<daemon, wire, lastSent, lastSeen, buffered, starting, tree,
                    watched, taps, autoloaded>>
    BY DEF ApplyStatus
  <2>3. QED
    BY <1>4, <1>5, <2>1, <2>2 DEF StoreTypeOK
<1>7. NumbersSent' /\ AskedOfScans'
  BY <1>2, <1>3 DEF ApplyStatus, StoreTypeOK, NumbersSent, AskedOfScans
<1>8. ScansBegun'
  <2>1. \A t : Begun(t)' <=> Begun(t)
    BY DEF ApplyStatus, Begun
  <2>2. \A d \in Callers : status'[d].scan \in {status[d].scan, 0}
    BY <1>2, <1>3 DEF StoreTypeOK
  <2>3. daemon' = daemon /\ starting' = starting
    BY DEF ApplyStatus
  <2>4. Begun(0) /\ (starting.scan \in Starts => starting.scan # 0)
    BY DEF Begun, Starts
  <2>5. QED
    BY <1>4, <2>1, <2>2, <2>3, <2>4 DEF ScansBegun
<1>9. QED
  BY <1>6, <1>7, <1>8

\* A step that sends nothing, starts nothing and asks for no status.
LEMMA QuietInv ==
  ASSUME StoreInv,
         UNCHANGED <<daemon, wire, lastSent, buffered, status>>,
         lastSeen' \in {0, lastSeen},
         shown' \in Shown, shown'.session \in {0, shown.session},
         starting' \in [at : {"idle", "disposing", "asked", "answered"},
                        scan : 0..MaxStarts],
         starting'.at # "answered" \/ starting' = starting,
         tree' \in [at : {"idle", "asked", "answered"}, session : 0..MaxStarts,
                    snapshot : 0..MaxStarts, ok : BOOLEAN, polled : BOOLEAN],
         watched' \in 0..MaxStarts,
         autoloaded' \in (0..MaxStarts) \X (0..MaxStarts),
         overtaken' \in BOOLEAN,
         taps' \in 0..MaxTaps
  PROVE  StoreInv'
<1> USE DEF StoreInv
<1>1. StoreTypeOK'
  <2>1. lastSeen' \in 0..lastSent'
    <3>1. lastSeen \in 0..lastSent /\ lastSent \in Nat
      BY DEF StoreTypeOK
    <3>2. 0 \in 0..lastSent
      BY <3>1
    <3>3. QED
      BY <3>1, <3>2
  <2>2. QED
    BY <2>1 DEF StoreTypeOK
<1>2. NumbersSent' /\ AskedOfScans'
  BY DEF NumbersSent, AskedOfScans
<1>3. \A t : Begun(t)' <=> Begun(t)
  BY DEF Begun
<1>4. Begun(0) /\ (starting.scan \in Starts => starting.scan # 0)
  BY DEF Begun, Starts
<1>5. ScansBegun'
  BY <1>3, <1>4 DEF ScansBegun
<1>6. QED
  BY <1>1, <1>2, <1>5

\* Rows, load state and the like change nothing the session says of itself.
LEMMA ShownOf ==
  ASSUME NEW store \in Shown
  PROVE  /\ [store EXCEPT !.load = "loading"] \in Shown
         /\ [store EXCEPT !.load = "loading"].session = store.session
         /\ [store EXCEPT !.load = "failed"] \in Shown
         /\ [store EXCEPT !.load = "failed"].session = store.session
         /\ [store EXCEPT !.load = "loading", !.loaded = FALSE] \in Shown
         /\ [store EXCEPT !.load = "loading", !.loaded = FALSE].session
              = store.session
         /\ [store EXCEPT !.snapshot = 0, !.rows = 0,
                          !.loaded = FALSE, !.stale = FALSE] \in Shown
         /\ [store EXCEPT !.snapshot = 0, !.rows = 0,
                          !.loaded = FALSE, !.stale = FALSE].session
              = store.session
<1>1. 0 \in 0..MaxStarts
  BY StoreAssumption
<1>2. QED
  BY <1>1 DEF Shown

LEMMA StartInv ==
  ASSUME StoreInv, Start
  PROVE  StoreInv'
<1>1. shown \in Shown /\ shown.session \in 0..MaxStarts
  BY DEF StoreInv, StoreTypeOK, Shown
<1>2. shown' \in Shown /\ shown'.session = shown.session
  BY <1>1, ShownOf DEF Start
<1>3. /\ starting' \in [at : {"idle", "disposing", "asked", "answered"},
                        scan : 0..MaxStarts]
      /\ starting'.at = "disposing"
  BY <1>1 DEF Start
<1>4. taps' \in 0..MaxTaps
  BY TapCounts DEF Start
<1>5. autoloaded' \in (0..MaxStarts) \X (0..MaxStarts)
  BY StoreAssumption DEF Start, NoAutoload
<1>6. QED
  BY <1>2, <1>3, <1>4, <1>5, QuietInv DEF Start, StoreInv, StoreTypeOK

LEMMA FailStartInv ==
  ASSUME StoreInv, FailStart
  PROVE  StoreInv'
<1>1. shown \in Shown /\ shown.session \in 0..MaxStarts
  BY DEF StoreInv, StoreTypeOK, Shown
<1>2. shown' \in Shown /\ shown'.session = shown.session
  BY <1>1, ShownOf DEF FailStart
<1>3. /\ starting' \in [at : {"idle", "disposing", "asked", "answered"},
                        scan : 0..MaxStarts]
      /\ starting'.at = "idle"
  BY StoreAssumption DEF FailStart
<1>4. QED
  BY <1>1, <1>2, <1>3, QuietInv DEF FailStart, StoreInv, StoreTypeOK

LEMMA ChangeTargetInv ==
  ASSUME StoreInv, ChangeTarget
  PROVE  StoreInv'
<1>1. shown' \in Shown /\ shown'.session = 0
  BY StoreAssumption DEF ChangeTarget, EmptyStore, Shown, ScanStates, EndStates
<1>2. taps' \in 0..MaxTaps
  BY TapCounts DEF ChangeTarget
<1>3. /\ autoloaded' \in (0..MaxStarts) \X (0..MaxStarts)
      /\ watched' \in 0..MaxStarts
  BY StoreAssumption DEF ChangeTarget, NoAutoload
<1>4. QED
  BY <1>1, <1>2, <1>3, QuietInv DEF ChangeTarget, StoreInv, StoreTypeOK

LEMMA AskTreeInv ==
  ASSUME StoreInv, Reload \/ PollRows
  PROVE  StoreInv'
<1>1. PICK polled \in BOOLEAN : AskTree(polled)
  BY DEF Reload, PollRows
<1>2. /\ shown \in Shown /\ shown.session \in 0..MaxStarts
      /\ shown.snapshot \in 0..MaxStarts
  BY DEF StoreInv, StoreTypeOK, Shown
<1>3. shown' \in Shown /\ shown'.session = shown.session
  BY <1>1, <1>2, ShownOf DEF AskTree
<1>4. tree' \in [at : {"idle", "asked", "answered"}, session : 0..MaxStarts,
                 snapshot : 0..MaxStarts, ok : BOOLEAN, polled : BOOLEAN]
  BY <1>1, <1>2 DEF AskTree
<1>5. taps' \in 0..MaxTaps
  BY TapCounts DEF Reload, PollRows
<1>6. QED
  BY <1>1, <1>3, <1>4, <1>5, QuietInv DEF AskTree, StoreInv, StoreTypeOK

LEMMA TreeInv ==
  ASSUME StoreInv, AnswerTree \/ ApplyTree
  PROVE  StoreInv'
<1>1. /\ shown \in Shown /\ tree.snapshot \in 0..MaxStarts
      /\ tree \in [at : {"idle", "asked", "answered"}, session : 0..MaxStarts,
                   snapshot : 0..MaxStarts, ok : BOOLEAN, polled : BOOLEAN]
  BY DEF StoreInv, StoreTypeOK
<1>2. CASE AnswerTree
  <2>1. tree' \in [at : {"idle", "asked", "answered"}, session : 0..MaxStarts,
                   snapshot : 0..MaxStarts, ok : BOOLEAN, polled : BOOLEAN]
    BY <1>1, <1>2 DEF AnswerTree
  <2>2. QED
    BY <1>2, <2>1, QuietInv DEF AnswerTree, StoreInv, StoreTypeOK
<1>3. CASE ApplyTree
  <2>1. shown' \in Shown /\ shown'.session = shown.session
    <3>1. \/ shown' = [shown EXCEPT !.load = IF @ = "loading" THEN "idle" ELSE @]
          \/ shown' = [shown EXCEPT !.rows = tree.snapshot, !.loaded = TRUE,
                                    !.stale = FALSE, !.load = "idle"]
          \/ shown' = [shown EXCEPT !.load = "failed"]
      BY <1>3 DEF ApplyTree
    <3>2. CASE shown' = [shown EXCEPT !.load = IF @ = "loading" THEN "idle" ELSE @]
      BY <1>1, <3>2 DEF Shown
    <3>3. CASE shown' = [shown EXCEPT !.rows = tree.snapshot, !.loaded = TRUE,
                                     !.stale = FALSE, !.load = "idle"]
      BY <1>1, <3>3 DEF Shown
    <3>4. CASE shown' = [shown EXCEPT !.load = "failed"]
      BY <1>1, <3>4 DEF Shown
    <3>5. QED
      BY <3>1, <3>2, <3>3, <3>4
  <2>2. tree' \in [at : {"idle", "asked", "answered"}, session : 0..MaxStarts,
                   snapshot : 0..MaxStarts, ok : BOOLEAN, polled : BOOLEAN]
    BY <1>3, StoreAssumption DEF ApplyTree, NoTree
  <2>3. watched' \in 0..MaxStarts /\ overtaken' \in BOOLEAN
    BY <1>3, StoreAssumption DEF ApplyTree, StopsAnother, StoreInv, StoreTypeOK
  <2>4. QED
    BY <1>3, <2>1, <2>2, <2>3, QuietInv DEF ApplyTree, StoreInv, StoreTypeOK
<1>4. QED
  BY <1>2, <1>3

LEMMA WatchInv ==
  ASSUME StoreInv, Autoload \/ StopWatching
  PROVE  StoreInv'
<1>1. shown.session \in 0..MaxStarts /\ shown.snapshot \in 0..MaxStarts
  BY DEF StoreInv, StoreTypeOK, Shown
<1>2. /\ watched' \in 0..MaxStarts
      /\ autoloaded' \in (0..MaxStarts) \X (0..MaxStarts)
  <2>1. watched \in 0..MaxStarts /\ 0 \in 0..MaxStarts
        /\ autoloaded \in (0..MaxStarts) \X (0..MaxStarts)
    BY StoreAssumption DEF StoreInv, StoreTypeOK
  <2>2. \/ /\ watched' = shown.session
           /\ autoloaded' = <<shown.session, shown.snapshot>>
        \/ watched' = 0 /\ autoloaded' = autoloaded
    BY DEF Autoload, StopWatching
  <2>3. <<shown.session, shown.snapshot>> \in (0..MaxStarts) \X (0..MaxStarts)
    BY <1>1
  <2>4. QED
    BY <1>1, <2>1, <2>2, <2>3
<1>3. /\ UNCHANGED <<daemon, wire, lastSent, shown, lastSeen, buffered,
                     starting, status, tree, overtaken, taps>>
  BY DEF Autoload, StopWatching
<1>4. QED
  BY <1>2, <1>3, QuietInv DEF StoreInv, StoreTypeOK

LEMMA ResetInv ==
  ASSUME StoreInv, Reset
  PROVE  StoreInv'
<1> USE DEF StoreInv
<1>1. /\ shown' \in Shown /\ shown'.session = shown.session
      /\ starting' \in [at : {"idle", "disposing", "asked", "answered"},
                        scan : 0..MaxStarts]
      /\ starting'.at # "answered"
  <2>1. shown' \in Shown /\ shown'.session = shown.session
    <3>1. shown' = [shown EXCEPT !.snapshot = 0, !.rows = 0,
                                !.loaded = FALSE, !.stale = FALSE]
      BY DEF Reset
    <3>2. shown \in Shown
      BY DEF StoreTypeOK
    <3>3. QED
      BY <3>1, <3>2, ShownOf
  <2>2. starting' = [at |-> "asked", scan |-> 0] /\ 0 \in 0..MaxStarts
    BY StoreAssumption DEF Reset
  <2>3. QED
    BY <2>1, <2>2
<1>2. \/ daemon' = daemon
      \/ /\ starting.scan # 0
         /\ daemon' = [daemon EXCEPT ![starting.scan] = "disposed"]
  BY DEF Reset
<1>3. /\ daemon' \in [Starts -> ScanStates]
      /\ \A t \in 1..MaxStarts : daemon[t] # "none" => daemon'[t] # "none"
  <2>1. "disposed" \in ScanStates /\ "disposed" # "none"
    BY DEF ScanStates
  <2>2. daemon \in [1..MaxStarts -> ScanStates]
    BY DEF StoreTypeOK, Starts
  <2>3. QED
    BY <1>2, <2>1, <2>2 DEF Starts
<1>4. StoreTypeOK'
  <2>1. lastSeen' \in 0..lastSent'
    BY DEF Reset, StoreTypeOK
  <2>2. QED
    BY <1>1, <1>3, <2>1 DEF Reset, StoreTypeOK
<1>5. NumbersSent' /\ AskedOfScans'
  BY DEF Reset, NumbersSent, AskedOfScans
<1>6. ScansBegun'
  <2>1. \A t \in 0..MaxStarts : Begun(t) => Begun(t)'
    BY <1>3 DEF Begun
  <2>2. shown.session \in 0..MaxStarts /\ \A c \in Callers : status[c].scan \in 0..MaxStarts
    BY DEF StoreTypeOK, Shown
  <2>3. status' = status
    BY DEF Reset
  <2>4. QED
    BY <1>1, <2>1, <2>2, <2>3 DEF ScansBegun
<1>7. QED
  BY <1>4, <1>5, <1>6

LEMMA AnswerStartInv ==
  ASSUME StoreInv, AnswerStart
  PROVE  StoreInv'
<1> USE DEF StoreInv
<1>1. PICK s \in Starts :
        /\ daemon[s] = "none"
        /\ daemon' = [daemon EXCEPT ![s] = "running"]
        /\ Send(s, "started")
        /\ starting' = [at |-> "answered", scan |-> s]
  BY DEF AnswerStart
<1>2. /\ wire' \in Seq(WireEvents) /\ lastSent' \in Nat
      /\ lastSent' > lastSent /\ NumbersSent'
  BY <1>1, SendKeeps DEF EventKinds
<1>3. s \in 1..MaxStarts /\ s \in 0..MaxStarts /\ s # 0
  BY StoreAssumption DEF Starts
<1>4. /\ daemon' \in [Starts -> ScanStates] /\ daemon'[s] = "running"
      /\ \A t \in 1..MaxStarts : daemon[t] # "none" => daemon'[t] # "none"
  <2>1. "running" \in ScanStates /\ "running" # "none"
    BY DEF ScanStates
  <2>2. daemon \in [1..MaxStarts -> ScanStates]
    BY DEF StoreTypeOK, Starts
  <2>3. QED
    BY <1>1, <1>3, <2>1, <2>2 DEF Starts
<1>5. starting' \in [at : {"idle", "disposing", "asked", "answered"},
                     scan : 0..MaxStarts]
      /\ starting'.scan = s
  BY <1>1, <1>3
<1>6. StoreTypeOK'
  <2>1. lastSeen' \in 0..lastSent'
    BY <1>2 DEF AnswerStart, StoreTypeOK
  <2>2. QED
    BY <1>2, <1>4, <1>5, <2>1 DEF AnswerStart, StoreTypeOK
<1>7. AskedOfScans'
  BY DEF AnswerStart, AskedOfScans
<1>8. ScansBegun'
  <2>1. \A t \in 0..MaxStarts : Begun(t) => Begun(t)' /\ t # s
    BY <1>1, <1>3, <1>4 DEF Begun
  <2>2. shown.session \in 0..MaxStarts /\ \A c \in Callers : status[c].scan \in 0..MaxStarts
    BY DEF StoreTypeOK, Shown
  <2>3. status' = status /\ shown' = shown
    BY DEF AnswerStart
  <2>4. QED
    BY <1>1, <1>4, <1>5, <2>1, <2>2, <2>3 DEF ScansBegun
<1>9. QED
  BY <1>2, <1>6, <1>7, <1>8

\* Whatever is replayed, the answer of start() makes its scan the one shown.
LEMMA ApplyStartShows ==
  ASSUME StoreInv, ApplyStart
  PROVE  shown' \in Shown /\ shown'.session = starting.scan
<1> DEFINE V == {v \in Shown : v.session = starting.scan}
           answer == [WithStatus(shown, starting.scan, "running")
                        EXCEPT !.load = "idle"]
<1>1. /\ shown \in Shown /\ starting.scan \in 0..MaxStarts
      /\ buffered \in Seq(WireEvents) /\ "running" \in ScanStates
  BY DEF StoreInv, StoreTypeOK, ScanStates
<1>2. answer \in V
  <2>1. /\ WithStatus(shown, starting.scan, "running") \in Shown
        /\ WithStatus(shown, starting.scan, "running").session = starting.scan
    BY <1>1, WithStatusShown
  <2>2. QED
    BY <2>1 DEF Shown
<1>3. \A st \in V, e \in WireEvents : e.scan = starting.scan => Replay(st, e) \in V
  BY ReconcileShown DEF Replay
<1>4. shown' = Replayed(answer, buffered, starting.scan)
  BY DEF ApplyStart
<1> HIDE DEF V, answer
<1>5. Replayed(answer, buffered, starting.scan) \in V
  BY <1>1, <1>2, <1>3, ReplayedStays
<1>6. QED
  BY <1>4, <1>5 DEF V

LEMMA ApplyStartInv ==
  ASSUME StoreInv, ApplyStart
  PROVE  StoreInv'
<1> USE DEF StoreInv
<1>1. shown' \in Shown /\ shown'.session = starting.scan
  BY ApplyStartShows
<1>2. buffered' \in Seq(WireEvents) /\ Len(buffered') <= MaxBuffered
  <2>1. buffered \in Seq(WireEvents) /\ Len(buffered) <= MaxBuffered
        /\ MaxBuffered \in Nat
    BY StoreAssumption DEF StoreTypeOK
  <2>2. buffered' = OfOthers(buffered, starting.scan)
    BY DEF ApplyStart
  <2>3. buffered' \in Seq(WireEvents) /\ Len(buffered') <= Len(buffered)
    BY <2>1, <2>2, OfOthersStays
  <2>4. QED
    BY <2>1, <2>3
<1>3. /\ starting' \in [at : {"idle", "disposing", "asked", "answered"},
                        scan : 0..MaxStarts]
      /\ starting'.at # "answered" /\ watched' \in 0..MaxStarts
  BY StoreAssumption DEF ApplyStart, StoreTypeOK
<1>4. StoreTypeOK'
  <2>1. UNCHANGED <<daemon, wire, lastSent, lastSeen, status, tree, overtaken,
                    taps, autoloaded>>
    BY DEF ApplyStart
  <2>2. QED
    BY <1>1, <1>2, <1>3, <2>1 DEF StoreTypeOK
<1>5. NumbersSent' /\ AskedOfScans'
  BY DEF ApplyStart, NumbersSent, AskedOfScans
<1>6. ScansBegun'
  <2>1. \A t : Begun(t)' <=> Begun(t)
    BY DEF ApplyStart, Begun
  <2>2. status' = status /\ starting.at = "answered"
    BY DEF ApplyStart
  <2>3. QED
    BY <1>1, <1>3, <2>1, <2>2 DEF ScansBegun, Begun
<1>7. QED
  BY <1>4, <1>5, <1>6

LEMMA StoreNextInv ==
  ASSUME StoreInv, [StoreNext]_storeVars
  PROVE  StoreInv'
<1>1. CASE UNCHANGED storeVars
  BY <1>1 DEF storeVars, StoreInv, StoreTypeOK, NumbersSent, AskedOfScans,
              ScansBegun, Begun
<1>2. CASE StoreNext
  <2>1. CASE \E s \in Starts : EndRealScan(s)
    BY <2>1, EndRealScanInv
  <2>2. CASE ApplyEvent
    BY <2>2, ApplyEventInv
  <2>3. CASE AskCancel \/ PollStatus
    BY <2>3, AskStatusInv
  <2>4. CASE \E c \in Callers : AnswerStatus(c) \/ ApplyStatus(c)
    BY <2>4, AnswerStatusInv, ApplyStatusInv
  <2>5. CASE Start
    BY <2>5, StartInv
  <2>6. CASE Reset
    BY <2>6, ResetInv
  <2>7. CASE AnswerStart
    BY <2>7, AnswerStartInv
  <2>8. CASE ApplyStart
    BY <2>8, ApplyStartInv
  <2>9. CASE FailStart
    BY <2>9, FailStartInv
  <2>10. CASE ChangeTarget
    BY <2>10, ChangeTargetInv
  <2>11. CASE Reload \/ PollRows
    BY <2>11, AskTreeInv
  <2>12. CASE AnswerTree \/ ApplyTree
    BY <2>12, TreeInv
  <2>13. CASE Autoload \/ StopWatching
    BY <2>13, WatchInv
  <2>14. QED
    BY <1>2, <2>1, <2>2, <2>3, <2>4, <2>5, <2>6, <2>7, <2>8, <2>9, <2>10,
       <2>11, <2>12, <2>13 DEF StoreNext
<1>3. QED
  BY <1>1, <1>2

\* The state of the workspace store keeps its types, and the buffer its limit,
\* for any number of scans, events and taps.
THEOREM StoreTypeCorrect == StoreSpec => []StoreTypeOK
<1>1. StoreSpec => []StoreInv
  BY StoreInitInv, StoreNextInv, PTL DEF StoreSpec
<1>2. StoreInv => StoreTypeOK
  BY DEF StoreInv
<1>3. QED
  BY <1>1, <1>2, PTL

\* A session that has ended is reopened by none of the steps of the store but
\* an answer that was given before it ended.
LEMMA NotReopened ==
  ASSUME StoreInv, [StoreNext]_storeVars,
         shown.state \in EndStates, shown'.session = shown.session,
         shown'.state = "running"
  PROVE  overtaken'
<1>0. shown \in Shown /\ shown.state # "running" /\ shown.state # "none"
  BY DEF StoreInv, StoreTypeOK, EndStates
<1>1. shown'.state # shown.state
  BY <1>0
<1>2. \A a : [shown EXCEPT !.load = a].state = shown.state
  BY <1>0 DEF Shown
<1>3. CASE UNCHANGED storeVars
  BY <1>1, <1>3 DEF storeVars
<1>4. CASE ApplyEvent
  <2>1. wire # <<>> /\ Head(wire) \in WireEvents
    <3>1. wire # <<>> /\ wire \in Seq(WireEvents)
      BY <1>4 DEF ApplyEvent, StoreInv, StoreTypeOK
    <3>2. QED
      BY <3>1
  <2>2. shown' = Reconcile(shown, Head(wire))
    BY <1>1, <1>4 DEF ApplyEvent
  <2>3. shown.state \notin EndStates
    BY <1>0, <2>1, <2>2, ReconcileShown
  <2>4. QED
    BY <2>3
<1>5. ASSUME NEW c \in Callers, ApplyStatus(c) PROVE overtaken'
  <2>1. /\ status[c].scan \in 0..MaxStarts /\ status[c].answer \in ScanStates
    BY DEF StoreInv, StoreTypeOK
  <2>2. /\ shown' = WithStatus(shown, status[c].scan, status[c].answer)
        /\ overtaken' = (overtaken \/ TakesBack(c))
    BY <1>1, <1>2, <1>5 DEF ApplyStatus
  <2>3. status[c].answer = "running"
    BY <1>0, <2>1, <2>2, WithStatusShown
  <2>4. QED
    BY <2>2, <2>3 DEF TakesBack
<1>6. CASE ApplyStart
  <2>1. shown'.session = starting.scan
    BY <1>6, ApplyStartShows
  <2>2. shown.session # starting.scan
    BY <1>6 DEF ApplyStart, StoreInv, ScansBegun
  <2>3. QED
    BY <2>1, <2>2
<1>7. CASE ChangeTarget
  BY <1>7 DEF ChangeTarget, EmptyStore
<1>8. CASE Start \/ Reset \/ FailStart \/ Reload \/ PollRows \/ ApplyTree
  <2>1. shown'.state = shown.state
    BY <1>0, <1>8 DEF Start, Reset, FailStart, Reload, PollRows, AskTree,
                      ApplyTree, Shown
  <2>2. QED
    BY <1>1, <2>1
<1>9. CASE \/ \E s \in Starts : EndRealScan(s)
           \/ AskCancel \/ \E c \in Callers : AnswerStatus(c)
           \/ AnswerStart \/ AnswerTree \/ Autoload \/ PollStatus \/ StopWatching
  <2>1. shown' = shown
    BY <1>9 DEF EndRealScan, AskCancel, AnswerStatus, AnswerStart, AnswerTree,
                Autoload, PollStatus, StopWatching
  <2>2. QED
    BY <1>1, <2>1
<1>10. CASE StoreNext
  BY <1>4, <1>5, <1>6, <1>7, <1>8, <1>9, <1>10 DEF StoreNext
<1>11. QED
  BY <1>3, <1>10

\* However events are delayed, lost, buffered and replayed, a session that the
\* store has shown as ended is not shown as running again, unless an answer
\* the daemon gave before is applied.
THEOREM EndedIsNotReopened == StoreSpec => EndedStaysEnded
<1>1. StoreSpec => []StoreInv
  BY StoreInitInv, StoreNextInv, PTL DEF StoreSpec
<1>2. StoreInv /\ [StoreNext]_storeVars =>
        [/\ shown.state \in EndStates
         /\ shown'.session = shown.session
         /\ shown'.state = "running"
         => overtaken']_storeVars
  BY NotReopened
<1>3. QED
  BY <1>1, <1>2, PTL DEF StoreSpec, EndedStaysEnded
=============================================================================
