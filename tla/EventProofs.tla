----------------------------- MODULE EventProofs -----------------------------
(***************************************************************************)
(* Proofs about EventStream, for every set of sessions, every size of the  *)
(* log and of the channel, any number of connections and restarts: types,  *)
(* and, as long as one scan runs at a time, the order of the event log and *)
(* of what a connection hears; and, for as long as the daemon runs, that   *)
(* the client notices what it missed.  And about QueryCursors, for every   *)
(* length of the listings, every set of limits and every capacity of the   *)
(* registry: a client that follows the cursors reads the whole listing,    *)
(* and a cursor is lost, or outlives its session, only for a reason.       *)
(***************************************************************************)
EXTENDS EventStream, QueryCursors, FoldLemmas, FiniteSetTheorems, SequenceTheorems,
        TLAPS

-----------------------------------------------------------------------------
(* Logs in the order of their sequence numbers *)

Ordered(l) == \A i, j \in DOMAIN l : i < j => l[i].seq < l[j].seq

Below(l, n) == \A i \in DOMAIN l : l[i].seq < n

\* What l holds, m holds.
From(l, m) == \A i \in DOMAIN l : \E j \in DOMAIN m : l[i] = m[j]

LEMMA RemoveKeeps ==
  ASSUME NEW l \in Seq(Envelopes), NEW i \in DOMAIN l
  PROVE  /\ RemoveAt(l, i) \in Seq(Envelopes)
         /\ Len(RemoveAt(l, i)) = Len(l) - 1
         /\ Ordered(l) => Ordered(RemoveAt(l, i))
         /\ \A n \in Nat : Below(l, n) => Below(RemoveAt(l, i), n)
         /\ From(RemoveAt(l, i), l)
<1> DEFINE a == SubSeq(l, 1, i - 1)
           b == SubSeq(l, i + 1, Len(l))
<1>1. i \in 1..Len(l) /\ Len(l) \in Nat
  OBVIOUS
<1>2. \A k \in 1..Len(l) : l[k] \in Envelopes
  OBVIOUS
<1>3. /\ a \in Seq(Envelopes) /\ Len(a) = i - 1
      /\ \A k \in 1..(i - 1) : a[k] = l[k]
  <2>1. 1 \in Int /\ i - 1 \in Int /\ \A k \in 1..(i - 1) : l[k] \in Envelopes
    BY <1>1, <1>2
  <2>2. /\ SubSeq(l, 1, i - 1) \in Seq(Envelopes)
        /\ Len(SubSeq(l, 1, i - 1)) =
             IF 1 <= i - 1 THEN (i - 1) - 1 + 1 ELSE 0
        /\ \A k \in 1..((i - 1) - 1 + 1) :
             SubSeq(l, 1, i - 1)[k] = l[1 + k - 1]
    BY <2>1, SubSeqProperties
  <2>3. QED
    BY <1>1, <2>2
<1>4. /\ b \in Seq(Envelopes) /\ Len(b) = Len(l) - i
      /\ \A k \in 1..(Len(l) - i) : b[k] = l[i + k]
  <2>1. /\ i + 1 \in Int /\ Len(l) \in Int
        /\ \A k \in (i + 1)..Len(l) : l[k] \in Envelopes
    BY <1>1, <1>2
  <2>2. /\ SubSeq(l, i + 1, Len(l)) \in Seq(Envelopes)
        /\ Len(SubSeq(l, i + 1, Len(l))) =
             IF i + 1 <= Len(l) THEN Len(l) - (i + 1) + 1 ELSE 0
        /\ \A k \in 1..(Len(l) - (i + 1) + 1) :
             SubSeq(l, i + 1, Len(l))[k] = l[(i + 1) + k - 1]
    BY <2>1, SubSeqProperties
  <2>3. QED
    BY <1>1, <2>2
<1> HIDE DEF a, b
<1> DEFINE r == a \o b
<1>5. /\ r \in Seq(Envelopes) /\ Len(r) = Len(l) - 1
      /\ \A k \in 1..(Len(l) - 1) : r[k] = IF k < i THEN l[k] ELSE l[k + 1]
  <2>1. /\ a \o b \in Seq(Envelopes)
        /\ Len(a \o b) = Len(a) + Len(b)
        /\ \A k \in 1..(Len(a) + Len(b)) :
             (a \o b)[k] = IF k <= Len(a) THEN a[k] ELSE b[k - Len(a)]
    BY <1>3, <1>4, ConcatProperties
  <2>2. Len(a) + Len(b) = Len(l) - 1
    BY <1>1, <1>3, <1>4
  <2>3. ASSUME NEW k \in 1..(Len(l) - 1)
        PROVE  r[k] = IF k < i THEN l[k] ELSE l[k + 1]
    <3>1. r[k] = IF k <= i - 1 THEN a[k] ELSE b[k - (i - 1)]
      BY <1>3, <2>1, <2>2
    <3>2. CASE k < i
      <4>1. k \in 1..(i - 1) /\ k <= i - 1
        BY <1>1, <3>2
      <4>2. QED
        BY <1>3, <3>1, <3>2, <4>1
    <3>3. CASE ~(k < i)
      <4>1. /\ k - (i - 1) \in 1..(Len(l) - i) /\ ~(k <= i - 1)
            /\ i + (k - (i - 1)) = k + 1
        BY <1>1, <3>3
      <4>2. b[k - (i - 1)] = l[i + (k - (i - 1))]
        BY <1>4, <4>1
      <4>3. QED
        BY <3>1, <3>3, <4>1, <4>2
    <3>4. QED
      BY <3>2, <3>3
  <2>4. QED
    BY <2>1, <2>2, <2>3
<1>6. RemoveAt(l, i) = r
  BY DEF RemoveAt, a, b
<1> HIDE DEF r
<1>7. DOMAIN r = 1..(Len(l) - 1) /\ DOMAIN l = 1..Len(l)
  BY <1>5
<1>8. ASSUME Ordered(l) PROVE Ordered(r)
  <2> SUFFICES ASSUME NEW j \in DOMAIN r, NEW k \in DOMAIN r, j < k
               PROVE  r[j].seq < r[k].seq
    BY DEF Ordered
  <2>1. j \in 1..(Len(l) - 1) /\ k \in 1..(Len(l) - 1)
    BY <1>7
  <2> DEFINE at(x) == IF x < i THEN x ELSE x + 1
  <2>2. /\ at(j) \in 1..Len(l) /\ at(k) \in 1..Len(l) /\ at(j) < at(k)
    BY <1>1, <2>1
  <2>3. ASSUME NEW x \in 1..(Len(l) - 1) PROVE r[x] = l[at(x)]
    BY <1>5
  <2> HIDE DEF at
  <2>4. r[j] = l[at(j)] /\ r[k] = l[at(k)]
    BY <2>1, <2>3
  <2>5. QED
    BY <1>7, <1>8, <2>2, <2>4 DEF Ordered
<1>9. \A n \in Nat : Below(l, n) => Below(r, n)
  BY <1>1, <1>5, <1>7 DEF Below
<1>10. From(r, l)
  <2> SUFFICES ASSUME NEW k \in 1..(Len(l) - 1)
               PROVE  \E j \in 1..Len(l) : r[k] = l[j]
    BY <1>7 DEF From
  <2>1. k \in 1..Len(l) /\ k + 1 \in 1..Len(l)
    BY <1>1
  <2>2. r[k] = l[k] \/ r[k] = l[k + 1]
    BY <1>5
  <2>3. QED
    BY <2>1, <2>2
<1>11. QED
  BY <1>5, <1>6, <1>8, <1>9, <1>10

LEMMA EvictKeeps ==
  ASSUME NEW l \in Seq(Envelopes), Len(l) <= LogLimit
  PROVE  /\ Evicted(l) \in Seq(Envelopes)
         /\ Len(Evicted(l)) < LogLimit
         /\ Ordered(l) => Ordered(Evicted(l))
         /\ \A n \in Nat : Below(l, n) => Below(Evicted(l), n)
         /\ From(Evicted(l), l)
<1>1. CASE Len(l) >= LogLimit
  <2>1. l # <<>>
    BY <1>1, StreamAssumption
  <2>2. /\ Tail(l) \in Seq(Envelopes) /\ Len(Tail(l)) = Len(l) - 1
        /\ \A i \in 1..Len(Tail(l)) : Tail(l)[i] = l[i + 1]
    BY <2>1, HeadTailProperties
  <2>3. Evicted(l) = Tail(l)
    BY <1>1 DEF Evicted
  <2>4. Ordered(l) => Ordered(Tail(l))
    BY <2>2 DEF Ordered
  <2>5. \A n \in Nat : Below(l, n) => Below(Tail(l), n)
    BY <2>2 DEF Below
  <2>6. From(Tail(l), l)
    <3>1. DOMAIN Tail(l) = 1..(Len(l) - 1) /\ DOMAIN l = 1..Len(l)
      BY <2>2
    <3>2. \A i \in DOMAIN Tail(l) : i + 1 \in DOMAIN l /\ Tail(l)[i] = l[i + 1]
      BY <2>2, <3>1
    <3>3. QED
      BY <3>2 DEF From
  <2>7. QED
    BY <2>2, <2>3, <2>4, <2>5, <2>6, StreamAssumption
<1>2. CASE ~(Len(l) >= LogLimit)
  BY <1>2, StreamAssumption DEF Evicted, From
<1>3. QED
  BY <1>1, <1>2

LEMMA AppendKeeps ==
  ASSUME NEW l \in Seq(Envelopes), NEW e \in Envelopes
  PROVE  /\ Append(l, e) \in Seq(Envelopes)
         /\ Len(Append(l, e)) = Len(l) + 1
         /\ Ordered(l) /\ Below(l, e.seq) => Ordered(Append(l, e))
         /\ \A n \in Nat : Below(l, n) /\ e.seq < n => Below(Append(l, e), n)
<1>1. /\ Append(l, e) \in Seq(Envelopes)
      /\ Len(Append(l, e)) = Len(l) + 1
      /\ \A i \in 1..Len(l) : Append(l, e)[i] = l[i]
      /\ Append(l, e)[Len(l) + 1] = e
  BY AppendProperties
<1>2. DOMAIN Append(l, e) = 1..(Len(l) + 1) /\ DOMAIN l = 1..Len(l)
  BY <1>1
<1>3. Ordered(l) /\ Below(l, e.seq) => Ordered(Append(l, e))
  BY <1>1, <1>2 DEF Ordered, Below
<1>4. \A n \in Nat : Below(l, n) /\ e.seq < n => Below(Append(l, e), n)
  BY <1>1, <1>2 DEF Below
<1>5. QED
  BY <1>1, <1>3, <1>4

\* What Publish makes of the log.
LEMMA LogAfter ==
  ASSUME TypeOK, NEW i \in 0..Len(log), NEW e \in Envelopes
  PROVE  LET l == Append(Evicted(Without(i)), e)
         IN /\ l \in Seq(Envelopes) /\ Len(l) <= LogLimit
            /\ Ordered(log) /\ Below(log, e.seq) => Ordered(l)
            /\ \A n \in Nat : Below(log, n) /\ e.seq < n => Below(l, n)
            /\ \A k \in DOMAIN l : l[k] = e \/ \E j \in DOMAIN log : l[k] = log[j]
<1>1. /\ Without(i) \in Seq(Envelopes) /\ Len(Without(i)) <= LogLimit
      /\ Ordered(log) => Ordered(Without(i))
      /\ \A n \in Nat : Below(log, n) => Below(Without(i), n)
      /\ From(Without(i), log)
  <2>1. CASE i = 0
    BY <2>1 DEF Without, TypeOK, From
  <2>2. CASE i # 0
    <3>1. i \in DOMAIN log /\ log \in Seq(Envelopes)
      BY <2>2 DEF TypeOK
    <3>2. /\ RemoveAt(log, i) \in Seq(Envelopes)
          /\ Len(RemoveAt(log, i)) = Len(log) - 1
          /\ Ordered(log) => Ordered(RemoveAt(log, i))
          /\ \A n \in Nat : Below(log, n) => Below(RemoveAt(log, i), n)
          /\ From(RemoveAt(log, i), log)
      BY <3>1, RemoveKeeps
    <3>3. Without(i) = RemoveAt(log, i)
      BY <2>2 DEF Without
    <3>4. Len(log) <= LogLimit /\ Len(log) \in Nat
      BY DEF TypeOK
    <3>5. QED
      BY <3>2, <3>3, <3>4, StreamAssumption
  <2>3. QED
    BY <2>1, <2>2
<1>2. /\ Evicted(Without(i)) \in Seq(Envelopes)
      /\ Len(Evicted(Without(i))) < LogLimit
      /\ Ordered(Without(i)) => Ordered(Evicted(Without(i)))
      /\ \A n \in Nat : Below(Without(i), n) => Below(Evicted(Without(i)), n)
      /\ From(Evicted(Without(i)), Without(i))
  BY <1>1, EvictKeeps
<1>3. e.seq \in Nat
  BY DEF Envelopes
<1>4. Len(Evicted(Without(i))) + 1 <= LogLimit
  BY <1>2, StreamAssumption
<1>5. \A k \in DOMAIN Append(Evicted(Without(i)), e) :
        \/ Append(Evicted(Without(i)), e)[k] = e
        \/ \E j \in DOMAIN log : Append(Evicted(Without(i)), e)[k] = log[j]
  <2>1. \A k \in DOMAIN Append(Evicted(Without(i)), e) :
          \/ Append(Evicted(Without(i)), e)[k] = e
          \/ /\ k \in DOMAIN Evicted(Without(i))
             /\ Append(Evicted(Without(i)), e)[k] = Evicted(Without(i))[k]
    BY <1>2
  <2>2. QED
    BY <1>1, <1>2, <2>1 DEF From
<1>6. QED
  BY <1>1, <1>2, <1>3, <1>4, <1>5, AppendKeeps

-----------------------------------------------------------------------------
(* Types *)

LEMMA TypeInit == Init => TypeOK
<1> SUFFICES ASSUME Init PROVE TypeOK
  OBVIOUS
<1>1. Updates \in 0..Updates /\ 0 \in 0..MaxConnects /\ 0 \in 0..MaxRestarts
      /\ 0 <= LogLimit
  BY StreamAssumption
<1>2. QED
  BY <1>1 DEF Init, TypeOK, Scans, Pushes, NoPush, Kinds, Envelopes, Closed,
              Sockets, NewClient, Clients

LEMMA HearType ==
  ASSUME TypeOK, NEW e \in Envelopes, Hear(e)
  PROVE  client' \in Clients
BY DEF TypeOK, Hear, Clients, Envelopes

LEMMA ScanTypes ==
  ASSUME TypeOK, NEW s \in Sessions, Admit(s) \/ ScanStep(s) \/ Dispose(s)
  PROVE  TypeOK'
<1>1. CASE Admit(s) \/ EndScan(s)
  BY <1>1, ZenonT(60) DEF Admit, EndScan, TypeOK, Scans
<1>2. CASE EmitStarted(s) \/ EmitUpdate(s) \/ EmitFinal(s)
  <2>1. PICK kind \in Kinds : Record(s, kind)
    BY <1>2 DEF EmitStarted, EmitUpdate, EmitFinal, Kinds
  <2>2. push' \in [Sessions -> Pushes]
    BY <2>1 DEF Record, TypeOK, Pushes
  <2>3. scan' \in [Sessions -> Scans]
    <3>1. CASE EmitStarted(s) \/ EmitFinal(s)
      BY <3>1, ZenonT(60) DEF EmitStarted, EmitFinal, TypeOK, Scans
    <3>2. CASE EmitUpdate(s)
      <4>1. scan[s].left \in 0..Updates /\ scan[s].left > 0
        BY <3>2 DEF EmitUpdate, TypeOK, Scans
      <4>2. scan[s].left - 1 \in 0..Updates
        BY <4>1, StreamAssumption
      <4>3. scan' = [scan EXCEPT ![s].left = scan[s].left - 1]
        BY <3>2 DEF EmitUpdate
      <4>4. QED
        BY <4>2, <4>3 DEF TypeOK, Scans
    <3>3. QED
      BY <1>2, <3>1, <3>2
  <2>4. QED
    BY <2>1, <2>2, <2>3 DEF Record, TypeOK
<1>3. CASE Number(s)
  <2>1. push' \in [Sessions -> Pushes]
    <3>1. push[s] \in Pushes /\ sequence \in Nat
      BY DEF TypeOK
    <3>2. [push[s] EXCEPT !.at = "publish", !.seq = sequence] \in Pushes
      BY <3>1 DEF Pushes
    <3>3. push' = [push EXCEPT ![s] =
                     [push[s] EXCEPT !.at = "publish", !.seq = sequence]]
      BY <1>3 DEF Number
    <3>4. QED
      BY <3>2, <3>3 DEF TypeOK
  <2>2. QED
    BY <1>3, <2>1 DEF Number, TypeOK
<1>4. CASE Publish(s)
  <2> DEFINE e == [id |-> Len(sent) + 1, seq |-> push[s].seq, session |-> s,
                   kind |-> push[s].kind]
  <2>1. e \in Envelopes
    BY DEF TypeOK, Pushes, Envelopes
  <2>2. PICK i \in 0..Len(log) : log' = Append(Evicted(Without(i)), e)
    BY <1>4 DEF Publish
  <2>3. sent' = Append(sent, e) /\ push' = [push EXCEPT ![s] = NoPush]
        /\ UNCHANGED <<scan, gone, sequence, socket, client, spent>>
    BY <1>4 DEF Publish
  <2> HIDE DEF e
  <2>4. log' \in Seq(Envelopes) /\ Len(log') <= LogLimit
    BY <2>1, <2>2, LogAfter
  <2>5. sent' \in Seq(Envelopes)
    BY <2>1, <2>3 DEF TypeOK
  <2>6. push' \in [Sessions -> Pushes]
    BY <2>3 DEF TypeOK, NoPush, Pushes, Kinds
  <2>7. QED
    BY <2>3, <2>4, <2>5, <2>6 DEF TypeOK
<1>5. CASE Dispose(s)
  BY <1>5 DEF Dispose, TypeOK
<1>6. QED
  BY <1>1, <1>2, <1>3, <1>4, <1>5 DEF ScanStep

LEMMA ClosedType == Closed \in Sockets
BY DEF Closed, Sockets

\* A receiver of the channel has a place in it.
Placed == socket.pc # "closed" => socket.next >= 1

LEMMA LastInside ==
  ASSUME NEW l \in Seq(Envelopes), l # <<>>
  PROVE  /\ Len(l) \in DOMAIN l /\ Last(l) = l[Len(l)] /\ Last(l) \in Envelopes
         /\ 1 \in DOMAIN l /\ Head(l) = l[1] /\ Head(l) \in Envelopes
<1>1. Len(l) \in Nat /\ Len(l) # 0
  OBVIOUS
<1>2. Len(l) \in 1..Len(l) /\ 1 \in 1..Len(l)
  BY <1>1
<1>3. \A k \in 1..Len(l) : l[k] \in Envelopes
  OBVIOUS
<1>4. Last(l) = l[Len(l)] /\ Head(l) = l[1]
  BY DEF Last
<1>5. QED
  BY <1>2, <1>3, <1>4

LEMMA SocketTypes ==
  ASSUME TypeOK, Placed, SocketStep \/ Subscribe \/ Drop
  PROVE  TypeOK' /\ Placed'
<1>0. socket \in Sockets /\ sent \in Seq(Envelopes) /\ log \in Seq(Envelopes)
      /\ Len(sent) \in Nat
  BY DEF TypeOK
<1>1. CASE CopyLog
  <2> DEFINE w == IF log = <<>> THEN 0 ELSE Last(log).seq
             o == IF log = <<>> THEN 0 ELSE Head(log).id
  <2>1. w \in Nat /\ o \in Nat
    BY <1>0, LastInside DEF Envelopes
  <2>2. socket' = [socket EXCEPT !.pc = "replaying", !.replay = log,
                      !.watermark = w, !.oldest = o]
        /\ socket.pc = "subscribed"
    BY <1>1 DEF CopyLog
  <2> HIDE DEF w, o
  <2>3. socket' \in Sockets /\ socket'.next = socket.next
    BY <1>0, <2>1, <2>2 DEF Sockets
  <2>4. QED
    BY <1>1, <2>2, <2>3 DEF CopyLog, TypeOK, Placed
<1>2. CASE SendReplay
  <2>1. CASE socket.replay = <<>>
    <3>1. socket' = [socket EXCEPT !.pc = "live"] /\ socket.pc = "replaying"
      BY <1>2, <2>1 DEF SendReplay
    <3>2. socket' \in Sockets /\ socket'.next = socket.next
      BY <1>0, <3>1 DEF Sockets
    <3>3. QED
      BY <1>2, <2>1, <3>1, <3>2 DEF SendReplay, TypeOK, Placed
  <2>2. CASE socket.replay # <<>>
    <3>1. socket.replay \in Seq(Envelopes) /\ socket.heard \in Seq(Nat)
      BY <1>0 DEF Sockets
    <3>2. Head(socket.replay) \in Envelopes /\ Tail(socket.replay) \in Seq(Envelopes)
      BY <2>2, <3>1
    <3>3. Append(socket.heard, Head(socket.replay).seq) \in Seq(Nat)
      BY <3>1, <3>2 DEF Envelopes
    <3>4. /\ Hear(Head(socket.replay)) /\ socket.pc = "replaying"
          /\ socket' = [socket EXCEPT !.replay = Tail(socket.replay),
                          !.heard = Append(socket.heard, Head(socket.replay).seq)]
          /\ UNCHANGED <<scan, push, gone, sequence, log, sent, spent>>
      BY <1>2, <2>2 DEF SendReplay
    <3>5. client' \in Clients
      BY <3>2, <3>4, HearType
    <3>6. socket' \in Sockets /\ socket'.next = socket.next
      BY <1>0, <3>2, <3>3, <3>4 DEF Sockets
    <3>7. QED
      BY <3>4, <3>5, <3>6 DEF TypeOK, Placed
  <2>3. QED
    BY <2>1, <2>2
<1>3. CASE Receive
  <2> DEFINE e == sent[socket.next]
  <2>0. /\ socket.next \in 1..Len(sent) /\ socket.next + 1 \in Nat
        /\ socket.next + 1 >= 1 /\ socket.pc = "live"
    BY <1>0, <1>3 DEF Receive, Placed, Sockets
  <2>1. e \in Envelopes
    BY <1>0, <2>0
  <2>2. CASE e.seq <= socket.watermark
    <3>1. /\ socket' = [socket EXCEPT !.next = socket.next + 1]
          /\ UNCHANGED <<scan, push, gone, sequence, log, sent, client, spent>>
      BY <1>3, <2>2 DEF Receive
    <3>2. socket' \in Sockets /\ socket'.next = socket.next + 1
      BY <1>0, <2>0, <3>1 DEF Sockets
    <3>3. QED
      BY <2>0, <3>1, <3>2 DEF TypeOK, Placed
  <2>3. CASE ~(e.seq <= socket.watermark)
    <3>2. /\ Hear(e)
          /\ socket' = [socket EXCEPT !.next = socket.next + 1,
                                      !.heard = Append(socket.heard, e.seq)]
          /\ UNCHANGED <<scan, push, gone, sequence, log, sent, spent>>
      BY <1>3, <2>3 DEF Receive
    <3>3. Append(socket.heard, e.seq) \in Seq(Nat)
      BY <1>0, <2>1 DEF Sockets, Envelopes
    <3>4. client' \in Clients
      BY <2>1, <3>2, HearType
    <3>5. socket' \in Sockets /\ socket'.next = socket.next + 1
      BY <1>0, <2>0, <3>2, <3>3 DEF Sockets
    <3>6. QED
      BY <2>0, <3>2, <3>4, <3>5 DEF TypeOK, Placed
  <2>4. QED
    BY <2>2, <2>3
<1>4. CASE Lag
  <2>1. Len(sent) - RingSize + 1 \in Nat /\ Len(sent) - RingSize + 1 >= 1
        /\ socket.pc = "live"
    BY <1>0, <1>4, StreamAssumption, SMTT(30) DEF Lag, Lagging, Sockets
  <2>2. /\ socket' = [socket EXCEPT !.next = Len(sent) - RingSize + 1]
        /\ UNCHANGED <<scan, push, gone, sequence, log, sent, client, spent>>
    BY <1>4 DEF Lag
  <2>3. socket' \in Sockets /\ socket'.next = Len(sent) - RingSize + 1
    BY <1>0, <2>1, <2>2 DEF Sockets
  <2>4. QED
    BY <2>1, <2>2, <2>3 DEF TypeOK, Placed
<1>5. CASE Subscribe
  <2>1. spent' \in [connects : 0..MaxConnects, restarts : 0..MaxRestarts]
    <3>1. spent.connects + 1 \in 0..MaxConnects
      BY <1>5, StreamAssumption DEF Subscribe, TypeOK
    <3>2. spent' = [spent EXCEPT !.connects = spent.connects + 1]
      BY <1>5 DEF Subscribe
    <3>3. QED
      BY <3>1, <3>2 DEF TypeOK
  <2>2. socket' = [Closed EXCEPT !.pc = "subscribed", !.opened = Len(sent) + 1,
                                 !.next = Len(sent) + 1]
    BY <1>5 DEF Subscribe
  <2>3. socket' \in Sockets /\ socket'.next = Len(sent) + 1
    <3>1. Len(sent) + 1 \in Nat
      BY <1>0
    <3>2. QED
      BY <2>2, <3>1, ClosedType DEF Sockets, Closed
  <2>4. QED
    BY <1>0, <1>5, <2>1, <2>3 DEF Subscribe, TypeOK, Placed
<1>6. CASE Drop
  BY <1>6, ClosedType DEF Drop, TypeOK, Placed, Closed
<1>7. QED
  BY <1>1, <1>2, <1>3, <1>4, <1>5, <1>6 DEF SocketStep

LEMMA RestartTypes ==
  ASSUME TypeOK, Restart
  PROVE  TypeOK' /\ Placed'
<1>1. spent' \in [connects : 0..MaxConnects, restarts : 0..MaxRestarts]
  <2>1. spent.restarts + 1 \in 0..MaxRestarts
    BY StreamAssumption DEF Restart, TypeOK
  <2>2. spent' = [spent EXCEPT !.restarts = spent.restarts + 1]
    BY DEF Restart
  <2>3. QED
    BY <2>1, <2>2 DEF TypeOK
<1>2. scan' \in [Sessions -> Scans]
  BY DEF Restart, TypeOK, Scans
<1>3. push' \in [Sessions -> Pushes]
  BY DEF Restart, Pushes, NoPush, Kinds
<1>4. log' \in Seq(Envelopes) /\ Len(log') <= LogLimit
  BY StreamAssumption DEF Restart
<1>5. QED
  BY <1>1, <1>2, <1>3, <1>4, ClosedType DEF Restart, TypeOK, Placed, Closed

LEMMA TypeStep == TypeOK /\ Placed /\ [Next]_vars => TypeOK' /\ Placed'
<1> SUFFICES ASSUME TypeOK, Placed, [Next]_vars PROVE TypeOK' /\ Placed'
  OBVIOUS
<1>1. ASSUME NEW s \in Sessions, Admit(s) \/ ScanStep(s) \/ Dispose(s)
      PROVE  TypeOK' /\ Placed'
  <2>1. UNCHANGED socket
    BY <1>1 DEF Admit, ScanStep, EmitStarted, EmitUpdate, EmitFinal, Record,
                EndScan, Number, Publish, Dispose
  <2>2. TypeOK'
    BY <1>1, ScanTypes
  <2>3. QED
    BY <2>1, <2>2 DEF Placed
<1>2. CASE SocketStep \/ Subscribe \/ Drop
  BY <1>2, SocketTypes
<1>3. CASE Restart
  BY <1>3, RestartTypes
<1>4. CASE ForgetSequence
  BY <1>4 DEF ForgetSequence, NewClient, Clients, TypeOK, Placed
<1>5. CASE UNCHANGED vars
  BY <1>5 DEF vars, TypeOK, Placed
<1>6. QED
  BY <1>1, <1>2, <1>3, <1>4, <1>5 DEF Next

\* Every variable of the stream keeps its type; the log stays within
\* event_buffer_limit.
THEOREM TypeCorrect == Spec => []TypeOK
<1>1. Init => TypeOK /\ Placed
  BY TypeInit DEF Init, Placed, Closed
<1>2. QED
  BY <1>1, TypeStep, PTL DEF Spec

-----------------------------------------------------------------------------
(* The order of the log, while one scan runs at a time *)

OneScan == \A s, t \in Running : s = t

PushRunning == \A s \in Sessions : push[s].at # "none" => s \in Running

\* A number that waits to be published is above all that the log holds.
Numbered ==
  \A s \in Sessions :
    push[s].at = "publish" => push[s].seq < sequence /\ Below(log, push[s].seq)

OrderInv == OneScan /\ PushRunning /\ Numbered /\ Below(log, sequence)
            /\ Ordered(log)

LEMMA SeqNumbers ==
  ASSUME NEW l \in Seq(Envelopes), NEW i \in DOMAIN l
  PROVE  l[i] \in Envelopes /\ l[i].seq \in Nat
<1>1. l[i] \in Envelopes
  OBVIOUS
<1>2. QED
  BY <1>1 DEF Envelopes

LEMMA OrderInit == Init => OrderInv
<1> SUFFICES ASSUME Init PROVE OrderInv
  OBVIOUS
<1>1. Running = {}
  BY DEF Init, Running
<1>2. DOMAIN log = {}
  BY DEF Init
<1>3. QED
  BY <1>1, <1>2 DEF Init, OrderInv, OneScan, PushRunning, Numbered, Below,
                    Ordered, NoPush

LEMMA OrderPublish ==
  ASSUME TypeOK, OrderInv, NEW s \in Sessions, Publish(s)
  PROVE  OrderInv'
<1> DEFINE e == [id |-> Len(sent) + 1, seq |-> push[s].seq, session |-> s,
                 kind |-> push[s].kind]
<1>1. e \in Envelopes /\ e.seq = push[s].seq
  BY DEF TypeOK, Pushes, Envelopes
<1>2. PICK i \in 0..Len(log) : log' = Append(Evicted(Without(i)), e)
  BY DEF Publish
<1>3. /\ push' = [push EXCEPT ![s] = NoPush] /\ push[s].at = "publish"
      /\ UNCHANGED <<scan, gone, sequence, socket, client, spent>>
  BY DEF Publish
<1> HIDE DEF e
<1>4. s \in Running /\ Running' = Running
  BY <1>3 DEF OrderInv, PushRunning, Running
<1>5. e.seq < sequence /\ Below(log, e.seq) /\ sequence \in Nat
  BY <1>1, <1>3 DEF OrderInv, Numbered, TypeOK
<1>6. Ordered(log') /\ Below(log', sequence)
  BY <1>1, <1>2, <1>5, LogAfter DEF OrderInv
<1>7. ASSUME NEW t \in Sessions PROVE push'[t].at = "none"
  BY <1>3, <1>4 DEF OrderInv, OneScan, PushRunning, TypeOK, NoPush
<1>8. QED
  <2>1. OneScan'
    BY <1>4 DEF OrderInv, OneScan
  <2>2. PushRunning' /\ Numbered'
    BY <1>7 DEF PushRunning, Numbered
  <2>3. Ordered(log)' /\ Below(log, sequence)'
    BY <1>3, <1>6 DEF Ordered, Below
  <2>4. QED
    BY <2>1, <2>2, <2>3 DEF OrderInv

LEMMA OrderScan ==
  ASSUME MaxScans = 1, TypeOK, OrderInv, NEW s \in Sessions,
         Admit(s) \/ ScanStep(s) \/ Dispose(s)
  PROVE  OrderInv'
<1>1. CASE Admit(s)
  <2>1. Running = {}
    <3>1. IsFiniteSet(Running)
      BY StreamAssumption, FS_Subset DEF Running
    <3>2. Cardinality(Running) \in Nat /\ Cardinality(Running) < 1
      BY <1>1, <3>1, FS_CardinalityType DEF Admit
    <3>3. QED
      BY <3>1, <3>2, FS_EmptySet
  <2>2. /\ scan' = [scan EXCEPT ![s].at = "begin"]
        /\ UNCHANGED <<push, sequence, log>>
    BY <1>1 DEF Admit
  <2>3. Running' \subseteq {s}
    BY <2>1, <2>2 DEF Running, TypeOK
  <2>4. PushRunning'
    BY <2>1, <2>2 DEF OrderInv, PushRunning
  <2>5. Numbered' /\ Ordered(log)' /\ Below(log, sequence)'
    BY <2>2 DEF OrderInv, Numbered, Ordered, Below
  <2>6. QED
    BY <2>3, <2>4, <2>5 DEF OrderInv, OneScan
<1>2. CASE EmitStarted(s) \/ EmitUpdate(s) \/ EmitFinal(s)
  <2>1. PICK kind \in Kinds : Record(s, kind)
    BY <1>2 DEF EmitStarted, EmitUpdate, EmitFinal, Kinds
  <2>2. s \in Running /\ Running' = Running
    BY <1>2, ZenonT(60) DEF EmitStarted, EmitUpdate, EmitFinal, Running, TypeOK, Scans
  <2>3. \A t \in Sessions : \/ push'[t] = push[t]
                            \/ t = s /\ push'[t].at = "number"
    BY <2>1 DEF Record, TypeOK
  <2>4. UNCHANGED <<sequence, log>>
    BY <2>1 DEF Record
  <2>5. PushRunning'
    BY <2>2, <2>3 DEF OrderInv, PushRunning
  <2>6. Numbered'
    BY <2>3, <2>4 DEF OrderInv, Numbered, Below
  <2>7. QED
    BY <2>2, <2>4, <2>5, <2>6 DEF OrderInv, OneScan, Ordered, Below
<1>3. CASE EndScan(s)
  <2>1. /\ push[s].at = "none" /\ scan' = [scan EXCEPT ![s].at = "done"]
        /\ UNCHANGED <<push, sequence, log>>
    BY <1>3 DEF EndScan
  <2>2. Running' = Running \ {s}
    BY <2>1 DEF Running, TypeOK
  <2>3. OneScan' /\ PushRunning'
    BY <2>1, <2>2 DEF OrderInv, OneScan, PushRunning
  <2>4. QED
    BY <2>1, <2>3 DEF OrderInv, Numbered, Ordered, Below
<1>4. CASE Number(s)
  <2>1. /\ push[s].at = "number" /\ sequence' = sequence + 1
        /\ push' = [push EXCEPT ![s] =
                      [push[s] EXCEPT !.at = "publish", !.seq = sequence]]
        /\ UNCHANGED <<scan, log>>
    BY <1>4 DEF Number
  <2>2. push[s] \in Pushes /\ sequence \in Nat
    BY DEF TypeOK
  <2>3. /\ push'[s].at = "publish" /\ push'[s].seq = sequence
        /\ \A t \in Sessions \ {s} : push'[t] = push[t]
    BY <2>1, <2>2 DEF TypeOK, Pushes
  <2>4. s \in Running /\ Running' = Running
    BY <2>1 DEF OrderInv, PushRunning, Running
  <2>5. \A t \in Sessions \ {s} : push[t].at = "none"
    BY <2>4 DEF OrderInv, OneScan, PushRunning
  <2>6. PushRunning'
    BY <2>3, <2>4, <2>5 DEF PushRunning
  <2>7. Numbered'
    <3> SUFFICES ASSUME NEW t \in Sessions, push'[t].at = "publish"
                 PROVE  push'[t].seq < sequence' /\ Below(log', push'[t].seq)
      BY DEF Numbered, Below
    <3>1. t = s
      BY <2>3, <2>5
    <3>2. QED
      BY <2>1, <2>2, <2>3, <3>1 DEF OrderInv
  <2>8. Below(log, sequence)'
    <3>0. log \in Seq(Envelopes)
      BY DEF TypeOK
    <3>1. \A i \in DOMAIN log : log[i].seq \in Nat
      BY <3>0, SeqNumbers
    <3>2. QED
      BY <2>1, <2>2, <3>1 DEF OrderInv, Below
  <2>9. QED
    BY <2>1, <2>4, <2>6, <2>7, <2>8 DEF OrderInv, OneScan, Ordered
<1>5. CASE Publish(s)
  BY <1>5, OrderPublish
<1>6. CASE Dispose(s)
  BY <1>6 DEF Dispose, OrderInv, OneScan, PushRunning, Numbered, Running,
              Ordered, Below
<1>7. QED
  BY <1>1, <1>2, <1>3, <1>4, <1>5, <1>6 DEF ScanStep

LEMMA OrderStep ==
  ASSUME MaxScans = 1, TypeOK, OrderInv, [Next]_vars
  PROVE  OrderInv'
<1>1. CASE UNCHANGED <<scan, push, sequence, log>>
  BY <1>1 DEF OrderInv, OneScan, PushRunning, Numbered, Running, Ordered, Below
<1>2. CASE Restart
  <2>1. /\ \A s \in Sessions : push'[s].at = "none"
        /\ log' = <<>>
        /\ \A s \in Sessions : scan'[s].at \in {"waiting", "done"}
    BY <1>2 DEF Restart, NoPush, Running, TypeOK
  <2>2. Running' = {} /\ DOMAIN log' = {}
    BY <2>1 DEF Running
  <2>3. QED
    BY <2>1, <2>2 DEF OrderInv, OneScan, PushRunning, Numbered, Ordered, Below
<1>3. CASE SocketStep \/ Subscribe \/ Drop \/ ForgetSequence
  <2>1. UNCHANGED <<scan, push, sequence, log>>
    BY <1>3 DEF ForgetSequence, SocketStep, Subscribe, Drop, CopyLog, SendReplay, Receive, Lag
  <2>2. QED
    BY <1>1, <2>1
<1>4. CASE UNCHANGED vars
  BY <1>1, <1>4 DEF vars
<1>5. QED
  BY <1>2, <1>3, <1>4, OrderScan DEF Next

\* With one scan at a time, which is what every budget profile allows, the
\* event log is in the order of its sequence numbers.  (push_event)
THEOREM LogStaysOrdered == ASSUME MaxScans = 1 PROVE Spec => []LogOrdered
<1>1. Init => TypeOK /\ Placed /\ OrderInv
  BY TypeInit, OrderInit DEF Init, Placed, Closed
<1>2. TypeOK /\ Placed /\ OrderInv /\ [Next]_vars
        => (TypeOK /\ Placed /\ OrderInv)'
  BY TypeStep, OrderStep
<1>3. OrderInv => LogOrdered
  BY DEF OrderInv, Ordered, LogOrdered
<1>4. QED
  BY <1>1, <1>2, <1>3, PTL DEF Spec

-----------------------------------------------------------------------------
(* What one connection hears *)

\* From the subscription on, the channel carries rising numbers.
ChannelInv ==
  socket.pc # "closed" =>
    /\ socket.opened >= 1 /\ socket.next >= socket.opened
    /\ \A i \in socket.opened..Len(sent) :
         /\ sent[i].seq < sequence
         /\ \A s \in Sessions :
              push[s].at = "publish" => sent[i].seq < push[s].seq
    /\ \A i, j \in socket.opened..Len(sent) :
         i < j => sent[i].seq < sent[j].seq

\* While it replays, a socket has said nothing that is left in the replay.
ReplayInv ==
  /\ socket.pc \in {"closed", "subscribed"} => socket.heard = <<>>
  /\ socket.pc = "replaying" =>
       /\ Ordered(socket.replay)
       /\ \A j \in DOMAIN socket.replay :
            socket.replay[j].seq <= socket.watermark
       /\ \A i \in DOMAIN socket.heard :
            /\ socket.heard[i] <= socket.watermark
            /\ \A j \in DOMAIN socket.replay :
                 socket.heard[i] < socket.replay[j].seq

\* What a live socket has said, the replay or the channel behind it held.
LiveInv ==
  socket.pc = "live" =>
    \A i \in DOMAIN socket.heard :
      \/ socket.heard[i] <= socket.watermark
      \/ \E k \in socket.opened..(socket.next - 1) :
           k <= Len(sent) /\ socket.heard[i] = sent[k].seq

HeardInv == ChannelInv /\ ReplayInv /\ LiveInv /\ HeardInOrder

LEMMA HeardInit == Init => HeardInv
BY DEF Init, Closed, HeardInv, ChannelInv, ReplayInv, LiveInv, HeardInOrder

LEMMA SentAfter ==
  ASSUME TypeOK, OrderInv, ChannelInv, NEW s \in Sessions, Publish(s)
  PROVE  /\ ChannelInv'
         /\ Len(sent') = Len(sent) + 1
         /\ \A i \in 1..Len(sent) : sent'[i] = sent[i]
<1> DEFINE e == [id |-> Len(sent) + 1, seq |-> push[s].seq, session |-> s,
                 kind |-> push[s].kind]
<1>1. e \in Envelopes /\ e.seq = push[s].seq
  BY DEF TypeOK, Pushes, Envelopes
<1>2. /\ sent' = Append(sent, e)
      /\ push' = [push EXCEPT ![s] = NoPush] /\ push[s].at = "publish"
      /\ UNCHANGED <<scan, gone, sequence, socket, client, spent>>
  BY DEF Publish
<1> HIDE DEF e
<1>3. /\ Len(sent') = Len(sent) + 1 /\ Len(sent) \in Nat
      /\ \A i \in 1..Len(sent) : sent'[i] = sent[i]
      /\ sent'[Len(sent) + 1] = e
  BY <1>1, <1>2, AppendProperties DEF TypeOK
<1>4. ASSUME NEW t \in Sessions PROVE push'[t].at = "none"
  BY <1>2 DEF OrderInv, OneScan, PushRunning, TypeOK, NoPush
<1>5. e.seq < sequence
  BY <1>1, <1>2 DEF OrderInv, Numbered
<1>6. ASSUME socket.pc # "closed"
      PROVE  /\ socket.opened >= 1 /\ socket.next >= socket.opened
             /\ \A i \in socket.opened..Len(sent') : sent'[i].seq < sequence
             /\ \A i, j \in socket.opened..Len(sent') :
                  i < j => sent'[i].seq < sent'[j].seq
  <2>1. /\ socket.opened >= 1 /\ socket.next >= socket.opened
        /\ \A i \in socket.opened..Len(sent) :
             sent[i].seq < sequence /\ sent[i].seq < push[s].seq
        /\ \A i, j \in socket.opened..Len(sent) :
             i < j => sent[i].seq < sent[j].seq
    BY <1>2, <1>6 DEF ChannelInv
  <2>2. socket.opened \in Nat
    BY DEF TypeOK, Sockets
  <2>3. ASSUME NEW i \in socket.opened..Len(sent'), i # Len(sent) + 1
        PROVE  /\ i \in socket.opened..Len(sent) /\ i < Len(sent) + 1
               /\ sent'[i] = sent[i]
    BY <1>3, <2>1, <2>2, <2>3
  <2>4. ASSUME NEW i \in socket.opened..Len(sent')
        PROVE  sent'[i].seq < sequence
    BY <1>3, <1>5, <2>1, <2>3
  <2>5. ASSUME NEW i \in socket.opened..Len(sent'),
               NEW j \in socket.opened..Len(sent'), i < j
        PROVE  sent'[i].seq < sent'[j].seq
    <3>1. i # Len(sent) + 1
      BY <1>3, <2>2, <2>5
    <3>2. CASE j = Len(sent) + 1
      BY <1>1, <1>3, <2>1, <2>3, <3>1, <3>2
    <3>3. CASE j # Len(sent) + 1
      BY <2>1, <2>3, <2>5, <3>1, <3>3
    <3>4. QED
      BY <3>2, <3>3
  <2>6. QED
    BY <2>1, <2>4, <2>5
<1>7. ChannelInv'
  BY <1>2, <1>4, <1>6 DEF ChannelInv
<1>8. QED
  BY <1>3, <1>7

LEMMA HeardScan ==
  ASSUME TypeOK, OrderInv, HeardInv, NEW s \in Sessions,
         Admit(s) \/ ScanStep(s) \/ Dispose(s)
  PROVE  HeardInv'
<1>1. UNCHANGED socket
  BY DEF Admit, ScanStep, EmitStarted, EmitUpdate, EmitFinal, Record, EndScan,
         Number, Publish, Dispose
<1>2. HeardInOrder' /\ ReplayInv'
  BY <1>1 DEF HeardInv, HeardInOrder, ReplayInv, Ordered
<1>3. CASE Admit(s) \/ EndScan(s) \/ Dispose(s)
  BY <1>1, <1>2, <1>3 DEF Admit, EndScan, Dispose, HeardInv, ChannelInv, LiveInv
<1>4. CASE EmitStarted(s) \/ EmitUpdate(s) \/ EmitFinal(s)
  <2>1. PICK kind \in Kinds : Record(s, kind)
    BY <1>4 DEF EmitStarted, EmitUpdate, EmitFinal, Kinds
  <2>2. \A t \in Sessions : \/ push'[t] = push[t]
                            \/ t = s /\ push'[t].at = "number"
    BY <2>1 DEF Record, TypeOK
  <2>3. UNCHANGED <<sequence, sent>>
    BY <2>1 DEF Record
  <2>4. ChannelInv'
    BY <1>1, <2>2, <2>3 DEF HeardInv, ChannelInv
  <2>5. QED
    BY <1>1, <1>2, <2>3, <2>4 DEF HeardInv, LiveInv
<1>5. CASE Number(s)
  <2>1. /\ sequence' = sequence + 1 /\ sequence \in Nat
        /\ UNCHANGED <<scan, sent>>
        /\ \A t \in Sessions :
             \/ push'[t] = push[t]
             \/ push'[t].seq = sequence
    BY <1>5 DEF Number, TypeOK, Pushes
  <2>2. \A i \in socket.opened..Len(sent) :
          socket.pc # "closed" => sent[i].seq \in Nat
    <3>1. sent \in Seq(Envelopes) /\ socket.opened \in Nat
      BY DEF TypeOK, Sockets
    <3>2. socket.pc # "closed" =>
            \A i \in socket.opened..Len(sent) : i \in DOMAIN sent
      BY <3>1 DEF HeardInv, ChannelInv
    <3>3. QED
      BY <3>1, <3>2, SeqNumbers
  <2>3. ChannelInv'
    BY <1>1, <2>1, <2>2 DEF HeardInv, ChannelInv
  <2>4. QED
    BY <1>1, <1>2, <2>1, <2>3 DEF HeardInv, LiveInv
<1>6. CASE Publish(s)
  <2>1. /\ ChannelInv' /\ Len(sent') = Len(sent) + 1
        /\ \A i \in 1..Len(sent) : sent'[i] = sent[i]
    BY <1>6, SentAfter DEF HeardInv
  <2>2. LiveInv'
    <3> SUFFICES ASSUME socket.pc = "live", NEW i \in DOMAIN socket.heard,
                        ~(socket.heard[i] <= socket.watermark)
                 PROVE  \E k \in socket.opened..(socket.next - 1) :
                          k <= Len(sent') /\ socket.heard[i] = sent'[k].seq
      BY <1>1 DEF LiveInv
    <3>1. PICK k \in socket.opened..(socket.next - 1) :
                 k <= Len(sent) /\ socket.heard[i] = sent[k].seq
      BY DEF HeardInv, LiveInv
    <3>2. socket.opened >= 1 /\ socket.opened \in Nat /\ socket.next \in Nat
          /\ Len(sent) \in Nat
      BY DEF HeardInv, ChannelInv, TypeOK, Sockets
    <3>3. k \in 1..Len(sent) /\ k <= Len(sent')
      BY <2>1, <3>1, <3>2
    <3>4. QED
      BY <2>1, <3>1, <3>3
  <2>3. QED
    BY <1>2, <2>1, <2>2 DEF HeardInv
<1>7. QED
  BY <1>3, <1>4, <1>5, <1>6 DEF ScanStep

\* A number above all that was heard may be heard.
LEMMA HeardMore ==
  ASSUME NEW h \in Seq(Nat), NEW n \in Nat, \A i \in DOMAIN h : h[i] < n,
         \A i, j \in DOMAIN h : i < j => h[i] < h[j]
  PROVE  LET g == Append(h, n)
         IN /\ DOMAIN g = 1..(Len(h) + 1)
            /\ \A i \in 1..Len(h) : g[i] = h[i]
            /\ g[Len(h) + 1] = n
            /\ \A i, j \in DOMAIN g : i < j => g[i] < g[j]
<1>1. /\ Len(Append(h, n)) = Len(h) + 1 /\ Append(h, n) \in Seq(Nat)
      /\ \A i \in 1..Len(h) : Append(h, n)[i] = h[i]
      /\ Append(h, n)[Len(h) + 1] = n
  BY AppendProperties
<1>2. DOMAIN Append(h, n) = 1..(Len(h) + 1) /\ DOMAIN h = 1..Len(h)
  BY <1>1
<1>3. QED
  BY <1>1, <1>2

LEMMA HeardCopy ==
  ASSUME TypeOK, OrderInv, HeardInv, CopyLog
  PROVE  HeardInv'
<1> DEFINE w == IF log = <<>> THEN 0 ELSE Last(log).seq
           o == IF log = <<>> THEN 0 ELSE Head(log).id
<1>1. /\ socket.pc = "subscribed"
      /\ socket' = [socket EXCEPT !.pc = "replaying", !.replay = log,
                      !.watermark = w, !.oldest = o]
      /\ UNCHANGED <<scan, push, gone, sequence, log, sent, client, spent>>
  BY DEF CopyLog
<1>2. \A j \in DOMAIN log : log[j].seq <= w
  <2> SUFFICES ASSUME NEW j \in DOMAIN log PROVE log[j].seq <= w
    OBVIOUS
  <2>1. log \in Seq(Envelopes) /\ log # <<>>
    BY DEF TypeOK
  <2>2. Len(log) \in DOMAIN log /\ w = log[Len(log)].seq
    BY <2>1, LastInside
  <2>3. log[j].seq \in Nat /\ log[Len(log)].seq \in Nat
    BY <2>1, <2>2, SeqNumbers
  <2>4. j = Len(log) \/ j < Len(log)
    BY <2>1
  <2>5. QED
    BY <2>2, <2>3, <2>4 DEF OrderInv, Ordered
<1> HIDE DEF w, o
<1>3. /\ socket'.pc = "replaying" /\ socket'.replay = log
      /\ socket'.watermark = w /\ socket'.heard = socket.heard
      /\ socket'.opened = socket.opened /\ socket'.next = socket.next
  BY <1>1 DEF TypeOK, Sockets
<1>4. socket.heard = <<>>
  BY <1>1 DEF HeardInv, ReplayInv
<1>5. ChannelInv'
  BY <1>1, <1>3 DEF HeardInv, ChannelInv
<1>6. ReplayInv'
  BY <1>2, <1>3, <1>4, <1>1 DEF OrderInv, Ordered, ReplayInv
<1>7. QED
  BY <1>3, <1>4, <1>5, <1>6 DEF HeardInv, LiveInv, HeardInOrder

LEMMA HeardReplay ==
  ASSUME TypeOK, OrderInv, HeardInv, SendReplay
  PROVE  HeardInv'
<1>0. /\ socket.pc = "replaying" /\ UNCHANGED <<push, sequence, sent>>
      /\ socket.replay \in Seq(Envelopes) /\ socket.heard \in Seq(Nat)
      /\ socket \in Sockets
  BY DEF SendReplay, TypeOK, Sockets
<1>1. CASE socket.replay = <<>>
  <2>1. socket' = [socket EXCEPT !.pc = "live"]
    BY <1>1 DEF SendReplay
  <2>2. /\ socket'.pc = "live" /\ socket'.heard = socket.heard
        /\ socket'.watermark = socket.watermark
        /\ socket'.opened = socket.opened /\ socket'.next = socket.next
    BY <1>0, <2>1 DEF Sockets
  <2>3. ChannelInv'
    BY <1>0, <2>2 DEF HeardInv, ChannelInv
  <2>4. QED
    BY <1>0, <2>2, <2>3 DEF HeardInv, ReplayInv, LiveInv, HeardInOrder
<1>2. CASE socket.replay # <<>>
  <2> DEFINE r == socket.replay
             e == Head(socket.replay)
  <2>1. socket' = [socket EXCEPT !.replay = Tail(r),
                                 !.heard = Append(socket.heard, e.seq)]
    BY <1>2 DEF SendReplay
  <2>2. /\ e \in Envelopes /\ e.seq \in Nat /\ e = r[1] /\ 1 \in DOMAIN r
        /\ Tail(r) \in Seq(Envelopes) /\ Len(Tail(r)) = Len(r) - 1
        /\ \A i \in 1..Len(Tail(r)) : Tail(r)[i] = r[i + 1]
    <3>1. e \in Envelopes /\ e = r[1] /\ 1 \in DOMAIN r
      BY <1>0, <1>2, LastInside
    <3>2. e.seq \in Nat
      BY <3>1 DEF Envelopes
    <3>3. QED
      BY <1>0, <1>2, <3>1, <3>2, HeadTailProperties
  <2>3. /\ socket'.pc = "replaying" /\ socket'.replay = Tail(r)
        /\ socket'.heard = Append(socket.heard, e.seq)
        /\ socket'.watermark = socket.watermark
        /\ socket'.opened = socket.opened /\ socket'.next = socket.next
    BY <1>0, <2>1 DEF Sockets
  <2>4. /\ Ordered(r) /\ \A j \in DOMAIN r : r[j].seq <= socket.watermark
        /\ \A i \in DOMAIN socket.heard :
             /\ socket.heard[i] <= socket.watermark
             /\ \A j \in DOMAIN r : socket.heard[i] < r[j].seq
    BY <1>0 DEF HeardInv, ReplayInv
  <2> DEFINE g == Append(socket.heard, e.seq)
  <2>5. /\ DOMAIN g = 1..(Len(socket.heard) + 1)
        /\ \A i \in 1..Len(socket.heard) : g[i] = socket.heard[i]
        /\ g[Len(socket.heard) + 1] = e.seq
        /\ \A i, j \in DOMAIN g : i < j => g[i] < g[j]
    <3>1. \A i \in DOMAIN socket.heard : socket.heard[i] < e.seq
      BY <2>2, <2>4
    <3>2. \A i, j \in DOMAIN socket.heard :
            i < j => socket.heard[i] < socket.heard[j]
      BY DEF HeardInv, HeardInOrder
    <3>3. QED
      BY <1>0, <2>2, <3>1, <3>2, HeardMore
  <2>6. /\ DOMAIN Tail(r) = 1..(Len(r) - 1) /\ DOMAIN r = 1..Len(r)
        /\ Len(r) \in Nat /\ Len(socket.heard) \in Nat
        /\ DOMAIN socket.heard = 1..Len(socket.heard)
    BY <1>0, <2>2
  <2>7. \A j \in DOMAIN Tail(r) :
          j + 1 \in DOMAIN r /\ 1 < j + 1 /\ Tail(r)[j] = r[j + 1]
    BY <2>2, <2>6
  <2> HIDE DEF r, e, g
  <2>8. Ordered(Tail(r))
    <3> SUFFICES ASSUME NEW i \in DOMAIN Tail(r), NEW j \in DOMAIN Tail(r), i < j
                 PROVE  Tail(r)[i].seq < Tail(r)[j].seq
      BY DEF Ordered
    <3>1. i + 1 < j + 1
      BY <2>6
    <3>2. QED
      BY <2>4, <2>7, <3>1 DEF Ordered
  <2>9. \A j \in DOMAIN Tail(r) :
          Tail(r)[j].seq <= socket.watermark /\ e.seq < Tail(r)[j].seq
    BY <2>2, <2>4, <2>7 DEF Ordered
  <2>10. \A i \in DOMAIN g :
           /\ g[i] <= socket.watermark
           /\ \A j \in DOMAIN Tail(r) : g[i] < Tail(r)[j].seq
    <3> SUFFICES ASSUME NEW i \in DOMAIN g
                 PROVE  /\ g[i] <= socket.watermark
                        /\ \A j \in DOMAIN Tail(r) : g[i] < Tail(r)[j].seq
      OBVIOUS
    <3>1. CASE i = Len(socket.heard) + 1
      BY <2>2, <2>4, <2>5, <2>9, <3>1
    <3>2. CASE i # Len(socket.heard) + 1
      <4>1. i \in DOMAIN socket.heard /\ g[i] = socket.heard[i]
        BY <2>5, <2>6, <3>2
      <4>2. QED
        BY <2>4, <2>7, <4>1
    <3>3. QED
      BY <3>1, <3>2
  <2>11. socket'.heard = g
    BY <2>3 DEF g
  <2>12. ReplayInv'
    BY <2>3, <2>8, <2>9, <2>10, <2>11 DEF ReplayInv, Ordered
  <2>13. ChannelInv'
    BY <1>0, <2>3 DEF HeardInv, ChannelInv
  <2>14. HeardInOrder'
    BY <2>5, <2>11 DEF HeardInOrder
  <2>15. QED
    BY <2>3, <2>12, <2>13, <2>14 DEF HeardInv, LiveInv
<1>3. QED
  BY <1>1, <1>2

LEMMA HeardReceive ==
  ASSUME TypeOK, OrderInv, HeardInv, Receive
  PROVE  HeardInv'
<1> DEFINE e == sent[socket.next]
<1>0. /\ socket.pc = "live" /\ UNCHANGED <<push, sequence, sent>>
      /\ socket.next <= Len(sent)
      /\ socket.heard \in Seq(Nat) /\ socket \in Sockets
      /\ sent \in Seq(Envelopes) /\ Len(sent) \in Nat
      /\ socket.next \in Nat /\ socket.opened \in Nat /\ socket.watermark \in Nat
  BY DEF Receive, TypeOK, Sockets
<1>1. /\ socket.opened >= 1 /\ socket.next >= socket.opened
      /\ \A i, j \in socket.opened..Len(sent) :
           i < j => sent[i].seq < sent[j].seq
  BY <1>0 DEF HeardInv, ChannelInv
<1>2. e \in Envelopes /\ e.seq \in Nat /\ socket.next \in 1..Len(sent)
  BY <1>0, <1>1, SeqNumbers
<1>3. \A i \in DOMAIN socket.heard :
        \/ socket.heard[i] <= socket.watermark
        \/ \E k \in socket.opened..(socket.next - 1) :
             k <= Len(sent) /\ socket.heard[i] = sent[k].seq
  BY <1>0 DEF HeardInv, LiveInv
<1>4. \A k \in socket.opened..(socket.next - 1) :
        k \in socket.opened..(socket.next + 1 - 1)
  BY <1>0
<1>5. CASE e.seq <= socket.watermark
  <2>1. socket' = [socket EXCEPT !.next = socket.next + 1]
    BY <1>5 DEF Receive
  <2>2. /\ socket'.pc = "live" /\ socket'.heard = socket.heard
        /\ socket'.watermark = socket.watermark
        /\ socket'.opened = socket.opened /\ socket'.next = socket.next + 1
    BY <1>0, <2>1 DEF Sockets
  <2>3. ChannelInv'
    BY <1>0, <2>2 DEF HeardInv, ChannelInv
  <2>4. LiveInv'
    BY <1>0, <1>3, <1>4, <2>2 DEF LiveInv
  <2>5. QED
    BY <2>2, <2>3, <2>4 DEF HeardInv, ReplayInv, HeardInOrder
<1>6. CASE ~(e.seq <= socket.watermark)
  <2>1. socket' = [socket EXCEPT !.next = socket.next + 1,
                                 !.heard = Append(socket.heard, e.seq)]
    BY <1>6 DEF Receive
  <2>2. /\ socket'.pc = "live" /\ socket'.heard = Append(socket.heard, e.seq)
        /\ socket'.watermark = socket.watermark
        /\ socket'.opened = socket.opened /\ socket'.next = socket.next + 1
    BY <1>0, <2>1 DEF Sockets
  <2> DEFINE g == Append(socket.heard, e.seq)
  <2>3. /\ DOMAIN g = 1..(Len(socket.heard) + 1)
        /\ \A i \in 1..Len(socket.heard) : g[i] = socket.heard[i]
        /\ g[Len(socket.heard) + 1] = e.seq
        /\ \A i, j \in DOMAIN g : i < j => g[i] < g[j]
    <3>1. ASSUME NEW i \in DOMAIN socket.heard
          PROVE  socket.heard[i] < e.seq
      <4>1. CASE socket.heard[i] <= socket.watermark
        <5>1. socket.heard[i] \in Nat
          BY <1>0
        <5>2. QED
          BY <1>0, <1>2, <1>6, <4>1, <5>1
      <4>2. ASSUME NEW k \in socket.opened..(socket.next - 1),
                   socket.heard[i] = sent[k].seq
            PROVE  socket.heard[i] < e.seq
        <5>1. /\ k \in socket.opened..Len(sent) /\ k < socket.next
              /\ socket.next \in socket.opened..Len(sent)
          BY <1>0, <1>1, <4>2
        <5>2. QED
          BY <1>1, <4>2, <5>1
      <4>3. QED
        BY <1>3, <4>1, <4>2
    <3>2. \A i, j \in DOMAIN socket.heard :
            i < j => socket.heard[i] < socket.heard[j]
      BY DEF HeardInv, HeardInOrder
    <3>3. QED
      BY <1>0, <1>2, <3>1, <3>2, HeardMore
  <2>4. ChannelInv'
    BY <1>0, <2>2 DEF HeardInv, ChannelInv
  <2>5. ASSUME NEW i \in DOMAIN g
        PROVE  \/ g[i] <= socket.watermark
               \/ \E k \in socket.opened..(socket.next + 1 - 1) :
                    k <= Len(sent) /\ g[i] = sent[k].seq
    <3>1. CASE i = Len(socket.heard) + 1
      <4>1. socket.next \in socket.opened..(socket.next + 1 - 1)
        BY <1>0, <1>1
      <4>2. g[i] = e.seq
        BY <2>3, <3>1
      <4>3. QED
        BY <1>0, <4>1, <4>2
    <3>2. CASE i # Len(socket.heard) + 1
      <4>1. i \in DOMAIN socket.heard /\ g[i] = socket.heard[i]
        BY <1>0, <2>3, <3>2
      <4>2. QED
        BY <1>3, <1>4, <4>1
    <3>3. QED
      BY <3>1, <3>2
  <2>6. socket'.heard = g
    BY <2>2
  <2> HIDE DEF g, e
  <2>7. LiveInv'
    BY <1>0, <2>2, <2>5, <2>6 DEF LiveInv
  <2>8. HeardInOrder'
    BY <2>3, <2>6 DEF HeardInOrder
  <2>9. QED
    BY <2>2, <2>4, <2>7, <2>8 DEF HeardInv, ReplayInv
<1>7. QED
  BY <1>5, <1>6

LEMMA HeardLag ==
  ASSUME TypeOK, OrderInv, HeardInv, Lag
  PROVE  HeardInv'
<1> DEFINE n == Len(sent) - RingSize + 1
<1>1. /\ socket.pc = "live" /\ Lagging /\ UNCHANGED <<push, sequence, sent>>
      /\ socket' = [socket EXCEPT !.next = n] /\ socket \in Sockets
      /\ Len(sent) \in Nat /\ socket.next \in Nat /\ socket.opened \in Nat
  BY DEF Lag, TypeOK, Sockets
<1>2. n \in Nat /\ n >= socket.next
  BY <1>1, StreamAssumption DEF Lagging
<1> HIDE DEF n
<1>3. /\ socket'.pc = "live" /\ socket'.heard = socket.heard
      /\ socket'.watermark = socket.watermark
      /\ socket'.opened = socket.opened /\ socket'.next = n
  BY <1>1 DEF Sockets
<1>4. socket.next >= socket.opened
  BY <1>1 DEF HeardInv, ChannelInv
<1>5. n >= socket.opened
  BY <1>1, <1>2, <1>4
<1>6. ChannelInv'
  BY <1>1, <1>3, <1>5 DEF HeardInv, ChannelInv
<1>7. \A k \in socket.opened..(socket.next - 1) : k \in socket.opened..(n - 1)
  BY <1>1, <1>2
<1>8. LiveInv'
  BY <1>1, <1>3, <1>7 DEF HeardInv, LiveInv
<1>9. QED
  BY <1>3, <1>6, <1>8 DEF HeardInv, ReplayInv, HeardInOrder

LEMMA HeardElse ==
  ASSUME TypeOK, OrderInv, HeardInv, Subscribe \/ Drop \/ Restart
  PROVE  HeardInv'
<1>1. CASE Subscribe
  <2>1. socket' = [Closed EXCEPT !.pc = "subscribed", !.opened = Len(sent) + 1,
                                 !.next = Len(sent) + 1]
        /\ UNCHANGED <<push, sequence, sent>>
    BY <1>1 DEF Subscribe
  <2>2. /\ socket'.pc = "subscribed" /\ socket'.heard = <<>>
        /\ socket'.opened = Len(sent) + 1 /\ socket'.next = Len(sent) + 1
    BY <2>1 DEF Closed
  <2>3. Len(sent) \in Nat
    BY DEF TypeOK
  <2>4. socket'.opened..Len(sent) = {} /\ socket'.opened >= 1
    BY <2>2, <2>3
  <2>5. QED
    BY <2>1, <2>2, <2>3, <2>4 DEF HeardInv, ChannelInv, ReplayInv, LiveInv,
                                  HeardInOrder
<1>2. CASE Drop \/ Restart
  BY <1>2 DEF Drop, Restart, Closed, HeardInv, ChannelInv, ReplayInv, LiveInv,
              HeardInOrder
<1>3. QED
  BY <1>1, <1>2

LEMMA HeardStep ==
  ASSUME TypeOK, OrderInv, HeardInv, [Next]_vars
  PROVE  HeardInv'
<1>1. CASE SocketStep
  BY <1>1, HeardCopy, HeardReplay, HeardReceive, HeardLag DEF SocketStep
<1>2. CASE ForgetSequence \/ UNCHANGED vars
  BY <1>2 DEF ForgetSequence, vars, HeardInv, ChannelInv, ReplayInv, LiveInv, HeardInOrder
<1>3. QED
  BY <1>1, <1>2, HeardScan, HeardElse DEF Next

\* With one scan at a time, no connection hears an event twice or late,
\* whatever is published while it subscribes, copies the log and replays it,
\* and however often it lags.  (open_events_socket)
THEOREM HeardStaysInOrder == ASSUME MaxScans = 1 PROVE Spec => []HeardInOrder
<1>1. Init => TypeOK /\ Placed /\ OrderInv /\ HeardInv
  BY TypeInit, OrderInit, HeardInit DEF Init, Placed, Closed
<1>2. TypeOK /\ Placed /\ OrderInv /\ HeardInv /\ [Next]_vars
        => (TypeOK /\ Placed /\ OrderInv /\ HeardInv)'
  BY TypeStep, OrderStep, HeardStep
<1>3. HeardInv => HeardInOrder
  BY DEF HeardInv
<1>4. QED
  BY <1>1, <1>2, <1>3, PTL DEF Spec

-----------------------------------------------------------------------------
(* What the client missed *)

\* As long as the daemon is not started again, the sequence number of an event
\* is its place in the channel, for every number that was drawn is published
\* before the next is drawn.
PlacesCounted ==
  /\ \A i \in DOMAIN sent : sent[i].id = i /\ sent[i].seq = i
  /\ \A s \in Sessions : push[s].at = "publish" =>
       push[s].seq = Len(sent) + 1 /\ sequence = Len(sent) + 2
  /\ (\A s \in Sessions : push[s].at # "publish") => sequence = Len(sent) + 1

WasSent(e) == e.seq \in 1..Len(sent) /\ e.id = e.seq

CopiesSent ==
  /\ \A k \in DOMAIN log : WasSent(log[k])
  /\ \A k \in DOMAIN socket.replay : WasSent(socket.replay[k])

\* The client has heard nothing above its last sequence number, and that one.
ClientInv ==
  /\ client.got \subseteq 1..Len(sent)
  /\ client.last = 0 => client.got = {} /\ client.first = 0
  /\ client.last # 0 => client.last \in client.got /\ client.first # 0
  /\ \A j \in client.got : j <= client.last
  /\ GapsNoticed

GapInv == PlacesCounted /\ CopiesSent /\ ClientInv

LEMMA GapInit == Init => GapInv
BY DEF Init, GapInv, PlacesCounted, CopiesSent, ClientInv, GapsNoticed, NoPush,
       Closed, NewClient

LEMMA HearGaps ==
  ASSUME TypeOK, ClientInv, NEW e, WasSent(e), Hear(e), UNCHANGED sent
  PROVE  ClientInv'
<1>1. /\ client \in Clients /\ sent \in Seq(Envelopes)
      /\ Len(sent) \in Nat /\ DOMAIN sent = 1..Len(sent)
      /\ e.seq \in 1..Len(sent) /\ e.id = e.seq
      /\ client.last \in Nat /\ client.first \in Nat /\ client.refreshed \in Nat
  BY DEF TypeOK, WasSent, Clients
<1>2. PICK n \in 1..Len(sent) : n = e.seq
  BY <1>1
<1>3. /\ client'.last = IF n > client.last THEN n ELSE client.last
      /\ client'.first = IF client.first = 0 THEN n ELSE client.first
      /\ client'.got = client.got \cup {n}
      /\ client'.refreshed = IF client.last # 0 /\ n > client.last + 1
                             THEN n ELSE client.refreshed
  BY <1>1, <1>2 DEF Hear
<1>4. /\ client'.got \subseteq 1..Len(sent)
      /\ client'.last # 0 /\ client'.last \in client'.got /\ client'.first # 0
      /\ \A j \in client'.got : j <= client'.last
  BY <1>1, <1>2, <1>3 DEF ClientInv
<1>5. ASSUME NEW i \in 1..Len(sent), i \notin client'.got, i > client'.first,
             NEW j \in client'.got, i < j
      PROVE  i < client'.refreshed
  <2>1. client.last # 0
    <3>1. CASE client.last = 0
      BY <1>1, <1>3, <1>5, <3>1 DEF ClientInv
    <3>2. QED
      BY <3>1
  <2>2. /\ i \notin client.got /\ i > client.first /\ i # n
        /\ client.last \in client.got /\ client.first # 0
    BY <1>3, <1>5, <2>1 DEF ClientInv
  <2>3. \A k \in client.got : i < k => i < client.refreshed
    BY <1>1, <2>2 DEF ClientInv, GapsNoticed
  <2>4. CASE n > client.last + 1
    <3>1. client'.refreshed = n /\ j <= n
      BY <1>1, <1>3, <1>4, <1>5, <2>1, <2>4
    <3>2. i # n /\ i < j /\ j \in 1..Len(sent) /\ i \in 1..Len(sent)
      BY <1>4, <1>5, <2>2
    <3>3. QED
      BY <1>1, <3>1, <3>2
  <2>5. CASE ~(n > client.last + 1)
    <3>1. client'.refreshed = client.refreshed
      BY <1>3, <2>5
    <3>2. j <= client.last + 1
      BY <1>1, <1>3, <1>4, <1>5, <2>5
    <3>3. i < client.last
      BY <1>1, <1>4, <1>5, <2>2, <3>2
    <3>4. QED
      BY <2>2, <2>3, <3>1, <3>3
  <2>6. QED
    BY <2>4, <2>5
<1>6. GapsNoticed'
  BY <1>1, <1>5 DEF GapsNoticed
<1>7. QED
  BY <1>1, <1>4, <1>6 DEF ClientInv

\* A new event is above all that the client has heard.
LEMMA PublishGaps ==
  ASSUME TypeOK, OrderInv, GapInv, NEW s \in Sessions, Publish(s)
  PROVE  GapInv'
<1> DEFINE e == [id |-> Len(sent) + 1, seq |-> push[s].seq, session |-> s,
                 kind |-> push[s].kind]
<1>1. /\ e \in Envelopes /\ e.id = Len(sent) + 1 /\ e.seq = Len(sent) + 1
      /\ sequence = Len(sent) + 2
  BY DEF TypeOK, Pushes, Envelopes, Publish, GapInv, PlacesCounted
<1>2. PICK i \in 0..Len(log) : log' = Append(Evicted(Without(i)), e)
  BY DEF Publish
<1>3. /\ sent' = Append(sent, e)
      /\ push' = [push EXCEPT ![s] = NoPush] /\ push[s].at = "publish"
      /\ UNCHANGED <<scan, gone, sequence, socket, client, spent>>
  BY DEF Publish
<1> HIDE DEF e
<1>4. /\ Len(sent') = Len(sent) + 1 /\ Len(sent) \in Nat
      /\ DOMAIN sent = 1..Len(sent) /\ DOMAIN sent' = 1..(Len(sent) + 1)
      /\ \A k \in 1..Len(sent) : sent'[k] = sent[k]
      /\ sent'[Len(sent) + 1] = e
  BY <1>1, <1>3, AppendProperties DEF TypeOK
<1>5. \A t \in Sessions : push'[t].at = "none"
  BY <1>3 DEF OrderInv, OneScan, PushRunning, TypeOK, NoPush
<1>6. PlacesCounted'
  <2>1. \A k \in DOMAIN sent' : sent'[k].id = k /\ sent'[k].seq = k
    BY <1>1, <1>4 DEF GapInv, PlacesCounted
  <2>2. sequence' = Len(sent') + 1
    BY <1>1, <1>3, <1>4
  <2>3. QED
    BY <1>5, <2>1, <2>2 DEF PlacesCounted
<1>7. \A x : WasSent(x) => WasSent(x)'
  BY <1>4 DEF WasSent
<1>8. CopiesSent'
  <2>1. \A k \in DOMAIN log' : log'[k] = e \/ \E j \in DOMAIN log : log'[k] = log[j]
    BY <1>1, <1>2, LogAfter
  <2>2. e.seq \in 1..Len(sent') /\ e.id = e.seq
    BY <1>1, <1>4
  <2>3. \A k \in DOMAIN log' : log'[k].seq \in 1..Len(sent') /\ log'[k].id = log'[k].seq
    BY <1>7, <2>1, <2>2 DEF GapInv, CopiesSent, WasSent
  <2>4. QED
    BY <1>3, <1>4, <2>3 DEF GapInv, CopiesSent, WasSent
<1>9. ClientInv'
  <2>1. client.got \subseteq 1..Len(sent')
    BY <1>4 DEF GapInv, ClientInv
  <2>2. GapsNoticed'
    <3> SUFFICES ASSUME NEW k \in 1..(Len(sent) + 1), k \notin client.got,
                        k > client.first, NEW j \in client.got, k < j
                 PROVE  k < client.refreshed
      BY <1>3, <1>4 DEF GapsNoticed
    <3>1. j \in 1..Len(sent)
      BY DEF GapInv, ClientInv
    <3>2. k \in DOMAIN sent
      BY <1>4, <3>1
    <3>3. QED
      BY <3>2 DEF GapInv, ClientInv, GapsNoticed
  <2>3. QED
    BY <1>3, <2>1, <2>2 DEF GapInv, ClientInv
<1>10. QED
  BY <1>6, <1>8, <1>9 DEF GapInv

LEMMA ScanGaps ==
  ASSUME TypeOK, OrderInv, GapInv, NEW s \in Sessions,
         Admit(s) \/ ScanStep(s) \/ Dispose(s)
  PROVE  GapInv'
<1>1. CASE Admit(s) \/ EndScan(s) \/ Dispose(s)
  BY <1>1 DEF Admit, EndScan, Dispose, GapInv, PlacesCounted, CopiesSent, WasSent,
              ClientInv, GapsNoticed
<1>2. CASE EmitStarted(s) \/ EmitUpdate(s) \/ EmitFinal(s)
  <2>1. PICK kind \in Kinds : Record(s, kind)
    BY <1>2 DEF EmitStarted, EmitUpdate, EmitFinal, Kinds
  <2>2. /\ \A t \in Sessions : \/ push'[t] = push[t]
                               \/ /\ t = s /\ push[t].at = "none"
                                  /\ push'[t].at = "number"
        /\ UNCHANGED <<sequence, log, sent, socket, client>>
    BY <2>1 DEF Record, TypeOK
  <2>3. PlacesCounted'
    BY <2>2 DEF GapInv, PlacesCounted
  <2>4. QED
    BY <2>2, <2>3 DEF GapInv, CopiesSent, WasSent, ClientInv, GapsNoticed
<1>3. CASE Number(s)
  <2>1. /\ push[s].at = "number" /\ sequence' = sequence + 1
        /\ push' = [push EXCEPT ![s] =
                      [push[s] EXCEPT !.at = "publish", !.seq = sequence]]
        /\ UNCHANGED <<scan, gone, log, sent, socket, client>>
    BY <1>3 DEF Number
  <2>2. push[s] \in Pushes /\ sequence \in Nat /\ Len(sent) \in Nat
    BY DEF TypeOK
  <2>3. /\ push'[s].at = "publish" /\ push'[s].seq = sequence
        /\ \A t \in Sessions \ {s} : push'[t] = push[t]
    BY <2>1, <2>2 DEF TypeOK, Pushes
  <2>4. \A t \in Sessions \ {s} : push[t].at = "none"
    BY <2>1 DEF OrderInv, OneScan, PushRunning
  <2>5. sequence = Len(sent) + 1
    BY <2>1, <2>4 DEF GapInv, PlacesCounted
  <2>6. PlacesCounted'
    BY <2>1, <2>2, <2>3, <2>4, <2>5 DEF GapInv, PlacesCounted
  <2>7. QED
    BY <2>1, <2>6 DEF GapInv, CopiesSent, WasSent, ClientInv, GapsNoticed
<1>4. CASE Publish(s)
  BY <1>4, PublishGaps
<1>5. QED
  BY <1>1, <1>2, <1>3, <1>4 DEF ScanStep

LEMMA SocketGaps ==
  ASSUME TypeOK, Placed, GapInv, SocketStep
  PROVE  GapInv'
<1>1. /\ UNCHANGED <<push, sequence, log, sent>>
      /\ socket \in Sockets /\ sent \in Seq(Envelopes)
  BY DEF SocketStep, CopyLog, SendReplay, Receive, Lag, TypeOK
<1>2. PlacesCounted'
  BY <1>1 DEF GapInv, PlacesCounted
<1>3. \A x : WasSent(x) => WasSent(x)'
  BY <1>1 DEF WasSent
<1>4. CASE CopyLog
  <2>1. socket'.replay = log /\ UNCHANGED client
    BY <1>1, <1>4 DEF CopyLog, Sockets
  <2>2. QED
    BY <1>1, <1>2, <2>1 DEF GapInv, CopiesSent, WasSent, ClientInv, GapsNoticed
<1>5. CASE SendReplay /\ socket.replay = <<>>
  <2>1. socket'.replay = socket.replay /\ UNCHANGED client
    BY <1>1, <1>5 DEF SendReplay, Sockets
  <2>2. QED
    BY <1>1, <1>2, <2>1 DEF GapInv, CopiesSent, WasSent, ClientInv, GapsNoticed
<1>6. CASE SendReplay /\ socket.replay # <<>>
  <2> DEFINE r == socket.replay
  <2>1. Hear(Head(r)) /\ socket' = [socket EXCEPT !.replay = Tail(r),
                                       !.heard = Append(@, Head(r).seq)]
    BY <1>6 DEF SendReplay
  <2>2. r \in Seq(Envelopes) /\ socket'.replay = Tail(r)
    BY <1>1, <2>1 DEF Sockets
  <2>3. /\ Head(r) = r[1] /\ 1 \in DOMAIN r
        /\ \A k \in DOMAIN Tail(r) : k + 1 \in DOMAIN r /\ Tail(r)[k] = r[k + 1]
    <3>1. /\ Tail(r) \in Seq(Envelopes) /\ Len(Tail(r)) = Len(r) - 1
          /\ \A k \in 1..Len(Tail(r)) : Tail(r)[k] = r[k + 1]
      BY <1>6, <2>2, HeadTailProperties
    <3>2. Head(r) = r[1] /\ 1 \in DOMAIN r
      BY <1>6, <2>2, LastInside
    <3>3. DOMAIN Tail(r) = 1..(Len(r) - 1) /\ DOMAIN r = 1..Len(r) /\ Len(r) \in Nat
      BY <2>2, <3>1
    <3>4. QED
      BY <3>1, <3>2, <3>3
  <2>4. \A k \in DOMAIN r : WasSent(r[k])
    BY DEF GapInv, CopiesSent
  <2>5. WasSent(Head(r))
    BY <2>3, <2>4
  <2>6. ClientInv'
    BY <1>1, <2>1, <2>5, HearGaps DEF GapInv
  <2>7. \A k \in DOMAIN Tail(r) : WasSent(Tail(r)[k])
    BY <2>3, <2>4
  <2>8. CopiesSent'
    BY <1>1, <2>2, <2>7 DEF GapInv, CopiesSent, WasSent
  <2>9. QED
    BY <1>2, <2>6, <2>8 DEF GapInv
<1>7. CASE Receive
  <2>1. socket.next \in 1..Len(sent)
    BY <1>1, <1>7 DEF Receive, Placed, Sockets
  <2>2. WasSent(sent[socket.next])
    BY <1>1, <2>1 DEF GapInv, PlacesCounted, WasSent
  <2>3. socket'.replay = socket.replay
    BY <1>1, <1>7 DEF Receive, Sockets
  <2>4. Hear(sent[socket.next]) \/ UNCHANGED client
    BY <1>7 DEF Receive
  <2>5. ClientInv'
    BY <1>1, <2>2, <2>4, HearGaps DEF GapInv, ClientInv, GapsNoticed
  <2>6. QED
    BY <1>1, <1>2, <2>3, <2>5 DEF GapInv, CopiesSent, WasSent
<1>8. CASE Lag
  <2>1. socket'.replay = socket.replay /\ UNCHANGED client
    BY <1>1, <1>8 DEF Lag, Sockets
  <2>2. QED
    BY <1>1, <1>2, <2>1 DEF GapInv, CopiesSent, WasSent, ClientInv, GapsNoticed
<1>9. QED
  BY <1>4, <1>5, <1>6, <1>7, <1>8 DEF SocketStep

LEMMA GapStep ==
  ASSUME MaxRestarts = 0, TypeOK, Placed, OrderInv, GapInv, [Next]_vars
  PROVE  GapInv'
<1>1. CASE Subscribe \/ Drop
  <2>1. socket'.replay = <<>> /\ UNCHANGED <<push, sequence, log, sent, client>>
    <3>1. CASE Subscribe
      <4>1. socket' = [Closed EXCEPT !.pc = "subscribed", !.opened = Len(sent) + 1,
                                     !.next = Len(sent) + 1]
        BY <3>1 DEF Subscribe
      <4>2. socket'.replay = Closed.replay
        BY <4>1 DEF Closed
      <4>3. QED
        BY <3>1, <4>2 DEF Subscribe, Closed
    <3>2. CASE Drop
      BY <3>2 DEF Drop, Closed
    <3>3. QED
      BY <1>1, <3>1, <3>2
  <2>2. QED
    BY <2>1 DEF GapInv, PlacesCounted, CopiesSent, WasSent, ClientInv, GapsNoticed
<1>2. CASE ForgetSequence
  BY <1>2 DEF ForgetSequence, NewClient, GapInv, PlacesCounted, CopiesSent,
              WasSent, ClientInv, GapsNoticed
<1>3. ~Restart
  BY DEF Restart, TypeOK
<1>4. CASE UNCHANGED vars
  BY <1>4 DEF vars, GapInv, PlacesCounted, CopiesSent, WasSent, ClientInv, GapsNoticed
<1>5. QED
  BY <1>1, <1>2, <1>3, <1>4, ScanGaps, SocketGaps DEF Next

\* With one scan at a time and a daemon that is not started again, the client
\* asks for the status after every gap in what it hears, however often it
\* lags, reconnects or forgets its number.  (_recordEventSequence,
\* open_events_socket)
THEOREM GapsAreNoticed ==
  ASSUME MaxScans = 1, MaxRestarts = 0
  PROVE  Spec => []GapsNoticed
<1>1. Init => TypeOK /\ Placed /\ OrderInv /\ GapInv
  BY TypeInit, OrderInit, GapInit DEF Init, Placed, Closed
<1>2. TypeOK /\ Placed /\ OrderInv /\ GapInv /\ [Next]_vars
        => (TypeOK /\ Placed /\ OrderInv /\ GapInv)'
  BY TypeStep, OrderStep, GapStep
<1>3. GapInv => GapsNoticed
  BY DEF GapInv, ClientInv
<1>4. QED
  BY <1>1, <1>2, <1>3, PTL DEF Spec

-----------------------------------------------------------------------------
(* The inductive invariant of the query cursors. *)

\* What is followed of the types: the cursors and the handlers.
QueriesTyped ==
  /\ cursorSeq \in Tokens
  /\ query \in [Queriers -> Queries \cup {NoQuery}]
  /\ \A t \in DOMAIN registry.values : registry.values[t] \in Cursors

\* A cursor of the registry has nodes after it.
CursorsHaveMore ==
  \A t \in DOMAIN registry.values :
    registry.values[t].offset < Length[registry.values[t].listing]

\* A query begins at the start of its listing or at a cursor.  One that hands
\* out a cursor has read some nodes and not the last.
QueryKeeps(r) ==
  /\ r.pc = "resolved" =>
       r.token = NoToken /\ (r.from = 0 \/ r.from < Length[r.listing])
  /\ r.pc \in {"number", "store"} =>
       r.from < r.upto /\ r.upto < Length[r.listing] /\ r.next = r.upto
  /\ r.pc = "store" => r.token # NoToken
  /\ r.pc = "answered" =>
       /\ r.token # NoToken <=> r.upto < Length[r.listing]
       /\ Length[r.listing] > 0 => r.from < r.upto

QueriesKeep == \A q \in Queriers : QueryKeeps(query[q])

Inv == QueriesTyped /\ CursorsHaveMore /\ QueriesKeep

-----------------------------------------------------------------------------
LEMMA InitInv == QueryInit => Inv
<1> SUFFICES ASSUME QueryInit PROVE Inv
  OBVIOUS
<1>1. cursorSeq = 1 /\ DOMAIN registry.values = {}
  BY DEF QueryInit
<1>2. \A q \in Queriers : query[q] = NoQuery /\ query[q].pc = "none"
  BY DEF QueryInit, NoQuery
<1>3. query \in [Queriers -> Queries \cup {NoQuery}]
  BY DEF QueryInit
<1>4. QED
  BY <1>1, <1>2, <1>3
  DEF Inv, QueriesTyped, CursorsHaveMore, QueriesKeep, QueryKeeps, Tokens

(* The registry. *)

\* A registry that holds what it held, but for some cursors.
LEMMA FewerCursors ==
  ASSUME Inv,
         DOMAIN registry'.values \subseteq DOMAIN registry.values,
         \A t \in DOMAIN registry'.values :
           registry'.values[t] = registry.values[t],
         UNCHANGED <<cursorSeq, query>>
  PROVE  Inv'
BY DEF Inv, QueriesTyped, CursorsHaveMore, QueriesKeep

\* A query that goes on with the registry as it is.
LEMMA QueryGoesOn ==
  ASSUME Inv, NEW q \in Queriers, NEW r \in Queries \cup {NoQuery},
         QueryKeeps(r), query' = [query EXCEPT ![q] = r],
         cursorSeq' \in Tokens, registry' = registry
  PROVE  Inv'
<1> USE DEF Inv
<1>1. QueriesTyped' /\ CursorsHaveMore'
  BY DEF QueriesTyped, CursorsHaveMore
<1>2. \A p \in Queriers : query'[p] = IF p = q THEN r ELSE query[p]
  BY DEF QueriesTyped
<1>3. QueriesKeep'
  BY <1>2 DEF QueriesKeep
<1>4. QED
  BY <1>1, <1>3

LEMMA RemoveCursorsInv ==
  ASSUME Inv, NEW s \in Snapshots, RemoveCursors(s)
  PROVE  Inv'
<1> DEFINE left == {t \in DOMAIN registry.values : registry.values[t].session = s}
<1>1. registry'.values = [t \in DOMAIN registry.values \ left |-> registry.values[t]]
  BY DEF RemoveCursors, RemoveForSession, WithoutTokens
<1>2. QED
  BY <1>1, FewerCursors DEF RemoveCursors

(* The queries. *)

\* The query that fails is forgotten.
LEMMA NoQueryKeeps == QueryKeeps(NoQuery)
BY DEF QueryKeeps, NoQuery

\* A query starts at an offset that is zero or has nodes after it.
LEMMA AskedKeeps ==
  ASSUME NEW s \in Snapshots, NEW listing \in Listings, NEW offset \in Nat,
         offset = 0 \/ offset < Length[listing]
  PROVE  Asked(s, listing, offset) \in Queries /\ QueryKeeps(Asked(s, listing, offset))
BY DEF Asked, Queries, QueryKeeps, NoToken

LEMMA AskInv ==
  ASSUME Inv, NEW q \in Queriers, AskFirst(q) \/ AskNext(q) \/ ReadNothing(q)
  PROVE  Inv'
<1>1. cursorSeq' \in Tokens /\ registry' = registry
  BY DEF Inv, QueriesTyped, AskFirst, AskNext, ReadNothing
<1>2. CASE AskFirst(q)
  <2>1. PICK s \in Snapshots, listing \in Listings :
          query' = [query EXCEPT ![q] = Asked(s, listing, 0)]
    BY <1>2 DEF AskFirst
  <2>2. /\ Asked(s, listing, 0) \in Queries
        /\ QueryKeeps(Asked(s, listing, 0))
    BY AskedKeeps
  <2>3. QED
    BY <1>1, <2>1, <2>2, QueryGoesOn
<1>3. CASE AskNext(q)
  <2>1. PICK p \in promised, s \in Snapshots, listing \in Listings :
          query' = [query EXCEPT ![q] =
            IF Found(p.token, s) /\ registry.values[p.token].listing = listing
            THEN Asked(s, listing, registry.values[p.token].offset)
            ELSE NoQuery]
    BY <1>3 DEF AskNext
  <2>2. CASE Found(p.token, s) /\ registry.values[p.token].listing = listing
    <3> DEFINE offset == registry.values[p.token].offset
    <3>1. offset \in Nat /\ offset < Length[listing]
      BY <2>2 DEF Found, Inv, QueriesTyped, CursorsHaveMore, Cursors
    <3>2. /\ Asked(s, listing, offset) \in Queries
          /\ QueryKeeps(Asked(s, listing, offset))
      BY <3>1, AskedKeeps
    <3>3. QED
      BY <1>1, <2>1, <2>2, <3>2, QueryGoesOn
  <2>3. CASE ~(Found(p.token, s) /\ registry.values[p.token].listing = listing)
    BY <1>1, <2>1, <2>3, NoQueryKeeps, QueryGoesOn
  <2>4. QED
    BY <2>2, <2>3
<1>4. CASE ReadNothing(q)
  BY <1>1, <1>4, NoQueryKeeps, QueryGoesOn DEF ReadNothing
<1>5. QED
  BY <1>2, <1>3, <1>4

\* Where a page ends: it brings nodes as long as there are some, and a cursor
\* follows it if some are left.
LEMMA PageBounds ==
  ASSUME NEW n \in Nat, NEW offset \in Nat, NEW limit \in Nat \ {0},
         offset = 0 \/ offset < n
  PROVE  LET end == PageEnd(n, offset, limit)
         IN  /\ end \in Nat /\ end <= n
             /\ n > 0 => offset < end
             /\ CursorFollows(n, offset, end) <=> end < n
             /\ end < n => offset < end
BY DEF PageEnd, CursorFollows, Least

LEMMA ReadPageInv ==
  ASSUME Inv, NEW q \in Queriers, ReadPage(q)
  PROVE  Inv'
<1> DEFINE r == query[q]
           n == Length[r.listing]
<1>1. r \in Queries /\ r.pc = "resolved"
  BY DEF ReadPage, Inv, QueriesTyped, NoQuery
<1>2. /\ n \in Nat /\ r.from \in Nat /\ r.token = NoToken
      /\ r.from = 0 \/ r.from < n
  BY <1>1, CursorAssumption DEF Inv, QueriesKeep, QueryKeeps, Queries
<1>3. PICK limit \in PageLimits :
        LET end == PageEnd(n, r.from, limit)
            follows == CursorFollows(n, r.from, end)
        IN  query' = [query EXCEPT
              ![q].upto = end,
              ![q].next = IF follows THEN CursorOffset(end) ELSE end,
              ![q].pc = IF follows THEN "number" ELSE "answered"]
  BY DEF ReadPage
<1> DEFINE end == PageEnd(n, r.from, limit)
           follows == CursorFollows(n, r.from, end)
           s == [r EXCEPT !.upto = end, !.next = end,
                          !.pc = IF follows THEN "number" ELSE "answered"]
<1>4. /\ end \in Nat /\ end <= n
      /\ n > 0 => r.from < end
      /\ follows <=> end < n
      /\ end < n => r.from < end
  BY <1>2, PageBounds, CursorAssumption
<1>5. query' = [query EXCEPT ![q] = s]
  BY <1>1, <1>3 DEF Inv, QueriesTyped, CursorOffset
<1>6. /\ s \in Queries /\ s.listing = r.listing /\ s.from = r.from
      /\ s.upto = end /\ s.next = end /\ s.token = NoToken
      /\ s.pc = IF follows THEN "number" ELSE "answered"
  <2> HIDE DEF end, follows, r
  <2>1. QED
    BY <1>1, <1>2, <1>4 DEF Queries
<1>7. QueryKeeps(s)
  <2> HIDE DEF end, follows, r, s
  <2>1. QED
    BY <1>2, <1>4, <1>6 DEF QueryKeeps
<1>8. QED
  BY <1>5, <1>6, <1>7, QueryGoesOn DEF ReadPage, Inv, QueriesTyped

LEMMA NumberCursorInv ==
  ASSUME Inv, NEW q \in Queriers, NumberCursor(q)
  PROVE  Inv'
<1> DEFINE r == query[q]
           s == [r EXCEPT !.pc = "store", !.token = cursorSeq]
<1>1. r \in Queries /\ r.pc = "number" /\ cursorSeq \in Tokens
  BY DEF NumberCursor, Inv, QueriesTyped, NoQuery
<1>2. query' = [query EXCEPT ![q] = s] /\ cursorSeq' = cursorSeq + 1
  BY <1>1 DEF NumberCursor, Inv, QueriesTyped
<1>3. /\ s \in Queries /\ s.listing = r.listing /\ s.from = r.from
      /\ s.upto = r.upto /\ s.next = r.next /\ s.pc = "store"
      /\ s.token = cursorSeq
  BY <1>1 DEF Queries, Tokens
<1>4. r.from < r.upto /\ r.upto < Length[r.listing] /\ r.next = r.upto
  BY <1>1 DEF Inv, QueriesKeep, QueryKeeps
<1> HIDE DEF r, s
<1>5. QueryKeeps(s)
  BY <1>1, <1>3, <1>4 DEF QueryKeeps, Tokens, NoToken
<1>6. cursorSeq' \in Tokens /\ registry' = registry
  BY <1>1, <1>2 DEF NumberCursor, Tokens
<1>7. QED
  BY <1>2, <1>3, <1>5, <1>6, QueryGoesOn

\* The registry may lose its oldest cursor, and gains one with nodes after it.
LEMMA StoreCursorInv ==
  ASSUME Inv, NEW q \in Queriers, StoreCursor(q)
  PROVE  Inv'
<1> DEFINE r == query[q]
           s == [r EXCEPT !.pc = "answered"]
           cursor == [session |-> r.session, listing |-> r.listing, offset |-> r.next]
<1>1. r \in Queries /\ r.pc = "store"
  BY DEF StoreCursor, Inv, QueriesTyped, NoQuery
<1>2. /\ registry' = Insert(registry, r.token, cursor)
      /\ query' = [query EXCEPT ![q] = s] /\ cursorSeq' = cursorSeq
  BY <1>1 DEF StoreCursor, Inv, QueriesTyped
<1>3. /\ r.from < r.upto /\ r.upto < Length[r.listing] /\ r.next = r.upto
      /\ r.token # NoToken
  BY <1>1 DEF Inv, QueriesKeep, QueryKeeps
<1>4. /\ s \in Queries /\ s.listing = r.listing /\ s.from = r.from
      /\ s.upto = r.upto /\ s.pc = "answered" /\ s.token = r.token
      /\ cursor \in Cursors /\ cursor.listing = r.listing /\ cursor.offset = r.next
  BY <1>1 DEF Queries, Cursors
<1> HIDE DEF s, cursor
<1>5. /\ DOMAIN registry'.values \subseteq DOMAIN registry.values \cup {r.token}
      /\ \A t \in DOMAIN registry'.values :
           registry'.values[t] = IF t = r.token THEN cursor ELSE registry.values[t]
  <2>1. PICK kept : /\ DOMAIN kept \subseteq DOMAIN registry.values
                    /\ \A t \in DOMAIN kept : kept[t] = registry.values[t]
                    /\ registry'.values = [u \in DOMAIN kept \cup {r.token} |->
                         IF u = r.token THEN cursor ELSE kept[u]]
    BY <1>2, ZenonT(60) DEF Insert, WithoutTokens
  <2>2. QED
    BY <2>1
<1>6. CursorsHaveMore'
  BY <1>3, <1>4, <1>5 DEF Inv, CursorsHaveMore
<1>7. QueriesTyped'
  BY <1>2, <1>4, <1>5 DEF Inv, QueriesTyped
<1>8. QueryKeeps(s)
  BY <1>3, <1>4 DEF QueryKeeps
<1>9. QueriesKeep'
  <2>1. \A p \in Queriers : query'[p] = IF p = q THEN s ELSE query[p]
    BY <1>2 DEF Inv, QueriesTyped
  <2>2. QED
    BY <1>8, <2>1 DEF Inv, QueriesKeep
<1>10. QED
  BY <1>6, <1>7, <1>9 DEF Inv

-----------------------------------------------------------------------------
LEMMA NextInv == Inv /\ [QueryNext]_queryVars => Inv'
<1> SUFFICES ASSUME Inv, [QueryNext]_queryVars PROVE Inv'
  OBVIOUS
<1>1. ASSUME NEW s \in Snapshots,
             PublishSnapshot(s) \/ RemoveSession(s) \/ RemoveCursors(s)
      PROVE  Inv'
  <2>1. CASE PublishSnapshot(s) \/ RemoveSession(s)
    BY <2>1, FewerCursors DEF PublishSnapshot, RemoveSession
  <2>2. CASE RemoveCursors(s)
    BY <2>2, RemoveCursorsInv
  <2>3. QED
    BY <1>1, <2>1, <2>2
<1>2. ASSUME NEW q \in Queriers,
             \/ AskFirst(q) \/ AskNext(q) \/ ReadNothing(q) \/ ReadPage(q)
             \/ NumberCursor(q) \/ StoreCursor(q)
      PROVE  Inv'
  BY <1>2, AskInv, ReadPageInv, NumberCursorInv, StoreCursorInv
<1>3. CASE UNCHANGED queryVars
  BY <1>3, FewerCursors DEF queryVars
<1>4. QED
  BY <1>1, <1>2, <1>3 DEF QueryNext

THEOREM Invariant == QuerySpec => []Inv
BY InitInv, NextInv, PTL DEF QuerySpec

\* Following the cursors of a listing ends with the whole listing, whatever
\* limits the requests name, whichever cursors the registry has dropped and
\* whichever sessions are disposed (page_node_ids, store_cursor).
THEOREM PagesAreComplete == QuerySpec => []PagesComplete
<1>1. Inv => PagesComplete
  <2> SUFFICES ASSUME Inv, NEW q \in Queriers,
                      query[q].pc \in {"number", "store", "answered"}
               PROVE  LET n == Length[query[q].listing]
                          handsOut == query[q].pc # "answered" \/ query[q].token # NoToken
                      IN  /\ handsOut <=> query[q].upto < n
                          /\ n > 0 => query[q].from < query[q].upto
    BY DEF PagesComplete
  <2>1. QueryKeeps(query[q])
    BY DEF Inv, QueriesKeep
  <2>2. QED
    BY <2>1 DEF QueryKeeps
<1>2. QED
  BY Invariant, <1>1, PTL

-----------------------------------------------------------------------------
(* What keeps the cursors of the registry: each was stored once and in the *)
(* order of the registry, and a session that is gone gets no new reader.   *)

\* Tokens are drawn once: those that were stored and those of the queries
\* that are about to store one are all different.
TokensDrawn ==
  /\ \A i \in DOMAIN stored : stored[i] < cursorSeq
  /\ \A i, j \in DOMAIN stored : stored[i] = stored[j] => i = j
  /\ \A q \in Queriers : query[q].pc = "store" =>
       /\ query[q].token < cursorSeq
       /\ \A i \in DOMAIN stored : stored[i] # query[q].token
       /\ \A p \in Queriers :
            query[p].pc = "store" /\ query[p].token = query[q].token => p = q

\* The tokens of a list were stored, in the order of the list.
AreStored(order, history) ==
  /\ \A i \in DOMAIN order : \E a \in DOMAIN history : history[a] = order[i]
  /\ \A i, j \in DOMAIN order, a, b \in DOMAIN history :
       i < j /\ history[a] = order[i] /\ history[b] = order[j] => a < b

\* A client has the tokens of cursors that were stored, and the registry has
\* them under the session the client had them from.
PromisesKept ==
  \A p \in promised :
    /\ \E a \in DOMAIN stored : stored[a] = p.token
    /\ p.token \in DOMAIN registry.values =>
         registry.values[p.token].session = p.session

\* No query reads a snapshot whose session was removed, unless it did before.
ReadersOvertaken ==
  \A s \in Snapshots :
    session[s] = "removed" => Cardinality(Reading(s)) <= overtaken[s]

KeptInv ==
  /\ Inv /\ QueryTypeOK
  /\ TokensDrawn /\ AreStored(registry.order, stored) /\ PromisesKept
  /\ CursorsLast /\ LeaksAreOvertaken /\ ReadersOvertaken

(* What remains of an order. *)

LEMMA RetainedHolds ==
  ASSUME NEW order \in Seq(Tokens), NEW values
  PROVE  Holds(Retained(order, values), Tokens, order, Len(order), DOMAIN values)
<1>1. Retained(order, values) = Chosen(order, DOMAIN values)
  BY DEF Retained, Chosen, FoldLeft, MapThenFoldSet
<1>2. QED
  BY <1>1, ChosenHolds

(* The registry. *)

\* The tokens of an order that were stored in that order are all different.
LEMMA StoredOnce ==
  ASSUME NEW order \in Seq(Tokens), NEW history \in Seq(Tokens), AreStored(order, history)
  PROVE  \A i, j \in DOMAIN order : order[i] = order[j] => i = j
<1> SUFFICES ASSUME NEW i \in DOMAIN order, NEW j \in DOMAIN order,
                    order[i] = order[j], i < j
             PROVE  FALSE
  <2>1. DOMAIN order = 1 .. Len(order) /\ Len(order) \in Nat
    OBVIOUS
  <2>2. \A i, j \in DOMAIN order : i < j \/ j < i \/ i = j
    BY <2>1
  <2>3. QED
    BY <2>2
<1>1. PICK a \in DOMAIN history : history[a] = order[i]
  BY DEF AreStored
<1>2. a < a /\ a \in Nat
  BY <1>1 DEF AreStored
<1>3. QED
  BY <1>2

LEMMA KeptTypes ==
  ASSUME KeptInv
  PROVE  /\ registry.order \in Seq(Tokens) /\ stored \in Seq(Tokens)
         /\ ToSet(registry.order) = DOMAIN registry.values
         /\ IsFiniteSet(DOMAIN registry.values)
         /\ Len(registry.order) = Cardinality(DOMAIN registry.values)
         /\ Len(registry.order) <= MaxCursors
         /\ MaxCursors \in Nat \ {0}
         /\ \A i, j \in DOMAIN registry.order :
              registry.order[i] = registry.order[j] => i = j
         /\ \A t \in DOMAIN registry.values :
              /\ t \in Tokens
              /\ \E a \in DOMAIN stored : stored[a] = t
<1>1. /\ registry.order \in Seq(Tokens) /\ stored \in Seq(Tokens)
      /\ ToSet(registry.order) = DOMAIN registry.values
      /\ Len(registry.order) = Cardinality(DOMAIN registry.values)
      /\ Len(registry.order) <= MaxCursors
      /\ AreStored(registry.order, stored)
  BY DEF KeptInv, QueryTypeOK, RegistryConsistent
<1>2. \A i, j \in DOMAIN registry.order :
        registry.order[i] = registry.order[j] => i = j
  BY <1>1, StoredOnce
<1>3. IsFiniteSet(DOMAIN registry.values)
  BY <1>1, <1>2, MembersOfList
<1>4. ASSUME NEW t \in DOMAIN registry.values
      PROVE  t \in Tokens /\ \E a \in DOMAIN stored : stored[a] = t
  <2>1. PICK i \in DOMAIN registry.order : registry.order[i] = t
    BY <1>1 DEF ToSet
  <2>2. QED
    BY <1>1, <2>1 DEF AreStored
<1>5. QED
  BY <1>1, <1>2, <1>3, <1>4, CursorAssumption

LEMMA ReadersFinite ==
  \A s : /\ IsFiniteSet(Reading(s)) /\ Cardinality(Reading(s)) \in Nat
         /\ IsFiniteSet(Reading(s)') /\ Cardinality(Reading(s)') \in Nat
BY CursorAssumption, FS_Subset, FS_CardinalityType DEF Reading

\* Cursors of a session.
Leaks(s) == {t \in DOMAIN registry.values : registry.values[t].session = s}

LEMMA LeaksFinite ==
  ASSUME KeptInv
  PROVE  \A s : IsFiniteSet(Leaks(s)) /\ Cardinality(Leaks(s)) \in Nat
BY KeptTypes, FS_Subset, FS_CardinalityType DEF Leaks

\* Fewer readers of a session than before, or as many.
LEMMA FewerReaders ==
  ASSUME NEW s, \A q \in Queriers :
           query'[q].pc \in {"number", "store"} /\ query'[q].session = s =>
             query[q].pc \in {"number", "store"} /\ query[q].session = s
  PROVE  Cardinality(Reading(s)') <= Cardinality(Reading(s))
<1>1. Reading(s)' \in SUBSET Reading(s)
  BY DEF Reading
<1>2. QED
  BY <1>1, ReadersFinite, FS_Subset

-----------------------------------------------------------------------------
\* A step that leaves the registry and the clients alone, and reads nothing of
\* sessions that are gone.
LEMMA RegistryAlone ==
  ASSUME KeptInv, Inv', QueryTypeOK', TokensDrawn',
         UNCHANGED <<registry, promised, stored>>,
         \A s \in Snapshots :
           session'[s] \in {"removed", "disposed"} =>
             /\ Cardinality(Reading(s)') <= overtaken'[s]
             /\ session'[s] = "disposed" =>
                  /\ session[s] = "disposed" /\ overtaken'[s] = overtaken[s]
                  /\ Cardinality(Reading(s)') <= Cardinality(Reading(s)),
         \A s \in Snapshots : session[s] = "disposed" => session'[s] = "disposed"
  PROVE  KeptInv'
<1>1. AreStored(registry.order, stored)'
  BY DEF KeptInv, AreStored
<1>2. PromisesKept'
  BY DEF KeptInv, PromisesKept
<1>3. CursorsLast'
  <2>1. \A t : InsertedAfter(t)' = InsertedAfter(t)
    BY DEF InsertedAfter
  <2>2. \A p \in promised : p.session \in Snapshots
    BY DEF KeptInv, QueryTypeOK, Promises
  <2>3. QED
    BY <2>1, <2>2 DEF KeptInv, CursorsLast
<1>4. ReadersOvertaken'
  BY DEF ReadersOvertaken
<1>5. LeaksAreOvertaken'
  <2> SUFFICES ASSUME NEW s \in Snapshots, session'[s] = "disposed"
               PROVE  Cardinality(Leaks(s)') + Cardinality(Reading(s)')
                        <= overtaken'[s]
    BY DEF LeaksAreOvertaken, Leaks
  <2>1. Leaks(s)' = Leaks(s)
    BY DEF Leaks
  <2>2. Cardinality(Leaks(s)) + Cardinality(Reading(s)) <= overtaken[s]
    BY DEF KeptInv, LeaksAreOvertaken, Leaks
  <2>3. /\ Cardinality(Leaks(s)) \in Nat /\ Cardinality(Reading(s)) \in Nat
        /\ Cardinality(Reading(s)') \in Nat
    BY LeaksFinite, ReadersFinite
  <2>4. overtaken[s] \in Nat
    BY DEF KeptInv, QueryTypeOK
  <2>5. QED
    BY <2>1, <2>2, <2>3, <2>4
<1>6. QED
  BY <1>1, <1>2, <1>3, <1>4, <1>5 DEF KeptInv

\* Sessions keep the record they have: no query begins to read one that is gone.
LEMMA SessionsGo ==
  ASSUME KeptInv, Inv', NEW s \in Snapshots, PublishSnapshot(s) \/ RemoveSession(s)
  PROVE  KeptInv'
<1>1. UNCHANGED <<registry, cursorSeq, query, promised, stored>>
  BY DEF PublishSnapshot, RemoveSession
<1>2. \A r : Reading(r)' = Reading(r)
  BY <1>1 DEF Reading
<1>3. \A r \in Snapshots : r # s => session'[r] = session[r] /\ overtaken'[r] = overtaken[r]
  BY DEF KeptInv, QueryTypeOK, PublishSnapshot, RemoveSession
<1>4. QueryTypeOK'
  <2>1. session' \in [Snapshots -> {"running", "ready", "removed", "disposed"}]
    BY DEF KeptInv, QueryTypeOK, PublishSnapshot, RemoveSession
  <2>2. overtaken' \in [Snapshots -> Nat]
    BY ReadersFinite DEF KeptInv, QueryTypeOK, PublishSnapshot, RemoveSession
  <2>3. QED
    BY <1>1, <2>1, <2>2 DEF KeptInv, QueryTypeOK, RegistryConsistent
<1>5. TokensDrawn'
  BY <1>1 DEF KeptInv, TokensDrawn
<1>6. ASSUME NEW r \in Snapshots, session'[r] \in {"removed", "disposed"}
      PROVE  /\ Cardinality(Reading(r)') <= overtaken'[r]
             /\ session'[r] = "disposed" =>
                  /\ session[r] = "disposed" /\ overtaken'[r] = overtaken[r]
                  /\ Cardinality(Reading(r)') <= Cardinality(Reading(r))
  <2>0. /\ Cardinality(Reading(r)) \in Nat /\ Reading(r)' = Reading(r)
        /\ overtaken[r] \in Nat
    BY <1>2, ReadersFinite DEF KeptInv, QueryTypeOK
  <2>1. CASE r = s
    <3>1. RemoveSession(s) /\ session'[s] = "removed"
      BY <1>6, <2>1 DEF PublishSnapshot, RemoveSession, KeptInv, QueryTypeOK
    <3>2. overtaken'[s] = Cardinality(Reading(s))
      BY <3>1 DEF RemoveSession, KeptInv, QueryTypeOK
    <3>3. QED
      BY <2>0, <2>1, <3>1, <3>2
  <2>2. CASE r # s
    <3>1. session[r] = session'[r] /\ overtaken'[r] = overtaken[r]
      BY <1>3, <2>2
    <3>2. CASE session[r] = "removed"
      BY <2>0, <3>1, <3>2 DEF KeptInv, ReadersOvertaken
    <3>3. CASE session[r] = "disposed"
      <4>1. Cardinality(Leaks(r)) + Cardinality(Reading(r)) <= overtaken[r]
        BY <3>3 DEF KeptInv, LeaksAreOvertaken, Leaks
      <4>2. Cardinality(Leaks(r)) \in Nat
        BY LeaksFinite
      <4>3. QED
        BY <2>0, <3>1, <3>3, <4>1, <4>2
    <3>4. QED
      BY <1>6, <3>1, <3>2, <3>3
  <2>3. QED
    BY <2>1, <2>2
<1>7. \A r \in Snapshots : session[r] = "disposed" => session'[r] = "disposed"
  BY DEF KeptInv, QueryTypeOK, PublishSnapshot, RemoveSession
<1>8. QED
  BY <1>1, <1>4, <1>5, <1>6, <1>7, RegistryAlone

\* A query that goes on becomes a reader only of a session that is there.
LEMMA ReadersGoOn ==
  ASSUME KeptInv, Inv', QueryTypeOK', TokensDrawn',
         UNCHANGED <<session, registry, promised, stored, overtaken>>,
         \A q \in Queriers : query'[q].pc \in {"number", "store"} =>
           \/ session[query'[q].session] = "ready"
           \/ /\ query[q].pc \in {"number", "store"}
              /\ query[q].session = query'[q].session
  PROVE  KeptInv'
<1>1. ASSUME NEW s \in Snapshots, session[s] \in {"removed", "disposed"}
      PROVE  /\ Cardinality(Reading(s)') <= Cardinality(Reading(s))
             /\ Cardinality(Reading(s)) <= overtaken[s]
  <2>1. Cardinality(Reading(s)') <= Cardinality(Reading(s))
    BY <1>1, FewerReaders
  <2>2. CASE session[s] = "removed"
    BY <2>1, <2>2 DEF KeptInv, ReadersOvertaken
  <2>3. CASE session[s] = "disposed"
    <3>1. Cardinality(Leaks(s)) + Cardinality(Reading(s)) <= overtaken[s]
      BY <2>3 DEF KeptInv, LeaksAreOvertaken, Leaks
    <3>2. /\ Cardinality(Leaks(s)) \in Nat /\ Cardinality(Reading(s)) \in Nat
          /\ overtaken[s] \in Nat
      BY LeaksFinite, ReadersFinite DEF KeptInv, QueryTypeOK
    <3>3. QED
      BY <2>1, <3>1, <3>2
  <2>4. QED
    BY <1>1, <2>2, <2>3
<1>2. ASSUME NEW s \in Snapshots, session'[s] \in {"removed", "disposed"}
      PROVE  /\ Cardinality(Reading(s)') <= overtaken'[s]
             /\ session'[s] = "disposed" =>
                  /\ session[s] = "disposed" /\ overtaken'[s] = overtaken[s]
                  /\ Cardinality(Reading(s)') <= Cardinality(Reading(s))
  <2>1. /\ Cardinality(Reading(s)') \in Nat /\ Cardinality(Reading(s)) \in Nat
        /\ overtaken[s] \in Nat
    BY ReadersFinite DEF KeptInv, QueryTypeOK
  <2>2. QED
    BY <1>1, <1>2, <2>1
<1>3. QED
  BY <1>2, RegistryAlone

LEMMA QueriesGoOn ==
  ASSUME KeptInv, Inv', NEW q \in Queriers,
         AskFirst(q) \/ AskNext(q) \/ ReadNothing(q) \/ ReadPage(q)
  PROVE  KeptInv'
<1>1. UNCHANGED <<session, registry, cursorSeq, promised, stored, overtaken>>
  BY DEF AskFirst, AskNext, ReadNothing, ReadPage
<1>2. \A p \in Queriers : p # q => query'[p] = query[p]
  BY DEF KeptInv, QueryTypeOK, AskFirst, AskNext, ReadNothing, ReadPage
<1>3. /\ query'[q].pc # "store"
      /\ query'[q].pc = "number" => session[query'[q].session] = "ready"
      /\ query'[q].pc \in {"number", "answered"} =>
           query'[q].upto <= Length[query'[q].listing]
  <2>1. CASE AskFirst(q) \/ AskNext(q) \/ ReadNothing(q)
    <3>1. query'[q].pc \in {"none", "resolved"}
      BY <2>1 DEF KeptInv, QueryTypeOK, AskFirst, AskNext, ReadNothing, Asked, NoQuery
    <3>2. QED
      BY <3>1
  <2>2. CASE ReadPage(q)
    <3> DEFINE r == query[q]
               n == Length[r.listing]
    <3>1. /\ r \in Queries /\ r.pc = "resolved" /\ session[r.session] = "ready"
          /\ n \in Nat /\ r.from \in Nat
          /\ r.from = 0 \/ r.from < n
      <4>1. r \in Queries /\ r.pc = "resolved" /\ session[r.session] = "ready"
        <5>1. query[q].pc = "resolved" /\ session[query[q].session] = "ready"
          BY <2>2 DEF ReadPage
        <5>2. query[q] \in Queries
          BY <5>1 DEF KeptInv, QueryTypeOK, NoQuery
        <5>3. QED
          BY <5>1, <5>2
      <4>2. r.listing \in Listings /\ r.from \in Nat
        BY <4>1 DEF Queries
      <4>3. n \in Nat
        BY <4>2, CursorAssumption
      <4>4. r.from = 0 \/ r.from < n
        BY <4>1 DEF KeptInv, Inv, QueriesKeep, QueryKeeps
      <4>5. QED
        BY <4>1, <4>2, <4>3, <4>4
    <3>2. PICK limit \in PageLimits :
            LET end == PageEnd(n, r.from, limit)
                follows == CursorFollows(n, r.from, end)
            IN  query' = [query EXCEPT
                  ![q].upto = end,
                  ![q].next = IF follows THEN CursorOffset(end) ELSE end,
                  ![q].pc = IF follows THEN "number" ELSE "answered"]
      BY <2>2 DEF ReadPage
    <3> DEFINE end == PageEnd(n, r.from, limit)
               follows == CursorFollows(n, r.from, end)
               s == [r EXCEPT !.upto = end, !.next = end,
                              !.pc = IF follows THEN "number" ELSE "answered"]
    <3>3. end \in Nat /\ end <= n
      BY <3>1, PageBounds, CursorAssumption
    <3>4. query'[q] = s
      BY <3>1, <3>2 DEF KeptInv, QueryTypeOK, CursorOffset
    <3>5. /\ s.session = r.session /\ s.listing = r.listing /\ s.upto = end
          /\ s.pc \in {"number", "answered"}
      <4> HIDE DEF end, follows, r
      <4> QED
        BY <3>1 DEF Queries
    <3> HIDE DEF s, end
    <3>6. QED
      BY <3>1, <3>3, <3>4, <3>5
  <2>3. QED
    BY <2>1, <2>2
<1>4. QueryTypeOK'
  <2>1. query' \in [Queriers -> Queries \cup {NoQuery}]
    BY DEF Inv, QueriesTyped
  <2>2. \A p \in Queriers : query'[p].pc \in {"number", "store", "answered"} =>
          query'[p].upto <= Length[query'[p].listing]
    BY <1>2, <1>3 DEF KeptInv, QueryTypeOK
  <2>3. QED
    BY <1>1, <2>1, <2>2 DEF KeptInv, QueryTypeOK, RegistryConsistent
<1>5. TokensDrawn'
  BY <1>1, <1>2, <1>3 DEF KeptInv, TokensDrawn
<1>6. \A p \in Queriers : query'[p].pc \in {"number", "store"} =>
           \/ session[query'[p].session] = "ready"
           \/ /\ query[p].pc \in {"number", "store"}
              /\ query[p].session = query'[p].session
  BY <1>2, <1>3
<1>7. QED
  BY <1>1, <1>4, <1>5, <1>6, ReadersGoOn

LEMMA CursorNumbered ==
  ASSUME KeptInv, Inv', NEW q \in Queriers, NumberCursor(q)
  PROVE  KeptInv'
<1>1. /\ UNCHANGED <<session, registry, promised, stored, overtaken>>
      /\ cursorSeq' = cursorSeq + 1 /\ cursorSeq \in Nat \ {0}
  BY DEF NumberCursor, KeptInv, QueryTypeOK, Tokens
<1>2. \A p \in Queriers : p # q => query'[p] = query[p]
  BY DEF KeptInv, QueryTypeOK, NumberCursor
<1>3. query[q] \in Queries /\ query[q].pc = "number"
  BY DEF NumberCursor, KeptInv, QueryTypeOK, NoQuery
<1>4. query'[q] = [query[q] EXCEPT !.pc = "store", !.token = cursorSeq]
  BY DEF NumberCursor, KeptInv, QueryTypeOK
<1>5. /\ query'[q].pc = "store" /\ query'[q].token = cursorSeq
      /\ query'[q].session = query[q].session
      /\ query'[q].upto = query[q].upto /\ query'[q].listing = query[q].listing
  BY <1>3, <1>4 DEF Queries
<1>6. QueryTypeOK'
  <2>1. query' \in [Queriers -> Queries \cup {NoQuery}] /\ cursorSeq' \in Tokens
    BY DEF Inv, QueriesTyped
  <2>2. \A p \in Queriers : query'[p].pc \in {"number", "store", "answered"} =>
          query'[p].upto <= Length[query'[p].listing]
    BY <1>2, <1>3, <1>5 DEF KeptInv, QueryTypeOK
  <2>3. QED
    BY <1>1, <2>1, <2>2 DEF KeptInv, QueryTypeOK, RegistryConsistent
<1>7. TokensDrawn'
  <2>1. \A i \in DOMAIN stored : stored[i] \in Nat /\ stored[i] < cursorSeq
    BY DEF KeptInv, QueryTypeOK, TokensDrawn, Tokens
  <2>2. \A p \in Queriers : query[p].pc = "store" =>
          query[p].token \in Nat /\ query[p].token < cursorSeq
    BY DEF KeptInv, QueryTypeOK, TokensDrawn, Queries, NoQuery
  <2>3. \A i \in DOMAIN stored' : stored'[i] < cursorSeq'
    BY <1>1, <2>1
  <2>4. \A p \in Queriers : query'[p].pc = "store" =>
          /\ query'[p].token < cursorSeq'
          /\ \A i \in DOMAIN stored' : stored'[i] # query'[p].token
    BY <1>1, <1>2, <1>5, <2>1, <2>2 DEF KeptInv, TokensDrawn
  <2>5. \A p, r \in Queriers :
          /\ query'[p].pc = "store" /\ query'[r].pc = "store"
          /\ query'[p].token = query'[r].token
          => p = r
    BY <1>1, <1>2, <1>5, <2>2 DEF KeptInv, TokensDrawn
  <2>6. QED
    BY <1>1, <2>3, <2>4, <2>5 DEF KeptInv, TokensDrawn
<1>8. \A p \in Queriers : query'[p].pc \in {"number", "store"} =>
           \/ session[query'[p].session] = "ready"
           \/ /\ query[p].pc \in {"number", "store"}
              /\ query[p].session = query'[p].session
  BY <1>2, <1>3, <1>5
<1>9. QED
  BY <1>1, <1>6, <1>7, <1>8, ReadersGoOn

\* The cursors of a session go: the others stay in their order.
LEMMA CursorsRemoved ==
  ASSUME KeptInv, Inv', NEW s \in Snapshots, RemoveCursors(s)
  PROVE  KeptInv'
<1> DEFINE lost == {t \in DOMAIN registry.values : registry.values[t].session = s}
           values == WithoutTokens(registry.values, lost)
<1>1. /\ registry' = [order |-> Retained(registry.order, values), values |-> values]
      /\ UNCHANGED <<cursorSeq, query, promised, stored, overtaken>>
      /\ session[s] = "removed"
  BY DEF RemoveCursors, RemoveForSession
<1>2. /\ DOMAIN values = DOMAIN registry.values \ lost
      /\ \A t \in DOMAIN values : values[t] = registry.values[t]
  BY DEF WithoutTokens
<1> HIDE DEF values
<1>3. registry'.order = Retained(registry.order, values) /\ registry'.values = values
  BY <1>1
<1>4. Holds(registry'.order, Tokens, registry.order, Len(registry.order),
            DOMAIN values)
  BY <1>3, KeptTypes, RetainedHolds
<1>5. registry.order \in Seq(Tokens) /\ stored \in Seq(Tokens)
      /\ DOMAIN registry.order = 1 .. Len(registry.order)
      /\ registry'.order \in Seq(Tokens)
  BY <1>4, KeptTypes DEF Holds
<1>6. AreStored(registry.order, stored)'
  <2>1. ASSUME NEW i \in DOMAIN registry'.order
        PROVE  \E a \in DOMAIN stored : stored[a] = registry'.order[i]
    <3>1. registry'.order[i] \in DOMAIN registry.values
      BY <1>2, <1>4 DEF Holds
    <3>2. QED
      BY <3>1, KeptTypes
  <2>2. ASSUME NEW i \in DOMAIN registry'.order, NEW j \in DOMAIN registry'.order,
               NEW a \in DOMAIN stored, NEW b \in DOMAIN stored,
               i < j, stored[a] = registry'.order[i], stored[b] = registry'.order[j]
        PROVE  a < b
    <3>1. PICK c, d \in 1 .. Len(registry.order) :
            c < d /\ registry.order[c] = registry'.order[i]
            /\ registry.order[d] = registry'.order[j]
      <4>1. \A order, kept, n : Holds(kept, Tokens, order, n, DOMAIN values) =>
              \A e, f \in DOMAIN kept : e < f =>
                \E c, d \in 1 .. n : c < d /\ order[c] = kept[e] /\ order[d] = kept[f]
        BY DEF Holds
      <4>2. QED
        BY <1>4, <2>2, <4>1
    <3>2. QED
      BY <1>5, <2>2, <3>1 DEF KeptInv, AreStored
  <2>3. QED
    BY <1>1, <2>1, <2>2 DEF AreStored
<1>7. ToSet(registry'.order) = DOMAIN registry'.values
  <2>1. \A t \in ToSet(registry'.order) : t \in DOMAIN values
    BY <1>4 DEF Holds, ToSet
  <2>2. ASSUME NEW t \in DOMAIN values PROVE t \in ToSet(registry'.order)
    <3>1. t \in ToSet(registry.order)
      BY <1>2, KeptTypes
    <3>2. PICK a \in 1 .. Len(registry.order) : registry.order[a] = t
      BY <1>5, <3>1 DEF ToSet
    <3>3. PICK i \in DOMAIN registry'.order : registry'.order[i] = t
      BY <1>4, <3>2 DEF Holds
    <3>4. QED
      BY <3>3 DEF ToSet
  <2>3. QED
    BY <1>3, <2>1, <2>2
<1>8. RegistryConsistent'
  <2>1. /\ \A i, j \in DOMAIN registry'.order :
             registry'.order[i] = registry'.order[j] => i = j
    BY <1>1, <1>5, <1>6, StoredOnce
  <2>2. Len(registry'.order) = Cardinality(DOMAIN registry'.values)
    BY <1>5, <1>7, <2>1, MembersOfList
  <2>3. /\ Cardinality(DOMAIN registry'.values) <= Cardinality(DOMAIN registry.values)
        /\ Cardinality(DOMAIN registry'.values) \in Nat
        /\ Cardinality(DOMAIN registry.values) \in Nat
    <3>1. DOMAIN registry'.values \in SUBSET DOMAIN registry.values
      BY <1>2, <1>3
    <3>2. QED
      BY <3>1, KeptTypes, FS_Subset, FS_CardinalityType
  <2>4. QED
    BY <1>7, <2>2, <2>3, KeptTypes DEF RegistryConsistent
<1>9. QueryTypeOK'
  <2>1. session' \in [Snapshots -> {"running", "ready", "removed", "disposed"}]
    BY DEF KeptInv, QueryTypeOK, RemoveCursors
  <2>2. \A t \in DOMAIN registry'.values : registry'.values[t] \in Cursors
    BY <1>2, <1>3 DEF KeptInv, QueryTypeOK
  <2>3. QED
    BY <1>1, <1>5, <1>8, <2>1, <2>2 DEF KeptInv, QueryTypeOK
<1>10. TokensDrawn' /\ PromisesKept'
  <2>1. TokensDrawn'
    BY <1>1 DEF KeptInv, TokensDrawn
  <2>2. PromisesKept'
    BY <1>1, <1>2, <1>3 DEF KeptInv, PromisesKept
  <2>3. QED
    BY <2>1, <2>2
<1>11. session' = [session EXCEPT ![s] = "disposed"] /\ session'[s] = "disposed"
       /\ \A r \in Snapshots : r # s => session'[r] = session[r]
  BY DEF KeptInv, QueryTypeOK, RemoveCursors
<1>12. CursorsLast'
  <2>1. \A t : InsertedAfter(t)' = InsertedAfter(t)
    BY <1>1 DEF InsertedAfter
  <2>2. ASSUME NEW p \in promised
        PROVE  \/ p.token \in DOMAIN registry'.values
               \/ session'[p.session] = "disposed"
               \/ InsertedAfter(p.token)' >= MaxCursors
    <3>1. p.session \in Snapshots
      BY DEF KeptInv, QueryTypeOK, Promises
    <3>2. CASE p.token \in DOMAIN registry.values /\ p.token \notin DOMAIN values
      <4>1. p.session = s
        BY <1>2, <3>2 DEF KeptInv, PromisesKept
      <4>2. QED
        BY <1>11, <4>1
    <3>3. CASE p.token \notin DOMAIN registry.values
      BY <1>11, <2>1, <3>1, <3>3 DEF KeptInv, CursorsLast
    <3>4. QED
      BY <1>3, <3>2, <3>3
  <2>3. QED
    BY <1>1, <2>2 DEF CursorsLast
<1>13. \A r : Reading(r)' = Reading(r)
  BY <1>1 DEF Reading
<1>14. ReadersOvertaken'
  BY <1>1, <1>11, <1>13 DEF KeptInv, ReadersOvertaken
<1>15. LeaksAreOvertaken'
  <2> SUFFICES ASSUME NEW r \in Snapshots, session'[r] = "disposed"
               PROVE  Cardinality(Leaks(r)') + Cardinality(Reading(r)')
                        <= overtaken'[r]
    BY DEF LeaksAreOvertaken, Leaks
  <2>1. /\ Cardinality(Leaks(r)) \in Nat /\ Cardinality(Reading(r)) \in Nat
        /\ overtaken[r] \in Nat
    BY LeaksFinite, ReadersFinite DEF KeptInv, QueryTypeOK
  <2>2. CASE r = s
    <3>1. Leaks(r)' = {}
      BY <1>2, <1>3, <2>2 DEF Leaks
    <3>2. Cardinality(Leaks(r)') = 0
      BY <3>1, FS_EmptySet
    <3>3. Cardinality(Reading(r)) <= overtaken[r]
      BY <1>1, <2>2 DEF KeptInv, ReadersOvertaken
    <3>4. QED
      BY <1>1, <1>13, <2>1, <3>2, <3>3
  <2>3. CASE r # s
    <3>1. Leaks(r)' \in SUBSET Leaks(r)
      BY <1>2, <1>3 DEF Leaks
    <3>2. Cardinality(Leaks(r)') <= Cardinality(Leaks(r))
          /\ Cardinality(Leaks(r)') \in Nat
      BY <3>1, LeaksFinite, FS_Subset, FS_CardinalityType
    <3>3. Cardinality(Leaks(r)) + Cardinality(Reading(r)) <= overtaken[r]
      BY <1>11, <2>3 DEF KeptInv, LeaksAreOvertaken, Leaks
    <3>4. QED
      BY <1>1, <1>13, <2>1, <3>2, <3>3
  <2>4. QED
    BY <2>2, <2>3
<1>16. QED
  BY <1>6, <1>9, <1>10, <1>12, <1>14, <1>15 DEF KeptInv

\* The places of a history after that of a token.
PlacesAfter(history, t) == {a \in DOMAIN history : \E b \in 1 .. (a - 1) : history[b] = t}

LEMMA InsertedIs ==
  \A t : /\ InsertedAfter(t) = Cardinality(PlacesAfter(stored, t))
         /\ InsertedAfter(t)' = Cardinality(PlacesAfter(stored', t))
BY DEF InsertedAfter, PlacesAfter

LEMMA PlacesFinite ==
  ASSUME NEW history \in Seq(Tokens), NEW t
  PROVE  /\ IsFiniteSet(PlacesAfter(history, t))
         /\ Cardinality(PlacesAfter(history, t)) \in Nat
<1>1. Len(history) \in Nat /\ DOMAIN history = 1 .. Len(history)
  OBVIOUS
<1>2. IsFiniteSet(1 .. Len(history))
  BY <1>1, FS_Interval
<1>3. PlacesAfter(history, t) \in SUBSET (1 .. Len(history))
  BY <1>1 DEF PlacesAfter
<1>4. QED
  BY <1>2, <1>3, FS_Subset, FS_CardinalityType

\* A list of different tokens of a history, each after the place of another token,
\* counts as many that were inserted after that one.
LEMMA ManyInserted ==
  ASSUME NEW order \in Seq(Tokens), NEW history \in Seq(Tokens), NEW t,
         \A i, j \in DOMAIN order : order[i] = order[j] => i = j,
         \A i \in DOMAIN order : \E a \in PlacesAfter(history, t) : history[a] = order[i]
  PROVE  Len(order) <= Cardinality(PlacesAfter(history, t))
<1> DEFINE n == Len(order)
           f == [i \in 1 .. n |-> CHOOSE a \in PlacesAfter(history, t) : history[a] = order[i]]
<1>1. n \in Nat /\ DOMAIN order = 1 .. n
  OBVIOUS
<1>2. \A i \in 1 .. n : f[i] \in PlacesAfter(history, t) /\ history[f[i]] = order[i]
  <2> SUFFICES ASSUME NEW i \in 1 .. n
               PROVE  f[i] \in PlacesAfter(history, t) /\ history[f[i]] = order[i]
    OBVIOUS
  <2>1. \E a \in PlacesAfter(history, t) : history[a] = order[i]
    BY <1>1
  <2>2. QED
    BY <2>1
<1> HIDE DEF n
<1>3. f \in Injection(1 .. n, PlacesAfter(history, t))
  <2>1. f \in [1 .. n -> PlacesAfter(history, t)]
    BY <1>2
  <2>2. \A i, j \in 1 .. n : f[i] = f[j] => i = j
    BY <1>1, <1>2
  <2>3. QED
    BY <2>1, <2>2 DEF Injection, IsInjective
<1>4. Cardinality(1 .. n) <= Cardinality(PlacesAfter(history, t))
  BY <1>3, PlacesFinite, FS_Injection
<1>5. Cardinality(1 .. n) = n
  BY <1>1, FS_Interval
<1>6. QED
  BY <1>4, <1>5 DEF n

\* A cursor is stored: the oldest may make room.
LEMMA CursorStored ==
  ASSUME KeptInv, Inv', NEW q \in Queriers, StoreCursor(q)
  PROVE  KeptInv'
<1> DEFINE r == query[q]
           t == r.token
           cursor == [session |-> r.session, listing |-> r.listing, offset |-> r.next]
           order == registry.order
           values == registry.values
           full == Cardinality(DOMAIN values) >= MaxCursors /\ order # <<>>
           base == IF full THEN Tail(order) ELSE order
           kept == IF full THEN WithoutTokens(values, {Head(order)}) ELSE values
<1>1. /\ r \in Queries /\ r.pc = "store" /\ t \in Nat /\ r.upto \in Nat
      /\ r.session \in Snapshots /\ r.listing \in Listings
      /\ cursor \in Cursors /\ cursor.session = r.session
      /\ r.upto <= Length[r.listing]
  <2>1. r \in Queries /\ r.pc = "store"
    BY DEF StoreCursor, KeptInv, QueryTypeOK, NoQuery
  <2>2. r.upto <= Length[r.listing]
    BY <2>1 DEF KeptInv, QueryTypeOK
  <2>3. QED
    BY <2>1, <2>2 DEF Queries, Cursors
<1>1a. t \in Tokens
  <2>1. t # NoToken
    BY <1>1 DEF KeptInv, Inv, QueriesKeep, QueryKeeps
  <2>2. QED
    BY <1>1, <2>1 DEF Tokens, NoToken
<1>2. /\ registry' = Insert(registry, t, cursor)
      /\ query' = [query EXCEPT ![q].pc = "answered"]
      /\ stored' = Append(stored, t)
      /\ promised' = promised \cup {[token |-> t, session |-> r.session,
                       listing |-> r.listing, heard |-> r.upto]}
      /\ UNCHANGED <<session, cursorSeq, overtaken>>
  BY DEF StoreCursor
<1>3. /\ registry'.order = Append(base, t)
      /\ registry'.values = [u \in DOMAIN kept \cup {t} |->
                               IF u = t THEN cursor ELSE kept[u]]
  BY <1>2 DEF Insert
<1>4. /\ order \in Seq(Tokens) /\ stored \in Seq(Tokens)
      /\ ToSet(order) = DOMAIN values
      /\ IsFiniteSet(DOMAIN values)
      /\ Len(order) = Cardinality(DOMAIN values)
      /\ Len(order) <= MaxCursors /\ MaxCursors \in Nat \ {0}
      /\ \A i, j \in DOMAIN order : order[i] = order[j] => i = j
      /\ \A u \in DOMAIN values : \E a \in DOMAIN stored : stored[a] = u
      /\ AreStored(order, stored)
  BY KeptTypes DEF KeptInv
<1>5. t \notin DOMAIN values /\ \A a \in DOMAIN stored : stored[a] # t
  <2>1. \A a \in DOMAIN stored : stored[a] # t
    BY <1>1 DEF KeptInv, TokensDrawn
  <2>2. QED
    BY <1>4, <2>1
<1> HIDE DEF r, t, cursor, order, values
\* What the registry becomes.
<1>6. /\ DOMAIN kept = IF full THEN DOMAIN values \ {order[1]} ELSE DOMAIN values
      /\ \A u \in DOMAIN kept : kept[u] = values[u]
  <2>1. full => Head(order) = order[1]
    BY <1>4
  <2>2. QED
    BY <2>1 DEF WithoutTokens
<1>7. /\ base \in Seq(Tokens)
      /\ \A i \in DOMAIN base : \E k \in DOMAIN order :
           /\ order[k] = base[i]
           /\ full => k # 1
           /\ \A j \in DOMAIN base, m \in DOMAIN order :
                i < j /\ order[m] = base[j] => k < m
      /\ \A k \in DOMAIN order : \/ full /\ k = 1
                                 \/ \E i \in DOMAIN base : base[i] = order[k]
      /\ Len(base) = IF full THEN Len(order) - 1 ELSE Len(order)
  <2>1. CASE ~full
    <3>1. base = order
      BY <2>1
    <3>2. \A i, j, m \in DOMAIN order : i < j /\ order[m] = order[j] => i < m
      BY <1>4
    <3> HIDE DEF base, full
    <3>3. QED
      BY <1>4, <2>1, <3>1, <3>2
  <2>2. CASE full
    <3> DEFINE n == Len(order)
    <3>1. /\ base = Tail(order) /\ order # <<>> /\ n \in Nat \ {0}
          /\ DOMAIN order = 1 .. n
      BY <1>4, <2>2
    <3> HIDE DEF base, full
    <3>2. /\ base \in Seq(Tokens) /\ Len(base) = n - 1
          /\ DOMAIN base = 1 .. (n - 1)
          /\ \A i \in 1 .. (n - 1) : base[i] = order[i + 1] /\ i + 1 \in DOMAIN order
      BY <1>4, <3>1
    <3>3. ASSUME NEW i \in DOMAIN base
          PROVE  \E k \in DOMAIN order :
                   /\ order[k] = base[i]
                   /\ full => k # 1
                   /\ \A j \in DOMAIN base, m \in DOMAIN order :
                        i < j /\ order[m] = base[j] => k < m
      <4>1. i + 1 \in DOMAIN order /\ order[i + 1] = base[i] /\ i + 1 # 1
        BY <3>2
      <4>2. ASSUME NEW j \in DOMAIN base, NEW m \in DOMAIN order,
                   i < j, order[m] = base[j]
            PROVE  i + 1 < m
        <5>1. order[m] = order[j + 1] /\ j + 1 \in DOMAIN order
          BY <3>2, <4>2
        <5>2. m = j + 1
          BY <1>4, <5>1
        <5>3. QED
          BY <3>2, <4>2, <5>2
      <4>3. QED
        BY <4>1, <4>2
    <3>4. ASSUME NEW k \in DOMAIN order, k # 1
          PROVE  \E i \in DOMAIN base : base[i] = order[k]
      <4>1. k - 1 \in DOMAIN base /\ base[k - 1] = order[(k - 1) + 1] /\ (k - 1) + 1 = k
        BY <3>1, <3>2, <3>4
      <4>2. QED
        BY <4>1
    <3>5. QED
      BY <2>2, <3>2, <3>3, <3>4
  <2>3. QED
    BY <2>1, <2>2
<1> HIDE DEF base, kept
<1> DEFINE more == Append(base, t)
           n == Len(base)
           history == Append(stored, t)
           m == Len(stored)
<1>8. /\ more \in Seq(Tokens) /\ n \in Nat /\ Len(more) = n + 1
      /\ DOMAIN more = 1 .. (n + 1) /\ DOMAIN base = 1 .. n
      /\ more[n + 1] = t /\ \A i \in 1 .. n : more[i] = base[i]
      /\ history \in Seq(Tokens) /\ m \in Nat /\ DOMAIN history = 1 .. (m + 1)
      /\ DOMAIN stored = 1 .. m
      /\ history[m + 1] = t /\ \A a \in 1 .. m : history[a] = stored[a]
  BY <1>1a, <1>4, <1>7
<1> HIDE DEF more, n, history, m
<1>9. registry'.order = more /\ stored' = history
  BY <1>2, <1>3 DEF more, history
<1>10. /\ DOMAIN registry'.values = DOMAIN kept \cup {t}
       /\ registry'.values[t] = cursor
       /\ \A u \in DOMAIN kept : registry'.values[u] = values[u]
  BY <1>3, <1>5, <1>6
<1>11. AreStored(more, history)
  <2>1. ASSUME NEW i \in 1 .. n PROVE \E a \in 1 .. m : history[a] = more[i]
    <3>1. PICK k \in DOMAIN order : order[k] = base[i]
      BY <1>7, <1>8
    <3>2. PICK a \in DOMAIN stored : stored[a] = order[k]
      BY <1>4 DEF AreStored
    <3>3. QED
      BY <1>8, <3>1, <3>2
  <2>2. ASSUME NEW i \in DOMAIN more PROVE \E a \in DOMAIN history : history[a] = more[i]
    <3>1. CASE i = n + 1
      <4>1. m + 1 \in DOMAIN history /\ history[m + 1] = more[i]
        BY <1>8, <3>1
      <4>2. QED
        BY <4>1
    <3>2. CASE i \in 1 .. n
      BY <1>8, <2>1, <3>2
    <3>3. QED
      BY <1>8, <3>1, <3>2
  <2>3. ASSUME NEW i \in DOMAIN more, NEW j \in DOMAIN more,
               NEW a \in DOMAIN history, NEW b \in DOMAIN history,
               i < j, history[a] = more[i], history[b] = more[j]
        PROVE  a < b
    <3>1. i \in 1 .. n
      BY <1>8, <2>3
    <3>2. PICK k \in DOMAIN order :
            /\ order[k] = base[i]
            /\ \A e \in DOMAIN base, f \in DOMAIN order :
                 i < e /\ order[f] = base[e] => k < f
      BY <1>7, <1>8, <3>1
    <3>3. a \in 1 .. m /\ stored[a] = order[k]
      <4>1. more[i] = order[k]
        BY <1>8, <3>1, <3>2
      <4>2. more[i] # t
        BY <1>4, <1>5, <3>2, <4>1 DEF AreStored
      <4>3. QED
        BY <1>8, <2>3, <4>1, <4>2
    <3>4. CASE j = n + 1
      <4>1. more[j] = t
        BY <1>8, <3>4
      <4>2. b \notin 1 .. m
        BY <1>5, <1>8, <2>3, <4>1
      <4>3. QED
        BY <1>8, <3>3, <4>2
    <3>5. CASE j \in 1 .. n
      <4>1. PICK f \in DOMAIN order : order[f] = base[j]
        BY <1>7, <1>8, <3>5
      <4>2. k < f
        BY <1>8, <2>3, <3>2, <3>5, <4>1
      <4>3. more[j] = order[f]
        BY <1>8, <3>5, <4>1
      <4>4. more[j] # t
        BY <1>4, <1>5, <4>1, <4>3 DEF AreStored
      <4>5. b \in 1 .. m /\ stored[b] = order[f]
        BY <1>8, <2>3, <4>3, <4>4
      <4>6. QED
        BY <1>4, <1>8, <3>3, <4>2, <4>5 DEF AreStored
    <3>6. QED
      BY <1>8, <3>4, <3>5
  <2>4. QED
    BY <2>2, <2>3 DEF AreStored
<1>12. \A i, j \in DOMAIN more : more[i] = more[j] => i = j
  BY <1>8, <1>11, StoredOnce
<1>13. ToSet(more) = DOMAIN registry'.values
  <2>1. ASSUME NEW u \in ToSet(more) PROVE u \in DOMAIN registry'.values
    <3>1. PICK i \in DOMAIN more : more[i] = u
      BY <2>1 DEF ToSet
    <3>2. CASE i = n + 1
      BY <1>8, <1>10, <3>1, <3>2
    <3>3. CASE i \in 1 .. n
      <4>1. PICK k \in DOMAIN order : order[k] = u /\ (full => k # 1)
        BY <1>7, <1>8, <3>1, <3>3
      <4>2. u \in DOMAIN values
        BY <1>4, <4>1 DEF ToSet
      <4>3. full => u # order[1]
        <5>1. 1 \in DOMAIN order
          BY <1>4, <4>1
        <5>2. QED
          BY <1>4, <4>1, <5>1
      <4>4. QED
        BY <1>6, <1>10, <4>2, <4>3
    <3>4. QED
      BY <1>8, <3>1, <3>2, <3>3
  <2>2. ASSUME NEW u \in DOMAIN registry'.values PROVE u \in ToSet(more)
    <3>1. CASE u = t
      BY <1>8, <3>1 DEF ToSet
    <3>2. CASE u # t
      <4>1. u \in DOMAIN values /\ (full => u # order[1])
        BY <1>6, <1>10, <2>2, <3>2
      <4>2. PICK k \in DOMAIN order : order[k] = u
        BY <1>4, <4>1 DEF ToSet
      <4>3. PICK i \in DOMAIN base : base[i] = order[k]
        BY <1>7, <4>1, <4>2
      <4>4. i \in DOMAIN more /\ more[i] = u
        BY <1>8, <4>2, <4>3
      <4>5. QED
        BY <4>4 DEF ToSet
    <3>3. QED
      BY <3>1, <3>2
  <2>3. QED
    BY <2>1, <2>2
<1>14. RegistryConsistent'
  <2>1. Cardinality(ToSet(more)) = Len(more)
    BY <1>8, <1>12, MembersOfList
  <2>2. Len(more) <= MaxCursors
    <3>1. CASE full
      BY <1>4, <1>7, <1>8, <3>1 DEF n
    <3>2. CASE ~full
      <4>1. Len(order) < MaxCursors
        BY <1>4, <3>2
      <4>2. QED
        BY <1>4, <1>7, <1>8, <3>2, <4>1 DEF n
    <3>3. QED
      BY <3>1, <3>2
  <2>3. QED
    BY <1>9, <1>13, <2>1, <2>2 DEF RegistryConsistent
<1>15. /\ \A p \in Queriers : p # q => query'[p] = query[p]
       /\ query'[q].pc = "answered"
       /\ query'[q].upto = r.upto /\ query'[q].listing = r.listing
  <2>1. query'[q] = [r EXCEPT !.pc = "answered"]
    BY <1>2 DEF KeptInv, QueryTypeOK, r
  <2>2. /\ query'[q].pc = "answered"
        /\ query'[q].upto = r.upto /\ query'[q].listing = r.listing
    BY <1>1, <2>1 DEF Queries
  <2>3. \A p \in Queriers : p # q => query'[p] = query[p]
    BY <1>2 DEF KeptInv, QueryTypeOK
  <2>4. QED
    BY <2>2, <2>3
<1>16. QueryTypeOK'
  <2>1. query' \in [Queriers -> Queries \cup {NoQuery}] /\ cursorSeq' \in Tokens
        /\ \A u \in DOMAIN registry'.values : registry'.values[u] \in Cursors
    BY DEF Inv, QueriesTyped
  <2>2. \A p \in Queriers : query'[p].pc \in {"number", "store", "answered"} =>
          query'[p].upto <= Length[query'[p].listing]
    BY <1>1, <1>15 DEF KeptInv, QueryTypeOK
  <2>3. promised' \in SUBSET Promises
    <3>1. [token |-> t, session |-> r.session, listing |-> r.listing,
           heard |-> r.upto] \in Promises
      BY <1>1, <1>1a DEF Promises
    <3>2. promised \in SUBSET Promises
      BY DEF KeptInv, QueryTypeOK
    <3>3. QED
      BY <1>2, <3>1, <3>2
  <2>4. /\ session' \in [Snapshots -> {"running", "ready", "removed", "disposed"}]
        /\ overtaken' \in [Snapshots -> Nat]
    BY <1>2 DEF KeptInv, QueryTypeOK
  <2>5. registry'.order \in Seq(Tokens) /\ stored' \in Seq(Tokens)
    BY <1>8, <1>9
  <2>6. QED
    BY <1>14, <2>1, <2>2, <2>3, <2>4, <2>5 DEF QueryTypeOK
<1>17. /\ t < cursorSeq
       /\ \A p \in Queriers \ {q} : query[p].pc = "store" => query[p].token # t
  BY <1>1 DEF KeptInv, TokensDrawn, r, t
<1>18. TokensDrawn'
  <2>1. \A a \in DOMAIN history : a = m + 1 \/ (a \in DOMAIN stored /\ history[a] = stored[a])
    BY <1>8
  <2>2. /\ \A a \in DOMAIN stored : stored[a] < cursorSeq
        /\ \A a, b \in DOMAIN stored : stored[a] = stored[b] => a = b
        /\ \A p \in Queriers : query[p].pc = "store" =>
             /\ query[p].token < cursorSeq
             /\ \A a \in DOMAIN stored : stored[a] # query[p].token
             /\ \A o \in Queriers :
                  query[o].pc = "store" /\ query[o].token = query[p].token => o = p
    BY DEF KeptInv, TokensDrawn
  <2>3. \A a \in DOMAIN history : history[a] < cursorSeq
    BY <1>8, <1>17, <2>1, <2>2
  <2>4. \A a, b \in DOMAIN history : history[a] = history[b] => a = b
    BY <1>5, <1>8, <2>1, <2>2
  <2>5. ASSUME NEW p \in Queriers, query'[p].pc = "store"
        PROVE  /\ query'[p].token < cursorSeq
               /\ \A a \in DOMAIN history : history[a] # query'[p].token
               /\ \A o \in Queriers :
                    query'[o].pc = "store" /\ query'[o].token = query'[p].token
                    => o = p
    <3>1. p # q /\ query'[p] = query[p]
      BY <1>15, <2>5
    <3>2. \A a \in DOMAIN history : history[a] # query[p].token
      BY <1>8, <1>17, <2>1, <2>2, <2>5, <3>1
    <3>3. \A o \in Queriers : query'[o].pc = "store" => query'[o] = query[o]
      BY <1>15
    <3>4. QED
      BY <2>2, <2>5, <3>1, <3>2, <3>3
  <2>6. QED
    BY <1>2, <1>9, <2>3, <2>4, <2>5 DEF TokensDrawn
<1>19. PromisesKept'
  <2> SUFFICES ASSUME NEW p \in promised'
               PROVE  /\ \E a \in DOMAIN history : history[a] = p.token
                      /\ p.token \in DOMAIN registry'.values =>
                           registry'.values[p.token].session = p.session
    BY <1>9 DEF PromisesKept
  <2>1. CASE p \in promised
    <3>1. /\ \E a \in DOMAIN stored : stored[a] = p.token
          /\ p.token \in DOMAIN values => values[p.token].session = p.session
      BY <2>1 DEF KeptInv, PromisesKept, values
    <3>2. p.token # t
      BY <1>5, <3>1
    <3>3. \E a \in DOMAIN history : history[a] = p.token
      BY <1>8, <3>1
    <3>4. QED
      BY <1>6, <1>10, <3>1, <3>2, <3>3
  <2>2. CASE p.token = t /\ p.session = r.session
    <3>1. m + 1 \in DOMAIN history /\ history[m + 1] = t
      BY <1>8
    <3>2. QED
      BY <1>1, <1>10, <2>2, <3>1
  <2>3. QED
    BY <1>2, <2>1, <2>2
\* The cursor that made room has a registry full of cursors after it.
<1>20. ASSUME full, NEW o, o = order[1]
       PROVE  InsertedAfter(o)' >= MaxCursors
  <2>1. /\ 1 \in DOMAIN order /\ Len(order) = MaxCursors
        /\ Len(more) = MaxCursors
    BY <1>4, <1>7, <1>8, <1>20 DEF n
  <2>2. PICK b \in 1 .. m : history[b] = o
    <3>1. PICK a \in DOMAIN stored : stored[a] = order[1]
      BY <1>4, <2>1 DEF AreStored
    <3>2. a \in 1 .. m /\ history[a] = o
      BY <1>8, <1>20, <3>1
    <3>3. QED
      BY <3>2
  <2>3. ASSUME NEW i \in DOMAIN more
        PROVE  \E a \in PlacesAfter(history, o) : history[a] = more[i]
    <3>1. \A a \in DOMAIN history : b \in 1 .. (a - 1) => a \in PlacesAfter(history, o)
      BY <2>2 DEF PlacesAfter
    <3>2. CASE i = n + 1
      <4>1. m + 1 \in DOMAIN history /\ history[m + 1] = more[i] /\ b \in 1 .. ((m + 1) - 1)
        BY <1>8, <3>2
      <4>2. QED
        BY <3>1, <4>1
    <3>3. CASE i \in 1 .. n
      <4>1. PICK k \in DOMAIN order : order[k] = more[i] /\ k # 1
        BY <1>7, <1>8, <1>20, <3>3
      <4>2. PICK a \in DOMAIN stored : stored[a] = order[k]
        BY <1>4 DEF AreStored
      <4>3. 1 < k
        BY <1>4, <4>1
      <4>4. b < a
        <5>1. b \in DOMAIN stored /\ stored[b] = order[1]
          BY <1>8, <1>20, <2>2
        <5>2. QED
          BY <1>4, <2>1, <4>2, <4>3, <5>1 DEF AreStored
      <4>5. a \in DOMAIN history /\ history[a] = more[i] /\ b \in 1 .. (a - 1)
        BY <1>8, <4>1, <4>2, <4>4
      <4>6. QED
        BY <3>1, <4>5
    <3>4. QED
      BY <1>8, <3>2, <3>3
  <2>4. Len(more) <= Cardinality(PlacesAfter(history, o))
    BY <1>8, <1>12, <2>3, ManyInserted
  <2>5. Cardinality(PlacesAfter(history, o)) \in Nat
    BY <1>8, PlacesFinite
  <2>6. InsertedAfter(o)' = Cardinality(PlacesAfter(history, o))
    BY <1>9, InsertedIs
  <2>7. QED
    BY <2>1, <2>4, <2>5, <2>6
<1>21. ASSUME NEW u
       PROVE  /\ InsertedAfter(u) <= InsertedAfter(u)'
              /\ InsertedAfter(u) \in Nat /\ InsertedAfter(u)' \in Nat
  <2>1. PlacesAfter(stored, u) \in SUBSET PlacesAfter(history, u)
    <3>1. ASSUME NEW a \in PlacesAfter(stored, u) PROVE a \in PlacesAfter(history, u)
      <4>1. PICK b \in 1 .. (a - 1) : stored[b] = u
        BY DEF PlacesAfter
      <4>2. a \in 1 .. m /\ b \in 1 .. m
        BY <1>8, <4>1 DEF PlacesAfter
      <4>3. a \in DOMAIN history /\ history[b] = u
        BY <1>8, <4>1, <4>2
      <4>4. QED
        BY <4>1, <4>3 DEF PlacesAfter
    <3>2. QED
      BY <3>1
  <2>2. /\ IsFiniteSet(PlacesAfter(history, u))
        /\ Cardinality(PlacesAfter(history, u)) \in Nat
        /\ Cardinality(PlacesAfter(stored, u)) \in Nat
    BY <1>4, <1>8, PlacesFinite
  <2>3. Cardinality(PlacesAfter(stored, u)) <= Cardinality(PlacesAfter(history, u))
    BY <2>1, <2>2, FS_Subset
  <2>4. /\ InsertedAfter(u) = Cardinality(PlacesAfter(stored, u))
        /\ InsertedAfter(u)' = Cardinality(PlacesAfter(history, u))
    BY <1>9, InsertedIs
  <2>5. QED
    BY <2>2, <2>3, <2>4
<1>22. CursorsLast'
  <2> SUFFICES ASSUME NEW p \in promised'
               PROVE  \/ p.token \in DOMAIN registry'.values
                      \/ session'[p.session] = "disposed"
                      \/ InsertedAfter(p.token)' >= MaxCursors
    BY DEF CursorsLast
  <2>1. CASE p.token = t
    BY <1>10, <2>1
  <2>2. CASE p \in promised
    <3>1. CASE p.token \in DOMAIN values
      <4>1. CASE p.token \in DOMAIN kept
        BY <1>10, <4>1
      <4>2. CASE p.token \notin DOMAIN kept
        <5>1. full /\ p.token = order[1]
          BY <1>6, <3>1, <4>2
        <5>2. QED
          BY <1>20, <5>1
      <4>3. QED
        BY <4>1, <4>2
    <3>2. CASE session[p.session] = "disposed"
      BY <1>2, <3>2
    <3>3. CASE InsertedAfter(p.token) >= MaxCursors
      BY <1>4, <1>21, <3>3
    <3>4. QED
      BY <2>2, <3>1, <3>2, <3>3 DEF KeptInv, CursorsLast, values
  <2>3. QED
    BY <1>2, <2>1, <2>2
\* The query reads no more, and its session has one cursor more at most.
<1>23. \A s : Reading(s)' = Reading(s) \ {q}
  BY <1>15 DEF Reading
<1>24. q \in Reading(r.session)
  BY <1>1 DEF Reading, r
<1>25. ASSUME NEW s
       PROVE  Cardinality(Reading(s)') <= Cardinality(Reading(s))
  <2>1. Reading(s)' \in SUBSET Reading(s)
    BY <1>23
  <2>2. QED
    BY <2>1, ReadersFinite, FS_Subset
<1>26. ReadersOvertaken'
  <2> SUFFICES ASSUME NEW s \in Snapshots, session[s] = "removed"
               PROVE  Cardinality(Reading(s)') <= overtaken[s]
    BY <1>2 DEF ReadersOvertaken
  <2>1. /\ Cardinality(Reading(s)) <= overtaken[s] /\ overtaken[s] \in Nat
    BY DEF KeptInv, ReadersOvertaken, QueryTypeOK
  <2>2. QED
    BY <1>25, <2>1, ReadersFinite
<1>27. ASSUME NEW s
       PROVE  Leaks(s)' \in SUBSET (IF s = r.session THEN Leaks(s) \cup {t} ELSE Leaks(s))
  <2> SUFFICES ASSUME NEW u \in Leaks(s)', ~(u = t /\ s = r.session)
               PROVE  u \in Leaks(s)
    OBVIOUS
  <2>1. u \in DOMAIN registry'.values /\ registry'.values[u].session = s
    BY DEF Leaks
  <2>2. u # t
    BY <1>1, <1>10, <2>1
  <2>3. u \in DOMAIN values /\ registry'.values[u] = values[u]
    BY <1>6, <1>10, <2>1, <2>2
  <2>4. QED
    BY <2>1, <2>3 DEF Leaks, values
<1>28. LeaksAreOvertaken'
  <2> SUFFICES ASSUME NEW s \in Snapshots, session[s] = "disposed"
               PROVE  Cardinality(Leaks(s)') + Cardinality(Reading(s)')
                        <= overtaken[s]
    BY <1>2 DEF LeaksAreOvertaken, Leaks
  <2>1. /\ IsFiniteSet(Leaks(s)) /\ Cardinality(Leaks(s)) \in Nat
        /\ IsFiniteSet(Reading(s)) /\ Cardinality(Reading(s)) \in Nat
        /\ Cardinality(Reading(s)') \in Nat /\ overtaken[s] \in Nat
    BY LeaksFinite, ReadersFinite DEF KeptInv, QueryTypeOK
  <2>2. Cardinality(Leaks(s)) + Cardinality(Reading(s)) <= overtaken[s]
    BY DEF KeptInv, LeaksAreOvertaken, Leaks
  <2>3. CASE s # r.session
    <3>1. Cardinality(Leaks(s)') <= Cardinality(Leaks(s))
          /\ Cardinality(Leaks(s)') \in Nat
      <4>1. Leaks(s)' \in SUBSET Leaks(s)
        BY <1>27, <2>3
      <4>2. QED
        BY <2>1, <4>1, FS_Subset, FS_CardinalityType
    <3>2. QED
      BY <1>25, <2>1, <2>2, <3>1
  <2>4. CASE s = r.session
    <3>1. /\ IsFiniteSet(Leaks(s) \cup {t})
          /\ Cardinality(Leaks(s) \cup {t}) <= Cardinality(Leaks(s)) + 1
          /\ Cardinality(Leaks(s) \cup {t}) \in Nat
      <4>1. /\ IsFiniteSet(Leaks(s) \cup {t})
            /\ Cardinality(Leaks(s) \cup {t}) =
                 IF t \in Leaks(s) THEN Cardinality(Leaks(s))
                                   ELSE Cardinality(Leaks(s)) + 1
        BY <2>1, FS_AddElement
      <4>2. QED
        BY <2>1, <4>1
    <3>2. Cardinality(Leaks(s)') <= Cardinality(Leaks(s) \cup {t})
          /\ Cardinality(Leaks(s)') \in Nat
      <4>1. Leaks(s)' \in SUBSET (Leaks(s) \cup {t})
        BY <1>27, <2>4
      <4>2. QED
        BY <3>1, <4>1, FS_Subset, FS_CardinalityType
    <3>3. Cardinality(Reading(s)') = Cardinality(Reading(s)) - 1
      <4>1. Cardinality(Reading(s) \ {q}) =
              IF q \in Reading(s) THEN Cardinality(Reading(s)) - 1
                                  ELSE Cardinality(Reading(s))
        BY <2>1, FS_RemoveElement
      <4>2. QED
        BY <1>23, <1>24, <2>4, <4>1
    <3>4. QED
      BY <2>1, <2>2, <3>1, <3>2, <3>3
  <2>5. QED
    BY <2>3, <2>4
<1>29. AreStored(registry.order, stored)'
  BY <1>9, <1>11
<1>30. QED
  BY <1>16, <1>18, <1>19, <1>22, <1>26, <1>28, <1>29 DEF KeptInv

-----------------------------------------------------------------------------
LEMMA KeptInit == QueryInit => KeptInv
<1> SUFFICES ASSUME QueryInit PROVE KeptInv
  OBVIOUS
<1>1. /\ registry.order = <<>> /\ registry.values = <<>> /\ stored = <<>>
      /\ promised = {} /\ cursorSeq = 1
      /\ \A s \in Snapshots : session[s] = "running"
      /\ \A q \in Queriers : query[q] = NoQuery /\ query[q].pc = "none"
  BY DEF QueryInit, NoQuery
<1>2. DOMAIN registry.values = {} /\ ToSet(registry.order) = {}
      /\ Len(registry.order) = 0 /\ Cardinality(DOMAIN registry.values) = 0
  BY <1>1, FS_EmptySet DEF ToSet
<1>3. RegistryConsistent
  BY <1>2, CursorAssumption DEF RegistryConsistent
<1>4. QueryTypeOK
  <2>1. /\ session \in [Snapshots -> {"running", "ready", "removed", "disposed"}]
        /\ query \in [Queriers -> Queries \cup {NoQuery}]
        /\ overtaken \in [Snapshots -> Nat]
    BY DEF QueryInit
  <2>2. registry.order \in Seq(Tokens) /\ stored \in Seq(Tokens)
        /\ cursorSeq \in Tokens /\ promised \in SUBSET Promises
    BY <1>1 DEF Tokens
  <2>3. QED
    BY <1>1, <1>2, <1>3, <2>1, <2>2 DEF QueryTypeOK
<1>5. Inv
  BY InitInv
<1>6. TokensDrawn /\ AreStored(registry.order, stored) /\ PromisesKept
  BY <1>1 DEF TokensDrawn, AreStored, PromisesKept
<1>7. CursorsLast /\ LeaksAreOvertaken /\ ReadersOvertaken
  BY <1>1 DEF CursorsLast, LeaksAreOvertaken, ReadersOvertaken
<1>8. QED
  BY <1>4, <1>5, <1>6, <1>7 DEF KeptInv

LEMMA KeptNext == KeptInv /\ [QueryNext]_queryVars => KeptInv'
<1> SUFFICES ASSUME KeptInv, [QueryNext]_queryVars PROVE KeptInv'
  OBVIOUS
<1>1. Inv'
  BY NextInv DEF KeptInv
<1>2. ASSUME NEW s \in Snapshots,
             PublishSnapshot(s) \/ RemoveSession(s) \/ RemoveCursors(s)
      PROVE  KeptInv'
  BY <1>1, <1>2, SessionsGo, CursorsRemoved
<1>3. ASSUME NEW q \in Queriers,
             \/ AskFirst(q) \/ AskNext(q) \/ ReadNothing(q) \/ ReadPage(q)
             \/ NumberCursor(q) \/ StoreCursor(q)
      PROVE  KeptInv'
  BY <1>1, <1>3, QueriesGoOn, CursorNumbered, CursorStored
<1>4. CASE UNCHANGED queryVars
  <2>1. UNCHANGED <<session, registry, cursorSeq, query, promised, stored, overtaken>>
    BY <1>4 DEF queryVars
  <2>2. QueryTypeOK' /\ TokensDrawn'
    BY <2>1 DEF KeptInv, QueryTypeOK, RegistryConsistent, TokensDrawn
  <2>3. QED
    BY <1>1, <2>1, <2>2, ReadersGoOn
<1>5. QED
  BY <1>2, <1>3, <1>4 DEF QueryNext

\* The state of the registry, of the handlers and of what clients know: order
\* and values of the registry name the same cursors, never more than its
\* capacity, though insert and remove_for_session change the two separately.
THEOREM QueryTypeCorrect == QuerySpec => []QueryTypeOK
<1>1. KeptInv => QueryTypeOK
  BY DEF KeptInv
<1>2. QED
  BY KeptInit, KeptNext, <1>1, PTL DEF QuerySpec

\* The registry forgets a cursor only with its session or for as many newer
\* ones as it holds, and keeps of a disposed session only the cursors of
\* queries that were reading when dispose removed its record, whatever the
\* order in which dispose and the queries take the two locks.
THEOREM CursorsAreKept == QuerySpec => []CursorsKept
<1>1. KeptInv => CursorsKept
  BY DEF KeptInv, CursorsKept
<1>2. QED
  BY KeptInit, KeptNext, <1>1, PTL DEF QuerySpec
=============================================================================
