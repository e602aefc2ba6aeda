-------------------------- MODULE CleanupOnceProofs --------------------------
(***************************************************************************)
(* A proof that a command asks for an item to be moved at most once, that  *)
(* the receipts read back tell what was done and stay when they are final, *)
(* and that they implement CleanupPromise, for every number of retries,    *)
(* disconnects and crashes, when a command is used with one plan only.     *)
(* And a proof that the fold which builds the receipts comes to what the   *)
(* proofs before it say of them, on any records whatever.                  *)
(***************************************************************************)
EXTENDS CleanupProofs, FiniteSetTheorems, FoldLemmas, CleanupReceiptFold

\* A command is confirmed with one plan: the page that confirms counts its
\* commands up.  (Its count starts again when it is opened again: then a
\* command may be used with two plans, the subject of KeyBoundToPlan.)
OnePlanPerCommand ==
  \A c, d \in Confirmations : c[1] = d[1] => c[2] = d[2]

(* The inductive invariant. *)

\* A worker owns its plan from the take to its return.
TakenPcs == HoldingPcs \ {"take"}
Taken(r) == worker[r].pc \in TakenPcs

Called(op) == \E i \in DOMAIN trashed : trashed[i].op = op

\* A reader of the file that can be read learns of the operation.
Announced(lines, op) == ~Readable(lines) \/ HasReceipt(lines, op)

\* The items of its plan a worker has called the adapter for.
Handled(w) == {k \in DOMAIN w.plan.nodes :
                 k < w.at \/ (k = w.at /\ w.pc = "outcome")}

Confirmed ==
  \A r \in Requests : request[r].pc # "new" =>
    <<request[r].cmd, request[r].planId>> \in Confirmations

\* A worker has the plan its request names, which this process allocated.
OwnPlan ==
  \A r \in Requests : Live(r) =>
    /\ worker[r].plan.id = request[r].planId
    /\ worker[r].plan.id < nextPlanId
    /\ Distinct(worker[r].plan.nodes)

StoreIds ==
  /\ \A i \in DOMAIN plans : plans[i].id < nextPlanId
                               /\ Distinct(plans[i].nodes)
  /\ \A i, j \in DOMAIN plans : plans[i].id = plans[j].id => i = j

\* A plan that was taken has left the store and has one owner.
TakenOnce ==
  /\ \A r \in Requests : Taken(r) => ~HasPlan(worker[r].plan.id)
  /\ \A q, r \in Requests : q # r /\ Taken(q) /\ Taken(r) =>
       worker[q].plan.id # worker[r].plan.id

\* A command whose worker is past its intent, or that has called the adapter,
\* is known to the journal.
Noted ==
  /\ \A r \in Requests : Taken(r) /\ worker[r].pc # "intent" =>
       Announced(journal, Op(r))
  /\ \A i \in DOMAIN trashed : Announced(journal, trashed[i].op)

\* A worker that comes too late does not find its plan.
TooLate ==
  \A r \in Requests : worker[r].pc \in {"lock", "take"} /\ Called(Op(r)) =>
    ~HasPlan(worker[r].plan.id)

\* The calls of a command are those its worker has made.
CallsHandled ==
  \A r \in Requests, i \in DOMAIN trashed :
    Taken(r) /\ trashed[i].op = Op(r) =>
      \E k \in Handled(worker[r]) : trashed[i].node = worker[r].plan.nodes[k]

NoRepeat ==
  \A i, j \in DOMAIN trashed :
    trashed[i].op = trashed[j].op /\ trashed[i].node = trashed[j].node => i = j

\* Only a file with a line in it has a line without its newline.
LastLine == ended \/ journal # <<>>

OnceInv == /\ Confirmed /\ OwnPlan /\ StoreIds /\ TakenOnce /\ Noted
           /\ TooLate /\ CallsHandled /\ NoRepeat

-----------------------------------------------------------------------------
LEMMA InitOnce == Init => OnceInv /\ LastLine
BY DEF LastLine, Init, NoWorker, OnceInv, Confirmed, OwnPlan, StoreIds, TakenOnce, Noted,
       TooLate, CallsHandled, NoRepeat, Taken, TakenPcs, HoldingPcs, Live,
       Distinct

-----------------------------------------------------------------------------
(* What the journal knows, it does not forget. *)

LEMMA AnnouncedWritten ==
  ASSUME NEW lines \in Seq(Lines), NEW e \in BOOLEAN, NEW line, NEW op,
         Announced(lines, op)
  PROVE  Announced(Written(lines, e, line), op)
<1>1. CASE ~Readable(lines)
  BY <1>1, WrittenDamaged DEF Announced
<1>2. ASSUME NEW i \in DOMAIN lines, lines[i].kind \in {"intent", "skeleton"},
             lines[i].op = op
      PROVE  Announced(Written(lines, e, line), op)
  <2>1. CASE e
    <3>1. /\ i \in DOMAIN Append(lines, line)
          /\ Append(lines, line)[i] = lines[i]
      OBVIOUS
    <3>2. QED
      BY <1>2, <2>1, <3>1 DEF Written, Announced, HasReceipt, LinesOf
  <2>2. CASE ~e
    <3>1. Len(lines) \in DOMAIN lines
      OBVIOUS
    <3>2. QED
      BY <2>2, <3>1 DEF Written, Announced, Readable
  <2>3. QED
    BY <2>1, <2>2
<1>3. QED
  BY <1>1, <1>2 DEF Announced, HasReceipt, LinesOf

LEMMA AnnouncedLasts ==
  ASSUME TypeInv, [Next]_vars, NEW op, Announced(journal, op)
  PROVE  Announced(journal', op)
<1>1. journal \in Seq(Lines) /\ ended \in BOOLEAN /\ FaultSet \subseteq FaultKinds
  BY BoundAssumption DEF TypeInv, TypeOK
<1>2. \A record :
        /\ Announced(GoodAppend(journal, ended, record).lines, op)
        /\ \A fault \in FaultSet :
             Announced(FaultyAppend(journal, ended, record, fault).lines, op)
  <2>1. \A line : Announced(Written(journal, ended, line), op)
    BY <1>1, AnnouncedWritten
  <2>2. QED
    BY <1>1, <2>1 DEF GoodAppend, FaultyAppend, FaultKinds
<1>3. \A r \in Requests : \A record, w :
        Record(r, record, w) => Announced(journal', op)
  BY <1>2 DEF Record
<1>4. CASE UNCHANGED journal
  BY <1>4
<1>5. ASSUME NEW r \in Requests, Work(r)
      PROVE  Announced(journal', op)
  BY <1>3, <1>4, <1>5
     DEF Work, CheckReceipt, AcquirePaths, AcquireUnless, TakePlan, RecordIntent,
         RecordSkeleton, Revalidate, RecordBlocked, RecordDispatch,
         MoveToTrash, RecordOutcome, Summarise, Finalize, Reply
<1>6. CASE Crash
  BY <1>2, <1>6 DEF Crash
<1>7. QED
  BY <1>4, <1>5, <1>6
     DEF Next, vars, CreatePlan, AcquireCommand, Handle, LookUpReceipt,
         SpawnWorker, Respond, Disconnect, Touch, Idle

LEMMA LastLineLasts ==
  ASSUME TypeInv, LastLine, [Next]_vars
  PROVE  LastLine'
<1>1. journal \in Seq(Lines) /\ ended \in BOOLEAN /\ FaultSet \subseteq FaultKinds
  BY BoundAssumption DEF TypeInv, TypeOK
<1>2. \A line : Written(journal, ended, line) # <<>>
  BY <1>1 DEF LastLine, Written
<1>3. ASSUME NEW record, NEW fault \in FaultSet
      PROVE  LET result == FaultyAppend(journal, ended, record, fault)
             IN result.ended \/ result.lines # <<>>
  BY <1>1, <1>2, <1>3 DEF FaultyAppend, FaultKinds, LastLine
<1>4. \A r \in Requests : \A record, w : Record(r, record, w) => LastLine'
  BY <1>3 DEF Record, GoodAppend, LastLine
<1>5. CASE UNCHANGED <<journal, ended>>
  BY <1>5 DEF LastLine
<1>6. ASSUME NEW r \in Requests, Work(r)
      PROVE  LastLine'
  BY <1>4, <1>5, <1>6
     DEF Work, CheckReceipt, AcquirePaths, AcquireUnless, TakePlan, RecordIntent,
         RecordSkeleton, Revalidate, RecordBlocked, RecordDispatch,
         MoveToTrash, RecordOutcome, Summarise, Finalize, Reply
<1>7. CASE Crash
  BY <1>3, <1>5, <1>7 DEF Crash, LastLine
<1>8. QED
  BY <1>5, <1>6, <1>7
     DEF Next, vars, CreatePlan, AcquireCommand, Handle, LookUpReceipt,
         SpawnWorker, Respond, Disconnect, Touch, Idle

\* An operation that was written down in full is known.
LEMMA WritingAnnounces ==
  ASSUME NEW lines \in Seq(Lines), NEW e \in BOOLEAN, NEW record,
         e \/ lines # <<>>, record.kind \in {"intent", "skeleton"}
  PROVE  Announced(GoodAppend(lines, e, record).lines, record.op)
<1>1. CASE e
  <2>1. /\ Len(lines) + 1 \in DOMAIN Append(lines, record)
        /\ Append(lines, record)[Len(lines) + 1] = record
    OBVIOUS
  <2>2. QED
    BY <1>1, <2>1 DEF GoodAppend, Written, Announced, HasReceipt, LinesOf
<1>2. CASE ~e
  <2>1. Len(lines) \in DOMAIN lines
    BY <1>2
  <2>2. QED
    BY <1>2, <2>1 DEF GoodAppend, Written, Announced, Readable
<1>3. QED
  BY <1>1, <1>2

-----------------------------------------------------------------------------
(* Steps that several actions share *)

\* Two workers of one command run the same plan.
LEMMA SamePlan ==
  ASSUME TypeInv, OnceInv, OnePlanPerCommand,
         NEW q \in Requests, NEW r \in Requests, Live(q), Live(r), Op(q) = Op(r)
  PROVE  worker[q].plan.id = worker[r].plan.id
<1>1. request[q].pc # "new" /\ request[r].pc # "new"
  BY DEF TypeInv, Received, Live
<1>2. /\ <<request[q].cmd, request[q].planId>> \in Confirmations
      /\ <<request[r].cmd, request[r].planId>> \in Confirmations
  BY <1>1 DEF OnceInv, Confirmed
<1>3. request[q].planId = request[r].planId
  BY <1>2 DEF OnePlanPerCommand, Op
<1>4. QED
  BY <1>3 DEF OnceInv, OwnPlan

\* A step of the handlers leaves plans, workers and calls alone.
LEMMA RequestOnce ==
  ASSUME OnceInv, Confirmed',
         \A r \in Requests : Live(r) => /\ request'[r].cmd = request[r].cmd
                                        /\ request'[r].planId = request[r].planId,
         UNCHANGED <<plans, nextPlanId, worker, journal, trashed>>
  PROVE  OnceInv'
<1>1. \A r \in Requests : Taken(r) \/ worker[r].pc \in {"lock", "take"} => Live(r)
  BY DEF Taken, TakenPcs, HoldingPcs, Live
<1>2. OwnPlan' /\ StoreIds' /\ TakenOnce' /\ NoRepeat'
  BY DEF OnceInv, OwnPlan, StoreIds, TakenOnce, NoRepeat, Live, Taken, HasPlan
<1>3. Noted' /\ TooLate' /\ CallsHandled'
  BY <1>1 DEF OnceInv, Noted, TooLate, CallsHandled, Taken, Op, Called, HasPlan
<1>4. QED
  BY <1>2, <1>3 DEF OnceInv

\* A step of one worker that makes no call and takes no plan.
LEMMA WorkerOnce ==
  ASSUME TypeInv, OnceInv, NEW r \in Requests, NEW w, Becomes(r, w),
         UNCHANGED <<plans, nextPlanId, request, trashed>>,
         \A op : Announced(journal, op) => Announced(journal', op),
         w.pc \notin {"none", "done"} => Live(r) /\ w.plan = worker[r].plan,
         w.pc \in TakenPcs => Taken(r) /\ Handled(worker[r]) \subseteq Handled(w),
         w.pc \in TakenPcs \ {"intent"} => Announced(journal', Op(r)),
         w.pc \in {"lock", "take"} =>
           worker[r].pc \in {"lock", "take"} \/ ~Called(Op(r))
  PROVE  OnceInv'
<1> worker' = [q \in Requests |-> IF q = r THEN w ELSE worker[q]]
  BY DEF Becomes, TypeInv, TypeOK
<1>1. \A q \in Requests : Taken(q)' => /\ Taken(q)
                                       /\ worker'[q].plan = worker[q].plan
                                       /\ Handled(worker[q]) \subseteq Handled(worker'[q])
  BY DEF Taken, TakenPcs, HoldingPcs
<1>2. Confirmed' /\ StoreIds' /\ NoRepeat'
  BY DEF OnceInv, Confirmed, StoreIds, NoRepeat
<1>3. OwnPlan'
  BY DEF OnceInv, OwnPlan, Live
<1>4. TakenOnce'
  BY <1>1 DEF OnceInv, TakenOnce, HasPlan
<1>5. Noted'
  BY <1>1 DEF OnceInv, Noted, Op, Taken
<1>6. TooLate'
  BY DEF OnceInv, TooLate, Called, HasPlan, Op
<1>7. CallsHandled'
  BY <1>1 DEF OnceInv, CallsHandled, Op
<1>8. QED
  BY <1>2, <1>3, <1>4, <1>5, <1>6, <1>7 DEF OnceInv

LEMMA ReturnOnce ==
  ASSUME TypeInv, OnceInv, NEW r \in Requests, NEW answer, Return(r, answer),
         UNCHANGED <<plans, nextPlanId, request, trashed>>,
         \A op : Announced(journal, op) => Announced(journal', op)
  PROVE  OnceInv'
<1> DEFINE w == Returned(answer)
<1>1. Becomes(r, w) /\ w.pc = "done"
  BY DEF Return, Becomes, Returned, NoWorker
<1>2. "done" \notin TakenPcs
  BY DEF TakenPcs, HoldingPcs
<1> HIDE DEF w
<1>3. QED
  BY <1>1, <1>2, WorkerOnce

\* A worker goes on to another pc.
LEMMA GotoOnce ==
  ASSUME TypeInv, OnceInv, NEW r \in Requests, NEW pc \in WorkerPcs,
         Goto(r, pc), Live(r), worker[r].pc # "outcome",
         UNCHANGED <<plans, nextPlanId, request, journal, trashed>>,
         pc \in TakenPcs => Taken(r) /\ worker[r].pc # "intent" /\ pc # "intent",
         pc \in {"lock", "take"} =>
           worker[r].pc \in {"lock", "take"} \/ ~Called(Op(r))
  PROVE  OnceInv'
<1> DEFINE w == [worker[r] EXCEPT !.pc = pc]
<1>1. worker[r] \in WorkerRecord
  BY DEF TypeInv, TypeOK
<1>2. w.pc = pc /\ w.at = worker[r].at /\ w.plan = worker[r].plan
  BY <1>1 DEF WorkerRecord
<1>3. Becomes(r, w)
  BY DEF Goto, Becomes, TypeInv, TypeOK
<1> HIDE DEF w
<1>4. Handled(worker[r]) \subseteq Handled(w)
  BY <1>2 DEF Handled
<1>5. pc \in TakenPcs => Announced(journal', Op(r))
  BY DEF OnceInv, Noted, Taken
<1>6. QED
  BY <1>2, <1>3, <1>4, <1>5, WorkerOnce

\* A worker that owns its plan appends a record.
LEMMA RecordOnce ==
  ASSUME TypeInv, OnceInv, [Next]_vars, NEW r \in Requests, NEW record, NEW w,
         Record(r, record, w), Taken(r), w.pc \in TakenPcs \ {"intent"},
         w.plan = worker[r].plan, Handled(worker[r]) \subseteq Handled(w),
         Announced(GoodAppend(journal, ended, record).lines, Op(r))
  PROVE  OnceInv'
<1>1. \A op : Announced(journal, op) => Announced(journal', op)
  BY AnnouncedLasts
<1>2. UNCHANGED <<plans, nextPlanId, request, trashed>>
  BY DEF Record, unchangedByWorker
<1>3. CASE Return(r, "storage")
  BY <1>1, <1>2, <1>3, ReturnOnce
<1>4. CASE /\ journal' = GoodAppend(journal, ended, record).lines
           /\ worker' = [worker EXCEPT ![r] = w]
  <2>1. Live(r) /\ w.pc \notin {"lock", "take"}
    BY DEF Taken, TakenPcs, HoldingPcs, Live
  <2>2. Announced(journal', Op(r))
    BY <1>4
  <2>3. QED
    BY <1>1, <1>2, <1>4, <2>1, <2>2, WorkerOnce DEF Becomes
<1>5. QED
  BY <1>3, <1>4 DEF Record

-----------------------------------------------------------------------------
(* The steps of a worker *)

LEMMA RecordingOnce ==
  ASSUME TypeInv, LastLine, OnceInv, [Next]_vars, NEW r \in Requests,
         \/ RecordIntent(r) \/ RecordSkeleton(r) \/ RecordBlocked(r)
         \/ RecordDispatch(r) \/ RecordOutcome(r) \/ Finalize(r)
  PROVE  OnceInv'
<1>1. worker[r] \in WorkerRecord
  BY DEF TypeInv, TypeOK
<1>2. Taken(r)
  BY DEF RecordIntent, RecordSkeleton, RecordBlocked, RecordDispatch,
         RecordOutcome, Finalize, Taken, TakenPcs, HoldingPcs, WorkerPcs
<1>3. \A pc \in TakenPcs \ {"intent", "outcome"} :
        /\ At(r, pc).pc = pc /\ At(r, pc).plan = worker[r].plan
        /\ worker[r].pc # "outcome" =>
             Handled(worker[r]) \subseteq Handled(At(r, pc))
  BY <1>1 DEF At, Handled, WorkerRecord
<1>4. /\ NextItem(r).pc = "item" /\ NextItem(r).plan = worker[r].plan
      /\ Handled(worker[r]) \subseteq Handled(NextItem(r))
  <2>1. /\ NextItem(r).pc = "item" /\ NextItem(r).plan = worker[r].plan
        /\ NextItem(r).at = worker[r].at + 1 /\ worker[r].at \in Nat
    BY <1>1 DEF NextItem, WorkerRecord
  <2>2. DOMAIN worker[r].plan.nodes \subseteq Nat
    BY <1>1 DEF WorkerRecord, PlanRecord
  <2>3. QED
    BY <2>1, <2>2 DEF Handled
<1>5. {"skeleton", "item", "trash", "reply"} \subseteq TakenPcs \ {"intent", "outcome"}
  BY DEF TakenPcs, HoldingPcs, WorkerPcs
<1>6. CASE RecordIntent(r)
  <2> DEFINE record == [kind |-> "intent", op |-> Op(r),
                        nodes |-> NodesOf(worker[r].plan)]
  <2>1. Announced(GoodAppend(journal, ended, record).lines, record.op)
    BY WritingAnnounces DEF LastLine, TypeInv, TypeOK
  <2>2. worker[r].pc = "intent" /\ Record(r, record, At(r, "skeleton"))
    BY <1>6 DEF RecordIntent
  <2>3. record.op = Op(r)
    OBVIOUS
  <2> HIDE DEF record
  <2>4. QED
    BY <1>2, <1>3, <1>5, <2>1, <2>2, <2>3, RecordOnce
<1>7. ASSUME worker[r].pc # "intent"
      PROVE  \A record : Announced(GoodAppend(journal, ended, record).lines, Op(r))
  <2>1. Announced(journal, Op(r))
    BY <1>2, <1>7 DEF OnceInv, Noted
  <2>2. QED
    BY <2>1, AnnouncedWritten DEF GoodAppend, TypeInv, TypeOK
<1>8. CASE RecordSkeleton(r)
  BY <1>2, <1>3, <1>5, <1>7, <1>8, RecordOnce DEF RecordSkeleton
<1>9. CASE RecordDispatch(r)
  BY <1>2, <1>3, <1>5, <1>7, <1>9, RecordOnce DEF RecordDispatch
<1>10. CASE Finalize(r)
  BY <1>2, <1>3, <1>5, <1>7, <1>10, RecordOnce DEF Finalize
<1>11. CASE RecordBlocked(r) \/ RecordOutcome(r)
  BY <1>2, <1>4, <1>5, <1>7, <1>11, RecordOnce DEF RecordBlocked, RecordOutcome
<1>12. QED
  BY <1>6, <1>8, <1>9, <1>10, <1>11

LEMMA ReadingOnce ==
  ASSUME TypeInv, OnceInv, [Next]_vars, NEW r \in Requests,
         \/ CheckReceipt(r) \/ AcquirePaths(r) \/ Revalidate(r)
         \/ Summarise(r) \/ Reply(r)
  PROVE  OnceInv'
<1>1. /\ UNCHANGED <<plans, nextPlanId, request, journal, trashed>>
      /\ worker[r].pc # "outcome" /\ Live(r)
  BY DEF CheckReceipt, AcquirePaths, AcquireUnless, Revalidate, Summarise,
         Reply, unchangedByWorker, Live
<1>2. \A op : Announced(journal, op) => Announced(journal', op)
  BY <1>1
<1>3. \A answer : Return(r, answer) => OnceInv'
  BY <1>1, <1>2, ReturnOnce
<1>4. ASSUME Readable(journal), ~HasReceipt(journal, Op(r)), Goto(r, "lock")
      PROVE  OnceInv'
  <2>1. ~Announced(journal, Op(r))
    BY <1>4 DEF Announced
  <2>2. ~Called(Op(r))
    BY <2>1 DEF OnceInv, Noted, Called
  <2>3. "lock" \in WorkerPcs /\ "lock" \notin TakenPcs
    BY DEF WorkerPcs, TakenPcs, HoldingPcs
  <2>4. QED
    BY <1>1, <1>4, <2>2, <2>3, GotoOnce
<1>5. CASE AcquirePaths(r) /\ Goto(r, "take")
  <2>1. "take" \in WorkerPcs /\ "take" \notin TakenPcs
    BY DEF WorkerPcs, TakenPcs
  <2>2. QED
    BY <1>1, <1>5, <2>1, GotoOnce DEF AcquirePaths, AcquireUnless
<1>6. CASE Revalidate(r)
  <2>1. Taken(r) /\ worker[r].pc = "item"
    BY <1>6 DEF Revalidate, Taken, TakenPcs, HoldingPcs, WorkerPcs
  <2>2. PICK pc \in {"summarise", "block", "dispatch"} : Goto(r, pc)
    BY <1>6 DEF Revalidate
  <2>3. pc \in WorkerPcs /\ pc # "intent" /\ pc \notin {"lock", "take"}
    BY DEF WorkerPcs
  <2>4. QED
    BY <1>1, <2>1, <2>2, <2>3, GotoOnce
<1>7. CASE Summarise(r)
  <2>1. ASSUME NEW final, worker' = [worker EXCEPT ![r].pc = "finalize",
                                                   ![r].final = final]
        PROVE  OnceInv'
    <3> DEFINE w == [worker[r] EXCEPT !.pc = "finalize", !.final = final]
    <3>1. Becomes(r, w)
      BY <2>1 DEF Becomes, TypeInv, TypeOK
    <3>2. w.pc = "finalize" /\ w.at = worker[r].at /\ w.plan = worker[r].plan
      BY DEF TypeInv, TypeOK, WorkerRecord
    <3> HIDE DEF w
    <3>3. Taken(r) /\ worker[r].pc = "summarise"
      BY <1>7 DEF Summarise, Taken, TakenPcs, HoldingPcs, WorkerPcs
    <3>4. Handled(worker[r]) \subseteq Handled(w)
      BY <1>1, <3>2 DEF Handled
    <3>5. Announced(journal', Op(r))
      BY <1>1, <3>3 DEF OnceInv, Noted
    <3>6. QED
      BY <1>1, <1>2, <3>1, <3>2, <3>3, <3>4, <3>5, WorkerOnce
  <2>2. QED
    BY <1>3, <1>7, <2>1 DEF Summarise
<1>8. QED
  BY <1>3, <1>4, <1>5, <1>6, <1>7
     DEF CheckReceipt, AcquirePaths, AcquireUnless, Reply

\* What a sequence keeps when its element i is removed.
LEMMA Removed ==
  ASSUME NEW S, NEW s \in Seq(S), NEW i \in DOMAIN s,
         NEW j \in DOMAIN RemoveAt(s, i)
  PROVE  LET k == IF j < i THEN j ELSE j + 1
         IN k \in DOMAIN s /\ k # i /\ j \in Nat /\ RemoveAt(s, i)[j] = s[k]
<1> DEFINE front == SubSeq(s, 1, i - 1)
           back == SubSeq(s, i + 1, Len(s))
<1>1. /\ front \in Seq(S) /\ Len(front) = i - 1
      /\ \A k \in 1 .. i - 1 : front[k] = s[k]
  OBVIOUS
<1>2. /\ back \in Seq(S) /\ Len(back) = Len(s) - i
      /\ \A k \in 1 .. Len(s) - i : back[k] = s[i + k]
  OBVIOUS
<1>3. RemoveAt(s, i) = front \o back
  BY DEF RemoveAt
<1>4. i \in 1 .. Len(s) /\ Len(s) \in Nat
  OBVIOUS
<1> HIDE DEF front, back
<1>5. /\ front \o back \in Seq(S) /\ Len(front \o back) = Len(s) - 1
      /\ \A k \in 1 .. Len(s) - 1 : (front \o back)[k] =
           IF k <= i - 1 THEN front[k] ELSE back[k - (i - 1)]
  <2>1. /\ front \o back \in Seq(S)
        /\ Len(front \o back) = Len(front) + Len(back)
        /\ \A k \in 1 .. Len(front) + Len(back) : (front \o back)[k] =
             IF k <= Len(front) THEN front[k] ELSE back[k - Len(front)]
    BY <1>1, <1>2, ConcatProperties, Zenon
  <2>2. Len(front) + Len(back) = Len(s) - 1
    BY <1>1, <1>2, <1>4
  <2>3. QED
    BY <1>1, <2>1, <2>2
<1>6. j \in 1 .. Len(s) - 1
  BY <1>3, <1>5
<1>7. CASE j < i
  BY <1>1, <1>3, <1>4, <1>5, <1>6, <1>7
<1>8. CASE ~(j < i)
  <2>1. j - (i - 1) \in 1 .. Len(s) - i /\ i + (j - (i - 1)) = j + 1
    BY <1>4, <1>6, <1>8
  <2>2. RemoveAt(s, i)[j] = back[j - (i - 1)]
    <3>1. ~(j <= i - 1)
      BY <1>4, <1>6, <1>8
    <3>2. QED
      BY <1>3, <1>5, <1>6, <3>1
  <2>3. back[j - (i - 1)] = s[j + 1]
    BY <1>2, <2>1
  <2>4. QED
    BY <1>4, <1>6, <1>8, <2>2, <2>3
<1>9. QED
  BY <1>7, <1>8

\* The plan with index i leaves the store.
LEMMA RemovedPlan ==
  ASSUME TypeInv, OnceInv, NEW i \in DOMAIN plans, NEW gone, gone = plans[i].id,
         plans' = RemoveAt(plans, i), UNCHANGED nextPlanId
  PROVE  /\ StoreIds' /\ ~HasPlan(gone)'
         /\ \A id : HasPlan(id)' => HasPlan(id)
<1> DEFINE from(j) == IF j < i THEN j ELSE j + 1
<1>1. \A j \in DOMAIN plans' : /\ from(j) \in DOMAIN plans /\ from(j) # i
                               /\ j \in Nat /\ plans'[j] = plans[from(j)]
  BY Removed DEF TypeInv, TypeOK
<1>2. \A j, k \in DOMAIN plans' : from(j) = from(k) => j = k
  BY <1>1 DEF TypeInv, TypeOK
<1> HIDE DEF from
<1>3. ~HasPlan(gone)'
  BY <1>1 DEF HasPlan, OnceInv, StoreIds
<1>4. \A id : HasPlan(id)' => HasPlan(id)
  BY <1>1 DEF HasPlan
<1>5. \A j \in DOMAIN plans' : plans'[j].id < nextPlanId /\ Distinct(plans'[j].nodes)
  BY <1>1 DEF OnceInv, StoreIds
<1>6. \A j, k \in DOMAIN plans' : plans'[j].id = plans'[k].id => j = k
  BY <1>1, <1>2 DEF OnceInv, StoreIds
<1>7. StoreIds'
  BY <1>5, <1>6 DEF StoreIds
<1>8. QED
  BY <1>3, <1>4, <1>7

LEMMA TakePlanOnce ==
  ASSUME TypeInv, OnceInv, NEW r \in Requests, TakePlan(r)
  PROVE  OnceInv'
<1>1. /\ UNCHANGED <<nextPlanId, request, journal, trashed>>
      /\ worker[r].pc = "take" /\ Live(r) /\ ~Taken(r)
  BY DEF TakePlan, unchangedByWorker, Live, Taken, TakenPcs
<1>2. CASE UNCHANGED plans /\ \E answer : Return(r, answer)
  BY <1>1, <1>2, ReturnOnce
<1>3. CASE /\ HasPlan(worker[r].plan.id)
           /\ plans' = RemoveAt(plans, PlanFor(worker[r].plan.id))
           /\ Goto(r, "intent")
  <2> DEFINE id == worker[r].plan.id
             w == [worker[r] EXCEPT !.pc = "intent"]
  <2>1. PlanFor(id) \in DOMAIN plans /\ plans[PlanFor(id)].id = id
    BY <1>3 DEF HasPlan, PlanFor
  <2>2. PICK gone : gone = id
    OBVIOUS
  <2>3. /\ StoreIds' /\ ~HasPlan(gone)'
        /\ \A other : HasPlan(other)' => HasPlan(other)
    BY <1>1, <1>3, <2>1, <2>2, RemovedPlan
  <2>4. worker' = [q \in Requests |-> IF q = r THEN w ELSE worker[q]]
    BY <1>3 DEF Goto, TypeInv, TypeOK
  <2>5. w.pc = "intent" /\ w.plan = worker[r].plan
    BY DEF TypeInv, TypeOK, WorkerRecord
  <2> HIDE DEF w
  <2>6. \A q \in Requests : /\ worker'[q].plan = worker[q].plan
                            /\ q # r => worker'[q] = worker[q]
    BY <2>4, <2>5
  <2>7. \A q \in Requests : Taken(q) => worker[q].plan.id # gone
    BY <1>3, <2>2 DEF OnceInv, TakenOnce
  <2>8. ~Called(Op(r))
    BY <1>1, <1>3 DEF OnceInv, TooLate
  <2>9. Confirmed' /\ NoRepeat'
    BY <1>1 DEF OnceInv, Confirmed, NoRepeat
  <2>10. OwnPlan'
    BY <1>1, <2>4, <2>6 DEF OnceInv, OwnPlan, Live
  <2>11. TakenOnce'
    <3>1. \A q \in Requests : Taken(q)' => q = r \/ Taken(q)
      BY <2>4 DEF Taken
    <3>2. \A q \in Requests : Taken(q)' => ~HasPlan(worker[q].plan.id)'
      <4> SUFFICES ASSUME NEW q \in Requests, Taken(q)', NEW other,
                          other = worker[q].plan.id
                   PROVE  ~HasPlan(other)'
        BY <2>6 DEF HasPlan
      <4>1. QED
        BY <2>2, <2>3, <3>1 DEF OnceInv, TakenOnce
    <3>3. \A p, q \in Requests : p # q /\ Taken(p)' /\ Taken(q)' =>
            worker'[p].plan.id # worker'[q].plan.id
      BY <2>2, <2>6, <2>7, <3>1 DEF OnceInv, TakenOnce
    <3>4. QED
      BY <3>2, <3>3 DEF TakenOnce
  <2>12. Noted'
    BY <1>1, <2>4, <2>5 DEF OnceInv, Noted, Taken, Op
  <2>13. TooLate'
    <3> SUFFICES ASSUME NEW q \in Requests, worker'[q].pc \in {"lock", "take"},
                        Called(Op(q))', NEW other, other = worker[q].plan.id
                 PROVE  ~HasPlan(other)'
      BY <2>6 DEF TooLate, HasPlan
    <3>1. q # r
      BY <2>4, <2>5
    <3>2. QED
      BY <1>1, <2>3, <2>6, <3>1 DEF OnceInv, TooLate, Called, Op
  <2>14. CallsHandled'
    BY <1>1, <2>4, <2>8 DEF OnceInv, CallsHandled, Taken, Called, Op
  <2>15. QED
    BY <2>3, <2>9, <2>10, <2>11, <2>12, <2>13, <2>14 DEF OnceInv
<1>4. QED
  BY <1>2, <1>3 DEF TakePlan

LEMMA MoveToTrashOnce ==
  ASSUME TypeInv, OnceInv, OnePlanPerCommand, NEW r \in Requests, MoveToTrash(r)
  PROVE  OnceInv'
<1> DEFINE last == Len(trashed) + 1
<1>1. PICK outcome : worker' = [worker EXCEPT ![r].pc = "outcome",
                                              ![r].outcome = outcome]
  BY DEF MoveToTrash
<1> DEFINE w == [worker[r] EXCEPT !.pc = "outcome", !.outcome = outcome]
<1>2. worker' = [q \in Requests |-> IF q = r THEN w ELSE worker[q]]
  BY <1>1 DEF TypeInv, TypeOK
<1>3. w.pc = "outcome" /\ w.at = worker[r].at /\ w.plan = worker[r].plan
  BY DEF TypeInv, TypeOK, WorkerRecord
<1> HIDE DEF w
<1>4. /\ UNCHANGED <<plans, nextPlanId, request, journal>>
      /\ worker[r].pc = "trash" /\ Taken(r) /\ Live(r)
  BY DEF MoveToTrash, unchangedByWorker, Taken, TakenPcs, HoldingPcs, WorkerPcs,
         Live
<1>5. /\ worker[r].at \in DOMAIN worker[r].plan.nodes
      /\ DOMAIN worker[r].plan.nodes \subseteq Nat
  BY <1>4 DEF TypeInv, TypeOK, AtItem, ItemPcs, WorkerRecord, PlanRecord
<1>6. /\ last \in Nat /\ DOMAIN trashed' = DOMAIN trashed \cup {last}
      /\ last \notin DOMAIN trashed
      /\ trashed'[last].op = Op(r) /\ trashed'[last].node = Item(r)
      /\ \A i \in DOMAIN trashed : trashed'[i] = trashed[i]
  <2>1. PICK call : call.op = Op(r) /\ call.node = Item(r)
                    /\ trashed' = Append(trashed, call)
    BY DEF MoveToTrash
  <2>2. trashed \in Seq([op : Commands, node : Nodes, moved : BOOLEAN])
    BY DEF TypeInv, TypeOK
  <2>3. QED
    BY <2>1, <2>2
<1> HIDE DEF last
<1>7. ASSUME NEW i \in DOMAIN trashed, trashed[i].op = Op(r),
             trashed[i].node = Item(r)
      PROVE  FALSE
  <2>1. PICK k \in Handled(worker[r]) :
          trashed[i].node = worker[r].plan.nodes[k]
    BY <1>4, <1>7 DEF OnceInv, CallsHandled
  <2>2. k \in DOMAIN worker[r].plan.nodes /\ k < worker[r].at
    BY <1>4, <2>1 DEF Handled
  <2>3. k = worker[r].at
    BY <1>4, <1>5, <1>7, <2>1, <2>2 DEF OnceInv, OwnPlan, Distinct, Item
  <2>4. QED
    BY <1>5, <2>2, <2>3
<1>8. Confirmed' /\ StoreIds'
  BY <1>4 DEF OnceInv, Confirmed, StoreIds
<1>9. OwnPlan'
  BY <1>2, <1>3, <1>4 DEF OnceInv, OwnPlan, Live
<1>10. \A q \in Requests : /\ Taken(q)' => Taken(q)
                           /\ worker'[q].plan = worker[q].plan
  BY <1>2, <1>3, <1>4 DEF Taken
<1>11. TakenOnce'
  BY <1>4, <1>10 DEF OnceInv, TakenOnce, HasPlan
<1>12. Noted'
  <2>1. \A q \in Requests : Taken(q)' /\ worker'[q].pc # "intent" =>
          Announced(journal', Op(q)')
    BY <1>2, <1>4, <1>10 DEF OnceInv, Noted, Op
  <2>2. \A i \in DOMAIN trashed' : Announced(journal', trashed'[i].op)
    BY <1>4, <1>6 DEF OnceInv, Noted
  <2>3. QED
    BY <2>1, <2>2 DEF Noted
<1>13. TooLate'
  <2> SUFFICES ASSUME NEW q \in Requests, worker'[q].pc \in {"lock", "take"},
                      Called(Op(q))'
               PROVE  ~HasPlan(worker[q].plan.id)'
    BY DEF TooLate, HasPlan
  <2>1. q # r /\ worker'[q] = worker[q] /\ Live(q)
    BY <1>2, <1>3 DEF Live
  <2>2. CASE Called(Op(q))
    BY <1>4, <2>1, <2>2 DEF OnceInv, TooLate, HasPlan
  <2>3. CASE Op(q) = Op(r)
    <3>1. worker[q].plan.id = worker[r].plan.id
      BY <1>4, <2>1, <2>3, SamePlan
    <3>2. QED
      BY <1>4, <2>1, <3>1 DEF OnceInv, TakenOnce, HasPlan
  <2>4. QED
    BY <1>4, <1>6, <2>2, <2>3 DEF Called, Op
<1>14. CallsHandled'
  <2> SUFFICES ASSUME NEW q \in Requests, NEW i \in DOMAIN trashed',
                      Taken(q)', trashed'[i].op = Op(q)
               PROVE  \E k \in Handled(worker'[q]) :
                        trashed'[i].node = worker'[q].plan.nodes[k]
    BY <1>4 DEF CallsHandled, Op
  <2>1. CASE i = last
    <3>1. q = r
      <4>1. ASSUME q # r PROVE FALSE
        <5>1. Live(q)
          BY <1>10 DEF Taken, TakenPcs, HoldingPcs, Live
        <5>2. worker[q].plan.id = worker[r].plan.id
          BY <1>4, <1>6, <2>1, <5>1, SamePlan
        <5>3. QED
          BY <1>4, <1>10, <4>1, <5>2 DEF OnceInv, TakenOnce
      <4>2. QED
        BY <4>1
    <3>2. worker[r].at \in Handled(w)
      BY <1>3, <1>5 DEF Handled
    <3>3. QED
      BY <1>2, <1>3, <1>6, <2>1, <3>1, <3>2 DEF Item
  <2>2. CASE i \in DOMAIN trashed
    <3>1. PICK k \in Handled(worker[q]) :
            trashed[i].node = worker[q].plan.nodes[k]
      BY <1>6, <1>10, <2>2 DEF OnceInv, CallsHandled
    <3>2. k \in Handled(worker'[q])
      BY <1>2, <1>3, <1>4, <3>1 DEF Handled
    <3>3. QED
      BY <1>6, <1>10, <2>2, <3>1, <3>2
  <2>3. QED
    BY <1>6, <2>1, <2>2
<1>15. NoRepeat'
  BY <1>6, <1>7 DEF OnceInv, NoRepeat
<1>16. QED
  BY <1>8, <1>9, <1>11, <1>12, <1>13, <1>14, <1>15 DEF OnceInv

LEMMA WorkOnce ==
  ASSUME TypeInv, LastLine, OnceInv, OnePlanPerCommand, [Next]_vars,
         NEW r \in Requests, Work(r)
  PROVE  OnceInv'
BY RecordingOnce, ReadingOnce, TakePlanOnce, MoveToTrashOnce DEF Work

-----------------------------------------------------------------------------
(* The steps of a handler *)

LEMMA HandlerOnce ==
  ASSUME TypeInv, OnceInv, NEW r \in Requests,
         LookUpReceipt(r) \/ Respond(r) \/ Disconnect(r)
           \/ (SpawnWorker(r) /\ UNCHANGED worker)
  PROVE  OnceInv'
<1>1. /\ UNCHANGED <<plans, nextPlanId, worker, journal, trashed>>
      /\ request[r].pc # "new"
  BY DEF LookUpReceipt, Respond, Disconnect, SpawnWorker
<1>2. \/ \E pc : request' = [request EXCEPT ![r].pc = pc]
      \/ \E answer : request' = [request EXCEPT ![r].pc = "answered",
                                                ![r].answer = answer]
  BY DEF LookUpReceipt, Respond, Disconnect, SpawnWorker, ReturnEarly, Answer
<1>3. \A q \in Requests :
        /\ request'[q].cmd = request[q].cmd
        /\ request'[q].planId = request[q].planId
        /\ request'[q].pc # "new" => request[q].pc # "new"
  <2>1. \A q \in Requests : request[q] \in RequestRecord
    BY DEF TypeInv, TypeOK
  <2>2. ASSUME NEW pc, request' = [request EXCEPT ![r].pc = pc], NEW q \in Requests
        PROVE  /\ request'[q].cmd = request[q].cmd
               /\ request'[q].planId = request[q].planId
               /\ request'[q].pc # "new" => request[q].pc # "new"
    BY <1>1, <2>1, <2>2 DEF TypeInv, TypeOK, RequestRecord
  <2>3. ASSUME NEW answer, NEW q \in Requests,
               request' = [request EXCEPT ![r].pc = "answered",
                                          ![r].answer = answer]
        PROVE  /\ request'[q].cmd = request[q].cmd
               /\ request'[q].planId = request[q].planId
               /\ request'[q].pc # "new" => request[q].pc # "new"
    BY <1>1, <2>1, <2>3 DEF TypeInv, TypeOK, RequestRecord
  <2>4. QED
    BY <1>2, <2>2, <2>3
<1>4. Confirmed'
  BY <1>3 DEF OnceInv, Confirmed
<1>5. QED
  BY <1>1, <1>3, <1>4, RequestOnce

LEMMA SpawnWorkerOnce ==
  ASSUME TypeInv, OnceInv, NEW r \in Requests, SpawnWorker(r)
  PROVE  OnceInv'
<1>1. CASE UNCHANGED worker
  BY <1>1, HandlerOnce
<1>2. CASE /\ HasPlan(request[r].planId)
           /\ request' = [request EXCEPT ![r].pc = "waiting"]
           /\ worker' = [worker EXCEPT ![r].pc = "check",
                           ![r].plan = plans[PlanFor(request[r].planId)]]
  <2> DEFINE plan == plans[PlanFor(request[r].planId)]
             w == [worker[r] EXCEPT !.pc = "check", !.plan = plan]
  <2>1. /\ UNCHANGED <<plans, nextPlanId, journal, trashed>>
        /\ request[r].pc # "new"
    BY DEF SpawnWorker
  <2>2. /\ plan.id = request[r].planId /\ plan.id < nextPlanId
        /\ Distinct(plan.nodes)
    BY <1>2 DEF HasPlan, PlanFor, OnceInv, StoreIds
  <2>3. worker' = [q \in Requests |-> IF q = r THEN w ELSE worker[q]]
    BY <1>2 DEF TypeInv, TypeOK
  <2>4. w.pc = "check" /\ w.plan = plan
    BY DEF TypeInv, TypeOK, WorkerRecord
  <2> HIDE DEF w, plan
  <2>5. \A q \in Requests :
          /\ request'[q].cmd = request[q].cmd
          /\ request'[q].planId = request[q].planId
          /\ request'[q].pc # "new" => request[q].pc # "new"
    BY <1>2, <2>1 DEF TypeInv, TypeOK, RequestRecord
  <2>6. \A q \in Requests : /\ Taken(q)' => Taken(q) /\ worker'[q] = worker[q]
                            /\ worker'[q].pc \in {"lock", "take"} =>
                                 worker'[q] = worker[q]
    BY <2>3, <2>4 DEF Taken, TakenPcs, HoldingPcs
  <2>7. Confirmed' /\ StoreIds' /\ NoRepeat'
    BY <2>1, <2>5 DEF OnceInv, Confirmed, StoreIds, NoRepeat
  <2>8. OwnPlan'
    BY <2>1, <2>2, <2>3, <2>4, <2>5 DEF OnceInv, OwnPlan, Live
  <2>9. TakenOnce'
    BY <2>1, <2>6 DEF OnceInv, TakenOnce, HasPlan
  <2>10. Noted'
    BY <2>1, <2>5, <2>6 DEF OnceInv, Noted, Op
  <2>11. TooLate'
    BY <2>1, <2>5, <2>6 DEF OnceInv, TooLate, Op, HasPlan, Called
  <2>12. CallsHandled'
    BY <2>1, <2>5, <2>6 DEF OnceInv, CallsHandled, Op
  <2>13. QED
    BY <2>7, <2>8, <2>9, <2>10, <2>11, <2>12 DEF OnceInv
<1>3. QED
  BY <1>1, <1>2 DEF SpawnWorker

LEMMA AcquireCommandOnce ==
  ASSUME TypeInv, OnceInv, NEW r \in Requests, NEW c \in Confirmations,
         AcquireCommand(r, c[1], c[2])
  PROVE  OnceInv'
<1>1. /\ UNCHANGED <<plans, nextPlanId, worker, journal, trashed>>
      /\ request[r].pc = "new"
  BY DEF AcquireCommand
<1>2. ~Live(r)
  BY <1>1 DEF TypeInv, Received, Live
<1>3. \A q \in Requests : q # r => request'[q] = request[q]
  BY DEF AcquireCommand, TypeInv, TypeOK
<1>4. request'[r].cmd = c[1] /\ request'[r].planId = c[2]
  <2> DEFINE received == [request[r] EXCEPT !.cmd = c[1], !.planId = c[2]]
             refused == [received EXCEPT !.pc = "answered", !.answer = "conflict"]
             guarded == [received EXCEPT !.pc = "guarded"]
  <2>1. request[r] \in RequestRecord
    BY DEF TypeInv, TypeOK
  <2>2. \A q \in {refused, guarded} : q.cmd = c[1] /\ q.planId = c[2]
    BY <2>1 DEF RequestRecord
  <2>3. \E q \in {refused, guarded} : request' = [request EXCEPT ![r] = q]
    BY DEF AcquireCommand
  <2> HIDE DEF refused, guarded
  <2>4. QED
    BY <2>2, <2>3 DEF TypeInv, TypeOK
<1>5. c = <<c[1], c[2]>>
  BY PlanAssumption
<1>6. Confirmed'
  BY <1>3, <1>4, <1>5 DEF OnceInv, Confirmed
<1>7. \A q \in Requests : Live(q) => /\ request'[q].cmd = request[q].cmd
                                     /\ request'[q].planId = request[q].planId
  BY <1>2, <1>3
<1>8. QED
  BY <1>1, <1>6, <1>7, RequestOnce

-----------------------------------------------------------------------------
(* The other steps *)

\* What the store keeps when a plan is added.
LEMMA StoredPlans ==
  ASSUME plans \in Seq(PlanRecord), NEW plan \in PlanRecord
  PROVE  \E d \in {0, 1} : \A j \in DOMAIN Stored(plan) :
           /\ j \in Nat /\ j + d \in DOMAIN plans \cup {Len(plans) + 1}
           /\ Stored(plan)[j] = IF j + d = Len(plans) + 1
                                THEN plan ELSE plans[j + d]
<1> DEFINE all == Append(plans, plan)
<1>1. /\ all \in Seq(PlanRecord) /\ Len(all) = Len(plans) + 1 /\ all # <<>>
      /\ Len(plans) \in Nat /\ DOMAIN plans = 1 .. Len(plans)
      /\ \A k \in 1 .. Len(all) :
           all[k] = IF k = Len(plans) + 1 THEN plan ELSE plans[k]
  OBVIOUS
<1> HIDE DEF all
<1>2. /\ DOMAIN all = 1 .. Len(all) /\ DOMAIN Tail(all) = 1 .. Len(all) - 1
      /\ \A k \in 1 .. Len(all) - 1 : Tail(all)[k] = all[k + 1]
  BY <1>1
<1>3. CASE Stored(plan) = all
  <2>1. \A j \in DOMAIN all :
          /\ j \in Nat /\ j + 0 \in DOMAIN plans \cup {Len(plans) + 1}
          /\ all[j] = IF j + 0 = Len(plans) + 1 THEN plan ELSE plans[j + 0]
    BY <1>1, <1>2
  <2>2. QED
    BY <1>3, <2>1
<1>4. CASE Stored(plan) = Tail(all)
  <2>1. \A j \in DOMAIN Tail(all) :
          /\ j \in Nat /\ j + 1 \in DOMAIN plans \cup {Len(plans) + 1}
          /\ Tail(all)[j] = IF j + 1 = Len(plans) + 1 THEN plan ELSE plans[j + 1]
    BY <1>1, <1>2
  <2>2. QED
    BY <1>4, <2>1
<1>5. QED
  BY <1>3, <1>4 DEF Stored, all

\* A plan that is created is new to every worker.
LEMMA CreatePlanStore ==
  ASSUME TypeInv, OnceInv, NEW nodes \in PlanShapes, CreatePlan(nodes)
  PROVE  /\ StoreIds'
         /\ \A r \in Requests : Live(r) =>
              /\ worker[r].plan.id < nextPlanId'
              /\ HasPlan(worker[r].plan.id)' => HasPlan(worker[r].plan.id)
<1> DEFINE preflight == [n \in Nodes |->
                           IF \E i \in DOMAIN nodes : nodes[i] = n
                           THEN Preflight(n) ELSE Blocked]
           plan == [id |-> nextPlanId, nodes |-> nodes, preflight |-> preflight]
<1>1. /\ UNCHANGED <<request, worker, journal, trashed>>
      /\ nextPlanId' = nextPlanId + 1
      /\ plans' = Stored(plan) \/ plans' = plans
  BY DEF CreatePlan
<1>2. plan \in PlanRecord
  <2>1. \A n \in Nodes : Preflight(n) \in Versions \cup {Blocked}
    BY DEF Preflight, TypeInv, TypeOK
  <2>2. QED
    BY <2>1, PlanAssumption DEF PlanRecord, TypeInv, TypeOK
<1>3. plan.id = nextPlanId /\ Distinct(plan.nodes)
  BY PlanAssumption
<1> HIDE DEF plan
<1>4. \A i \in DOMAIN plans : plans[i].id \in Nat /\ plans[i].id < nextPlanId
  <2>1. \A i \in DOMAIN plans : plans[i] \in PlanRecord
    BY DEF TypeInv, TypeOK
  <2>2. QED
    BY <2>1 DEF PlanRecord, OnceInv, StoreIds
<1>5. nextPlanId \in Nat
  BY DEF TypeInv, TypeOK
<1>6. StoreIds' /\ \A id : HasPlan(id)' => HasPlan(id) \/ id = nextPlanId
  <2>1. CASE plans' = plans
    <3>1. \A i \in DOMAIN plans : plans[i].id < nextPlanId + 1
      BY <1>4, <1>5
    <3>2. QED
      BY <1>1, <2>1, <3>1 DEF OnceInv, StoreIds, HasPlan
  <2>2. CASE plans' = Stored(plan)
    <3>1. PICK d \in {0, 1} : \A j \in DOMAIN plans' :
            /\ j \in Nat /\ j + d \in DOMAIN plans \cup {Len(plans) + 1}
            /\ plans'[j] = IF j + d = Len(plans) + 1
                           THEN plan ELSE plans[j + d]
      BY <1>2, <2>2, StoredPlans DEF TypeInv, TypeOK
    <3>2. ASSUME NEW j \in DOMAIN plans'
          PROVE  /\ plans'[j].id < nextPlanId + 1 /\ Distinct(plans'[j].nodes)
                 /\ \/ j + d = Len(plans) + 1 /\ plans'[j].id = nextPlanId
                    \/ j + d \in DOMAIN plans /\ plans'[j] = plans[j + d]
      BY <1>3, <1>4, <1>5, <3>1 DEF OnceInv, StoreIds, TypeInv, TypeOK
    <3>3. ASSUME NEW i \in DOMAIN plans', NEW j \in DOMAIN plans',
                 plans'[i].id = plans'[j].id
          PROVE  i = j
      <4>1. i + d = j + d
        BY <1>4, <1>5, <3>2, <3>3 DEF OnceInv, StoreIds
      <4>2. QED
        BY <3>1, <4>1
    <3>4. \A id : HasPlan(id)' => HasPlan(id) \/ id = nextPlanId
      BY <3>2 DEF HasPlan
    <3>5. StoreIds'
      BY <1>1, <3>2, <3>3 DEF StoreIds
    <3>6. QED
      BY <3>4, <3>5
  <2>3. QED
    BY <1>1, <2>1, <2>2
<1>7. \A r \in Requests : Live(r) =>
        /\ worker[r].plan.id < nextPlanId + 1
        /\ HasPlan(worker[r].plan.id)' => HasPlan(worker[r].plan.id)
  <2> SUFFICES ASSUME NEW r \in Requests, Live(r), NEW id, id = worker[r].plan.id
               PROVE  /\ id < nextPlanId + 1
                      /\ HasPlan(id)' => HasPlan(id)
    BY <1>1 DEF HasPlan
  <2>1. id \in Nat /\ id < nextPlanId
    BY DEF TypeInv, TypeOK, WorkerRecord, PlanRecord, OnceInv, OwnPlan
  <2>2. QED
    BY <1>5, <1>6, <2>1
<1>8. QED
  BY <1>1, <1>6, <1>7

LEMMA CreatePlanOnce ==
  ASSUME TypeInv, OnceInv, NEW nodes \in PlanShapes, CreatePlan(nodes)
  PROVE  OnceInv'
<1>1. UNCHANGED <<request, worker, journal, trashed>>
  BY DEF CreatePlan
<1>2. /\ StoreIds'
      /\ \A r \in Requests : Live(r) =>
           /\ worker[r].plan.id < nextPlanId'
           /\ HasPlan(worker[r].plan.id)' => HasPlan(worker[r].plan.id)
  BY CreatePlanStore
<1>3. \A r \in Requests : Taken(r) \/ worker[r].pc \in {"lock", "take"} => Live(r)
  BY DEF Taken, TakenPcs, HoldingPcs, Live
<1>4. Confirmed' /\ NoRepeat' /\ Noted' /\ CallsHandled'
  BY <1>1 DEF OnceInv, Confirmed, NoRepeat, Noted, CallsHandled, Taken, Op
<1>5. OwnPlan'
  BY <1>1, <1>2 DEF OnceInv, OwnPlan, Live
<1>6. TakenOnce'
  BY <1>1, <1>2, <1>3 DEF OnceInv, TakenOnce, Taken
<1>7. TooLate'
  BY <1>1, <1>2, <1>3 DEF OnceInv, TooLate, Called, Op
<1>8. QED
  BY <1>2, <1>4, <1>5, <1>6, <1>7 DEF OnceInv

LEMMA CrashOnce ==
  ASSUME TypeInv, OnceInv, [Next]_vars, Crash
  PROVE  OnceInv'
<1>1. \A r \in Requests : worker'[r].pc = "none"
  BY DEF Crash, NoWorker
<1>2. \A r \in Requests : ~Live(r)' /\ ~Taken(r)'
  BY <1>1 DEF Live, Taken, TakenPcs, HoldingPcs
<1>3. /\ UNCHANGED trashed /\ plans' = <<>>
      /\ \A r \in Requests :
           /\ request'[r].cmd = request[r].cmd
           /\ request'[r].planId = request[r].planId
           /\ request'[r].pc # "new" => request[r].pc # "new"
  BY DEF Crash, TypeInv, TypeOK, RequestRecord
<1>4. Confirmed' /\ NoRepeat'
  BY <1>3 DEF OnceInv, Confirmed, NoRepeat
<1>5. StoreIds'
  BY <1>3 DEF StoreIds
<1>6. OwnPlan' /\ TakenOnce' /\ CallsHandled'
  BY <1>2 DEF OwnPlan, TakenOnce, CallsHandled
<1>7. TooLate'
  BY <1>1 DEF TooLate
<1>8. \A op : Announced(journal, op) => Announced(journal', op)
  BY AnnouncedLasts
<1>9. Noted'
  BY <1>2, <1>3, <1>8 DEF OnceInv, Noted
<1>10. QED
  BY <1>4, <1>5, <1>6, <1>7, <1>9 DEF OnceInv

LEMMA NextOnce ==
  ASSUME TypeInv, LastLine, OnceInv, OnePlanPerCommand, [Next]_vars
  PROVE  OnceInv'
<1>1. CASE UNCHANGED <<plans, nextPlanId, request, worker, journal, trashed>>
  <2>1. Confirmed'
    BY <1>1 DEF OnceInv, Confirmed
  <2>2. QED
    BY <1>1, <2>1, RequestOnce
<1>2. ASSUME NEW r \in Requests, Handle(r) \/ Disconnect(r)
      PROVE  OnceInv'
  BY <1>2, HandlerOnce, SpawnWorkerOnce DEF Handle
<1>3. QED
  BY <1>1, <1>2, WorkOnce, CreatePlanOnce, AcquireCommandOnce, CrashOnce
     DEF Next, vars, Touch, Idle

-----------------------------------------------------------------------------
\* However often a command is retried, before or after crashes, disconnects
\* and appends that fail, the trash adapter is called at most once for each
\* of its items.  (receipt_for_command, CleanupPlanStore::take and the order
\* of the appends in execute_cleanup_record)
THEOREM OnlyOneCall ==
  ASSUME OnePlanPerCommand
  PROVE  Spec => []AtMostOneCall
<1>1. OnceInv => AtMostOneCall
  <2> SUFFICES ASSUME NoRepeat, NEW op \in Commands, NEW n \in Nodes
               PROVE  Cardinality(CallsFor(op, n)) <= 1
    BY DEF OnceInv, AtMostOneCall
  <2>1. CASE CallsFor(op, n) = {}
    BY <2>1, FS_EmptySet
  <2>2. ASSUME NEW i \in CallsFor(op, n)
        PROVE  Cardinality(CallsFor(op, n)) <= 1
    <3>1. CallsFor(op, n) = {i}
      BY <2>2 DEF NoRepeat, CallsFor
    <3>2. Cardinality({i}) = 1
      BY FS_Singleton
    <3>3. QED
      BY <3>1, <3>2
  <2>3. QED
    BY <2>1, <2>2
<1>2. TypeInv /\ LastLine /\ OnceInv /\ [Next]_vars => (LastLine /\ OnceInv)'
  BY LastLineLasts, NextOnce
<1>3. TypeInv /\ LockInv => TypeInv
  OBVIOUS
<1>4. QED
  BY Invariant, InitOnce, <1>1, <1>2, <1>3, PTL DEF Spec

-----------------------------------------------------------------------------
(* What the journal tells: the inductive invariant. *)

\* The lines of an operation about an item.
Words(lines, op, n, kinds) ==
  {j \in LinesOf(lines, op, kinds) : lines[j].node = n}

\* An outcome that was written is what the adapter said.
OutcomesTrue ==
  \A j \in DOMAIN journal : journal[j].kind = "outcome" =>
    HonestItem(journal[j].state, CallsFor(journal[j].op, journal[j].node))

\* Every call was announced, for an item of the operation.
CallsMarked ==
  \A i \in DOMAIN trashed :
    /\ Words(journal, trashed[i].op, trashed[i].node, {"dispatch"}) # {}
    /\ \A j \in LinesOf(journal, trashed[i].op, {"intent", "skeleton"}) :
         trashed[i].node \in journal[j].nodes

\* What opens the receipt of an operation precedes what is said of its items.
Ordered(lines, op) ==
  \A i \in LinesOf(lines, op, {"intent", "skeleton"}),
     j \in LinesOf(lines, op, {"dispatch", "outcome"}) : i < j

OpenedFirst == \A op \in Commands : Ordered(journal, op)

\* What is said last of an item is its outcome.
OutcomesLast ==
  \A op \in Commands, n \in Nodes :
    \A i \in Words(journal, op, n, {"dispatch"}),
       j \in Words(journal, op, n, {"outcome"}) : i < j

OpsOpened == \A j \in DOMAIN journal : HasReceipt(journal, journal[j].op)

ReceiptsTold ==
  OutcomesTrue /\ CallsMarked /\ OpenedFirst /\ OutcomesLast /\ OpsOpened

\* A dispatch of the item was not written yet.
Ahead(w, k) ==
  k > w.at \/ (k = w.at /\ w.pc \notin {"trash", "outcome"})

\* What the lines of an operation are while w runs it.
PlanTold(lines, op, w) ==
  /\ \A j \in LinesOf(lines, op, {"intent", "skeleton"}) :
       lines[j].nodes = NodesOf(w.plan)
  /\ \A k \in DOMAIN w.plan.nodes :
       /\ k < w.at => Words(lines, op, w.plan.nodes[k], {"outcome"}) # {}
       /\ k >= w.at => Words(lines, op, w.plan.nodes[k], {"outcome"}) = {}
       /\ Ahead(w, k) => Words(lines, op, w.plan.nodes[k], {"dispatch"}) = {}
  /\ w.pc # "reply" => LinesOf(lines, op, {"finalized"}) = {}
  /\ w.pc \in {"summarise", "finalize", "reply"} => w.at > Len(w.plan.nodes)

\* What the journal has of the operation of a worker.
WorkerTold(r) ==
  /\ worker[r].pc \in {"lock", "take"} /\ HasReceipt(journal, Op(r)) =>
       ~HasPlan(worker[r].plan.id)
  /\ worker[r].pc = "intent" => ~HasReceipt(journal, Op(r))
  /\ worker[r].pc = "skeleton" =>
       LinesOf(journal, Op(r), {"dispatch", "outcome"}) = {}
  /\ Taken(r) => PlanTold(journal, Op(r), worker[r])
  /\ worker[r].pc = "trash" => Words(journal, Op(r), Item(r), {"dispatch"}) # {}
  /\ worker[r].pc = "outcome" =>
       HonestItem(worker[r].outcome, CallsFor(Op(r), Item(r)))

\* A request has no worker before it spawned one, and a worker starts with
\* the first item.
StartsFirst ==
  \A r \in Requests :
    /\ request[r].pc \in {"new", "guarded", "looked"} => worker[r].pc = "none"
    /\ worker[r].pc \in {"none", "check", "lock", "take", "intent", "done"} =>
         worker[r].at = 1

Told == Readable(journal) =>
          ReceiptsTold /\ \A r \in Requests : WorkerTold(r)

-----------------------------------------------------------------------------
(* Places in the journal *)

LEMMA LinesAppend ==
  ASSUME NEW lines \in Seq(Lines), NEW record \in Records
  PROVE  /\ DOMAIN Append(lines, record) = DOMAIN lines \cup {Len(lines) + 1}
         /\ Append(lines, record)[Len(lines) + 1] = record
         /\ \A i \in DOMAIN lines : /\ Append(lines, record)[i] = lines[i]
                                    /\ i \in Nat /\ i < Len(lines) + 1
         /\ \A op, kinds :
              LinesOf(Append(lines, record), op, kinds) =
                LinesOf(lines, op, kinds) \cup
                  IF record.kind \in kinds /\ record.op = op
                  THEN {Len(lines) + 1} ELSE {}
<1>1. /\ DOMAIN Append(lines, record) = DOMAIN lines \cup {Len(lines) + 1}
      /\ Append(lines, record)[Len(lines) + 1] = record
      /\ \A i \in DOMAIN lines : /\ Append(lines, record)[i] = lines[i]
                                 /\ i \in Nat /\ i < Len(lines) + 1
  BY DEF Lines
<1>2. QED
  BY <1>1 DEF LinesOf

\* A file stays readable only when whole records are added to it.
LEMMA WrittenReadable ==
  ASSUME NEW lines \in Seq(Lines), NEW e \in BOOLEAN, NEW line,
         e \/ lines # <<>>, Readable(Written(lines, e, line))
  PROVE  /\ Written(lines, e, line) = Append(lines, line)
         /\ Readable(lines) /\ line # Torn
<1>1. CASE e
  <2>1. /\ DOMAIN Append(lines, line) = DOMAIN lines \cup {Len(lines) + 1}
        /\ Append(lines, line)[Len(lines) + 1] = line
        /\ \A i \in DOMAIN lines : Append(lines, line)[i] = lines[i]
    OBVIOUS
  <2>2. QED
    BY <1>1, <2>1 DEF Written, Readable
<1>2. CASE ~e
  <2>1. Len(lines) \in DOMAIN lines
    BY <1>2
  <2>2. QED
    BY <1>2, <2>1 DEF Written, Readable
<1>3. QED
  BY <1>1, <1>2

LEMMA AppendReadable ==
  ASSUME NEW lines \in Seq(Lines), NEW e \in BOOLEAN, NEW record,
         e \/ lines # <<>>
  PROVE  /\ Readable(GoodAppend(lines, e, record).lines) =>
              /\ Readable(lines)
              /\ GoodAppend(lines, e, record).lines = Append(lines, record)
         /\ \A fault \in FaultKinds :
              Readable(FaultyAppend(lines, e, record, fault).lines) =>
                /\ Readable(lines)
                /\ FaultyAppend(lines, e, record, fault).lines
                     \in {lines, Append(lines, record)}
<1>1. \A line : Readable(Written(lines, e, line)) =>
        /\ Written(lines, e, line) = Append(lines, line)
        /\ Readable(lines) /\ line # Torn
  BY WrittenReadable
<1>2. QED
  BY <1>1 DEF GoodAppend, FaultyAppend, FaultKinds

-----------------------------------------------------------------------------
(* A record is added to a file that can be read. *)

LEMMA WordsAppend ==
  ASSUME TypeInv, NEW record \in Records, journal' = Append(journal, record),
         NEW op, NEW n, NEW kinds \in SUBSET {"dispatch", "outcome"}
  PROVE  Words(journal', op, n, kinds) = Words(journal, op, n, kinds) \cup
           IF record.kind \in kinds /\ record.op = op /\ record.node = n
           THEN {Len(journal) + 1} ELSE {}
<1>1. journal \in Seq(Lines)
  BY DEF TypeInv, TypeOK
<1>2. /\ DOMAIN journal' = DOMAIN journal \cup {Len(journal) + 1}
      /\ journal'[Len(journal) + 1] = record
      /\ \A i \in DOMAIN journal : journal'[i] = journal[i]
      /\ LinesOf(journal', op, kinds) =
           LinesOf(journal, op, kinds) \cup
             IF record.kind \in kinds /\ record.op = op
             THEN {Len(journal) + 1} ELSE {}
  BY <1>1, LinesAppend
<1>3. LinesOf(journal, op, kinds) \subseteq DOMAIN journal
  BY DEF LinesOf
<1>4. QED
  BY <1>2, <1>3 DEF Words

\* The adapter was not called for the item a worker is about to handle.
LEMMA NoCallYet ==
  ASSUME TypeInv, OnceInv, NEW r \in Requests,
         worker[r].pc \in {"block", "dispatch", "trash"}
  PROVE  /\ Taken(r) /\ worker[r].at \in DOMAIN worker[r].plan.nodes
         /\ CallsFor(Op(r), Item(r)) = {}
<1>1. /\ Taken(r) /\ Live(r)
      /\ worker[r].at \in DOMAIN worker[r].plan.nodes
      /\ DOMAIN worker[r].plan.nodes \subseteq Nat
  BY DEF Taken, TakenPcs, HoldingPcs, WorkerPcs, Live, TypeInv, TypeOK, AtItem,
         ItemPcs, WorkerRecord, PlanRecord
<1>2. ASSUME NEW i \in DOMAIN trashed, trashed[i].op = Op(r),
             trashed[i].node = Item(r)
      PROVE  FALSE
  <2>1. PICK k \in Handled(worker[r]) :
          trashed[i].node = worker[r].plan.nodes[k]
    BY <1>1, <1>2 DEF OnceInv, CallsHandled
  <2>2. k \in DOMAIN worker[r].plan.nodes /\ k < worker[r].at
    BY <2>1 DEF Handled
  <2>3. k = worker[r].at
    BY <1>1, <1>2, <2>1, <2>2 DEF OnceInv, OwnPlan, Distinct, Item
  <2>4. QED
    BY <1>1, <2>2, <2>3
<1>3. QED
  BY <1>1, <1>2 DEF CallsFor

\* What a worker appends, and where it is when it does.
LEMMA PendingIs ==
  ASSUME TypeInv, NEW r \in Requests, NEW record \in PendingRecord(r)
  PROVE  /\ Taken(r) /\ Live(r) /\ record \in Records /\ record.op = Op(r)
         /\ Op(r) \in Commands
         /\ record.kind \in {"intent", "skeleton"} =>
              /\ worker[r].pc = record.kind
              /\ record.nodes = NodesOf(worker[r].plan)
         /\ record.kind = "dispatch" =>
              worker[r].pc = "dispatch" /\ record.node = Item(r)
         /\ record.kind = "outcome" =>
              /\ record.node = Item(r)
              /\ \/ worker[r].pc = "block" /\ record.state = "blocked"
                 \/ worker[r].pc = "outcome" /\ record.state = worker[r].outcome
         /\ record.kind = "finalized" => worker[r].pc = "finalize"
<1>1. worker[r].pc \in {"intent", "skeleton", "block", "dispatch", "outcome",
                        "finalize"}
  BY DEF PendingRecord
<1>2. Taken(r) /\ Live(r)
  BY <1>1 DEF Taken, TakenPcs, HoldingPcs, WorkerPcs, Live
<1>3. Op(r) \in Commands
  BY <1>1, OpType
<1>4. record \in Records
  BY PendingType
<1>5. QED
  BY <1>1, <1>2, <1>3, <1>4 DEF PendingRecord, Outcome

LEMMA OpenedGrows ==
  ASSUME TypeInv, NEW record \in Records, journal' = Append(journal, record),
         NEW op
  PROVE  /\ HasReceipt(journal, op) => HasReceipt(journal', op)
         /\ record.op # op => (HasReceipt(journal', op) => HasReceipt(journal, op))
         /\ record.kind \in {"intent", "skeleton"} => HasReceipt(journal', record.op)
<1>1. journal \in Seq(Lines)
  BY DEF TypeInv, TypeOK
<1>2. LinesOf(journal', op, {"intent", "skeleton"}) =
        LinesOf(journal, op, {"intent", "skeleton"}) \cup
          IF record.kind \in {"intent", "skeleton"} /\ record.op = op
          THEN {Len(journal) + 1} ELSE {}
  BY <1>1, LinesAppend
<1>3. LinesOf(journal', record.op, {"intent", "skeleton"}) =
        LinesOf(journal, record.op, {"intent", "skeleton"}) \cup
          IF record.kind \in {"intent", "skeleton"} /\ record.op = record.op
          THEN {Len(journal) + 1} ELSE {}
  BY <1>1, LinesAppend
<1>4. QED
  BY <1>2, <1>3 DEF HasReceipt

LEMMA AppendTold ==
  ASSUME TypeInv, OnceInv, Readable(journal), ReceiptsTold,
         NEW r \in Requests, WorkerTold(r), NEW record \in PendingRecord(r),
         journal' = Append(journal, record), UNCHANGED trashed
  PROVE  ReceiptsTold'
<1> DEFINE new == Len(journal) + 1
<1>1. journal \in Seq(Lines)
  BY DEF TypeInv, TypeOK
<1>2. /\ Taken(r) /\ record \in Records /\ record.op = Op(r)
      /\ record.kind \in {"intent", "skeleton"} => worker[r].pc = record.kind
      /\ record.kind = "outcome" =>
           /\ record.node = Item(r)
           /\ \/ worker[r].pc = "block" /\ record.state = "blocked"
              \/ worker[r].pc = "outcome" /\ record.state = worker[r].outcome
  BY PendingIs
<1>3. /\ DOMAIN journal' = DOMAIN journal \cup {new}
      /\ journal'[new] = record
      /\ \A i \in DOMAIN journal : journal'[i] = journal[i] /\ i \in Nat /\ i < new
      /\ \A op, kinds :
           LinesOf(journal', op, kinds) =
             LinesOf(journal, op, kinds) \cup
               IF record.kind \in kinds /\ record.op = op THEN {new} ELSE {}
  BY <1>1, <1>2, LinesAppend
<1> HIDE DEF new
<1>4. \A op, kinds : LinesOf(journal, op, kinds) \subseteq DOMAIN journal
  BY DEF LinesOf
<1>5. \A op, n : CallsFor(op, n)' = CallsFor(op, n)
  BY DEF CallsFor
<1>6. \A state, calls : HonestItem(state, calls)' = HonestItem(state, calls)
  BY DEF HonestItem
<1>7. ASSUME record.kind \in {"intent", "skeleton"}
      PROVE  LinesOf(journal, Op(r), {"dispatch", "outcome"}) = {}
  <2>1. CASE worker[r].pc = "skeleton"
    BY <2>1 DEF WorkerTold
  <2>2. CASE worker[r].pc = "intent"
    <3>1. ~HasReceipt(journal, Op(r))
      BY <2>2 DEF WorkerTold
    <3>2. QED
      BY <3>1 DEF ReceiptsTold, OpsOpened, LinesOf
  <2>3. QED
    BY <1>2, <1>7, <2>1, <2>2
<1>8. OutcomesTrue'
  <2> SUFFICES ASSUME NEW j \in DOMAIN journal', journal'[j].kind = "outcome"
               PROVE  HonestItem(journal'[j].state,
                                 CallsFor(journal'[j].op, journal'[j].node))
    BY <1>5, <1>6 DEF OutcomesTrue
  <2>1. CASE j \in DOMAIN journal
    BY <1>3, <2>1 DEF ReceiptsTold, OutcomesTrue
  <2>2. CASE j = new /\ worker[r].pc = "block" /\ record.state = "blocked"
    <3>1. CallsFor(Op(r), Item(r)) = {}
      BY <2>2, NoCallYet
    <3>2. QED
      BY <1>2, <1>3, <2>2, <3>1 DEF HonestItem
  <2>3. CASE j = new /\ worker[r].pc = "outcome" /\ record.state = worker[r].outcome
    BY <1>2, <1>3, <2>3 DEF WorkerTold
  <2>4. QED
    BY <1>2, <1>3, <2>1, <2>2, <2>3
<1>9. CallsMarked'
  <2>1. ASSUME NEW i \in DOMAIN trashed, NEW op, op = trashed[i].op,
               NEW n, n = trashed[i].node
        PROVE  /\ Words(journal', op, n, {"dispatch"}) # {}
               /\ \A j \in LinesOf(journal', op, {"intent", "skeleton"}) :
                    n \in journal'[j].nodes
    <3>1. /\ Words(journal, op, n, {"dispatch"}) # {}
          /\ \A j \in LinesOf(journal, op, {"intent", "skeleton"}) :
               n \in journal[j].nodes
      BY <2>1 DEF ReceiptsTold, CallsMarked
    <3>2. Words(journal', op, n, {"dispatch"}) # {}
      BY <1>2, <3>1, WordsAppend
    <3>3. LinesOf(journal, op, {"dispatch", "outcome"}) # {}
      BY <3>1 DEF Words, LinesOf
    <3>4. ~(record.kind \in {"intent", "skeleton"} /\ record.op = op)
      BY <1>2, <1>7, <3>3
    <3>5. LinesOf(journal', op, {"intent", "skeleton"}) =
            LinesOf(journal, op, {"intent", "skeleton"}) \cup
              IF record.kind \in {"intent", "skeleton"} /\ record.op = op
              THEN {new} ELSE {}
      BY <1>3
    <3>6. QED
      BY <1>3, <1>4, <3>1, <3>2, <3>4, <3>5
  <2>2. \A i \in DOMAIN trashed :
          /\ Words(journal', trashed[i].op, trashed[i].node, {"dispatch"}) # {}
          /\ \A j \in LinesOf(journal', trashed[i].op, {"intent", "skeleton"}) :
               trashed[i].node \in journal'[j].nodes
    BY <2>1 DEF Words
  <2>3. QED
    BY <2>2 DEF CallsMarked
<1>10. OpenedFirst'
  <2> SUFFICES ASSUME NEW op \in Commands,
                      NEW i \in LinesOf(journal', op, {"intent", "skeleton"}),
                      NEW j \in LinesOf(journal', op, {"dispatch", "outcome"})
               PROVE  i < j
    BY DEF OpenedFirst, Ordered
  <2>1. CASE i \in LinesOf(journal, op, {"intent", "skeleton"})
    <3>1. CASE j \in LinesOf(journal, op, {"dispatch", "outcome"})
      BY <2>1, <3>1 DEF ReceiptsTold, OpenedFirst, Ordered
    <3>2. CASE j = new
      BY <1>3, <1>4, <2>1, <3>2
    <3>3. QED
      BY <1>3, <3>1, <3>2
  <2>2. CASE record.kind \in {"intent", "skeleton"} /\ op = Op(r)
    <3>1. LinesOf(journal', op, {"dispatch", "outcome"}) = {}
      BY <1>3, <1>7, <2>2
    <3>2. QED
      BY <3>1
  <2>3. QED
    BY <1>2, <1>3, <2>1, <2>2
<1>11. OpsOpened'
  <2> SUFFICES ASSUME NEW j \in DOMAIN journal'
               PROVE  HasReceipt(journal', journal'[j].op)
    BY DEF OpsOpened
  <2>1. CASE j \in DOMAIN journal
    BY <1>2, <1>3, <2>1, OpenedGrows DEF ReceiptsTold, OpsOpened
  <2>2. CASE j = new /\ record.kind \in {"intent", "skeleton"}
    BY <1>2, <1>3, <2>2, OpenedGrows
  <2>3. CASE j = new /\ record.kind \notin {"intent", "skeleton"}
    <3>1. worker[r].pc # "intent"
      BY <2>3 DEF PendingRecord
    <3>2. HasReceipt(journal, Op(r))
      BY <1>2, <3>1 DEF OnceInv, Noted, Announced
    <3>3. QED
      BY <1>2, <1>3, <2>3, <3>2, OpenedGrows
  <2>4. QED
    BY <1>3, <2>1, <2>2, <2>3
<1>12. OutcomesLast'
  <2> SUFFICES ASSUME NEW op \in Commands, NEW n \in Nodes,
                      NEW i \in Words(journal', op, n, {"dispatch"}),
                      NEW j \in Words(journal', op, n, {"outcome"})
               PROVE  i < j
    BY DEF OutcomesLast
  <2>1. /\ Words(journal', op, n, {"dispatch"}) =
             Words(journal, op, n, {"dispatch"}) \cup
               IF record.kind \in {"dispatch"} /\ record.op = op /\ record.node = n
               THEN {Len(journal) + 1} ELSE {}
        /\ Words(journal', op, n, {"outcome"}) =
             Words(journal, op, n, {"outcome"}) \cup
               IF record.kind \in {"outcome"} /\ record.op = op /\ record.node = n
               THEN {Len(journal) + 1} ELSE {}
    BY <1>2, WordsAppend
  <2>2. \A k \in Words(journal, op, n, {"dispatch"}) : k \in Nat /\ k < Len(journal) + 1
    BY <1>3, <1>4 DEF Words, new
  <2>3. CASE i \in Words(journal, op, n, {"dispatch"})
    <3>1. CASE j \in Words(journal, op, n, {"outcome"})
      BY <2>3, <3>1 DEF ReceiptsTold, OutcomesLast
    <3>2. QED
      BY <2>1, <2>2, <2>3, <3>1
  <2>4. CASE record.kind = "dispatch" /\ record.op = op /\ record.node = n
    <3>1. /\ worker[r].pc = "dispatch" /\ n = Item(r) /\ op = Op(r)
      BY <2>4, PendingIs
    <3>2. worker[r].at \in DOMAIN worker[r].plan.nodes /\ worker[r].at \in Nat
      BY <3>1, NoCallYet DEF TypeInv, TypeOK, WorkerRecord
    <3>3. PlanTold(journal, op, worker[r]) /\ worker[r].at >= worker[r].at
      BY <1>2, <3>1, <3>2 DEF WorkerTold
    <3>4. Words(journal, op, n, {"outcome"}) = {}
      BY <3>1, <3>2, <3>3 DEF PlanTold, Item
    <3>5. QED
      BY <2>1, <2>4, <3>4
  <2>5. QED
    BY <2>1, <2>3, <2>4
<1>13. QED
  BY <1>8, <1>9, <1>10, <1>11, <1>12 DEF ReceiptsTold

-----------------------------------------------------------------------------
(* What the journal tells of each worker *)

\* What is told of a worker that goes on with the same plan, and of its lines,
\* depends on those alone.
LEMMA SameTold ==
  ASSUME TypeInv, NEW q \in Requests, WorkerTold(q), worker'[q] = worker[q],
         UNCHANGED trashed, Live(q) => Op(q)' = Op(q),
         Live(q) => \A kinds :
           LinesOf(journal', Op(q), kinds) = LinesOf(journal, Op(q), kinds),
         \A j \in DOMAIN journal : journal'[j] = journal[j],
         Live(q) => (HasPlan(worker[q].plan.id)' => HasPlan(worker[q].plan.id))
  PROVE  WorkerTold(q)'
<1>1. CASE ~Live(q)
  BY <1>1 DEF WorkerTold, Live, Taken, TakenPcs, HoldingPcs
<1>2. CASE Live(q)
  <2>1. PICK op : op = Op(q) /\ op = Op(q)'
    BY <1>2
  <2>2. HasReceipt(journal', op) <=> HasReceipt(journal, op)
    BY <1>2, <2>1 DEF HasReceipt
  <2>3. \A kinds : LinesOf(journal, op, kinds) \subseteq DOMAIN journal
    BY DEF LinesOf
  <2>4. \A n, kinds : Words(journal', op, n, kinds) = Words(journal, op, n, kinds)
    BY <1>2, <2>1, <2>3 DEF Words
  <2>5. Item(q)' = Item(q) /\ (Taken(q)' <=> Taken(q))
    BY DEF Item, Taken
  <2>6. \A state, n : HonestItem(state, CallsFor(op, n))' <=>
                        HonestItem(state, CallsFor(op, n))
    BY DEF HonestItem, CallsFor
  <2>7. /\ worker'[q].pc \in {"lock", "take"} /\ HasReceipt(journal', op) =>
             ~HasPlan(worker[q].plan.id)'
        /\ worker'[q].pc = "intent" => ~HasReceipt(journal', op)
        /\ worker'[q].pc = "skeleton" =>
             LinesOf(journal', op, {"dispatch", "outcome"}) = {}
    BY <1>2, <2>1, <2>2 DEF WorkerTold
  <2>8. Taken(q)' => PlanTold(journal', op, worker'[q])
    <3>1. PlanTold(journal, op, worker[q]) => PlanTold(journal', op, worker[q])
      BY <1>2, <2>1, <2>3, <2>4 DEF PlanTold
    <3>2. QED
      BY <2>1, <2>5, <3>1 DEF WorkerTold
  <2>9. /\ worker'[q].pc = "trash" =>
             Words(journal', op, Item(q), {"dispatch"}) # {}
        /\ worker'[q].pc = "outcome" =>
             HonestItem(worker[q].outcome, CallsFor(op, Item(q)))'
    BY <2>1, <2>4, <2>5, <2>6 DEF WorkerTold
  <2>10. QED
    BY <2>1, <2>5, <2>7, <2>8, <2>9 DEF WorkerTold, HasPlan
<1>3. QED
  BY <1>1, <1>2

\* A record is news to its own worker only.
LEMMA OthersTold ==
  ASSUME TypeInv, OnceInv, OnePlanPerCommand,
         NEW r \in Requests, NEW record \in PendingRecord(r),
         journal' = Append(journal, record), UNCHANGED <<request, plans, trashed>>,
         NEW q \in Requests, q # r, worker'[q] = worker[q], WorkerTold(q)
  PROVE  WorkerTold(q)'
<1>1. /\ Taken(r) /\ Live(r) /\ record \in Records /\ record.op = Op(r)
  BY PendingIs
<1>2. journal \in Seq(Lines) /\ Op(q)' = Op(q)
  BY DEF TypeInv, TypeOK, Op
<1>3. /\ \A i \in DOMAIN journal : journal'[i] = journal[i]
      /\ \A op, kinds : op # Op(r) =>
           LinesOf(journal', op, kinds) = LinesOf(journal, op, kinds)
  <2>1. /\ \A i \in DOMAIN journal : journal'[i] = journal[i]
        /\ \A op, kinds :
             LinesOf(journal', op, kinds) = LinesOf(journal, op, kinds) \cup
               IF record.kind \in kinds /\ record.op = op
               THEN {Len(journal) + 1} ELSE {}
    BY <1>1, <1>2, LinesAppend
  <2>2. ASSUME NEW op, NEW kinds, op # Op(r)
        PROVE  LinesOf(journal', op, kinds) = LinesOf(journal, op, kinds)
    <3>1. LinesOf(journal', op, kinds) = LinesOf(journal, op, kinds) \cup
            IF record.kind \in kinds /\ record.op = op
            THEN {Len(journal) + 1} ELSE {}
      BY <2>1
    <3>2. QED
      BY <1>1, <2>2, <3>1
  <2>3. QED
    BY <2>1, <2>2
<1>4. CASE Live(q) /\ Op(q) = Op(r)
  <2>1. worker[q].plan.id = worker[r].plan.id
    BY <1>1, <1>4, SamePlan
  <2>2. ~Taken(q) /\ ~HasPlan(worker[q].plan.id)
    BY <1>1, <2>1 DEF OnceInv, TakenOnce
  <2>3. worker'[q].pc \notin {"intent", "skeleton", "trash", "outcome"}
    BY <2>2 DEF Taken, TakenPcs, HoldingPcs, WorkerPcs
  <2>4. ~Taken(q)' /\ ~HasPlan(worker[q].plan.id)'
    BY <2>2 DEF Taken, HasPlan
  <2>5. QED
    BY <2>3, <2>4 DEF WorkerTold, HasPlan
<1>5. CASE ~(Live(q) /\ Op(q) = Op(r))
  <2>1. HasPlan(worker[q].plan.id)' => HasPlan(worker[q].plan.id)
    BY DEF HasPlan
  <2>2. QED
    BY <1>2, <1>3, <1>5, <2>1, SameTold
<1>6. QED
  BY <1>4, <1>5

\* Where a worker goes from here when its record was written.
LEMMA RecorderTold ==
  ASSUME TypeInv, OnceInv, ReceiptsTold, NEW r \in Requests, WorkerTold(r),
         NEW record \in PendingRecord(r), journal' = Append(journal, record),
         UNCHANGED <<request, trashed>>,
         worker'[r].plan = worker[r].plan,
         \/ /\ worker'[r].at = worker[r].at
            /\ \/ worker[r].pc = "intent" /\ worker'[r].pc = "skeleton"
               \/ worker[r].pc = "skeleton" /\ worker'[r].pc = "item"
               \/ worker[r].pc = "dispatch" /\ worker'[r].pc = "trash"
               \/ worker[r].pc = "finalize" /\ worker'[r].pc = "reply"
         \/ /\ worker'[r].at = worker[r].at + 1
            /\ worker[r].pc \in {"block", "outcome"} /\ worker'[r].pc = "item"
  PROVE  WorkerTold(r)'
<1> DEFINE new == Len(journal) + 1
           plan == worker[r].plan
<1>1. /\ Taken(r) /\ record \in Records /\ record.op = Op(r)
      /\ record.kind \in {"intent", "skeleton"} =>
           /\ worker[r].pc = record.kind
           /\ record.nodes = NodesOf(plan)
      /\ record.kind = "dispatch" =>
           worker[r].pc = "dispatch" /\ record.node = Item(r)
      /\ record.kind = "outcome" =>
           record.node = Item(r) /\ worker[r].pc \in {"block", "outcome"}
      /\ record.kind = "finalized" => worker[r].pc = "finalize"
      /\ worker[r].pc \in {"block", "outcome"} => record.kind = "outcome"
  BY PendingIs DEF Records, IntentRecord, SkeletonRecord, DispatchRecord,
                   OutcomeRecord, FinalizedRecord
<1>2. PICK op : op = Op(r) /\ op = Op(r)'
  BY DEF Op
<1>3. journal \in Seq(Lines)
  BY DEF TypeInv, TypeOK
<1>4. /\ DOMAIN plan.nodes \subseteq Nat /\ worker[r].at \in Nat
      /\ worker[r].pc \in ItemPcs => worker[r].at \in DOMAIN plan.nodes
      /\ Distinct(plan.nodes)
  <2>1. worker[r] \in WorkerRecord /\ Live(r)
    BY <1>1 DEF TypeInv, TypeOK, Live, Taken, TakenPcs, HoldingPcs
  <2>2. QED
    BY <2>1 DEF WorkerRecord, PlanRecord, TypeInv, AtItem, OnceInv, OwnPlan
<1>5. /\ journal'[new] = record
      /\ \A i \in DOMAIN journal : journal'[i] = journal[i]
      /\ \A kinds :
           LinesOf(journal', op, kinds) =
             LinesOf(journal, op, kinds) \cup
               IF record.kind \in kinds /\ record.op = op THEN {new} ELSE {}
  BY <1>1, <1>3, LinesAppend
<1>6. \A n, kinds : kinds \subseteq {"dispatch", "outcome"} =>
        Words(journal', op, n, kinds) = Words(journal, op, n, kinds) \cup
          IF record.kind \in kinds /\ record.op = op /\ record.node = n
          THEN {new} ELSE {}
  BY <1>1, WordsAppend
<1> PlanTold(journal, op, worker[r])
  BY <1>1, <1>2 DEF WorkerTold
<1>7. \A kinds : LinesOf(journal, op, kinds) \subseteq DOMAIN journal
  BY DEF LinesOf
<1> HIDE DEF new
<1>8. worker'[r].pc = "skeleton" =>
        LinesOf(journal', op, {"dispatch", "outcome"}) = {}
  <2> SUFFICES ASSUME worker[r].pc = "intent"
               PROVE  LinesOf(journal', op, {"dispatch", "outcome"}) = {}
    OBVIOUS
  <2>1. ~HasReceipt(journal, op)
    BY <1>2 DEF WorkerTold
  <2>2. LinesOf(journal, op, {"dispatch", "outcome"}) = {}
    BY <2>1 DEF ReceiptsTold, OpsOpened, LinesOf
  <2>3. record.kind \notin {"dispatch", "outcome"}
    BY <1>1
  <2>4. QED
    BY <1>5, <2>2, <2>3
<1>9. \A j \in LinesOf(journal', op, {"intent", "skeleton"}) :
        journal'[j].nodes = NodesOf(plan)
  <2>1. \A j \in LinesOf(journal, op, {"intent", "skeleton"}) :
          journal[j].nodes = NodesOf(plan)
    BY DEF PlanTold
  <2>2. ASSUME NEW j \in LinesOf(journal', op, {"intent", "skeleton"})
        PROVE  journal'[j].nodes = NodesOf(plan)
    <3>1. LinesOf(journal', op, {"intent", "skeleton"}) =
            LinesOf(journal, op, {"intent", "skeleton"}) \cup
              IF record.kind \in {"intent", "skeleton"} /\ record.op = op
              THEN {new} ELSE {}
      BY <1>5
    <3>2. CASE j \in LinesOf(journal, op, {"intent", "skeleton"})
      BY <1>5, <1>7, <2>1, <3>2
    <3>3. CASE j = new /\ record.kind \in {"intent", "skeleton"}
      BY <1>1, <1>5, <3>3
    <3>4. QED
      BY <2>2, <3>1, <3>2, <3>3
  <2>3. QED
    BY <2>2
<1>10. ASSUME NEW k \in DOMAIN plan.nodes, k >= worker'[r].at
       PROVE  Words(journal', op, plan.nodes[k], {"outcome"}) = {}
  <2>1. k >= worker[r].at
    BY <1>4, <1>10
  <2>2. Words(journal, op, plan.nodes[k], {"outcome"}) = {}
    BY <2>1 DEF PlanTold
  <2>3. ~(record.kind = "outcome" /\ record.node = plan.nodes[k])
    <3> SUFFICES ASSUME record.kind = "outcome" PROVE record.node # plan.nodes[k]
      OBVIOUS
    <3>1. worker[r].at \in DOMAIN plan.nodes /\ k # worker[r].at
      BY <1>1, <1>4, <1>10 DEF ItemPcs
    <3>2. QED
      BY <1>1, <1>4, <3>1 DEF Distinct, Item
  <2>4. QED
    BY <1>6, <2>2, <2>3
<1>11. ASSUME NEW k \in DOMAIN plan.nodes, Ahead(worker'[r], k)
       PROVE  Words(journal', op, plan.nodes[k], {"dispatch"}) = {}
  <2>1. Ahead(worker[r], k)
    BY <1>4, <1>11 DEF Ahead
  <2>2. Words(journal, op, plan.nodes[k], {"dispatch"}) = {}
    BY <2>1 DEF PlanTold
  <2>3. ~(record.kind = "dispatch" /\ record.node = plan.nodes[k])
    <3> SUFFICES ASSUME record.kind = "dispatch" PROVE record.node # plan.nodes[k]
      OBVIOUS
    <3>1. worker[r].at \in DOMAIN plan.nodes /\ k # worker[r].at
      BY <1>1, <1>4, <1>11 DEF ItemPcs, Ahead
    <3>2. QED
      BY <1>1, <1>4, <3>1 DEF Distinct, Item
  <2>4. QED
    BY <1>6, <2>2, <2>3
<1>12. worker'[r].pc = "trash" => Words(journal', op, Item(r)', {"dispatch"}) # {}
  <2> SUFFICES ASSUME worker[r].pc = "dispatch", worker'[r].at = worker[r].at
               PROVE  Words(journal', op, Item(r), {"dispatch"}) # {}
    BY DEF Item
  <2>1. record.kind = "dispatch" /\ record.node = Item(r)
    BY DEF PendingRecord
  <2>2. QED
    BY <1>1, <1>2, <1>6, <2>1
<1>13. worker'[r].pc \notin {"lock", "take", "intent", "outcome"}
  OBVIOUS
<1>14. ASSUME NEW k \in DOMAIN plan.nodes, k < worker'[r].at
       PROVE  Words(journal', op, plan.nodes[k], {"outcome"}) # {}
  <2>1. CASE k < worker[r].at
    <3>1. Words(journal, op, plan.nodes[k], {"outcome"}) # {}
      BY <2>1 DEF PlanTold
    <3>2. QED
      BY <1>6, <3>1
  <2>2. CASE k = worker[r].at /\ record.kind = "outcome"
    BY <1>1, <1>2, <1>6, <2>2 DEF Item
  <2>3. QED
    BY <1>1, <1>4, <1>14, <2>1, <2>2
<1>15. worker'[r].pc # "reply" => LinesOf(journal', op, {"finalized"}) = {}
  <2> SUFFICES ASSUME worker'[r].pc # "reply"
               PROVE  LinesOf(journal', op, {"finalized"}) = {}
    OBVIOUS
  <2>1. LinesOf(journal, op, {"finalized"}) = {} /\ record.kind # "finalized"
    BY <1>1 DEF PlanTold
  <2>2. LinesOf(journal', op, {"finalized"}) =
          LinesOf(journal, op, {"finalized"}) \cup
            IF record.kind \in {"finalized"} /\ record.op = op THEN {new} ELSE {}
    BY <1>5
  <2>3. QED
    BY <2>1, <2>2
<1>16. worker'[r].pc \in {"summarise", "finalize", "reply"} =>
         worker'[r].at > Len(plan.nodes)
  BY DEF PlanTold
<1>17. PlanTold(journal', op, worker'[r])
  BY <1>9, <1>10, <1>11, <1>14, <1>15, <1>16 DEF PlanTold
<1>18. QED
  BY <1>2, <1>8, <1>12, <1>13, <1>17 DEF WorkerTold

\* A worker that returned has nothing to tell.
LEMMA GoneTold ==
  ASSUME NEW q \in Requests, worker'[q].pc \in {"none", "check", "done"}
  PROVE  WorkerTold(q)'
BY DEF WorkerTold, Taken, TakenPcs, HoldingPcs

\* A step of one worker that leaves the journal and the calls alone.
LEMMA StillTold ==
  ASSUME TypeInv, Told, NEW r \in Requests, NEW w, Becomes(r, w),
         UNCHANGED <<request, journal, trashed>>,
         \A id : HasPlan(id)' => HasPlan(id),
         Readable(journal) => WorkerTold(r)'
  PROVE  Told'
<1>1. worker' = [q \in Requests |-> IF q = r THEN w ELSE worker[q]]
  BY DEF Becomes, TypeInv, TypeOK
<1>2. ASSUME Readable(journal), NEW q \in Requests
      PROVE  WorkerTold(q)'
  <2>1. CASE q = r
    BY <1>2, <2>1
  <2>2. CASE q # r
    <3>1. worker'[q] = worker[q] /\ WorkerTold(q) /\ Op(q)' = Op(q)
      BY <1>1, <1>2, <2>2 DEF Told, Op
    <3>2. HasPlan(worker[q].plan.id)' => HasPlan(worker[q].plan.id)
      <4>1. PICK id : id = worker[q].plan.id
        OBVIOUS
      <4>2. QED
        BY <3>1, <4>1 DEF HasPlan
    <3>3. QED
      BY <3>1, <3>2, SameTold
  <2>3. QED
    BY <2>1, <2>2
<1>3. Readable(journal) => ReceiptsTold'
  BY DEF Told, ReceiptsTold, OutcomesTrue, CallsMarked, OpenedFirst, Ordered, OutcomesLast,
         OpsOpened, HonestItem, CallsFor
<1>4. QED
  BY <1>2, <1>3 DEF Told

LEMMA ReturnTold ==
  ASSUME TypeInv, Told, NEW r \in Requests, NEW answer, Return(r, answer),
         UNCHANGED <<request, journal, trashed>>,
         \A id : HasPlan(id)' => HasPlan(id)
  PROVE  Told'
<1> DEFINE w == Returned(answer)
<1>1. Becomes(r, w) /\ w.pc = "done"
  BY DEF Return, Becomes, Returned, NoWorker
<1>2. worker'[r].pc = "done"
  BY <1>1 DEF Becomes, TypeInv, TypeOK
<1>3. WorkerTold(r)'
  BY <1>2, GoneTold
<1> HIDE DEF w
<1>4. QED
  BY <1>1, <1>3, StillTold

\* A worker appends a record, or a part of it.
LEMMA RecordTold ==
  ASSUME TypeInv, LastLine, OnceInv, OnePlanPerCommand, Told,
         NEW r \in Requests, NEW record \in PendingRecord(r), NEW w,
         Record(r, record, w), w.plan = worker[r].plan,
         \/ /\ w.at = worker[r].at
            /\ \/ worker[r].pc = "intent" /\ w.pc = "skeleton"
               \/ worker[r].pc = "skeleton" /\ w.pc = "item"
               \/ worker[r].pc = "dispatch" /\ w.pc = "trash"
               \/ worker[r].pc = "finalize" /\ w.pc = "reply"
         \/ /\ w.at = worker[r].at + 1
            /\ worker[r].pc \in {"block", "outcome"} /\ w.pc = "item"
  PROVE  Told'
<1>1. /\ UNCHANGED <<plans, nextPlanId, request, trashed>>
      /\ journal \in Seq(Lines) /\ ended \in BOOLEAN
      /\ ended \/ journal # <<>>
      /\ FaultSet \subseteq FaultKinds
  BY BoundAssumption DEF Record, unchangedByWorker, TypeInv, TypeOK, LastLine
<1>2. \A id : HasPlan(id)' => HasPlan(id)
  BY <1>1 DEF HasPlan
<1>3. \A q \in Requests : q # r => worker'[q] = worker[q]
  BY DEF Record, Return, TypeInv, TypeOK
<1>4. ASSUME Readable(journal), journal' = Append(journal, record)
      PROVE  /\ ReceiptsTold'
             /\ \A q \in Requests : q # r => WorkerTold(q)'
  <2>1. ReceiptsTold /\ \A q \in Requests : WorkerTold(q)
    BY <1>4 DEF Told
  <2>2. ReceiptsTold'
    BY <1>1, <1>4, <2>1, AppendTold
  <2>3. ASSUME NEW q \in Requests, q # r
        PROVE  WorkerTold(q)'
    BY <1>1, <1>3, <1>4, <2>1, <2>3, OthersTold
  <2>4. QED
    BY <2>2, <2>3
<1>5. CASE /\ journal' = GoodAppend(journal, ended, record).lines
           /\ worker' = [worker EXCEPT ![r] = w]
  <2> SUFFICES ASSUME Readable(journal')
               PROVE  ReceiptsTold' /\ \A q \in Requests : WorkerTold(q)'
    BY DEF Told
  <2>1. Readable(journal) /\ journal' = Append(journal, record)
    BY <1>1, <1>5, AppendReadable
  <2>2. worker'[r] = w
    BY <1>5 DEF TypeInv, TypeOK
  <2>3. WorkerTold(r)'
    BY <1>1, <2>1, <2>2, RecorderTold DEF Told
  <2>4. QED
    BY <1>4, <2>1, <2>3
<1>6. ASSUME NEW fault \in FaultSet, Return(r, "storage"),
             journal' = FaultyAppend(journal, ended, record, fault).lines
      PROVE  Told'
  <2>1. CASE journal' = journal
    BY <1>1, <1>2, <1>6, <2>1, ReturnTold
  <2>2. CASE ~Readable(journal')
    BY <2>2 DEF Told
  <2>3. CASE Readable(journal') /\ journal' # journal
    <3>1. Readable(journal) /\ journal' = Append(journal, record)
      BY <1>1, <1>6, <2>3, AppendReadable
    <3>2. worker'[r].pc = "done"
      BY <1>6 DEF Return, NoWorker, TypeInv, TypeOK
    <3>3. WorkerTold(r)'
      BY <3>2, GoneTold
    <3>4. QED
      BY <1>4, <3>1, <3>3 DEF Told
  <2>4. QED
    BY <2>1, <2>2, <2>3
<1>7. QED
  BY <1>5, <1>6 DEF Record

LEMMA RecordingTold ==
  ASSUME TypeInv, LastLine, OnceInv, OnePlanPerCommand, Told, NEW r \in Requests,
         \/ RecordIntent(r) \/ RecordSkeleton(r) \/ RecordBlocked(r)
         \/ RecordDispatch(r) \/ RecordOutcome(r) \/ Finalize(r)
  PROVE  Told'
<1>1. worker[r] \in WorkerRecord
  BY DEF TypeInv, TypeOK
<1>2. \A pc \in {"skeleton", "item", "trash", "reply"} :
        /\ At(r, pc).pc = pc /\ At(r, pc).at = worker[r].at
        /\ At(r, pc).plan = worker[r].plan
  BY <1>1 DEF At, WorkerRecord
<1>3. /\ NextItem(r).pc = "item" /\ NextItem(r).at = worker[r].at + 1
      /\ NextItem(r).plan = worker[r].plan
  BY <1>1 DEF NextItem, WorkerRecord
<1>4. CASE RecordIntent(r)
  <2>1. PICK record \in PendingRecord(r) : Record(r, record, At(r, "skeleton"))
    BY <1>4 DEF RecordIntent, PendingRecord
  <2>2. worker[r].pc = "intent"
    BY <1>4 DEF RecordIntent
  <2>3. QED
    BY <1>2, <2>1, <2>2, RecordTold
<1>5. CASE RecordSkeleton(r)
  <2>1. PICK record \in PendingRecord(r) : Record(r, record, At(r, "item"))
    BY <1>5 DEF RecordSkeleton, PendingRecord
  <2>2. worker[r].pc = "skeleton"
    BY <1>5 DEF RecordSkeleton
  <2>3. QED
    BY <1>2, <2>1, <2>2, RecordTold
<1>6. CASE RecordDispatch(r)
  <2>1. PICK record \in PendingRecord(r) : Record(r, record, At(r, "trash"))
    BY <1>6 DEF RecordDispatch, PendingRecord
  <2>2. worker[r].pc = "dispatch"
    BY <1>6 DEF RecordDispatch
  <2>3. QED
    BY <1>2, <2>1, <2>2, RecordTold
<1>7. CASE Finalize(r)
  <2>1. PICK record \in PendingRecord(r) : Record(r, record, At(r, "reply"))
    BY <1>7 DEF Finalize, PendingRecord
  <2>2. worker[r].pc = "finalize"
    BY <1>7 DEF Finalize
  <2>3. QED
    BY <1>2, <2>1, <2>2, RecordTold
<1>8. CASE RecordBlocked(r) \/ RecordOutcome(r)
  <2>1. PICK record \in PendingRecord(r) : Record(r, record, NextItem(r))
    BY <1>8 DEF RecordBlocked, RecordOutcome, PendingRecord
  <2>2. worker[r].pc \in {"block", "outcome"}
    BY <1>8 DEF RecordBlocked, RecordOutcome
  <2>3. QED
    BY <1>3, <2>1, <2>2, RecordTold
<1>9. QED
  BY <1>4, <1>5, <1>6, <1>7, <1>8

\* A worker of which the journal has no receipt finds no lines there.
LEMMA UnheardTold ==
  ASSUME ReceiptsTold, NEW op, ~HasReceipt(journal, op)
  PROVE  \A kinds : LinesOf(journal, op, kinds) = {}
BY DEF ReceiptsTold, OpsOpened, LinesOf

LEMMA ReadingTold ==
  ASSUME TypeInv, OnceInv, Told, NEW r \in Requests,
         \/ CheckReceipt(r) \/ AcquirePaths(r) \/ Revalidate(r)
         \/ Summarise(r) \/ Reply(r)
  PROVE  Told'
<1>1. /\ UNCHANGED <<plans, request, journal, trashed>>
      /\ \A id : HasPlan(id)' => HasPlan(id)
  BY DEF CheckReceipt, AcquirePaths, AcquireUnless, Revalidate, Summarise,
         Reply, unchangedByWorker, HasPlan
<1>2. \A answer : Return(r, answer) => Told'
  BY <1>1, ReturnTold
<1>3. worker[r] \in WorkerRecord
  BY DEF TypeInv, TypeOK
<1>4. \A pc \in {"lock", "take", "summarise", "block", "dispatch"} :
        Goto(r, pc) => \E w : /\ Becomes(r, w) /\ w.pc = pc
                              /\ w.plan = worker[r].plan /\ w.at = worker[r].at
                              /\ worker'[r] = w
  <2> SUFFICES ASSUME NEW pc \in {"lock", "take", "summarise", "block", "dispatch"},
                      Goto(r, pc)
               PROVE  \E w : /\ Becomes(r, w) /\ w.pc = pc
                             /\ w.plan = worker[r].plan /\ w.at = worker[r].at
                             /\ worker'[r] = w
    OBVIOUS
  <2> DEFINE w == [worker[r] EXCEPT !.pc = pc]
  <2>1. w.pc = pc /\ w.plan = worker[r].plan /\ w.at = worker[r].at
    BY <1>3 DEF WorkerRecord
  <2>2. Becomes(r, w) /\ worker'[r] = w
    BY DEF Goto, Becomes, TypeInv, TypeOK
  <2> HIDE DEF w
  <2>3. QED
    BY <2>1, <2>2
<1>6. CASE Readable(journal) /\ ~HasReceipt(journal, Op(r)) /\ Goto(r, "lock")
  <2>1. PICK w : Becomes(r, w) /\ w.pc = "lock" /\ worker'[r] = w
    BY <1>4, <1>6
  <2>2. WorkerTold(r)'
    BY <1>1, <1>6, <2>1 DEF WorkerTold, Taken, TakenPcs, HoldingPcs, Op
  <2>3. QED
    BY <1>1, <2>1, <2>2, StillTold
<1>7. CASE AcquirePaths(r) /\ Goto(r, "take")
  <2>1. PICK w : /\ Becomes(r, w) /\ w.pc = "take" /\ worker'[r] = w
                 /\ w.plan = worker[r].plan
    BY <1>4, <1>7
  <2>2. worker[r].pc = "lock"
    BY <1>7 DEF AcquirePaths, AcquireUnless
  <2>3. Readable(journal) => WorkerTold(r)'
    BY <1>1, <2>1, <2>2 DEF Told, WorkerTold, Taken, TakenPcs, HoldingPcs, Op, HasPlan
  <2>4. QED
    BY <1>1, <2>1, <2>3, StillTold
<1>8. ASSUME Taken(r), worker[r].pc \in {"item", "summarise"}, NEW w, Becomes(r, w),
             w.pc \in {"summarise", "block", "dispatch", "finalize"},
             w.plan = worker[r].plan, w.at = worker[r].at,
             worker[r].pc = "summarise" \/ w.pc \in {"block", "dispatch"}
               \/ w.at > Len(w.plan.nodes)
      PROVE  Told'
  <2>1. worker'[r] = w
    BY <1>8 DEF Becomes, TypeInv, TypeOK
  <2>2. PICK op : op = Op(r) /\ op = Op(r)'
    BY <1>1 DEF Op
  <2>3. ASSUME WorkerTold(r)
        PROVE  WorkerTold(r)'
    <3>1. PlanTold(journal, op, w)
      BY <1>8, <2>2, <2>3 DEF WorkerTold, PlanTold, Ahead
    <3>2. w.pc \notin {"lock", "take", "intent", "skeleton", "trash", "outcome"}
      BY <1>8
    <3>3. QED
      BY <1>1, <2>1, <2>2, <3>1, <3>2 DEF WorkerTold
  <2>4. QED
    BY <1>1, <1>8, <2>3, StillTold DEF Told
<1>9. CASE Revalidate(r)
  <2>1. Taken(r) /\ worker[r].pc = "item"
    BY <1>9 DEF Revalidate, Taken, TakenPcs, HoldingPcs, WorkerPcs
  <2>2. PICK pc \in {"summarise", "block", "dispatch"} :
          /\ Goto(r, pc)
          /\ pc = "summarise" => worker[r].at > Len(worker[r].plan.nodes)
    BY <1>9 DEF Revalidate
  <2>3. PICK w : /\ Becomes(r, w) /\ w.pc = pc
                 /\ w.plan = worker[r].plan /\ w.at = worker[r].at
    BY <1>4, <2>2
  <2>4. w.pc \in {"block", "dispatch"} \/ w.at > Len(w.plan.nodes)
    BY <2>2, <2>3
  <2>5. QED
    BY <1>8, <2>1, <2>3, <2>4
<1>10. CASE Summarise(r)
  <2>1. ASSUME NEW final, worker' = [worker EXCEPT ![r].pc = "finalize",
                                                   ![r].final = final]
        PROVE  Told'
    <3> DEFINE w == [worker[r] EXCEPT !.pc = "finalize", !.final = final]
    <3>1. Becomes(r, w)
      BY <2>1 DEF Becomes, TypeInv, TypeOK
    <3>2. w.pc = "finalize" /\ w.at = worker[r].at /\ w.plan = worker[r].plan
      BY <1>3 DEF WorkerRecord
    <3> HIDE DEF w
    <3>3. Taken(r) /\ worker[r].pc = "summarise"
      BY <1>10 DEF Summarise, Taken, TakenPcs, HoldingPcs, WorkerPcs
    <3>4. QED
      BY <1>8, <3>1, <3>2, <3>3
  <2>2. QED
    BY <1>2, <1>10, <2>1 DEF Summarise
<1>11. QED
  BY <1>2, <1>6, <1>7, <1>9, <1>10
     DEF CheckReceipt, AcquirePaths, AcquireUnless, Reply

LEMMA TakePlanTold ==
  ASSUME TypeInv, OnceInv, StartsFirst, Told, NEW r \in Requests, TakePlan(r)
  PROVE  Told'
<1>1. UNCHANGED <<nextPlanId, request, journal, trashed>> /\ worker[r].pc = "take"
  BY DEF TakePlan, unchangedByWorker
<1>2. CASE UNCHANGED plans /\ \E answer : Return(r, answer)
  BY <1>1, <1>2, ReturnTold DEF HasPlan
<1>3. CASE /\ HasPlan(worker[r].plan.id)
           /\ plans' = RemoveAt(plans, PlanFor(worker[r].plan.id))
           /\ Goto(r, "intent")
  <2> DEFINE id == worker[r].plan.id
             w == [worker[r] EXCEPT !.pc = "intent"]
  <2>1. PlanFor(id) \in DOMAIN plans /\ plans[PlanFor(id)].id = id
    BY <1>3 DEF HasPlan, PlanFor
  <2>2. \A other : HasPlan(other)' => HasPlan(other)
    BY <1>1, <1>3, <2>1, RemovedPlan
  <2>3. /\ Becomes(r, w) /\ worker'[r] = w /\ w.pc = "intent" /\ w.at = 1
        /\ w.plan = worker[r].plan /\ DOMAIN w.plan.nodes \subseteq Nat \ {0}
    BY <1>1, <1>3 DEF Goto, Becomes, TypeInv, TypeOK, WorkerRecord, PlanRecord,
                      StartsFirst
  <2> HIDE DEF w
  <2>4. ASSUME Readable(journal)
        PROVE  WorkerTold(r)'
    <3>1. PICK op : op = Op(r) /\ op = Op(r)'
      BY <1>1 DEF Op
    <3>2. ~HasReceipt(journal, op)
      BY <1>1, <1>3, <2>4, <3>1 DEF Told, WorkerTold
    <3>3. \A kinds : LinesOf(journal, op, kinds) = {}
      BY <2>4, <3>2, UnheardTold DEF Told
    <3>4. \A n, kinds : Words(journal, op, n, kinds) = {}
      BY <3>3 DEF Words
    <3>5. PlanTold(journal, op, w)
      BY <2>3, <3>3, <3>4 DEF PlanTold
    <3>6. QED
      BY <1>1, <2>3, <3>1, <3>2, <3>5 DEF WorkerTold
  <2>5. QED
    BY <1>1, <2>2, <2>3, <2>4, StillTold
<1>4. QED
  BY <1>2, <1>3 DEF TakePlan

\* The adapter is called for an item that was dispatched and has no outcome.
LEMMA MoveToTrashTold ==
  ASSUME TypeInv, OnceInv, OnePlanPerCommand, Told, NEW r \in Requests,
         MoveToTrash(r)
  PROVE  Told'
<1> DEFINE last == Len(trashed) + 1
           plan == worker[r].plan
<1>1. PICK moved \in BOOLEAN : \E outcome :
        /\ outcome = IF moved THEN "moved_to_trash" ELSE "failed"
        /\ trashed' = Append(trashed, [op |-> Op(r), node |-> Item(r),
                                       moved |-> moved])
        /\ worker' = [worker EXCEPT ![r].pc = "outcome", ![r].outcome = outcome]
  BY DEF MoveToTrash
<1> PICK outcome :
        /\ outcome = IF moved THEN "moved_to_trash" ELSE "failed"
        /\ trashed' = Append(trashed, [op |-> Op(r), node |-> Item(r),
                                       moved |-> moved])
        /\ worker' = [worker EXCEPT ![r].pc = "outcome", ![r].outcome = outcome]
  BY <1>1
<1> DEFINE w == [worker[r] EXCEPT !.pc = "outcome", !.outcome = outcome]
<1>2. /\ worker'[r] = w /\ w.pc = "outcome" /\ w.outcome = outcome
      /\ w.at = worker[r].at /\ w.plan = plan
      /\ \A q \in Requests : q # r => worker'[q] = worker[q]
  BY <1>1 DEF TypeInv, TypeOK, WorkerRecord
<1> HIDE DEF w
<1>3. /\ UNCHANGED <<plans, nextPlanId, request, journal>>
      /\ worker[r].pc = "trash" /\ Taken(r) /\ Live(r)
  BY DEF MoveToTrash, unchangedByWorker, Taken, TakenPcs, HoldingPcs, WorkerPcs,
         Live
<1>4. /\ worker[r].at \in DOMAIN plan.nodes /\ worker[r].at \in Nat
      /\ CallsFor(Op(r), Item(r)) = {}
  BY <1>3, NoCallYet DEF TypeInv, TypeOK, WorkerRecord
<1>5. /\ last \in Nat /\ DOMAIN trashed' = DOMAIN trashed \cup {last}
      /\ last \notin DOMAIN trashed
      /\ trashed'[last].op = Op(r) /\ trashed'[last].node = Item(r)
      /\ trashed'[last].moved = moved
      /\ \A i \in DOMAIN trashed : trashed'[i] = trashed[i]
  <2>1. PICK call : /\ call.op = Op(r) /\ call.node = Item(r)
                    /\ call.moved = moved /\ trashed' = Append(trashed, call)
    BY <1>1
  <2>2. trashed \in Seq([op : Commands, node : Nodes, moved : BOOLEAN])
    BY DEF TypeInv, TypeOK
  <2>3. QED
    BY <2>1, <2>2
<1> HIDE DEF last
<1> SUFFICES ASSUME Readable(journal)
             PROVE  ReceiptsTold' /\ \A q \in Requests : WorkerTold(q)'
  BY <1>3 DEF Told
<1>6. ReceiptsTold /\ \A q \in Requests : WorkerTold(q)
  BY DEF Told
<1>7. PICK op : op = Op(r) /\ op = Op(r)'
  BY <1>3 DEF Op
<1>8. /\ Words(journal, op, Item(r), {"dispatch"}) # {}
      /\ Words(journal, op, Item(r), {"outcome"}) = {}
      /\ \A j \in LinesOf(journal, op, {"intent", "skeleton"}) :
           journal[j].nodes = NodesOf(plan)
      /\ PlanTold(journal, op, worker[r])
  <2>1. WorkerTold(r) /\ worker[r].at >= worker[r].at
    BY <1>4, <1>6
  <2>2. /\ Words(journal, op, Item(r), {"dispatch"}) # {}
        /\ PlanTold(journal, op, worker[r])
    BY <1>3, <1>7, <2>1 DEF WorkerTold
  <2>3. Words(journal, op, plan.nodes[worker[r].at], {"outcome"}) = {}
    BY <1>4, <2>1, <2>2 DEF PlanTold
  <2>4. QED
    BY <2>2, <2>3 DEF Item, PlanTold
<1>9. Item(r) \in NodesOf(plan)
  BY <1>4 DEF Item, NodesOf
<1>10. ASSUME NEW o, NEW n, ~(o = op /\ n = Item(r)), NEW state
       PROVE  HonestItem(state, CallsFor(o, n))' <=> HonestItem(state, CallsFor(o, n))
  <2>1. CallsFor(o, n)' = CallsFor(o, n)
    BY <1>5, <1>7, <1>10 DEF CallsFor
  <2>2. \A i \in CallsFor(o, n) : trashed'[i] = trashed[i]
    BY <1>5 DEF CallsFor
  <2>3. QED
    BY <2>1, <2>2 DEF HonestItem
<1>11. HonestItem(outcome, CallsFor(op, Item(r)))'
  <2>1. CallsFor(op, Item(r))' = {last}
    <3>1. \A n : n = Item(r) => CallsFor(op, n)' = {last}
      BY <1>4, <1>5, <1>7 DEF CallsFor
    <3>2. Item(r)' = Item(r)
      BY <1>2 DEF Item
    <3>3. QED
      BY <3>1, <3>2
  <2>2. QED
    BY <1>1, <1>5, <2>1 DEF HonestItem
<1>12. OutcomesTrue'
  <2>1. ASSUME NEW j \in DOMAIN journal, journal[j].kind = "outcome"
        PROVE  HonestItem(journal[j].state,
                          CallsFor(journal[j].op, journal[j].node))'
    <3>1. PICK o, n, state : /\ o = journal[j].op /\ n = journal[j].node
                             /\ state = journal[j].state
      OBVIOUS
    <3>2. ~(o = op /\ n = Item(r))
      BY <1>8, <2>1, <3>1 DEF Words, LinesOf
    <3>3. HonestItem(state, CallsFor(o, n))
      BY <1>6, <2>1, <3>1 DEF ReceiptsTold, OutcomesTrue
    <3>4. HonestItem(state, CallsFor(o, n))'
      BY <1>10, <3>2, <3>3
    <3>5. QED
      BY <1>3, <3>1, <3>4 DEF HonestItem, CallsFor
  <2>2. QED
    BY <1>3, <2>1 DEF OutcomesTrue
<1>13. CallsMarked'
  <2>1. ASSUME NEW i \in DOMAIN trashed'
        PROVE  /\ Words(journal, trashed'[i].op, trashed'[i].node, {"dispatch"}) # {}
               /\ \A j \in LinesOf(journal, trashed'[i].op, {"intent", "skeleton"}) :
                    trashed'[i].node \in journal[j].nodes
    <3>1. CASE i \in DOMAIN trashed
      BY <1>5, <1>6, <3>1 DEF ReceiptsTold, CallsMarked
    <3>2. CASE i = last
      BY <1>5, <1>7, <1>8, <1>9, <3>2
    <3>3. QED
      BY <1>5, <3>1, <3>2
  <2>2. QED
    BY <1>3, <2>1 DEF CallsMarked
<1>14. ReceiptsTold'
  BY <1>3, <1>6, <1>12, <1>13
     DEF ReceiptsTold, OpenedFirst, Ordered, OutcomesLast, OpsOpened
<1>15. WorkerTold(r)'
  <2>1. PlanTold(journal, op, w)
    BY <1>2, <1>3, <1>8 DEF PlanTold, Ahead
  <2>2. PICK n : n = Item(r) /\ n = Item(r)'
    BY <1>2 DEF Item
  <2>3. HonestItem(outcome, CallsFor(op, n))'
    BY <1>11, <2>2
  <2>4. QED
    BY <1>2, <1>3, <1>7, <2>1, <2>2, <2>3 DEF WorkerTold
<1>16. ASSUME NEW q \in Requests, q # r
       PROVE  WorkerTold(q)'
  <2>1. CASE worker[q].pc # "outcome"
    BY <1>2, <1>3, <1>6, <1>16, <2>1
       DEF WorkerTold, Op, HasPlan, Taken, Item
  <2>2. CASE worker[q].pc = "outcome"
    <3>1. Taken(q) /\ Live(q)
      BY <2>2 DEF Taken, TakenPcs, HoldingPcs, WorkerPcs, Live
    <3>2. Op(q) # op
      BY <1>3, <1>7, <1>16, <3>1, SamePlan, ZenonT(60) DEF OnceInv, TakenOnce
    <3>3. PICK o, n : o = Op(q) /\ o = Op(q)' /\ n = Item(q) /\ n = Item(q)'
      BY <1>2, <1>3, <1>16 DEF Op, Item
    <3>4. HonestItem(worker[q].outcome, CallsFor(o, n))
      BY <1>6, <2>2, <3>3 DEF WorkerTold
    <3>5. HonestItem(worker[q].outcome, CallsFor(o, n))'
      <4>1. PICK state : state = worker[q].outcome /\ state = worker'[q].outcome
        BY <1>2, <1>16
      <4>2. HonestItem(state, CallsFor(o, n))'
        BY <1>10, <3>2, <3>3, <3>4, <4>1
      <4>3. QED
        BY <4>1, <4>2
    <3>6. PlanTold(journal, o, worker[q])
      BY <1>6, <3>1, <3>3 DEF WorkerTold
    <3>7. QED
      BY <1>2, <1>3, <1>16, <2>2, <3>3, <3>5, <3>6 DEF WorkerTold
  <2>3. QED
    BY <2>1, <2>2
<1>17. QED
  BY <1>14, <1>15, <1>16

LEMMA WorkTold ==
  ASSUME TypeInv, LastLine, OnceInv, OnePlanPerCommand, StartsFirst, Told,
         NEW r \in Requests, Work(r)
  PROVE  Told'
BY RecordingTold, ReadingTold, TakePlanTold, MoveToTrashTold DEF Work

-----------------------------------------------------------------------------
(* The other steps *)

\* A step that changes no worker that runs, nor what was written and done.
LEMMA AsideTold ==
  ASSUME TypeInv, Told, UNCHANGED <<journal, trashed>>,
         \A q \in Requests :
           \/ worker'[q].pc \in {"none", "check", "done"}
           \/ /\ worker'[q] = worker[q]
              /\ Live(q) => /\ Op(q)' = Op(q)
                            /\ HasPlan(worker[q].plan.id)' => HasPlan(worker[q].plan.id)
  PROVE  Told'
<1>1. ASSUME Readable(journal), NEW q \in Requests
      PROVE  WorkerTold(q)'
  <2>1. CASE worker'[q].pc \in {"none", "check", "done"}
    BY <2>1, GoneTold
  <2>2. CASE worker'[q].pc \notin {"none", "check", "done"}
    <3>1. /\ worker'[q] = worker[q] /\ WorkerTold(q)
          /\ Live(q) => /\ Op(q)' = Op(q)
                        /\ HasPlan(worker[q].plan.id)' => HasPlan(worker[q].plan.id)
      BY <1>1, <2>2 DEF Told
    <3>2. QED
      BY <3>1, SameTold
  <2>3. QED
    BY <2>1, <2>2
<1>2. Readable(journal) => ReceiptsTold'
  BY DEF Told, ReceiptsTold, OutcomesTrue, CallsMarked, OpenedFirst, Ordered, OutcomesLast,
         OpsOpened, HonestItem, CallsFor
<1>3. QED
  BY <1>1, <1>2 DEF Told

LEMMA HandlerTold ==
  ASSUME TypeInv, OnceInv, Told, NEW r \in Requests, Handle(r) \/ Disconnect(r)
  PROVE  Told'
<1>1. /\ UNCHANGED <<plans, journal, trashed>>
      /\ \A id : HasPlan(id)' => HasPlan(id)
  BY DEF Handle, LookUpReceipt, SpawnWorker, Respond, Disconnect, HasPlan
<1>2. \A q \in Requests : request'[q].cmd = request[q].cmd
  <2>1. \/ \E pc : request' = [request EXCEPT ![r].pc = pc]
        \/ \E answer : request' = [request EXCEPT ![r].pc = "answered",
                                                  ![r].answer = answer]
    BY DEF Handle, LookUpReceipt, SpawnWorker, Respond, Disconnect, ReturnEarly,
           Answer
  <2>2. request \in [Requests -> RequestRecord]
    BY DEF TypeInv, TypeOK
  <2>3. \A pc : request' = [request EXCEPT ![r].pc = pc] =>
          \A q \in Requests : request'[q].cmd = request[q].cmd
    BY <2>2 DEF RequestRecord
  <2>4. \A answer : request' = [request EXCEPT ![r].pc = "answered",
                                              ![r].answer = answer] =>
          \A q \in Requests : request'[q].cmd = request[q].cmd
    BY <2>2 DEF RequestRecord
  <2>5. QED
    BY <2>1, <2>3, <2>4
<1>3. \A q \in Requests : worker'[q] = worker[q] \/ worker'[q].pc = "check"
  BY DEF Handle, LookUpReceipt, SpawnWorker, Respond, Disconnect, TypeInv, TypeOK,
         WorkerRecord
<1>4. \A q \in Requests : /\ Op(q)' = Op(q)
                          /\ worker'[q] = worker[q] =>
                               (HasPlan(worker[q].plan.id)' => HasPlan(worker[q].plan.id))
  BY <1>1, <1>2 DEF Op, HasPlan
<1>5. QED
  BY <1>1, <1>3, <1>4, AsideTold

LEMMA AcquireCommandTold ==
  ASSUME TypeInv, Told, NEW r \in Requests, NEW c \in Confirmations,
         AcquireCommand(r, c[1], c[2])
  PROVE  Told'
<1>1. UNCHANGED <<plans, worker, journal, trashed>> /\ ~Live(r)
  BY DEF AcquireCommand, TypeInv, Received, Live
<1>2. \A q \in Requests : q # r => request'[q] = request[q]
  BY DEF AcquireCommand, TypeInv, TypeOK
<1>3. \A q \in Requests :
        Live(q) => /\ Op(q)' = Op(q)
                   /\ HasPlan(worker[q].plan.id)' => HasPlan(worker[q].plan.id)
  BY <1>1, <1>2 DEF Op, HasPlan
<1>4. QED
  BY <1>1, <1>3, AsideTold

LEMMA CreatePlanTold ==
  ASSUME TypeInv, OnceInv, Told, NEW nodes \in PlanShapes, CreatePlan(nodes)
  PROVE  Told'
<1>1. UNCHANGED <<request, worker, journal, trashed>>
  BY DEF CreatePlan
<1>2. \A q \in Requests :
        Live(q) => /\ Op(q)' = Op(q)
                   /\ HasPlan(worker[q].plan.id)' => HasPlan(worker[q].plan.id)
  BY <1>1, CreatePlanStore DEF Op
<1>3. QED
  BY <1>1, <1>2, AsideTold

\* What a crash leaves of a record is all of it, or nothing that parses.
LEMMA CrashTold ==
  ASSUME TypeInv, LastLine, OnceInv, Told, Crash
  PROVE  Told'
<1>1. UNCHANGED trashed /\ \A q \in Requests : worker'[q].pc = "none"
  BY DEF Crash, NoWorker
<1>2. \A q \in Requests : WorkerTold(q)'
  BY <1>1, GoneTold
<1>3. CASE journal' = journal
  BY <1>1, <1>3, AsideTold
<1>4. ASSUME NEW r \in Requests, NEW record \in PendingRecord(r),
             NEW fault \in FaultSet,
             journal' = FaultyAppend(journal, ended, record, fault).lines
      PROVE  Told'
  <2> SUFFICES ASSUME Readable(journal'), journal' # journal
               PROVE  ReceiptsTold'
    BY <1>2, <1>3 DEF Told
  <2>1. /\ journal \in Seq(Lines) /\ ended \in BOOLEAN
        /\ ended \/ journal # <<>>
        /\ FaultSet \subseteq FaultKinds
    BY BoundAssumption DEF TypeInv, TypeOK, LastLine
  <2>2. Readable(journal) /\ journal' = Append(journal, record)
    BY <1>4, <2>1, AppendReadable
  <2>3. ReceiptsTold /\ WorkerTold(r)
    BY <2>2 DEF Told
  <2>4. QED
    BY <1>1, <2>2, <2>3, AppendTold
<1>5. QED
  BY <1>3, <1>4 DEF Crash

LEMMA StartsNext ==
  ASSUME TypeInv, StartsFirst, [Next]_vars
  PROVE  StartsFirst'
<1>1. ASSUME NEW r \in Requests, NEW w, Becomes(r, w), UNCHANGED request,
             worker[r].pc # "none",
             w.pc \in {"none", "check", "lock", "take", "intent", "done"} => w.at = 1
      PROVE  StartsFirst'
  <2>1. \A q \in Requests : worker'[q] = IF q = r THEN w ELSE worker[q]
    BY <1>1 DEF Becomes, TypeInv, TypeOK
  <2>2. request[r].pc \notin {"new", "guarded", "looked"}
    BY <1>1 DEF StartsFirst
  <2>3. QED
    BY <1>1, <2>1, <2>2 DEF StartsFirst
<1>2. ASSUME NEW r \in Requests, NEW answer, Return(r, answer), UNCHANGED request,
             worker[r].pc # "none"
      PROVE  StartsFirst'
  BY <1>1, <1>2 DEF Return, Becomes, NoWorker
<1>3. ASSUME NEW r \in Requests, NEW pc, Goto(r, pc), UNCHANGED request,
             worker[r].pc # "none",
             pc \in {"none", "check", "lock", "take", "intent", "done"} =>
               worker[r].at = 1
      PROVE  StartsFirst'
  <2> DEFINE w == [worker[r] EXCEPT !.pc = pc]
  <2>1. Becomes(r, w) /\ w.pc = pc /\ w.at = worker[r].at
    BY <1>3 DEF Goto, Becomes, TypeInv, TypeOK, WorkerRecord
  <2> HIDE DEF w
  <2>2. QED
    BY <1>1, <1>3, <2>1
<1>4. ASSUME UNCHANGED worker,
             \A q \in Requests :
               \/ request'[q] = request[q]
               \/ request'[q].pc \in {"waiting", "answered", "gone"}
               \/ request[q].pc \in {"new", "guarded", "looked"}
      PROVE  StartsFirst'
  BY <1>4 DEF StartsFirst
<1>5. ASSUME NEW r \in Requests, NEW record, NEW w, Record(r, record, w),
             worker[r].pc # "none",
             w.pc \notin {"none", "check", "lock", "take", "intent", "done"}
      PROVE  StartsFirst'
  BY <1>1, <1>2, <1>5 DEF Record, Becomes, unchangedByWorker
<1>6. ASSUME NEW r \in Requests, Work(r)
      PROVE  StartsFirst'
  <2> UNCHANGED request /\ worker[r].pc # "none"
    BY <1>6 DEF Work, unchangedByWorker, CheckReceipt, AcquirePaths, AcquireUnless,
            TakePlan, Record, RecordIntent, RecordSkeleton, Revalidate, RecordBlocked,
            RecordDispatch, MoveToTrash, RecordOutcome, Summarise, Finalize, Reply
  <2>1. \A pc \in {"skeleton", "item", "trash", "reply"} : At(r, pc).pc = pc
    BY DEF At, TypeInv, TypeOK, WorkerRecord
  <2>2. NextItem(r).pc = "item"
    BY DEF NextItem, TypeInv, TypeOK, WorkerRecord
  <2>3. CASE \/ RecordIntent(r) \/ RecordSkeleton(r) \/ RecordBlocked(r)
             \/ RecordDispatch(r) \/ RecordOutcome(r) \/ Finalize(r)
    BY <1>5, <2>1, <2>2, <2>3
       DEF RecordIntent, RecordSkeleton, RecordBlocked, RecordDispatch,
           RecordOutcome, Finalize
  <2>4. CASE MoveToTrash(r)
    <3>1. PICK outcome : worker' = [worker EXCEPT ![r].pc = "outcome",
                                                  ![r].outcome = outcome]
      BY <2>4 DEF MoveToTrash
    <3> DEFINE w == [worker[r] EXCEPT !.pc = "outcome", !.outcome = outcome]
    <3>2. Becomes(r, w) /\ w.pc = "outcome"
      BY <3>1 DEF Becomes, TypeInv, TypeOK, WorkerRecord
    <3> HIDE DEF w
    <3>3. QED
      BY <1>1, <3>2
  <2>5. CASE Summarise(r)
    <3>1. ASSUME NEW final, worker' = [worker EXCEPT ![r].pc = "finalize",
                                                     ![r].final = final]
          PROVE  StartsFirst'
      <4> DEFINE w == [worker[r] EXCEPT !.pc = "finalize", !.final = final]
      <4>1. Becomes(r, w) /\ w.pc = "finalize"
        BY <3>1 DEF Becomes, TypeInv, TypeOK, WorkerRecord
      <4> HIDE DEF w
      <4>2. QED
        BY <1>1, <4>1
    <3>2. QED
      BY <1>2, <2>5, <3>1 DEF Summarise
  <2>6. CASE \/ CheckReceipt(r) \/ AcquirePaths(r) \/ TakePlan(r)
             \/ Revalidate(r) \/ Reply(r)
    BY <1>2, <1>3, <2>6
       DEF CheckReceipt, AcquirePaths, AcquireUnless, TakePlan, Revalidate, Reply,
           StartsFirst
  <2>7. QED
    BY <1>6, <2>3, <2>4, <2>5, <2>6 DEF Work
<1>7. ASSUME NEW r \in Requests, Handle(r) \/ Disconnect(r)
      PROVE  StartsFirst'
  <2>1. \A pc, answer :
          request' = [request EXCEPT ![r].pc = pc, ![r].answer = answer] =>
            \A q \in Requests :
              IF q = r THEN request'[q].pc = pc ELSE request'[q] = request[q]
    BY DEF TypeInv, TypeOK, RequestRecord
  <2>2. \A pc : request' = [request EXCEPT ![r].pc = pc] =>
          \A q \in Requests :
            IF q = r THEN request'[q].pc = pc ELSE request'[q] = request[q]
    BY DEF TypeInv, TypeOK, RequestRecord
  <2>3. ASSUME NEW plan, worker' = [worker EXCEPT ![r].pc = "check", ![r].plan = plan],
               request' = [request EXCEPT ![r].pc = "waiting"],
               request[r].pc = "looked"
        PROVE  StartsFirst'
    <3>1. worker[r].at = 1
      BY <2>3 DEF StartsFirst
    <3>2. \A q \in Requests :
            IF q = r THEN worker'[q].pc = "check" /\ worker'[q].at = 1
                     ELSE worker'[q] = worker[q]
      BY <2>3, <3>1 DEF TypeInv, TypeOK, WorkerRecord
    <3>3. \A q \in Requests :
            IF q = r THEN request'[q].pc = "waiting" ELSE request'[q] = request[q]
      BY <2>2, <2>3
    <3>4. QED
      BY <3>2, <3>3 DEF StartsFirst
  <2>4. CASE LookUpReceipt(r)
    BY <1>4, <2>1, <2>2, <2>4 DEF LookUpReceipt, ReturnEarly, Answer
  <2>5. CASE SpawnWorker(r)
    BY <1>4, <2>1, <2>3, <2>5 DEF SpawnWorker, ReturnEarly, Answer
  <2>6. CASE Respond(r) \/ Disconnect(r)
    BY <1>4, <2>1, <2>2, <2>6 DEF Respond, Disconnect, ReturnEarly, Answer
  <2>7. QED
    BY <1>7, <2>4, <2>5, <2>6 DEF Handle
<1>8. ASSUME NEW r \in Requests, NEW cmd, NEW id, AcquireCommand(r, cmd, id)
      PROVE  StartsFirst'
  <2>1. \A q \in Requests : q # r => request'[q] = request[q]
    BY <1>8 DEF AcquireCommand, TypeInv, TypeOK
  <2>2. QED
    BY <1>4, <1>8, <2>1 DEF AcquireCommand
<1>9. CASE Crash
  BY <1>9 DEF Crash, NoWorker, StartsFirst
<1>10. QED
  BY <1>4, <1>6, <1>7, <1>8, <1>9 DEF Next, vars, CreatePlan, Touch, Idle

LEMMA NextTold ==
  ASSUME TypeInv, LastLine, OnceInv, OnePlanPerCommand, StartsFirst, Told,
         [Next]_vars
  PROVE  Told'
<1>1. CASE UNCHANGED <<plans, request, worker, journal, trashed>>
  <2>1. \A q \in Requests :
          /\ Op(q)' = Op(q)
          /\ HasPlan(worker[q].plan.id)' => HasPlan(worker[q].plan.id)
    BY <1>1 DEF Op, HasPlan
  <2>2. QED
    BY <1>1, <2>1, AsideTold
<1>2. ASSUME NEW r \in Requests, Handle(r) \/ Disconnect(r)
      PROVE  Told'
  BY <1>2, HandlerTold
<1>3. QED
  BY <1>1, <1>2, WorkTold, CreatePlanTold, AcquireCommandTold, CrashTold
     DEF Next, vars, Touch, Idle

LEMMA InitTold == Init => StartsFirst /\ Told
BY DEF Init, StartsFirst, NoWorker, Told, ReceiptsTold, OutcomesTrue, CallsMarked, OpenedFirst, Ordered,
       OutcomesLast, Words, OpsOpened, LinesOf, WorkerTold, Taken, TakenPcs, HoldingPcs

-----------------------------------------------------------------------------
(* From what the journal tells to what a receipt says *)

LEMMA OpeningIs ==
  ASSUME NEW lines \in Seq(Lines), NEW op, HasReceipt(lines, op)
  PROVE  Opening(lines, op) \in LinesOf(lines, op, {"intent", "skeleton"})
<1>1. Len(lines) \in Nat
  OBVIOUS
<1>2. \A kinds : LinesOf(lines, op, kinds) \in SUBSET (1 .. Len(lines))
  BY DEF LinesOf
<1>3. CASE LinesOf(lines, op, {"skeleton"}) # {}
  <2>1. Max(LinesOf(lines, op, {"skeleton"})) \in LinesOf(lines, op, {"skeleton"})
    BY <1>1, <1>2, <1>3, FirstAndLast
  <2>2. QED
    BY <1>3, <2>1 DEF Opening, LinesOf
<1>4. CASE LinesOf(lines, op, {"skeleton"}) = {}
  <2>1. LinesOf(lines, op, {"intent"}) # {}
    BY <1>4 DEF HasReceipt, LinesOf
  <2>2. Min(LinesOf(lines, op, {"intent"})) \in LinesOf(lines, op, {"intent"})
    BY <1>1, <1>2, <2>1, FirstAndLast
  <2>3. QED
    BY <1>4, <2>2 DEF Opening, LinesOf
<1>5. QED
  BY <1>3, <1>4

\* The state of an item is that of its last line.
LEMMA ItemFromWords ==
  ASSUME NEW lines \in Seq(Lines), NEW op, HasReceipt(lines, op), NEW n,
         Ordered(lines, op)
  PROVE  LET words == Words(lines, op, n, {"dispatch", "outcome"})
         IN /\ ItemState(lines, op, n) =
                 IF words = {} THEN "pending"
                 ELSE IF lines[Max(words)].kind = "dispatch" THEN "dispatch_recorded"
                 ELSE lines[Max(words)].state
            /\ words # {} => /\ Max(words) \in words
                             /\ \A i \in words : i <= Max(words)
<1>1. Len(lines) \in Nat
  OBVIOUS
<1>2. \A kinds : LinesOf(lines, op, kinds) \in SUBSET (1 .. Len(lines))
  BY <1>1 DEF LinesOf
<1>3. Opening(lines, op) \in LinesOf(lines, op, {"intent", "skeleton"})
  BY OpeningIs
<1>4. Changes(lines, op, {"dispatch", "outcome"}) =
        LinesOf(lines, op, {"dispatch", "outcome"})
  <2>1. \A j \in LinesOf(lines, op, {"dispatch", "outcome"}) :
          j > Opening(lines, op)
    BY <1>2, <1>3 DEF Ordered
  <2>2. QED
    BY <2>1 DEF Changes
<1> DEFINE words == Words(lines, op, n, {"dispatch", "outcome"})
<1>5. {i \in Changes(lines, op, {"dispatch", "outcome"}) : lines[i].node = n}
        = words
  BY <1>4 DEF Words
<1>6. words \in SUBSET (1 .. Len(lines))
  BY <1>2 DEF Words
<1>7. ItemState(lines, op, n) =
        IF words = {} THEN "pending"
        ELSE IF lines[Max(words)].kind = "dispatch" THEN "dispatch_recorded"
        ELSE lines[Max(words)].state
  BY <1>5 DEF ItemState
<1>8. words # {} => Max(words) \in words /\ \A i \in words : i <= Max(words)
  BY <1>1, <1>6, FirstAndLast
<1>9. QED
  BY <1>7, <1>8

LEMMA ToldHonest ==
  ASSUME TypeInv, OnceInv, Told
  PROVE  HonestReceipts
<1> SUFFICES ASSUME Readable(journal)
             PROVE  /\ \A op \in Commands : HasReceipt(journal, op) =>
                         \A n \in ReceiptNodes(journal, op) :
                           HonestItem(ItemReport(journal, op, n), CallsFor(op, n))
                    /\ \A i \in DOMAIN trashed :
                         /\ HasReceipt(journal, trashed[i].op)
                         /\ trashed[i].node \in ReceiptNodes(journal, trashed[i].op)
  BY DEF HonestReceipts
<1>1. ReceiptsTold
  BY DEF Told
<1>2. \A op : HasReceipt(journal, op) =>
        Opening(journal, op) \in LinesOf(journal, op, {"intent", "skeleton"})
  BY OpeningIs DEF TypeInv, TypeOK
<1>3. ASSUME NEW i \in DOMAIN trashed
      PROVE  /\ HasReceipt(journal, trashed[i].op)
             /\ trashed[i].node \in ReceiptNodes(journal, trashed[i].op)
  <2>1. HasReceipt(journal, trashed[i].op)
    BY DEF OnceInv, Noted, Announced
  <2>2. QED
    BY <1>1, <1>2, <2>1 DEF ReceiptsTold, CallsMarked, ReceiptNodes
<1>4. ASSUME NEW op \in Commands, HasReceipt(journal, op), NEW n
      PROVE  HonestItem(ItemReport(journal, op, n), CallsFor(op, n))
  <2> DEFINE words == Words(journal, op, n, {"dispatch", "outcome"})
             state == ItemState(journal, op, n)
  <2>1. /\ words = {} => state = "pending"
        /\ words # {} =>
             \E j \in words : state =
               IF journal[j].kind = "dispatch" THEN "dispatch_recorded"
                                               ELSE journal[j].state
    <3>1. Ordered(journal, op) /\ journal \in Seq(Lines)
      BY <1>1, <1>4 DEF ReceiptsTold, OpenedFirst, TypeInv, TypeOK
    <3>2. QED
      BY <1>4, <3>1, ItemFromWords
  <2>2. /\ state # "dispatch_recorded" => ItemReport(journal, op, n) = state
        /\ state = "dispatch_recorded" =>
             ItemReport(journal, op, n) \in {"dispatch_recorded", "unknown_requires_review"}
    BY DEF ItemReport
  <2> HIDE DEF state
  <2>3. CASE words = {}
    <3>1. CallsFor(op, n) = {}
      <4>1. \A i \in CallsFor(op, n) : Words(journal, op, n, {"dispatch"}) # {}
        BY <1>1 DEF ReceiptsTold, CallsMarked, CallsFor
      <4>2. Words(journal, op, n, {"dispatch"}) \subseteq words
        BY DEF Words, LinesOf
      <4>3. QED
        BY <2>3, <4>1, <4>2
    <3>2. QED
      BY <2>1, <2>2, <2>3, <3>1 DEF HonestItem
  <2>4. CASE state = "dispatch_recorded"
    BY <2>2, <2>4 DEF HonestItem
  <2>5. CASE words # {} /\ state # "dispatch_recorded"
    <3>1. PICK j \in words : journal[j].kind # "dispatch" /\ state = journal[j].state
      BY <2>1, <2>5
    <3>2. /\ j \in DOMAIN journal /\ journal[j].kind = "outcome"
          /\ journal[j].op = op /\ journal[j].node = n
      BY <3>1 DEF Words, LinesOf
    <3>3. HonestItem(state, CallsFor(op, n))
      BY <1>1, <3>1, <3>2 DEF ReceiptsTold, OutcomesTrue
    <3>4. QED
      BY <2>2, <2>5, <3>3
  <2>6. QED
    BY <2>3, <2>4, <2>5
<1>5. QED
  BY <1>3, <1>4

\* The inductive invariant of what the journal tells.
LEMMA AlwaysTold ==
  ASSUME OnePlanPerCommand
  PROVE  Spec => [](TypeInv /\ LastLine /\ OnceInv /\ Told)
<1>1. TypeInv /\ LastLine /\ OnceInv /\ StartsFirst /\ Told /\ [Next]_vars =>
        (LastLine /\ OnceInv /\ StartsFirst /\ Told)'
  BY LastLineLasts, NextOnce, StartsNext, NextTold
<1>2. TypeInv /\ LockInv => TypeInv
  OBVIOUS
<1>3. QED
  BY Invariant, InitOnce, InitTold, <1>1, <1>2, PTL DEF Spec

\* Whenever the journal can be read, after a crash between any two steps for
\* instance, the receipts that are rebuilt from it agree with what was done to
\* the files: every call is in them, no item is reported as moved that was not,
\* and none that was moved as untouched, blocked or failed.  (the order of the
\* appends in execute_cleanup_record, and build_cleanup_receipts)
THEOREM ReceiptsAreHonest ==
  ASSUME OnePlanPerCommand
  PROVE  Spec => []HonestReceipts
<1>1. TypeInv /\ OnceInv /\ Told => HonestReceipts
  BY ToldHonest
<1>2. QED
  BY AlwaysTold, <1>1, PTL

\* The receipt of an operation that has no line that finalizes it is open.
LEMMA UnfinishedIsOpen ==
  ASSUME NEW lines \in Seq(Lines), NEW op, HasReceipt(lines, op),
         LinesOf(lines, op, {"finalized"}) = {}
  PROVE  OperationState(lines, op) \in OpenStates
<1> DEFINE changes == Changes(lines, op, {"dispatch", "finalized"})
<1>1. CASE changes = {}
  <2>1. lines[Opening(lines, op)].kind \in {"intent", "skeleton"}
    BY OpeningIs DEF LinesOf
  <2>2. QED
    BY <1>1, <2>1 DEF OperationState, OpeningState, OpenStates
<1>2. CASE changes # {}
  <2>1. /\ changes \subseteq LinesOf(lines, op, {"dispatch", "finalized"})
        /\ changes \in SUBSET (1 .. Len(lines))
    BY DEF Changes, LinesOf
  <2>2. Len(lines) \in Nat
    OBVIOUS
  <2> HIDE DEF changes
  <2>3. Max(changes) \in changes
    BY <1>2, <2>1, <2>2, FirstAndLast
  <2>4. lines[Max(changes)].kind = "dispatch"
    BY <2>1, <2>3 DEF LinesOf
  <2>5. OperationState(lines, op) = "running"
    BY <1>2, <2>4 DEF OperationState, changes
  <2>6. QED
    BY <2>5 DEF OpenStates
<1>3. QED
  BY <1>1, <1>2

\* A cleanup that was cut short is in the recovery inbox whenever the journal
\* can be read, whatever its lines are.  (build_cleanup_receipts and
\* recovery_inbox)
THEOREM CutShortIsListed == Spec => []InboxHoldsCutShort
<1>1. TypeInv => InboxHoldsCutShort
  <2> SUFFICES ASSUME TypeInv, Readable(journal), NEW op \in Commands, CutShort(op)
               PROVE  op \in RecoveryInbox(journal)
    BY DEF InboxHoldsCutShort
  <2>1. journal \in Seq(Lines)
    BY DEF TypeInv, TypeOK
  <2>2. LinesOf(journal, op, {"finalized"}) = {}
    BY DEF CutShort, LinesOf
  <2>3. OperationState(journal, op) \in OpenStates
    BY <2>1, <2>2, UnfinishedIsOpen DEF CutShort
  <2>4. QED
    BY <2>3 DEF RecoveryInbox, ReceiptState, CutShort
<1>2. TypeInv /\ LockInv => TypeInv
  OBVIOUS
<1>3. QED
  BY Invariant, <1>1, <1>2, PTL

-----------------------------------------------------------------------------
(* What a line that is appended changes in the receipts *)

LEMMA LinesSame ==
  ASSUME NEW lines \in Seq(Lines), NEW record \in Records, NEW op, NEW kinds,
         record.op # op \/ record.kind \notin kinds
  PROVE  LinesOf(Append(lines, record), op, kinds) = LinesOf(lines, op, kinds)
<1>1. LinesOf(Append(lines, record), op, kinds) =
        LinesOf(lines, op, kinds) \cup
          IF record.kind \in kinds /\ record.op = op THEN {Len(lines) + 1} ELSE {}
  BY LinesAppend
<1>2. QED
  BY <1>1

\* A line of one operation leaves the receipts of the others as they are.
LEMMA OtherReceipt ==
  ASSUME NEW lines \in Seq(Lines), NEW record \in Records, NEW op,
         record.op # op
  PROVE  LET longer == Append(lines, record)
         IN /\ HasReceipt(longer, op) <=> HasReceipt(lines, op)
            /\ HasReceipt(lines, op) =>
                 /\ ReceiptNodes(longer, op) = ReceiptNodes(lines, op)
                 /\ \A n : ItemReport(longer, op, n) = ItemReport(lines, op, n)
                 /\ ReceiptFor(longer, op) = ReceiptFor(lines, op)
<1> DEFINE longer == Append(lines, record)
<1>1. /\ \A kinds : LinesOf(longer, op, kinds) = LinesOf(lines, op, kinds)
      /\ \A i \in DOMAIN lines : longer[i] = lines[i]
  BY LinesAppend, LinesSame
<1>2. \A kinds : LinesOf(lines, op, kinds) \in SUBSET (1 .. Len(lines))
  BY DEF LinesOf
<1>3. HasReceipt(longer, op) <=> HasReceipt(lines, op)
  BY <1>1 DEF HasReceipt
<1> SUFFICES ASSUME HasReceipt(lines, op)
             PROVE  /\ ReceiptNodes(longer, op) = ReceiptNodes(lines, op)
                    /\ \A n : ItemReport(longer, op, n) = ItemReport(lines, op, n)
                    /\ ReceiptFor(longer, op) = ReceiptFor(lines, op)
  BY <1>3
<1> HIDE DEF longer
<1>4. Opening(longer, op) = Opening(lines, op)
  BY <1>1 DEF Opening
<1>5. /\ Opening(lines, op) \in DOMAIN lines
      /\ longer[Opening(longer, op)] = lines[Opening(lines, op)]
  <2>1. Opening(lines, op) \in DOMAIN lines
    BY OpeningIs DEF LinesOf
  <2>2. QED
    BY <1>1, <1>4, <2>1
<1>6. ReceiptNodes(longer, op) = ReceiptNodes(lines, op)
  BY <1>5 DEF ReceiptNodes
<1>7. \A kinds : Changes(longer, op, kinds) = Changes(lines, op, kinds)
  BY <1>1, <1>4 DEF Changes
<1>8. \A kinds : \A S \in SUBSET Changes(lines, op, kinds) : S # {} =>
        Max(S) \in DOMAIN lines /\ longer[Max(S)] = lines[Max(S)]
  <2> SUFFICES ASSUME NEW kinds, NEW S \in SUBSET Changes(lines, op, kinds), S # {}
               PROVE  Max(S) \in DOMAIN lines /\ longer[Max(S)] = lines[Max(S)]
    OBVIOUS
  <2>1. S \in SUBSET (1 .. Len(lines)) /\ Len(lines) \in Nat
    BY <1>2 DEF Changes
  <2>2. Max(S) \in S
    BY <2>1, FirstAndLast
  <2>3. Max(S) \in DOMAIN lines
    <3>1. DOMAIN lines = 1 .. Len(lines)
      OBVIOUS
    <3>2. Max(S) \in 1 .. Len(lines)
      BY <2>1, <2>2, Zenon
    <3>3. QED
      BY <3>1, <3>2
  <2>4. QED
    BY <1>1, <2>3
<1>9. OperationState(longer, op) = OperationState(lines, op)
  <2> DEFINE changes == Changes(lines, op, {"dispatch", "finalized"})
  <2>1. changes \in SUBSET Changes(lines, op, {"dispatch", "finalized"})
    OBVIOUS
  <2>2. changes # {} => longer[Max(changes)] = lines[Max(changes)]
    BY <1>8, <2>1
  <2>3. Changes(longer, op, {"dispatch", "finalized"}) = changes
    BY <1>7
  <2> HIDE DEF changes
  <2>4. QED
    BY <1>5, <2>2, <2>3 DEF OperationState, changes
<1>10. \A n : ItemState(longer, op, n) = ItemState(lines, op, n)
  <2> SUFFICES ASSUME NEW n
               PROVE  ItemState(longer, op, n) = ItemState(lines, op, n)
    OBVIOUS
  <2> DEFINE changes == {i \in Changes(lines, op, {"dispatch", "outcome"}) :
                           lines[i].node = n}
  <2>1. changes \in SUBSET Changes(lines, op, {"dispatch", "outcome"})
    OBVIOUS
  <2>2. changes # {} => longer[Max(changes)] = lines[Max(changes)]
    BY <1>8, <2>1
  <2>3. \A i \in Changes(lines, op, {"dispatch", "outcome"}) : longer[i] = lines[i]
    BY <1>1, <1>2 DEF Changes
  <2>4. {i \in Changes(longer, op, {"dispatch", "outcome"}) : longer[i].node = n}
          = changes
    BY <1>7, <2>3
  <2> HIDE DEF changes
  <2>5. QED
    BY <2>2, <2>4 DEF ItemState, changes
<1>11. \A n : ItemReport(longer, op, n) = ItemReport(lines, op, n)
  BY <1>9, <1>10 DEF ItemReport
<1>12. ReceiptState(longer, op) = ReceiptState(lines, op)
  BY <1>6, <1>9, <1>11 DEF ReceiptState
<1>13. ReceiptFor(longer, op) = ReceiptFor(lines, op)
  BY <1>6, <1>11, <1>12 DEF ReceiptFor
<1>14. QED
  BY <1>6, <1>11, <1>13

\* Of an item, what was said last counts.
SaidLast(lines, op, n) ==
  \A i \in Words(lines, op, n, {"dispatch"}),
     j \in Words(lines, op, n, {"outcome"}) : i < j

\* What a receipt says of an item, from the lines about the item.
LEMMA ReportFromWords ==
  ASSUME NEW lines \in Seq(Lines), Readable(lines), NEW op, HasReceipt(lines, op),
         NEW n, Ordered(lines, op), SaidLast(lines, op, n)
  PROVE  LET markers == Words(lines, op, n, {"dispatch"})
             outcomes == Words(lines, op, n, {"outcome"})
         IN /\ outcomes = {} /\ markers = {} => ItemReport(lines, op, n) = "pending"
            /\ outcomes = {} /\ markers # {} /\ LinesOf(lines, op, {"finalized"}) = {}
                 => ItemReport(lines, op, n) = "unknown_requires_review"
            /\ outcomes # {} => \E j \in outcomes :
                 /\ \A i \in outcomes : i <= j
                 /\ ItemReport(lines, op, n) = lines[j].state
<1> DEFINE words == Words(lines, op, n, {"dispatch", "outcome"})
           markers == Words(lines, op, n, {"dispatch"})
           outcomes == Words(lines, op, n, {"outcome"})
           state == ItemState(lines, op, n)
<1>1. words = markers \cup outcomes
  BY DEF Words, LinesOf
<1>2. /\ \A i \in markers : lines[i].kind = "dispatch"
      /\ \A i \in outcomes : /\ lines[i].kind = "outcome"
                             /\ lines[i].state # "dispatch_recorded"
      /\ words \subseteq DOMAIN lines
  <2>1. \A i \in DOMAIN lines : lines[i].kind = "outcome" =>
          lines[i].state # "dispatch_recorded"
    <3>1. \A i \in DOMAIN lines : lines[i] \in Records
      BY DEF Readable, Lines
    <3>2. QED
      BY <3>1 DEF Records, IntentRecord, SkeletonRecord, DispatchRecord,
                  OutcomeRecord, FinalizedRecord
  <2>2. QED
    BY <2>1 DEF Words, LinesOf
<1>3. /\ state = IF words = {} THEN "pending"
                 ELSE IF lines[Max(words)].kind = "dispatch" THEN "dispatch_recorded"
                 ELSE lines[Max(words)].state
      /\ words # {} => /\ Max(words) \in words
                       /\ \A i \in words : i <= Max(words)
  BY ItemFromWords
<1>4. \A i \in markers, j \in outcomes : i < j /\ i \in Nat /\ j \in Nat
  BY <1>1, <1>2 DEF SaidLast
<1> HIDE DEF words, markers, outcomes, state
<1>5. ItemReport(lines, op, n) =
        IF state = "dispatch_recorded" /\ OperationState(lines, op) \in OpenStates
        THEN "unknown_requires_review" ELSE state
  BY DEF ItemReport, state
<1>6. CASE words = {}
  BY <1>1, <1>3, <1>5, <1>6 DEF words, markers, outcomes
<1>7. CASE outcomes = {} /\ markers # {}
  <2>1. state = "dispatch_recorded"
    BY <1>1, <1>2, <1>3, <1>7
  <2>2. LinesOf(lines, op, {"finalized"}) = {} =>
          OperationState(lines, op) \in OpenStates
    BY UnfinishedIsOpen
  <2>3. QED
    BY <1>5, <1>7, <2>1, <2>2 DEF markers, outcomes
<1>8. CASE outcomes # {}
  <2>1. Max(words) \in outcomes /\ \A i \in outcomes : i <= Max(words)
    <3>1. PICK j \in outcomes : TRUE
      BY <1>8
    <3>2. Max(words) \in words /\ j <= Max(words)
      BY <1>1, <1>3, <3>1
    <3>3. Max(words) \notin markers
      BY <1>4, <3>1, <3>2
    <3>4. QED
      BY <1>1, <1>3, <3>2, <3>3
  <2>2. state = lines[Max(words)].state /\ state # "dispatch_recorded"
    BY <1>1, <1>2, <1>3, <1>8, <2>1
  <2>3. ItemReport(lines, op, n) = lines[Max(words)].state
    BY <1>5, <2>2
  <2>4. QED
    BY <1>8, <2>1, <2>3 DEF markers, outcomes
<1>9. QED
  BY <1>1, <1>6, <1>7, <1>8

-----------------------------------------------------------------------------
(* Steps that change the journal *)

\* Only a worker, or a crash in the middle of its append, changes the journal.
LEMMA AppendStep ==
  ASSUME [Next]_vars
  PROVE  \/ UNCHANGED <<journal, ended>>
         \/ /\ UNCHANGED trashed
            /\ \E r \in Requests : \E record \in PendingRecord(r) :
                 \/ /\ journal' = GoodAppend(journal, ended, record).lines
                    /\ ended' = GoodAppend(journal, ended, record).ended
                 \/ \E fault \in FaultSet :
                      /\ journal' = FaultyAppend(journal, ended, record, fault).lines
                      /\ ended' = FaultyAppend(journal, ended, record, fault).ended
<1>1. ASSUME NEW r \in Requests, NEW record \in PendingRecord(r), NEW w,
             Record(r, record, w)
      PROVE  /\ UNCHANGED trashed
             /\ \/ /\ journal' = GoodAppend(journal, ended, record).lines
                   /\ ended' = GoodAppend(journal, ended, record).ended
                \/ \E fault \in FaultSet :
                     /\ journal' = FaultyAppend(journal, ended, record, fault).lines
                     /\ ended' = FaultyAppend(journal, ended, record, fault).ended
  BY <1>1 DEF Record
<1>2. ASSUME NEW r \in Requests,
             \/ RecordIntent(r) \/ RecordSkeleton(r) \/ RecordBlocked(r)
             \/ RecordDispatch(r) \/ RecordOutcome(r) \/ Finalize(r)
      PROVE  \E record \in PendingRecord(r) : \E w : Record(r, record, w)
  BY <1>2 DEF RecordIntent, RecordSkeleton, RecordBlocked, RecordDispatch,
              RecordOutcome, Finalize, PendingRecord
<1>3. CASE Crash
  BY <1>3 DEF Crash
<1>4. ASSUME NEW r \in Requests,
             \/ CheckReceipt(r) \/ AcquirePaths(r) \/ TakePlan(r) \/ Revalidate(r)
             \/ MoveToTrash(r) \/ Summarise(r) \/ Reply(r)
             \/ Handle(r) \/ Disconnect(r)
      PROVE  UNCHANGED <<journal, ended>>
  BY <1>4 DEF CheckReceipt, AcquirePaths, AcquireUnless, TakePlan, Revalidate,
              MoveToTrash, Summarise, Reply, Handle, LookUpReceipt, SpawnWorker,
              Respond, Disconnect
<1>5. QED
  BY <1>1, <1>2, <1>3, <1>4
     DEF Next, vars, Work, CreatePlan, AcquireCommand, Touch, Idle

\* A journal that can be read after a step got a whole line, or none.
LEMMA ReadableStep ==
  ASSUME TypeInv, LastLine, [Next]_vars, Readable(journal'), journal' # journal
  PROVE  /\ Readable(journal) /\ UNCHANGED trashed
         /\ \E r \in Requests : \E record \in PendingRecord(r) :
              journal' = Append(journal, record)
<1>1. /\ journal \in Seq(Lines) /\ ended \in BOOLEAN
      /\ ended \/ journal # <<>>
      /\ FaultSet \subseteq FaultKinds
  BY BoundAssumption DEF TypeInv, TypeOK, LastLine
<1>2. UNCHANGED trashed
  BY AppendStep
<1>3. PICK r \in Requests : \E record \in PendingRecord(r) :
        \/ journal' = GoodAppend(journal, ended, record).lines
        \/ \E fault \in FaultSet :
             journal' = FaultyAppend(journal, ended, record, fault).lines
  BY AppendStep
<1>4. PICK record \in PendingRecord(r) :
        \/ journal' = GoodAppend(journal, ended, record).lines
        \/ \E fault \in FaultSet :
             journal' = FaultyAppend(journal, ended, record, fault).lines
  BY <1>3
<1>5. Readable(journal) /\ journal' = Append(journal, record)
  BY <1>1, <1>4, AppendReadable
<1>6. QED
  BY <1>2, <1>5

\* A worker that finalizes its receipt appends nothing after that, and finds
\* none finalized before.
LEMMA FinalLast ==
  ASSUME TypeInv, Readable(journal), Told, NEW r \in Requests,
         NEW record \in PendingRecord(r)
  PROVE  LinesOf(journal, Op(r), {"finalized"}) = {}
<1>1. Taken(r) /\ worker[r].pc # "reply"
  BY PendingIs DEF PendingRecord
<1>2. QED
  BY <1>1 DEF Told, WorkerTold, PlanTold

\* A receipt that was finalized never changes again, as long as the journal
\* can be read: no worker of the same command appends to it.
\* (execute_cleanup_record, and CleanupPlanStore::take)
THEOREM FinalReceiptsStay ==
  ASSUME OnePlanPerCommand
  PROVE  Spec => FinalReceiptStable
<1>1. ASSUME TypeInv, LastLine, Told, [Next]_vars, NEW op \in Commands,
             Finalized(journal, op), Readable(journal), Readable(journal')
      PROVE  ReceiptFor(journal', op) = ReceiptFor(journal, op)
  <2>1. CASE journal' = journal
    BY <2>1
  <2>2. CASE journal' # journal
    <3>1. PICK r \in Requests : \E record \in PendingRecord(r) :
            journal' = Append(journal, record)
      BY <1>1, <2>2, ReadableStep
    <3>2. PICK record \in PendingRecord(r) : journal' = Append(journal, record)
      BY <3>1
    <3>3. record \in Records /\ record.op = Op(r)
      BY <1>1, PendingIs
    <3>4. LinesOf(journal, op, {"finalized"}) # {}
      BY <1>1 DEF Finalized, LinesOf
    <3>5. record.op # op
      BY <1>1, <3>3, <3>4, FinalLast
    <3>6. HasReceipt(journal, op) /\ journal \in Seq(Lines)
      BY <1>1, <3>4 DEF Told, ReceiptsTold, OpsOpened, LinesOf, TypeInv, TypeOK
    <3>7. ReceiptFor(Append(journal, record), op) = ReceiptFor(journal, op)
      BY <3>3, <3>5, <3>6, OtherReceipt
    <3>8. QED
      BY <3>2, <3>7
  <2>3. QED
    BY <2>1, <2>2
<1>2. TypeInv /\ LastLine /\ Told /\ [Next]_vars =>
        [\A op \in Commands :
           Finalized(journal, op) /\ Readable(journal) /\ Readable(journal') =>
             ReceiptFor(journal', op) = ReceiptFor(journal, op)]_vars
  BY <1>1
<1>3. QED
  BY AlwaysTold, <1>2, PTL DEF Spec, FinalReceiptStable

-----------------------------------------------------------------------------
(* The refinement of CleanupPromise *)

\* What the receipts that lines give say of an item.
ReportOf(lines, op, n) ==
  IF HasReceipt(lines, op) /\ n \in ReceiptNodes(lines, op)
  THEN ItemReport(lines, op, n)
  ELSE "absent"

PromiseVars == <<[x \in Commands \X Nodes |-> Reported(x[1], x[2])], MovedItems>>

LEMMA ReportedIs ==
  /\ \A op, n : Reported(op, n) = ReportOf(journal, op, n)
  /\ \A op, n : Reported(op, n)' = ReportOf(journal', op, n)
BY DEF Reported, ReportOf

\* The receipt of an item changes, and that of no other.
LEMMA SaysStep ==
  ASSUME NEW op \in Commands, NEW n \in Nodes, NEW from, NEW to,
         ReportOf(journal, op, n) = from, ReportOf(journal', op, n) = to,
         \A o \in Commands, m \in Nodes : ~(o = op /\ m = n) =>
           ReportOf(journal', o, m) = ReportOf(journal, o, m)
  PROVE  Promise!Says(<<op, n>>, from, to)
<1> DEFINE now == [x \in Commands \X Nodes |-> Reported(x[1], x[2])]
           next == [x \in Commands \X Nodes |-> Reported(x[1], x[2])']
<1>1. now[<<op, n>>] = from /\ next[<<op, n>>] = to
  BY ReportedIs
<1>2. \A x \in Commands \X Nodes : x # <<op, n>> => next[x] = now[x]
  <2>1. \A o \in Commands, m \in Nodes : <<o, m>> # <<op, n>> =>
          next[<<o, m>>] = now[<<o, m>>]
    BY ReportedIs
  <2>2. \A x \in Commands \X Nodes :
          x = <<x[1], x[2]>> /\ x[1] \in Commands /\ x[2] \in Nodes
    OBVIOUS
  <2> HIDE DEF now, next
  <2>3. QED
    BY <2>1, <2>2
<1>3. next = [now EXCEPT ![<<op, n>>] = to]
  BY <1>1, <1>2
<1>4. QED
  BY <1>1, <1>3 DEF Promise!Says

\* What may be said next of an item.
LEMMA OneItemSays ==
  ASSUME NEW op \in Commands, NEW n \in Nodes, NEW from, NEW to,
         UNCHANGED trashed, Promise!Says(<<op, n>>, from, to),
         \/ from = "pending" /\ to \in {"unknown_requires_review", "blocked"}
         \/ /\ from = "unknown_requires_review"
            /\ to = IF <<op, n>> \in MovedItems THEN "moved_to_trash" ELSE "failed"
  PROVE  Promise!Next
<1>1. MovedItems' = MovedItems
  BY DEF MovedItems
<1>2. PICK x : x = <<op, n>>
  OBVIOUS
<1>3. x \in Promise!Items
  BY <1>2 DEF Promise!Items
<1>4. Promise!Says(x, from, to)
  BY <1>2
<1>5. Promise!Open(x)
  BY <1>4, Zenon DEF Promise!Open, Promise!Says
<1>6. Promise!Announce(x) \/ Promise!Refuse(x) \/ Promise!Conclude(x)
  <2>1. CASE from = "pending" /\ to = "unknown_requires_review"
    BY <1>1, <1>4, <2>1, Zenon DEF Promise!Announce
  <2>2. CASE from = "pending" /\ to = "blocked"
    BY <1>1, <1>4, <2>2, Zenon DEF Promise!Refuse
  <2>3. CASE /\ from = "unknown_requires_review"
             /\ to = IF <<op, n>> \in MovedItems THEN "moved_to_trash" ELSE "failed"
    BY <1>1, <1>2, <1>4, <2>3, Zenon DEF Promise!Conclude
  <2>4. QED
    BY <2>1, <2>2, <2>3
<1>7. QED
  BY <1>3, <1>5, <1>6, Zenon DEF Promise!Next

\* No receipt changes.
LEMMA SilentStep ==
  ASSUME UNCHANGED trashed,
         \A op \in Commands, n \in Nodes :
           ReportOf(journal', op, n) = ReportOf(journal, op, n)
  PROVE  UNCHANGED PromiseVars
<1>1. MovedItems' = MovedItems
  BY DEF MovedItems
<1>2. \A x \in Commands \X Nodes : Reported(x[1], x[2])' = Reported(x[1], x[2])
  BY ReportedIs
<1>3. QED
  BY <1>1, <1>2 DEF PromiseVars

\* What a receipt says of an item stays when no line about the item is added
\* and the receipt stays open, or an outcome was there already.
LEMMA SameReport ==
  ASSUME NEW lines \in Seq(Lines), NEW longer \in Seq(Lines), NEW op, NEW n,
         \A i \in DOMAIN lines : longer[i] = lines[i],
         Readable(lines), Readable(longer),
         HasReceipt(lines, op), HasReceipt(longer, op),
         Ordered(lines, op), Ordered(longer, op),
         SaidLast(lines, op, n), SaidLast(longer, op, n),
         Words(longer, op, n, {"dispatch"}) = Words(lines, op, n, {"dispatch"}),
         Words(longer, op, n, {"outcome"}) = Words(lines, op, n, {"outcome"}),
         \/ Words(lines, op, n, {"dispatch"}) = {}
         \/ Words(lines, op, n, {"outcome"}) # {}
         \/ /\ LinesOf(lines, op, {"finalized"}) = {}
            /\ LinesOf(longer, op, {"finalized"}) = {}
  PROVE  ItemReport(longer, op, n) = ItemReport(lines, op, n)
<1> DEFINE markers == Words(lines, op, n, {"dispatch"})
           outcomes == Words(lines, op, n, {"outcome"})
<1>1. CASE outcomes = {}
  BY <1>1, ReportFromWords
<1>2. CASE outcomes # {}
  <2>1. PICK j \in outcomes : /\ \A i \in outcomes : i <= j
                              /\ ItemReport(lines, op, n) = lines[j].state
    BY <1>2, ReportFromWords
  <2>2. PICK k \in outcomes : /\ \A i \in outcomes : i <= k
                              /\ ItemReport(longer, op, n) = longer[k].state
    <3>1. Words(longer, op, n, {"outcome"}) # {} =>
            \E k \in Words(longer, op, n, {"outcome"}) :
              /\ \A i \in Words(longer, op, n, {"outcome"}) : i <= k
              /\ ItemReport(longer, op, n) = longer[k].state
      BY ReportFromWords
    <3>2. QED
      BY <1>2, <3>1
  <2>3. outcomes \subseteq DOMAIN lines
    BY DEF Words, LinesOf
  <2>4. j = k /\ longer[j] = lines[j]
    <3>1. j \in DOMAIN lines /\ k \in DOMAIN lines /\ j <= k /\ k <= j
      BY <2>1, <2>2, <2>3
    <3>2. j = k
      BY <3>1
    <3>3. QED
      BY <3>1, <3>2
  <2>5. QED
    BY <2>1, <2>2, <2>4
<1>3. QED
  BY <1>1, <1>2

\* A worker appends its next record to a journal that can be read.
Appends(r, record) ==
  /\ TypeInv /\ OnceInv /\ Told
  /\ record \in PendingRecord(r)
  /\ Readable(journal)
  /\ journal' = Append(journal, record) /\ UNCHANGED trashed
  /\ Readable(journal') /\ Told'

LEMMA AppendsOwn ==
  ASSUME NEW r \in Requests, NEW record, Appends(r, record)
  PROVE  /\ journal \in Seq(Lines) /\ journal' \in Seq(Lines)
         /\ record \in Records /\ record.op = Op(r) /\ Op(r) \in Commands
         /\ PlanTold(journal, Op(r), worker[r]) /\ WorkerTold(r) /\ Taken(r)
         /\ LinesOf(journal, Op(r), {"finalized"}) = {}
         /\ \A n \in Nodes : /\ Ordered(journal, Op(r)) /\ Ordered(journal', Op(r))
                             /\ SaidLast(journal, Op(r), n)
                             /\ SaidLast(journal', Op(r), n)
         /\ NodesOf(worker[r].plan) \subseteq Nodes
<1>1. /\ record \in Records /\ record.op = Op(r) /\ Op(r) \in Commands
      /\ Taken(r)
  BY PendingIs DEF Appends
<1>2. journal \in Seq(Lines) /\ journal' \in Seq(Lines)
  <2>1. journal \in Seq(Lines) /\ record \in Lines
    BY <1>1 DEF Appends, TypeInv, TypeOK, Lines
  <2>2. QED
    BY <2>1 DEF Appends
<1>3. WorkerTold(r) /\ ReceiptsTold /\ ReceiptsTold'
  BY DEF Appends, Told
<1>4. PlanTold(journal, Op(r), worker[r])
  BY <1>1, <1>3 DEF WorkerTold
<1>5. LinesOf(journal, Op(r), {"finalized"}) = {}
  BY FinalLast DEF Appends
<1>6. PICK op \in Commands : op = Op(r)
  BY <1>1
<1>7. /\ Ordered(journal, op) /\ Ordered(journal', op)
      /\ \A n \in Nodes : SaidLast(journal, op, n) /\ SaidLast(journal', op, n)
  BY <1>3 DEF ReceiptsTold, OpenedFirst, OutcomesLast, SaidLast
<1>8. NodesOf(worker[r].plan) \subseteq Nodes
  <2>1. worker[r].plan.nodes \in Seq(Nodes)
    BY DEF Appends, TypeInv, TypeOK, WorkerRecord, PlanRecord
  <2>2. QED
    BY <2>1 DEF NodesOf
<1>9. QED
  BY <1>1, <1>2, <1>3, <1>4, <1>5, <1>6, <1>7, <1>8

\* The receipt of the operation lists the items of the plan, and the receipts
\* of the others stay as they are.
LEMMA AppendsReceipt ==
  ASSUME NEW r \in Requests, NEW record, Appends(r, record)
  PROVE  /\ HasReceipt(journal, Op(r)) =>
              ReceiptNodes(journal, Op(r)) = NodesOf(worker[r].plan)
         /\ HasReceipt(journal', Op(r))
         /\ ReceiptNodes(journal', Op(r)) = NodesOf(worker[r].plan)
         /\ record.kind = "intent" <=> ~HasReceipt(journal, Op(r))
         /\ \A o \in Commands, n \in Nodes : o # Op(r) =>
              ReportOf(journal', o, n) = ReportOf(journal, o, n)
<1> DEFINE nodes == NodesOf(worker[r].plan)
<1>1. PICK op \in Commands : op = Op(r)
  BY AppendsOwn
<1>2. /\ journal \in Seq(Lines) /\ journal' \in Seq(Lines)
      /\ record \in Records /\ record.op = op
      /\ journal' = Append(journal, record)
      /\ \A j \in LinesOf(journal, op, {"intent", "skeleton"}) :
           journal[j].nodes = nodes
  BY <1>1, AppendsOwn DEF PlanTold, Appends
<1>3. HasReceipt(journal, op) => ReceiptNodes(journal, op) = nodes
  BY <1>2, OpeningIs DEF ReceiptNodes
<1>4. record.kind = "intent" <=> ~HasReceipt(journal, op)
  <2>1. record.kind = "intent" => worker[r].pc = "intent"
    BY PendingIs DEF Appends
  <2>2. record.kind # "intent" => worker[r].pc # "intent"
    BY DEF Appends, PendingRecord
  <2>3. worker[r].pc = "intent" => ~HasReceipt(journal, op)
    BY <1>1, AppendsOwn DEF WorkerTold
  <2>4. worker[r].pc # "intent" => HasReceipt(journal, op)
    BY <1>1, AppendsOwn DEF Appends, OnceInv, Noted, Announced
  <2>5. QED
    BY <2>1, <2>2, <2>3, <2>4
<1>5. record.kind \in {"intent", "skeleton"} => record.nodes = nodes
  BY PendingIs DEF Appends
<1>6. /\ LinesOf(journal', op, {"intent", "skeleton"}) =
           LinesOf(journal, op, {"intent", "skeleton"}) \cup
             IF record.kind \in {"intent", "skeleton"} /\ record.op = op
             THEN {Len(journal) + 1} ELSE {}
      /\ journal'[Len(journal) + 1] = record
      /\ \A i \in DOMAIN journal : journal'[i] = journal[i]
  BY <1>2, LinesAppend
<1>7. HasReceipt(journal', op)
  BY <1>2, <1>4, <1>6 DEF HasReceipt
<1>8. \A j \in LinesOf(journal', op, {"intent", "skeleton"}) : journal'[j].nodes = nodes
  <2>1. LinesOf(journal, op, {"intent", "skeleton"}) \subseteq DOMAIN journal
    BY DEF LinesOf
  <2>2. QED
    BY <1>2, <1>5, <1>6, <2>1
<1>9. ReceiptNodes(journal', op) = nodes
  BY <1>2, <1>7, <1>8, OpeningIs DEF ReceiptNodes
<1>10. ASSUME NEW o \in Commands, NEW n \in Nodes, o # op
       PROVE  ReportOf(journal', o, n) = ReportOf(journal, o, n)
  <2>1. /\ HasReceipt(journal', o) <=> HasReceipt(journal, o)
        /\ HasReceipt(journal, o) =>
             /\ ReceiptNodes(journal', o) = ReceiptNodes(journal, o)
             /\ ItemReport(journal', o, n) = ItemReport(journal, o, n)
    BY <1>2, <1>10, OtherReceipt
  <2>2. QED
    BY <2>1 DEF ReportOf
<1>11. QED
  BY <1>1, <1>3, <1>4, <1>7, <1>9, <1>10

\* The lines about an item of the operation.
LEMMA AppendsWords ==
  ASSUME NEW r \in Requests, NEW record, Appends(r, record), NEW n \in Nodes
  PROVE  /\ Words(journal', Op(r), n, {"dispatch"}) =
              Words(journal, Op(r), n, {"dispatch"}) \cup
                IF record.kind = "dispatch" /\ record.node = n
                THEN {Len(journal) + 1} ELSE {}
         /\ Words(journal', Op(r), n, {"outcome"}) =
              Words(journal, Op(r), n, {"outcome"}) \cup
                IF record.kind = "outcome" /\ record.node = n
                THEN {Len(journal) + 1} ELSE {}
<1>1. record \in Records /\ record.op = Op(r)
  BY AppendsOwn
<1>2. PICK op : op = Op(r)
  OBVIOUS
<1>3. \A kinds \in SUBSET {"dispatch", "outcome"} :
        Words(journal', op, n, kinds) = Words(journal, op, n, kinds) \cup
          IF record.kind \in kinds /\ record.op = op /\ record.node = n
          THEN {Len(journal) + 1} ELSE {}
  BY <1>1, WordsAppend DEF Appends
<1>4. Words(journal', op, n, {"dispatch"}) = Words(journal, op, n, {"dispatch"}) \cup
        IF record.kind \in {"dispatch"} /\ record.op = op /\ record.node = n
        THEN {Len(journal) + 1} ELSE {}
  BY <1>3
<1>5. Words(journal', op, n, {"outcome"}) = Words(journal, op, n, {"outcome"}) \cup
        IF record.kind \in {"outcome"} /\ record.op = op /\ record.node = n
        THEN {Len(journal) + 1} ELSE {}
  BY <1>3
<1>6. QED
  BY <1>1, <1>2, <1>4, <1>5

\* The lines about other items are the same as before.
LEMMA WordsSame ==
  ASSUME NEW r \in Requests, NEW record, Appends(r, record), NEW n \in Nodes,
         ~(record.kind \in {"dispatch", "outcome"} /\ record.node = n)
  PROVE  /\ Words(journal', Op(r), n, {"dispatch"}) =
              Words(journal, Op(r), n, {"dispatch"})
         /\ Words(journal', Op(r), n, {"outcome"}) =
              Words(journal, Op(r), n, {"outcome"})
<1>1. /\ ~(record.kind = "dispatch" /\ record.node = n)
      /\ ~(record.kind = "outcome" /\ record.node = n)
  OBVIOUS
<1>2. Words(journal', Op(r), n, {"dispatch"}) =
        Words(journal, Op(r), n, {"dispatch"}) \cup
          IF record.kind = "dispatch" /\ record.node = n
          THEN {Len(journal) + 1} ELSE {}
  BY AppendsWords, Zenon
<1>3. Words(journal', Op(r), n, {"outcome"}) =
        Words(journal, Op(r), n, {"outcome"}) \cup
          IF record.kind = "outcome" /\ record.node = n
          THEN {Len(journal) + 1} ELSE {}
  BY AppendsWords, ZenonT(60)
<1>4. Words(journal', Op(r), n, {"dispatch"}) = Words(journal, Op(r), n, {"dispatch"})
  BY <1>1, <1>2
<1>5. Words(journal', Op(r), n, {"outcome"}) = Words(journal, Op(r), n, {"outcome"})
  BY <1>1, <1>3
<1>6. QED
  BY <1>4, <1>5

\* A line that is not about an item leaves what is said of it.
LEMMA AppendsSame ==
  ASSUME NEW r \in Requests, NEW record, Appends(r, record),
         record.kind # "intent", NEW n \in Nodes,
         ~(record.kind \in {"dispatch", "outcome"} /\ record.node = n),
         \/ record.kind # "finalized"
         \/ n \in NodesOf(worker[r].plan) =>
              Words(journal, Op(r), n, {"outcome"}) # {}
  PROVE  ReportOf(journal', Op(r), n) = ReportOf(journal, Op(r), n)
<1>1. PICK op \in Commands : op = Op(r)
  BY AppendsOwn
<1>2. PICK longer \in Seq(Lines) : longer = journal'
  BY AppendsOwn
<1>3. /\ HasReceipt(journal, op) /\ HasReceipt(longer, op)
      /\ ReceiptNodes(journal, op) = NodesOf(worker[r].plan)
      /\ ReceiptNodes(longer, op) = NodesOf(worker[r].plan)
  BY <1>1, <1>2, AppendsReceipt
<1>4. /\ journal \in Seq(Lines) /\ record \in Records /\ record.op = op
      /\ Readable(journal) /\ Readable(longer)
      /\ Ordered(journal, op) /\ Ordered(longer, op)
      /\ SaidLast(journal, op, n) /\ SaidLast(longer, op, n)
      /\ LinesOf(journal, op, {"finalized"}) = {}
  BY <1>1, <1>2, AppendsOwn DEF Appends
<1>5. /\ \A i \in DOMAIN journal : longer[i] = journal[i]
      /\ Words(longer, op, n, {"dispatch"}) = Words(journal, op, n, {"dispatch"})
      /\ Words(longer, op, n, {"outcome"}) = Words(journal, op, n, {"outcome"})
  <2>1. \A i \in DOMAIN journal : longer[i] = journal[i]
    <3>1. longer = Append(journal, record)
      BY <1>2 DEF Appends
    <3>2. QED
      BY <1>4, <3>1, LinesAppend
  <2>2. QED
    BY <1>1, <1>2, <2>1, WordsSame
<1>6. ASSUME n \in NodesOf(worker[r].plan)
      PROVE  ItemReport(longer, op, n) = ItemReport(journal, op, n)
  <2>1. CASE record.kind = "finalized"
    <3>1. Words(journal, op, n, {"outcome"}) # {}
      BY <1>1, <1>6, <2>1
    <3>2. QED
      BY <1>3, <1>4, <1>5, <3>1, SameReport
  <2>2. CASE record.kind # "finalized"
    <3>1. LinesOf(longer, op, {"finalized"}) = {}
      <4>1. record.kind \notin {"finalized"}
        BY <2>2
      <4>2. longer = Append(journal, record)
        BY <1>2 DEF Appends
      <4>3. QED
        BY <1>4, <4>1, <4>2, LinesSame
    <3>2. QED
      BY <1>3, <1>4, <1>5, <3>1, SameReport
  <2>3. QED
    BY <2>1, <2>2
<1>7. QED
  BY <1>1, <1>2, <1>3, <1>6 DEF ReportOf

\* The intent admits the operation with all its items.
LEMMA IntentAdmits ==
  ASSUME NEW r \in Requests, NEW record, Appends(r, record),
         record.kind = "intent"
  PROVE  Promise!Next
<1> DEFINE nodes == NodesOf(worker[r].plan)
<1>1. PICK op \in Commands : op = Op(r)
  BY AppendsOwn
<1>2. PICK longer \in Seq(Lines) : longer = journal'
  BY AppendsOwn
<1>3. /\ ~HasReceipt(journal, op) /\ HasReceipt(longer, op)
      /\ ReceiptNodes(longer, op) = nodes
      /\ \A o \in Commands, n \in Nodes : o # op =>
           ReportOf(longer, o, n) = ReportOf(journal, o, n)
      /\ nodes \subseteq Nodes
  BY <1>1, <1>2, AppendsReceipt, AppendsOwn
<1>4. ASSUME NEW n \in Nodes
      PROVE  /\ Words(longer, op, n, {"dispatch"}) = {}
             /\ Words(longer, op, n, {"outcome"}) = {}
             /\ Readable(longer) /\ Ordered(longer, op) /\ SaidLast(longer, op, n)
  <2>1. /\ Words(journal, op, n, {"dispatch"}) = {}
        /\ Words(journal, op, n, {"outcome"}) = {}
    <3>1. \A kinds : LinesOf(journal, op, kinds) = {}
      BY <1>3, UnheardTold DEF Appends, Told
    <3>2. QED
      BY <3>1 DEF Words
  <2>2. /\ Words(longer, op, n, {"dispatch"}) = Words(journal, op, n, {"dispatch"})
        /\ Words(longer, op, n, {"outcome"}) = Words(journal, op, n, {"outcome"})
    BY <1>1, <1>2, WordsSame
  <2>3. Readable(longer)
    BY <1>2 DEF Appends
  <2>4. Ordered(longer, op) /\ SaidLast(longer, op, n)
    BY <1>1, <1>2, AppendsOwn
  <2>5. QED
    BY <2>1, <2>2, <2>3, <2>4
<1>5. \A n \in Nodes : ItemReport(longer, op, n) = "pending"
  BY <1>3, <1>4, ReportFromWords
<1>6. \A n \in Nodes :
        /\ ReportOf(journal, op, n) = "absent"
        /\ ReportOf(longer, op, n) = IF n \in nodes THEN "pending" ELSE "absent"
  BY <1>3, <1>5 DEF ReportOf
<1> DEFINE now == [x \in Commands \X Nodes |-> Reported(x[1], x[2])]
           next == [x \in Commands \X Nodes |-> Reported(x[1], x[2])']
<1> HIDE DEF nodes
<1>7. \A n \in Nodes : now[<<op, n>>] = "absent"
  BY <1>6, ReportedIs
<1>8. \A x \in Commands \X Nodes :
        next[x] = IF x[1] = op /\ x[2] \in nodes THEN "pending" ELSE now[x]
  <2> SUFFICES ASSUME NEW x \in Commands \X Nodes
               PROVE  Reported(x[1], x[2])' =
                        IF x[1] = op /\ x[2] \in nodes THEN "pending"
                        ELSE Reported(x[1], x[2])
    OBVIOUS
  <2>1. x[1] \in Commands /\ x[2] \in Nodes
    OBVIOUS
  <2>2. /\ Reported(x[1], x[2])' = ReportOf(longer, x[1], x[2])
        /\ Reported(x[1], x[2]) = ReportOf(journal, x[1], x[2])
    BY <1>2, ReportedIs
  <2>3. QED
    BY <1>3, <1>6, <2>1, <2>2
<1>9. next = [x \in Commands \X Nodes |->
                IF x[1] = op /\ x[2] \in nodes THEN "pending" ELSE now[x]]
  BY <1>8
<1>10. MovedItems' = MovedItems
  BY DEF Appends, MovedItems
<1>11. Promise!Admit(op)
  <2>1. \E s \in SUBSET Nodes :
          next = [x \in Commands \X Nodes |->
                    IF x[1] = op /\ x[2] \in s THEN "pending" ELSE now[x]]
    BY <1>3, <1>9
  <2>2. QED
    BY <1>7, <1>10, <2>1, Zenon DEF Promise!Admit, Promise!Items
<1>12. QED
  BY <1>11 DEF Promise!Next

\* The skeleton and the line that finalizes a receipt tell nothing new.
LEMMA QuietAppend ==
  ASSUME NEW r \in Requests, NEW record, Appends(r, record),
         record.kind \in {"skeleton", "finalized"}
  PROVE  UNCHANGED PromiseVars
<1>1. PlanTold(journal, Op(r), worker[r])
  BY AppendsOwn
<1>2. ASSUME record.kind = "finalized", NEW n \in NodesOf(worker[r].plan)
      PROVE  Words(journal, Op(r), n, {"outcome"}) # {}
  <2>1. worker[r].pc = "finalize"
    BY <1>2, PendingIs DEF Appends
  <2>2. worker[r].at > Len(worker[r].plan.nodes)
    BY <1>1, <2>1 DEF PlanTold
  <2>3. PICK k \in DOMAIN worker[r].plan.nodes : n = worker[r].plan.nodes[k]
    BY <1>2 DEF NodesOf
  <2>4. k < worker[r].at
    BY <2>2, <2>3 DEF Appends, TypeInv, TypeOK, WorkerRecord, PlanRecord
  <2>5. QED
    BY <1>1, <2>3, <2>4 DEF PlanTold
<1>3. \A n \in Nodes : ReportOf(journal', Op(r), n) = ReportOf(journal, Op(r), n)
  BY <1>2, AppendsSame
<1>4. \A o \in Commands, n \in Nodes : ReportOf(journal', o, n) = ReportOf(journal, o, n)
  BY <1>3, AppendsReceipt
<1>5. UNCHANGED trashed
  BY DEF Appends
<1>6. QED
  BY <1>4, <1>5, SilentStep

\* What the lines say of the item a worker appends a line about, before and
\* after.
LEMMA ItemLines ==
  ASSUME NEW r \in Requests, NEW record, Appends(r, record),
         record.kind \in {"dispatch", "outcome"}
  PROVE  /\ record.node = Item(r) /\ Item(r) \in Nodes
         /\ Item(r) \in NodesOf(worker[r].plan)
         /\ Words(journal, Op(r), Item(r), {"outcome"}) = {}
         /\ worker[r].pc # "outcome" =>
              Words(journal, Op(r), Item(r), {"dispatch"}) = {}
         /\ HasReceipt(journal, Op(r))
         /\ ReceiptNodes(journal, Op(r)) = NodesOf(worker[r].plan)
<1>1. /\ record.node = Item(r)
      /\ worker[r].pc \in {"block", "dispatch", "outcome"}
  BY PendingIs DEF Appends
<1>2. /\ Item(r) \in Nodes
      /\ worker[r].at \in DOMAIN worker[r].plan.nodes
  BY <1>1, ItemType DEF Appends, ItemPcs
<1>3. worker[r].at \in Nat
  BY DEF Appends, TypeInv, TypeOK, WorkerRecord
<1>4. Item(r) \in NodesOf(worker[r].plan)
  BY <1>2 DEF Item, NodesOf
<1>5. PlanTold(journal, Op(r), worker[r])
  BY AppendsOwn
<1>6. Words(journal, Op(r), Item(r), {"outcome"}) = {}
  <2>1. \A k \in DOMAIN worker[r].plan.nodes : k >= worker[r].at =>
          Words(journal, Op(r), worker[r].plan.nodes[k], {"outcome"}) = {}
    BY <1>5 DEF PlanTold
  <2>2. worker[r].at >= worker[r].at
    BY <1>3
  <2>3. QED
    BY <1>2, <2>1, <2>2 DEF Item
<1>7. worker[r].pc # "outcome" =>
        Words(journal, Op(r), Item(r), {"dispatch"}) = {}
  BY <1>1, <1>2, <1>3, <1>5 DEF PlanTold, Item, Ahead
<1>8. HasReceipt(journal, Op(r))
  BY AppendsReceipt
<1>9. QED
  BY <1>1, <1>2, <1>4, <1>6, <1>7, <1>8, AppendsReceipt

\* One item of the operation is told of, and no other.
LEMMA ItemAppend ==
  ASSUME NEW r \in Requests, NEW record, Appends(r, record),
         record.kind \in {"dispatch", "outcome"}, record.node = Item(r),
         NEW from, NEW to,
         ReportOf(journal, Op(r), Item(r)) = from,
         ReportOf(journal', Op(r), Item(r)) = to
  PROVE  Promise!Says(<<Op(r), Item(r)>>, from, to)
<1>1. Op(r) \in Commands
  BY AppendsOwn
<1>2. ASSUME NEW o \in Commands, NEW m \in Nodes, ~(o = Op(r) /\ m = Item(r))
      PROVE  ReportOf(journal', o, m) = ReportOf(journal, o, m)
  <2>1. CASE o # Op(r)
    BY <2>1, AppendsReceipt
  <2>2. CASE o = Op(r)
    <3>1. m # record.node /\ record.kind # "intent" /\ record.kind # "finalized"
      BY <1>2, <2>2
    <3>2. ReportOf(journal', Op(r), m) = ReportOf(journal, Op(r), m)
      BY <3>1, AppendsSame
    <3>3. QED
      BY <2>2, <3>2
  <2>3. QED
    BY <2>1, <2>2
<1>3. PICK op \in Commands : op = Op(r)
  BY <1>1
<1>4. PICK item \in Nodes : item = Item(r)
  BY ItemLines
<1>5. /\ ReportOf(journal, op, item) = from
      /\ ReportOf(journal', op, item) = to
      /\ \A o \in Commands, m \in Nodes : ~(o = op /\ m = item) =>
           ReportOf(journal', o, m) = ReportOf(journal, o, m)
  BY <1>2, <1>3, <1>4
<1>6. Promise!Says(<<op, item>>, from, to)
  BY <1>5, SaysStep
<1>7. QED
  BY <1>3, <1>4, <1>6

\* A marker announces the item.
LEMMA DispatchAnnounces ==
  ASSUME NEW r \in Requests, NEW record, Appends(r, record),
         record.kind = "dispatch"
  PROVE  Promise!Next
<1>1. PICK op \in Commands : op = Op(r)
  BY AppendsOwn
<1>2. PICK longer \in Seq(Lines) : longer = journal'
  BY AppendsOwn
<1>3. PICK item \in Nodes : item = Item(r)
  BY ItemLines
<1>4. /\ record.node = item /\ item \in NodesOf(worker[r].plan)
      /\ Words(journal, op, item, {"outcome"}) = {}
      /\ Words(journal, op, item, {"dispatch"}) = {}
      /\ HasReceipt(journal, op) /\ HasReceipt(longer, op)
      /\ ReceiptNodes(journal, op) = NodesOf(worker[r].plan)
      /\ ReceiptNodes(longer, op) = NodesOf(worker[r].plan)
  <2>1. worker[r].pc # "outcome"
    BY PendingIs DEF Appends
  <2>2. QED
    BY <1>1, <1>2, <1>3, <2>1, ItemLines, AppendsReceipt
<1>5. /\ journal \in Seq(Lines) /\ record \in Records /\ record.op = op
      /\ Readable(journal) /\ Readable(longer)
      /\ Ordered(journal, op) /\ Ordered(longer, op)
      /\ SaidLast(journal, op, item) /\ SaidLast(longer, op, item)
      /\ LinesOf(journal, op, {"finalized"}) = {}
  BY <1>1, <1>2, <1>3, AppendsOwn DEF Appends
<1>6. ItemReport(journal, op, item) = "pending"
  BY <1>4, <1>5, ReportFromWords
<1>7. /\ Words(longer, op, item, {"outcome"}) = {}
      /\ Words(longer, op, item, {"dispatch"}) # {}
  <2>1. Words(longer, op, item, {"outcome"}) =
          Words(journal, op, item, {"outcome"}) \cup
            IF record.kind = "outcome" /\ record.node = item
            THEN {Len(journal) + 1} ELSE {}
    BY <1>1, <1>2, AppendsWords
  <2>2. Words(longer, op, item, {"dispatch"}) =
          Words(journal, op, item, {"dispatch"}) \cup
            IF record.kind = "dispatch" /\ record.node = item
            THEN {Len(journal) + 1} ELSE {}
    BY <1>1, <1>2, AppendsWords
  <2>3. QED
    BY <1>4, <2>1, <2>2
<1>8. LinesOf(longer, op, {"finalized"}) = {}
  <2>1. record.kind \notin {"finalized"}
    OBVIOUS
  <2>2. longer = Append(journal, record)
    BY <1>2 DEF Appends
  <2>3. QED
    BY <1>5, <2>1, <2>2, LinesSame
<1>9. ItemReport(longer, op, item) = "unknown_requires_review"
  BY <1>4, <1>5, <1>7, <1>8, ReportFromWords
<1>10. /\ ReportOf(journal, Op(r), Item(r)) = "pending"
       /\ ReportOf(journal', Op(r), Item(r)) = "unknown_requires_review"
  <2>1. /\ ReportOf(journal, op, item) = "pending"
        /\ ReportOf(longer, op, item) = "unknown_requires_review"
    BY <1>4, <1>6, <1>9 DEF ReportOf
  <2>2. QED
    BY <1>1, <1>2, <1>3, <2>1
<1>11. Promise!Says(<<Op(r), Item(r)>>, "pending", "unknown_requires_review")
  BY <1>3, <1>4, <1>10, ItemAppend
<1>12. UNCHANGED trashed
  BY DEF Appends
<1>13. Promise!Says(<<op, item>>, "pending", "unknown_requires_review")
  BY <1>1, <1>3, <1>11
<1>14. QED
  BY <1>12, <1>13, OneItemSays

\* An outcome settles the item: blocked when it was not announced, and else
\* what the adapter said.
LEMMA OutcomeSettles ==
  ASSUME NEW r \in Requests, NEW record, Appends(r, record),
         record.kind = "outcome"
  PROVE  Promise!Next
<1>1. PICK op \in Commands : op = Op(r)
  BY AppendsOwn
<1>2. PICK longer \in Seq(Lines) : longer = journal'
  BY AppendsOwn
<1>3. PICK item \in Nodes : item = Item(r)
  BY ItemLines
<1>4. /\ record.node = item /\ item \in NodesOf(worker[r].plan)
      /\ Words(journal, op, item, {"outcome"}) = {}
      /\ worker[r].pc # "outcome" => Words(journal, op, item, {"dispatch"}) = {}
      /\ HasReceipt(journal, op) /\ HasReceipt(longer, op)
      /\ ReceiptNodes(journal, op) = NodesOf(worker[r].plan)
      /\ ReceiptNodes(longer, op) = NodesOf(worker[r].plan)
  BY <1>1, <1>2, <1>3, ItemLines, AppendsReceipt
<1>5. /\ journal \in Seq(Lines) /\ record \in Records /\ record.op = op
      /\ Readable(journal) /\ Readable(longer)
      /\ Ordered(journal, op) /\ Ordered(longer, op)
      /\ SaidLast(journal, op, item) /\ SaidLast(longer, op, item)
      /\ LinesOf(journal, op, {"finalized"}) = {}
  BY <1>1, <1>2, <1>3, AppendsOwn DEF Appends
<1>6. Words(longer, op, item, {"outcome"}) = {Len(journal) + 1}
  <2>1. Words(longer, op, item, {"outcome"}) =
          Words(journal, op, item, {"outcome"}) \cup
            IF record.kind = "outcome" /\ record.node = item
            THEN {Len(journal) + 1} ELSE {}
    BY <1>1, <1>2, AppendsWords
  <2>2. QED
    BY <1>4, <2>1
<1>7. longer[Len(journal) + 1] = record
  <2>1. longer = Append(journal, record)
    BY <1>2 DEF Appends
  <2>2. QED
    BY <1>5, <2>1, LinesAppend
<1>8. ItemReport(longer, op, item) = record.state
  <2>1. \E j \in Words(longer, op, item, {"outcome"}) :
          ItemReport(longer, op, item) = longer[j].state
    BY <1>4, <1>5, <1>6, ReportFromWords
  <2>2. QED
    BY <1>6, <1>7, <2>1
<1>9. ReportOf(longer, op, item) = record.state
  BY <1>4, <1>8 DEF ReportOf
<1>10. ReportOf(journal, op, item) = ItemReport(journal, op, item)
  BY <1>4 DEF ReportOf
<1>11. UNCHANGED trashed
  BY DEF Appends
<1>12. ASSUME NEW from, NEW to, ReportOf(journal, op, item) = from,
              ReportOf(longer, op, item) = to
       PROVE  Promise!Says(<<op, item>>, from, to)
  <2>1. /\ ReportOf(journal, Op(r), Item(r)) = from
        /\ ReportOf(journal', Op(r), Item(r)) = to
    BY <1>1, <1>2, <1>3, <1>12
  <2>2. record.node = Item(r)
    BY <1>3, <1>4
  <2>3. Promise!Says(<<Op(r), Item(r)>>, from, to)
    BY <2>1, <2>2, ItemAppend
  <2>4. QED
    BY <1>1, <1>3, <2>3
<1>13. CASE worker[r].pc = "block" /\ record.state = "blocked"
  <2>1. ItemReport(journal, op, item) = "pending"
    BY <1>4, <1>5, <1>13, ReportFromWords
  <2>2. Promise!Says(<<op, item>>, "pending", "blocked")
    BY <1>9, <1>10, <1>12, <1>13, <2>1
  <2>3. QED
    BY <1>11, <2>2, OneItemSays
<1>14. CASE worker[r].pc = "outcome" /\ record.state = worker[r].outcome
  <2>1. /\ HonestItem(worker[r].outcome, CallsFor(op, item))
        /\ worker[r].outcome \in {"moved_to_trash", "failed"}
    <3>1. HonestItem(worker[r].outcome, CallsFor(Op(r), Item(r)))
      BY <1>14, AppendsOwn DEF WorkerTold
    <3>2. worker[r].outcome \in {"moved_to_trash", "failed"}
      BY <1>14 DEF Appends, TypeInv, AtItem
    <3>3. QED
      BY <1>1, <1>3, <3>1, <3>2
  <2>2. CallsFor(op, item) # {}
    BY <2>1 DEF HonestItem
  <2>3. Words(journal, op, item, {"dispatch"}) # {}
    <3>1. CallsMarked
      BY DEF Appends, Told, ReceiptsTold
    <3>2. PICK i \in DOMAIN trashed : trashed[i].op = op /\ trashed[i].node = item
      BY <2>2 DEF CallsFor
    <3>3. QED
      BY <3>1, <3>2 DEF CallsMarked
  <2>4. ItemReport(journal, op, item) = "unknown_requires_review"
    BY <1>4, <1>5, <2>3, ReportFromWords
  <2>5. worker[r].outcome =
          IF <<op, item>> \in MovedItems THEN "moved_to_trash" ELSE "failed"
    <3>1. <<op, item>> \in MovedItems <=>
            \E i \in CallsFor(op, item) : trashed[i].moved
      BY DEF MovedItems, CallsFor
    <3>2. CASE worker[r].outcome = "moved_to_trash"
      BY <2>1, <3>1, <3>2 DEF HonestItem
    <3>3. CASE worker[r].outcome = "failed"
      BY <2>1, <3>1, <3>3 DEF HonestItem
    <3>4. QED
      BY <2>1, <3>2, <3>3
  <2>6. PICK to :
          to = IF <<op, item>> \in MovedItems THEN "moved_to_trash" ELSE "failed"
    OBVIOUS
  <2>7. Promise!Says(<<op, item>>, "unknown_requires_review", to)
    BY <1>9, <1>10, <1>12, <1>14, <2>4, <2>5, <2>6
  <2>8. QED
    BY <1>11, <2>6, <2>7, OneItemSays
<1>15. QED
  BY <1>13, <1>14, PendingIs DEF Appends

\* An append is a step of the promise, or tells nothing new.
LEMMA AppendImplements ==
  ASSUME NEW r \in Requests, NEW record, Appends(r, record)
  PROVE  Promise!Next \/ UNCHANGED PromiseVars
<1>1. record \in Records
  BY AppendsOwn
<1>2. record.kind \in {"intent", "skeleton", "dispatch", "outcome", "finalized"}
  BY <1>1 DEF Records, IntentRecord, SkeletonRecord, DispatchRecord,
              OutcomeRecord, FinalizedRecord
<1>3. CASE record.kind = "intent"
  BY <1>3, IntentAdmits
<1>4. CASE record.kind = "dispatch"
  BY <1>4, DispatchAnnounces
<1>5. CASE record.kind = "outcome"
  BY <1>5, OutcomeSettles
<1>6. CASE record.kind \in {"skeleton", "finalized"}
  BY <1>6, QuietAppend
<1>7. QED
  BY <1>2, <1>3, <1>4, <1>5, <1>6

\* Only a worker at its call adds to the calls.
LEMMA CallStep ==
  ASSUME [Next]_vars, trashed' # trashed
  PROVE  \E r \in Requests : MoveToTrash(r)
<1>1. ASSUME NEW r \in Requests,
             \/ RecordIntent(r) \/ RecordSkeleton(r) \/ RecordBlocked(r)
             \/ RecordDispatch(r) \/ RecordOutcome(r) \/ Finalize(r)
             \/ CheckReceipt(r) \/ AcquirePaths(r) \/ TakePlan(r) \/ Revalidate(r)
             \/ Summarise(r) \/ Reply(r) \/ Handle(r) \/ Disconnect(r)
      PROVE  UNCHANGED trashed
  BY <1>1 DEF RecordIntent, RecordSkeleton, RecordBlocked, RecordDispatch,
              RecordOutcome, Finalize, Record, CheckReceipt, AcquirePaths,
              AcquireUnless, TakePlan, Revalidate, Summarise, Reply, Handle,
              LookUpReceipt, SpawnWorker, Respond, Disconnect
<1>2. QED
  BY <1>1 DEF Next, vars, Work, CreatePlan, AcquireCommand, Touch, Crash, Idle

\* A call moves an announced item that was not moved before, or changes
\* nothing.
LEMMA CallMoves ==
  ASSUME TypeInv, OnceInv, Told, Readable(journal), NEW r \in Requests,
         MoveToTrash(r)
  PROVE  Promise!Next \/ UNCHANGED PromiseVars
<1>1. /\ worker[r].pc = "trash" /\ UNCHANGED journal
      /\ \E moved \in BOOLEAN :
           trashed' = Append(trashed, [op |-> Op(r), node |-> Item(r),
                                       moved |-> moved])
  BY DEF MoveToTrash
<1>2. PICK moved \in BOOLEAN :
        trashed' = Append(trashed, [op |-> Op(r), node |-> Item(r), moved |-> moved])
  BY <1>1
<1>3. /\ Taken(r) /\ worker[r].at \in DOMAIN worker[r].plan.nodes
      /\ CallsFor(Op(r), Item(r)) = {}
      /\ Item(r) \in Nodes /\ Op(r) \in Commands
  BY <1>1, NoCallYet, ItemType, OpType DEF ItemPcs
<1>4. PICK op \in Commands : op = Op(r)
  BY <1>3
<1>5. PICK item \in Nodes : item = Item(r)
  BY <1>3
<1>6. PICK x : x = <<op, item>>
  OBVIOUS
<1>7. x \notin MovedItems
  BY <1>3, <1>4, <1>5, <1>6 DEF MovedItems, CallsFor
<1>8. MovedItems' = MovedItems \cup IF moved THEN {x} ELSE {}
  <2>1. /\ DOMAIN trashed' = DOMAIN trashed \cup {Len(trashed) + 1}
        /\ trashed'[Len(trashed) + 1] = [op |-> op, node |-> item, moved |-> moved]
        /\ \A i \in DOMAIN trashed : trashed'[i] = trashed[i]
    BY <1>2, <1>4, <1>5 DEF TypeInv, TypeOK
  <2>2. QED
    BY <1>6, <2>1 DEF MovedItems
<1>9. [y \in Commands \X Nodes |-> Reported(y[1], y[2])'] =
        [y \in Commands \X Nodes |-> Reported(y[1], y[2])]
  BY <1>1 DEF Reported
<1>10. ReportOf(journal, op, item) = "unknown_requires_review"
  <2>1. /\ ReceiptsTold /\ WorkerTold(r)
        /\ PlanTold(journal, op, worker[r])
    BY <1>3, <1>4 DEF Told, WorkerTold
  <2>2. /\ Words(journal, op, item, {"dispatch"}) # {}
        /\ LinesOf(journal, op, {"finalized"}) = {}
    BY <1>1, <1>4, <1>5, <2>1 DEF WorkerTold, PlanTold
  <2>3. Words(journal, op, item, {"outcome"}) = {}
    <3>1. \A k \in DOMAIN worker[r].plan.nodes : k >= worker[r].at =>
            Words(journal, op, worker[r].plan.nodes[k], {"outcome"}) = {}
      BY <2>1 DEF PlanTold
    <3>2. worker[r].at >= worker[r].at
      BY DEF TypeInv, TypeOK, WorkerRecord
    <3>3. QED
      BY <1>3, <1>5, <3>1, <3>2 DEF Item
  <2>4. HasReceipt(journal, op)
    BY <1>1, <1>3, <1>4 DEF OnceInv, Noted, Announced
  <2>5. item \in ReceiptNodes(journal, op)
    <3>1. \A j \in LinesOf(journal, op, {"intent", "skeleton"}) :
            item \in journal[j].nodes
      BY <1>3, <1>5, <2>1 DEF PlanTold, NodesOf, Item
    <3>2. journal \in Seq(Lines)
      BY DEF TypeInv, TypeOK
    <3>3. QED
      BY <2>4, <3>1, <3>2, OpeningIs DEF ReceiptNodes
  <2>6. ItemReport(journal, op, item) = "unknown_requires_review"
    <3>1. journal \in Seq(Lines)
      BY DEF TypeInv, TypeOK
    <3>2. Ordered(journal, op) /\ SaidLast(journal, op, item)
      BY <2>1 DEF ReceiptsTold, OpenedFirst, OutcomesLast, SaidLast
    <3>3. QED
      BY <2>2, <2>3, <2>4, <3>1, <3>2, ReportFromWords
  <2>7. QED
    BY <2>4, <2>5, <2>6 DEF ReportOf
<1>11. CASE moved
  <2> DEFINE now == [y \in Commands \X Nodes |-> Reported(y[1], y[2])]
             next == [y \in Commands \X Nodes |-> Reported(y[1], y[2])']
  <2>1. now[x] = "unknown_requires_review"
    BY <1>6, <1>10, ReportedIs
  <2>2. x \in Promise!Items
    BY <1>6 DEF Promise!Items
  <2>3. MovedItems' = MovedItems \cup {x}
    BY <1>8, <1>11
  <2>4. next = now
    BY <1>9
  <2>5. Promise!Move(x)
    BY <1>7, <2>1, <2>3, <2>4, Zenon DEF Promise!Move
  <2>6. Promise!Open(x)
    BY <2>1, Zenon DEF Promise!Open
  <2>7. QED
    BY <2>2, <2>5, <2>6, Zenon DEF Promise!Next
<1>12. CASE ~moved
  BY <1>8, <1>9, <1>12 DEF PromiseVars
<1>13. QED
  BY <1>11, <1>12

\* With faults that leave no part of a record in the file, the journal can
\* always be read.
WholeLines == ended /\ Readable(journal)

LEMMA WholeAppend ==
  ASSUME NEW lines \in Seq(Lines), Readable(lines), NEW record \in Records
  PROVE  /\ GoodAppend(lines, TRUE, record).ended
         /\ Readable(GoodAppend(lines, TRUE, record).lines)
         /\ \A fault \in {"refused", "unsynced"} :
              /\ FaultyAppend(lines, TRUE, record, fault).ended
              /\ Readable(FaultyAppend(lines, TRUE, record, fault).lines)
<1>1. record # Torn
  BY DEF Records, IntentRecord, SkeletonRecord, DispatchRecord, OutcomeRecord,
         FinalizedRecord, Torn
<1>2. Readable(Append(lines, record))
  BY <1>1, LinesAppend DEF Readable
<1>3. QED
  BY <1>2 DEF GoodAppend, FaultyAppend, Written

LEMMA StaysWhole ==
  ASSUME FaultSet \subseteq {"refused", "unsynced"}, TypeInv, WholeLines,
         [Next]_vars
  PROVE  WholeLines'
<1>1. journal \in Seq(Lines) /\ ended = TRUE /\ Readable(journal)
  BY DEF TypeInv, TypeOK, WholeLines
<1>2. CASE UNCHANGED <<journal, ended>>
  BY <1>2 DEF WholeLines
<1>3. ASSUME NEW r \in Requests, NEW record \in PendingRecord(r),
             \/ /\ journal' = GoodAppend(journal, ended, record).lines
                /\ ended' = GoodAppend(journal, ended, record).ended
             \/ \E fault \in FaultSet :
                  /\ journal' = FaultyAppend(journal, ended, record, fault).lines
                  /\ ended' = FaultyAppend(journal, ended, record, fault).ended
      PROVE  WholeLines'
  <2>1. record \in Records
    BY <1>3, PendingIs
  <2>2. QED
    BY <1>1, <1>3, <2>1, WholeAppend DEF WholeLines
<1>4. QED
  BY <1>2, <1>3, AppendStep

LEMMA PromiseInitially ==
  ASSUME Init
  PROVE  Promise!Init
<1>1. journal = <<>> /\ trashed = <<>>
  BY DEF Init
<1>2. \A op, n : Reported(op, n) = "absent"
  BY <1>1 DEF Reported, HasReceipt, LinesOf
<1>3. [x \in Commands \X Nodes |-> Reported(x[1], x[2])] =
        [x \in Commands \X Nodes |-> "absent"]
  BY <1>2
<1>4. MovedItems = {}
  BY <1>1 DEF MovedItems
<1>5. QED
  BY <1>3, <1>4, Zenon DEF Promise!Init, Promise!Items

LEMMA PromiseStep ==
  ASSUME TypeInv, LastLine, OnceInv, Told, Told', Readable(journal'), [Next]_vars
  PROVE  Promise!Next \/ UNCHANGED PromiseVars
<1>1. Readable(journal)
  <2>1. CASE journal' # journal
    BY <2>1, ReadableStep
  <2>2. QED
    BY <2>1
<1>2. CASE journal' # journal
  <2>1. /\ UNCHANGED trashed
        /\ \E r \in Requests : \E record \in PendingRecord(r) :
             journal' = Append(journal, record)
    BY <1>2, ReadableStep
  <2>2. PICK r \in Requests : \E record \in PendingRecord(r) :
          journal' = Append(journal, record)
    BY <2>1
  <2>3. PICK record \in PendingRecord(r) : journal' = Append(journal, record)
    BY <2>2
  <2>4. Appends(r, record)
    BY <1>1, <2>1, <2>3 DEF Appends
  <2>5. QED
    BY <2>4, AppendImplements
<1>3. CASE trashed' # trashed
  BY <1>1, <1>3, CallStep, CallMoves
<1>4. CASE journal' = journal /\ trashed' = trashed
  BY <1>4, SilentStep
<1>5. QED
  BY <1>2, <1>3, <1>4

\* With any faults: for as long as the journal can be read, every step takes
\* what the receipts say of the items forward as CleanupPromise allows, or
\* changes nothing in it.  (execute_cleanup_record and build_cleanup_receipts)
THEOREM PromiseWhileReadable ==
  ASSUME OnePlanPerCommand
  PROVE  Spec => [][Readable(journal') => [Promise!Next]_PromiseVars]_vars
<1>1. TypeInv /\ LastLine /\ OnceInv /\ Told /\ Told' /\ [Next]_vars =>
        [Readable(journal') => [Promise!Next]_PromiseVars]_vars
  BY PromiseStep
<1>2. QED
  BY AlwaysTold, <1>1, PTL DEF Spec

\* As long as no fault leaves a part of a record in the file, what the
\* receipts say of an item goes only forward, from pending over announced to
\* its true outcome, and a file is moved only after it was announced, once;
\* whatever is retried, disconnected or crashes in between.
\* (execute_cleanup_record and build_cleanup_receipts)
THEOREM CleanupKeepsPromise ==
  ASSUME OnePlanPerCommand, FaultSet \subseteq {"refused", "unsynced"}
  PROVE  Spec => ImplementsPromise
<1>1. Init => WholeLines
  BY DEF Init, WholeLines, Readable
<1>2. TypeInv /\ WholeLines /\ [Next]_vars => WholeLines'
  BY StaysWhole
<1>3. TypeInv /\ LastLine /\ OnceInv /\ Told /\ Told' /\ WholeLines' /\ [Next]_vars
        => [Promise!Next]_PromiseVars
  BY PromiseStep DEF WholeLines
<1>4. QED
  BY AlwaysTold, PromiseInitially, <1>1, <1>2, <1>3, PTL
     DEF Spec, ImplementsPromise, Promise!Spec, PromiseVars

-----------------------------------------------------------------------------
(* The fold of build_cleanup_receipts *)

\* What FoldLeft computes, as an equation for the receipts of every set of
\* places.
Iterates(g, lines) ==
  g = [s \in SUBSET DOMAIN lines |->
         IF s = {} THEN NoReceipts
         ELSE Absorb(g[s \ {Max(s)}], lines[Max(s)])]

\* The receipts before their review, said without the fold of the records at
\* the places s only.
Within(lines, s, op, kinds) == LinesOf(lines, op, kinds) \cap s

OpenedAt(lines, s, op) ==
  LET skeletons == Within(lines, s, op, {"skeleton"})
  IN IF skeletons # {} THEN Max(skeletons)
                       ELSE Min(Within(lines, s, op, {"intent"}))

Since(lines, s, op, kinds) ==
  {i \in Within(lines, s, op, kinds) : i > OpenedAt(lines, s, op)}

About(lines, s, op, node) ==
  {i \in Since(lines, s, op, {"dispatch", "outcome"}) : lines[i].node = node}

ItemAccount(lines, s, op, node) ==
  LET last == lines[Max(About(lines, s, op, node))]
  IN IF About(lines, s, op, node) = {} THEN "pending"
     ELSE IF last.kind = "dispatch" THEN "dispatch_recorded" ELSE last.state

StateAccount(lines, s, op) ==
  LET changes == Since(lines, s, op, {"dispatch", "finalized"})
      last == lines[Max(changes)]
  IN IF changes = {} THEN OpeningState[lines[OpenedAt(lines, s, op)].kind]
     ELSE IF last.kind = "dispatch" THEN "running" ELSE last.state

Account(lines, s, op) ==
  [state |-> StateAccount(lines, s, op),
   items |-> [n \in lines[OpenedAt(lines, s, op)].nodes |->
                ItemAccount(lines, s, op, n)]]

Opened(lines, s) ==
  {op \in Commands : Within(lines, s, op, {"intent", "skeleton"}) # {}}

Accounts(lines, s) == [op \in Opened(lines, s) |-> Account(lines, s, op)]

\* FoldLeft is the solution of that equation at all places.
LEMMA FoldIs ==
  ASSUME NEW lines
  PROVE  FoldLeft(Absorb, NoReceipts, lines) =
           (CHOOSE g : Iterates(g, lines))[DOMAIN lines]
BY DEF FoldLeft, MapThenFoldSet, Iterates

\* A place after all of a set is its last one, and never the first unless the
\* set is empty.
LEMMA NewLast ==
  ASSUME NEW n \in Nat, NEW S \in SUBSET (1 .. n), NEW x \in 1 .. n,
         \A y \in S : y < x
  PROVE  /\ Max(S \cup {x}) = x
         /\ S # {} => Min(S \cup {x}) = Min(S)
<1>1. Max(S \cup {x}) = x
  <2>1. \A y \in S \cup {x} : x >= y
    OBVIOUS
  <2>2. \A z \in S \cup {x} : (\A y \in S \cup {x} : z >= y) => z = x
    OBVIOUS
  <2>3. QED
    BY <2>1, <2>2 DEF Max
<1>2. ASSUME S # {} PROVE Min(S \cup {x}) = Min(S)
  <2>1. PICK z \in S : \A y \in S : z <= y
    <3>1. S \subseteq Nat
      OBVIOUS
    <3>2. PICK z \in S : \A y \in S : ~(<<y, z>> \in OpToRel(<, Nat))
      BY <1>2, <3>1, NatLessThanWellFounded, WFMin
    <3>3. \A y \in S : ~(y < z)
      BY <3>1, <3>2 DEF OpToRel
    <3>4. QED
      BY <3>3
  <2>2. \A T \in SUBSET (1 .. n) :
          z \in T /\ (\A y \in T : z <= y) => Min(T) = z
    <3>1. SUFFICES ASSUME NEW T \in SUBSET (1 .. n), z \in T,
                          \A y \in T : z <= y
                   PROVE  Min(T) = z
      OBVIOUS
    <3>2. \A w \in T : (\A y \in T : w <= y) => w = z
      BY <3>1
    <3>3. QED
      BY <3>1, <3>2 DEF Min
  <2>3. Min(S) = z /\ Min(S \cup {x}) = z
    BY <2>1, <2>2
  <2>4. QED
    BY <2>3
<1>3. QED
  BY <1>1, <1>2

\* The records of other operations change nothing.
LEMMA OtherAccount ==
  ASSUME NEW lines \in Seq(Records), NEW s \in SUBSET DOMAIN lines,
         NEW x \in DOMAIN lines, NEW op, op # lines[x].op
  PROVE  /\ Account(lines, s \cup {x}, op) = Account(lines, s, op)
         /\ \A kinds : Within(lines, s \cup {x}, op, kinds) =
                         Within(lines, s, op, kinds)
<1>1. \A kinds : Within(lines, s \cup {x}, op, kinds) =
                   Within(lines, s, op, kinds)
  BY DEF Within, LinesOf
<1>2. OpenedAt(lines, s \cup {x}, op) = OpenedAt(lines, s, op)
  BY <1>1 DEF OpenedAt
<1>3. ASSUME NEW kinds
      PROVE  Since(lines, s \cup {x}, op, kinds) = Since(lines, s, op, kinds)
  <2>1. Within(lines, s \cup {x}, op, kinds) = Within(lines, s, op, kinds)
    BY <1>1
  <2>2. QED
    BY <1>2, <2>1 DEF Since
<1>4. ASSUME NEW n
      PROVE  ItemAccount(lines, s \cup {x}, op, n) =
               ItemAccount(lines, s, op, n)
  <2>1. About(lines, s \cup {x}, op, n) = About(lines, s, op, n)
    BY <1>3 DEF About
  <2>2. QED
    BY <2>1 DEF ItemAccount
<1>5. StateAccount(lines, s \cup {x}, op) = StateAccount(lines, s, op)
  BY <1>2, <1>3 DEF StateAccount
<1>6. QED
  BY <1>1, <1>2, <1>4, <1>5 DEF Account

\* A record that opens a receipt.
LEMMA OpensAccount ==
  ASSUME NEW lines \in Seq(Records), NEW s \in SUBSET DOMAIN lines,
         NEW x \in DOMAIN lines, \A y \in s : y < x,
         \/ lines[x].kind = "skeleton"
         \/ lines[x].kind = "intent" /\ lines[x].op \notin Opened(lines, s)
  PROVE  Account(lines, s \cup {x}, lines[x].op) =
           Accumulator(OpeningState[lines[x].kind], lines[x].nodes)
<1> DEFINE op == lines[x].op
           t == s \cup {x}
           n == Len(lines)
<1>1. n \in Nat /\ DOMAIN lines = 1 .. n
  OBVIOUS
<1>2. op \in Commands
  BY DEF Records, IntentRecord, SkeletonRecord, DispatchRecord, OutcomeRecord,
         FinalizedRecord
<1>3. \A kinds : Within(lines, s, op, kinds) \in SUBSET (1 .. n)
                   /\ \A y \in Within(lines, s, op, kinds) : y < x
  BY <1>1 DEF Within
<1>4. OpenedAt(lines, t, op) = x
  <2>1. CASE lines[x].kind = "skeleton"
    <3>1. Within(lines, t, op, {"skeleton"}) =
            Within(lines, s, op, {"skeleton"}) \cup {x}
      BY <2>1 DEF Within, LinesOf
    <3>2. Max(Within(lines, s, op, {"skeleton"}) \cup {x}) = x
      BY <1>1, <1>3, NewLast
    <3>3. QED
      BY <3>1, <3>2 DEF OpenedAt
  <2>2. CASE lines[x].kind = "intent" /\ op \notin Opened(lines, s)
    <3>1. Within(lines, s, op, {"intent"}) = {}
          /\ Within(lines, s, op, {"skeleton"}) = {}
      BY <1>2, <2>2 DEF Opened, Within, LinesOf
    <3>2. Within(lines, t, op, {"intent"}) = {x}
      <4>1. Within(lines, t, op, {"intent"}) =
              Within(lines, s, op, {"intent"}) \cup {x}
        BY <2>2 DEF Within, LinesOf
      <4>2. QED
        BY <3>1, <4>1
    <3>3. Within(lines, t, op, {"skeleton"}) = {}
      <4>1. Within(lines, t, op, {"skeleton"}) =
              Within(lines, s, op, {"skeleton"})
        BY <2>2 DEF Within, LinesOf
      <4>2. QED
        BY <3>1, <4>1
    <3>4. Min({x}) = x
      BY <1>1 DEF Min
    <3>5. QED
      BY <3>2, <3>3, <3>4 DEF OpenedAt
  <2>3. QED
    BY <2>1, <2>2
<1>5. \A kinds : Since(lines, t, op, kinds) = {}
  BY <1>1, <1>3, <1>4 DEF Since, Within
<1>6. \A m : ItemAccount(lines, t, op, m) = "pending"
  BY <1>5 DEF ItemAccount, About
<1>7. StateAccount(lines, t, op) = OpeningState[lines[x].kind]
  BY <1>4, <1>5 DEF StateAccount
<1>8. QED
  BY <1>4, <1>6, <1>7 DEF Account, Accumulator

\* A record that does not open a receipt leaves it open where it was.
LEMMA StaysOpened ==
  ASSUME NEW lines \in Seq(Records), NEW s \in SUBSET DOMAIN lines,
         NEW x \in DOMAIN lines, \A y \in s : y < x,
         lines[x].kind # "skeleton", lines[x].op \in Opened(lines, s)
  PROVE  /\ OpenedAt(lines, s \cup {x}, lines[x].op) =
              OpenedAt(lines, s, lines[x].op)
         /\ OpenedAt(lines, s, lines[x].op) \in s
<1> DEFINE op == lines[x].op
           t == s \cup {x}
           n == Len(lines)
<1>1. n \in Nat /\ DOMAIN lines = 1 .. n
  OBVIOUS
<1>2. \A kinds : Within(lines, s, op, kinds) \in SUBSET (1 .. n)
                   /\ \A y \in Within(lines, s, op, kinds) : y < x
  BY <1>1 DEF Within
<1>3. Within(lines, t, op, {"skeleton"}) = Within(lines, s, op, {"skeleton"})
  <2>1. lines[x].kind \notin {"skeleton"}
    OBVIOUS
  <2>2. QED
    BY <2>1 DEF Within, LinesOf
<1>4. CASE Within(lines, s, op, {"skeleton"}) # {}
  <2>1. Max(Within(lines, s, op, {"skeleton"})) \in s
    <3>1. Max(Within(lines, s, op, {"skeleton"})) \in
            Within(lines, s, op, {"skeleton"})
      BY <1>1, <1>2, <1>4, FirstAndLast
    <3>2. QED
      BY <3>1 DEF Within
  <2>2. QED
    BY <1>3, <1>4, <2>1 DEF OpenedAt
<1>5. CASE Within(lines, s, op, {"skeleton"}) = {}
  <2> DEFINE I == Within(lines, s, op, {"intent"})
  <2>1. I # {}
    BY <1>5 DEF Opened, Within, LinesOf
  <2>2. Min(I) \in s
    <3>1. Min(I) \in I
      BY <1>1, <1>2, <2>1, FirstAndLast
    <3>2. QED
      BY <3>1 DEF Within
  <2>3. Min(I \cup {x}) = Min(I)
    BY <1>1, <1>2, <2>1, NewLast
  <2>4. Within(lines, t, op, {"intent"}) = I
        \/ Within(lines, t, op, {"intent"}) = I \cup {x}
    <3>1. CASE lines[x].kind \in {"intent"}
      BY <3>1 DEF Within, LinesOf
    <3>2. CASE lines[x].kind \notin {"intent"}
      BY <3>2 DEF Within, LinesOf
    <3>3. QED
      BY <3>1, <3>2
  <2>5. QED
    BY <1>3, <1>5, <2>2, <2>3, <2>4 DEF OpenedAt
<1>6. QED
  BY <1>4, <1>5

\* A record about an open receipt.
LEMMA ChangesAccount ==
  ASSUME NEW lines \in Seq(Records), NEW s \in SUBSET DOMAIN lines,
         NEW x \in DOMAIN lines, \A y \in s : y < x,
         lines[x].kind # "skeleton", lines[x].op \in Opened(lines, s)
  PROVE  LET op == lines[x].op
             kind == lines[x].kind
         IN /\ StateAccount(lines, s \cup {x}, op) =
                 CASE kind = "dispatch" -> "running"
                   [] kind = "finalized" -> lines[x].state
                   [] OTHER -> StateAccount(lines, s, op)
            /\ \A m : ItemAccount(lines, s \cup {x}, op, m) =
                 CASE kind = "dispatch" /\ lines[x].node = m ->
                        "dispatch_recorded"
                   [] kind = "outcome" /\ lines[x].node = m -> lines[x].state
                   [] OTHER -> ItemAccount(lines, s, op, m)
<1> DEFINE op == lines[x].op
           kind == lines[x].kind
           t == s \cup {x}
           n == Len(lines)
<1>1. n \in Nat /\ DOMAIN lines = 1 .. n
  OBVIOUS
<1>2. OpenedAt(lines, t, op) = OpenedAt(lines, s, op)
      /\ OpenedAt(lines, s, op) \in s
  BY StaysOpened
<1>3. \A kinds : /\ Since(lines, s, op, kinds) \in SUBSET (1 .. n)
                 /\ \A y \in Since(lines, s, op, kinds) : y < x
  BY <1>1 DEF Since, Within
<1>4. ASSUME NEW kinds
      PROVE  Since(lines, t, op, kinds) =
               IF kind \in kinds THEN Since(lines, s, op, kinds) \cup {x}
               ELSE Since(lines, s, op, kinds)
  <2>1. x > OpenedAt(lines, s, op)
    BY <1>1, <1>2
  <2>2. CASE kind \in kinds
    <3>1. Within(lines, t, op, kinds) = Within(lines, s, op, kinds) \cup {x}
      BY <2>2 DEF Within, LinesOf
    <3>2. QED
      BY <1>2, <2>1, <2>2, <3>1 DEF Since
  <2>3. CASE kind \notin kinds
    <3>1. Within(lines, t, op, kinds) = Within(lines, s, op, kinds)
      BY <2>3 DEF Within, LinesOf
    <3>2. QED
      BY <1>2, <2>3, <3>1 DEF Since
  <2>4. QED
    BY <2>2, <2>3
<1>5. StateAccount(lines, t, op) =
        CASE kind = "dispatch" -> "running"
          [] kind = "finalized" -> lines[x].state
          [] OTHER -> StateAccount(lines, s, op)
  <2> DEFINE C(v) == Since(lines, v, op, {"dispatch", "finalized"})
  <2>1. CASE kind \in {"dispatch", "finalized"}
    <3>1. C(t) = C(s) \cup {x}
      BY <1>4, <2>1
    <3>2. Max(C(s) \cup {x}) = x
      BY <1>1, <1>3, NewLast
    <3>3. QED
      BY <2>1, <3>1, <3>2 DEF StateAccount
  <2>2. CASE kind \notin {"dispatch", "finalized"}
    <3>1. C(t) = C(s)
      BY <1>4, <2>2
    <3>2. QED
      BY <1>2, <2>2, <3>1 DEF StateAccount
  <2>3. QED
    BY <2>1, <2>2
<1>6. ASSUME NEW m
      PROVE  ItemAccount(lines, t, op, m) =
        CASE kind = "dispatch" /\ lines[x].node = m -> "dispatch_recorded"
          [] kind = "outcome" /\ lines[x].node = m -> lines[x].state
          [] OTHER -> ItemAccount(lines, s, op, m)
  <2>1. About(lines, s, op, m) \in SUBSET (1 .. n)
        /\ \A y \in About(lines, s, op, m) : y < x
    BY <1>3 DEF About
  <2>2. CASE kind \in {"dispatch", "outcome"} /\ lines[x].node = m
    <3>1. About(lines, t, op, m) = About(lines, s, op, m) \cup {x}
      BY <1>4, <2>2 DEF About
    <3>2. Max(About(lines, s, op, m) \cup {x}) = x
      BY <1>1, <2>1, NewLast
    <3>3. QED
      BY <2>2, <3>1, <3>2 DEF ItemAccount
  <2>3. CASE ~(kind \in {"dispatch", "outcome"} /\ lines[x].node = m)
    <3>1. About(lines, t, op, m) = About(lines, s, op, m)
      BY <1>4, <2>3 DEF About
    <3>2. QED
      BY <2>3, <3>1 DEF ItemAccount
  <2>4. QED
    BY <2>2, <2>3
<1>7. QED
  BY <1>5, <1>6

\* With one more record, the receipts are those build_cleanup_receipts makes.
LEMMA OneMoreRecord ==
  ASSUME NEW lines \in Seq(Records), NEW s \in SUBSET DOMAIN lines,
         NEW x \in DOMAIN lines, \A y \in s : y < x
  PROVE  Accounts(lines, s \cup {x}) = Absorb(Accounts(lines, s), lines[x])
<1> DEFINE op == lines[x].op
           kind == lines[x].kind
           t == s \cup {x}
           A == Accounts(lines, s)
<1>1. lines[x] \in Records
  OBVIOUS
<1>2. op \in Commands /\ kind \in {"intent", "skeleton", "dispatch",
                                   "outcome", "finalized"}
  BY <1>1 DEF Records, IntentRecord, SkeletonRecord, DispatchRecord,
              OutcomeRecord, FinalizedRecord
<1>3. \A c : c # op => /\ Account(lines, t, c) = Account(lines, s, c)
                       /\ c \in Opened(lines, t) <=> c \in Opened(lines, s)
  <2> SUFFICES ASSUME NEW c, c # op
               PROVE  /\ Account(lines, t, c) = Account(lines, s, c)
                      /\ c \in Opened(lines, t) <=> c \in Opened(lines, s)
    OBVIOUS
  <2>1. Account(lines, t, c) = Account(lines, s, c)
    BY OtherAccount
  <2>2. Within(lines, t, c, {"intent", "skeleton"}) =
          Within(lines, s, c, {"intent", "skeleton"})
    BY DEF Within, LinesOf
  <2>3. QED
    BY <2>1, <2>2 DEF Opened
<1>4. DOMAIN A = Opened(lines, s) /\ \A c \in Opened(lines, s) :
        A[c] = Account(lines, s, c)
  BY DEF Accounts
<1>5. Known(A, op) <=> op \in Opened(lines, s)
  BY <1>4 DEF Known
<1>6. ASSUME NEW receipt,
             op \in Opened(lines, t), Account(lines, t, op) = receipt
      PROVE  Accounts(lines, t) = Put(A, op, receipt)
  <2>1. Opened(lines, t) = Opened(lines, s) \cup {op}
    BY <1>3, <1>6
  <2>2. \A c \in Opened(lines, t) :
          Account(lines, t, c) = IF c = op THEN receipt ELSE A[c]
    BY <1>3, <1>4, <1>6
  <2>3. QED
    BY <1>4, <2>1, <2>2 DEF Put, Accounts
<1>7. ASSUME op \in Opened(lines, t) <=> op \in Opened(lines, s),
             op \in Opened(lines, s) =>
               Account(lines, t, op) = Account(lines, s, op)
      PROVE  Accounts(lines, t) = A
  <2>1. Opened(lines, t) = Opened(lines, s)
    BY <1>3, <1>7 DEF Opened
  <2>2. \A c \in Opened(lines, t) :
          Account(lines, t, c) = Account(lines, s, c)
    BY <1>3, <1>7, <2>1
  <2>3. QED
    BY <2>1, <2>2 DEF Accounts
<1>8. op \in Opened(lines, t) <=>
        op \in Opened(lines, s) \/ kind \in {"intent", "skeleton"}
  BY <1>2 DEF Opened, Within, LinesOf
<1>9. CASE \/ kind = "skeleton"
           \/ kind = "intent" /\ op \notin Opened(lines, s)
  <2>1. Account(lines, t, op) =
          Accumulator(OpeningState[kind], lines[x].nodes)
    BY <1>9, OpensAccount
  <2>2. Accounts(lines, t) =
          Put(A, op, Accumulator(OpeningState[kind], lines[x].nodes))
    BY <1>6, <1>8, <1>9, <2>1
  <2>3. CASE kind = "skeleton"
    BY <2>2, <2>3 DEF Absorb, OpeningState
  <2>4. CASE kind = "intent" /\ op \notin Opened(lines, s)
    BY <1>5, <2>2, <2>4 DEF Absorb, OpeningState
  <2>5. QED
    BY <1>9, <2>3, <2>4
<1>10. CASE kind \notin {"intent", "skeleton"} /\ op \notin Opened(lines, s)
  <2>1. Accounts(lines, t) = A
    BY <1>7, <1>8, <1>10
  <2>2. QED
    BY <1>2, <1>5, <1>10, <2>1 DEF Absorb
<1>11. CASE kind # "skeleton" /\ op \in Opened(lines, s)
  <2> DEFINE receipt == Account(lines, s, op)
  <2>1. A[op] = receipt
    BY <1>4, <1>11
  <2>2. lines[OpenedAt(lines, t, op)].nodes = lines[OpenedAt(lines, s, op)].nodes
    BY <1>11, StaysOpened
  <2>3. /\ StateAccount(lines, t, op) =
              CASE kind = "dispatch" -> "running"
                [] kind = "finalized" -> lines[x].state
                [] OTHER -> StateAccount(lines, s, op)
        /\ \A m : ItemAccount(lines, t, op, m) =
              CASE kind = "dispatch" /\ lines[x].node = m ->
                     "dispatch_recorded"
                [] kind = "outcome" /\ lines[x].node = m -> lines[x].state
                [] OTHER -> ItemAccount(lines, s, op, m)
    BY <1>11, ChangesAccount
  <2>4. op \in Opened(lines, t)
    BY <1>8, <1>11
  <2>5. CASE kind = "intent"
    <3>1. Account(lines, t, op) = receipt
      BY <2>2, <2>3, <2>5 DEF Account
    <3>2. Accounts(lines, t) = A
      BY <1>7, <1>11, <2>4, <3>1
    <3>3. QED
      BY <1>5, <1>11, <2>5, <3>2 DEF Absorb
  <2>6. CASE kind = "dispatch"
    <3>1. StateAccount(lines, t, op) = "running"
      BY <2>3, <2>6
    <3>2. \A m : ItemAccount(lines, t, op, m) =
                   IF lines[x].node = m THEN "dispatch_recorded"
                   ELSE ItemAccount(lines, s, op, m)
      BY <2>3, <2>6
    <3>3. Account(lines, t, op) =
            [state |-> "running",
             items |-> WithItem(receipt, lines[x].node,
                                "dispatch_recorded").items]
      BY <2>2, <3>1, <3>2 DEF Account, WithItem
    <3>4. Account(lines, t, op) =
            [WithItem(receipt, lines[x].node, "dispatch_recorded")
               EXCEPT !.state = "running"]
      <4> DEFINE W == WithItem(receipt, lines[x].node, "dispatch_recorded")
      <4>1. W = [state |-> W.state, items |-> W.items]
        BY DEF Account, WithItem
      <4> HIDE DEF W
      <4>2. [W EXCEPT !.state = "running"] =
              [state |-> "running", items |-> W.items]
        BY <4>1
      <4>3. QED
        BY <3>3, <4>2 DEF W
    <3>5. QED
      BY <1>5, <1>6, <1>11, <2>1, <2>4, <2>6, <3>4 DEF Absorb
  <2>7. CASE kind = "outcome"
    <3>1. Account(lines, t, op) =
            WithItem(receipt, lines[x].node, lines[x].state)
      BY <2>2, <2>3, <2>7 DEF Account, WithItem
    <3>2. QED
      BY <1>5, <1>6, <1>11, <2>1, <2>4, <2>7, <3>1 DEF Absorb
  <2>8. CASE kind = "finalized"
    <3>1. StateAccount(lines, t, op) = lines[x].state
      BY <2>3, <2>8
    <3>2. \A m : ItemAccount(lines, t, op, m) = ItemAccount(lines, s, op, m)
      BY <2>3, <2>8
    <3>3. Account(lines, t, op) = [receipt EXCEPT !.state = lines[x].state]
      <4>1. Account(lines, t, op) =
              [state |-> lines[x].state, items |-> receipt.items]
        BY <2>2, <3>1, <3>2 DEF Account
      <4>2. receipt = [state |-> receipt.state, items |-> receipt.items]
        BY DEF Account
      <4> HIDE DEF receipt
      <4>3. [receipt EXCEPT !.state = lines[x].state] =
              [state |-> lines[x].state, items |-> receipt.items]
        BY <4>2
      <4>4. QED
        BY <4>1, <4>3
    <3>4. QED
      BY <1>5, <1>6, <1>11, <2>1, <2>4, <2>8, <3>3 DEF Absorb
  <2>9. QED
    BY <1>2, <1>11, <2>5, <2>6, <2>7, <2>8
<1>12. \/ kind = "skeleton"
       \/ kind = "intent" /\ op \notin Opened(lines, s)
       \/ kind \notin {"intent", "skeleton"} /\ op \notin Opened(lines, s)
       \/ kind # "skeleton" /\ op \in Opened(lines, s)
  BY <1>2
<1>13. QED
  BY <1>9, <1>10, <1>11, <1>12

\* No records make no receipts.
LEMMA NoRecords ==
  ASSUME NEW lines
  PROVE  Accounts(lines, {}) = NoReceipts
BY DEF Accounts, Opened, Within, NoReceipts

\* The receipts of all sets of places solve the equation of the fold, and
\* every solution has them at the first places.
LEMMA FoldTells ==
  ASSUME NEW lines \in Seq(Records)
  PROVE  FoldLeft(Absorb, NoReceipts, lines) = Accounts(lines, DOMAIN lines)
<1> DEFINE n == Len(lines)
           h == [s \in SUBSET DOMAIN lines |-> Accounts(lines, s)]
           g == CHOOSE f : Iterates(f, lines)
<1>1. n \in Nat /\ DOMAIN lines = 1 .. n
  OBVIOUS
<1>2. Iterates(h, lines)
  <2> SUFFICES ASSUME NEW s \in SUBSET DOMAIN lines
               PROVE  h[s] = IF s = {} THEN NoReceipts
                             ELSE Absorb(h[s \ {Max(s)}], lines[Max(s)])
    BY DEF Iterates
  <2>1. CASE s = {}
    BY <2>1, NoRecords
  <2>2. CASE s # {}
    <3> DEFINE x == Max(s)
    <3>1. x \in s /\ \A y \in s : y <= x
      BY <1>1, <2>2, FirstAndLast
    <3> HIDE DEF x
    <3>2. s \ {x} \in SUBSET DOMAIN lines /\ x \in DOMAIN lines
          /\ (s \ {x}) \cup {x} = s
      BY <3>1
    <3>3. \A y \in s \ {x} : y < x
      BY <1>1, <3>1, <3>2
    <3>4. Accounts(lines, s) = Absorb(Accounts(lines, s \ {x}), lines[x])
      <4> DEFINE r == s \ {x}
      <4>1. r \in SUBSET DOMAIN lines /\ \A y \in r : y < x
        BY <3>2, <3>3
      <4> HIDE DEF r
      <4>2. Accounts(lines, r \cup {x}) = Absorb(Accounts(lines, r), lines[x])
        BY <3>2, <4>1, OneMoreRecord
      <4>3. QED
        BY <3>2, <4>2 DEF r
    <3>5. h[s] = Accounts(lines, s) /\ h[s \ {x}] = Accounts(lines, s \ {x})
      BY <3>2
    <3>6. QED
      BY <2>2, <3>4, <3>5 DEF x
  <2>3. QED
    BY <2>1, <2>2
<1>3. Iterates(g, lines)
  BY <1>2
<1> HIDE DEF g
<1>4. \A k \in Nat : k <= n => g[1 .. k] = Accounts(lines, 1 .. k)
  <2> DEFINE Wrong == {k \in Nat : k <= n /\ g[1 .. k] # Accounts(lines, 1 .. k)}
  <2> SUFFICES ASSUME Wrong # {} PROVE FALSE
    OBVIOUS
  <2>1. Wrong \in SUBSET Nat
    OBVIOUS
  <2> HIDE DEF Wrong
  <2>2. PICK k \in Wrong : \A y \in Wrong : ~(<<y, k>> \in OpToRel(<, Nat))
    BY <2>1, NatLessThanWellFounded, WFMin
  <2>3. \A y \in Wrong : ~(y < k)
    BY <2>1, <2>2 DEF OpToRel
  <2> USE DEF Wrong
  <2>4. k \in Nat /\ k <= n /\ g[1 .. k] # Accounts(lines, 1 .. k)
    BY <2>2
  <2>5. k # 0
    <3>1. SUFFICES ASSUME k = 0 PROVE FALSE
      OBVIOUS
    <3>2. 1 .. k = {}
      BY <3>1
    <3>3. g[{}] = NoReceipts
      BY <1>3 DEF Iterates
    <3>4. QED
      BY <2>4, <3>2, <3>3, NoRecords
  <2>6. k - 1 \in Nat /\ k - 1 < k /\ k - 1 <= n
    BY <1>1, <2>4, <2>5
  <2>7. g[1 .. (k - 1)] = Accounts(lines, 1 .. (k - 1))
    BY <2>3, <2>6
  <2>8. Max(1 .. k) = k
    BY <2>4, <2>5 DEF Max
  <2>9. (1 .. k) \ {k} = 1 .. (k - 1) /\ 1 .. k = (1 .. (k - 1)) \cup {k}
        /\ 1 .. k # {}
    <3>1. \A y : y \in (1 .. k) \ {k} <=> y \in 1 .. (k - 1)
      BY <2>4, <2>5
    <3>2. k \in 1 .. k
      BY <2>4, <2>5
    <3>3. (1 .. k) \ {k} = 1 .. (k - 1)
      BY <3>1, Zenon
    <3>4. QED
      BY <3>2, <3>3
  <2>10. 1 .. k \in SUBSET DOMAIN lines /\ 1 .. (k - 1) \in SUBSET DOMAIN lines
         /\ k \in DOMAIN lines /\ \A y \in 1 .. (k - 1) : y < k
    BY <1>1, <2>4, <2>5
  <2>11. g[1 .. k] = Absorb(g[1 .. (k - 1)], lines[k])
    BY <1>3, <2>8, <2>9, <2>10 DEF Iterates
  <2>12. Accounts(lines, (1 .. (k - 1)) \cup {k}) =
           Absorb(Accounts(lines, 1 .. (k - 1)), lines[k])
    BY <2>10, OneMoreRecord
  <2>13. QED
    BY <2>4, <2>7, <2>9, <2>11, <2>12
<1>5. g[DOMAIN lines] = Accounts(lines, DOMAIN lines)
  BY <1>1, <1>4
<1>6. QED
  BY <1>5, FoldIs DEF g

\* Of all records, the receipts are those CleanupJournal speaks of.
LEMMA AllRecords ==
  ASSUME NEW lines \in Seq(Records), NEW op \in Opened(lines, DOMAIN lines)
  PROVE  Reviewed(Account(lines, DOMAIN lines, op)) = ReceiptFor(lines, op)
<1> DEFINE all == DOMAIN lines
<1>1. \A kinds : Within(lines, all, op, kinds) = LinesOf(lines, op, kinds)
  BY DEF Within, LinesOf
<1>2. OpenedAt(lines, all, op) = Opening(lines, op)
  BY <1>1 DEF OpenedAt, Opening
<1>3. ASSUME NEW kinds
      PROVE  Since(lines, all, op, kinds) = Changes(lines, op, kinds)
  <2>1. Within(lines, all, op, kinds) = LinesOf(lines, op, kinds)
    BY <1>1
  <2>2. QED
    BY <1>2, <2>1 DEF Since, Changes
<1>4. ASSUME NEW m
      PROVE  ItemAccount(lines, all, op, m) = ItemState(lines, op, m)
  <2>1. About(lines, all, op, m) =
          {i \in Changes(lines, op, {"dispatch", "outcome"}) :
             lines[i].node = m}
    BY <1>3 DEF About
  <2>2. QED
    BY <2>1 DEF ItemAccount, ItemState
<1>5. StateAccount(lines, all, op) = OperationState(lines, op)
  BY <1>2, <1>3 DEF StateAccount, OperationState
<1> DEFINE nodes == ReceiptNodes(lines, op)
           receipt == Account(lines, all, op)
<1>6. receipt = [state |-> OperationState(lines, op),
                 items |-> [m \in nodes |-> ItemState(lines, op, m)]]
  BY <1>2, <1>4, <1>5 DEF Account, ReceiptNodes
<1> HIDE DEF receipt, nodes
<1>7. CASE OperationState(lines, op) \notin OpenStates
  <2>1. Reviewed(receipt) = receipt
    BY <1>6, <1>7 DEF Reviewed
  <2>2. \A m : ItemReport(lines, op, m) = ItemState(lines, op, m)
    BY <1>7 DEF ItemReport
  <2>3. ReceiptState(lines, op) = OperationState(lines, op)
    BY <1>7 DEF ReceiptState
  <2>4. ReceiptFor(lines, op) =
          [state |-> OperationState(lines, op),
           items |-> [m \in nodes |-> ItemState(lines, op, m)]]
    BY <2>2, <2>3 DEF ReceiptFor, nodes
  <2>5. QED
    BY <1>6, <2>1, <2>4 DEF receipt
<1>8. CASE OperationState(lines, op) \in OpenStates
  <2> DEFINE items == [m \in nodes |-> ItemReport(lines, op, m)]
  <2>1. \A m : ItemReport(lines, op, m) =
                 IF ItemState(lines, op, m) = "dispatch_recorded"
                 THEN "unknown_requires_review" ELSE ItemState(lines, op, m)
    BY <1>8 DEF ItemReport
  <2>2. [m \in DOMAIN receipt.items |->
           IF receipt.items[m] = "dispatch_recorded"
           THEN "unknown_requires_review" ELSE receipt.items[m]] = items
    BY <1>6, <2>1
  <2>3. (\E m \in DOMAIN items : items[m] = "unknown_requires_review") <=>
          (\E m \in nodes :
             ItemReport(lines, op, m) = "unknown_requires_review")
    OBVIOUS
  <2> HIDE DEF items
  <2>4. Reviewed(receipt) =
          [receipt EXCEPT
             !.items = items,
             !.state = IF \E m \in DOMAIN items :
                             items[m] = "unknown_requires_review"
                       THEN "completed_with_unknowns"
                       ELSE "interrupted_requires_review"]
    BY <1>6, <1>8, <2>2 DEF Reviewed
  <2>5. ReceiptState(lines, op) =
          IF \E m \in DOMAIN items : items[m] = "unknown_requires_review"
          THEN "completed_with_unknowns" ELSE "interrupted_requires_review"
    BY <1>8, <2>3 DEF ReceiptState, nodes
  <2>6. Reviewed(receipt) = [state |-> ReceiptState(lines, op), items |-> items]
    BY <1>6, <2>4, <2>5
  <2>7. QED
    BY <2>6 DEF ReceiptFor, items, nodes, receipt
<1>9. QED
  BY <1>7, <1>8

\* On any records whatever, the fold and the description agree.
LEMMA FoldDescribed ==
  ASSUME NEW lines \in Seq(Records)
  PROVE  LET built == BuildReceipts(lines)
         IN /\ DOMAIN built = {op \in Commands : HasReceipt(lines, op)}
            /\ \A op \in DOMAIN built : built[op] = ReceiptFor(lines, op)
<1> DEFINE all == DOMAIN lines
           built == BuildReceipts(lines)
<1>1. built = [op \in DOMAIN Accounts(lines, all) |->
                 Reviewed(Accounts(lines, all)[op])]
  BY FoldTells DEF BuildReceipts
<1>2. DOMAIN Accounts(lines, all) = Opened(lines, all)
      /\ \A op \in Opened(lines, all) :
           Accounts(lines, all)[op] = Account(lines, all, op)
  BY DEF Accounts
<1>3. Opened(lines, all) = {op \in Commands : HasReceipt(lines, op)}
  BY DEF Opened, HasReceipt, Within, LinesOf
<1>4. \A op \in Opened(lines, all) : built[op] = ReceiptFor(lines, op)
  BY <1>1, <1>2, AllRecords
<1>5. QED
  BY <1>1, <1>2, <1>3, <1>4

\* At every moment of every cleanup, with failed appends and after crashes, the
\* receipts that build_cleanup_receipts folds from a journal that parses are
\* those the model speaks of.
THEOREM FoldIsDescribed == Spec => []FoldAgrees
<1>1. TypeOK => FoldAgrees
  <2> SUFFICES ASSUME TypeOK, Readable(journal) PROVE FoldAgrees
    BY DEF FoldAgrees
  <2>1. journal \in Seq(Records)
    <3>1. journal \in Seq(Lines)
      BY DEF TypeOK
    <3>2. \A i \in DOMAIN journal : journal[i] \in Records
      BY <3>1 DEF Readable, Lines
    <3>3. QED
      BY <3>1, <3>2
  <2>2. QED
    BY <2>1, FoldDescribed DEF FoldAgrees
<1>2. QED
  BY TypeCorrect, <1>1, PTL
=============================================================================
