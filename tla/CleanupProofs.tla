---------------------------- MODULE CleanupProofs ----------------------------
(***************************************************************************)
(* Proofs about CleanupExecution, for every set of requests, commands,     *)
(* nodes and plans and every bound: type correctness, and that concurrent  *)
(* cleanups never touch overlapping paths.                                 *)
(***************************************************************************)
EXTENDS CleanupExecution, SequenceTheorems, TLAPS

(* The inductive invariant. *)

\* A worker runs for a request that was received, so its command is known.
Received ==
  \A r \in Requests :
    /\ request[r].pc # "new" => request[r].cmd \in Commands
    /\ worker[r].pc # "none" => request[r].pc # "new"

ItemPcs == {"block", "dispatch", "trash", "outcome"}

\* A worker that handles an item is at one of its plan, and what it has to
\* say of an item is what the trash adapter said.
AtItem ==
  \A r \in Requests :
    /\ worker[r].pc \in ItemPcs =>
         worker[r].at \in DOMAIN worker[r].plan.nodes
    /\ worker[r].pc = "outcome" =>
         worker[r].outcome \in {"moved_to_trash", "failed"}

\* The lock table covers what the running cleanups have locked.
LocksTable ==
  \A r \in Requests : Holding(r) => LockPaths(worker[r].plan) \subseteq activePaths

\* No two running cleanups have locked overlapping paths.
LocksApart ==
  \A q, r \in Requests : q # r /\ Holding(q) /\ Holding(r) =>
    \A m \in LockPaths(worker[q].plan), n \in LockPaths(worker[r].plan) :
      ~Overlap(m, n)

\* An item that passed its revalidation passed its first preflight too, so it
\* is one of the locked paths.
CommittedLocked ==
  \A r \in Requests : Committed(r) => Item(r) \in LockPaths(worker[r].plan)

TypeInv == TypeOK /\ Received /\ AtItem

LockInv == LocksTable /\ LocksApart /\ CommittedLocked

-----------------------------------------------------------------------------
(* Appending to the journal *)

LEMMA WrittenType ==
  ASSUME NEW lines \in Seq(Lines), NEW e \in BOOLEAN, NEW line \in Lines
  PROVE  Written(lines, e, line) \in Seq(Lines)
BY DEF Written, Lines

LEMMA AppendType ==
  ASSUME NEW lines \in Seq(Lines), NEW e \in BOOLEAN, NEW record \in Records
  PROVE  /\ GoodAppend(lines, e, record).lines \in Seq(Lines)
         /\ GoodAppend(lines, e, record).ended \in BOOLEAN
         /\ \A fault \in FaultKinds :
              /\ FaultyAppend(lines, e, record, fault).lines \in Seq(Lines)
              /\ FaultyAppend(lines, e, record, fault).ended \in BOOLEAN
<1>1. record \in Lines /\ Torn \in Lines
  BY DEF Lines
<1>2. /\ Written(lines, e, record) \in Seq(Lines)
      /\ Written(lines, e, Torn) \in Seq(Lines)
  BY <1>1, WrittenType
<1>3. QED
  BY <1>2 DEF GoodAppend, FaultyAppend, FaultKinds

-----------------------------------------------------------------------------
(* Steps that several actions share *)

\* A worker gets a new record w.
Becomes(r, w) == worker' = [worker EXCEPT ![r] = w]

\* The record of a worker that returned.
Returned(answer) == [NoWorker EXCEPT !.pc = "done", !.answer = answer]

LEMMA NoPlanType == NoPlan \in PlanRecord
BY DEF NoPlan, PlanRecord

LEMMA ReturnedType ==
  ASSUME NEW answer \in Answers
  PROVE  /\ NoWorker \in WorkerRecord
         /\ Returned(answer) \in WorkerRecord
         /\ Returned(answer).pc = "done"
<1>1. 1 \in Nat \ {0}
  OBVIOUS
<1>2. NoWorker \in WorkerRecord
  BY <1>1, NoPlanType
     DEF NoWorker, WorkerRecord, WorkerPcs, ItemStates, FinalStates, Answers
<1>3. Returned(answer) \in WorkerRecord
  BY <1>2 DEF Returned, WorkerRecord, WorkerPcs
<1>4. QED
  BY <1>2, <1>3 DEF Returned, WorkerRecord

\* A step that changes one worker, keeps the plan it holds the locks of, and
\* leaves the lock table alone or gives back the locks of that worker.
LEMMA WorkerLocks ==
  ASSUME TypeInv, LockInv, NEW r \in Requests, NEW w, Becomes(r, w),
         w.pc \in HoldingPcs => Holding(r) /\ w.plan = worker[r].plan,
         w.pc \in {"dispatch", "trash"} =>
           w.plan.nodes[w.at] \in LockPaths(w.plan),
         \/ activePaths' = activePaths
         \/ /\ w.pc \notin HoldingPcs
            /\ Holding(r)
            /\ activePaths' = activePaths \ LockPaths(worker[r].plan)
  PROVE  LockInv'
<1> worker' = [q \in Requests |-> IF q = r THEN w ELSE worker[q]]
  BY DEF Becomes, TypeInv, TypeOK
<1>1. \A q \in Requests :
        Holding(q)' => Holding(q) /\ worker'[q].plan = worker[q].plan
  BY DEF Holding
<1>2. LocksApart'
  BY <1>1 DEF LockInv, LocksApart
<1>3. LocksTable'
  <2> SUFFICES ASSUME NEW q \in Requests, Holding(q)',
                      NEW m \in LockPaths(worker[q].plan)
               PROVE  m \in activePaths'
    BY <1>1 DEF LocksTable
  <2>1. m \in activePaths
    BY <1>1 DEF LockInv, LocksTable
  <2>2. CASE activePaths' = activePaths
    BY <2>1, <2>2
  <2>3. CASE /\ w.pc \notin HoldingPcs
             /\ Holding(r)
             /\ activePaths' = activePaths \ LockPaths(worker[r].plan)
    <3>1. q # r
      BY <2>3 DEF Holding
    <3>2. \A n \in LockPaths(worker[r].plan) : ~Overlap(m, n)
      BY <1>1, <2>3, <3>1 DEF LockInv, LocksApart
    <3>3. m \notin LockPaths(worker[r].plan)
      BY <3>2 DEF Overlap
    <3>4. QED
      BY <2>1, <2>3, <3>3
  <2>4. QED
    BY <2>2, <2>3
<1>4. CommittedLocked'
  BY DEF LockInv, CommittedLocked, Committed, Item
<1>5. QED
  BY <1>2, <1>3, <1>4 DEF LockInv

LEMMA ReturnLocks ==
  ASSUME TypeInv, LockInv, NEW r \in Requests, NEW answer \in Answers,
         Return(r, answer)
  PROVE  LockInv'
<1> DEFINE w == Returned(answer)
<1>1. Becomes(r, w)
  BY DEF Becomes, Return, Returned
<1>2. w.pc = "done"
  BY ReturnedType
<1>3. "done" \notin HoldingPcs
  BY DEF HoldingPcs
<1>4. \/ activePaths' = activePaths
      \/ /\ w.pc \notin HoldingPcs
         /\ Holding(r)
         /\ activePaths' = activePaths \ LockPaths(worker[r].plan)
  BY <1>2, <1>3 DEF Return
<1> HIDE DEF w
<1>5. QED
  BY <1>1, <1>2, <1>3, <1>4, WorkerLocks

\* A step of a worker that holds its locks and goes on to another place of
\* its plan.
LEMMA ProceedLocks ==
  ASSUME TypeInv, LockInv, NEW r \in Requests, NEW w, Becomes(r, w),
         Holding(r), w.plan = worker[r].plan, UNCHANGED activePaths,
         w.pc \in {"dispatch", "trash"} =>
           w.plan.nodes[w.at] \in LockPaths(w.plan)
  PROVE  LockInv'
BY WorkerLocks

LEMMA RecordLocks ==
  ASSUME TypeInv, LockInv, NEW r \in Requests, NEW record, NEW w,
         Record(r, record, w), Holding(r), w.plan = worker[r].plan,
         w.pc \in {"dispatch", "trash"} =>
           w.plan.nodes[w.at] \in LockPaths(w.plan)
  PROVE  LockInv'
<1>1. CASE Becomes(r, w) /\ UNCHANGED activePaths
  BY <1>1, ProceedLocks
<1>2. CASE Return(r, "storage")
  BY <1>2, ReturnLocks DEF Answers
<1>3. QED
  BY <1>1, <1>2 DEF Record, Becomes

-----------------------------------------------------------------------------
(* The lock discipline is kept by every step. *)

\* Steps that touch neither the workers nor the lock table.
LEMMA IdleLocks ==
  ASSUME LockInv, UNCHANGED <<worker, activePaths>>
  PROVE  LockInv'
BY DEF LockInv, LocksTable, LocksApart, CommittedLocked, Holding, Committed,
       Item

LEMMA AcquireLocks ==
  ASSUME TypeInv, LockInv, NEW r \in Requests, AcquirePaths(r)
  PROVE  LockInv'
<1> DEFINE wanted == LockPaths(worker[r].plan)
<1> USE DEF AcquireUnless
<1>1. CASE Return(r, "conflict")
  BY <1>1, ReturnLocks DEF Answers
<1>2. CASE /\ ~\E m \in wanted, n \in activePaths : Overlap(m, n)
           /\ activePaths' = activePaths \cup wanted
           /\ Goto(r, "take")
  <2>1. worker' = [q \in Requests |->
                     IF q = r THEN [worker[r] EXCEPT !.pc = "take"]
                              ELSE worker[q]]
    BY <1>2 DEF Goto, TypeInv, TypeOK
  <2>2. worker'[r].plan = worker[r].plan /\ worker'[r].pc = "take"
    BY <2>1 DEF TypeInv, TypeOK, WorkerRecord
  <2>3. \A q \in Requests : q # r => worker'[q] = worker[q]
    BY <2>1
  <2>4. \A q \in Requests : q # r /\ Holding(q) =>
          \A m \in LockPaths(worker[q].plan), n \in wanted :
            ~Overlap(m, n) /\ ~Overlap(n, m)
    BY <1>2 DEF LockInv, LocksTable, Overlap
  <2>5. LocksTable'
    BY <1>2, <2>2, <2>3 DEF LockInv, LocksTable, Holding
  <2>6. LocksApart'
    BY <2>2, <2>3, <2>4 DEF LockInv, LocksApart, Holding
  <2>7. CommittedLocked'
    BY <2>2, <2>3 DEF LockInv, CommittedLocked, Committed, Item
  <2>8. QED
    BY <2>5, <2>6, <2>7 DEF LockInv
<1>3. QED
  BY <1>1, <1>2 DEF AcquirePaths

LEMMA RevalidateLocks ==
  ASSUME TypeInv, LockInv, NEW r \in Requests, Revalidate(r)
  PROVE  LockInv'
<1> DEFINE to(pc) == [worker[r] EXCEPT !.pc = pc]
<1>1. Holding(r) /\ worker[r] \in WorkerRecord
  BY DEF Revalidate, Holding, HoldingPcs, WorkerPcs, TypeInv, TypeOK
<1>2. \A pc \in WorkerPcs :
        /\ to(pc).pc = pc /\ to(pc).plan = worker[r].plan
        /\ to(pc).at = worker[r].at
  BY <1>1 DEF WorkerRecord
<1>3. CASE Goto(r, "summarise") \/ Goto(r, "block")
  <2>1. \E pc \in {"summarise", "block"} : Becomes(r, to(pc))
    BY <1>3 DEF Goto, Becomes, TypeInv, TypeOK
  <2>2. PICK pc \in {"summarise", "block"} : Becomes(r, to(pc))
    BY <2>1
  <2>3. to(pc).plan = worker[r].plan /\ to(pc).pc \notin {"dispatch", "trash"}
    BY <1>2 DEF WorkerPcs
  <2> HIDE DEF to
  <2>4. QED
    BY <1>1, <2>2, <2>3, ProceedLocks DEF Revalidate
<1>4. CASE /\ worker[r].at <= Len(worker[r].plan.nodes)
           /\ worker[r].plan.preflight[Item(r)] # Blocked
           /\ Goto(r, "dispatch")
  <2>1. Becomes(r, to("dispatch"))
    BY <1>4 DEF Goto, Becomes, TypeInv, TypeOK
  <2>2. Item(r) \in LockPaths(worker[r].plan)
    <3>1. /\ worker[r].plan.nodes \in Seq(Nodes)
          /\ worker[r].at \in 1 .. Len(worker[r].plan.nodes)
      BY <1>1, <1>4 DEF WorkerRecord, PlanRecord
    <3>2. Item(r) \in Nodes
      BY <3>1 DEF Item
    <3>3. QED
      BY <1>4, <3>2 DEF LockPaths
  <2>3. /\ to("dispatch").plan = worker[r].plan
        /\ to("dispatch").at = worker[r].at
    BY <1>2 DEF WorkerPcs
  <2> HIDE DEF to
  <2>4. QED
    BY <1>1, <2>1, <2>2, <2>3, ProceedLocks DEF Revalidate, Item
<1>5. QED
  BY <1>3, <1>4 DEF Revalidate

\* The other steps of a worker go on at another pc, or record, or return.
LEMMA WorkLocks ==
  ASSUME TypeInv, LockInv, NEW r \in Requests, Work(r)
  PROVE  LockInv'
<1> DEFINE to(pc) == [worker[r] EXCEPT !.pc = pc]
<1>1. worker[r] \in WorkerRecord
  BY DEF TypeInv, TypeOK
<1>2. \A pc \in WorkerPcs : to(pc).pc = pc /\ to(pc).plan = worker[r].plan
  BY <1>1 DEF WorkerRecord
<1>3. \A answer \in Answers : Return(r, answer) => LockInv'
  BY ReturnLocks
<1>4. {"storage", "receipt", "conflict", "not_found", "missing"} \subseteq Answers
  BY DEF Answers
<1>5. CASE CheckReceipt(r)
  <2>1. CASE Goto(r, "lock") /\ UNCHANGED activePaths
    <3>1. Becomes(r, to("lock"))
      BY <2>1 DEF Goto, Becomes, TypeInv, TypeOK
    <3>2. to("lock").pc \notin HoldingPcs
      BY <1>2 DEF WorkerPcs, HoldingPcs
    <3>3. to("lock").pc \notin {"dispatch", "trash"}
      BY <1>2 DEF WorkerPcs
    <3> HIDE DEF to
    <3>4. QED
      BY <2>1, <3>1, <3>2, <3>3, WorkerLocks
  <2>2. QED
    BY <1>3, <1>4, <1>5, <2>1 DEF CheckReceipt
<1>6. CASE AcquirePaths(r)
  BY <1>6, AcquireLocks
<1>7. CASE TakePlan(r)
  <2>1. CASE Goto(r, "intent") /\ UNCHANGED activePaths
    <3>1. Becomes(r, to("intent"))
      BY <2>1 DEF Goto, Becomes, TypeInv, TypeOK
    <3>2. Holding(r)
      BY <1>7 DEF TakePlan, Holding, HoldingPcs, WorkerPcs
    <3>3. to("intent").plan = worker[r].plan /\ to("intent").pc = "intent"
      BY <1>2 DEF WorkerPcs
    <3> HIDE DEF to
    <3>4. QED
      BY <2>1, <3>1, <3>2, <3>3, ProceedLocks
  <2>2. QED
    BY <1>3, <1>4, <1>7, <2>1 DEF TakePlan
<1>8. CASE RecordIntent(r) \/ RecordSkeleton(r) \/ Finalize(r)
  <2>1. Holding(r)
    BY <1>8 DEF RecordIntent, RecordSkeleton, Finalize, Holding, HoldingPcs,
                WorkerPcs
  <2>2. PICK pc \in {"skeleton", "item", "reply"} :
          \E record : Record(r, record, to(pc))
    BY <1>8 DEF RecordIntent, RecordSkeleton, Finalize, At
  <2>3. PICK record : Record(r, record, to(pc))
    BY <2>2
  <2>4. to(pc).plan = worker[r].plan /\ to(pc).pc \notin {"dispatch", "trash"}
    BY <1>2 DEF WorkerPcs
  <2> HIDE DEF to
  <2>5. QED
    BY <2>1, <2>3, <2>4, RecordLocks
<1>9. CASE Revalidate(r)
  BY <1>9, RevalidateLocks
<1>10. CASE RecordBlocked(r) \/ RecordOutcome(r)
  <2>1. Holding(r)
    BY <1>10 DEF RecordBlocked, RecordOutcome, Holding, HoldingPcs, WorkerPcs
  <2>2. PICK record : Record(r, record, NextItem(r))
    BY <1>10 DEF RecordBlocked, RecordOutcome
  <2>3. NextItem(r).plan = worker[r].plan /\ NextItem(r).pc = "item"
    BY <1>1 DEF NextItem, WorkerRecord
  <2>4. QED
    BY <2>1, <2>2, <2>3, RecordLocks
<1>11. CASE RecordDispatch(r)
  <2>1. Holding(r) /\ Committed(r)
    BY <1>11 DEF RecordDispatch, Holding, HoldingPcs, WorkerPcs, Committed
  <2>2. PICK record : Record(r, record, to("trash"))
    BY <1>11 DEF RecordDispatch, At
  <2>3. to("trash").plan = worker[r].plan /\ to("trash").at = worker[r].at
    BY <1>1 DEF WorkerRecord
  <2>4. Item(r) \in LockPaths(worker[r].plan)
    BY <2>1 DEF LockInv, CommittedLocked
  <2> HIDE DEF to
  <2>5. QED
    BY <2>1, <2>2, <2>3, <2>4, RecordLocks DEF Item
<1>12. CASE MoveToTrash(r)
  <2>1. Holding(r)
    BY <1>12 DEF MoveToTrash, Holding, HoldingPcs, WorkerPcs
  <2>2. PICK outcome : Becomes(r, [worker[r] EXCEPT !.pc = "outcome",
                                                    !.outcome = outcome])
    BY <1>12 DEF MoveToTrash, Becomes, TypeInv, TypeOK
  <2> DEFINE w == [worker[r] EXCEPT !.pc = "outcome", !.outcome = outcome]
  <2>3. w.plan = worker[r].plan /\ w.pc = "outcome"
    BY <1>1 DEF WorkerRecord
  <2>4. UNCHANGED activePaths
    BY <1>12 DEF MoveToTrash
  <2> HIDE DEF w
  <2>5. QED
    BY <2>1, <2>2, <2>3, <2>4, ProceedLocks DEF w
<1>13. CASE Summarise(r)
  <2>1. CASE /\ worker' = [worker EXCEPT ![r].pc = "finalize",
                             ![r].final = FinalState(ReceiptFor(journal, Op(r)))]
             /\ UNCHANGED activePaths
    <3> DEFINE w == [worker[r] EXCEPT !.pc = "finalize",
                       !.final = FinalState(ReceiptFor(journal, Op(r)))]
    <3>1. Becomes(r, w)
      BY <2>1 DEF Becomes, TypeInv, TypeOK
    <3>2. Holding(r)
      BY <1>13 DEF Summarise, Holding, HoldingPcs, WorkerPcs
    <3>3. w.plan = worker[r].plan /\ w.pc = "finalize"
      BY <1>1 DEF WorkerRecord
    <3> HIDE DEF w
    <3>4. QED
      BY <2>1, <3>1, <3>2, <3>3, ProceedLocks
  <2>2. QED
    BY <1>3, <1>4, <1>13, <2>1 DEF Summarise
<1>14. CASE Reply(r)
  BY <1>3, <1>4, <1>14 DEF Reply
<1>15. QED
  BY <1>5, <1>6, <1>7, <1>8, <1>9, <1>10, <1>11, <1>12, <1>13, <1>14 DEF Work

LEMMA NextLocks ==
  ASSUME TypeInv, LockInv, [Next]_vars
  PROVE  LockInv'
<1>1. CASE UNCHANGED <<worker, activePaths>>
  BY <1>1, IdleLocks
<1>2. ASSUME NEW r \in Requests, SpawnWorker(r)
      PROVE  LockInv'
  <2>1. CASE UNCHANGED worker
    BY <1>1, <1>2, <2>1 DEF SpawnWorker
  <2>2. ASSUME NEW plan, worker' = [worker EXCEPT ![r].pc = "check",
                                                  ![r].plan = plan]
        PROVE  LockInv'
    <3> DEFINE w == [worker[r] EXCEPT !.pc = "check", !.plan = plan]
    <3>1. Becomes(r, w)
      BY <2>2 DEF Becomes, TypeInv, TypeOK
    <3>2. w.pc = "check"
      BY DEF TypeInv, TypeOK, WorkerRecord
    <3>3. activePaths' = activePaths /\ "check" \notin HoldingPcs
      BY <1>2 DEF SpawnWorker, HoldingPcs
    <3> HIDE DEF w
    <3>4. QED
      BY <3>1, <3>2, <3>3, WorkerLocks
  <2>3. QED
    BY <1>2, <2>1, <2>2 DEF SpawnWorker
<1>3. CASE Crash
  <2>1. \A r \in Requests : ~Holding(r)' /\ ~Committed(r)'
    BY <1>3 DEF Crash, Holding, HoldingPcs, Committed, NoWorker
  <2>2. QED
    BY <2>1 DEF LockInv, LocksTable, LocksApart, CommittedLocked
<1>4. QED
  BY <1>1, <1>2, <1>3, WorkLocks
     DEF Next, CreatePlan, AcquireCommand, Handle, LookUpReceipt, Respond,
         Disconnect, Touch, Idle, vars

-----------------------------------------------------------------------------
(* Types.  One lemma for each kind of step. *)

\* The parts of TypeInv that the request handlers and workers change.
LEMMA RequestType ==
  ASSUME TypeInv, NEW r \in Requests, NEW q,
         request' = [request EXCEPT ![r] = q], q \in RequestRecord,
         q.cmd \in Commands, q.pc # "new",
         activeCommands' \in SUBSET Commands,
         UNCHANGED <<plans, nextPlanId, activePaths, worker, journal, ended,
                     disk, trashed, spent>>
  PROVE  TypeInv'
<1>1. request' = [s \in Requests |-> IF s = r THEN q ELSE request[s]]
  BY DEF TypeInv, TypeOK
<1>2. TypeOK'
  BY <1>1 DEF TypeInv, TypeOK
<1>3. Received'
  BY <1>1 DEF TypeInv, Received
<1>4. AtItem'
  BY DEF TypeInv, AtItem
<1>5. QED
  BY <1>2, <1>3, <1>4 DEF TypeInv

\* A step of a worker that has been spawned.
LEMMA WorkerType ==
  ASSUME TypeInv, NEW r \in Requests, NEW w, Becomes(r, w),
         w \in WorkerRecord, worker[r].pc # "none",
         w.pc \in ItemPcs => w.at \in DOMAIN w.plan.nodes,
         w.pc = "outcome" => w.outcome \in {"moved_to_trash", "failed"},
         plans' \in Seq(PlanRecord), activePaths' \in SUBSET Nodes,
         journal' \in Seq(Lines), ended' \in BOOLEAN,
         disk' \in [Nodes -> Versions \cup {Absent}],
         trashed' \in Seq([op : Commands, node : Nodes, moved : BOOLEAN]),
         spent' \in [faults : Nat, crashes : Nat, touches : Nat],
         UNCHANGED unchangedByWorker
  PROVE  TypeInv'
<1>1. worker' = [s \in Requests |-> IF s = r THEN w ELSE worker[s]]
  BY DEF Becomes, TypeInv, TypeOK
<1>2. TypeOK'
  BY <1>1 DEF TypeInv, TypeOK, unchangedByWorker
<1>3. Received'
  BY <1>1 DEF TypeInv, Received, unchangedByWorker
<1>4. AtItem'
  BY <1>1 DEF TypeInv, AtItem
<1>5. QED
  BY <1>2, <1>3, <1>4 DEF TypeInv

LEMMA LockPathsType ==
  ASSUME NEW plan
  PROVE  LockPaths(plan) \subseteq Nodes
BY DEF LockPaths

LEMMA ReturnType ==
  ASSUME TypeInv, NEW r \in Requests, NEW answer \in Answers,
         Return(r, answer), worker[r].pc # "none",
         plans' \in Seq(PlanRecord),
         journal' \in Seq(Lines), ended' \in BOOLEAN,
         UNCHANGED <<disk, trashed>>,
         spent' \in [faults : Nat, crashes : Nat, touches : Nat],
         UNCHANGED unchangedByWorker
  PROVE  TypeInv'
<1> DEFINE w == Returned(answer)
<1>1. Becomes(r, w) /\ w \in WorkerRecord /\ w.pc = "done"
  BY ReturnedType DEF Becomes, Return, Returned
<1>2. activePaths' \in SUBSET Nodes
  BY LockPathsType DEF Return, TypeInv, TypeOK
<1>3. "done" \notin ItemPcs
  BY DEF ItemPcs
<1>4. /\ disk' \in [Nodes -> Versions \cup {Absent}]
      /\ trashed' \in Seq([op : Commands, node : Nodes, moved : BOOLEAN])
  BY DEF TypeInv, TypeOK
<1> HIDE DEF w
<1>5. QED
  BY <1>1, <1>2, <1>3, <1>4, WorkerType

LEMMA FailType ==
  ASSUME TypeInv, Fail
  PROVE  spent' \in [faults : Nat, crashes : Nat, touches : Nat]
BY DEF TypeInv, TypeOK, Fail

LEMMA RecordType ==
  ASSUME TypeInv, NEW r \in Requests, NEW record \in Records, NEW w,
         Record(r, record, w), w \in WorkerRecord, worker[r].pc # "none",
         w.pc \in ItemPcs => w.at \in DOMAIN w.plan.nodes,
         w.pc # "outcome"
  PROVE  TypeInv'
<1>1. /\ plans' \in Seq(PlanRecord)
      /\ UNCHANGED <<disk, trashed>> /\ UNCHANGED unchangedByWorker
      /\ disk' \in [Nodes -> Versions \cup {Absent}]
      /\ trashed' \in Seq([op : Commands, node : Nodes, moved : BOOLEAN])
  BY DEF Record, TypeInv, TypeOK
<1>2. journal \in Seq(Lines) /\ ended \in BOOLEAN
  BY DEF TypeInv, TypeOK
<1>3. ASSUME journal' = GoodAppend(journal, ended, record).lines,
             ended' = GoodAppend(journal, ended, record).ended,
             Becomes(r, w), UNCHANGED <<activePaths, spent>>
      PROVE  TypeInv'
  <2>1. journal' \in Seq(Lines) /\ ended' \in BOOLEAN
    BY <1>2, <1>3, AppendType
  <2>2. /\ activePaths' \in SUBSET Nodes
        /\ spent' \in [faults : Nat, crashes : Nat, touches : Nat]
    BY <1>3 DEF TypeInv, TypeOK
  <2>3. QED
    BY <1>1, <1>3, <2>1, <2>2, WorkerType
<1>4. ASSUME NEW fault \in FaultSet, Fail,
             journal' = FaultyAppend(journal, ended, record, fault).lines,
             ended' = FaultyAppend(journal, ended, record, fault).ended,
             Return(r, "storage")
      PROVE  TypeInv'
  <2>1. fault \in FaultKinds
    BY BoundAssumption
  <2>2. journal' \in Seq(Lines) /\ ended' \in BOOLEAN
    BY <1>2, <1>4, <2>1, AppendType
  <2>3. spent' \in [faults : Nat, crashes : Nat, touches : Nat]
    BY <1>4, FailType
  <2>4. "storage" \in Answers
    BY DEF Answers
  <2>5. QED
    BY <1>1, <1>4, <2>2, <2>3, <2>4, ReturnType
<1>5. QED
  BY <1>3, <1>4 DEF Record, Becomes

\* The plan store keeps plans and nothing else.
LEMMA StoredType ==
  ASSUME plans \in Seq(PlanRecord), NEW plan \in PlanRecord
  PROVE  Stored(plan) \in Seq(PlanRecord)
<1> DEFINE all == Append(plans, plan)
<1>1. all \in Seq(PlanRecord) /\ all # <<>>
  BY AppendProperties
<1>2. Tail(all) \in Seq(PlanRecord)
  BY <1>1, HeadTailProperties
<1>3. QED
  BY <1>1, <1>2 DEF Stored

LEMMA RemoveAtType ==
  ASSUME NEW S, NEW s \in Seq(S), NEW i \in DOMAIN s
  PROVE  RemoveAt(s, i) \in Seq(S)
<1>1. SubSeq(s, 1, i - 1) \in Seq(S) /\ SubSeq(s, i + 1, Len(s)) \in Seq(S)
  OBVIOUS
<1>2. QED
  BY <1>1 DEF RemoveAt

LEMMA PlanForType ==
  ASSUME plans \in Seq(PlanRecord), NEW id, HasPlan(id)
  PROVE  /\ PlanFor(id) \in DOMAIN plans
         /\ plans[PlanFor(id)] \in PlanRecord
<1>1. PlanFor(id) \in DOMAIN plans
  BY DEF HasPlan, PlanFor
<1>2. QED
  BY <1>1

LEMMA CreatePlanType ==
  ASSUME TypeInv, NEW nodes \in PlanShapes, CreatePlan(nodes)
  PROVE  TypeInv'
<1> DEFINE preflight == [n \in Nodes |->
                           IF \E i \in DOMAIN nodes : nodes[i] = n
                           THEN Preflight(n) ELSE Blocked]
           plan == [id |-> nextPlanId, nodes |-> nodes, preflight |-> preflight]
<1>1. \A n \in Nodes : Preflight(n) \in Versions \cup {Blocked}
  BY DEF Preflight, TypeInv, TypeOK
<1>2. plan \in PlanRecord
  BY <1>1, PlanAssumption DEF PlanRecord, TypeInv, TypeOK
<1> HIDE DEF plan
<1>3. plans' \in Seq(PlanRecord)
  <2>1. Stored(plan) \in Seq(PlanRecord)
    BY <1>2, StoredType DEF TypeInv, TypeOK
  <2>2. plans' = Stored(plan) \/ plans' = plans
    BY DEF CreatePlan, plan
  <2>3. QED
    BY <2>1, <2>2 DEF TypeInv, TypeOK
<1>4. TypeOK'
  BY <1>3 DEF CreatePlan, TypeInv, TypeOK
<1>5. Received' /\ AtItem'
  BY DEF CreatePlan, TypeInv, Received, AtItem
<1>6. QED
  BY <1>4, <1>5 DEF TypeInv

LEMMA AcquireCommandType ==
  ASSUME TypeInv, NEW r \in Requests, NEW c \in Confirmations,
         AcquireCommand(r, c[1], c[2])
  PROVE  TypeInv'
<1> DEFINE received == [request[r] EXCEPT !.cmd = c[1], !.planId = c[2]]
           refused == [received EXCEPT !.pc = "answered", !.answer = "conflict"]
           guarded == [received EXCEPT !.pc = "guarded"]
<1>1. c[1] \in Commands /\ c[2] \in Nat
  BY PlanAssumption
<1>2. request[r] \in RequestRecord
  BY DEF TypeInv, TypeOK
<1>3. \A q \in {refused, guarded} :
        q \in RequestRecord /\ q.cmd \in Commands /\ q.pc # "new"
  BY <1>1, <1>2 DEF RequestRecord, Answers
<1>4. activeCommands' \in SUBSET Commands
  BY <1>1 DEF AcquireCommand, TypeInv, TypeOK
<1>5. \E q \in {refused, guarded} : request' = [request EXCEPT ![r] = q]
  BY DEF AcquireCommand
<1> HIDE DEF refused, guarded
<1>6. QED
  BY <1>3, <1>4, <1>5, RequestType DEF AcquireCommand

\* An answer, early or late.
LEMMA ReturnEarlyType ==
  ASSUME TypeInv, NEW r \in Requests, NEW answer \in Answers,
         ReturnEarly(r, answer), request[r].pc # "new",
         UNCHANGED <<plans, nextPlanId, activePaths, worker, journal, ended,
                     disk, trashed, spent>>
  PROVE  TypeInv'
<1> DEFINE q == [request[r] EXCEPT !.pc = "answered", !.answer = answer]
<1>1. request[r] \in RequestRecord /\ request[r].cmd \in Commands
  BY DEF TypeInv, TypeOK, Received
<1>2. q \in RequestRecord /\ q.cmd \in Commands /\ q.pc # "new"
  BY <1>1 DEF RequestRecord, Answers
<1>3. request' = [request EXCEPT ![r] = q]
  BY DEF ReturnEarly, Answer, TypeInv, TypeOK
<1>4. activeCommands' \in SUBSET Commands
  BY DEF ReturnEarly, TypeInv, TypeOK
<1> HIDE DEF q
<1>5. QED
  BY <1>2, <1>3, <1>4, RequestType

\* A request goes on to another pc.
LEMMA RequestPcType ==
  ASSUME TypeInv, NEW r \in Requests,
         NEW pc \in {"looked", "waiting", "gone"},
         request[r].pc # "new", request' = [request EXCEPT ![r].pc = pc],
         activeCommands' \in SUBSET Commands,
         UNCHANGED <<plans, nextPlanId, activePaths, worker, journal, ended,
                     disk, trashed, spent>>
  PROVE  TypeInv'
<1> DEFINE q == [request[r] EXCEPT !.pc = pc]
<1>1. request[r] \in RequestRecord /\ request[r].cmd \in Commands
  BY DEF TypeInv, TypeOK, Received
<1>2. q \in RequestRecord /\ q.cmd \in Commands /\ q.pc # "new"
  BY <1>1 DEF RequestRecord
<1>3. request' = [request EXCEPT ![r] = q]
  BY DEF TypeInv, TypeOK
<1> HIDE DEF q
<1>4. QED
  BY <1>2, <1>3, RequestType

LEMMA HandlerType ==
  ASSUME TypeInv, NEW r \in Requests,
         LookUpReceipt(r) \/ Respond(r) \/ Disconnect(r)
  PROVE  TypeInv'
<1>1. {"storage", "receipt"} \subseteq Answers
  BY DEF Answers
<1>2. activeCommands \in SUBSET Commands
  BY DEF TypeInv, TypeOK
<1>3. CASE LookUpReceipt(r)
  BY <1>1, <1>2, <1>3, ReturnEarlyType, RequestPcType DEF LookUpReceipt
<1>4. CASE Respond(r)
  <2>1. worker[r].answer \in Answers
    BY DEF TypeInv, TypeOK, WorkerRecord
  <2>2. QED
    BY <1>4, <2>1, ReturnEarlyType DEF Respond
<1>5. CASE Disconnect(r)
  BY <1>2, <1>5, RequestPcType DEF Disconnect
<1>6. QED
  BY <1>3, <1>4, <1>5

LEMMA SpawnWorkerType ==
  ASSUME TypeInv, NEW r \in Requests, SpawnWorker(r)
  PROVE  TypeInv'
<1>1. CASE ReturnEarly(r, "not_found") /\ UNCHANGED worker
  BY <1>1, ReturnEarlyType DEF SpawnWorker, Answers
<1>2. CASE /\ HasPlan(request[r].planId)
           /\ request' = [request EXCEPT ![r].pc = "waiting"]
           /\ worker' = [worker EXCEPT ![r].pc = "check",
                           ![r].plan = plans[PlanFor(request[r].planId)]]
           /\ UNCHANGED activeCommands
  <2> DEFINE w == [worker[r] EXCEPT !.pc = "check",
                     !.plan = plans[PlanFor(request[r].planId)]]
  <2>1. w \in WorkerRecord /\ w.pc = "check"
    BY <1>2, PlanForType DEF TypeInv, TypeOK, WorkerRecord, WorkerPcs
  <2>2. worker' = [q \in Requests |-> IF q = r THEN w ELSE worker[q]]
    BY <1>2 DEF TypeInv, TypeOK
  <2>3. request' = [q \in Requests |->
                      IF q = r THEN [request[r] EXCEPT !.pc = "waiting"]
                               ELSE request[q]]
    BY <1>2 DEF TypeInv, TypeOK
  <2>4. request[r] \in RequestRecord /\ request[r].cmd \in Commands
    BY DEF SpawnWorker, TypeInv, TypeOK, Received
  <2>5. /\ request'[r] \in RequestRecord
        /\ request'[r].cmd \in Commands /\ request'[r].pc # "new"
    BY <2>3, <2>4 DEF RequestRecord
  <2> HIDE DEF w
  <2>6. worker' \in [Requests -> WorkerRecord]
    BY <2>1, <2>2 DEF TypeInv, TypeOK
  <2>7. request' \in [Requests -> RequestRecord]
    BY <2>3, <2>5 DEF TypeInv, TypeOK
  <2>8. TypeOK'
    BY <1>2, <2>6, <2>7 DEF SpawnWorker, TypeInv, TypeOK
  <2>9. Received'
    BY <2>2, <2>3, <2>5 DEF TypeInv, Received
  <2>10. AtItem'
    BY <2>1, <2>2 DEF TypeInv, AtItem, ItemPcs
  <2>11. QED
    BY <2>8, <2>9, <2>10 DEF TypeInv
<1>3. QED
  BY <1>1, <1>2 DEF SpawnWorker

\* A worker goes on to another pc and leaves files and journal alone.
LEMMA GotoType ==
  ASSUME TypeInv, NEW r \in Requests, NEW pc \in WorkerPcs \ {"outcome"},
         Goto(r, pc), worker[r].pc # "none",
         pc \in ItemPcs => worker[r].at \in DOMAIN worker[r].plan.nodes,
         plans' \in Seq(PlanRecord), activePaths' \in SUBSET Nodes,
         UNCHANGED <<journal, ended, disk, trashed, spent>>,
         UNCHANGED unchangedByWorker
  PROVE  TypeInv'
<1> DEFINE w == [worker[r] EXCEPT !.pc = pc]
<1>1. worker[r] \in WorkerRecord
  BY DEF TypeInv, TypeOK
<1>2. /\ w \in WorkerRecord /\ w.pc = pc
      /\ w.at = worker[r].at /\ w.plan = worker[r].plan
  BY <1>1 DEF WorkerRecord
<1>3. Becomes(r, w)
  BY DEF Goto, Becomes, TypeInv, TypeOK
<1>4. /\ journal' \in Seq(Lines) /\ ended' \in BOOLEAN
      /\ disk' \in [Nodes -> Versions \cup {Absent}]
      /\ trashed' \in Seq([op : Commands, node : Nodes, moved : BOOLEAN])
      /\ spent' \in [faults : Nat, crashes : Nat, touches : Nat]
  BY DEF TypeInv, TypeOK
<1> HIDE DEF w
<1>5. QED
  BY <1>2, <1>3, <1>4, WorkerType

\* The steps of a worker before its first record.
LEMMA AdmissionType ==
  ASSUME TypeInv, NEW r \in Requests,
         CheckReceipt(r) \/ AcquirePaths(r) \/ TakePlan(r)
  PROVE  TypeInv'
<1>1. worker[r].pc # "none"
  BY DEF CheckReceipt, AcquirePaths, AcquireUnless, TakePlan
<1>2. /\ {"storage", "receipt", "conflict", "not_found"} \subseteq Answers
      /\ {"lock", "take", "intent"} \subseteq (WorkerPcs \ {"outcome"}) \ ItemPcs
  BY DEF Answers, WorkerPcs, ItemPcs
<1>3. /\ plans \in Seq(PlanRecord) /\ activePaths \in SUBSET Nodes
      /\ journal \in Seq(Lines) /\ ended \in BOOLEAN
      /\ spent \in [faults : Nat, crashes : Nat, touches : Nat]
  BY DEF TypeInv, TypeOK
<1>4. CASE CheckReceipt(r)
  BY <1>1, <1>2, <1>3, <1>4, ReturnType, GotoType DEF CheckReceipt
<1>5. CASE AcquirePaths(r)
  <2>1. activePaths \cup LockPaths(worker[r].plan) \in SUBSET Nodes
    BY <1>3, LockPathsType
  <2>2. QED
    BY <1>1, <1>2, <1>3, <1>5, <2>1, ReturnType, GotoType
       DEF AcquirePaths, AcquireUnless
<1>6. CASE TakePlan(r)
  <2>1. CASE Fail /\ Return(r, "storage") /\ UNCHANGED plans
    BY <1>1, <1>2, <1>3, <1>6, <2>1, FailType, ReturnType DEF TakePlan
  <2>2. CASE Return(r, "not_found") /\ UNCHANGED <<plans, spent>>
    BY <1>1, <1>2, <1>3, <1>6, <2>2, ReturnType DEF TakePlan
  <2>3. CASE /\ HasPlan(worker[r].plan.id)
             /\ plans' = RemoveAt(plans, PlanFor(worker[r].plan.id))
             /\ Goto(r, "intent")
             /\ UNCHANGED <<activePaths, spent>>
    <3>1. plans' \in Seq(PlanRecord)
      BY <1>3, <2>3, PlanForType, RemoveAtType
    <3>2. QED
      BY <1>1, <1>2, <1>3, <1>6, <2>3, <3>1, GotoType DEF TakePlan
  <2>4. QED
    BY <1>6, <2>1, <2>2, <2>3 DEF TakePlan
<1>7. QED
  BY <1>4, <1>5, <1>6

LEMMA ItemType ==
  ASSUME TypeInv, NEW r \in Requests, worker[r].pc \in ItemPcs
  PROVE  /\ Item(r) \in Nodes
         /\ worker[r].at \in DOMAIN worker[r].plan.nodes
<1>1. worker[r].plan.nodes \in Seq(Nodes)
  BY DEF TypeInv, TypeOK, WorkerRecord, PlanRecord
<1>2. worker[r].at \in DOMAIN worker[r].plan.nodes
  BY DEF TypeInv, AtItem
<1>3. QED
  BY <1>1, <1>2 DEF Item

LEMMA OpType ==
  ASSUME TypeInv, NEW r \in Requests, worker[r].pc # "none"
  PROVE  Op(r) \in Commands
BY DEF TypeInv, Received, Op

\* Whatever a worker is about to append is a journal record.
LEMMA PendingType ==
  ASSUME TypeInv, NEW r \in Requests
  PROVE  PendingRecord(r) \subseteq Records
<1>1. worker[r] \in WorkerRecord
  BY DEF TypeInv, TypeOK
<1>2. NodesOf(worker[r].plan) \in SUBSET Nodes
  BY <1>1 DEF NodesOf, WorkerRecord, PlanRecord
<1>3. CASE worker[r].pc \in {"intent", "skeleton"}
  <2>1. Op(r) \in Commands
    BY <1>3, OpType
  <2>2. QED
    BY <1>2, <1>3, <2>1
       DEF PendingRecord, Records, IntentRecord, SkeletonRecord
<1>4. CASE worker[r].pc \in {"block", "dispatch"}
  <2>1. Op(r) \in Commands /\ Item(r) \in Nodes
    BY <1>4, OpType, ItemType DEF ItemPcs
  <2>2. QED
    BY <1>4, <2>1
       DEF PendingRecord, Records, Outcome, OutcomeRecord, DispatchRecord
<1>5. CASE worker[r].pc = "outcome"
  <2>1. Op(r) \in Commands /\ Item(r) \in Nodes
    BY <1>5, OpType, ItemType DEF ItemPcs
  <2>2. worker[r].outcome \in {"moved_to_trash", "failed"}
    BY <1>5 DEF TypeInv, AtItem
  <2>3. QED
    BY <1>5, <2>1, <2>2 DEF PendingRecord, Records, Outcome, OutcomeRecord
<1>6. CASE worker[r].pc = "finalize"
  <2>1. Op(r) \in Commands /\ worker[r].final \in FinalStates
    BY <1>1, <1>6, OpType DEF WorkerRecord
  <2>2. QED
    BY <1>6, <2>1 DEF PendingRecord, Records, FinalizedRecord
<1>7. CASE worker[r].pc \notin {"intent", "skeleton", "block", "dispatch",
                                "outcome", "finalize"}
  BY <1>7 DEF PendingRecord
<1>8. QED
  BY <1>3, <1>4, <1>5, <1>6, <1>7

\* The steps that append a record.
LEMMA RecordingType ==
  ASSUME TypeInv, NEW r \in Requests,
         \/ RecordIntent(r) \/ RecordSkeleton(r) \/ RecordBlocked(r)
         \/ RecordDispatch(r) \/ RecordOutcome(r) \/ Finalize(r)
  PROVE  TypeInv'
<1>1. worker[r] \in WorkerRecord
  BY DEF TypeInv, TypeOK
<1>2. \A record \in PendingRecord(r) : record \in Records
  BY PendingType
<1>3. CASE RecordIntent(r) \/ RecordSkeleton(r) \/ Finalize(r)
  <2>1. PICK record \in PendingRecord(r), pc \in {"skeleton", "item", "reply"} :
          Record(r, record, At(r, pc))
    BY <1>3 DEF RecordIntent, RecordSkeleton, Finalize, PendingRecord
  <2>2. At(r, pc) \in WorkerRecord /\ At(r, pc).pc = pc
    BY <1>1 DEF At, WorkerRecord, WorkerPcs
  <2>3. worker[r].pc # "none"
    BY <1>3 DEF RecordIntent, RecordSkeleton, Finalize
  <2>4. QED
    BY <1>2, <2>1, <2>2, <2>3, RecordType DEF ItemPcs
<1>4. CASE RecordBlocked(r) \/ RecordOutcome(r)
  <2>1. PICK record \in PendingRecord(r) : Record(r, record, NextItem(r))
    BY <1>4 DEF RecordBlocked, RecordOutcome, PendingRecord
  <2>2. worker[r].at + 1 \in Nat \ {0}
    BY <1>1 DEF WorkerRecord
  <2>3. NextItem(r) \in WorkerRecord /\ NextItem(r).pc = "item"
    BY <1>1, <2>2 DEF NextItem, WorkerRecord, WorkerPcs
  <2>4. worker[r].pc # "none"
    BY <1>4 DEF RecordBlocked, RecordOutcome
  <2>5. QED
    BY <1>2, <2>1, <2>3, <2>4, RecordType DEF ItemPcs
<1>5. CASE RecordDispatch(r)
  <2>1. PICK record \in PendingRecord(r) : Record(r, record, At(r, "trash"))
    BY <1>5 DEF RecordDispatch, PendingRecord
  <2>2. /\ At(r, "trash") \in WorkerRecord /\ At(r, "trash").pc = "trash"
        /\ At(r, "trash").at = worker[r].at
        /\ At(r, "trash").plan = worker[r].plan
    BY <1>1 DEF At, WorkerRecord, WorkerPcs
  <2>3. worker[r].pc = "dispatch"
    BY <1>5 DEF RecordDispatch
  <2>4. worker[r].at \in DOMAIN worker[r].plan.nodes
    BY <2>3, ItemType DEF ItemPcs
  <2>5. QED
    BY <1>2, <2>1, <2>2, <2>3, <2>4, RecordType
<1>6. QED
  BY <1>3, <1>4, <1>5

LEMMA RevalidateType ==
  ASSUME TypeInv, NEW r \in Requests, Revalidate(r)
  PROVE  TypeInv'
<1>1. worker[r].pc # "none" /\ plans' = plans /\ activePaths' = activePaths
  BY DEF Revalidate
<1>2. plans' \in Seq(PlanRecord) /\ activePaths' \in SUBSET Nodes
  BY <1>1 DEF TypeInv, TypeOK
<1>3. CASE Goto(r, "summarise")
  BY <1>1, <1>2, <1>3, GotoType DEF Revalidate, WorkerPcs, ItemPcs
<1>4. CASE /\ worker[r].at <= Len(worker[r].plan.nodes)
           /\ Goto(r, "block") \/ Goto(r, "dispatch")
  <2>1. /\ worker[r].at \in Nat \ {0}
        /\ worker[r].plan.nodes \in Seq(Nodes)
    BY DEF TypeInv, TypeOK, WorkerRecord, PlanRecord
  <2>2. worker[r].at \in DOMAIN worker[r].plan.nodes
    BY <1>4, <2>1
  <2>3. QED
    BY <1>1, <1>2, <1>4, <2>2, GotoType DEF Revalidate, WorkerPcs
<1>5. QED
  BY <1>3, <1>4 DEF Revalidate

LEMMA MoveToTrashType ==
  ASSUME TypeInv, NEW r \in Requests, MoveToTrash(r)
  PROVE  TypeInv'
<1>1. worker[r].pc = "trash"
  BY DEF MoveToTrash
<1>2. /\ Op(r) \in Commands /\ Item(r) \in Nodes
      /\ worker[r].at \in DOMAIN worker[r].plan.nodes
  BY <1>1, OpType, ItemType DEF ItemPcs
<1>3. PICK moved \in BOOLEAN :
        /\ disk' = [n \in Nodes |-> IF moved /\ n \in Subtree(Item(r))
                                    THEN Absent ELSE disk[n]]
        /\ trashed' = Append(trashed, [op |-> Op(r), node |-> Item(r),
                                       moved |-> moved])
        /\ worker' = [worker EXCEPT ![r].pc = "outcome",
                        ![r].outcome = IF moved THEN "moved_to_trash"
                                                ELSE "failed"]
  BY DEF MoveToTrash
<1> DEFINE outcome == IF moved THEN "moved_to_trash" ELSE "failed"
           w == [worker[r] EXCEPT !.pc = "outcome", !.outcome = outcome]
<1>4. Becomes(r, w)
  BY <1>3 DEF Becomes, TypeInv, TypeOK
<1>5. worker[r] \in WorkerRecord
  BY DEF TypeInv, TypeOK
<1>6. /\ w \in WorkerRecord /\ w.outcome \in {"moved_to_trash", "failed"}
      /\ w.at = worker[r].at /\ w.plan = worker[r].plan
  BY <1>5 DEF WorkerRecord, WorkerPcs, ItemStates
<1>7. disk' \in [Nodes -> Versions \cup {Absent}]
  BY <1>3 DEF TypeInv, TypeOK
<1>8. trashed' \in Seq([op : Commands, node : Nodes, moved : BOOLEAN])
  <2>1. [op |-> Op(r), node |-> Item(r), moved |-> moved]
          \in [op : Commands, node : Nodes, moved : BOOLEAN]
    BY <1>2
  <2>2. QED
    BY <1>3, <2>1, AppendProperties DEF TypeInv, TypeOK
<1>9. /\ plans' \in Seq(PlanRecord) /\ activePaths' \in SUBSET Nodes
      /\ journal' \in Seq(Lines) /\ ended' \in BOOLEAN
      /\ spent' \in [faults : Nat, crashes : Nat, touches : Nat]
      /\ UNCHANGED unchangedByWorker
  BY DEF MoveToTrash, TypeInv, TypeOK
<1> HIDE DEF w
<1>10. QED
  BY <1>1, <1>2, <1>4, <1>6, <1>7, <1>8, <1>9, WorkerType

LEMMA ConcludingType ==
  ASSUME TypeInv, NEW r \in Requests, Summarise(r) \/ Reply(r)
  PROVE  TypeInv'
<1>1. worker[r].pc # "none"
  BY DEF Summarise, Reply
<1>2. {"storage", "missing", "receipt"} \subseteq Answers
  BY DEF Answers
<1>3. /\ plans' \in Seq(PlanRecord)
      /\ journal' \in Seq(Lines) /\ ended' \in BOOLEAN
      /\ UNCHANGED <<disk, trashed>> /\ UNCHANGED unchangedByWorker
      /\ disk' \in [Nodes -> Versions \cup {Absent}]
      /\ trashed' \in Seq([op : Commands, node : Nodes, moved : BOOLEAN])
      /\ spent' \in [faults : Nat, crashes : Nat, touches : Nat]
  BY DEF Summarise, Reply, TypeInv, TypeOK
<1>4. CASE \E answer \in Answers : Return(r, answer)
  BY <1>1, <1>3, <1>4, ReturnType
<1>5. ASSUME NEW final \in FinalStates,
             worker' = [worker EXCEPT ![r].pc = "finalize", ![r].final = final],
             UNCHANGED activePaths
      PROVE  TypeInv'
  <2> DEFINE w == [worker[r] EXCEPT !.pc = "finalize", !.final = final]
  <2>1. Becomes(r, w)
    BY <1>5 DEF Becomes, TypeInv, TypeOK
  <2>2. w \in WorkerRecord /\ w.pc = "finalize"
    BY DEF TypeInv, TypeOK, WorkerRecord, WorkerPcs
  <2>3. activePaths' \in SUBSET Nodes
    BY <1>5 DEF TypeInv, TypeOK
  <2> HIDE DEF w
  <2>4. QED
    BY <1>1, <1>3, <2>1, <2>2, <2>3, WorkerType DEF ItemPcs
<1>6. FinalState(ReceiptFor(journal, Op(r))) \in FinalStates
  BY DEF FinalState, FinalStates
<1>7. QED
  BY <1>2, <1>4, <1>5, <1>6 DEF Summarise, Reply

LEMMA TouchType ==
  ASSUME TypeInv, NEW n \in Nodes, Touch(n)
  PROVE  TypeInv'
<1>1. disk' \in [Nodes -> Versions \cup {Absent}]
  BY DEF Touch, TypeInv, TypeOK
<1>2. spent' \in [faults : Nat, crashes : Nat, touches : Nat]
  BY DEF Touch, TypeInv, TypeOK
<1>3. UNCHANGED <<plans, nextPlanId, activeCommands, activePaths, request,
                  worker, journal, ended, trashed>>
  BY DEF Touch
<1>4. QED
  BY <1>1, <1>2, <1>3 DEF TypeInv, TypeOK, Received, AtItem

LEMMA CrashType ==
  ASSUME TypeInv, Crash
  PROVE  TypeInv'
<1>1. journal' \in Seq(Lines) /\ ended' \in BOOLEAN
  <2>1. CASE UNCHANGED <<journal, ended>>
    BY <2>1 DEF TypeInv, TypeOK
  <2>2. ASSUME NEW record \in Records, NEW fault \in FaultSet,
               journal' = FaultyAppend(journal, ended, record, fault).lines,
               ended' = FaultyAppend(journal, ended, record, fault).ended
        PROVE  journal' \in Seq(Lines) /\ ended' \in BOOLEAN
    BY <2>2, AppendType, BoundAssumption DEF TypeInv, TypeOK
  <2>3. \A r \in Requests : PendingRecord(r) \subseteq Records
    BY PendingType
  <2>4. QED
    BY <2>1, <2>2, <2>3 DEF Crash
<1>2. NoWorker \in WorkerRecord /\ NoWorker.pc = "none"
  BY ReturnedType DEF NoWorker, Answers
<1>3. worker' \in [Requests -> WorkerRecord]
      /\ \A r \in Requests : worker'[r].pc = "none"
  BY <1>2 DEF Crash
<1>4. request' \in [Requests -> RequestRecord]
  <2> SUFFICES ASSUME NEW r \in Requests PROVE request'[r] \in RequestRecord
    BY DEF Crash
  <2>1. request[r] \in RequestRecord
    BY DEF TypeInv, TypeOK
  <2>2. [request[r] EXCEPT !.pc = "gone"] \in RequestRecord
    BY <2>1 DEF RequestRecord
  <2>3. request'[r] = IF request[r].pc \in {"guarded", "looked", "waiting"}
                      THEN [request[r] EXCEPT !.pc = "gone"] ELSE request[r]
    BY DEF Crash
  <2>4. QED
    BY <2>1, <2>2, <2>3
<1>5. \A r \in Requests :
        request'[r].cmd = request[r].cmd
        /\ (request'[r].pc # "new" => request[r].pc # "new")
  BY DEF Crash, TypeInv, TypeOK, RequestRecord
<1>6. /\ <<>> \in Seq(PlanRecord)
      /\ spent' \in [faults : Nat, crashes : Nat, touches : Nat]
  BY DEF Crash, TypeInv, TypeOK
<1>7. TypeOK'
  BY <1>1, <1>3, <1>4, <1>6 DEF Crash, TypeInv, TypeOK
<1>8. Received'
  BY <1>3, <1>5 DEF TypeInv, Received
<1>9. AtItem'
  BY <1>3 DEF AtItem, ItemPcs
<1>10. QED
  BY <1>7, <1>8, <1>9 DEF TypeInv

LEMMA NextType ==
  ASSUME TypeInv, [Next]_vars
  PROVE  TypeInv'
<1>1. CASE UNCHANGED vars
  BY <1>1 DEF vars, TypeInv, TypeOK, Received, AtItem
<1>2. ASSUME NEW r \in Requests, Work(r)
      PROVE  TypeInv'
  BY <1>2, AdmissionType, RecordingType, RevalidateType, MoveToTrashType,
     ConcludingType DEF Work
<1>3. ASSUME NEW r \in Requests, Handle(r) \/ Disconnect(r)
      PROVE  TypeInv'
  BY <1>3, HandlerType, SpawnWorkerType DEF Handle
<1>4. QED
  BY <1>1, <1>2, <1>3, CreatePlanType, AcquireCommandType, TouchType, CrashType
     DEF Next, Idle

-----------------------------------------------------------------------------
(* The invariant holds at the start. *)

LEMMA InitInv == Init => TypeInv /\ LockInv
<1> SUFFICES ASSUME Init PROVE TypeInv /\ LockInv
  OBVIOUS
<1>1. \A r \in Requests :
        /\ worker[r] = NoWorker /\ NoWorker \in WorkerRecord
        /\ NoWorker.pc = "none" /\ request[r].pc = "new"
  BY ReturnedType DEF Init, NoWorker, Answers
<1>2. request \in [Requests -> RequestRecord]
  BY DEF Init, RequestRecord, Answers
<1>3. worker \in [Requests -> WorkerRecord]
  BY <1>1 DEF Init
<1>4. spent \in [faults : Nat, crashes : Nat, touches : Nat]
  BY DEF Init
<1>5. disk \in [Nodes -> Versions \cup {Absent}]
  BY DEF Init
<1>6. /\ plans \in Seq(PlanRecord) /\ journal \in Seq(Lines)
      /\ trashed \in Seq([op : Commands, node : Nodes, moved : BOOLEAN])
  BY EmptySeq DEF Init
<1>7. TypeOK
  BY <1>2, <1>3, <1>4, <1>5, <1>6 DEF Init, TypeOK
<1>8. Received /\ AtItem
  BY <1>1 DEF Received, AtItem, ItemPcs
<1>9. LockInv
  BY <1>1 DEF LockInv, LocksTable, LocksApart, CommittedLocked, Holding,
              HoldingPcs, Committed
<1>10. QED
  BY <1>7, <1>8, <1>9 DEF TypeInv

-----------------------------------------------------------------------------
(* Theorems *)

LEMMA Invariant == Spec => [](TypeInv /\ LockInv)
<1>1. TypeInv /\ LockInv /\ [Next]_vars => (TypeInv /\ LockInv)'
  BY NextType, NextLocks
<1>2. QED
  BY InitInv, <1>1, PTL DEF Spec

\* Every variable keeps its type: every line a cleanup writes is a record or
\* torn, and every adapter call names a command and a node.
THEOREM TypeCorrect == Spec => []TypeOK
<1>1. TypeInv => TypeOK
  BY DEF TypeInv
<1>2. QED
  BY Invariant, <1>1, PTL

\* What is on its way to the trash overlaps no path another running cleanup
\* has locked, for any number of requests, plans, retries, disconnects and
\* crashes.  (CleanupExecutionLocks)
THEOREM Exclusive == Spec => []ExclusiveCleanup
<1>1. LockInv => ExclusiveCleanup
  BY DEF LockInv, LocksApart, CommittedLocked, ExclusiveCleanup, Committed,
         Holding, HoldingPcs, WorkerPcs
<1>2. QED
  BY Invariant, <1>1, PTL

\* A worker's step leaves the other workers alone.
LEMMA WorkBecomes ==
  ASSUME TypeInv, NEW s \in Requests, Work(s)
  PROVE  \E w : Becomes(s, w)
<1>1. \A pc : Goto(s, pc) => Becomes(s, [worker[s] EXCEPT !.pc = pc])
  BY DEF Goto, Becomes, TypeInv, TypeOK
<1>2. \A answer : Return(s, answer) => Becomes(s, Returned(answer))
  BY DEF Return, Becomes, Returned
<1>3. \A record, w : Record(s, record, w) => \E x : Becomes(s, x)
  BY <1>2 DEF Record, Becomes
<1>4. CASE MoveToTrash(s)
  <2>1. PICK outcome : worker' = [worker EXCEPT ![s].pc = "outcome",
                                                ![s].outcome = outcome]
    BY <1>4 DEF MoveToTrash
  <2>2. Becomes(s, [worker[s] EXCEPT !.pc = "outcome", !.outcome = outcome])
    BY <2>1 DEF Becomes, TypeInv, TypeOK
  <2>3. QED
    BY <2>2
<1>5. CASE Summarise(s)
  <2>1. CASE \E answer : Return(s, answer)
    BY <1>2, <2>1
  <2>2. ASSUME NEW final, worker' = [worker EXCEPT ![s].pc = "finalize",
                                                   ![s].final = final]
        PROVE  \E w : Becomes(s, w)
    <3>1. Becomes(s, [worker[s] EXCEPT !.pc = "finalize", !.final = final])
      BY <2>2 DEF Becomes, TypeInv, TypeOK
    <3>2. QED
      BY <3>1
  <2>3. QED
    BY <1>5, <2>1, <2>2 DEF Summarise
<1>6. CASE CheckReceipt(s) \/ AcquirePaths(s) \/ TakePlan(s) \/ Revalidate(s)
            \/ Reply(s)
  BY <1>1, <1>2, <1>6
     DEF CheckReceipt, AcquirePaths, AcquireUnless, TakePlan, Revalidate, Reply
<1>7. CASE RecordIntent(s) \/ RecordSkeleton(s) \/ RecordBlocked(s)
            \/ RecordDispatch(s) \/ RecordOutcome(s) \/ Finalize(s)
  BY <1>3, <1>7 DEF RecordIntent, RecordSkeleton, RecordBlocked,
                    RecordDispatch, RecordOutcome, Finalize
<1>8. QED
  BY <1>4, <1>5, <1>6, <1>7 DEF Work

\* Only a move takes a worker from "trash" to "outcome".
LEMMA MoveStep ==
  ASSUME TypeInv, [Next]_vars, NEW r \in Requests,
         worker[r].pc = "trash", worker'[r].pc = "outcome"
  PROVE  MoveToTrash(r)
<1>1. ASSUME NEW s \in Requests, Work(s)
      PROVE  MoveToTrash(r)
  <2>1. PICK w : Becomes(s, w)
    BY <1>1, WorkBecomes
  <2>2. s = r
    BY <2>1 DEF Becomes, TypeInv, TypeOK
  <2>3. QED
    BY <1>1, <2>2
       DEF Work, CheckReceipt, AcquirePaths, AcquireUnless, TakePlan, RecordIntent,
           RecordSkeleton, Revalidate, RecordBlocked, RecordDispatch,
           RecordOutcome, Summarise, Finalize, Reply
<1>2. ASSUME NEW s \in Requests, SpawnWorker(s)
      PROVE  MoveToTrash(r)
  BY <1>2, ZenonT(60) DEF SpawnWorker, TypeInv, TypeOK, WorkerRecord
<1>3. CASE Crash
  BY <1>3 DEF Crash, NoWorker
<1>4. worker' # worker
  OBVIOUS
<1>5. QED
  BY <1>1, <1>2, <1>3, <1>4
     DEF Next, vars, CreatePlan, AcquireCommand, Handle, LookUpReceipt,
         Respond, Disconnect, Touch, Idle

LEMMA MoveSpares ==
  ASSUME TypeInv, LockInv, [Next]_vars, NEW q \in Requests, NEW r \in Requests,
         q # r, Holding(q), worker[r].pc = "trash", worker'[r].pc = "outcome",
         NEW m \in LockPaths(worker[q].plan)
  PROVE  disk'[m] = disk[m]
<1>1. MoveToTrash(r)
  BY MoveStep
<1>2. Item(r) \in LockPaths(worker[r].plan) /\ Holding(r)
  BY DEF LockInv, CommittedLocked, Committed, Holding, HoldingPcs, WorkerPcs
<1>3. ~Overlap(m, Item(r))
  BY <1>2 DEF LockInv, LocksApart
<1>4. m \in Nodes /\ m \notin Subtree(Item(r))
  BY <1>3, LockPathsType DEF Overlap, Subtree
<1>5. QED
  BY <1>1, <1>4 DEF MoveToTrash

\* A move never takes anything away from under another running cleanup.
\* (CleanupExecutionLocks, and the adapter moving whole subtrees)
THEOREM MovesSpare == Spec => MovesSpareOthers
<1>1. TypeInv /\ LockInv /\ [Next]_vars =>
        [\A q, r \in Requests :
           /\ q # r /\ Holding(q)
           /\ worker[r].pc = "trash" /\ worker'[r].pc = "outcome"
           => \A m \in LockPaths(worker[q].plan) : disk'[m] = disk[m]]_vars
  BY MoveSpares
<1>2. QED
  BY Invariant, <1>1, PTL DEF Spec, MovesSpareOthers

-----------------------------------------------------------------------------
(* A damaged journal stays damaged, and admits no worker. *)

LEMMA WrittenDamaged ==
  ASSUME NEW lines \in Seq(Lines), NEW e \in BOOLEAN, NEW line,
         ~Readable(lines)
  PROVE  ~Readable(Written(lines, e, line))
<1>1. PICK i \in DOMAIN lines : lines[i] = Torn
  BY DEF Readable
<1>2. CASE e
  <2>1. i \in DOMAIN Append(lines, line) /\ Append(lines, line)[i] = Torn
    BY <1>1
  <2>2. QED
    BY <1>2, <2>1 DEF Written, Readable
<1>3. CASE ~e
  BY <1>1, <1>3 DEF Written, Readable
<1>4. QED
  BY <1>2, <1>3

LEMMA AppendDamaged ==
  ASSUME NEW lines \in Seq(Lines), NEW e \in BOOLEAN, NEW record,
         ~Readable(lines)
  PROVE  /\ ~Readable(GoodAppend(lines, e, record).lines)
         /\ \A fault \in FaultKinds :
              ~Readable(FaultyAppend(lines, e, record, fault).lines)
<1>1. /\ ~Readable(Written(lines, e, record))
      /\ ~Readable(Written(lines, e, Torn))
  BY WrittenDamaged
<1>2. QED
  BY <1>1 DEF GoodAppend, FaultyAppend, FaultKinds

LEMMA DamageLasts ==
  ASSUME TypeInv, [Next]_vars, ~Readable(journal)
  PROVE  ~Readable(journal')
<1>1. journal \in Seq(Lines) /\ ended \in BOOLEAN /\ FaultSet \subseteq FaultKinds
  BY BoundAssumption DEF TypeInv, TypeOK
<1>2. \A record :
        /\ ~Readable(GoodAppend(journal, ended, record).lines)
        /\ \A fault \in FaultSet :
             ~Readable(FaultyAppend(journal, ended, record, fault).lines)
  BY <1>1, AppendDamaged
<1>3. \A r \in Requests : \A record, w :
        Record(r, record, w) => ~Readable(journal')
  BY <1>2 DEF Record
<1>4. CASE UNCHANGED journal
  BY <1>4
<1>5. ASSUME NEW r \in Requests, Work(r)
      PROVE  ~Readable(journal')
  BY <1>3, <1>4, <1>5
     DEF Work, CheckReceipt, AcquirePaths, AcquireUnless, TakePlan, RecordIntent,
         RecordSkeleton, Revalidate, RecordBlocked, RecordDispatch,
         MoveToTrash, RecordOutcome, Summarise, Finalize, Reply
<1>6. CASE Crash
  BY <1>2, <1>6 DEF Crash
<1>7. QED
  BY <1>4, <1>5, <1>6
     DEF Next, vars, CreatePlan, AcquireCommand, Handle, LookUpReceipt,
         SpawnWorker, Respond, Disconnect, Touch, Idle

LEMMA DamageAdmitsNone ==
  ASSUME TypeInv, [Next]_vars, ~Readable(journal), NEW r \in Requests,
         ~PastCheck(r)
  PROVE  ~PastCheck(r)'
<1>1. CASE UNCHANGED worker
  BY <1>1 DEF PastCheck, Live
<1>2. ASSUME NEW s \in Requests, Work(s)
      PROVE  ~PastCheck(r)'
  <2>1. PICK w : Becomes(s, w)
    BY <1>2, WorkBecomes
  <2>2. CASE s # r
    BY <2>1, <2>2 DEF Becomes, PastCheck, Live, TypeInv, TypeOK
  <2>3. CASE s = r
    <3>1. CheckReceipt(r) /\ Return(r, "storage")
      BY <1>2, <2>3
         DEF PastCheck, Live, Work, CheckReceipt, AcquirePaths, AcquireUnless, TakePlan,
             RecordIntent, RecordSkeleton, Revalidate, RecordBlocked,
             RecordDispatch, MoveToTrash, RecordOutcome, Summarise, Finalize,
             Reply
    <3>2. worker' = [worker EXCEPT ![r] = Returned("storage")]
      BY <3>1 DEF Return, Returned
    <3>3. worker'[r].pc = "done"
      BY <3>2, ReturnedType DEF Answers, TypeInv, TypeOK
    <3>4. QED
      BY <3>3 DEF PastCheck, Live
  <2>4. QED
    BY <2>2, <2>3
<1>3. ASSUME NEW s \in Requests, SpawnWorker(s)
      PROVE  ~PastCheck(r)'
  <2>1. ASSUME NEW plan, worker' = [worker EXCEPT ![s].pc = "check",
                                                  ![s].plan = plan]
        PROVE  ~PastCheck(r)'
    <3>1. CASE s = r
      BY <2>1, <3>1 DEF PastCheck, Live, TypeInv, TypeOK, WorkerRecord
    <3>2. CASE s # r
      BY <2>1, <3>2 DEF PastCheck, Live, TypeInv, TypeOK
    <3>3. QED
      BY <3>1, <3>2
  <2>2. QED
    BY <1>1, <1>3, <2>1 DEF SpawnWorker
<1>4. CASE Crash
  BY <1>4 DEF Crash, NoWorker, PastCheck, Live
<1>5. QED
  BY <1>1, <1>2, <1>3, <1>4
     DEF Next, vars, CreatePlan, AcquireCommand, Handle, LookUpReceipt,
         Respond, Disconnect, Touch, Idle

\* Once a line of the journal does not parse, it never parses again, and no
\* further worker gets past its look at the journal.  (FileCleanupJournal)
THEOREM DamageStops == Spec => DamageStopsCleanup
<1>1. TypeInv /\ LockInv /\ [Next]_vars =>
        [~Readable(journal) =>
           /\ ~Readable(journal')
           /\ \A r \in Requests : ~PastCheck(r) => ~PastCheck(r)']_vars
  BY DamageLasts, DamageAdmitsNone
<1>2. QED
  BY Invariant, <1>1, PTL DEF Spec, DamageStopsCleanup
=============================================================================
