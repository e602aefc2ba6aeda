-------------------------- MODULE CleanupExecution --------------------------
(***************************************************************************)
(* Executing cleanup plans in clean-disk-server: HTTP requests, the        *)
(* blocking workers they spawn, the two in-memory lock tables, the plan    *)
(* store, the durable journal, and the files themselves.                   *)
(*                                                                         *)
(* A request runs on the async runtime until it spawns its worker; then it *)
(* only waits.  A client that disconnects drops the waiting request and    *)
(* the command guard with it; the worker keeps running.  A crash loses     *)
(* every variable but journal, ended, disk and trashed.                    *)
(***************************************************************************)
EXTENDS CleanupJournal, SequencesExt

CONSTANTS
  Requests,       \* execute requests clients may send, retries included
  Confirmations,  \* the <<command, plan id>> pairs they may carry
  Inside,         \* <<child, parent>>: the path of child starts with parent's
  Versions,       \* what can be found at a path (its identity evidence)
  Eligible,       \* <<node, version>>: the static preflight checks pass
  PlanShapes,     \* the node lists plans are created for
  Absent,         \* nothing is at the path
  Blocked,        \* the preflight of a node failed
  StoreLimit,     \* CleanupPlanStore::max_len
  FaultSet,       \* the append faults that may occur
  MaxPlanId,      \* bound on plan ids allocated by one server process
  MaxFaults,      \* bound on append faults
  MaxCrashes,     \* bound on server crashes
  MaxTouches      \* bound on changes other programs make to files

ASSUME PathAssumption ==
  /\ Inside \subseteq Nodes \X Nodes
  /\ \A n \in Nodes : <<n, n>> \notin Inside

ASSUME ValueAssumption ==
  /\ Absent \notin Versions
  /\ Blocked \notin Versions

\* A plan that names an item twice is refused (has_duplicate_cleanup_item_refs).
Distinct(nodes) == \A i, j \in DOMAIN nodes : nodes[i] = nodes[j] => i = j

ASSUME PlanAssumption ==
  /\ PlanShapes \subseteq Seq(Nodes)
  /\ \A nodes \in PlanShapes : Distinct(nodes)
  /\ Confirmations \subseteq Commands \X Nat

ASSUME BoundAssumption ==
  /\ StoreLimit \in Nat \ {0}
  /\ MaxPlanId \in Nat
  /\ FaultSet \subseteq FaultKinds
  /\ MaxFaults \in Nat /\ MaxCrashes \in Nat /\ MaxTouches \in Nat

VARIABLES
  plans,           \* CleanupPlanStore: plan records, oldest first
  nextPlanId,      \* CleanupPlanStore::next_plan_id
  activeCommands,  \* CleanupExecutionLocks::active_commands
  activePaths,     \* CleanupExecutionLocks::active_paths
  request,         \* the execute handler of each request
  worker,          \* the blocking worker a request spawned
  journal,         \* lines of the journal file
  ended,           \* the last line of the file has its newline
  disk,            \* what is at the path of each node
  trashed,         \* calls of the trash adapter so far, as the system saw them
  spent            \* how much of each bound has been used

vars == <<plans, nextPlanId, activeCommands, activePaths, request, worker,
          journal, ended, disk, trashed, spent>>

-----------------------------------------------------------------------------
(* cleanup_paths_overlap *)
Overlap(m, n) == m = n \/ <<m, n>> \in Inside \/ <<n, m>> \in Inside

PlanRecord == [id : Nat, nodes : Seq(Nodes),
               preflight : [Nodes -> Versions \cup {Blocked}]]

NoPlan == [id |-> 0, nodes |-> <<>>, preflight |-> [n \in Nodes |-> Blocked]]

\* preflight_cleanup_candidate
Preflight(n) ==
  IF disk[n] # Absent /\ <<n, disk[n]>> \in Eligible THEN disk[n] ELSE Blocked

\* The paths an execution of the plan locks: those whose preflight passed.
LockPaths(plan) == {n \in Nodes : plan.preflight[n] # Blocked}

NodesOf(plan) == {plan.nodes[i] : i \in DOMAIN plan.nodes}

Answers == {"none", "receipt", "conflict", "not_found", "storage", "missing"}

RequestRecord == [pc : {"new", "guarded", "looked", "waiting", "answered",
                        "gone"},
                  cmd : Commands \cup {Absent}, planId : Nat,
                  answer : Answers]

\* worker pc: the next step of execute_cleanup_record
WorkerPcs == {"none", "check", "lock", "take", "intent", "skeleton", "item",
              "block", "dispatch", "trash", "outcome", "summarise",
              "finalize", "reply", "done"}

WorkerRecord == [pc : WorkerPcs, plan : PlanRecord, at : Nat \ {0},
                 outcome : ItemStates, final : FinalStates,
                 answer : Answers]

NoWorker == [pc |-> "none", plan |-> NoPlan, at |-> 1, outcome |-> "pending",
             final |-> "completed", answer |-> "none"]

\* the path guard is held from try_acquire to the return of the worker
HoldingPcs == WorkerPcs \ {"none", "check", "lock", "done"}
Holding(r) == worker[r].pc \in HoldingPcs

Live(r) == worker[r].pc \notin {"none", "done"}

\* the candidate a worker is at
Item(r) == worker[r].plan.nodes[worker[r].at]

Op(r) == request[r].cmd

-----------------------------------------------------------------------------
Init ==
  /\ plans = <<>>
  /\ nextPlanId = 1
  /\ activeCommands = {}
  /\ activePaths = {}
  /\ request = [r \in Requests |-> [pc |-> "new", cmd |-> Absent,
                                    planId |-> 0, answer |-> "none"]]
  /\ worker = [r \in Requests |-> NoWorker]
  /\ journal = <<>>
  /\ ended = TRUE
  /\ disk \in [Nodes -> Versions]
  /\ \A n \in Nodes : <<n, disk[n]>> \in Eligible
  /\ trashed = <<>>
  /\ spent = [faults |-> 0, crashes |-> 0, touches |-> 0]

-----------------------------------------------------------------------------
(* Plans *)

\* CleanupPlanStore::insert
Stored(plan) ==
  LET all == Append(plans, plan)
  IN IF Len(all) > StoreLimit THEN Tail(all) ELSE all

PlanFor(id) == CHOOSE i \in DOMAIN plans : plans[i].id = id
HasPlan(id) == \E i \in DOMAIN plans : plans[i].id = id

\* create_cleanup_plan: preflight every node, refuse overlapping items
CreatePlan(nodes) ==
  LET preflight == [n \in Nodes |-> IF \E i \in DOMAIN nodes : nodes[i] = n
                                    THEN Preflight(n) ELSE Blocked]
      plan == [id |-> nextPlanId, nodes |-> nodes, preflight |-> preflight]
  IN /\ nextPlanId <= MaxPlanId
     /\ nextPlanId' = nextPlanId + 1
     /\ \/ /\ \A m, n \in LockPaths(plan) : Overlap(m, n) => m = n
           /\ plans' = Stored(plan)
        \/ /\ \E m, n \in LockPaths(plan) : Overlap(m, n) /\ m # n
           /\ UNCHANGED plans
     /\ UNCHANGED <<activeCommands, activePaths, request, worker, journal,
                    ended, disk, trashed, spent>>

-----------------------------------------------------------------------------
(* execute_cleanup_plan, up to the spawn of the worker *)

Answer(r, answer) ==
  request' = [request EXCEPT ![r].pc = "answered", ![r].answer = answer]

\* A handler that returns early answers and drops its command guard.
ReturnEarly(r, answer) ==
  /\ Answer(r, answer)
  /\ activeCommands' = activeCommands \ {Op(r)}

\* try_acquire_command
AcquireCommand(r, cmd, planId) ==
  LET received == [request[r] EXCEPT !.cmd = cmd, !.planId = planId]
  IN /\ request[r].pc = "new"
     /\ \/ /\ cmd \in activeCommands
           /\ request' = [request EXCEPT ![r] =
                [received EXCEPT !.pc = "answered", !.answer = "conflict"]]
           /\ UNCHANGED activeCommands
        \/ /\ cmd \notin activeCommands
           /\ request' = [request EXCEPT ![r] =
                [received EXCEPT !.pc = "guarded"]]
           /\ activeCommands' = activeCommands \cup {cmd}
     /\ UNCHANGED <<plans, nextPlanId, activePaths, worker, journal, ended,
                    disk, trashed, spent>>

\* the first receipt_for_command
LookUpReceipt(r) ==
  /\ request[r].pc = "guarded"
  /\ \/ ~Readable(journal) /\ ReturnEarly(r, "storage")
     \/ Readable(journal) /\ HasReceipt(journal, Op(r)) /\ ReturnEarly(r, "receipt")
     \/ /\ Readable(journal) /\ ~HasReceipt(journal, Op(r))
        /\ request' = [request EXCEPT ![r].pc = "looked"]
        /\ UNCHANGED activeCommands
  /\ UNCHANGED <<plans, nextPlanId, activePaths, worker, journal, ended, disk,
                 trashed, spent>>

\* Mutant: a request whose plan is not there waits for it.
SpawnWorkerWaiting(r) ==
  /\ request[r].pc = "looked"
  /\ \/ ~HasPlan(request[r].planId) /\ UNCHANGED <<request, worker>>
     \/ /\ HasPlan(request[r].planId)
        /\ request' = [request EXCEPT ![r].pc = "waiting"]
        /\ worker' = [worker EXCEPT ![r].pc = "check",
                        ![r].plan = plans[PlanFor(request[r].planId)]]
  /\ UNCHANGED <<plans, nextPlanId, activeCommands, activePaths, journal,
                 ended, disk, trashed, spent>>

\* CleanupPlanStore::get, then spawn_blocking with a copy of the plan
SpawnWorker(r) ==
  /\ request[r].pc = "looked"
  /\ \/ /\ ~HasPlan(request[r].planId)
        /\ ReturnEarly(r, "not_found")
        /\ UNCHANGED worker
     \/ /\ HasPlan(request[r].planId)
        /\ request' = [request EXCEPT ![r].pc = "waiting"]
        /\ worker' = [worker EXCEPT ![r].pc = "check",
                        ![r].plan = plans[PlanFor(request[r].planId)]]
        /\ UNCHANGED activeCommands
  /\ UNCHANGED <<plans, nextPlanId, activePaths, journal, ended, disk,
                 trashed, spent>>

\* the handler resumes when its worker has returned
Respond(r) ==
  /\ request[r].pc = "waiting"
  /\ worker[r].pc = "done"
  /\ ReturnEarly(r, worker[r].answer)
  /\ UNCHANGED <<plans, nextPlanId, activePaths, worker, journal, ended, disk,
                 trashed, spent>>

\* The connection closes: the handler future, which owns the command guard,
\* is dropped.  The blocking worker is not cancelled.
Disconnect(r) ==
  /\ request[r].pc = "waiting"
  /\ request' = [request EXCEPT ![r].pc = "gone"]
  /\ activeCommands' = activeCommands \ {Op(r)}
  /\ UNCHANGED <<plans, nextPlanId, activePaths, worker, journal, ended, disk,
                 trashed, spent>>

-----------------------------------------------------------------------------
(* execute_cleanup_record, on the blocking worker *)

unchangedByWorker == <<nextPlanId, activeCommands, request>>

Goto(r, pc) == worker' = [worker EXCEPT ![r].pc = pc]

\* Mutant: the path guard is forgotten, not dropped.
ReturnHoldingPaths(r, answer) ==
  /\ worker' = [worker EXCEPT
                  ![r] = [NoWorker EXCEPT !.pc = "done", !.answer = answer]]
  /\ UNCHANGED activePaths

\* The worker returns; its path guard, when it holds one, is dropped.
Return(r, answer) ==
  /\ worker' = [worker EXCEPT
                  ![r] = [NoWorker EXCEPT !.pc = "done", !.answer = answer]]
  /\ activePaths' = IF Holding(r)
                    THEN activePaths \ LockPaths(worker[r].plan)
                    ELSE activePaths

\* Mutant: a journal that cannot be read counts as one without a receipt.
CheckReceiptLenient(r) ==
  /\ worker[r].pc = "check"
  /\ \/ Readable(journal) /\ HasReceipt(journal, Op(r)) /\ Return(r, "receipt")
     \/ /\ ~Readable(journal) \/ ~HasReceipt(journal, Op(r))
        /\ Goto(r, "lock")
        /\ UNCHANGED activePaths
  /\ UNCHANGED unchangedByWorker
  /\ UNCHANGED <<plans, journal, ended, disk, trashed, spent>>

\* the second receipt_for_command
CheckReceipt(r) ==
  /\ worker[r].pc = "check"
  /\ \/ ~Readable(journal) /\ Return(r, "storage")
     \/ Readable(journal) /\ HasReceipt(journal, Op(r)) /\ Return(r, "receipt")
     \/ /\ Readable(journal) /\ ~HasReceipt(journal, Op(r))
        /\ Goto(r, "lock")
        /\ UNCHANGED activePaths
  /\ UNCHANGED unchangedByWorker
  /\ UNCHANGED <<plans, journal, ended, disk, trashed, spent>>

\* A worker locks the paths of its plan, unless one is taken.
AcquireUnless(r, taken) ==
  /\ worker[r].pc = "lock"
  /\ \/ taken /\ Return(r, "conflict")
     \/ /\ ~taken
        /\ activePaths' = activePaths \cup LockPaths(worker[r].plan)
        /\ Goto(r, "take")
  /\ UNCHANGED unchangedByWorker
  /\ UNCHANGED <<plans, journal, ended, disk, trashed, spent>>

\* Mutant: a path conflicts with those that contain it, not with those inside.
AcquireUnlessContained(r) ==
  AcquireUnless(r, \E m \in LockPaths(worker[r].plan), n \in activePaths :
                     m = n \/ <<m, n>> \in Inside)

\* CleanupExecutionLocks::try_acquire
AcquirePaths(r) ==
  AcquireUnless(r, \E m \in LockPaths(worker[r].plan), n \in activePaths :
                     Overlap(m, n))

MayFail == spent.faults < MaxFaults
Fail == spent' = [spent EXCEPT !.faults = @ + 1]

\* Mutant: the plan is looked up with get and stays in the store.
TakePlanByGet(r) ==
  /\ worker[r].pc = "take"
  /\ \/ ~HasPlan(worker[r].plan.id) /\ Return(r, "not_found")
     \/ HasPlan(worker[r].plan.id) /\ Goto(r, "intent") /\ UNCHANGED activePaths
  /\ UNCHANGED unchangedByWorker
  /\ UNCHANGED <<plans, journal, ended, disk, trashed, spent>>

\* ensure_ready, then CleanupPlanStore::take
TakePlan(r) ==
  /\ worker[r].pc = "take"
  /\ \/ /\ MayFail /\ "refused" \in FaultSet /\ Fail
        /\ Return(r, "storage")
        /\ UNCHANGED plans
     \/ /\ ~HasPlan(worker[r].plan.id)
        /\ Return(r, "not_found")
        /\ UNCHANGED <<plans, spent>>
     \/ /\ HasPlan(worker[r].plan.id)
        /\ plans' = RemoveAt(plans, PlanFor(worker[r].plan.id))
        /\ Goto(r, "intent")
        /\ UNCHANGED <<activePaths, spent>>
  /\ UNCHANGED unchangedByWorker
  /\ UNCHANGED <<journal, ended, disk, trashed>>

\* Append one record; go on when it succeeds, return 507 when it does not.
Record(r, record, next) ==
  /\ \/ LET result == GoodAppend(journal, ended, record)
        IN /\ journal' = result.lines /\ ended' = result.ended
           /\ worker' = [worker EXCEPT ![r] = next]
           /\ UNCHANGED <<activePaths, spent>>
     \/ \E fault \in FaultSet :
          LET result == FaultyAppend(journal, ended, record, fault)
          IN /\ MayFail /\ Fail
             /\ journal' = result.lines /\ ended' = result.ended
             /\ Return(r, "storage")
  /\ UNCHANGED unchangedByWorker
  /\ UNCHANGED <<plans, disk, trashed>>

At(r, pc) == [worker[r] EXCEPT !.pc = pc]
NextItem(r) == [worker[r] EXCEPT !.pc = "item", !.at = @ + 1]

RecordIntent(r) ==
  /\ worker[r].pc = "intent"
  /\ Record(r, [kind |-> "intent", op |-> Op(r),
                nodes |-> NodesOf(worker[r].plan)], At(r, "skeleton"))

RecordSkeleton(r) ==
  /\ worker[r].pc = "skeleton"
  /\ Record(r, [kind |-> "skeleton", op |-> Op(r),
                nodes |-> NodesOf(worker[r].plan)], At(r, "item"))

\* The head of the candidate loop: the initial preflight, the revalidation
\* and the comparison of the two decide between blocking and dispatching.
Revalidate(r) ==
  /\ worker[r].pc = "item"
  /\ \/ worker[r].at > Len(worker[r].plan.nodes) /\ Goto(r, "summarise")
     \/ LET initial == worker[r].plan.preflight[Item(r)]
        IN /\ worker[r].at <= Len(worker[r].plan.nodes)
           /\ IF initial = Blocked \/ Preflight(Item(r)) # initial
              THEN Goto(r, "block")
              ELSE Goto(r, "dispatch")
  /\ UNCHANGED unchangedByWorker
  /\ UNCHANGED <<plans, activePaths, journal, ended, disk, trashed, spent>>

Outcome(r, state) ==
  [kind |-> "outcome", op |-> Op(r), node |-> Item(r), state |-> state]

RecordBlocked(r) ==
  /\ worker[r].pc = "block"
  /\ Record(r, Outcome(r, "blocked"), NextItem(r))

RecordDispatch(r) ==
  /\ worker[r].pc = "dispatch"
  /\ Record(r, [kind |-> "dispatch", op |-> Op(r), node |-> Item(r)],
            At(r, "trash"))

\* What moving a path takes with it: the path and everything under it.
Subtree(n) == {m \in Nodes : m = n \/ <<m, n>> \in Inside}

\* The trash adapter moves what is at the path now, or reports a failure.
MoveToTrash(r) ==
  /\ worker[r].pc = "trash"
  /\ \E moved \in BOOLEAN :
       /\ moved => disk[Item(r)] # Absent
       /\ disk' = [n \in Nodes |-> IF moved /\ n \in Subtree(Item(r))
                                   THEN Absent ELSE disk[n]]
       /\ trashed' = Append(trashed, [op |-> Op(r), node |-> Item(r),
                                      moved |-> moved])
       /\ worker' = [worker EXCEPT ![r].pc = "outcome",
                       ![r].outcome = IF moved THEN "moved_to_trash"
                                               ELSE "failed"]
  /\ UNCHANGED unchangedByWorker
  /\ UNCHANGED <<plans, activePaths, journal, ended, spent>>

\* Mutant: every outcome is written as a move.
RecordOutcomeOfMove(r) ==
  /\ worker[r].pc = "outcome"
  /\ Record(r, Outcome(r, "moved_to_trash"), NextItem(r))

RecordOutcome(r) ==
  /\ worker[r].pc = "outcome"
  /\ Record(r, Outcome(r, worker[r].outcome), NextItem(r))

\* receipt_for_command after the loop, and cleanup_final_state of it
Summarise(r) ==
  /\ worker[r].pc = "summarise"
  /\ \/ ~Readable(journal) /\ Return(r, "storage")
     \/ Readable(journal) /\ ~HasReceipt(journal, Op(r)) /\ Return(r, "missing")
     \/ /\ Readable(journal) /\ HasReceipt(journal, Op(r))
        /\ worker' = [worker EXCEPT ![r].pc = "finalize",
                        ![r].final = FinalState(ReceiptFor(journal, Op(r)))]
        /\ UNCHANGED activePaths
  /\ UNCHANGED unchangedByWorker
  /\ UNCHANGED <<plans, journal, ended, disk, trashed, spent>>

Finalize(r) ==
  /\ worker[r].pc = "finalize"
  /\ Record(r, [kind |-> "finalized", op |-> Op(r),
                state |-> worker[r].final], At(r, "reply"))

\* the last receipt_for_command
Reply(r) ==
  /\ worker[r].pc = "reply"
  /\ \/ ~Readable(journal) /\ Return(r, "storage")
     \/ Readable(journal) /\ ~HasReceipt(journal, Op(r)) /\ Return(r, "missing")
     \/ Readable(journal) /\ HasReceipt(journal, Op(r)) /\ Return(r, "receipt")
  /\ UNCHANGED unchangedByWorker
  /\ UNCHANGED <<plans, journal, ended, disk, trashed, spent>>

-----------------------------------------------------------------------------
(* The environment *)

\* Another program replaces or removes what is at a path.
Touch(n) ==
  /\ spent.touches < MaxTouches
  /\ \E version \in (Versions \cup {Absent}) \ {disk[n]} :
       disk' = [disk EXCEPT ![n] = version]
  /\ spent' = [spent EXCEPT !.touches = @ + 1]
  /\ UNCHANGED <<plans, nextPlanId, activeCommands, activePaths, request,
                 worker, journal, ended, trashed>>

\* The record a worker is about to append.
PendingRecord(r) ==
  CASE worker[r].pc \in {"intent", "skeleton"} ->
         {[kind |-> worker[r].pc, op |-> Op(r),
           nodes |-> NodesOf(worker[r].plan)]}
    [] worker[r].pc = "block" -> {Outcome(r, "blocked")}
    [] worker[r].pc = "dispatch" ->
         {[kind |-> "dispatch", op |-> Op(r), node |-> Item(r)]}
    [] worker[r].pc = "outcome" -> {Outcome(r, worker[r].outcome)}
    [] worker[r].pc = "finalize" ->
         {[kind |-> "finalized", op |-> Op(r), state |-> worker[r].final]}
    [] OTHER -> {}

\* The server stops between two steps, or inside an append, and starts again
\* with empty memory.  Connections are lost.
Crash ==
  /\ spent.crashes < MaxCrashes
  /\ spent' = [spent EXCEPT !.crashes = @ + 1]
  /\ \/ UNCHANGED <<journal, ended>>
     \/ \E r \in Requests : \E record \in PendingRecord(r) :
          \E fault \in FaultSet :
            LET result == FaultyAppend(journal, ended, record, fault)
            IN journal' = result.lines /\ ended' = result.ended
  /\ plans' = <<>>
  /\ nextPlanId' = 1
  /\ activeCommands' = {}
  /\ activePaths' = {}
  /\ request' = [r \in Requests |->
                   IF request[r].pc \in {"guarded", "looked", "waiting"}
                   THEN [request[r] EXCEPT !.pc = "gone"] ELSE request[r]]
  /\ worker' = [r \in Requests |-> NoWorker]
  /\ UNCHANGED <<disk, trashed>>

\* Every request slot is used up and every worker has returned: the server
\* is idle.
Idle ==
  /\ nextPlanId > MaxPlanId
  /\ \A r \in Requests : request[r].pc \in {"answered", "gone"} /\ ~Live(r)
  /\ UNCHANGED vars

-----------------------------------------------------------------------------
Handle(r) == LookUpReceipt(r) \/ SpawnWorker(r) \/ Respond(r)

Work(r) ==
  \/ CheckReceipt(r) \/ AcquirePaths(r) \/ TakePlan(r)
  \/ RecordIntent(r) \/ RecordSkeleton(r)
  \/ Revalidate(r) \/ RecordBlocked(r) \/ RecordDispatch(r)
  \/ MoveToTrash(r) \/ RecordOutcome(r)
  \/ Summarise(r) \/ Finalize(r) \/ Reply(r)

Next ==
  \/ \E nodes \in PlanShapes : CreatePlan(nodes)
  \/ \E r \in Requests : \E c \in Confirmations :
       AcquireCommand(r, c[1], c[2])
  \/ \E r \in Requests : Handle(r) \/ Work(r) \/ Disconnect(r)
  \/ \E n \in Nodes : Touch(n)
  \/ Crash
  \/ Idle

Spec == Init /\ [][Next]_vars

\* The runtime polls a ready handler, and a blocking thread runs its closure
\* to the end; at most one of the two can go on at a time.  Nothing makes a
\* client send, wait or leave.
FairSpec ==
  /\ Spec
  /\ \A r \in Requests : WF_vars(Handle(r) \/ Work(r))

-----------------------------------------------------------------------------
TypeOK ==
  /\ plans \in Seq(PlanRecord)
  /\ nextPlanId \in Nat
  /\ activeCommands \in SUBSET Commands
  /\ activePaths \in SUBSET Nodes
  /\ request \in [Requests -> RequestRecord]
  /\ worker \in [Requests -> WorkerRecord]
  /\ journal \in Seq(Lines)
  /\ ended \in BOOLEAN
  /\ disk \in [Nodes -> Versions \cup {Absent}]
  /\ trashed \in Seq([op : Commands, node : Nodes, moved : BOOLEAN])
  /\ spent \in [faults : Nat, crashes : Nat, touches : Nat]
-----------------------------------------------------------------------------
(* Safety *)

\* The worker has revalidated its current item and goes on to move it.
Committed(r) == worker[r].pc \in {"dispatch", "trash"}

\* An item on its way to the trash overlaps no path that another running
\* cleanup has locked, whatever plans, retries and disconnects led there.
\* (CleanupExecutionLocks: try_acquire and the drop of CleanupExecutionGuard)
ExclusiveCleanup ==
  \A q, r \in Requests :
    q # r /\ Committed(q) /\ Holding(r) =>
      \A m \in LockPaths(worker[r].plan) : ~Overlap(Item(q), m)

\* A move takes nothing away from under another running cleanup: the paths it
\* has locked keep what they held.  (the lock paths, which cover directories,
\* and the adapter, which moves whole subtrees)
MovesSpareOthers ==
  [][\A q, r \in Requests :
       /\ q # r /\ Holding(q)
       /\ worker[r].pc = "trash" /\ worker'[r].pc = "outcome"
       => \A m \in LockPaths(worker[q].plan) : disk'[m] = disk[m]]_vars

\* While the trash adapter works on an item, a reader of the journal, after a
\* crash for instance, learns that the item was dispatched and that its fate
\* is unknown.  (the order of the appends in execute_cleanup_record)
DispatchMarkerDurable ==
  \A r \in Requests : worker[r].pc = "trash" =>
    /\ Readable(journal)
    /\ HasReceipt(journal, Op(r))
    /\ Item(r) \in ReceiptNodes(journal, Op(r))
    /\ ItemReport(journal, Op(r), Item(r)) = "unknown_requires_review"

CallsFor(op, n) ==
  {i \in DOMAIN trashed : trashed[i].op = op /\ trashed[i].node = n}

\* A command asks for an item to be moved at most once, however often it is
\* retried, before or after a crash.  (the journal lookups and
\* CleanupPlanStore::take)
AtMostOneCall ==
  \A op \in Commands, n \in Nodes : Cardinality(CallsFor(op, n)) <= 1

\* What a receipt may say of an item, given the adapter calls made for it.
HonestItem(state, calls) ==
  CASE state \in {"pending", "blocked"} -> calls = {}
    [] state = "moved_to_trash" -> \E i \in calls : trashed[i].moved
    [] state = "failed" -> calls # {} /\ \A i \in calls : ~trashed[i].moved
    [] OTHER -> TRUE

\* At every moment the receipts that could be rebuilt from the file agree
\* with what was done to the files: nothing that was moved is reported as
\* untouched, blocked or failed, nothing is reported as moved that was not,
\* and no call is missing from the receipts.  (execute_cleanup_record and
\* build_cleanup_receipts together)
HonestReceipts ==
  Readable(journal) =>
    /\ \A op \in Commands : HasReceipt(journal, op) =>
         \A n \in ReceiptNodes(journal, op) :
           HonestItem(ItemReport(journal, op, n), CallsFor(op, n))
    /\ \A i \in DOMAIN trashed :
         /\ HasReceipt(journal, trashed[i].op)
         /\ trashed[i].node \in ReceiptNodes(journal, trashed[i].op)

\* Whatever could not be resolved is offered for review: a cleanup that no
\* worker runs any more and that was cut short, or left an item in doubt, is
\* in the recovery inbox.  (build_cleanup_receipts, recovery_inbox)
CutShort(op) ==
  /\ HasReceipt(journal, op)
  /\ \A r \in Requests : Live(r) => Op(r) # op
  /\ \A i \in DOMAIN journal :
       ~(journal[i].kind = "finalized" /\ journal[i].op = op)

InboxHoldsCutShort ==
  Readable(journal) =>
    \A op \in Commands : CutShort(op) => op \in RecoveryInbox(journal)

Finalized(lines, op) ==
  \E i \in DOMAIN lines : lines[i] # Torn /\ lines[i].kind = "finalized"
                            /\ lines[i].op = op

\* A receipt that was finalized never changes again.  (a worker of the same
\* command that comes late would append to it)
FinalReceiptStable ==
  [][\A op \in Commands :
       Finalized(journal, op) /\ Readable(journal) /\ Readable(journal') =>
         ReceiptFor(journal', op) = ReceiptFor(journal, op)]_vars

\* The worker has passed its own look at the journal.
PastCheck(r) == Live(r) /\ worker[r].pc # "check"

\* A journal that does not parse stops every cleanup that has not looked at
\* it yet: the adapter is only called by workers that got past their look
\* before the damage.  (records fails, so do both receipt_for_command calls)
DamageStopsCleanup ==
  [][~Readable(journal) =>
       /\ ~Readable(journal')
       /\ \A r \in Requests : ~PastCheck(r) => ~PastCheck(r)']_vars

-----------------------------------------------------------------------------
(* Liveness *)

\* Path locks and command guards do not outlive the work: once clients stop
\* sending, all are given back.  (the Drop implementations of the guards)
LocksDrain == <>[](activePaths = {} /\ activeCommands = {})

\* A request that the handler took up is answered, unless its client leaves
\* or the server crashes.
TakenUpIsAnswered ==
  \A r \in Requests :
    request[r].pc = "guarded" ~> request[r].pc \in {"answered", "gone"}
-----------------------------------------------------------------------------
(* What a document says, and the code does not do *)

\* implementation-edge-cases-cleanup-delete-safety.md: an idempotency key
\* stands for one payload, so a request is answered with a stored receipt only
\* if that receipt is about the items of its own plan.
KeyBoundToPlan ==
  [][\A r \in Requests :
       /\ request[r].pc = "guarded" /\ request'[r].answer = "receipt"
       /\ HasPlan(request[r].planId)
       => ReceiptNodes(journal, Op(r)) =
            NodesOf(plans[PlanFor(request[r].planId)])]_vars
=============================================================================
