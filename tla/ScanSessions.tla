---------------------------- MODULE ScanSessions ----------------------------
(***************************************************************************)
(* Scan sessions in clean-disk-server: the handlers of start, cancel and   *)
(* dispose requests, the blocking thread each scan runs on, the session    *)
(* registry they share, the admission counter, and the shutdown signal.    *)
(*                                                                         *)
(* Every access to the registry holds its mutex and is one step; between   *)
(* two such accesses of a handler or a scan anything may happen.  A session*)
(* id is allocated by a counter and never used again.                      *)
(***************************************************************************)
EXTENDS Naturals, Sequences, FiniteSets

CONSTANTS
  Sessions,   \* the ids of the start requests that may arrive
  Named,      \* the sessions that cancel and dispose requests name
  MaxScans    \* WorkerBudget::max_active_scans

ASSUME SessionAssumption == IsFiniteSet(Sessions) /\ Named \subseteq Sessions
ASSUME ScanAssumption == MaxScans \in Nat \ {0}

VARIABLES
  start,           \* where the start handler of each session is
  seen,            \* active_scans, as the handler last loaded it
  active,          \* RuntimeAdmissionController::active_scans
  status,          \* SessionRegistry::sessions, by what status reports
  cancelRequested, \* SessionRecord::cancel_requested
  canceled,        \* the CancellationToken of each session
  work,            \* where the scan thread of each session is
  outcome,         \* ScanSession::state, private to the thread
  told,            \* the lifecycle events published for each session
  dispose,         \* where a dispose handler that found the session is
  signal           \* shutdown_signal

vars == <<start, seen, active, status, cancelRequested, canceled, work,
          outcome, told, dispose, signal>>

-----------------------------------------------------------------------------
StartPcs == {"unused", "load", "exchange", "admitted", "inserted", "spawned",
             "invalid", "refused", "accepted", "panicked"}

Answered == {"invalid", "refused", "accepted", "panicked"}

WorkPcs == {"none", "check", "announce", "scanning", "recheck", "conclude",
            "complete", "release", "done"}

Outcomes == {"canceled", "completed", "failed"}

\* a record without a session reads as running
Statuses == {"absent", "running"} \cup Outcomes

Events == {"started", "snapshot_published", "canceled", "failed"}

\* the event that ends a session of each outcome
FinalEvent == [canceled |-> "canceled", completed |-> "snapshot_published",
               failed |-> "failed"]

\* The permit is moved from the handler into the scan thread.
HoldsPermit(s) == \/ start[s] \in {"admitted", "inserted"}
                  \/ work[s] \notin {"none", "done"}

Permits == {s \in Sessions : HoldsPermit(s)}

Init ==
  /\ start = [s \in Sessions |-> "unused"]
  /\ seen = [s \in Sessions |-> 0]
  /\ active = 0
  /\ status = [s \in Sessions |-> "absent"]
  /\ cancelRequested = [s \in Sessions |-> FALSE]
  /\ canceled = [s \in Sessions |-> FALSE]
  /\ work = [s \in Sessions |-> "none"]
  /\ outcome = [s \in Sessions |-> "running"]
  /\ told = [s \in Sessions |-> <<>>]
  /\ dispose = [s \in Sessions |-> "none"]
  /\ signal = "none"

-----------------------------------------------------------------------------
(* start_scan *)

\* allocate_session_id, then map_scan_request; the server stops accepting
\* only after the shutdown signal has been handled.
Request(s) ==
  /\ start[s] = "unused"
  /\ signal # "stopped"
  /\ \E next \in {"load", "invalid"} : start' = [start EXCEPT ![s] = next]
  /\ UNCHANGED <<seen, active, status, cancelRequested, canceled, work,
                 outcome, told, dispose, signal>>

\* a plausible mistake: the limit is compared off by one
LoadActiveOffByOne(s) ==
  /\ start[s] = "load"
  /\ seen' = [seen EXCEPT ![s] = active]
  /\ start' = [start EXCEPT ![s] =
                 IF active > MaxScans THEN "refused" ELSE "exchange"]
  /\ UNCHANGED <<active, status, cancelRequested, canceled, work, outcome,
                 told, dispose, signal>>

\* try_acquire_scan: the load, and the refusal when every scan slot is taken
LoadActive(s) ==
  /\ start[s] = "load"
  /\ seen' = [seen EXCEPT ![s] = active]
  /\ start' = [start EXCEPT ![s] =
                 IF active >= MaxScans THEN "refused" ELSE "exchange"]
  /\ UNCHANGED <<active, status, cancelRequested, canceled, work, outcome,
                 told, dispose, signal>>

\* a plausible mistake: store the increment without comparing
StoreIncrement(s) ==
  /\ start[s] = "exchange"
  /\ active' = seen[s] + 1
  /\ start' = [start EXCEPT ![s] = "admitted"]
  /\ UNCHANGED <<seen, status, cancelRequested, canceled, work, outcome, told,
                 dispose, signal>>

\* try_acquire_scan: the compare_exchange, tried again from the load
CompareExchange(s) ==
  /\ start[s] = "exchange"
  /\ IF active = seen[s]
     THEN /\ active' = active + 1
          /\ start' = [start EXCEPT ![s] = "admitted"]
     ELSE /\ start' = [start EXCEPT ![s] = "load"]
          /\ UNCHANGED active
  /\ UNCHANGED <<seen, status, cancelRequested, canceled, work, outcome, told,
                 dispose, signal>>

InsertRunning(s) ==
  /\ start[s] = "admitted"
  /\ start' = [start EXCEPT ![s] = "inserted"]
  /\ status' = [status EXCEPT ![s] = "running"]
  /\ UNCHANGED <<seen, active, cancelRequested, canceled, work, outcome, told,
                 dispose, signal>>

SpawnScan(s) ==
  /\ start[s] = "inserted"
  /\ start' = [start EXCEPT ![s] = "spawned"]
  /\ work' = [work EXCEPT ![s] = "check"]
  /\ UNCHANGED <<seen, active, status, cancelRequested, canceled, outcome,
                 told, dispose, signal>>

\* The status of the session for the response; a session that is no longer
\* there panics the handler.
ReadStatus(s) ==
  /\ start[s] = "spawned"
  /\ start' = [start EXCEPT ![s] =
                 IF status[s] = "absent" THEN "panicked" ELSE "accepted"]
  /\ UNCHANGED <<seen, active, status, cancelRequested, canceled, work,
                 outcome, told, dispose, signal>>

-----------------------------------------------------------------------------
(* The scan thread: ScanSession::start, complete, and the end of the permit *)

\* push_event: an event of a session that is gone is dropped
Tell(s, event) ==
  told' = IF status[s] = "absent" THEN told
          ELSE [told EXCEPT ![s] = Append(@, event)]

CheckBefore(s) ==
  /\ work[s] = "check"
  /\ IF canceled[s]
     THEN /\ outcome' = [outcome EXCEPT ![s] = "canceled"]
          /\ work' = [work EXCEPT ![s] = "conclude"]
     ELSE /\ work' = [work EXCEPT ![s] = "announce"]
          /\ UNCHANGED outcome
  /\ UNCHANGED <<start, seen, active, status, cancelRequested, canceled, told,
                 dispose, signal>>

Announce(s) ==
  /\ work[s] = "announce"
  /\ Tell(s, "started")
  /\ work' = [work EXCEPT ![s] = "scanning"]
  /\ UNCHANGED <<start, seen, active, status, cancelRequested, canceled,
                 outcome, dispose, signal>>

\* The backend returns a tree, a failure, or Canceled if it saw the token.
BackendReturns(s) ==
  /\ work[s] = "scanning"
  /\ \/ /\ work' = [work EXCEPT ![s] = "recheck"]
        /\ UNCHANGED outcome
     \/ /\ work' = [work EXCEPT ![s] = "conclude"]
        /\ \/ outcome' = [outcome EXCEPT ![s] = "failed"]
           \/ /\ canceled[s]
              /\ outcome' = [outcome EXCEPT ![s] = "canceled"]
  /\ UNCHANGED <<start, seen, active, status, cancelRequested, canceled, told,
                 dispose, signal>>

\* The last look at the token, before the snapshot is built.  The code sets
\* Completed after the event; nothing can tell, as the state is private.
CheckAfter(s) ==
  /\ work[s] = "recheck"
  /\ outcome' = [outcome EXCEPT ![s] =
                   IF canceled[s] THEN "canceled" ELSE "completed"]
  /\ work' = [work EXCEPT ![s] = "conclude"]
  /\ UNCHANGED <<start, seen, active, status, cancelRequested, canceled, told,
                 dispose, signal>>

Conclude(s) ==
  /\ work[s] = "conclude"
  /\ Tell(s, FinalEvent[outcome[s]])
  /\ work' = [work EXCEPT ![s] = "complete"]
  /\ UNCHANGED <<start, seen, active, status, cancelRequested, canceled,
                 outcome, dispose, signal>>

\* a plausible mistake: complete inserts the record it does not find
CompleteReviving(s) ==
  /\ work[s] = "complete"
  /\ status' = [status EXCEPT ![s] = outcome[s]]
  /\ work' = [work EXCEPT ![s] = "release"]
  /\ UNCHANGED <<start, seen, active, cancelRequested, canceled, outcome,
                 told, dispose, signal>>

\* a plausible mistake: complete looks at the token once more
CompleteByToken(s) ==
  /\ work[s] = "complete"
  /\ status' = IF status[s] = "absent" THEN status
               ELSE [status EXCEPT ![s] = IF canceled[s] THEN "canceled"
                                          ELSE outcome[s]]
  /\ work' = [work EXCEPT ![s] = "release"]
  /\ UNCHANGED <<start, seen, active, cancelRequested, canceled, outcome,
                 told, dispose, signal>>

\* SessionRegistry::complete: a disposed session stays away
Complete(s) ==
  /\ work[s] = "complete"
  /\ status' = IF status[s] = "absent" THEN status
               ELSE [status EXCEPT ![s] = outcome[s]]
  /\ work' = [work EXCEPT ![s] = "release"]
  /\ UNCHANGED <<start, seen, active, cancelRequested, canceled, outcome,
                 told, dispose, signal>>

\* a plausible mistake: the permit is kept with the record, which may be gone
ReleaseRecorded(s) ==
  /\ work[s] = "release"
  /\ status[s] # "absent"
  /\ active' = active - 1
  /\ work' = [work EXCEPT ![s] = "done"]
  /\ UNCHANGED <<start, seen, status, cancelRequested, canceled, outcome,
                 told, dispose, signal>>

\* ScanPermit::drop
ReleasePermit(s) ==
  /\ work[s] = "release"
  /\ active' = active - 1
  /\ work' = [work EXCEPT ![s] = "done"]
  /\ UNCHANGED <<start, seen, status, cancelRequested, canceled, outcome,
                 told, dispose, signal>>

-----------------------------------------------------------------------------
(* Other requests; one that names no session answers 404 and changes nothing *)

\* SessionRegistry::cancel
Cancel(s) ==
  /\ status[s] # "absent"
  /\ canceled' = [canceled EXCEPT ![s] = TRUE]
  /\ cancelRequested' = [cancelRequested EXCEPT ![s] =
                           @ \/ status[s] = "running"]
  /\ UNCHANGED <<start, seen, active, status, work, outcome, told, dispose,
                 signal>>

\* SessionRegistry::dispose: the record goes first
RemoveRecord(s) ==
  /\ status[s] # "absent"
  /\ status' = [status EXCEPT ![s] = "absent"]
  /\ cancelRequested' = [cancelRequested EXCEPT ![s] = FALSE]
  /\ dispose' = [dispose EXCEPT ![s] = "removed"]
  /\ UNCHANGED <<start, seen, active, canceled, work, outcome, told, signal>>

\* SessionRegistry::dispose: then the token of the removed record is set
CancelRemoved(s) ==
  /\ dispose[s] = "removed"
  /\ canceled' = [canceled EXCEPT ![s] = TRUE]
  /\ dispose' = [dispose EXCEPT ![s] = "disposed"]
  /\ UNCHANGED <<start, seen, active, status, cancelRequested, work, outcome,
                 told, signal>>

-----------------------------------------------------------------------------
(* shutdown_signal *)

\* a plausible mistake: only the tokens are set
CancelTokensOnly ==
  /\ signal = "none"
  /\ signal' = "canceled"
  /\ canceled' = [s \in Sessions |-> canceled[s] \/ status[s] = "running"]
  /\ UNCHANGED <<start, seen, active, status, cancelRequested, work, outcome,
                 told, dispose>>

\* cancel_all_running, under the registry's mutex
CancelAllRunning ==
  /\ signal = "none"
  /\ signal' = "canceled"
  /\ canceled' = [s \in Sessions |-> canceled[s] \/ status[s] = "running"]
  /\ cancelRequested' =
       [s \in Sessions |-> cancelRequested[s] \/ status[s] = "running"]
  /\ UNCHANGED <<start, seen, active, status, work, outcome, told, dispose>>

\* The graceful shutdown of axum: no new request is taken up, those that
\* were are finished.
StopAccepting ==
  /\ signal = "canceled"
  /\ signal' = "stopped"
  /\ UNCHANGED <<start, seen, active, status, cancelRequested, canceled, work,
                 outcome, told, dispose>>

-----------------------------------------------------------------------------
Handler(s) == \/ LoadActive(s) \/ CompareExchange(s) \/ InsertRunning(s)
              \/ SpawnScan(s) \/ ReadStatus(s)

Thread(s) == \/ CheckBefore(s) \/ Announce(s) \/ BackendReturns(s)
             \/ CheckAfter(s) \/ Conclude(s) \/ Complete(s)
             \/ ReleasePermit(s)

Next == \/ \E s \in Sessions : \/ Request(s) \/ Handler(s) \/ Thread(s)
                               \/ CancelRemoved(s)
        \/ \E s \in Named : Cancel(s) \/ RemoveRecord(s)
        \/ CancelAllRunning
        \/ StopAccepting

Spec == Init /\ [][Next]_vars

\* Handlers and scan threads are scheduled, and a backend returns.
Fairness == \A s \in Sessions : /\ WF_vars(Handler(s))
                                /\ WF_vars(Thread(s))
                                /\ WF_vars(CancelRemoved(s))

FairSpec == Spec /\ Fairness
-----------------------------------------------------------------------------
(* Safety *)

TypeOK ==
  /\ start \in [Sessions -> StartPcs]
  /\ seen \in [Sessions -> Nat]
  /\ active \in Nat
  /\ status \in [Sessions -> Statuses]
  /\ cancelRequested \in [Sessions -> BOOLEAN]
  /\ canceled \in [Sessions -> BOOLEAN]
  /\ work \in [Sessions -> WorkPcs]
  /\ outcome \in [Sessions -> {"running"} \cup Outcomes]
  /\ told \in [Sessions -> Seq(Events)]
  /\ dispose \in [Sessions -> {"none", "removed", "disposed"}]
  /\ signal \in {"none", "canceled", "stopped"}

\* The admission counter counts the permits that are out, through every race
\* of start handlers and every end of a scan, and never exceeds the budget;
\* in particular a disposed session keeps its permit until its thread ends,
\* so no two scans share a slot.  (RuntimeAdmissionController)
PermitsCounted ==
  /\ active = Cardinality(Permits)
  /\ active <= MaxScans

\* What a finished session reports is what its events said last: no session
\* that published its snapshot turns out canceled or failed, however a cancel
\* races with the end of the scan.  (ScanSession::start, complete)
EventsTellOutcome ==
  \A s \in Sessions :
    status[s] \in Outcomes =>
      /\ told[s] # <<>>
      /\ told[s][Len(told[s])] = FinalEvent[status[s]]

\* A session that reports canceled was asked to cancel, by a client or by the
\* shutdown.  (cancel, cancel_all_running, complete)
CanceledOnlyOnRequest ==
  \A s \in Sessions : status[s] = "canceled" => cancelRequested[s]

\* A session is announced running, then ends once, and can only disappear
\* afterwards: it does not come back after it was disposed, though its thread
\* may still be running.  (insert_running, complete, dispose)
MovesForward(s) ==
  \/ start[s] = "admitted" /\ status'[s] = "running"
  \/ status[s] = "running" /\ status'[s] \in Outcomes
  \/ status'[s] = "absent"

StatusMovesForward ==
  [][\A s \in Sessions : status'[s] # status[s] => MovesForward(s)]_vars

-----------------------------------------------------------------------------
(* Liveness *)

\* Every start request is answered: the compare_exchange loop does not starve,
\* and a session that was disposed meanwhile does not keep the handler.
StartIsAnswered ==
  \A s \in Sessions : start[s] = "load" ~> start[s] \in Answered

\* A running session does not run for ever: it ends or is disposed.
RunningEnds ==
  \A s \in Sessions : status[s] = "running" ~> status[s] # "running"

\* Every permit comes back, also that of a session that was disposed.
PermitsReturn ==
  \A s \in Sessions : HoldsPermit(s) ~> ~HoldsPermit(s)

-----------------------------------------------------------------------------
(* What documents and assertions say, and the code does not do *)

\* start_scan: "session was inserted before task spawn".  A client that saw
\* the started event can dispose the session before the handler reads its
\* status.
InsertedBeforeStatus == \A s \in Sessions : start[s] # "panicked"

\* preimplementation-critical-zones-deep-dive.md: the final state is queryable
\* before or when the final event is emitted.
EndIsQueryable ==
  \A s \in Sessions :
    (/\ status[s] # "absent"
     /\ \E i \in DOMAIN told[s] : told[s][i] # "started")
      => status[s] \in Outcomes

-----------------------------------------------------------------------------
(* Refinement *)

slotVerdict ==
  [s \in Sessions |->
     IF start[s] \in {"unused", "invalid", "load", "exchange"} THEN "none"
     ELSE IF start[s] = "refused" THEN "refused" ELSE "granted"]

SlotsPromise == INSTANCE ScanSlots WITH
  Scans <- Sessions, Slots <- MaxScans,
  holders <- Permits, verdict <- slotVerdict

\* The lock-free admission gives slots as a counter under a lock would: the
\* refusal takes effect at the load, the grant at the compare_exchange.
AdmissionKeepsPromise == SlotsPromise!SlotsSpec
=============================================================================
