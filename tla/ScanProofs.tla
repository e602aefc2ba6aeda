----------------------------- MODULE ScanProofs -----------------------------
(***************************************************************************)
(* Proofs about ScanSessions, for every finite set of sessions and every   *)
(* scan budget: types, the admission counter and the slots it implements,  *)
(* and what a finished session reports; and about GrowingTree, for every   *)
(* finite tree and all bounds: types, and what the client is shown.        *)
(***************************************************************************)
EXTENDS ScanSessions, GrowingTree, FiniteSetTheorems, SequenceTheorems,
        FoldLemmas, TLAPS

(* The inductive invariant. *)

\* Before its record is inserted nobody can name a session.
Early == {"unused", "load", "exchange", "admitted"}

StartInv ==
  \A s \in Sessions :
    /\ start[s] \in Early =>
         /\ status[s] = "absent" /\ dispose[s] = "none"
         /\ ~canceled[s] /\ outcome[s] = "running"
    /\ start[s] \in Early \cup {"inserted"} => work[s] = "none"

\* A handler that is about to exchange saw a free slot; if nothing changed
\* since, there still is one.
SlotInv ==
  /\ PermitsCounted
  /\ \A s \in Sessions : start[s] = "exchange" => seen[s] < MaxScans

Ended == {"conclude", "complete", "release", "done"}

LastTold(s) == told[s][Len(told[s])]

RecordInv ==
  \A s \in Sessions :
    /\ dispose[s] # "none" => status[s] = "absent"
    /\ work[s] \in Ended => outcome[s] \in Outcomes
    /\ status[s] \in Outcomes =>
         work[s] \in {"release", "done"} /\ outcome[s] = status[s]
    /\ status[s] # "absent" /\ work[s] \in Ended \ {"conclude"} =>
         told[s] # <<>> /\ LastTold(s) = FinalEvent[outcome[s]]

\* A set token, and the outcome a thread takes from it, go back to a request.
TokenInv ==
  \A s \in Sessions :
    /\ status[s] = "running" /\ canceled[s] => cancelRequested[s]
    /\ status[s] # "absent" /\ outcome[s] = "canceled" => cancelRequested[s]

Inv == TypeOK /\ StartInv /\ SlotInv /\ RecordInv /\ TokenInv

-----------------------------------------------------------------------------
LEMMA InitInv == Init => Inv
<1> SUFFICES ASSUME Init PROVE Inv
  OBVIOUS
<1>1. TypeOK /\ StartInv /\ RecordInv /\ TokenInv
  BY DEF Init, TypeOK, StartInv, RecordInv, TokenInv, StartPcs, WorkPcs,
         Statuses, Outcomes, Events, Early, Ended
<1>2. Permits = {}
  BY DEF Init, Permits, HoldsPermit
<1>3. SlotInv
  BY <1>2, FS_EmptySet, ScanAssumption DEF Init, SlotInv, PermitsCounted
<1>4. QED
  BY <1>1, <1>3 DEF Inv

(* The admission counter. *)

LEMMA PermitsFinite == IsFiniteSet(Permits) /\ Cardinality(Permits) \in Nat
BY SessionAssumption, FS_Subset, FS_CardinalityType DEF Permits

\* A handler takes a permit that was not out.
LEMMA PermitTaken ==
  ASSUME Inv, NEW s \in Sessions, CompareExchange(s), active = seen[s]
  PROVE  /\ Permits' = Permits \cup {s}
         /\ s \notin Permits
<1>1. work[s] = "none" /\ start[s] = "exchange"
  BY DEF Inv, StartInv, CompareExchange, Early
<1>2. s \notin Permits
  BY <1>1 DEF Permits, HoldsPermit
<1>3. work' = work /\ start' = [start EXCEPT ![s] = "admitted"]
  BY DEF CompareExchange
<1>4. QED
  BY <1>1, <1>2, <1>3 DEF Inv, TypeOK, Permits, HoldsPermit

\* A thread gives back the permit it holds.
LEMMA PermitReturned ==
  ASSUME Inv, NEW s \in Sessions, ReleasePermit(s)
  PROVE  /\ Permits' = Permits \ {s}
         /\ s \in Permits
<1>1. start[s] \notin {"admitted", "inserted"} /\ work[s] = "release"
  BY DEF Inv, StartInv, ReleasePermit, Early
<1>2. s \in Permits
  BY <1>1 DEF Permits, HoldsPermit
<1>3. start' = start /\ work' = [work EXCEPT ![s] = "done"]
  BY DEF ReleasePermit
<1>4. QED
  BY <1>1, <1>2, <1>3 DEF Inv, TypeOK, Permits, HoldsPermit

\* Every other step leaves the permits where they are.
LEMMA PermitsKept ==
  ASSUME Inv, [Next]_vars,
         \A s \in Sessions : ~ReleasePermit(s),
         \A s \in Sessions : CompareExchange(s) => active # seen[s]
  PROVE  Permits' = Permits /\ active' = active
<1> USE DEF Inv, TypeOK, Permits, HoldsPermit
<1>1. ASSUME NEW s \in Sessions, Request(s) \/ LoadActive(s)
      PROVE  Permits' = Permits /\ active' = active
  <2>1. /\ work' = work /\ active' = active
        /\ \E pc \in {"load", "invalid", "refused", "exchange"} :
             start' = [start EXCEPT ![s] = pc]
        /\ start[s] \in {"unused", "load"}
    BY <1>1 DEF Request, LoadActive
  <2>2. QED
    BY <2>1
<1>2. ASSUME NEW s \in Sessions, CompareExchange(s)
      PROVE  Permits' = Permits /\ active' = active
  <2>1. /\ start' = [start EXCEPT ![s] = "load"] /\ start[s] = "exchange"
        /\ work' = work /\ active' = active
    BY <1>2 DEF CompareExchange
  <2>2. QED
    BY <2>1
<1>3. ASSUME NEW s \in Sessions, InsertRunning(s)
      PROVE  Permits' = Permits /\ active' = active
  BY <1>3 DEF InsertRunning
<1>4. ASSUME NEW s \in Sessions, SpawnScan(s)
      PROVE  Permits' = Permits /\ active' = active
  BY <1>4 DEF SpawnScan
<1>5. ASSUME NEW s \in Sessions, ReadStatus(s)
      PROVE  Permits' = Permits /\ active' = active
  <2>1. /\ work' = work /\ active' = active
        /\ \E pc \in {"panicked", "accepted"} :
             start' = [start EXCEPT ![s] = pc]
        /\ start[s] = "spawned"
    BY <1>5 DEF ReadStatus
  <2>2. QED
    BY <2>1
<1>6. ASSUME NEW s \in Sessions, Thread(s)
      PROVE  Permits' = Permits /\ active' = active
  <2>1. /\ start' = start /\ active' = active
        /\ \E pc \in WorkPcs \ {"none", "done"} :
             work' = [work EXCEPT ![s] = pc]
        /\ work[s] \notin {"none", "done"}
    BY <1>6 DEF Thread, CheckBefore, Announce, BackendReturns, CheckAfter,
                Conclude, Complete, WorkPcs
  <2>2. QED
    BY <2>1
<1>7. ASSUME \/ \E s \in Sessions : Cancel(s) \/ RemoveRecord(s) \/ CancelRemoved(s)
             \/ CancelAllRunning \/ StopAccepting \/ UNCHANGED vars
      PROVE  Permits' = Permits /\ active' = active
  BY <1>7 DEF Cancel, RemoveRecord, CancelRemoved, CancelAllRunning, StopAccepting,
              vars
<1>8. QED
  BY <1>1, <1>2, <1>3, <1>4, <1>5, <1>6, <1>7, SessionAssumption
     DEF Next, Handler

LEMMA SlotStep == Inv /\ [Next]_vars => SlotInv'
<1> SUFFICES ASSUME Inv, [Next]_vars PROVE SlotInv'
  OBVIOUS
<1>1. PermitsCounted'
  <2>1. CASE \E s \in Sessions : CompareExchange(s) /\ active = seen[s]
    <3>1. PICK s \in Sessions : CompareExchange(s) /\ active = seen[s]
      BY <2>1
    <3>2. active' = active + 1 /\ active < MaxScans
      BY <3>1 DEF CompareExchange, Inv, SlotInv
    <3>3. Cardinality(Permits') = Cardinality(Permits) + 1
      BY <3>1, PermitTaken, PermitsFinite, FS_AddElement
    <3>4. QED
      BY <3>2, <3>3, ScanAssumption
         DEF Inv, SlotInv, PermitsCounted, TypeOK
  <2>2. CASE \E s \in Sessions : ReleasePermit(s)
    <3>1. PICK s \in Sessions : ReleasePermit(s)
      BY <2>2
    <3>2. active' = active - 1
      BY <3>1 DEF ReleasePermit
    <3>3. Cardinality(Permits') = Cardinality(Permits) - 1
      BY <3>1, PermitReturned, PermitsFinite, FS_RemoveElement
    <3>4. QED
      BY <3>2, <3>3, ScanAssumption
         DEF Inv, SlotInv, PermitsCounted, TypeOK
  <2>3. CASE /\ \A s \in Sessions : ~ReleasePermit(s)
             /\ \A s \in Sessions : CompareExchange(s) => active # seen[s]
    BY <2>3, PermitsKept DEF Inv, SlotInv, PermitsCounted
  <2>4. QED
    BY <2>1, <2>2, <2>3
<1>2. ASSUME NEW q \in Sessions, start'[q] = "exchange"
      PROVE  seen'[q] < MaxScans
  <2>1. CASE LoadActive(q)
    BY <1>2, <2>1, ScanAssumption DEF LoadActive, Inv, TypeOK
  <2>2. CASE ~LoadActive(q)
    <3>1. start[q] = "exchange" /\ seen'[q] = seen[q]
      BY <1>2, <2>2, SessionAssumption
         DEF Next, Handler, Thread, Request, LoadActive, CompareExchange,
             InsertRunning, SpawnScan, ReadStatus, CheckBefore, Announce,
             BackendReturns, CheckAfter, Conclude, Complete, ReleasePermit,
             Cancel, RemoveRecord, CancelRemoved, CancelAllRunning, StopAccepting,
             vars, Inv, TypeOK
    <3>2. QED
      BY <3>1 DEF Inv, SlotInv
  <2>3. QED
    BY <2>1, <2>2
<1>3. QED
  BY <1>1, <1>2 DEF SlotInv

-----------------------------------------------------------------------------
(* Types and what the record of a session says, one lemma per handler *)

OtherInv == TypeOK /\ StartInv /\ RecordInv /\ TokenInv

LEMMA StartKeeps ==
  ASSUME Inv, NEW s \in Sessions, Request(s) \/ Handler(s)
  PROVE  OtherInv'
<1> USE ScanAssumption
    DEF Inv, OtherInv, TypeOK, StartInv, SlotInv, PermitsCounted, RecordInv,
        TokenInv, StartPcs, WorkPcs, Statuses, Outcomes, Early, Ended, LastTold
<1>1. CASE Request(s)
  BY <1>1 DEF Request
<1>2. CASE LoadActive(s)
  BY <1>2 DEF LoadActive
<1>3. CASE CompareExchange(s)
  <2>1. /\ start[s] = "exchange" /\ active' \in Nat
        /\ \E pc \in {"admitted", "load"} : start' = [start EXCEPT ![s] = pc]
        /\ UNCHANGED <<seen, status, cancelRequested, canceled, work, outcome,
                       told, dispose, signal>>
    BY <1>3 DEF CompareExchange
  <2>2. QED
    BY <2>1
<1>4. CASE InsertRunning(s)
  BY <1>4 DEF InsertRunning
<1>5. CASE SpawnScan(s)
  BY <1>5 DEF SpawnScan
<1>6. CASE ReadStatus(s)
  BY <1>6 DEF ReadStatus
<1>7. QED
  BY <1>1, <1>2, <1>3, <1>4, <1>5, <1>6 DEF Handler

\* An event is appended to what was told about a session that is there.
LEMMA Telling ==
  ASSUME TypeOK, NEW s \in Sessions, NEW event \in Events, Tell(s, event)
  PROVE  /\ told' \in [Sessions -> Seq(Events)]
         /\ \A q \in Sessions : q # s => told'[q] = told[q]
         /\ status[s] # "absent" => /\ told'[s] # <<>>
                                    /\ told'[s][Len(told'[s])] = event
<1>1. CASE status[s] = "absent"
  BY <1>1 DEF Tell, TypeOK
<1>2. CASE status[s] # "absent"
  <2>1. told' = [told EXCEPT ![s] = Append(told[s], event)]
    BY <1>2 DEF Tell
  <2>2. told[s] \in Seq(Events)
    BY DEF TypeOK
  <2>3. /\ Append(told[s], event) \in Seq(Events)
        /\ Append(told[s], event) # <<>>
        /\ Append(told[s], event)[Len(Append(told[s], event))] = event
    BY <2>2
  <2>4. QED
    BY <2>1, <2>3 DEF TypeOK
<1>3. QED
  BY <1>1, <1>2

LEMMA ThreadKeeps ==
  ASSUME Inv, NEW s \in Sessions, Thread(s)
  PROVE  OtherInv'
<1> USE DEF Inv, OtherInv, TypeOK, StartInv, RecordInv, TokenInv, StartPcs,
            WorkPcs, Statuses, Outcomes, Early, Ended, LastTold
<1>1. CASE CheckBefore(s)
  <2>1. UNCHANGED <<start, seen, active, status, cancelRequested, canceled,
                    told, dispose, signal>> /\ work[s] = "check"
    BY <1>1 DEF CheckBefore
  <2>2. CASE canceled[s] = TRUE
    <3>1. /\ outcome' = [outcome EXCEPT ![s] = "canceled"]
          /\ work' = [work EXCEPT ![s] = "conclude"]
      BY <1>1, <2>2 DEF CheckBefore
    <3>2. status[s] # "absent" => cancelRequested[s]
      BY <2>1, <2>2
    <3>3. QED
      BY <2>1, <3>1, <3>2
  <2>3. CASE canceled[s] = FALSE
    <3>1. outcome' = outcome /\ work' = [work EXCEPT ![s] = "announce"]
      BY <1>1, <2>3 DEF CheckBefore
    <3>2. QED
      BY <2>1, <3>1
  <2>4. canceled[s] \in BOOLEAN
    OBVIOUS
  <2>5. QED
    BY <2>2, <2>3, <2>4
<1>2. CASE Announce(s)
  <2>1. told' \in [Sessions -> Seq(Events)] /\ \A q \in Sessions : q # s => told'[q] = told[q]
    BY <1>2, Telling DEF Announce, Events
  <2>2. TypeOK'
    BY <1>2, <2>1 DEF Announce
  <2>3. StartInv'
    BY <1>2, <2>1 DEF Announce
  <2>4. RecordInv'
    BY <1>2, <2>1 DEF Announce
  <2>5. TokenInv'
    BY <1>2, <2>1 DEF Announce
  <2>6. QED
    BY <2>2, <2>3, <2>4, <2>5 DEF OtherInv
<1>3. CASE BackendReturns(s)
  <2>1. UNCHANGED <<start, seen, active, status, cancelRequested, canceled,
                    told, dispose, signal>> /\ work[s] = "scanning"
    BY <1>3 DEF BackendReturns
  <2>2. CASE outcome' = outcome /\ work' = [work EXCEPT ![s] = "recheck"]
    BY <2>1, <2>2
  <2>3. CASE /\ outcome' = [outcome EXCEPT ![s] = "failed"]
             /\ work' = [work EXCEPT ![s] = "conclude"]
    BY <2>1, <2>3
  <2>4. CASE /\ outcome' = [outcome EXCEPT ![s] = "canceled"] /\ canceled[s]
             /\ work' = [work EXCEPT ![s] = "conclude"]
    <3>1. status[s] # "absent" => cancelRequested[s]
      BY <2>1, <2>4
    <3>2. QED
      BY <2>1, <2>4, <3>1
  <2>5. QED
    BY <1>3, <2>2, <2>3, <2>4 DEF BackendReturns
<1>4. CASE CheckAfter(s)
  <2>1. /\ UNCHANGED <<start, seen, active, status, cancelRequested, canceled,
                       told, dispose, signal>>
        /\ work[s] = "recheck" /\ work' = [work EXCEPT ![s] = "conclude"]
    BY <1>4 DEF CheckAfter
  <2>2. CASE canceled[s] = TRUE
    <3>1. outcome' = [outcome EXCEPT ![s] = "canceled"]
      BY <1>4, <2>2 DEF CheckAfter
    <3>2. status[s] # "absent" => cancelRequested[s]
      BY <2>1, <2>2
    <3>3. QED
      BY <2>1, <3>1, <3>2
  <2>3. CASE canceled[s] = FALSE
    <3>1. outcome' = [outcome EXCEPT ![s] = "completed"]
      BY <1>4, <2>3 DEF CheckAfter
    <3>2. QED
      BY <2>1, <3>1
  <2>4. canceled[s] \in BOOLEAN
    OBVIOUS
  <2>5. QED
    BY <2>2, <2>3, <2>4
<1>5. CASE Conclude(s)
  <2>1. outcome[s] \in Outcomes /\ FinalEvent[outcome[s]] \in Events
    BY <1>5 DEF Conclude, FinalEvent, Events
  <2>2. /\ told' \in [Sessions -> Seq(Events)]
        /\ \A q \in Sessions : q # s => told'[q] = told[q]
        /\ status[s] # "absent" => /\ told'[s] # <<>>
                                   /\ told'[s][Len(told'[s])] = FinalEvent[outcome[s]]
    BY <1>5, <2>1, Telling DEF Conclude
  <2>3. TypeOK'
    BY <1>5, <2>1, <2>2 DEF Conclude
  <2>4. StartInv'
    BY <1>5, <2>1, <2>2 DEF Conclude
  <2>5. RecordInv'
    BY <1>5, <2>1, <2>2 DEF Conclude
  <2>6. TokenInv'
    BY <1>5, <2>1, <2>2 DEF Conclude
  <2>7. QED
    BY <2>3, <2>4, <2>5, <2>6 DEF OtherInv
<1>6. CASE Complete(s)
  BY <1>6 DEF Complete
<1>7. CASE ReleasePermit(s)
  <2>1. active' \in Nat
    <3>1. s \in Permits /\ active' = active - 1
      BY <1>7, PermitReturned DEF ReleasePermit
    <3>2. active # 0
      BY <3>1, PermitsFinite, FS_EmptySet DEF SlotInv, PermitsCounted
    <3>3. QED
      BY <3>1, <3>2
  <2>2. QED
    BY <1>7, <2>1 DEF ReleasePermit
<1>8. QED
  BY <1>1, <1>2, <1>3, <1>4, <1>5, <1>6, <1>7 DEF Thread

LEMMA ClientKeeps ==
  ASSUME Inv, NEW s \in Sessions, Cancel(s) \/ RemoveRecord(s) \/ CancelRemoved(s)
  PROVE  OtherInv'
<1> USE DEF Inv, OtherInv, TypeOK, StartInv, RecordInv, TokenInv, StartPcs,
            WorkPcs, Statuses, Outcomes, Early, Ended, LastTold
<1>1. CASE Cancel(s)
  BY <1>1, ZenonT(60) DEF Cancel
<1>2. CASE RemoveRecord(s)
  BY <1>2 DEF RemoveRecord
<1>3. CASE CancelRemoved(s)
  BY <1>3 DEF CancelRemoved
<1>4. QED
  BY <1>1, <1>2, <1>3

LEMMA SignalKeeps ==
  ASSUME Inv, CancelAllRunning \/ StopAccepting \/ UNCHANGED vars
  PROVE  OtherInv'
<1> USE DEF Inv, OtherInv, TypeOK, StartInv, RecordInv, TokenInv, StartPcs,
            WorkPcs, Statuses, Outcomes, Early, Ended, LastTold
<1>1. CASE CancelAllRunning
  BY <1>1 DEF CancelAllRunning
<1>2. CASE StopAccepting
  BY <1>2 DEF StopAccepting
<1>3. CASE UNCHANGED vars
  BY <1>3 DEF vars
<1>4. QED
  BY <1>1, <1>2, <1>3

THEOREM Invariant == Spec => []Inv
<1>1. Inv /\ [Next]_vars => Inv'
  <2> SUFFICES ASSUME Inv, [Next]_vars PROVE Inv'
    OBVIOUS
  <2>1. OtherInv'
    BY StartKeeps, ThreadKeeps, ClientKeeps, SignalKeeps, SessionAssumption
       DEF Next
  <2>2. QED
    BY <2>1, SlotStep DEF OtherInv, Inv
<1>2. QED
  BY InitInv, <1>1, PTL DEF Spec

-----------------------------------------------------------------------------
(* What the runs check, for every instance *)

\* The state of every handler, thread and record is one the code has.
\* (ScanSessions)
THEOREM TypeCorrect == Spec => []TypeOK
BY Invariant, PTL DEF Inv

\* The counter is the number of permits that are out, at most the budget.
\* (RuntimeAdmissionController, ScanPermit)
THEOREM PermitsAreCounted == Spec => []PermitsCounted
<1>1. Inv => PermitsCounted
  BY DEF Inv, SlotInv
<1>2. QED
  BY Invariant, <1>1, PTL

\* A finished session reports what its last event said.  (push_event, complete)
THEOREM EventsAgree == Spec => []EventsTellOutcome
<1>1. Inv => EventsTellOutcome
  BY DEF Inv, RecordInv, EventsTellOutcome, Ended, LastTold, Outcomes
<1>2. QED
  BY Invariant, <1>1, PTL

\* A session is canceled only after somebody asked.  (cancel, complete)
THEOREM CanceledOnRequest == Spec => []CanceledOnlyOnRequest
<1>1. Inv => CanceledOnlyOnRequest
  BY DEF Inv, RecordInv, TokenInv, CanceledOnlyOnRequest, Outcomes
<1>2. QED
  BY Invariant, <1>1, PTL

LEMMA Forward ==
  Inv /\ [Next]_vars =>
    [\A s \in Sessions : status'[s] # status[s] => MovesForward(s)]_vars
<1> SUFFICES ASSUME Inv, [Next]_vars, NEW s \in Sessions,
                    status'[s] # status[s]
             PROVE  MovesForward(s)
  OBVIOUS
<1> USE DEF Inv, TypeOK
<1>1. CASE \E q \in Sessions : InsertRunning(q)
  BY <1>1 DEF InsertRunning, MovesForward
<1>2. CASE \E q \in Sessions : Complete(q)
  <2>1. PICK q \in Sessions : Complete(q)
    BY <1>2
  <2>2. q = s /\ work[s] = "complete" /\ status'[s] = outcome[s] /\ status[s] # "absent"
    BY <2>1 DEF Complete
  <2>3. outcome[s] \in Outcomes /\ status[s] = "running"
    BY <2>2 DEF RecordInv, Ended, Statuses
  <2>4. QED
    BY <2>2, <2>3 DEF MovesForward
<1>3. CASE \E q \in Sessions : RemoveRecord(q)
  BY <1>3 DEF RemoveRecord, MovesForward
<1>4. QED
  BY <1>1, <1>2, <1>3, SessionAssumption
     DEF Next, Handler, Thread, Request, LoadActive, CompareExchange,
         SpawnScan, ReadStatus, CheckBefore, Announce, BackendReturns,
         CheckAfter, Conclude, ReleasePermit, Cancel, CancelRemoved,
         CancelAllRunning, StopAccepting, vars

\* A session runs, ends once and disappears, and never comes back.
\* (insert_running, complete, dispose)
THEOREM MovesOnward == Spec => StatusMovesForward
BY Invariant, Forward, PTL DEF Spec, StatusMovesForward

-----------------------------------------------------------------------------
(* The admission counter implements the slots *)

\* ScanSlots counts with the same operator.
LEMMA SameCardinality ==
  ASSUME NEW S
  PROVE  SlotsPromise!Cardinality(S) = Cardinality(S)
BY Zenon DEF SlotsPromise!Cardinality, Cardinality, SlotsPromise!IsFiniteSet,
             IsFiniteSet

LEMMA SlotsInitially == Init => SlotsPromise!SlotsInit
BY DEF Init, SlotsPromise!SlotsInit, Permits, HoldsPermit, slotVerdict

\* A step that takes no permit and answers no handler is invisible.
LEMMA VerdictKept ==
  ASSUME Inv, [Next]_vars,
         \A s \in Sessions : ~LoadActive(s),
         \A s \in Sessions : ~CompareExchange(s)
  PROVE  slotVerdict' = slotVerdict
<1> SUFFICES ASSUME NEW s \in Sessions
             PROVE  slotVerdict'[s] = slotVerdict[s]
  BY DEF slotVerdict
<1>1. \/ start'[s] = start[s]
      \/ start[s] = "unused" /\ start'[s] \in {"load", "invalid"}
      \/ start[s] = "admitted" /\ start'[s] = "inserted"
      \/ start[s] = "inserted" /\ start'[s] = "spawned"
      \/ start[s] = "spawned" /\ start'[s] \in {"panicked", "accepted"}
  BY SessionAssumption
     DEF Next, Handler, Thread, Request, LoadActive, CompareExchange,
         InsertRunning, SpawnScan, ReadStatus, CheckBefore, Announce,
         BackendReturns, CheckAfter, Conclude, Complete, ReleasePermit,
         Cancel, RemoveRecord, CancelRemoved, CancelAllRunning, StopAccepting,
         vars, Inv, TypeOK
<1>2. QED
  BY <1>1 DEF slotVerdict

LEMMA SlotsStep ==
  Inv /\ [Next]_vars => [SlotsPromise!SlotsNext]_(SlotsPromise!slotVars)
<1> SUFFICES ASSUME Inv, [Next]_vars
             PROVE  SlotsPromise!SlotsNext \/ UNCHANGED SlotsPromise!slotVars
  OBVIOUS
<1>1. ASSUME NEW s \in Sessions, LoadActive(s)
      PROVE  SlotsPromise!SlotsNext \/ UNCHANGED SlotsPromise!slotVars
  <2>1. Permits' = Permits
    BY <1>1, PermitsKept
       DEF LoadActive, ReleasePermit, CompareExchange, Inv, TypeOK
  <2>2. CASE active >= MaxScans
    <3>1. Cardinality(Permits) = MaxScans
      BY <2>2, ScanAssumption DEF Inv, SlotInv, PermitsCounted, TypeOK
    <3>2. slotVerdict[s] = "none"
      BY <1>1 DEF LoadActive, slotVerdict
    <3>3. slotVerdict' = [slotVerdict EXCEPT ![s] = "refused"]
      BY <1>1, <2>2 DEF LoadActive, slotVerdict, Inv, TypeOK
    <3>4. SlotsPromise!TurnAway(s)
      BY <2>1, <3>1, <3>2, <3>3, SameCardinality DEF SlotsPromise!TurnAway
    <3>5. QED
      BY <3>4 DEF SlotsPromise!SlotsNext
  <2>3. CASE ~(active >= MaxScans)
    <3>1. slotVerdict' = slotVerdict
      BY <1>1, <2>3 DEF LoadActive, slotVerdict, Inv, TypeOK
    <3>2. QED
      BY <2>1, <3>1 DEF SlotsPromise!slotVars
  <2>4. QED
    BY <2>2, <2>3
<1>2. ASSUME NEW s \in Sessions, CompareExchange(s)
      PROVE  SlotsPromise!SlotsNext \/ UNCHANGED SlotsPromise!slotVars
  <2>1. CASE active = seen[s]
    <3>1. Permits' = Permits \cup {s}
      BY <1>2, <2>1, PermitTaken
    <3>2. Cardinality(Permits) < MaxScans
      BY <1>2, <2>1 DEF CompareExchange, Inv, SlotInv, PermitsCounted
    <3>3. slotVerdict[s] = "none"
      BY <1>2 DEF CompareExchange, slotVerdict
    <3>4. slotVerdict' = [slotVerdict EXCEPT ![s] = "granted"]
      BY <1>2, <2>1 DEF CompareExchange, slotVerdict, Inv, TypeOK
    <3>5. SlotsPromise!Grant(s)
      BY <3>1, <3>2, <3>3, <3>4, SameCardinality DEF SlotsPromise!Grant
    <3>6. QED
      BY <3>5 DEF SlotsPromise!SlotsNext
  <2>2. CASE active # seen[s]
    <3>1. start' = [start EXCEPT ![s] = "load"] /\ work' = work
      BY <1>2, <2>2 DEF CompareExchange
    <3>2. start[s] = "exchange"
      BY <1>2 DEF CompareExchange
    <3>3. Permits' = Permits
      BY <3>1, <3>2 DEF Permits, HoldsPermit, Inv, TypeOK
    <3>4. slotVerdict' = slotVerdict
      BY <3>1, <3>2 DEF slotVerdict, Inv, TypeOK
    <3>5. QED
      BY <3>3, <3>4 DEF SlotsPromise!slotVars
  <2>3. QED
    BY <2>1, <2>2
<1>3. CASE /\ \A s \in Sessions : ~LoadActive(s)
           /\ \A s \in Sessions : ~CompareExchange(s)
  <2>1. slotVerdict' = slotVerdict
    BY <1>3, VerdictKept
  <2>2. CASE \E s \in Sessions : ReleasePermit(s)
    <3>1. PICK s \in Sessions : ReleasePermit(s)
      BY <2>2
    <3>2. SlotsPromise!GiveBack(s)
      BY <2>1, <3>1, PermitReturned DEF SlotsPromise!GiveBack
    <3>3. QED
      BY <3>2 DEF SlotsPromise!SlotsNext
  <2>3. CASE \A s \in Sessions : ~ReleasePermit(s)
    BY <1>3, <2>1, <2>3, PermitsKept DEF SlotsPromise!slotVars
  <2>4. QED
    BY <2>2, <2>3
<1>4. QED
  BY <1>1, <1>2, <1>3

\* The lock-free admission implements the slots: it refuses only when every
\* slot is taken and gives each slot to one scan.  (try_acquire_scan)
THEOREM AdmissionImplementsSlots == Spec => AdmissionKeepsPromise
BY Invariant, SlotsInitially, SlotsStep, PTL
   DEF Spec, AdmissionKeepsPromise, SlotsPromise!SlotsSpec

-----------------------------------------------------------------------------
(* The growing tree: its inductive invariant. *)

\* The trees a client can have.
Shown == [parent : Tree \cup {NoParent}, size : Nat,
          state : {"discovered", "scanning", "complete"}]
Views == UNION {[known -> Shown] : known \in SUBSET Tree}
Sums == UNION {[known -> Nat] : known \in SUBSET Tree}

Discovers(e, p) == e.kind = "discovered" /\ e.path = p

\* The nodes that some events announce.
News(events) == {p \in Tree : \E i \in DOMAIN events : Discovers(events[i], p)}

\* Each node is announced below its directory, after it was announced.
InOrder(events, known) ==
  \A i \in DOMAIN events, p \in Tree \ {Root} :
    Discovers(events[i], p) =>
      /\ events[i].parent = Front(p)
      /\ \/ Front(p) \in known
         \/ \E j \in 1 .. (i - 1) : Discovers(events[j], Front(p))

\* What the client knows, or is about to be told.
Emitting == backend \in {"emit", "emit last"}
Known == DOMAIN view \cup (IF Emitting THEN News(batch) ELSE {})

Announced ==
  ~token => /\ DOMAIN nodes \subseteq Known \cup News(pending)
            /\ InOrder(pending, Known)
            /\ Emitting => InOrder(batch, DOMAIN view)

OnlyNodes == DOMAIN view \cup News(batch) \cup News(pending) \subseteq DOMAIN nodes

\* A directory is visited before what is in it, and has a node unless there
\* are too many.
TopDown ==
  /\ \A p \in counted \ {Root} : Front(p) \in recorded
  /\ recorded # {} => Root \in recorded
  /\ \A p \in recorded \cap Directories :
       Len(p) < MaxDepth =>
         p \in DOMAIN nodes \/ Cardinality(DOMAIN nodes) >= MaxPartial

\* The root has the size of what was recorded, until the scan is over.
RootSummed ==
  Root \in DOMAIN nodes /\ backend \notin {"end", "finished", "canceled"} =>
    nodes[Root] = TreeSize

LastSteps == {"drain last", "emit last", "complete", "end", "finished"}

\* What was left over when the last batch was drained.
LastDrained ==
  /\ backend = "start" => counted = {}
  /\ backend \in LastSteps => traversal = "ended"
  /\ backend \in LastSteps \ {"drain last"} =>
       /\ pending # <<>> => Len(batch) = BatchSize
       /\ dirty # <<>> => Len(batch) = BatchSize

RootTold ==
  Root \in DOMAIN view =>
    view[Root].size = TreeSize /\ view[Root].state = "complete"

Concluded ==
  /\ (backend = "end" /\ ~token) \/ backend = "finished" => RootTold
  /\ backend = "finished" => progress = Cardinality(counted)

\* A list has no member twice.
Once(list) == \A i, j \in DOMAIN list : list[i] = list[j] => i = j

\* The types of the state; each path is queued once.
TypedTree ==
  /\ recorded \subseteq counted /\ counted \subseteq Tree
  /\ failed \subseteq Tree \ counted
  /\ traversal \in {"running", "ended"}
  /\ nodes \in Sums /\ DOMAIN nodes \subseteq recorded
  /\ Cardinality(DOMAIN nodes) <= MaxPartial
  /\ pending \in Seq(Discoveries)
  /\ dirty \in Seq(DOMAIN nodes) /\ Once(dirty)
  /\ backend \in Steps
  /\ batch \in Seq(Sizes \cup Discoveries)
  /\ progress \in 0 .. Cardinality(counted)
  /\ token \in BOOLEAN
  /\ view \in Views

TreeInv ==
  /\ TypedTree /\ TopDown /\ RootSummed
  /\ Announced /\ OnlyNodes /\ ParentsShown
  /\ LastDrained /\ Concluded

(* What the operators of the tree amount to. *)

\* The sum of the library is the one with lemmas about it.
LEMMA TreeSizeSums ==
  TreeSize = SumOver(recorded, Size) /\ TreeSize' = SumOver(recorded', Size)
BY DEF TreeSize, MapThenSumSet, MapThenFoldSet, SumOver, Pick

LEMMA ThoseChosen ==
  ASSUME NEW paths, NEW S
  PROVE  Those(paths, S) = Chosen(paths, S)
BY DEF Those, Chosen, FoldLeft, MapThenFoldSet

\* The trees a client has while it applies events.
Applies(h, tree, events) ==
  /\ h \in [0 .. Len(events) -> Views] /\ h[0] = tree
  /\ \A k \in 1 .. Len(events) : h[k] = Apply(h[k - 1], events[k])

Event(e) == e \in Sizes \cup Discoveries

\* The client still knows the nodes it knew, and where they are.
LEMMA ApplyKeeps ==
  ASSUME NEW tree \in Views, NEW e, Event(e)
  PROVE  /\ Apply(tree, e) \in Views
         /\ DOMAIN Apply(tree, e) =
              IF e.kind = "discovered" THEN DOMAIN tree \cup {e.path} ELSE DOMAIN tree
         /\ \A p \in DOMAIN tree : Apply(tree, e)[p].parent = tree[p].parent
         /\ \A p \in DOMAIN Apply(tree, e) \ DOMAIN tree :
               Discovers(e, p) /\ Apply(tree, e)[p].parent = e.parent
<1>1. PICK known \in SUBSET Tree : tree \in [known -> Shown]
  BY DEF Views
<1>2. CASE e.kind = "discovered"
  <2>1. e.path \in Tree /\ e.parent \in Tree \cup {NoParent}
    BY <1>2 DEF Event, Sizes, Discoveries
  <2> DEFINE new == [parent |-> e.parent, size |-> 0, state |-> "discovered"]
  <2>2. new \in Shown
    BY <2>1 DEF Shown
  <2>3. Apply(tree, e) = [p \in known \cup {e.path} |->
                            IF p \in known THEN tree[p] ELSE new]
    BY <1>1, <1>2 DEF Apply
  <2>4. new.parent = e.parent
    OBVIOUS
  <2> HIDE DEF new
  <2>5. Apply(tree, e) \in [known \cup {e.path} -> Shown]
    BY <1>1, <2>2, <2>3
  <2>6. known \cup {e.path} \in SUBSET Tree
    BY <2>1
  <2>7. Apply(tree, e) \in Views
    BY <2>5, <2>6 DEF Views
  <2>8. \A p \in known : Apply(tree, e)[p] = tree[p]
    BY <2>3
  <2>9. DOMAIN Apply(tree, e) = known \cup {e.path}
    BY <2>3
  <2>10. \A p \in (known \cup {e.path}) \ known : p = e.path /\ Apply(tree, e)[p] = new
    BY <2>3
  <2>11. QED
    BY <1>1, <1>2, <2>4, <2>7, <2>8, <2>9, <2>10 DEF Discovers
<1>3. CASE e.kind # "discovered" /\ e.path \notin DOMAIN tree
  <2>1. Apply(tree, e) = tree
    BY <1>3 DEF Apply
  <2>2. QED
    BY <1>3, <2>1
<1>4. CASE e.kind # "discovered" /\ e.path \in DOMAIN tree
  <2>1. e.size \in Nat
    BY <1>4 DEF Event, Sizes, Discoveries
  <2> DEFINE st == IF e.kind = "size" THEN "scanning" ELSE "complete"
             node == [tree[e.path] EXCEPT !.size = e.size, !.state = st]
  <2>2. tree[e.path] \in Shown /\ e.path \in known
    BY <1>1, <1>4
  <2>3. node \in Shown /\ node.parent = tree[e.path].parent
    BY <2>1, <2>2 DEF Shown
  <2>4. Apply(tree, e) = [tree EXCEPT ![e.path] = node]
    BY <1>1, <1>4, <2>2 DEF Apply, Shown
  <2> HIDE DEF node
  <2>5. Apply(tree, e) \in [known -> Shown]
    BY <1>1, <2>3, <2>4
  <2>6. \A p \in known : Apply(tree, e)[p].parent = tree[p].parent
    BY <1>1, <2>3, <2>4
  <2>7. Apply(tree, e) \in Views
    BY <2>5 DEF Views
  <2>8. DOMAIN Apply(tree, e) = known
    BY <2>5
  <2>9. QED
    BY <1>1, <1>4, <2>6, <2>7, <2>8
<1>5. QED
  BY <1>2, <1>3, <1>4

LEMMA TellingHasValue ==
  ASSUME NEW tree \in Views,
         NEW events \in Seq(Sizes \cup Discoveries)
  PROVE  \E h : /\ Applies(h, tree, events)
               /\ h[Len(events)] = FoldLeft(Apply, tree, events)
<1> DEFINE n == Len(events)
           RHS(g, s) == IF s = {} THEN tree
                        ELSE Apply(g[s \ {Max(s)}], events[Max(s)])
           G == CHOOSE g : g = [s \in SUBSET DOMAIN events |-> RHS(g, s)]
           f == [x \in Views \X (1 .. n) |-> Apply(x[1], events[x[2]])]
<1>1. n \in Nat /\ DOMAIN events = 1 .. n /\ \A i \in 1 .. n : Event(events[i])
  BY DEF Event
<1>2. \A t \in Views, i \in 1 .. n : Apply(t, events[i]) \in Views
  BY <1>1, ApplyKeeps
<1> HIDE DEF n
<1>3. G = [s \in SUBSET (1 .. n) |-> RHS(G, s)]
  <2>1. IsStep(f, n, Views)
    BY <1>2 DEF IsStep
  <2> HIDE DEF f
  <2> DEFINE g == Recursion(n, Views, tree, f)
  <2>2. /\ g \in [SUBSET (1 .. n) -> Views]
        /\ \A s \in SUBSET (1 .. n) :
             g[s] = IF s = {} THEN tree ELSE f[<<g[s \ {Max(s)}], Max(s)>>]
    <3>1. Recursive(Recursion(n, Views, tree, f), n, Views, tree, f)
      BY <1>1, <2>1, RecursionHasValue
    <3>2. QED
      BY <3>1 DEF Recursive
  <2> HIDE DEF g
  <2>3. ASSUME NEW s \in SUBSET (1 .. n) PROVE g[s] = RHS(g, s)
    <3>1. CASE s = {}
      BY <2>2, <3>1
    <3>2. CASE s # {}
      <4>1. Max(s) \in 1 .. n
        BY <1>1, <3>2, FirstAndLast
      <4>2. g[s \ {Max(s)}] \in Views
        BY <2>2
      <4>3. f[<<g[s \ {Max(s)}], Max(s)>>] = Apply(g[s \ {Max(s)}], events[Max(s)])
        BY <4>1, <4>2 DEF f
      <4>4. QED
        BY <2>2, <3>2, <4>3
    <3>3. QED
      BY <3>1, <3>2
  <2> HIDE DEF RHS
  <2>4. g = [s \in SUBSET (1 .. n) |-> RHS(g, s)]
    BY <2>2, <2>3
  <2>5. QED
    BY <1>1, <2>4
<1> HIDE DEF G
<1> DEFINE T == {k \in Nat : k <= n => G[1 .. k] \in Views}
<1>4. G[1 .. 0] = tree
  <2>1. 1 .. 0 = {} /\ {} \in SUBSET (1 .. n)
    OBVIOUS
  <2>2. QED
    BY <1>3, <2>1
<1>5. ASSUME NEW k \in Nat, k + 1 <= n
      PROVE  G[1 .. (k + 1)] = Apply(G[1 .. k], events[k + 1])
  <2>1. 1 .. (k + 1) \in SUBSET (1 .. n)
    BY <1>1, <1>5
  <2>2. /\ Max(1 .. (k + 1)) = k + 1 /\ 1 .. (k + 1) # {}
        /\ (1 .. (k + 1)) \ {k + 1} = 1 .. k
    BY PlacesUpTo
  <2>3. G[1 .. (k + 1)] = RHS(G, 1 .. (k + 1))
    <3> HIDE DEF RHS
    <3> QED
      BY <1>3, <2>1
  <2>4. QED
    BY <2>2, <2>3
<1>6. 0 \in T
  BY <1>4
<1>7. ASSUME NEW k \in T PROVE k + 1 \in T
  <2> SUFFICES ASSUME k + 1 <= n PROVE G[1 .. (k + 1)] \in Views
    OBVIOUS
  <2>1. k \in Nat /\ k + 1 \in 1 .. n /\ G[1 .. k] \in Views
    BY <1>1
  <2>2. Apply(G[1 .. k], events[k + 1]) \in Views
    BY <1>2, <2>1
  <2>3. QED
    BY <1>5, <2>1, <2>2
<1>8. T = Nat
  <2>1. T \in SUBSET Nat
    OBVIOUS
  <2> HIDE DEF T
  <2>2. QED
    BY <1>6, <1>7, <2>1, Numbers
<1> DEFINE h == [k \in 0 .. n |-> G[1 .. k]]
<1>9. h \in [0 .. n -> Views] /\ h[0] = tree /\ h[n] = G[1 .. n]
  <2>1. \A k \in 0 .. n : G[1 .. k] \in Views
    <3>1. \A k \in 0 .. n : k \in Nat /\ k <= n
      BY <1>1
    <3>2. QED
      BY <1>8, <3>1
  <2>2. 0 \in 0 .. n /\ n \in 0 .. n
    BY <1>1
  <2>3. QED
    BY <1>4, <2>1, <2>2
<1>10. ASSUME NEW k \in 1 .. n PROVE h[k] = Apply(h[k - 1], events[k])
  <2>1. k - 1 \in Nat /\ (k - 1) + 1 = k /\ k - 1 \in 0 .. n /\ k \in 0 .. n /\ k <= n
    BY <1>1
  <2>2. h[k] = G[1 .. k] /\ h[k - 1] = G[1 .. (k - 1)]
    BY <2>1
  <2>3. G[1 .. ((k - 1) + 1)] = Apply(G[1 .. (k - 1)], events[(k - 1) + 1])
    BY <1>5, <2>1
  <2>4. QED
    BY <2>1, <2>2, <2>3
<1>11. FoldLeft(Apply, tree, events) = G[1 .. n]
  BY <1>1, Zenon DEF FoldLeft, MapThenFoldSet, G
<1> HIDE DEF h
<1>12. Applies(h, tree, events)
  BY <1>9, <1>10 DEF Applies, n
<1>13. QED
  BY <1>9, <1>11, <1>12 DEF n

\* A path, the directory it is in, and the root.
LEMMA Above ==
  ASSUME NEW p \in Tree
  PROVE  /\ p \in Ancestors(p) /\ Root \in Ancestors(p)
         /\ Len(p) \in Nat /\ p \in Seq(STRING)
         /\ p # Root => /\ Front(p) \in Tree /\ Front(p) \in Directories
                        /\ Len(Front(p)) < Len(p)
                        /\ Front(p) # p
<1>1. p \in Seq(STRING) /\ Len(p) \in Nat
  BY TreeAssumption
<1>2. SubSeq(p, 1, Len(p)) = p /\ SubSeq(p, 1, 0) = Root
  BY <1>1 DEF Root
<1>3. p \in Ancestors(p) /\ Root \in Ancestors(p)
  <2>1. Len(p) \in 0 .. Len(p) /\ 0 \in 0 .. Len(p)
    BY <1>1
  <2>2. QED
    BY <1>2, <2>1 DEF Ancestors
<1>4. ASSUME p # Root
      PROVE  /\ Front(p) \in Tree /\ Front(p) \in Directories
             /\ Len(Front(p)) < Len(p)
  <2>1. Front(p) \in Tree /\ Front(p) \in Directories
    BY <1>4, TreeAssumption
  <2>2. Len(p) > 0
    BY <1>1, <1>4 DEF Root
  <2>3. Len(Front(p)) = Len(p) - 1
    BY <1>1, <2>2 DEF Front
  <2>4. QED
    BY <1>1, <2>1, <2>3
<1>5. QED
  BY <1>1, <1>3, <1>4

LEMMA NewsAppended ==
  ASSUME NEW events \in Seq(Discoveries), NEW p \in Tree,
         NEW parent \in Tree \cup {NoParent}
  PROVE  News(Append(events, Discovered(p, parent))) = News(events) \cup {p}
<1> DEFINE e == Discovered(p, parent)
           more == Append(events, e)
           n == Len(events)
<1>1. e \in Discoveries /\ \A q : Discovers(e, q) <=> q = p
  BY DEF Discovers, Discovered, Discoveries
<1>2. /\ n \in Nat /\ DOMAIN events = 1 .. n /\ DOMAIN more = 1 .. (n + 1)
      /\ \A i \in 1 .. n : more[i] = events[i]
      /\ more[n + 1] = e
  BY <1>1
<1>3. \A i : i \in 1 .. (n + 1) <=> i \in 1 .. n \/ i = n + 1
  BY <1>2
<1> HIDE DEF more, n, e
<1>4. \A q : (\E i \in DOMAIN more : Discovers(more[i], q)) <=>
               (\E i \in DOMAIN events : Discovers(events[i], q)) \/ q = p
  BY <1>1, <1>2, <1>3
<1>5. QED
  BY <1>4 DEF News, more, e

LEMMA InOrderAppended ==
  ASSUME NEW events \in Seq(Discoveries), NEW p \in Tree,
         NEW parent \in Tree \cup {NoParent}, NEW known, InOrder(events, known),
         p # Root => parent = Front(p) /\ Front(p) \in known \cup News(events)
  PROVE  InOrder(Append(events, Discovered(p, parent)), known)
<1> DEFINE e == Discovered(p, parent)
           more == Append(events, e)
           n == Len(events)
<1>1. e \in Discoveries /\ (\A q : Discovers(e, q) <=> q = p) /\ e.parent = parent
  BY DEF Discovers, Discovered, Discoveries
<1>2. /\ n \in Nat /\ DOMAIN events = 1 .. n /\ DOMAIN more = 1 .. (n + 1)
      /\ \A i \in 1 .. n : more[i] = events[i]
      /\ more[n + 1] = e
  BY <1>1
<1>3. /\ \A i \in 1 .. (n + 1) : i \in 1 .. n \/ i = n + 1
      /\ \A i \in 1 .. n : \A j \in 1 .. (i - 1) : j \in 1 .. n
      /\ \A j \in 1 .. n : j \in 1 .. ((n + 1) - 1)
  BY <1>2
<1> HIDE DEF more, n, e
<1>4. ASSUME NEW i \in DOMAIN more, NEW q \in Tree \ {Root}, Discovers(more[i], q)
      PROVE  /\ more[i].parent = Front(q)
             /\ \/ Front(q) \in known
                \/ \E j \in 1 .. (i - 1) : Discovers(more[j], Front(q))
  <2>1. CASE i \in 1 .. n
    <3>1. Discovers(events[i], q) /\ more[i] = events[i] /\ i \in DOMAIN events
      BY <1>2, <1>4, <2>1
    <3>2. /\ events[i].parent = Front(q)
          /\ \/ Front(q) \in known
             \/ \E j \in 1 .. (i - 1) : Discovers(events[j], Front(q))
      BY <3>1 DEF InOrder
    <3>3. \A j \in 1 .. (i - 1) : more[j] = events[j]
      BY <1>2, <1>3, <2>1
    <3>4. QED
      BY <3>1, <3>2, <3>3
  <2>2. CASE i = n + 1
    <3>1. q = p /\ more[i].parent = Front(q) /\ Front(q) \in known \cup News(events)
      BY <1>1, <1>2, <1>4, <2>2
    <3>2. CASE Front(q) \in News(events)
      <4>1. PICK j \in DOMAIN events : Discovers(events[j], Front(q))
        BY <3>2 DEF News
      <4>2. j \in 1 .. (i - 1) /\ more[j] = events[j]
        BY <1>2, <1>3, <2>2
      <4>3. QED
        BY <3>1, <4>1, <4>2
    <3>3. QED
      BY <3>1, <3>2
  <2>3. QED
    BY <1>2, <1>3, <2>1, <2>2
<1>5. InOrder(more, known)
  BY <1>4 DEF InOrder
<1>6. QED
  BY <1>5 DEF more, e

\* A list without its first places.
LEMMA RestOf ==
  ASSUME NEW S, NEW list \in Seq(S), NEW m \in 0 .. Len(list)
  PROVE  LET rest == SubSeq(list, m + 1, Len(list))
         IN  /\ rest \in Seq(S) /\ Len(rest) = Len(list) - m
             /\ \A i \in 1 .. (Len(list) - m) : rest[i] = list[m + i]
             /\ Once(list) => Once(rest)
             /\ rest # <<>> => m < Len(list)
<1> DEFINE n == Len(list)
           rest == SubSeq(list, m + 1, n)
<1>1. n \in Nat /\ m \in Nat /\ m <= n /\ \A i \in 1 .. n : list[i] \in S
  OBVIOUS
<1> HIDE DEF n
<1>2. /\ \A i \in (m + 1) .. n : list[i] \in S
      /\ m + 1 \in Int /\ n \in Int /\ n - (m + 1) + 1 = n - m
  BY <1>1
<1>3. /\ rest \in Seq(S)
      /\ Len(rest) = IF m + 1 <= n THEN n - (m + 1) + 1 ELSE 0
      /\ \A i \in 1 .. (n - (m + 1) + 1) : rest[i] = list[(m + 1) + i - 1]
  BY <1>2, SubSeqProperties
<1> HIDE DEF rest
<1>4. Len(rest) = n - m
  <2>1. CASE m + 1 <= n
    BY <1>2, <1>3, <2>1
  <2>2. CASE m = n
    BY <1>1, <1>3, <2>2
  <2>3. QED
    BY <1>1, <2>1, <2>2
<1>5. ASSUME NEW i \in 1 .. (n - m) PROVE rest[i] = list[m + i]
  <2>1. (m + 1) + i - 1 = m + i
    BY <1>1
  <2>2. rest[i] = list[(m + 1) + i - 1]
    BY <1>2, <1>3
  <2>3. QED
    BY <2>1, <2>2
<1>6. rest # <<>> => m < n
  <2>1. rest # <<>> => Len(rest) > 0
    BY <1>3
  <2>2. QED
    BY <1>1, <1>4, <2>1
<1>7. ASSUME Once(list) PROVE Once(rest)
  <2>1. DOMAIN rest = 1 .. (n - m) /\ DOMAIN list = 1 .. n
    BY <1>1, <1>3, <1>4 DEF n
  <2>2. ASSUME NEW i \in 1 .. (n - m), NEW j \in 1 .. (n - m), rest[i] = rest[j]
        PROVE  i = j
    <3>1. m + i \in 1 .. n /\ m + j \in 1 .. n /\ list[m + i] = list[m + j]
      BY <1>1, <1>5, <2>2
    <3>2. m + i = m + j
      BY <1>7, <2>1, <3>1 DEF Once
    <3>3. QED
      BY <1>1, <3>2
  <2>3. QED
    BY <2>1, <2>2 DEF Once
<1>8. QED
  BY <1>3, <1>4, <1>5, <1>6, <1>7 DEF n, rest

\* What is drained, and what stays.
IsSplit(queue, m, sizes, events, rest) ==
  /\ queue \in Seq(Discoveries) /\ m \in 0 .. Len(queue)
  /\ sizes \in Seq(Sizes)
  /\ events = SubSeq(queue, 1, m) \o sizes
  /\ rest = SubSeq(queue, m + 1, Len(queue))

LEMMA SplitNews ==
  ASSUME NEW queue, NEW m, NEW sizes, NEW known, NEW events, NEW rest,
         IsSplit(queue, m, sizes, events, rest)
  PROVE  /\ events \in Seq(Sizes \cup Discoveries) /\ rest \in Seq(Discoveries)
         /\ Len(events) = m + Len(sizes)
         /\ rest # <<>> => m < Len(queue)
         /\ News(events) \cup News(rest) = News(queue)
         /\ InOrder(queue, known) =>
              InOrder(events, known) /\ InOrder(rest, known \cup News(events))
<1> DEFINE n == Len(queue)
           l == Len(sizes)
<1>1. /\ n \in Nat /\ m \in Nat /\ l \in Nat /\ m <= n
      /\ DOMAIN queue = 1 .. n /\ DOMAIN sizes = 1 .. l
  BY DEF IsSplit
<1>0. /\ queue \in Seq(Discoveries) /\ m \in 0 .. Len(queue)
      /\ sizes \in Seq(Sizes)
      /\ events = SubSeq(queue, 1, m) \o sizes
      /\ rest = SubSeq(queue, m + 1, Len(queue))
  BY DEF IsSplit
<1>2. /\ SubSeq(queue, 1, m) \in Seq(Discoveries) /\ Len(SubSeq(queue, 1, m)) = m
      /\ \A i \in 1 .. m : SubSeq(queue, 1, m)[i] = queue[i]
  BY <1>1, <1>0
<1>3. /\ rest \in Seq(Discoveries) /\ Len(rest) = n - m
      /\ \A i \in 1 .. (n - m) : rest[i] = queue[m + i]
  BY <1>0, RestOf
<1>4. /\ events \in Seq(Sizes \cup Discoveries) /\ Len(events) = m + l
      /\ \A i \in 1 .. m : events[i] = queue[i]
      /\ \A i \in (m + 1) .. (m + l) : events[i] = sizes[i - m]
  <2>1. /\ SubSeq(queue, 1, m) \in Seq(Sizes \cup Discoveries)
        /\ sizes \in Seq(Sizes \cup Discoveries)
    BY <1>1, <1>0, <1>2
  <2> DEFINE front == SubSeq(queue, 1, m)
  <2> HIDE DEF front
  <2>2. /\ events = front \o sizes
        /\ front \in Seq(Sizes \cup Discoveries) /\ Len(front) = m
    BY <1>2, <1>0, <2>1 DEF front
  <2>3. \A i \in 1 .. m : front[i] = queue[i]
    BY <1>2 DEF front
  <2>4. QED
    BY <1>1, <1>0, <2>1, <2>2, <2>3
<1>5. \A i \in (m + 1) .. (m + l) : \A p : ~Discovers(events[i], p)
  <2>1. \A i \in (m + 1) .. (m + l) : i - m \in 1 .. l
    BY <1>1
  <2>2. \A i \in 1 .. l : sizes[i].kind # "discovered"
    <3>1. \A e \in Sizes : e.kind # "discovered"
      BY DEF Sizes
    <3>2. \A i \in 1 .. l : sizes[i] \in Sizes
      BY <1>1, <1>0
    <3>3. QED
      BY <3>1, <3>2
  <2>3. QED
    BY <1>4, <2>1, <2>2 DEF Discovers
<1>6. /\ DOMAIN events = 1 .. (m + l) /\ DOMAIN rest = 1 .. (n - m)
      /\ \A i \in 1 .. (m + l) : i \in 1 .. m \/ i \in (m + 1) .. (m + l)
      /\ \A i \in 1 .. m : i \in 1 .. (m + l) /\ i \in 1 .. n
      /\ \A i \in 1 .. n : i \in 1 .. m \/ (i - m \in 1 .. (n - m) /\ m + (i - m) = i)
      /\ \A i \in 1 .. (n - m) : m + i \in 1 .. n
  <2>1. DOMAIN events = 1 .. (m + l) /\ DOMAIN rest = 1 .. (n - m)
    BY <1>1, <1>0, <1>3, <1>4
  <2> HIDE DEF n, l
  <2>2. QED
    BY <1>1, <2>1
<1> HIDE DEF n, l
<1>7. News(events) \cup News(rest) = News(queue)
  <2>1. ASSUME NEW p, NEW i \in DOMAIN events, Discovers(events[i], p)
        PROVE  \E j \in DOMAIN queue : Discovers(queue[j], p)
    <3>1. i \in 1 .. m /\ i \in DOMAIN queue /\ events[i] = queue[i]
      BY <1>1, <1>4, <1>5, <1>6, <2>1
    <3>2. QED
      BY <2>1, <3>1
  <2>2. ASSUME NEW p, NEW i \in DOMAIN rest, Discovers(rest[i], p)
        PROVE  \E j \in DOMAIN queue : Discovers(queue[j], p)
    <3>1. m + i \in DOMAIN queue /\ rest[i] = queue[m + i]
      BY <1>1, <1>3, <1>6
    <3>2. QED
      BY <2>2, <3>1
  <2>3. ASSUME NEW p, NEW j \in DOMAIN queue, Discovers(queue[j], p)
        PROVE  \/ \E i \in DOMAIN events : Discovers(events[i], p)
               \/ \E i \in DOMAIN rest : Discovers(rest[i], p)
    <3>1. CASE j \in 1 .. m
      <4>1. j \in DOMAIN events /\ events[j] = queue[j]
        BY <1>4, <1>6, <3>1
      <4>2. QED
        BY <2>3, <4>1
    <3>2. CASE j - m \in 1 .. (n - m) /\ m + (j - m) = j
      <4>1. j - m \in DOMAIN rest /\ rest[j - m] = queue[j]
        BY <1>3, <1>6, <3>2
      <4>2. QED
        BY <2>3, <4>1
    <3>3. QED
      BY <1>1, <1>6, <3>1, <3>2
  <2>4. QED
    BY <2>1, <2>2, <2>3, Zenon DEF News
<1>8. ASSUME InOrder(queue, known) PROVE InOrder(events, known)
  <2> SUFFICES ASSUME NEW i \in DOMAIN events, NEW p \in Tree \ {Root},
                      Discovers(events[i], p)
               PROVE  /\ events[i].parent = Front(p)
                      /\ \/ Front(p) \in known
                         \/ \E j \in 1 .. (i - 1) : Discovers(events[j], Front(p))
    BY DEF InOrder
  <2>1. i \in 1 .. m /\ i \in DOMAIN queue /\ events[i] = queue[i]
    BY <1>1, <1>4, <1>5, <1>6
  <2>2. /\ queue[i].parent = Front(p)
        /\ \/ Front(p) \in known
           \/ \E j \in 1 .. (i - 1) : Discovers(queue[j], Front(p))
    BY <1>8, <2>1 DEF InOrder
  <2>3. \A j \in 1 .. (i - 1) : events[j] = queue[j]
    <3>1. \A j \in 1 .. (i - 1) : j \in 1 .. m
      BY <1>1, <2>1
    <3>2. QED
      BY <1>4, <3>1
  <2>4. QED
    BY <2>1, <2>2, <2>3
<1>9. ASSUME InOrder(queue, known)
      PROVE  InOrder(rest, known \cup News(events))
  <2> SUFFICES ASSUME NEW i \in DOMAIN rest, NEW p \in Tree \ {Root},
                      Discovers(rest[i], p)
               PROVE  /\ rest[i].parent = Front(p)
                      /\ \/ Front(p) \in known \cup News(events)
                         \/ \E j \in 1 .. (i - 1) : Discovers(rest[j], Front(p))
    BY DEF InOrder
  <2>1. m + i \in DOMAIN queue /\ rest[i] = queue[m + i] /\ i \in 1 .. (n - m)
    BY <1>1, <1>3, <1>6
  <2>2. /\ queue[m + i].parent = Front(p)
        /\ \/ Front(p) \in known
           \/ \E j \in 1 .. (((m + i) - 1)) : Discovers(queue[j], Front(p))
    BY <1>9, <2>1 DEF InOrder
  <2>3. ASSUME NEW j \in 1 .. (((m + i) - 1)), Discovers(queue[j], Front(p))
        PROVE  \/ Front(p) \in News(events)
               \/ \E d \in 1 .. (i - 1) : Discovers(rest[d], Front(p))
    <3>1. CASE j \in 1 .. m
      <4>1. j \in DOMAIN events /\ Discovers(events[j], Front(p))
        BY <1>4, <1>6, <2>3, <3>1
      <4>2. Front(p) \in Tree
        BY Above
      <4>3. QED
        BY <4>1, <4>2 DEF News
    <3>2. CASE j \notin 1 .. m
      <4>1. /\ j - m \in 1 .. (i - 1) /\ j - m \in 1 .. (n - m)
            /\ m + (j - m) = j
        <5>1. /\ m \in Nat /\ i \in Nat /\ j \in Nat
              /\ j > m /\ j <= (m + i) - 1 /\ i <= n - m
          BY <1>1, <2>1, <3>2
        <5>2. QED
          BY <1>1, <5>1
      <4>2. Discovers(rest[j - m], Front(p))
        BY <1>3, <2>3, <4>1
      <4>3. QED
        BY <4>1, <4>2
    <3>3. QED
      BY <3>1, <3>2
  <2>4. QED
    BY <2>1, <2>2, <2>3
<1>10. rest # <<>> => m < n
  BY <1>0, RestOf DEF n
<1>11. QED
  BY <1>3, <1>4, <1>7, <1>8, <1>9, <1>10 DEF n, l

\* Each node of a tree hangs below its directory.
Hangs(tree) ==
  \A p \in DOMAIN tree \ {Root} :
    tree[p].parent = Front(p) /\ Front(p) \in DOMAIN tree

LEMMA TellingHangs ==
  ASSUME NEW tree \in Views, Hangs(tree),
         NEW events \in Seq(Sizes \cup Discoveries), InOrder(events, DOMAIN tree)
  PROVE  /\ FoldLeft(Apply, tree, events) \in Views
         /\ DOMAIN FoldLeft(Apply, tree, events) = DOMAIN tree \cup News(events)
         /\ Hangs(FoldLeft(Apply, tree, events))
<1> DEFINE n == Len(events)
<1>1. PICK h : Applies(h, tree, events) /\ h[n] = FoldLeft(Apply, tree, events)
  BY TellingHasValue
<1>2. /\ n \in Nat /\ DOMAIN events = 1 .. n
      /\ \A i \in 1 .. n : Event(events[i])
  BY DEF Event
<1> DEFINE Told(k) == {p \in Tree : \E i \in 1 .. k : Discovers(events[i], p)}
           T == {k \in Nat : k <= n =>
                   /\ h[k] \in Views
                   /\ DOMAIN h[k] = DOMAIN tree \cup Told(k)
                   /\ Hangs(h[k])}
<1>3. /\ h[0] = tree /\ \A k \in 0 .. n : h[k] \in Views
      /\ \A k \in Nat : k + 1 <= n => h[k + 1] = Apply(h[k], events[k + 1])
  <2>1. /\ h \in [0 .. n -> Views] /\ h[0] = tree
        /\ \A k \in 1 .. n : h[k] = Apply(h[k - 1], events[k])
    BY <1>1 DEF Applies
  <2>2. ASSUME NEW k \in Nat, k + 1 <= n
        PROVE  h[k + 1] = Apply(h[k], events[k + 1])
    <3>1. k + 1 \in 1 .. n /\ (k + 1) - 1 = k
      BY <1>2, <2>2
    <3>2. QED
      BY <2>1, <3>1
  <2>3. QED
    BY <2>1, <2>2
<1> HIDE DEF n
<1>4. 0 \in T
  <2>1. Told(0) = {}
    OBVIOUS
  <2> HIDE DEF Told
  <2>2. QED
    BY <1>3, <2>1
<1>5. ASSUME NEW k \in T PROVE k + 1 \in T
  <2>0. SUFFICES ASSUME k + 1 <= n
                 PROVE  /\ h[k + 1] \in Views
                        /\ DOMAIN h[k + 1] = DOMAIN tree \cup Told(k + 1)
                        /\ Hangs(h[k + 1])
    OBVIOUS
  <2> DEFINE e == events[k + 1]
  <2>1. /\ k \in Nat /\ k <= n /\ k + 1 \in 1 .. n /\ k + 1 \in 0 .. n
        /\ h[k] \in Views /\ DOMAIN h[k] = DOMAIN tree \cup Told(k)
        /\ Hangs(h[k])
    <3>1. k \in Nat
      OBVIOUS
    <3>2. k <= n /\ k + 1 \in 1 .. n /\ k + 1 \in 0 .. n
      BY <1>2, <2>0, <3>1
    <3> HIDE DEF Told
    <3>3. QED
      BY <3>1, <3>2
  <2>2. Event(e) /\ h[k + 1] = Apply(h[k], e)
    BY <1>2, <1>3, <2>1
  <2>3. /\ Apply(h[k], e) \in Views
        /\ DOMAIN Apply(h[k], e) =
             IF e.kind = "discovered" THEN DOMAIN h[k] \cup {e.path} ELSE DOMAIN h[k]
        /\ \A p \in DOMAIN h[k] : Apply(h[k], e)[p].parent = h[k][p].parent
        /\ \A p \in DOMAIN Apply(h[k], e) \ DOMAIN h[k] :
              Discovers(e, p) /\ Apply(h[k], e)[p].parent = e.parent
    BY <2>1, <2>2, ApplyKeeps
  <2>4. Told(k + 1) = Told(k) \cup {p \in Tree : Discovers(e, p)}
    <3>1. \A i : i \in 1 .. (k + 1) <=> i \in 1 .. k \/ i = k + 1
      BY <2>1
    <3> HIDE DEF e
    <3>2. \A p : (\E i \in 1 .. (k + 1) : Discovers(events[i], p)) <=>
                   (\E i \in 1 .. k : Discovers(events[i], p)) \/ Discovers(e, p)
      BY <3>1 DEF e
    <3>3. QED
      BY <3>2
  <2>5. {p \in Tree : Discovers(e, p)} = IF e.kind = "discovered" THEN {e.path} ELSE {}
    BY <2>2 DEF Event, Sizes, Discoveries, Discovers
  <2> DEFINE t == h[k]
             u == h[k + 1]
  <2>6. DOMAIN u = DOMAIN tree \cup Told(k + 1)
    <3> HIDE DEF Told, e
    <3>1. QED
      BY <2>1, <2>2, <2>3, <2>4, <2>5
  <2>7. Hangs(u)
    <3> SUFFICES ASSUME NEW p \in DOMAIN u \ {Root}
                 PROVE  u[p].parent = Front(p) /\ Front(p) \in DOMAIN u
      BY DEF Hangs
    <3>1. CASE p \in DOMAIN t
      <4>1. t[p].parent = Front(p) /\ Front(p) \in DOMAIN t
        BY <2>1, <3>1 DEF Hangs
      <4>2. u[p].parent = t[p].parent /\ DOMAIN t \subseteq DOMAIN u
        BY <2>2, <2>3, <3>1
      <4>3. QED
        BY <4>1, <4>2
    <3>2. CASE p \notin DOMAIN t
      <4>1. Discovers(e, p) /\ u[p].parent = e.parent /\ p \in Tree
        <5>1. Discovers(e, p) /\ u[p].parent = e.parent
          BY <2>2, <2>3, <3>2
        <5>2. QED
          BY <2>2, <2>3, <5>1 DEF Views
      <4>2. /\ e.parent = Front(p)
            /\ \/ Front(p) \in DOMAIN tree
               \/ \E j \in 1 .. ((k + 1) - 1) : Discovers(events[j], Front(p))
        BY <1>2, <2>1, <4>1 DEF InOrder
      <4>3. Front(p) \in Tree /\ (k + 1) - 1 = k
        BY <2>1, <4>1, Above
      <4>4. Front(p) \in DOMAIN tree \/ Front(p) \in Told(k)
        BY <4>2, <4>3
      <4>5. DOMAIN t = DOMAIN tree \cup Told(k) /\ DOMAIN t \subseteq DOMAIN u
        <5> HIDE DEF Told, e
        <5> QED
          BY <2>1, <2>2, <2>3
      <4>6. QED
        <5> HIDE DEF Told, e
        <5> QED
          BY <4>1, <4>2, <4>4, <4>5
    <3>3. QED
      BY <3>1, <3>2
  <2>8. QED
    <3> HIDE DEF Told, e
    <3> QED
      BY <2>2, <2>3, <2>6, <2>7
<1>6. T = Nat
  <2>1. T \in SUBSET Nat
    OBVIOUS
  <2> HIDE DEF T
  <2>2. QED
    BY <1>4, <1>5, <2>1, Numbers
<1>7. Told(n) = News(events)
  BY <1>2 DEF News
<1>8. h[n] \in Views /\ DOMAIN h[n] = DOMAIN tree \cup Told(n) /\ Hangs(h[n])
  <2>1. n \in T
    BY <1>2, <1>6
  <2> HIDE DEF Told
  <2>2. n \in Nat /\ n <= n
    BY <1>2
  <2>3. QED
    BY <2>1, <2>2
<1> HIDE DEF Told, T
<1>9. h[n] = FoldLeft(Apply, tree, events)
  BY <1>1
<1>10. QED
  BY <1>7, <1>8, <1>9

(* The steps. *)

LEMMA TypesHold == TypedTree => TreeTypeOK
<1> SUFFICES ASSUME TypedTree PROVE TreeTypeOK
  OBVIOUS
<1>1. \A p \in DOMAIN nodes : nodes[p] \in Nat
  BY DEF TypedTree, Sums
<1>2. \A p \in DOMAIN view : view[p] \in Shown
  BY DEF TypedTree, Views
<1>3. Cardinality(ToSet(dirty)) = Len(dirty)
  BY MembersOfList DEF TypedTree, Once
<1>4. QED
  BY <1>1, <1>2, <1>3 DEF TypedTree, TreeTypeOK, Shown

LEMMA OnceJoined ==
  ASSUME NEW S, NEW a \in Seq(S), NEW b \in Seq(S), Once(a), Once(b),
         \A i \in DOMAIN b : b[i] \notin ToSet(a)
  PROVE  a \o b \in Seq(S) /\ Once(a \o b)
<1> DEFINE n == Len(a)
           m == Len(b)
           c == a \o b
<1>1. /\ n \in Nat /\ m \in Nat /\ DOMAIN a = 1 .. n /\ DOMAIN b = 1 .. m
      /\ c \in Seq(S) /\ DOMAIN c = 1 .. (n + m)
      /\ \A i \in 1 .. n : c[i] = a[i]
      /\ \A i \in (n + 1) .. (n + m) : c[i] = b[i - n]
  OBVIOUS
<1> HIDE DEF n, m, c
<1>2. \A i \in 1 .. (n + m) :
        i \in 1 .. n \/ (i \in (n + 1) .. (n + m) /\ i - n \in 1 .. m)
  BY <1>1
<1>3. ASSUME NEW i \in DOMAIN c, NEW j \in DOMAIN c, c[i] = c[j]
      PROVE  i = j
  <2>1. CASE i \in 1 .. n /\ j \in 1 .. n
    BY <1>1, <1>3, <2>1 DEF Once
  <2>2. CASE /\ i \in (n + 1) .. (n + m) /\ i - n \in 1 .. m
             /\ j \in (n + 1) .. (n + m) /\ j - n \in 1 .. m
    <3>1. i - n = j - n
      BY <1>1, <1>3, <2>2 DEF Once
    <3>2. QED
      BY <1>1, <2>2, <3>1
  <2>3. \A d \in 1 .. n : \A e \in (n + 1) .. (n + m) :
          e - n \in 1 .. m => c[d] # c[e]
    <3>1. /\ \A d \in 1 .. n : a[d] \in ToSet(a)
          /\ \A e \in 1 .. m : b[e] \notin ToSet(a)
      BY <1>1 DEF ToSet
    <3>2. QED
      BY <1>1, <3>1
  <2>4. QED
    BY <1>1, <1>2, <1>3, <2>1, <2>2, <2>3
<1>4. QED
  BY <1>1, <1>3 DEF Once, c

LEMMA NewlyDirtyOnce ==
  ASSUME NEW p \in Tree, NEW known
  PROVE  /\ NewlyDirty(known, p) \in Seq(DOMAIN known)
         /\ Once(NewlyDirty(known, p))
         /\ \A i \in DOMAIN NewlyDirty(known, p) :
              NewlyDirty(known, p)[i] \notin ToSet(dirty)
<1> DEFINE S == DOMAIN known \ ToSet(dirty)
           order == PathsTo(p)
<1>1. p \in Seq(STRING) /\ Len(p) \in Nat
  BY Above
<1>2. /\ order \in Seq(Seq(STRING)) /\ DOMAIN order = 1 .. (Len(p) + 1)
      /\ \A i \in 1 .. (Len(p) + 1) : Len(order[i]) = i - 1
  <2>1. ASSUME NEW i \in 1 .. (Len(p) + 1)
        PROVE  SubSeq(p, 1, i - 1) \in Seq(STRING) /\ Len(SubSeq(p, 1, i - 1)) = i - 1
    <3>1. i - 1 \in 0 .. Len(p)
      BY <1>1
    <3>2. QED
      BY <1>1, <3>1
  <2>2. QED
    BY <1>1, <2>1 DEF PathsTo
<1>3. \A i, j \in DOMAIN order : order[i] = order[j] => i = j
  <2>1. \A i, j \in 1 .. (Len(p) + 1) : i - 1 = j - 1 => i = j
    BY <1>1
  <2>2. QED
    BY <1>2, <2>1
<1> HIDE DEF order, S
<1> DEFINE kept == Chosen(order, S)
<1>4. Holds(kept, Seq(STRING), order, Len(order), S)
  BY <1>2, ChosenHolds
<1>5. \A i, j \in DOMAIN kept : kept[i] = kept[j] => i = j
  BY <1>2, <1>3, ChosenOnce
<1> HIDE DEF kept
<1>6. kept \in Seq(S) /\ \A i \in DOMAIN kept : kept[i] \in S
  <2>1. kept \in Seq(Seq(STRING)) /\ \A i \in DOMAIN kept : kept[i] \in S
    BY <1>4 DEF Holds
  <2>2. QED
    BY <2>1
<1>7. kept \in Seq(DOMAIN known)
  <2>1. kept \in Seq(S) /\ S \subseteq DOMAIN known
    BY <1>6 DEF S
  <2>2. QED
    BY <2>1
<1>8. Those(PathsTo(p), DOMAIN known \ ToSet(dirty)) = kept
  BY ThoseChosen DEF kept, order, S
<1>9. \A i \in DOMAIN kept : kept[i] \notin ToSet(dirty)
  BY <1>6 DEF S
<1>10. CASE Size[p] = 0
  <2>1. NewlyDirty(known, p) = <<>>
    BY <1>10 DEF NewlyDirty
  <2>2. QED
    BY <2>1 DEF Once
<1>11. CASE Size[p] # 0
  <2>1. NewlyDirty(known, p) = kept
    BY <1>8, <1>11 DEF NewlyDirty
  <2>2. QED
    BY <1>5, <1>7, <1>9, <2>1 DEF Once
<1>12. QED
  BY <1>10, <1>11

\* The sum of what was recorded is a number, and the size of the root.
LEMMA Counts ==
  ASSUME TypedTree
  PROVE  /\ IsFiniteSet(counted) /\ Cardinality(counted) \in Nat
         /\ IsFiniteSet(DOMAIN nodes) /\ Cardinality(DOMAIN nodes) \in Nat
         /\ progress \in Nat /\ progress <= Cardinality(counted)
         /\ TreeSize \in Nat
<1>1. IsFiniteSet(counted) /\ IsFiniteSet(DOMAIN nodes) /\ IsFiniteSet(recorded)
  BY FS_Subset, TreeAssumption DEF TypedTree
<1>2. Cardinality(counted) \in Nat /\ Cardinality(DOMAIN nodes) \in Nat
  BY <1>1, FS_CardinalityType
<1>3. TreeSize \in Nat
  <2>1. recorded \in SUBSET Tree /\ TreeSize = SumOver(recorded, Size)
    BY TreeSizeSums DEF TypedTree
  <2>2. SumOver(recorded, Size) \in Nat
    BY <2>1, TreeAssumption, SumIsNat
  <2>3. QED
    BY <2>1, <2>2
<1>4. QED
  BY <1>1, <1>2, <1>3 DEF TypedTree

LEMMA TreeInitially == TreeInit => TreeInv
<1> SUFFICES ASSUME TreeInit PROVE TreeInv
  OBVIOUS
<1>1. /\ recorded = {} /\ counted = {} /\ failed = {} /\ traversal = "running"
      /\ nodes = <<>> /\ pending = <<>> /\ dirty = <<>> /\ backend = "start"
      /\ batch = <<>> /\ progress = 0 /\ token = FALSE /\ view = <<>>
  BY DEF TreeInit
<1>2. DOMAIN nodes = {} /\ DOMAIN view = {} /\ nodes \in Sums /\ view \in Views
  <2>1. <<>> \in [{} -> Nat] /\ <<>> \in [{} -> Shown]
    OBVIOUS
  <2>2. QED
    BY <1>1, <2>1 DEF Sums, Views
<1>3. Cardinality({}) = 0
  BY FS_EmptySet
<1>4. TypedTree
  <2>1. <<>> \in Seq(DOMAIN nodes) /\ Once(<<>>)
    BY DEF Once
  <2>2. Cardinality(DOMAIN nodes) <= MaxPartial /\ progress \in 0 .. Cardinality(counted)
    BY <1>1, <1>2, <1>3, TreeAssumption
  <2>3. <<>> \in Seq(Discoveries) /\ <<>> \in Seq(Sizes \cup Discoveries)
    OBVIOUS
  <2>4. /\ recorded \subseteq counted /\ counted \subseteq Tree
        /\ failed \subseteq Tree \ counted /\ DOMAIN nodes \subseteq recorded
        /\ traversal \in {"running", "ended"} /\ backend \in Steps
        /\ token \in BOOLEAN
    BY <1>1, <1>2 DEF Steps
  <2>5. QED
    BY <1>1, <1>2, <2>1, <2>2, <2>3, <2>4 DEF TypedTree
<1>5. News(<<>>) = {} /\ \A known : InOrder(<<>>, known)
  BY DEF News, InOrder
<1>6. TopDown /\ RootSummed /\ ParentsShown /\ LastDrained /\ Concluded
  BY <1>1, <1>2 DEF TopDown, RootSummed, ParentsShown, LastDrained, LastSteps,
                    Concluded
<1>7. Announced /\ OnlyNodes
  BY <1>1, <1>2, <1>5 DEF Announced, OnlyNodes, Emitting
<1>8. QED
  BY <1>4, <1>6, <1>7 DEF TreeInv

\* Steps that leave the recorder and the client alone.
LEMMA NothingTold ==
  ASSUME Announced, OnlyNodes, ParentsShown,
         UNCHANGED <<recorder, batch, view>>,
         Emitting' <=> Emitting, ~token' => ~token
  PROVE  Announced' /\ OnlyNodes' /\ ParentsShown'
<1>1. nodes' = nodes /\ pending' = pending /\ batch' = batch /\ view' = view
  BY DEF recorder
<1>2. ParentsShown' /\ OnlyNodes'
  BY <1>1 DEF ParentsShown, OnlyNodes
<1>3. Known' = Known
  BY <1>1 DEF Known
<1>4. Announced'
  BY <1>1, <1>3 DEF Announced
<1>5. QED
  BY <1>2, <1>4

LEMMA CountsMore ==
  ASSUME TreeInv, NEW p \in Tree, CountNode(p) \/ FailNode(p)
  PROVE  TreeInv'
<1>1. /\ Reached(p) /\ backend \notin {"start", "canceled"} /\ traversal = "running"
      /\ UNCHANGED <<recorded, traversal, recorder, backend, batch, progress,
                     token, view>>
      /\ counted \subseteq counted' /\ counted' \subseteq counted \cup {p}
      /\ failed' \subseteq Tree \ counted'
  BY DEF TreeInv, TypedTree, CountNode, FailNode, Reached, Traversing
<1>2. backend \notin LastSteps \cup {"start", "canceled"}
  BY <1>1 DEF TreeInv, LastDrained
<1>3. Cardinality(counted) <= Cardinality(counted') /\ Cardinality(counted') \in Nat
  <2>1. IsFiniteSet(counted') /\ counted' \subseteq Tree
    BY <1>1, FS_Subset, TreeAssumption DEF TreeInv, TypedTree
  <2>2. QED
    BY <1>1, <2>1, FS_Subset, FS_CardinalityType
<1>4. TypedTree'
  <2>1. progress' \in 0 .. Cardinality(counted')
    BY <1>1, <1>3, Counts DEF TreeInv
  <2>2. counted' \subseteq Tree /\ recorded' \subseteq counted'
    BY <1>1 DEF TreeInv, TypedTree
  <2>3. QED
    BY <1>1, <2>1, <2>2 DEF TreeInv, TypedTree, recorder, Once
<1>5. TopDown'
  BY <1>1 DEF TreeInv, TopDown, recorder, Reached
<1>6. TreeSize' = TreeSize
  BY <1>1, TreeSizeSums
<1>7. RootSummed'
  BY <1>1, <1>6 DEF TreeInv, RootSummed, recorder
<1>8. Announced' /\ OnlyNodes' /\ ParentsShown'
  BY <1>1, NothingTold DEF TreeInv, Emitting
<1>9. LastDrained' /\ Concluded'
  BY <1>1, <1>2 DEF LastDrained, Concluded, LastSteps
<1>10. QED
  BY <1>4, <1>5, <1>7, <1>8, <1>9 DEF TreeInv

\* Steps of the control.
LEMMA ControlGoesOn ==
  ASSUME TreeInv,
         EndTraversal \/ Start \/ CheckFinished \/ EmitProgress \/ Finish \/ CancelScan
  PROVE  TreeInv'
<1>1. UNCHANGED <<counted, recorded, failed, recorder, batch, view>>
  BY DEF EndTraversal, Start, CheckFinished, EmitProgress, Finish, CancelScan
<1>2. traversal' \in {"running", "ended"} /\ backend' \in Steps /\ token' \in BOOLEAN
  BY DEF TreeInv, TypedTree, EndTraversal, Start, CheckFinished, EmitProgress, Finish,
         CancelScan, Goto, Steps
<1>3. progress' \in 0 .. Cardinality(counted)
  <2>1. progress' = progress \/ progress' = Cardinality(counted)
    BY DEF EndTraversal, Start, CheckFinished, EmitProgress, Finish, CancelScan,
           NextProgress
  <2>2. QED
    BY <2>1, Counts DEF TreeInv
<1>4. TypedTree'
  BY <1>1, <1>2, <1>3 DEF TreeInv, TypedTree, recorder, Once
<1>5. TopDown'
  BY <1>1 DEF TreeInv, TopDown, recorder
<1>6. TreeSize' = TreeSize
  BY <1>1, TreeSizeSums
<1>7. /\ backend' \notin {"end", "finished", "canceled"} =>
           backend \notin {"end", "finished", "canceled"}
      /\ (Emitting' <=> Emitting) /\ (~token' => ~token)
  <2>1. token' = token \/ CancelScan
    BY DEF EndTraversal, Start, CheckFinished, EmitProgress, Finish
  <2>2. ~token' => ~token
    BY <2>1 DEF CancelScan
  <2>3. /\ backend' \notin {"end", "finished", "canceled"} =>
             backend \notin {"end", "finished", "canceled"}
        /\ backend' \in {"emit", "emit last"} <=> backend \in {"emit", "emit last"}
    BY DEF EndTraversal, Start, CheckFinished, EmitProgress, Finish, CancelScan, Goto
  <2>4. QED
    BY <2>2, <2>3 DEF Emitting
<1>8. RootSummed'
  BY <1>1, <1>6, <1>7 DEF TreeInv, RootSummed, recorder
<1>9. Announced' /\ OnlyNodes' /\ ParentsShown'
  BY <1>1, <1>7, NothingTold DEF TreeInv
<1>10. LastDrained'
  <2>1. /\ backend' = "start" => backend = "start"
        /\ backend' \in LastSteps => backend \in LastSteps \/ traversal = "ended"
        /\ backend' \in LastSteps \ {"drain last"} =>
             backend \in LastSteps \ {"drain last"}
        /\ traversal' = traversal \/ traversal' = "ended"
    BY DEF EndTraversal, Start, CheckFinished, EmitProgress, Finish, CancelScan,
           Goto, LastSteps
  <2>2. QED
    BY <1>1, <2>1 DEF TreeInv, LastDrained, recorder
<1>11. RootTold' <=> RootTold
  BY <1>1, <1>6 DEF RootTold
<1>12. Concluded'
  <2>1. CASE Finish
    <3>1. /\ backend = "end" /\ backend' = IF token THEN "canceled" ELSE "finished"
          /\ progress' = NextProgress /\ counted' = counted
      BY <2>1 DEF Finish, Goto
    <3>2. backend' = "finished" => progress' = Cardinality(counted)
      BY <3>1, Counts DEF NextProgress, TreeInv
    <3>3. QED
      BY <1>11, <3>1, <3>2 DEF TreeInv, Concluded
  <2>2. CASE ~Finish
    <3>1. /\ backend' = "finished" => backend = "finished" /\ progress' = progress
          /\ backend' = "end" => backend = "end"
      BY <2>2 DEF EndTraversal, Start, CheckFinished, EmitProgress, CancelScan, Goto
    <3>2. QED
      BY <1>1, <1>7, <1>11, <3>1 DEF TreeInv, Concluded
  <2>3. QED
    BY <2>1, <2>2
<1>13. QED
  BY <1>4, <1>5, <1>8, <1>9, <1>10, <1>12 DEF TreeInv

LEMMA MinOfTwo ==
  ASSUME NEW a \in Nat, NEW b \in Nat
  PROVE  Min({a, b}) = IF a <= b THEN a ELSE b
<1> DEFINE least == IF a <= b THEN a ELSE b
<1>1. least \in {a, b} /\ \A y \in {a, b} : least <= y
  OBVIOUS
<1>2. \A x \in {a, b} : (\A y \in {a, b} : x <= y) => x = least
  OBVIOUS
<1>3. QED
  BY <1>1, <1>2 DEF Min

\* What is left when the batch has room is nothing.
LEMMA BatchDrained ==
  ASSUME TypedTree
  PROVE  \E m \in 0 .. Len(pending), l \in 0 .. Len(dirty), sizes \in Seq(Sizes) :
           /\ Drained.news = m /\ Drained.sizes = l /\ Len(sizes) = l
           /\ Drained.events = SubSeq(pending, 1, m) \o sizes
           /\ m < Len(pending) \/ l < Len(dirty) => m + l = BatchSize
<1> DEFINE n == Len(pending)
           d == Len(dirty)
           m == Min({n, BatchSize})
           l == Min({d, BatchSize - m})
           sizes == [i \in 1 .. l |-> SizeUpdated(dirty[i], nodes[dirty[i]])]
<1>1. n \in Nat /\ d \in Nat /\ BatchSize \in Nat
  BY TreeAssumption DEF TypedTree
<1> HIDE DEF n, d
<1>2. m = IF n <= BatchSize THEN n ELSE BatchSize
  BY <1>1, MinOfTwo
<1> HIDE DEF m
<1>3. m \in 0 .. n /\ BatchSize - m \in Nat /\ (m < n => m = BatchSize)
  BY <1>1, <1>2
<1>4. l = IF d <= BatchSize - m THEN d ELSE BatchSize - m
  BY <1>1, <1>3, MinOfTwo
<1> HIDE DEF l
<1>5. l \in 0 .. d /\ (l < d => m + l = BatchSize) /\ (m < n => m + l = BatchSize)
  BY <1>1, <1>3, <1>4
<1>6. sizes \in Seq(Sizes) /\ Len(sizes) = l
  <2>1. ASSUME NEW i \in 1 .. l PROVE SizeUpdated(dirty[i], nodes[dirty[i]]) \in Sizes
    <3>1. i \in 1 .. d
      BY <1>1, <1>5
    <3>2. dirty[i] \in DOMAIN nodes
      BY <3>1 DEF TypedTree, d
    <3>3. dirty[i] \in Tree /\ nodes[dirty[i]] \in Nat
      BY <3>2 DEF TypedTree, Sums
    <3>4. QED
      BY <3>3 DEF SizeUpdated, Sizes
  <2>2. l \in Nat
    BY <1>1, <1>5
  <2>3. QED
    BY <2>1, <2>2
<1>7. Drained = [events |-> SubSeq(pending, 1, m) \o sizes, news |-> m, sizes |-> l]
  BY DEF Drained, l, m, n, d
<1> HIDE DEF sizes
<1>8. QED
  BY <1>3, <1>5, <1>6, <1>7 DEF n, d

LEMMA Drains ==
  ASSUME TreeInv, Drain("drain", "emit") \/ Drain("drain last", "emit last")
  PROVE  TreeInv'
<1>1. /\ UNCHANGED <<counted, recorded, failed, traversal, nodes, progress,
                     token, view>>
      /\ batch' = Drained.events
      /\ pending' = SubSeq(pending, Drained.news + 1, Len(pending))
      /\ dirty' = SubSeq(dirty, Drained.sizes + 1, Len(dirty))
  BY DEF Drain
<1>2. /\ backend \in {"drain", "drain last"} /\ backend' \in {"emit", "emit last"}
      /\ backend' = "emit last" => backend = "drain last"
  BY DEF Drain, Goto
<1>3. PICK m \in 0 .. Len(pending), l \in 0 .. Len(dirty), sizes \in Seq(Sizes) :
           /\ Drained.news = m /\ Drained.sizes = l /\ Len(sizes) = l
           /\ Drained.events = SubSeq(pending, 1, m) \o sizes
           /\ m < Len(pending) \/ l < Len(dirty) => m + l = BatchSize
  BY BatchDrained DEF TreeInv
<1>4. /\ pending \in Seq(Discoveries) /\ dirty \in Seq(DOMAIN nodes) /\ Once(dirty)
      /\ Len(pending) \in Nat /\ Len(dirty) \in Nat
  <2>1. pending \in Seq(Discoveries) /\ dirty \in Seq(DOMAIN nodes) /\ Once(dirty)
    BY DEF TreeInv, TypedTree
  <2>2. Len(pending) \in Nat /\ Len(dirty) \in Nat
    BY <2>1, LenProperties
  <2>3. QED
    BY <2>1, <2>2
<1> DEFINE shown == DOMAIN view
<1>5. /\ batch' \in Seq(Sizes \cup Discoveries) /\ pending' \in Seq(Discoveries)
      /\ Len(batch') = m + l
      /\ pending' # <<>> => m < Len(pending)
      /\ News(batch') \cup News(pending') = News(pending)
      /\ InOrder(pending, shown) =>
           InOrder(batch', shown) /\ InOrder(pending', shown \cup News(batch'))
  <2>1. batch' = SubSeq(pending, 1, m) \o sizes
        /\ pending' = SubSeq(pending, m + 1, Len(pending))
    BY <1>1, <1>3
  <2>2. Len(sizes) = l
    BY <1>3
  <2> HIDE DEF shown
  <2>3. /\ batch' \in Seq(Sizes \cup Discoveries) /\ pending' \in Seq(Discoveries)
        /\ Len(batch') = m + Len(sizes)
        /\ pending' # <<>> => m < Len(pending)
        /\ News(batch') \cup News(pending') = News(pending)
        /\ InOrder(pending, shown) =>
             InOrder(batch', shown) /\ InOrder(pending', shown \cup News(batch'))
    <3>1. IsSplit(pending, m, sizes, batch', pending')
      BY <1>3, <1>4, <2>1 DEF IsSplit
    <3>2. QED
      BY <3>1, SplitNews
  <2>4. QED
    BY <2>2, <2>3
<1>6. /\ dirty' \in Seq(DOMAIN nodes) /\ Once(dirty')
      /\ dirty' # <<>> => l < Len(dirty)
  BY <1>1, <1>3, <1>4, RestOf
<1>7. TypedTree'
  BY <1>1, <1>2, <1>5, <1>6 DEF TreeInv, TypedTree, Steps, Once
<1>8. TopDown'
  BY <1>1 DEF TreeInv, TopDown
<1>9. TreeSize' = TreeSize
  BY <1>1, TreeSizeSums
<1>10. RootSummed'
  BY <1>1, <1>2, <1>9 DEF TreeInv, RootSummed
<1>11. Known = shown /\ Known' = shown \cup News(batch')
  BY <1>1, <1>2 DEF Known, Emitting
<1>12. Announced'
  <2> SUFFICES ASSUME ~token'
               PROVE  /\ DOMAIN nodes' \subseteq Known' \cup News(pending')
                      /\ InOrder(pending', Known') /\ InOrder(batch', DOMAIN view')
    BY DEF Announced
  <2>1. DOMAIN nodes \subseteq Known \cup News(pending) /\ InOrder(pending, Known)
    BY <1>1 DEF TreeInv, Announced
  <2>2. DOMAIN view' = shown /\ DOMAIN nodes' = DOMAIN nodes
    BY <1>1
  <2> HIDE DEF shown
  <2>3. QED
    BY <1>5, <1>11, <2>1, <2>2
<1>13. OnlyNodes'
  <2>1. shown \cup News(pending) \subseteq DOMAIN nodes
    BY DEF TreeInv, OnlyNodes
  <2>2. DOMAIN view' = shown /\ DOMAIN nodes' = DOMAIN nodes
    BY <1>1
  <2> HIDE DEF shown
  <2>3. DOMAIN view' \cup News(batch') \cup News(pending') \subseteq DOMAIN nodes'
    BY <1>5, <2>1, <2>2
  <2>4. QED
    BY <2>3 DEF OnlyNodes
<1>14. ParentsShown'
  BY <1>1 DEF TreeInv, ParentsShown
<1>15. LastDrained'
  <2>1. backend' \in LastSteps => traversal' = "ended"
    BY <1>1, <1>2 DEF TreeInv, LastDrained, LastSteps
  <2>2. /\ pending' # <<>> => Len(batch') = BatchSize
        /\ dirty' # <<>> => Len(batch') = BatchSize
    BY <1>3, <1>5, <1>6
  <2>3. backend' # "start"
    BY <1>2
  <2>4. QED
    BY <2>1, <2>2, <2>3 DEF LastDrained
<1>16. Concluded'
  BY <1>2 DEF Concluded
<1>17. QED
  BY <1>7, <1>8, <1>10, <1>12, <1>13, <1>14, <1>15, <1>16 DEF TreeInv

LEMMA Emits ==
  ASSUME TreeInv, Emit("emit", "progress") \/ Emit("emit last", "complete")
  PROVE  TreeInv'
<1>1. /\ UNCHANGED <<counted, recorded, failed, traversal, recorder, batch, progress,
                     token>>
      /\ view' = IF token THEN view ELSE FoldLeft(Apply, view, batch)
  BY DEF Emit
<1>2. /\ backend \in {"emit", "emit last"} /\ backend' \in {"progress", "complete"}
      /\ backend' = "complete" => backend = "emit last"
  BY DEF Emit, Goto
<1>3. nodes' = nodes /\ pending' = pending /\ dirty' = dirty
  BY <1>1 DEF recorder
<1>4. /\ view' \in Views /\ Hangs(view')
      /\ DOMAIN view' \subseteq DOMAIN nodes
      /\ ~token => DOMAIN view' = Known
  <2>1. view \in Views /\ Hangs(view) /\ batch \in Seq(Sizes \cup Discoveries)
        /\ DOMAIN view \cup News(batch) \subseteq DOMAIN nodes
    BY DEF TreeInv, TypedTree, ParentsShown, Hangs, OnlyNodes
  <2>2. CASE token
    BY <1>1, <2>1, <2>2
  <2>3. CASE ~token
    <3>1. InOrder(batch, DOMAIN view)
      BY <1>2, <2>3 DEF TreeInv, Announced, Emitting
    <3>2. /\ FoldLeft(Apply, view, batch) \in Views
          /\ DOMAIN FoldLeft(Apply, view, batch) = DOMAIN view \cup News(batch)
          /\ Hangs(FoldLeft(Apply, view, batch))
      BY <2>1, <3>1, TellingHangs
    <3>3. Known = DOMAIN view \cup News(batch)
      BY <1>2 DEF Known, Emitting
    <3>4. view' = FoldLeft(Apply, view, batch)
      BY <1>1, <2>3
    <3>5. QED
      BY <2>1, <3>2, <3>3, <3>4
  <2>4. QED
    BY <2>2, <2>3
<1>5. TypedTree'
  BY <1>1, <1>2, <1>3, <1>4 DEF TreeInv, TypedTree, Steps, Once
<1>6. TopDown'
  BY <1>1, <1>3 DEF TreeInv, TopDown
<1>7. TreeSize' = TreeSize
  BY <1>1, TreeSizeSums
<1>8. RootSummed'
  BY <1>2, <1>3, <1>7 DEF TreeInv, RootSummed
<1>9. Announced'
  <2> SUFFICES ASSUME ~token'
               PROVE  /\ DOMAIN nodes' \subseteq Known' \cup News(pending')
                      /\ InOrder(pending', Known') /\ ~Emitting'
    BY DEF Announced
  <2>1. ~Emitting' /\ Known' = DOMAIN view'
    BY <1>2 DEF Known, Emitting
  <2>2. ~token
    BY <1>1
  <2>3. DOMAIN nodes \subseteq Known \cup News(pending) /\ InOrder(pending, Known)
    BY <2>2 DEF TreeInv, Announced
  <2>4. QED
    BY <1>3, <1>4, <2>1, <2>2, <2>3
<1>10. OnlyNodes'
  BY <1>1, <1>3, <1>4 DEF TreeInv, OnlyNodes
<1>11. ParentsShown'
  BY <1>4 DEF ParentsShown, Hangs
<1>12. LastDrained'
  BY <1>1, <1>2, <1>3 DEF TreeInv, LastDrained, LastSteps
<1>13. Concluded'
  BY <1>2 DEF Concluded
<1>14. QED
  BY <1>5, <1>6, <1>8, <1>9, <1>10, <1>11, <1>12, <1>13 DEF TreeInv

LEMMA ThoseOnce ==
  ASSUME NEW E, NEW list \in Seq(E), Once(list), NEW S
  PROVE  /\ Those(list, S) \in Seq(E) /\ Once(Those(list, S))
         /\ Those(list, S) # <<>> => list # <<>>
<1> DEFINE kept == Chosen(list, S)
<1>1. Holds(kept, E, list, Len(list), S)
  BY ChosenHolds
<1>2. Once(kept)
  BY ChosenOnce DEF Once
<1> HIDE DEF kept
<1>3. /\ kept \in Seq(E)
      /\ \A i \in DOMAIN kept : \E a \in 1 .. Len(list) : list[a] = kept[i]
  BY <1>1 DEF Holds
<1>4. ASSUME kept # <<>> PROVE list # <<>>
  <2>1. 1 \in DOMAIN kept
    BY <1>3, <1>4
  <2>2. PICK a \in 1 .. Len(list) : list[a] = kept[1]
    BY <1>3, <2>1
  <2>3. QED
    BY <2>2
<1>5. QED
  BY <1>2, <1>3, <1>4, ThoseChosen DEF kept

\* What the client is shown in the end.
LEMMA TellingRoot ==
  ASSUME NEW tree \in Views, Hangs(tree), NEW n \in Nat, NEW shown,
         shown = FoldLeft(Apply, tree, <<SizeUpdated(Root, n), Completed(Root, n)>>)
  PROVE  /\ shown \in Views /\ DOMAIN shown = DOMAIN tree /\ Hangs(shown)
         /\ Root \in DOMAIN tree =>
              shown[Root].size = n /\ shown[Root].state = "complete"
<1> DEFINE e == SizeUpdated(Root, n)
           d == Completed(Root, n)
           events == <<e, d>>
<1>1. /\ e \in Sizes /\ e.kind = "size" /\ e.path = Root /\ e.size = n
      /\ d \in Sizes /\ d.kind = "completed" /\ d.path = Root /\ d.size = n
  BY TreeAssumption DEF SizeUpdated, Completed, Sizes
<1> HIDE DEF e, d
<1>2. /\ events \in Seq(Sizes \cup Discoveries) /\ Len(events) = 2
      /\ events[1] = e /\ events[2] = d /\ DOMAIN events = {1, 2}
  BY <1>1
<1> HIDE DEF events
<1>3. \A i \in DOMAIN events : \A p : ~Discovers(events[i], p)
  BY <1>1, <1>2 DEF Discovers
<1>4. InOrder(events, DOMAIN tree) /\ News(events) = {}
  BY <1>3 DEF InOrder, News
<1>5. shown = FoldLeft(Apply, tree, events)
  BY DEF events, e, d
<1>6. shown \in Views /\ DOMAIN shown = DOMAIN tree /\ Hangs(shown)
  BY <1>2, <1>4, <1>5, TellingHangs
<1>7. ASSUME Root \in DOMAIN tree
      PROVE  shown[Root].size = n /\ shown[Root].state = "complete"
  <2>1. PICK h : Applies(h, tree, events) /\ h[Len(events)] = shown
    BY <1>2, <1>5, TellingHasValue
  <2>2. h[0] = tree /\ h[1] = Apply(h[0], e) /\ h[2] = Apply(h[1], d) /\ h[1] \in Views
    <3>1. /\ h \in [0 .. 2 -> Views] /\ h[0] = tree
          /\ \A k \in 1 .. 2 : h[k] = Apply(h[k - 1], events[k])
      BY <1>2, <2>1 DEF Applies
    <3>2. 1 \in 1 .. 2 /\ 2 \in 1 .. 2 /\ 1 - 1 = 0 /\ 2 - 1 = 1 /\ 1 \in 0 .. 2
      OBVIOUS
    <3>3. h[1] = Apply(h[1 - 1], events[1]) /\ h[2] = Apply(h[2 - 1], events[2])
      BY <3>1, <3>2
    <3>4. QED
      BY <1>2, <3>1, <3>2, <3>3
  <2>3. Root \in DOMAIN h[1]
    <3>1. Event(e) /\ e.kind # "discovered"
      BY <1>1 DEF Event
    <3>2. DOMAIN Apply(tree, e) = DOMAIN tree
      BY <3>1, ApplyKeeps
    <3>3. QED
      BY <1>7, <2>2, <3>2
  <2> DEFINE t == h[1]
  <2> HIDE DEF t
  <2>4. PICK known \in SUBSET Tree : t \in [known -> Shown]
    BY <2>2 DEF Views, t
  <2>5. Apply(t, d) = [t EXCEPT ![Root].size = n, ![Root].state = "complete"]
    BY <1>1, <2>3 DEF Apply, t
  <2>6. t[Root] \in Shown
    BY <2>3, <2>4 DEF t
  <2>7. Apply(t, d)[Root].size = n /\ Apply(t, d)[Root].state = "complete"
    BY <2>3, <2>4, <2>5, <2>6 DEF Shown, t
  <2>8. shown = Apply(t, d)
    BY <1>2, <2>1, <2>2 DEF t
  <2>9. QED
    BY <2>7, <2>8
<1>8. QED
  BY <1>6, <1>7

LEMMA CompletesRoot ==
  ASSUME TreeInv, CompleteRoot
  PROVE  TreeInv'
<1>1. /\ backend = "complete" /\ backend' = "end"
      /\ UNCHANGED <<counted, recorded, failed, traversal, batch, progress, token>>
  BY DEF CompleteRoot, Goto
<1>2. /\ traversal = "ended"
      /\ pending # <<>> => Len(batch) = BatchSize
      /\ dirty # <<>> => Len(batch) = BatchSize
  BY <1>1 DEF TreeInv, LastDrained, LastSteps
<1>3. TreeSize' = TreeSize /\ TreeSize \in Nat
  BY <1>1, TreeSizeSums, Counts DEF TreeInv
<1>4. nodes \in Sums /\ view \in Views /\ Hangs(view)
  BY DEF TreeInv, TypedTree, ParentsShown, Hangs
<1>5. /\ nodes' \in Sums /\ DOMAIN nodes' = DOMAIN nodes
      /\ pending' = pending
      /\ dirty' \in Seq(DOMAIN nodes) /\ Once(dirty')
      /\ dirty' # <<>> => dirty # <<>>
      /\ view' \in Views /\ DOMAIN view' = DOMAIN view /\ Hangs(view')
      /\ ~token => RootTold'
  <2>1. CASE token \/ Root \notin DOMAIN nodes
    <3>1. nodes' = nodes /\ pending' = pending /\ dirty' = dirty /\ view' = view
      BY <2>1 DEF CompleteRoot, recorder
    <3>2. Root \in DOMAIN view => token
      BY <2>1 DEF TreeInv, OnlyNodes
    <3>3. QED
      BY <1>4, <3>1, <3>2 DEF TreeInv, TypedTree, RootTold
  <2>2. CASE ~token /\ Root \in DOMAIN nodes
    <3>1. nodes[Root] = TreeSize
      BY <1>1, <2>2 DEF TreeInv, RootSummed
    <3>2. (IF nodes[Root] > TreeSize THEN nodes[Root] ELSE TreeSize) = TreeSize
      BY <3>1
    <3>3. /\ nodes' = [nodes EXCEPT ![Root] = TreeSize]
          /\ dirty' = Those(dirty, ToSet(dirty) \ {Root})
          /\ view' = FoldLeft(Apply, view, <<SizeUpdated(Root, TreeSize),
                                             Completed(Root, TreeSize)>>)
          /\ pending' = pending
      BY <2>2, <3>2 DEF CompleteRoot
    <3>4. nodes' \in Sums /\ DOMAIN nodes' = DOMAIN nodes
      <4>1. PICK known \in SUBSET Tree : nodes \in [known -> Nat]
        BY <1>4 DEF Sums
      <4>2. nodes' \in [known -> Nat]
        BY <1>3, <3>3, <4>1
      <4>3. QED
        BY <4>1, <4>2 DEF Sums
    <3>5. /\ dirty' \in Seq(DOMAIN nodes) /\ Once(dirty')
          /\ dirty' # <<>> => dirty # <<>>
      <4>1. dirty \in Seq(DOMAIN nodes) /\ Once(dirty)
        BY DEF TreeInv, TypedTree
      <4>2. QED
        BY <3>3, <4>1, ThoseOnce
    <3>6. /\ view' \in Views /\ DOMAIN view' = DOMAIN view /\ Hangs(view')
          /\ Root \in DOMAIN view =>
               view'[Root].size = TreeSize /\ view'[Root].state = "complete"
      BY <1>3, <1>4, <3>3, TellingRoot
    <3>7. RootTold'
      BY <1>3, <3>6 DEF RootTold
    <3>8. QED
      BY <3>3, <3>4, <3>5, <3>6, <3>7
  <2>3. QED
    BY <2>1, <2>2
<1>6. TypedTree'
  BY <1>1, <1>5 DEF TreeInv, TypedTree, Steps, Once
<1>7. TopDown'
  BY <1>1, <1>5 DEF TreeInv, TopDown
<1>8. RootSummed' /\ LastDrained'
  BY <1>1, <1>2, <1>5 DEF RootSummed, LastDrained
<1>9. Known = DOMAIN view /\ Known' = DOMAIN view' /\ ~Emitting'
  BY <1>1 DEF Known, Emitting
<1>10. Announced' /\ OnlyNodes' /\ ParentsShown'
  <2>1. OnlyNodes'
    BY <1>1, <1>5 DEF TreeInv, OnlyNodes
  <2>2. ParentsShown'
    BY <1>5 DEF ParentsShown, Hangs
  <2>3. Announced'
    BY <1>1, <1>5, <1>9 DEF TreeInv, Announced
  <2>4. QED
    BY <2>1, <2>2, <2>3
<1>11. Concluded'
  BY <1>1, <1>5 DEF Concluded
<1>12. QED
  BY <1>6, <1>7, <1>8, <1>10, <1>11 DEF TreeInv

\* record_node keeps to the bound, and announces a node below its directory.
LEMMA Records ==
  ASSUME TreeInv, NEW p \in Tree, RecordNode(p)
  PROVE  TreeInv'
<1> DEFINE more == Materialized(p)
           size == Size[p]
<1>1. /\ p \in counted \ recorded /\ traversal = "running"
      /\ recorded' = recorded \cup {p}
      /\ pending' = IF Materializes(p)
                    THEN Append(pending, Discovered(p, ParentOf(p))) ELSE pending
      /\ nodes' = AddSize(more, p)
      /\ dirty' = dirty \o NewlyDirty(more, p)
      /\ UNCHANGED <<counted, failed, traversal, backend, batch, progress,
                     token, view>>
  BY DEF RecordNode
<1>2. backend \notin LastSteps \cup {"start"}
  BY <1>1 DEF TreeInv, LastDrained
<1>3. /\ TypedTree /\ size \in Nat /\ p \in Ancestors(p) /\ Root \in Ancestors(p)
      /\ IsFiniteSet(DOMAIN nodes) /\ Cardinality(DOMAIN nodes) \in Nat
  BY TreeAssumption, Above, Counts DEF TreeInv
<1>4. /\ p \notin DOMAIN nodes /\ DOMAIN nodes \subseteq Tree
      /\ p # Root => Front(p) \in recorded
  BY <1>1 DEF TreeInv, TypedTree, TopDown
<1>5. DOMAIN more = IF Materializes(p) THEN DOMAIN nodes \cup {p} ELSE DOMAIN nodes
  BY DEF Materialized
<1>6. more \in [DOMAIN more -> Nat] /\ DOMAIN more \subseteq Tree
      /\ (\A q \in DOMAIN nodes : more[q] = nodes[q])
      /\ (Materializes(p) => more[p] = 0)
  <2>1. \A q \in DOMAIN nodes : nodes[q] \in Nat
    BY <1>3 DEF TypedTree, Sums
  <2>2. nodes \in [DOMAIN nodes -> Nat]
    BY <1>3 DEF TypedTree, Sums
  <2>3. CASE Materializes(p)
    <3>1. more = [q \in DOMAIN nodes \cup {p} |-> IF q = p THEN 0 ELSE nodes[q]]
      BY <2>3 DEF Materialized
    <3>2. QED
      BY <1>4, <1>5, <2>1, <2>3, <3>1
  <2>4. CASE ~Materializes(p)
    <3>1. more = nodes
      BY <2>4 DEF Materialized
    <3>2. QED
      BY <1>4, <2>2, <2>4, <3>1
  <2>5. QED
    BY <2>3, <2>4
<1> HIDE DEF more
<1>7. /\ DOMAIN nodes' = DOMAIN more /\ nodes' \in Sums
      /\ \A q \in DOMAIN more :
           nodes'[q] = IF q \in Ancestors(p) THEN more[q] + size ELSE more[q]
  <2>1. nodes' = [q \in DOMAIN more |->
                    IF q \in Ancestors(p) THEN more[q] + size ELSE more[q]]
    BY <1>1 DEF AddSize
  <2>2. \A q \in DOMAIN more :
          (IF q \in Ancestors(p) THEN more[q] + size ELSE more[q]) \in Nat
    BY <1>3, <1>6
  <2>3. nodes' \in [DOMAIN more -> Nat]
    BY <2>1, <2>2
  <2>4. nodes' \in Sums
    BY <1>6, <2>3 DEF Sums
  <2>5. QED
    BY <2>1, <2>4
<1>8. /\ Cardinality(DOMAIN nodes') <= MaxPartial
      /\ Cardinality(DOMAIN nodes) <= Cardinality(DOMAIN nodes')
      /\ Cardinality(DOMAIN nodes') \in Nat
  <2>1. CASE Materializes(p)
    <3>1. DOMAIN nodes' = DOMAIN nodes \cup {p}
      BY <1>5, <1>7, <2>1
    <3>2. Cardinality(DOMAIN nodes \cup {p}) = Cardinality(DOMAIN nodes) + 1
      BY <1>3, <1>4, FS_AddElement
    <3>3. Cardinality(DOMAIN nodes) < MaxPartial
      BY <2>1 DEF Materializes
    <3>4. QED
      BY <1>3, <3>1, <3>2, <3>3, TreeAssumption
  <2>2. CASE ~Materializes(p)
    <3>1. DOMAIN nodes' = DOMAIN nodes
      BY <1>5, <1>7, <2>2
    <3>2. QED
      BY <1>3, <3>1 DEF TypedTree
  <2>3. QED
    BY <2>1, <2>2
<1>9. dirty' \in Seq(DOMAIN nodes') /\ Once(dirty')
  <2>1. /\ NewlyDirty(more, p) \in Seq(DOMAIN more) /\ Once(NewlyDirty(more, p))
        /\ \A i \in DOMAIN NewlyDirty(more, p) :
             NewlyDirty(more, p)[i] \notin ToSet(dirty)
    BY NewlyDirtyOnce
  <2>2. dirty \in Seq(DOMAIN more) /\ Once(dirty)
    <3>1. dirty \in Seq(DOMAIN nodes) /\ DOMAIN nodes \subseteq DOMAIN more /\ Once(dirty)
      BY <1>3, <1>5 DEF TypedTree
    <3>2. QED
      BY <3>1
  <2>3. dirty \o NewlyDirty(more, p) \in Seq(DOMAIN more)
        /\ Once(dirty \o NewlyDirty(more, p))
    BY <2>1, <2>2, OnceJoined
  <2>4. QED
    BY <1>1, <1>7, <2>3
\* The directory of a node that gets one has a node.
<1>10. ASSUME Materializes(p), p # Root
       PROVE  ParentOf(p) = Front(p) /\ Front(p) \in DOMAIN nodes
  <2>1. /\ Front(p) \in recorded \cap Directories
        /\ Len(Front(p)) < Len(p) /\ Len(p) < MaxDepth
    BY <1>4, <1>10, Above DEF Materializes
  <2>2. Len(Front(p)) \in Nat /\ Len(p) \in Nat /\ MaxDepth \in Nat
    BY <1>10, Above, TreeAssumption
  <2>3. Len(Front(p)) < MaxDepth
    BY <2>1, <2>2
  <2>4. Front(p) \in DOMAIN nodes \/ Cardinality(DOMAIN nodes) >= MaxPartial
    BY <2>1, <2>3 DEF TreeInv, TopDown
  <2>5. Cardinality(DOMAIN nodes) < MaxPartial /\ MaxPartial \in Nat
    BY <1>10, TreeAssumption DEF Materializes
  <2>6. Front(p) \in DOMAIN nodes
    BY <1>3, <2>4, <2>5
  <2>7. QED
    BY <1>10, <2>6 DEF ParentOf
<1>11. ParentOf(p) \in Tree \cup {NoParent}
  BY <1>4 DEF ParentOf
<1>12. pending \in Seq(Discoveries) /\ pending' \in Seq(Discoveries)
  <2>1. Discovered(p, ParentOf(p)) \in Discoveries
    BY <1>11 DEF Discovered, Discoveries
  <2>2. pending \in Seq(Discoveries)
    BY <1>3 DEF TypedTree
  <2>3. QED
    BY <1>1, <2>1, <2>2
<1>13. News(pending') =
         IF Materializes(p) THEN News(pending) \cup {p} ELSE News(pending)
  BY <1>1, <1>11, <1>12, NewsAppended
<1>14. TypedTree'
  <2>1. recorded' \subseteq counted' /\ DOMAIN nodes' \subseteq recorded'
    BY <1>1, <1>3, <1>5, <1>7 DEF TypedTree
  <2>2. QED
    BY <1>1, <1>3, <1>7, <1>8, <1>9, <1>12, <2>1 DEF TypedTree
<1>15. TopDown'
  <2>1. \A q \in counted' \ {Root} : Front(q) \in recorded'
    BY <1>1 DEF TreeInv, TopDown
  <2>2. Root \in recorded'
    BY <1>1, <1>4 DEF TreeInv, TopDown
  <2>3. ASSUME NEW q \in recorded' \cap Directories, Len(q) < MaxDepth
        PROVE  q \in DOMAIN nodes' \/ Cardinality(DOMAIN nodes') >= MaxPartial
    <3>1. CASE q = p
      <4>1. CASE Materializes(p)
        BY <1>5, <1>7, <3>1, <4>1
      <4>2. CASE ~Materializes(p)
        <5>1. ~(Cardinality(DOMAIN nodes) < MaxPartial)
          BY <1>4, <2>3, <3>1, <4>2 DEF Materializes
        <5>2. QED
          BY <1>3, <1>8, <5>1, TreeAssumption
      <4>3. QED
        BY <4>1, <4>2
    <3>2. CASE q # p
      <4>1. q \in DOMAIN nodes \/ Cardinality(DOMAIN nodes) >= MaxPartial
        BY <1>1, <2>3, <3>2 DEF TreeInv, TopDown
      <4>2. DOMAIN nodes \subseteq DOMAIN nodes'
        BY <1>5, <1>7
      <4>3. QED
        BY <1>3, <1>8, <4>1, <4>2, TreeAssumption
    <3>3. QED
      BY <3>1, <3>2
  <2>4. QED
    BY <2>1, <2>2, <2>3 DEF TopDown
<1>16. RootSummed'
  <2> SUFFICES ASSUME Root \in DOMAIN nodes',
                      backend' \notin {"end", "finished", "canceled"}
               PROVE  nodes'[Root] = TreeSize'
    BY DEF RootSummed
  <2>1. TreeSize \in Nat /\ TreeSize' = TreeSize + size
    <3>1. recorded \in SUBSET Tree /\ p \in Tree \ recorded
      BY <1>1, <1>3 DEF TypedTree
    <3>2. /\ SumOver(recorded, Size) \in Nat
          /\ SumOver(recorded \cup {p}, Size) = SumOver(recorded, Size) + Size[p]
      <4>1. IsFiniteSet(Tree) /\ Size \in [Tree -> Nat]
        BY TreeAssumption
      <4>2. QED
        BY <3>1, <4>1, SumOfMore
    <3>3. QED
      BY <1>1, <3>2, TreeSizeSums
  <2>2. nodes'[Root] = more[Root] + size
    BY <1>3, <1>7
  <2>3. CASE Root \in DOMAIN nodes
    <3>1. nodes[Root] = TreeSize
      BY <1>1, <2>3 DEF TreeInv, RootSummed
    <3>2. more[Root] = nodes[Root]
      BY <1>6, <2>3
    <3>3. QED
      BY <2>1, <2>2, <3>1, <3>2
  <2>4. CASE Root \notin DOMAIN nodes
    <3>1. p = Root /\ Materializes(p)
      BY <1>5, <1>7, <2>4
    <3>2. recorded = {}
      BY <1>1, <3>1 DEF TreeInv, TopDown
    <3>3. TreeSize = 0
      BY <3>2, TreeSizeSums, SumOfNone, TreeAssumption
    <3>4. more[Root] = 0
      BY <1>6, <3>1
    <3>5. QED
      BY <2>1, <2>2, <3>3, <3>4
  <2>5. QED
    BY <2>3, <2>4
<1>17. Known' = Known /\ (Emitting' <=> Emitting)
  BY <1>1 DEF Known, Emitting
<1>18. Announced'
  <2> SUFFICES ASSUME ~token'
               PROVE  /\ DOMAIN nodes' \subseteq Known' \cup News(pending')
                      /\ InOrder(pending', Known')
                      /\ Emitting' => InOrder(batch', DOMAIN view')
    BY DEF Announced
  <2>1. /\ DOMAIN nodes \subseteq Known \cup News(pending) /\ InOrder(pending, Known)
        /\ Emitting => InOrder(batch, DOMAIN view)
    BY <1>1 DEF TreeInv, Announced
  <2>2. Emitting' => InOrder(batch', DOMAIN view')
    BY <1>1, <1>17, <2>1
  <2>3. DOMAIN nodes' \subseteq Known \cup News(pending')
    BY <1>5, <1>7, <1>13, <2>1
  <2>4. InOrder(pending', Known)
    <3>1. CASE Materializes(p)
      <4>1. p # Root => ParentOf(p) = Front(p) /\ Front(p) \in Known \cup News(pending)
        BY <1>10, <2>1, <3>1
      <4>2. InOrder(Append(pending, Discovered(p, ParentOf(p))), Known)
        BY <1>11, <1>12, <2>1, <4>1, InOrderAppended
      <4>3. QED
        BY <1>1, <3>1, <4>2
    <3>2. CASE ~Materializes(p)
      BY <1>1, <2>1, <3>2
    <3>3. QED
      BY <3>1, <3>2
  <2>5. QED
    BY <1>17, <2>2, <2>3, <2>4
<1>19. OnlyNodes'
  BY <1>1, <1>5, <1>7, <1>13 DEF TreeInv, OnlyNodes
<1>20. ParentsShown'
  BY <1>1 DEF TreeInv, ParentsShown
<1>21. LastDrained' /\ Concluded'
  BY <1>1, <1>2 DEF LastDrained, Concluded, LastSteps
<1>22. QED
  BY <1>14, <1>15, <1>16, <1>18, <1>19, <1>20, <1>21 DEF TreeInv

LEMMA TreeStays ==
  ASSUME TreeInv, UNCHANGED treeVars
  PROVE  TreeInv'
<1>1. UNCHANGED <<counted, recorded, failed, traversal, nodes, pending, dirty,
                  backend, batch, progress, token, view>>
  BY DEF treeVars
<1>2. TreeSize' = TreeSize
  BY <1>1, TreeSizeSums
<1>3. TypedTree' /\ TopDown' /\ RootSummed' /\ LastDrained' /\ Concluded'
  BY <1>1, <1>2 DEF TreeInv, TypedTree, TopDown, RootSummed, LastDrained, Concluded,
                    RootTold, Once
<1>4. Announced' /\ OnlyNodes' /\ ParentsShown'
  BY <1>1, NothingTold DEF TreeInv, Emitting, recorder
<1>5. QED
  BY <1>3, <1>4 DEF TreeInv

LEMMA TreeStep ==
  ASSUME TreeInv, [TreeNext]_treeVars
  PROVE  TreeInv'
<1>1. CASE Traverse
  <2>1. CASE \E p \in Tree : FailNode(p) \/ CountNode(p) \/ RecordNode(p)
    BY <2>1, CountsMore, Records
  <2>2. CASE EndTraversal
    BY <2>2, ControlGoesOn
  <2>3. QED
    BY <1>1, <2>1, <2>2 DEF Traverse
<1>2. CASE ScanThread
  <2>1. CASE Start \/ CheckFinished \/ EmitProgress \/ Finish
    BY <2>1, ControlGoesOn
  <2>2. CASE Drain("drain", "emit") \/ Drain("drain last", "emit last")
    BY <2>2, Drains
  <2>3. CASE Emit("emit", "progress") \/ Emit("emit last", "complete")
    BY <2>3, Emits
  <2>4. CASE CompleteRoot
    BY <2>4, CompletesRoot
  <2>5. QED
    BY <1>2, <2>1, <2>2, <2>3, <2>4 DEF ScanThread
<1>3. CASE CancelScan
  BY <1>3, ControlGoesOn
<1>4. CASE UNCHANGED treeVars
  BY <1>4, TreeStays
<1>5. QED
  BY <1>1, <1>2, <1>3, <1>4 DEF TreeNext

LEMMA TreeInvariant == TreeSpec => []TreeInv
<1>1. TreeInv /\ [TreeNext]_treeVars => TreeInv'
  BY TreeStep
<1>2. QED
  BY <1>1, TreeInitially, PTL DEF TreeSpec

\* The recorder keeps to its bound and queues each path once, whichever thread
\* visits what first.  (PduGrowingTreeState)
THEOREM TreeTypeCorrect == TreeSpec => []TreeTypeOK
<1>1. TreeInv => TreeTypeOK
  BY TypesHold DEF TreeInv
<1>2. QED
  BY <1>1, TreeInvariant, PTL

LEMMA ToldInTheEnd == TreeInv => TreeIsTold
<1> SUFFICES ASSUME TreeInv PROVE TreeIsTold
  OBVIOUS
<1>1. ASSUME backend = "finished"
      PROVE  /\ progress = Cardinality(counted) /\ RootTold
             /\ pending # <<>> => Len(batch) = BatchSize
             /\ dirty # <<>> => Len(batch) = BatchSize
  BY <1>1 DEF TreeInv, Concluded, LastDrained, LastSteps
<1>2. FinishedTold
  BY <1>1 DEF FinishedTold, RootTold
<1>3. QED
  BY <1>2 DEF TreeInv, TreeIsTold

\* The client is shown a tree whenever it looks, and the complete root with the
\* size and the number of all that was counted when a scan ends that was not
\* canceled.  (drain_regular_batch, emit_final_root_completion_event,
\* _applyGrowingTreeBatch)
THEOREM TreeIsShown == TreeSpec => []TreeIsTold
BY TreeInvariant, ToldInTheEnd, PTL
=============================================================================
