---------------------------- MODULE MCWebStorage ----------------------------
(* An instance for TLC of the parts of the web worker: the checks before a *)
(* database is opened, the servers it keeps, a database server with one    *)
(* tab that does not await all of its statements and one that does, and    *)
(* the two file systems.  They share no state, so each behaviour runs one. *)
EXTENDS WorkerChecks, WorkerServers, DriftServer, IndexedDbFiles, OpfsFiles

CONSTANTS c1, c2

VARIABLE part

mcVars == <<checkVars, serverVars, driftVars, fileVars, opfsVars, part>>

RunsChecks ==
  part = "checks" /\ UNCHANGED <<serverVars, driftVars, fileVars, opfsVars, part>>
RunsServers ==
  part = "servers" /\ UNCHANGED <<checkVars, driftVars, fileVars, opfsVars, part>>
RunsServer ==
  part = "server" /\ UNCHANGED <<checkVars, serverVars, fileVars, opfsVars, part>>
RunsIndexedDb ==
  part = "indexedDb" /\ UNCHANGED <<checkVars, serverVars, driftVars, opfsVars, part>>
RunsOpfs ==
  part = "opfs" /\ UNCHANGED <<checkVars, serverVars, driftVars, fileVars, part>>

MCInit ==
  /\ ChecksInit /\ ServersInit /\ DriftInit /\ FilesInit /\ OpfsInit
  /\ part \in {"checks", "servers", "server", "indexedDb", "opfs"}

MCSpec ==
  /\ MCInit
  /\ [][\/ RunsChecks /\ ChecksNext
        \/ RunsServers /\ ServersNext
        \/ RunsServer /\ DriftNext
        \/ RunsIndexedDb /\ FilesNext
        \/ RunsOpfs /\ OpfsNext]_mcVars
  /\ ChecksFairness /\ ServersFairness
  /\ DriftFairness
  /\ OpfsFairness

\* The state of all parts.
TypesOK ==
  ChecksTypeOK /\ ServersTypeOK /\ DriftTypeOK /\ FilesTypeOK /\ OpfsTypeOK

\* What a behaviour waits for, of the n-th tab or server.
Waits(n) ==
  LET c == <<c1, c2>>[n]
  IN  CASE part = "checks" -> CheckWaits(c)
        [] part = "servers" -> Unsettled(n)
        [] part = "server" -> Awaits(c)
        [] part = "opfs" -> CallWaits(c)
        [] part = "indexedDb" -> FALSE

WaitEnds(n) ==
  LET c == <<c1, c2>>[n]
  IN  CASE part = "checks" -> ~CheckWaits(c)
        [] part = "servers" -> ~Unsettled(n) \/ HeldUp
        [] part = "server" -> AwaitEnds(c)
        [] part = "opfs" -> ~CallWaits(c)
        [] part = "indexedDb" -> TRUE

\* Nobody waits for good: ChecksEnd, ServersSettle, RequestsAnswered and
\* CallsReturn, each in the behaviours of its part.
WorkersAnswer == \A n \in 1..2 : Waits(n) ~> WaitEnds(n)
=============================================================================
