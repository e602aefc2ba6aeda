----------------------------- MODULE MCClient -----------------------------
(* An instance for TLC of three parts of the client, each with what it     *)
(* talks to: the workspace store, the interceptors of its HTTP client, and *)
(* the event socket.  They share no state, so each behaviour runs one.     *)
EXTENDS WorkspaceStore, HttpClient, EventStream, TLC

CONSTANTS c1, c2

VARIABLE part

mcVars == <<storeVars, httpVars, vars, part>>

RunsStore == part = "store" /\ UNCHANGED <<httpVars, vars, part>>
RunsHttp == part = "http" /\ UNCHANGED <<storeVars, vars, part>>
RunsEvents == part = "events" /\ UNCHANGED <<storeVars, httpVars, part>>

MCInit ==
  /\ StoreInit /\ HttpInit /\ Init /\ part \in {"store", "http", "events"}

\* StoreFairness and the fairness of HttpFairSpec and FairSpec hold of their
\* parts: no action they are about can be taken in another part.
MCSpec ==
  /\ MCInit
  /\ [][\/ RunsStore /\ StoreNext
        \/ RunsHttp /\ HttpNext
        \/ RunsEvents /\ Next]_mcVars
  /\ StoreFairness
  /\ HttpFairness
  /\ WF_vars(SocketStep)

\* The state of all parts.
TypesOK == StoreTypeOK /\ HttpTypeOK /\ TypeOK

\* What a behaviour waits for: the rows of the n-th scan, the n-th request,
\* the n-th event if it ends a scan.
Waits(n) ==
  CASE part = "store" -> n \in Starts /\ RowsAwaited(n)
    [] part = "http" -> n \in 1..2 /\ UnderWay(<<c1, c2>>[n])
    [] part = "events" -> EndOwed(n)

WaitEnds(n) ==
  CASE part = "store" -> n \in Starts => RowsShown(n)
    [] part = "http" -> n \in 1..2 => Ended(<<c1, c2>>[n])
    [] part = "events" -> EndKnown(n)

\* Nothing is waited for in vain: CompletedIsShown, RequestsSettle and
\* EndOfScanReaches, each in the behaviours of its part.
ClientSettles == \A n \in 1..4 : Waits(n) ~> WaitEnds(n)
=============================================================================
