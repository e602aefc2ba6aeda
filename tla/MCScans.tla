------------------------------ MODULE MCScans ------------------------------
(* An instance for TLC of the sessions of all scans, and of the growing    *)
(* tree of one.  The two share no state, so each behaviour runs one.       *)
EXTENDS ScanSessions, GrowingTree, TLC

CONSTANTS s1, s2

VARIABLE part

mcVars == <<vars, treeVars, part>>

\* A directory in a directory, one that is empty and one below MaxDepth.
MCTree == {<<>>, <<"a">>, <<"a", "b">>, <<"a", "b", "d">>, <<"c">>}
MCSize == [p \in MCTree |-> IF p = <<"a">> THEN 0 ELSE 1]

RunsSessions == part = "sessions" /\ UNCHANGED <<treeVars, part>>
RunsTree == part = "tree" /\ UNCHANGED <<vars, part>>

MCNext == (RunsSessions /\ Next) \/ (RunsTree /\ TreeNext)

MCInit ==
  /\ Init /\ TreeInit /\ part \in {"sessions", "tree"}

\* Fairness, and the fairness of TreeFairSpec for the part it is about.
MCSpec ==
  /\ MCInit
  /\ [][MCNext]_mcVars
  /\ Fairness
  /\ WF_mcVars(RunsTree /\ Traverse) /\ WF_mcVars(RunsTree /\ ScanThread)

\* The state of both parts.
TypesOK == TypeOK /\ TreeTypeOK

\* Nothing is left over when the scans are through: start requests are
\* answered, sessions end, permits come back, and the scan with the tree
\* returns, whatever it could not read.
ScansSettle ==
  /\ StartIsAnswered /\ RunningEnds /\ PermitsReturn
  /\ part = "tree" => ScanReturns
=============================================================================
