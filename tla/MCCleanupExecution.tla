------------------------- MODULE MCCleanupExecution -------------------------
(* Instances of CleanupExecution for TLC. *)
EXTENDS CleanupReceiptFold, TLC

CONSTANTS r1, r2, c1, c2, dir, file, other, v1, v2

\* file lies inside dir, other lies elsewhere
MCInside == {<<file, dir>>}

MCEligible == {<<n, v>> : n \in Nodes, v \in Versions}

\* one command per plan, as within one life of the page that counts them up
MCConfirmations == {<<c1, 1>>, <<c2, 2>>}

\* a command that is used with two plans, as the protocol allows
MCAnyConfirmations == {<<c1, 1>>, <<c1, 2>>, <<c2, 2>>}

\* one confirmation, sent again and again
MCRetries == {<<c1, 1>>}

\* two overlapping plans
MCPlanShapes == {<<dir>>, <<file, other>>}

\* two plans with nothing in common
MCDisjointShapes == {<<file>>, <<other>>}

\* one plan of two items
MCPairShape == {<<file, other>>}

MCSymmetry == Permutations(Requests)
=============================================================================
