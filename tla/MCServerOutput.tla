--------------------------- MODULE MCServerOutput ---------------------------
(* An instance for TLC of what the server sends to its clients: the events *)
(* of its scans and the pages of their snapshots.  The two share no state, *)
(* so each behaviour runs one.                                             *)
EXTENDS EventStream, QueryCursors, TLC

CONSTANTS s1, s2, q1, q2

VARIABLE part

mcVars == <<vars, queryVars, part>>

\* Two listings, of two pages and of none.
MCLength == [children |-> 3, search |-> 0]
MCListings == DOMAIN MCLength

MCNext ==
  \/ part = "events" /\ Next /\ UNCHANGED <<queryVars, part>>
  \/ part = "pages" /\ QueryNext /\ UNCHANGED <<vars, part>>

MCInit ==
  /\ Init /\ QueryInit /\ part \in {"events", "pages"}

MCSpec ==
  /\ MCInit
  /\ [][MCNext]_mcVars

\* The state of both parts.
TypesOK == TypeOK /\ QueryTypeOK

MCSymmetry == Permutations({s1, s2}) \cup Permutations({q1, q2})
=============================================================================
