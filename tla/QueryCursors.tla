---------------------------- MODULE QueryCursors ----------------------------
(***************************************************************************)
(* The paged queries of clean-disk-server: children, search and top items. *)
(* A page ends with an opaque cursor that the server keeps in a bounded    *)
(* registry of all clients and sessions.  A query takes the lock of the    *)
(* registry, then that of the sessions, then none while it reads, then     *)
(* draws the number of its cursor, and takes the lock of the registry      *)
(* again; dispose takes the two locks one after the other.                 *)
(***************************************************************************)
EXTENDS Naturals, FiniteSets, Sequences, SequencesExt

CONSTANTS
  Queriers,      \* requests that may be under way at once
  Snapshots,     \* sessions, each with the snapshot of its id
  Listings,      \* what a query names: a parent and its order, a text, a kind
  Length,        \* how many nodes each listing has
  MaxCursors,    \* capacity of the registry
  PageLimits,    \* limits of requests that validate_query_limit accepts
  MaxPages       \* bound on the cursors drawn

ASSUME CursorAssumption ==
  /\ IsFiniteSet(Queriers)
  /\ Length \in [Listings -> Nat]
  /\ MaxCursors \in Nat \ {0}
  /\ PageLimits \subseteq Nat \ {0}
  /\ MaxPages \in Nat

VARIABLES
  session,     \* whether the record of a session has a snapshot, or is gone
  registry,    \* CursorRegistry: order and values
  cursorSeq,   \* SessionRegistry::cursor_sequence
  query,       \* the query handler of each request
  promised,    \* what the client heard before each cursor it was given
  stored,      \* the cursors in the order they were inserted
  overtaken    \* queries that held a snapshot when its session was removed

queryVars ==
  <<session, registry, cursorSeq, query, promised, stored, overtaken>>

-----------------------------------------------------------------------------
Tokens == Nat \ {0}
NoToken == 0

\* StoredCursor, with the PageCursor in it: the listing is the fingerprint.
Cursors == [session : Snapshots, listing : Listings, offset : Nat]

\* A request that is not there, or was answered with an error.
NoQuery == [pc |-> "none"]

\* The request, the nodes from + 1 to upto of the listing that it reads, the
\* offset of the PageCursor after them, and the token of that cursor.
Queries ==
  [pc : {"resolved", "number", "store", "answered"}, session : Snapshots,
   listing : Listings, from : Nat, upto : Nat, next : Nat, token : Nat]

\* A cursor as a client knows it: what it was asked for and had heard.
Promises == [token : Tokens, session : Snapshots, listing : Listings,
             heard : Nat]

Least(a, b) == IF a <= b THEN a ELSE b

QueryInit ==
  /\ session = [s \in Snapshots |-> "running"]
  /\ registry = [order |-> <<>>, values |-> <<>>]
  /\ cursorSeq = 1
  /\ query = [q \in Queriers |-> NoQuery]
  /\ promised = {}
  /\ stored = <<>>
  /\ overtaken = [s \in Snapshots |-> 0]

-----------------------------------------------------------------------------
(* CursorRegistry *)

\* get: a cursor is found under its own session only.
Found(t, s) ==
  t \in DOMAIN registry.values /\ registry.values[t].session = s

\* The values without those of some tokens.
WithoutTokens(values, gone) == [t \in DOMAIN values \ gone |-> values[t]]

\* a plausible mistake: the newest cursor makes room
InsertDroppingNewest(reg, t, cursor) ==
  LET full == Cardinality(DOMAIN reg.values) >= MaxCursors /\ reg.order # <<>>
      order == IF full THEN Front(reg.order) ELSE reg.order
      kept == IF full THEN WithoutTokens(reg.values, {Last(reg.order)})
                      ELSE reg.values
  IN  [order |-> Append(order, t),
       values |-> [u \in DOMAIN kept \cup {t} |->
                     IF u = t THEN cursor ELSE kept[u]]]

\* The oldest cursor makes room.
Insert(reg, t, cursor) ==
  LET full == Cardinality(DOMAIN reg.values) >= MaxCursors /\ reg.order # <<>>
      order == IF full THEN Tail(reg.order) ELSE reg.order
      kept == IF full THEN WithoutTokens(reg.values, {Head(reg.order)})
                      ELSE reg.values
  IN  [order |-> Append(order, t),
       values |-> [u \in DOMAIN kept \cup {t} |->
                     IF u = t THEN cursor ELSE kept[u]]]

\* a plausible mistake: the order keeps the tokens of the session
RemoveValuesForSession(reg, s) ==
  [reg EXCEPT !.values =
     WithoutTokens(@, {t \in DOMAIN @ : reg.values[t].session = s})]

\* The order without the tokens that have no value.
Retained(order, values) ==
  FoldLeft(LAMBDA kept, t : IF t \in DOMAIN values THEN Append(kept, t) ELSE kept,
           <<>>, order)

RemoveForSession(reg, s) ==
  LET values == WithoutTokens(reg.values,
                        {t \in DOMAIN reg.values : reg.values[t].session = s})
  IN  [order |-> Retained(reg.order, values), values |-> values]

-----------------------------------------------------------------------------
(* Sessions *)

PublishSnapshot(s) ==
  /\ session[s] = "running"
  /\ session' = [session EXCEPT ![s] = "ready"]
  /\ UNCHANGED <<registry, cursorSeq, query, promised, stored, overtaken>>

\* The queries of a session that read its snapshot and have not stored their
\* cursor.
Reading(s) == {q \in Queriers : /\ query[q].pc \in {"number", "store"}
                                /\ query[q].session = s}

\* dispose: the record of the session goes first, then its cursors.  A
\* session that is not there is answered at once.
RemoveSession(s) ==
  /\ session[s] \in {"running", "ready"}
  /\ session' = [session EXCEPT ![s] = "removed"]
  /\ overtaken' = [overtaken EXCEPT ![s] = Cardinality(Reading(s))]
  /\ UNCHANGED <<registry, cursorSeq, query, promised, stored>>

RemoveCursors(s) ==
  /\ session[s] = "removed"
  /\ session' = [session EXCEPT ![s] = "disposed"]
  /\ registry' = RemoveForSession(registry, s)
  /\ UNCHANGED <<cursorSeq, query, promised, stored, overtaken>>

-----------------------------------------------------------------------------
(* The query handlers *)

Free(q) == query[q].pc \in {"none", "answered"}

Asked(s, listing, offset) ==
  [pc |-> "resolved", session |-> s, listing |-> listing,
   from |-> offset, upto |-> offset, next |-> offset, token |-> NoToken]

\* A query from the start of a listing resolves no cursor.
AskFirst(q) ==
  /\ Free(q)
  /\ \E s \in Snapshots, listing \in Listings :
       query' = [query EXCEPT ![q] = Asked(s, listing, 0)]
  /\ UNCHANGED <<session, registry, cursorSeq, promised, stored, overtaken>>

\* resolve_cursor looks the token up with the session of the request.  The
\* query refuses a cursor of another listing later, with the same effect.
AskNext(q) ==
  /\ Free(q)
  /\ \E p \in promised, s \in Snapshots, listing \in Listings :
       query' = [query EXCEPT ![q] =
         IF Found(p.token, s) /\ registry.values[p.token].listing = listing
         THEN Asked(s, listing, registry.values[p.token].offset)
         ELSE NoQuery]
  /\ UNCHANGED <<session, registry, cursorSeq, promised, stored, overtaken>>

\* with_snapshot fails: SessionNotFound or SnapshotNotReady.
ReadNothing(q) ==
  /\ query[q].pc = "resolved"
  /\ session[query[q].session] # "ready"
  /\ query' = [query EXCEPT ![q] = NoQuery]
  /\ UNCHANGED <<session, registry, cursorSeq, promised, stored, overtaken>>

\* page_node_ids: where a page ends, whether a cursor follows it, and which.
PageEnd(n, offset, limit) == IF offset >= n THEN offset
                             ELSE Least(offset + limit, n)

\* a plausible mistake: a listing that one node is missing from counts as read
CursorFollowsEarly(n, offset, end) == offset < n /\ end + 1 < n

CursorFollows(n, offset, end) == offset < n /\ end < n

CursorOffset(end) == end

\* a plausible mistake: snapshots outlive the records of their sessions
ReadPageOfRemoved(q) ==
  /\ query[q].pc = "resolved"
  /\ session[query[q].session] # "running"
  /\ \E limit \in PageLimits :
       LET n == Length[query[q].listing]
           end == PageEnd(n, query[q].from, limit)
           follows == CursorFollows(n, query[q].from, end)
       IN  query' = [query EXCEPT
             ![q].upto = end,
             ![q].next = IF follows THEN CursorOffset(end) ELSE end,
             ![q].pc = IF follows THEN "number" ELSE "answered"]
  /\ UNCHANGED <<session, registry, cursorSeq, promised, stored, overtaken>>

\* The limit of the page comes with the request.
ReadPage(q) ==
  /\ query[q].pc = "resolved"
  /\ session[query[q].session] = "ready"
  /\ \E limit \in PageLimits :
       LET n == Length[query[q].listing]
           end == PageEnd(n, query[q].from, limit)
           follows == CursorFollows(n, query[q].from, end)
       IN  query' = [query EXCEPT
             ![q].upto = end,
             ![q].next = IF follows THEN CursorOffset(end) ELSE end,
             ![q].pc = IF follows THEN "number" ELSE "answered"]
  /\ UNCHANGED <<session, registry, cursorSeq, promised, stored, overtaken>>

\* store_cursor: the sequence number is drawn without a lock.
NumberCursor(q) ==
  /\ query[q].pc = "number"
  /\ cursorSeq <= MaxPages
  /\ query' = [query EXCEPT ![q].pc = "store", ![q].token = cursorSeq]
  /\ cursorSeq' = cursorSeq + 1
  /\ UNCHANGED <<session, registry, promised, stored, overtaken>>

\* The insertion, and the answer that carries the token to the client.
StoreCursor(q) ==
  /\ query[q].pc = "store"
  /\ LET r == query[q]
     IN  /\ registry' = Insert(registry, r.token,
                         [session |-> r.session, listing |-> r.listing,
                          offset |-> r.next])
         /\ promised' = promised \cup
              {[token |-> r.token, session |-> r.session,
                listing |-> r.listing, heard |-> r.upto]}
         /\ stored' = Append(stored, r.token)
  /\ query' = [query EXCEPT ![q].pc = "answered"]
  /\ UNCHANGED <<session, cursorSeq, overtaken>>

QueryNext ==
  \/ \E s \in Snapshots :
       PublishSnapshot(s) \/ RemoveSession(s) \/ RemoveCursors(s)
  \/ \E q \in Queriers :
       \/ AskFirst(q) \/ AskNext(q) \/ ReadNothing(q) \/ ReadPage(q)
       \/ NumberCursor(q) \/ StoreCursor(q)

QuerySpec == QueryInit /\ [][QueryNext]_queryVars
-----------------------------------------------------------------------------
(* Properties *)

\* The order and the values of CursorRegistry name the same cursors, each
\* once, and never more than its capacity, though insert, its eviction and
\* remove_for_session update the two separately.
RegistryConsistent ==
  /\ ToSet(registry.order) = DOMAIN registry.values
  /\ Len(registry.order) = Cardinality(DOMAIN registry.values)
  /\ Len(registry.order) <= MaxCursors

\* The state of the registry, of the handlers and of what clients know; order
\* and values of the registry agree, and a page ends within its listing.
QueryTypeOK ==
  /\ RegistryConsistent
  /\ session \in [Snapshots -> {"running", "ready", "removed", "disposed"}]
  /\ registry.order \in Seq(Tokens)
  /\ \A t \in DOMAIN registry.values : registry.values[t] \in Cursors
  /\ cursorSeq \in Tokens
  /\ query \in [Queriers -> Queries \cup {NoQuery}]
  /\ \A q \in Queriers :
       query[q].pc \in {"number", "store", "answered"} =>
         query[q].upto <= Length[query[q].listing]
  /\ promised \subseteq Promises
  /\ stored \in Seq(Tokens)
  /\ overtaken \in [Snapshots -> Nat]

\* A page without a cursor is the last one, a page with a cursor is not, and
\* every page of a listing that has nodes brings at least one: a client that
\* follows the cursors has read the whole listing when they end.
PagesComplete ==
  \A q \in Queriers :
    query[q].pc \in {"number", "store", "answered"} =>
      LET n == Length[query[q].listing]
          handsOut == query[q].pc # "answered" \/ query[q].token # NoToken
      IN  /\ handsOut <=> query[q].upto < n
          /\ n > 0 => query[q].from < query[q].upto

\* How many cursors were inserted after a cursor.
InsertedAfter(t) ==
  Cardinality({i \in DOMAIN stored : \E j \in 1..(i - 1) : stored[j] = t})

\* A cursor is lost only with its session, or when as many cursors as the
\* registry holds were stored after it (by any client).
CursorsLast ==
  \A p \in promised :
    \/ p.token \in DOMAIN registry.values
    \/ session[p.session] = "disposed"
    \/ InsertedAfter(p.token) >= MaxCursors

\* The cursors a disposed session leaves behind are those of queries that
\* had read its snapshot when its record was removed, one each at most.
LeaksAreOvertaken ==
  \A s \in Snapshots :
    session[s] = "disposed" =>
      Cardinality({t \in DOMAIN registry.values :
                     registry.values[t].session = s})
        + Cardinality(Reading(s)) <= overtaken[s]

\* The registry neither forgets cursors nor keeps those of the dead without need.
CursorsKept == CursorsLast /\ LeaksAreOvertaken
=============================================================================
