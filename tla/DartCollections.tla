--------------------------- MODULE DartCollections ---------------------------
(***************************************************************************)
(* The collections of Dart that the web worker keeps its state in:         *)
(*                                                                         *)
(*   linked  a LinkedHashMap or a LinkedHashSet: databases that are open,  *)
(*           files in memory                                               *)
(*   ring    a LinkedList: the work that waits for the IndexedDB           *)
(*   cached  a HashMap, whose keys are listed once for all iterations      *)
(*                                                                         *)
(* A text and a small number are properties of a JavaScript object each;   *)
(* all other keys are in buckets by their hash.  An iteration that goes on *)
(* after the collection has changed fails.  The values of a map are left   *)
(* out: a new value of a key that is there changes nothing else.           *)
(***************************************************************************)
EXTENDS Naturals, Sequences, FiniteSets, SequencesExt

CONSTANTS
  CollectionKeys,   \* keys: <<how they are filed, their hash>> and a name
  MaxChanges        \* bound on the changes of a collection (2^30 in the code)

ASSUME CollectionsAssumption == MaxChanges \in Nat

VARIABLES
  subject,      \* which of the collections this is
  linked,       \* the LinkedHashMap
  ring,         \* the LinkedList
  cached,       \* the HashMap
  content,      \* history: what the collection holds, in order of insertion
  walk          \* an iteration

collectionVars == <<subject, linked, ring, cached, content, walk>>

-----------------------------------------------------------------------------
NoKey == <<"none", 0, 0>>
Links == CollectionKeys \cup {NoKey}
Hashes == {k[2] : k \in CollectionKeys}
NoBuckets == [h \in Hashes |-> <<>>]

\* A doubly linked list through the entries, and its ends.
NoLinks == [k \in CollectionKeys |-> NoKey]

EmptyLinked ==
  [named |-> {}, buckets |-> NoBuckets,
   prev |-> NoLinks, next |-> NoLinks, first |-> NoKey, last |-> NoKey,
   count |-> 0, changes |-> 0]

EmptyRing ==
  [next |-> NoLinks, prev |-> NoLinks, first |-> NoKey, count |-> 0,
   changes |-> 0]

\* list and keys: an array of the keys, if it is there, and which one.
EmptyCached ==
  [named |-> {}, buckets |-> NoBuckets,
   count |-> 0, list |-> 0, keys |-> <<>>, lists |-> 0]

NoWalk ==
  [is |-> "none", at |-> NoKey, index |-> 0, since |-> 0, from |-> <<>>,
   gave |-> <<>>, disturbed |-> FALSE]

CollectionsInit ==
  /\ subject \in {"linked", "ring", "cached"}
  /\ linked = EmptyLinked /\ ring = EmptyRing /\ cached = EmptyCached
  /\ content = <<>> /\ walk = NoWalk

ByName(k) == k[1] \in {"text", "small"}
HasKey(m, k) ==
  IF ByName(k) THEN k \in m.named ELSE Contains(m.buckets[k[2]], k)

\* The entry goes where its key belongs.
Filed(m, k) ==
  IF ByName(k) THEN [m EXCEPT !.named = @ \cup {k}]
  ELSE [m EXCEPT !.buckets[k[2]] = Append(@, k)]
Unfiled(m, k) ==
  IF ByName(k) THEN [m EXCEPT !.named = @ \ {k}]
  ELSE [m EXCEPT !.buckets[k[2]] = SelectSeq(@, LAMBDA other : other # k)]

\* History: the content, and that the iteration was disturbed.
Becomes(new) ==
  /\ content' = new
  /\ walk' = [walk EXCEPT !.disturbed = @ \/ new # content]
Same == UNCHANGED <<content, walk>>

-----------------------------------------------------------------------------
(* LinkedHashMap and LinkedHashSet *)

Linked == subject = "linked" /\ UNCHANGED <<subject, ring, cached>>

AtEnd(m, k) ==
  [m EXCEPT !.prev[k] = m.last, !.next = [e \in CollectionKeys |->
              CASE e = k -> NoKey
                [] e # k /\ e = m.last -> k
                [] e # k /\ e # m.last -> @[e]],
            !.first = IF m.last = NoKey THEN k ELSE @, !.last = k,
            !.count = @ + 1, !.changes = @ + 1]

Unlinked(m, k) ==
  LET before == m.prev[k]
      after == m.next[k]
  IN  [m EXCEPT
        !.next = [e \in CollectionKeys |-> IF e = before THEN after ELSE @[e]],
        !.prev = [e \in CollectionKeys |-> IF e = after THEN before ELSE @[e]],
        !.first = IF before = NoKey THEN after ELSE @,
        !.last = IF after = NoKey THEN before ELSE @,
        !.count = @ - 1, !.changes = @ + 1]

Added(m, k) == IF HasKey(m, k) THEN m ELSE AtEnd(Filed(m, k), k)
With(keys, k) == IF Contains(keys, k) THEN keys ELSE Append(keys, k)

\* A key that is there keeps its place; so does an element of a set.
Put(k) ==
  /\ Linked /\ linked.changes < MaxChanges
  /\ linked' = Added(linked, k)
  /\ Becomes(With(content, k))

\* The function that makes the value may put the same key, or another.
PutIfAbsent(k, made) ==
  /\ Linked /\ linked.changes + 1 < MaxChanges
  /\ ~HasKey(linked, k)
  /\ linked' = Added(Added(linked, made), k)
  /\ Becomes(With(With(content, made), k))

\* a plausible mistake: the key is taken to be there
RemoveUnseen(k) ==
  /\ Linked /\ linked.changes < MaxChanges
  /\ linked' = Unlinked(Unfiled(linked, k), k)
  /\ Becomes(SelectSeq(content, LAMBDA other : other # k))
RemoveKey(k) ==
  /\ Linked /\ linked.changes < MaxChanges
  /\ IF ~HasKey(linked, k) THEN UNCHANGED linked /\ Same
     ELSE /\ linked' = Unlinked(Unfiled(linked, k), k)
          /\ Becomes(SelectSeq(content, LAMBDA other : other # k))

Clear ==
  /\ Linked /\ linked.count > 0 /\ linked.changes < MaxChanges
  /\ linked' = [EmptyLinked EXCEPT !.changes = linked.changes + 1]
  /\ Becomes(<<>>)

-----------------------------------------------------------------------------
(* LinkedList *)

Ring == subject = "ring" /\ UNCHANGED <<subject, linked, cached>>
InRing(k) == ring.next[k] # NoKey

\* An entry is put before the first one: at the end of the ring.
AddLast(k) ==
  /\ Ring /\ ~InRing(k) /\ ring.changes < MaxChanges
  /\ LET first == ring.first
         last == ring.prev[first]
     IN  ring' = IF ring.count = 0
                 THEN [ring EXCEPT !.next[k] = k, !.prev[k] = k, !.first = k,
                                   !.count = 1, !.changes = @ + 1]
                 ELSE [ring EXCEPT !.prev = (k :> last @@ first :> k) @@ @,
                                   !.next = (k :> first @@ last :> k) @@ @,
                                   !.count = @ + 1, !.changes = @ + 1]
  /\ Becomes(Append(content, k))

Unlink(k) ==
  /\ Ring /\ InRing(k) /\ ring.changes < MaxChanges
  /\ LET before == ring.prev[k]
         after == ring.next[k]
     IN  ring' = [ring EXCEPT
           !.next = k :> NoKey @@ (before :> after @@ @),
           !.prev = k :> NoKey @@ (after :> before @@ @),
           !.first = CASE ring.count = 1 -> NoKey
                       [] ring.count > 1 /\ k = @ -> after
                       [] ring.count > 1 /\ k # @ -> @,
           !.count = @ - 1, !.changes = @ + 1]
  /\ Becomes(SelectSeq(content, LAMBDA other : other # k))

-----------------------------------------------------------------------------
(* HashMap *)

Cached == subject = "cached" /\ UNCHANGED <<subject, linked, ring>>

\* A new key throws the list of keys away; a new value does not.
Assign(k) ==
  /\ Cached
  /\ cached' = IF HasKey(cached, k) THEN cached
               ELSE [Filed(cached, k) EXCEPT !.count = @ + 1,
                                            !.list = 0, !.keys = <<>>]
  /\ Becomes(With(content, k))

\* Texts, then small numbers, then the buckets: in the order of the properties.
ListOfKeys(m) ==
  SetToSeq({k \in m.named : k[1] = "text"})
    \o SetToSeq({k \in m.named : k[1] = "small"})
    \o FlattenSeq(SetToSeq({m.buckets[h] : h \in Hashes} \ {<<>>}))

Listed(m) ==
  IF m.list # 0 THEN m
  ELSE [m EXCEPT !.keys = ListOfKeys(m), !.list = m.lists + 1, !.lists = @ + 1]

-----------------------------------------------------------------------------
(* Iterations *)

Begins(at, since) ==
  walk' = [NoWalk EXCEPT !.is = "on", !.at = at, !.since = since,
                          !.from = content]
Gives(k, at) == walk' = [walk EXCEPT !.gave = Append(@, k), !.at = at]
Finishes(how) == walk' = [walk EXCEPT !.is = how]

BeginWalk ==
  /\ walk.is = "none"
  /\ UNCHANGED <<subject, content, linked, ring>>
  /\ CASE subject = "linked" ->
            Begins(linked.first, linked.changes) /\ UNCHANGED cached
       [] subject = "ring" ->
            Begins(ring.first, ring.changes) /\ UNCHANGED cached
       [] subject = "cached" ->
            cached' = Listed(cached) /\ Begins(NoKey, cached'.list)

WalkLinked ==
  /\ Linked /\ walk.is = "on"
  /\ CASE walk.since # linked.changes -> Finishes("failed")
       [] walk.since = linked.changes /\ walk.at = NoKey ->
            Finishes("ended")
       [] walk.since = linked.changes /\ walk.at # NoKey ->
            Gives(walk.at, linked.next[walk.at])
  /\ UNCHANGED <<linked, content>>

\* Back at the first entry it ends, unless it has just begun.
Around == ring.count = 0 \/ (walk.gave # <<>> /\ walk.at = ring.first)
WalkRing ==
  /\ Ring /\ walk.is = "on"
  /\ CASE walk.since # ring.changes -> Finishes("failed")
       [] walk.since = ring.changes /\ Around -> Finishes("ended")
       [] walk.since = ring.changes /\ ~Around ->
            Gives(walk.at, ring.next[walk.at])
  /\ UNCHANGED <<ring, content>>

WalkCached ==
  /\ Cached /\ walk.is = "on"
  /\ CASE walk.since # cached.list -> Finishes("failed")
       [] walk.since = cached.list /\ walk.index >= Len(cached.keys) ->
            Finishes("ended")
       [] walk.since = cached.list /\ walk.index < Len(cached.keys) ->
            walk' = [walk EXCEPT !.index = @ + 1,
                                 !.gave = Append(@, cached.keys[walk.index + 1])]
  /\ UNCHANGED <<cached, content>>

CollectionsNext ==
  \/ Clear \/ BeginWalk \/ WalkLinked \/ WalkRing \/ WalkCached
  \/ \E k \in CollectionKeys :
       \/ Put(k) \/ RemoveKey(k) \/ AddLast(k) \/ Unlink(k) \/ Assign(k)
       \/ \E made \in CollectionKeys : PutIfAbsent(k, made)

CollectionsSpec == CollectionsInit /\ [][CollectionsNext]_collectionVars

-----------------------------------------------------------------------------
(* Properties *)

\* The state of the collection.
CollectionsTypeOK ==
  /\ subject \in {"linked", "ring", "cached"}
  /\ linked.named \cup cached.named \subseteq CollectionKeys
  /\ {linked.first, linked.last, ring.first, walk.at} \subseteq Links
  /\ {linked.changes, ring.changes} \subseteq 0..MaxChanges
  /\ {linked.count, ring.count, cached.count}
       \subseteq 0..Cardinality(CollectionKeys)
  /\ walk.is \in {"none", "on", "ended", "failed"}

\* What is in a collection is what its links, its ends, its number and its
\* tables say, in both directions and in the order of insertion.
Along(first, next, n) ==
  \A i \in 1..n : content[i] = IF i = 1 THEN first ELSE next[content[i - 1]]
ContentLinked ==
  LET n == Len(content)
  IN  /\ \A k \in CollectionKeys :
           /\ subject = "linked" => HasKey(linked, k) = Contains(content, k)
           /\ subject = "ring" => InRing(k) = Contains(content, k)
           /\ subject = "cached" => HasKey(cached, k) = Contains(content, k)
      /\ subject = "linked" =>
           /\ linked.count = n
           /\ Along(linked.first, linked.next, n)
           /\ n = 0 => linked.first = NoKey /\ linked.last = NoKey
           /\ n > 0 => /\ linked.last = content[n]
                       /\ linked.next[content[n]] = NoKey
                       /\ linked.prev[content[1]] = NoKey
                       /\ \A i \in 2..n : linked.prev[content[i]] = content[i - 1]
      /\ subject = "ring" =>
           /\ ring.count = n
           /\ Along(ring.first, ring.next, n)
           /\ n = 0 => ring.first = NoKey
           /\ n > 0 => /\ ring.next[content[n]] = content[1]
                       /\ ring.prev[content[1]] = content[n]
                       /\ \A i \in 2..n : ring.prev[content[i]] = content[i - 1]
      /\ subject = "cached" => cached.count = n

\* An iteration that ends gave every key that was there exactly once (a linked
\* collection gives them in order); one fails only if something came or went.
WalksAreWhole ==
  /\ walk.is = "ended" =>
       /\ Len(walk.gave) = Len(walk.from)
       /\ ToSet(walk.gave) = ToSet(walk.from)
       /\ subject # "cached" => walk.gave = walk.from
  /\ walk.is = "failed" => walk.disturbed
  /\ walk.is = "on" /\ ~walk.disturbed => content = walk.from

CollectionsHold == ContentLinked /\ WalksAreWhole
=============================================================================
