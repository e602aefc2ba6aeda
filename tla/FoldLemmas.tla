----------------------------- MODULE FoldLemmas -----------------------------
(***************************************************************************)
(* What the proofs about folds need: induction over the natural numbers,   *)
(* the first and the last of a set of places, and that FoldLeft, which     *)
(* SequencesExt defines by a recursion over sets of places, has a value;   *)
(* what a fold that filters a sequence and a sum over a set amount to.     *)
(***************************************************************************)
EXTENDS Naturals, SequencesExt, FiniteSetTheorems, WellFoundedInduction, TLAPS

\* Induction, for a set in place of a predicate.
LEMMA Numbers ==
  ASSUME NEW T \in SUBSET Nat, 0 \in T, \A k \in T : k + 1 \in T
  PROVE  T = Nat
<1> SUFFICES ASSUME T # Nat PROVE FALSE
  OBVIOUS
<1> DEFINE Others == Nat \ T
<1>1. Others # {} /\ Others \subseteq Nat
  OBVIOUS
<1> HIDE DEF Others
<1>2. PICK x \in Others : \A y \in Others : ~(<<y, x>> \in OpToRel(<, Nat))
  BY <1>1, NatLessThanWellFounded, WFMin
<1>3. \A y \in Others : ~(y < x)
  BY <1>1, <1>2 DEF OpToRel
<1> USE DEF Others
<1>4. x \in Nat /\ x # 0
  OBVIOUS
<1>5. x - 1 \in Nat /\ x - 1 < x
  BY <1>4
<1>6. x - 1 \in T
  BY <1>3, <1>5
<1>7. (x - 1) + 1 \in T
  BY <1>6
<1>8. QED
  BY <1>4, <1>7

\* A set of places has a first and a last one.
LEMMA FirstAndLast ==
  ASSUME NEW n \in Nat, NEW S \in SUBSET (1 .. n), S # {}
  PROVE  /\ Max(S) \in S /\ \A x \in S : x <= Max(S)
         /\ Min(S) \in S
<1>1. \A T \in SUBSET Nat : T # {} => \E x \in T : \A y \in T : x <= y
  <2> SUFFICES ASSUME NEW T \in SUBSET Nat, T # {}
               PROVE  \E x \in T : \A y \in T : x <= y
    OBVIOUS
  <2>1. PICK x \in T : \A y \in T : ~(<<y, x>> \in OpToRel(<, Nat))
    BY NatLessThanWellFounded, WFMin
  <2>2. \A y \in T : ~(y < x)
    BY <2>1 DEF OpToRel
  <2>3. QED
    BY <2>2
<1>2. \E x \in S : \A y \in S : x <= y
  BY <1>1
<1>3. \E x \in S : \A y \in S : x >= y
  <2> DEFINE T == {n - x : x \in S}
  <2>1. T \in SUBSET Nat /\ T # {}
    <3>1. \A x \in S : n - x \in Nat
      OBVIOUS
    <3>2. T # {}
      OBVIOUS
    <3>3. QED
      BY <3>1, <3>2
  <2>2. PICK t \in T : \A u \in T : t <= u
    BY <1>1, <2>1
  <2>3. PICK x \in S : t = n - x
    BY <2>2
  <2>4. \A y \in S : n - x <= n - y
    BY <2>2, <2>3
  <2>5. QED
    BY <2>4
<1>4. QED
  BY <1>2, <1>3 DEF Max, Min

\* The places up to one.
LEMMA PlacesUpTo ==
  ASSUME NEW k \in Nat
  PROVE  /\ Max(1 .. (k + 1)) = k + 1 /\ 1 .. (k + 1) # {}
         /\ (1 .. (k + 1)) \ {k + 1} = 1 .. k
<1>1. Max(1 .. (k + 1)) = k + 1
  <2>1. k + 1 \in 1 .. (k + 1) /\ \A y \in 1 .. (k + 1) : k + 1 >= y
    OBVIOUS
  <2>2. \A z \in 1 .. (k + 1) : (\A y \in 1 .. (k + 1) : z >= y) => z = k + 1
    BY <2>1
  <2>3. QED
    BY <2>1, <2>2 DEF Max
<1>2. \A y : y \in (1 .. (k + 1)) \ {k + 1} <=> y \in 1 .. k
  OBVIOUS
<1>3. (1 .. (k + 1)) \ {k + 1} = 1 .. k
  BY <1>2, Zenon
<1>4. k + 1 \in 1 .. (k + 1)
  OBVIOUS
<1>5. QED
  BY <1>1, <1>3, <1>4

\* Values in V of all sets of places up to n, by a recursion from the last
\* place of a set back.
Recursive(g, n, V, base, f) ==
  /\ g \in [SUBSET (1 .. n) -> V]
  /\ \A s \in SUBSET (1 .. n) :
       g[s] = IF s = {} THEN base ELSE f[<<g[s \ {Max(s)}], Max(s)>>]

Recursion(n, V, base, f) == CHOOSE g : Recursive(g, n, V, base, f)

IsStep(f, n, V) == f \in [V \X (1 .. n) -> V]

\* There are such values.
LEMMA RecursionHasValue ==
  ASSUME NEW n \in Nat, NEW V, NEW base \in V, NEW f, IsStep(f, n, V)
  PROVE  Recursive(Recursion(n, V, base, f), n, V, base, f)
<1> USE DEF IsStep
<1> DEFINE Solves(g, k) ==
             /\ g \in [SUBSET (1 .. k) -> V]
             /\ \A s \in SUBSET (1 .. k) :
                  g[s] = IF s = {} THEN base
                         ELSE f[<<g[s \ {Max(s)}], Max(s)>>]
           Has(k) == k <= n => \E g : Solves(g, k)
           T == {k \in Nat : Has(k)}
<1>1. 0 \in T
  <2> DEFINE g == [s \in SUBSET (1 .. 0) |-> base]
  <2>1. \A s \in SUBSET (1 .. 0) : s = {}
    OBVIOUS
  <2>2. Solves(g, 0)
    BY <2>1
  <2>3. QED
    BY <2>2
<1>2. ASSUME NEW k \in T PROVE k + 1 \in T
  <2>0. SUFFICES ASSUME k + 1 <= n PROVE \E g : Solves(g, k + 1)
    <3>1. k + 1 \in Nat
      OBVIOUS
    <3> SUFFICES Has(k + 1)
      BY <3>1
    <3> QED
      BY Zenon
  <2>1. k \in Nat /\ k <= n /\ k + 1 \in 1 .. n
    <3> HIDE DEF Has
    <3>1. k \in Nat
      BY <1>2
    <3> HIDE DEF T
    <3>2. QED
      BY <2>0, <3>1
  <2>2. PICK g : Solves(g, k)
    <3> HIDE DEF Solves
    <3>1. Has(k)
      BY <1>2
    <3>2. QED
      BY <2>1, <3>1
  <2> DEFINE h == [s \in SUBSET (1 .. (k + 1)) |->
                     IF k + 1 \in s THEN f[<<g[s \ {k + 1}], k + 1>>] ELSE g[s]]
  <2>3. \A s \in SUBSET (1 .. (k + 1)) : s \ {k + 1} \in SUBSET (1 .. k)
    BY <2>1
  <2>4. \A s \in SUBSET (1 .. (k + 1)) : k + 1 \notin s => s \in SUBSET (1 .. k)
    BY <2>1
  <2>5. h \in [SUBSET (1 .. (k + 1)) -> V]
    <3>1. ASSUME NEW s \in SUBSET (1 .. (k + 1))
          PROVE  (IF k + 1 \in s THEN f[<<g[s \ {k + 1}], k + 1>>] ELSE g[s]) \in V
      <4>1. CASE k + 1 \in s
        <5>1. g[s \ {k + 1}] \in V
          BY <2>2, <2>3
        <5>2. <<g[s \ {k + 1}], k + 1>> \in V \X (1 .. n)
          BY <2>1, <5>1
        <5>3. QED
          BY <4>1, <5>2
      <4>2. CASE k + 1 \notin s
        BY <2>2, <2>4, <4>2
      <4>3. QED
        BY <4>1, <4>2
    <3>2. QED
      BY <3>1
  <2>6. ASSUME NEW s \in SUBSET (1 .. (k + 1))
        PROVE  h[s] = IF s = {} THEN base
                      ELSE f[<<h[s \ {Max(s)}], Max(s)>>]
    <3>1. CASE k + 1 \in s
      <4>1. Max(s) = k + 1
        <5>1. \A y \in s : k + 1 >= y
          BY <2>1
        <5>2. \A z \in s : (\A y \in s : z >= y) => z = k + 1
          BY <2>1, <3>1
        <5>3. QED
          BY <3>1, <5>1, <5>2 DEF Max
      <4>2. h[s \ {k + 1}] = g[s \ {k + 1}]
        OBVIOUS
      <4>3. h[s] = f[<<g[s \ {k + 1}], k + 1>>]
        BY <3>1
      <4>4. QED
        BY <3>1, <4>1, <4>2, <4>3
    <3>2. CASE k + 1 \notin s
      <4>1. s \in SUBSET (1 .. k)
        BY <2>4, <3>2
      <4>2. \A r \in SUBSET (1 .. k) : h[r] = g[r]
        <5>1. \A r \in SUBSET (1 .. k) : k + 1 \notin r
          BY <2>1
        <5>2. \A r \in SUBSET (1 .. k) : r \in SUBSET (1 .. (k + 1))
          BY <2>1
        <5>3. QED
          BY <5>1, <5>2
      <4>3. s \ {Max(s)} \in SUBSET (1 .. k)
        BY <4>1
      <4>4. QED
        BY <2>2, <4>1, <4>2, <4>3
    <3>3. QED
      BY <3>1, <3>2
  <2> HIDE DEF h
  <2>7. Solves(h, k + 1)
    BY <2>5, <2>6
  <2>8. QED
    BY <2>7
<1>3. T = Nat
  <2>1. T \in SUBSET Nat
    OBVIOUS
  <2> HIDE DEF T
  <2>2. QED
    BY <1>1, <1>2, <2>1, Numbers
<1> HIDE DEF Solves
<1>4. \E g : Solves(g, n)
  <2>1. n \in T /\ n <= n
    BY <1>3
  <2>2. QED
    BY <2>1
<1> USE DEF Solves
<1>5. QED
  BY <1>4 DEF Recursion, Recursive

(* Filters *)

\* Those members of an order that are in a set, by a recursion from the last
\* place back.
Chosen(order, S) ==
  (CHOOSE g : g = [s \in SUBSET DOMAIN order |->
     IF s = {} THEN <<>>
     ELSE IF order[Max(s)] \in S THEN Append(g[s \ {Max(s)}], order[Max(s)])
          ELSE g[s \ {Max(s)}]])[DOMAIN order]

\* A list holds those of the first members of an order that are in a set, and
\* has them in the same order.
Holds(kept, E, order, k, S) ==
  /\ kept \in Seq(E)
  /\ \A i \in DOMAIN kept : /\ kept[i] \in S
                            /\ \E a \in 1 .. k : order[a] = kept[i]
  /\ \A a \in 1 .. k : order[a] \in S =>
                         \E i \in DOMAIN kept : kept[i] = order[a]
  /\ \A i, j \in DOMAIN kept : i < j =>
       \E a, b \in 1 .. k : a < b /\ order[a] = kept[i] /\ order[b] = kept[j]

LEMMA HoldsMore ==
  ASSUME NEW E, NEW order \in Seq(E), NEW S, NEW k \in Nat,
         k + 1 \in DOMAIN order, NEW kept, Holds(kept, E, order, k, S)
  PROVE  Holds(IF order[k + 1] \in S
               THEN Append(kept, order[k + 1]) ELSE kept,
               E, order, k + 1, S)
<1> DEFINE t == order[k + 1]
<1>1. /\ kept \in Seq(E) /\ t \in E
      /\ \A a \in 1 .. (k + 1) : a \in 1 .. k \/ a = k + 1
      /\ \A a \in 1 .. k : a \in 1 .. (k + 1) /\ a < k + 1
      /\ k + 1 \in 1 .. (k + 1)
  BY DEF Holds
<1>2. CASE t \notin S
  BY <1>1, <1>2 DEF Holds
<1>3. CASE t \in S
  <2> DEFINE more == Append(kept, t)
             n == Len(kept)
  <2>1. /\ more \in Seq(E) /\ n \in Nat
        /\ DOMAIN more = 1 .. (n + 1) /\ DOMAIN kept = 1 .. n
        /\ more[n + 1] = t
        /\ \A i \in 1 .. n : more[i] = kept[i]
    BY <1>1
  <2> HIDE DEF more, n, t
  <2>2. \A i \in DOMAIN more : i \in DOMAIN kept \/ i = n + 1
    BY <2>1
  <2>3. /\ \A i \in DOMAIN more : /\ more[i] \in S
                                  /\ \E a \in 1 .. (k + 1) : order[a] = more[i]
    BY <1>1, <1>3, <2>1, <2>2 DEF Holds, t
  <2>4. \A a \in 1 .. (k + 1) : order[a] \in S =>
          \E i \in DOMAIN more : more[i] = order[a]
    <3>1. ASSUME NEW a \in 1 .. k, order[a] \in S
          PROVE  \E i \in DOMAIN more : more[i] = order[a]
      <4>1. PICK i \in DOMAIN kept : kept[i] = order[a]
        BY <3>1 DEF Holds
      <4>2. i \in DOMAIN more /\ more[i] = order[a]
        BY <2>1, <4>1
      <4>3. QED
        BY <4>2
    <3>2. n + 1 \in DOMAIN more /\ more[n + 1] = order[k + 1]
      BY <2>1 DEF t
    <3>3. QED
      BY <1>1, <3>1, <3>2
  <2>5. ASSUME NEW i \in DOMAIN more, NEW j \in DOMAIN more, i < j
        PROVE  \E a, b \in 1 .. (k + 1) :
                 a < b /\ order[a] = more[i] /\ order[b] = more[j]
    <3>1. i \in DOMAIN kept /\ more[i] = kept[i]
      BY <2>1, <2>5
    <3>2. CASE j \in DOMAIN kept
      <4>1. PICK a, b \in 1 .. k : a < b /\ order[a] = kept[i] /\ order[b] = kept[j]
        BY <2>5, <3>1, <3>2 DEF Holds
      <4>2. a \in 1 .. (k + 1) /\ b \in 1 .. (k + 1) /\ more[j] = kept[j]
        BY <1>1, <2>1, <3>2
      <4>3. QED
        BY <3>1, <4>1, <4>2
    <3>3. CASE j = n + 1
      <4>1. PICK a \in 1 .. k : order[a] = kept[i]
        BY <3>1 DEF Holds
      <4>2. /\ a \in 1 .. (k + 1) /\ a < k + 1
            /\ order[a] = more[i] /\ order[k + 1] = more[j]
        BY <1>1, <2>1, <3>1, <3>3, <4>1 DEF t
      <4>3. QED
        BY <1>1, <4>2
    <3>4. QED
      BY <2>2, <3>2, <3>3
  <2>6. Holds(more, E, order, k + 1, S)
    BY <2>1, <2>3, <2>4, <2>5 DEF Holds
  <2>7. QED
    BY <1>3, <2>6 DEF more, t
<1>4. QED
  BY <1>2, <1>3

LEMMA ChosenHolds ==
  ASSUME NEW E, NEW order \in Seq(E), NEW S
  PROVE  Holds(Chosen(order, S), E, order, Len(order), S)
<1> DEFINE n == Len(order)
           V == Seq(E)
           Step(kept, i) == IF order[i] \in S
                            THEN Append(kept, order[i]) ELSE kept
           RHS(g, s) == IF s = {} THEN <<>>
                        ELSE IF order[Max(s)] \in S
                             THEN Append(g[s \ {Max(s)}], order[Max(s)])
                             ELSE g[s \ {Max(s)}]
           G == CHOOSE g : g = [s \in SUBSET DOMAIN order |-> RHS(g, s)]
           f == [x \in V \X (1 .. n) |-> Step(x[1], x[2])]
<1>1. n \in Nat /\ DOMAIN order = 1 .. n /\ \A i \in 1 .. n : order[i] \in E
  OBVIOUS
<1>2. \A kept \in V, i \in 1 .. n : Step(kept, i) \in V
  BY <1>1
<1>2a. <<>> \in V
  OBVIOUS
<1> HIDE DEF n, V
<1>3. G = [s \in SUBSET (1 .. n) |-> RHS(G, s)]
  <2>1. IsStep(f, n, V)
    BY <1>2 DEF IsStep
  <2> HIDE DEF f
  <2> DEFINE g == Recursion(n, V, <<>>, f)
  <2>2. /\ g \in [SUBSET (1 .. n) -> V]
        /\ \A s \in SUBSET (1 .. n) :
             g[s] = IF s = {} THEN <<>> ELSE f[<<g[s \ {Max(s)}], Max(s)>>]
    <3>1. Recursive(Recursion(n, V, <<>>, f), n, V, <<>>, f)
      BY <1>1, <1>2a, <2>1, RecursionHasValue
    <3>2. QED
      BY <3>1 DEF Recursive
  <2> HIDE DEF g
  <2>3. ASSUME NEW s \in SUBSET (1 .. n) PROVE g[s] = RHS(g, s)
    <3>1. CASE s = {}
      BY <2>2, <3>1
    <3>2. CASE s # {}
      <4>1. Max(s) \in 1 .. n
        BY <1>1, <3>2, FirstAndLast
      <4>2. g[s \ {Max(s)}] \in V
        BY <2>2
      <4>3. f[<<g[s \ {Max(s)}], Max(s)>>] = Step(g[s \ {Max(s)}], Max(s))
        BY <4>1, <4>2 DEF f
      <4>4. QED
        BY <2>2, <3>2, <4>3
    <3>3. QED
      BY <3>1, <3>2
  <2> HIDE DEF RHS
  <2>4. g = [s \in SUBSET (1 .. n) |-> RHS(g, s)]
    BY <2>2, <2>3
  <2>5. QED
    BY <1>1, <2>4
<1> HIDE DEF G
<1> DEFINE T == {k \in Nat : k <= n => Holds(G[1 .. k], E, order, k, S)}
<1>4. 0 \in T
  <2>1. 1 .. 0 = {} /\ {} \in SUBSET (1 .. n)
    OBVIOUS
  <2>2. G[{}] = <<>>
    BY <1>3
  <2>3. Holds(<<>>, E, order, 0, S)
    BY <2>1 DEF Holds
  <2>4. QED
    BY <2>1, <2>2, <2>3
<1>5. ASSUME NEW k \in T PROVE k + 1 \in T
  <2> SUFFICES ASSUME k + 1 <= n
               PROVE  Holds(G[1 .. (k + 1)], E, order, k + 1, S)
    OBVIOUS
  <2>1. k \in Nat /\ k + 1 \in 1 .. n /\ Holds(G[1 .. k], E, order, k, S)
    BY <1>1
  <2>2. 1 .. (k + 1) \in SUBSET (1 .. n)
    BY <1>1, <2>1
  <2>3. G[1 .. (k + 1)] = Step(G[1 .. k], k + 1)
    <3>1. /\ Max(1 .. (k + 1)) = k + 1 /\ 1 .. (k + 1) # {}
          /\ (1 .. (k + 1)) \ {k + 1} = 1 .. k
      BY <2>1, PlacesUpTo
    <3>2. G[1 .. (k + 1)] = RHS(G, 1 .. (k + 1))
      <4> HIDE DEF RHS
      <4> QED
        BY <1>3, <2>2
    <3>3. QED
      BY <3>1, <3>2
  <2>4. Holds(Step(G[1 .. k], k + 1), E, order, k + 1, S)
    BY <1>1, <2>1, HoldsMore
  <2>5. QED
    BY <2>3, <2>4
<1>6. T = Nat
  <2>1. T \in SUBSET Nat
    OBVIOUS
  <2> HIDE DEF T
  <2>2. QED
    BY <1>4, <1>5, <2>1, Numbers
<1>7. Holds(G[1 .. n], E, order, n, S)
  BY <1>1, <1>6
<1>8. QED
  BY <1>1, <1>7, Zenon DEF Chosen, G, n

\* What is chosen from an order of different members is all different.
LEMMA ChosenOnce ==
  ASSUME NEW E, NEW order \in Seq(E), NEW S,
         \A i, j \in DOMAIN order : order[i] = order[j] => i = j
  PROVE  \A i, j \in DOMAIN Chosen(order, S) :
           Chosen(order, S)[i] = Chosen(order, S)[j] => i = j
<1> DEFINE kept == Chosen(order, S)
<1>1. Holds(kept, E, order, Len(order), S)
  BY ChosenHolds
<1>2. kept \in Seq(E) /\ DOMAIN order = 1 .. Len(order)
  BY <1>1 DEF Holds
<1> HIDE DEF kept
<1>3. \A i, j \in DOMAIN kept : i < j => kept[i] # kept[j]
  <2> SUFFICES ASSUME NEW i \in DOMAIN kept, NEW j \in DOMAIN kept, i < j
               PROVE  kept[i] # kept[j]
    OBVIOUS
  <2>1. PICK a, b \in 1 .. Len(order) :
          a < b /\ order[a] = kept[i] /\ order[b] = kept[j]
    <3>1. \A n : Holds(kept, E, order, n, S) => \A e, d \in DOMAIN kept : e < d =>
            \E a, b \in 1 .. n : a < b /\ order[a] = kept[e] /\ order[b] = kept[d]
      BY DEF Holds
    <3>2. QED
      BY <1>1, <3>1
  <2>2. a # b
    BY <2>1
  <2>3. QED
    BY <1>2, <2>1, <2>2
<1>4. \A i, j \in DOMAIN kept : i < j \/ j < i \/ i = j
  BY <1>2
<1>5. QED
  BY <1>3, <1>4 DEF kept

\* A list in which all is different has as many members as places.
LEMMA MembersOfList ==
  ASSUME NEW E, NEW order \in Seq(E),
         \A i, j \in DOMAIN order : order[i] = order[j] => i = j
  PROVE  IsFiniteSet(ToSet(order)) /\ Cardinality(ToSet(order)) = Len(order)
<1> DEFINE n == Len(order)
           f == [i \in 1 .. n |-> order[i]]
<1>1. n \in Nat /\ DOMAIN order = 1 .. n
      /\ ToSet(order) = {order[i] : i \in 1 .. n}
  BY DEF ToSet
<1>2. f \in Bijection(1 .. n, ToSet(order))
  BY <1>1 DEF Bijection, Injection, Surjection, IsInjective
<1>3. IsFiniteSet(1 .. n) /\ Cardinality(1 .. n) = n
  <2> HIDE DEF n
  <2>1. /\ 1 \in Int /\ n \in Int /\ IsFiniteSet(1 .. n)
        /\ Cardinality(1 .. n) = IF 1 > n THEN 0 ELSE n - 1 + 1
    BY <1>1, FS_Interval
  <2>2. QED
    BY <1>1, <2>1
<1>4. ExistsBijection(1 .. n, ToSet(order))
  BY <1>2 DEF ExistsBijection
<1> HIDE DEF n
<1>5. IsFiniteSet(ToSet(order)) /\ Cardinality(ToSet(order)) = Cardinality(1 .. n)
  BY <1>3, <1>4, FS_Bijection
<1>6. QED
  BY <1>3, <1>5 DEF n

(* Sums *)

Pick(s) == CHOOSE x \in s : TRUE

\* A sum over the subsets of a set, up to so many members.
SumsUpTo(g, S, size, k) ==
  /\ g \in [SUBSET S -> Nat]
  /\ \A s \in SUBSET S : Cardinality(s) <= k =>
       g[s] = IF s = {} THEN 0 ELSE size[Pick(s)] + g[s \ {Pick(s)}]

\* The sum of a set, by a recursion that takes out one member after another.
SumOver(S, size) ==
  (CHOOSE g : g = [s \in SUBSET S |->
     IF s = {} THEN 0 ELSE size[Pick(s)] + g[s \ {Pick(s)}]])[S]

LEMMA Picked ==
  ASSUME NEW S, IsFiniteSet(S), NEW s \in SUBSET S, s # {}
  PROVE  /\ Pick(s) \in s /\ IsFiniteSet(s) /\ Cardinality(s) \in Nat \ {0}
         /\ s \ {Pick(s)} \in SUBSET S
         /\ Cardinality(s \ {Pick(s)}) = Cardinality(s) - 1
<1>1. Pick(s) \in s
  BY DEF Pick
<1>2. IsFiniteSet(s) /\ Cardinality(s) \in Nat
  BY FS_Subset, FS_CardinalityType
<1>3. Cardinality(s) # 0
  BY <1>2, FS_EmptySet
<1>4. Cardinality(s \ {Pick(s)}) = Cardinality(s) - 1
  BY <1>1, <1>2, FS_RemoveElement
<1>5. QED
  BY <1>1, <1>2, <1>3, <1>4

LEMMA SumsExist ==
  ASSUME NEW S, IsFiniteSet(S), NEW size \in [S -> Nat]
  PROVE  \E g : SumsUpTo(g, S, size, Cardinality(S))
<1> DEFINE T == {k \in Nat : \E g : SumsUpTo(g, S, size, k)}
<1>1. 0 \in T
  <2> DEFINE g == [s \in SUBSET S |-> 0]
  <2>1. ASSUME NEW s \in SUBSET S, Cardinality(s) <= 0 PROVE s = {}
    <3> SUFFICES ASSUME s # {} PROVE FALSE
      OBVIOUS
    <3>1. Cardinality(s) \in Nat \ {0}
      BY Picked
    <3>2. QED
      BY <2>1, <3>1
  <2>2. SumsUpTo(g, S, size, 0)
    BY <2>1 DEF SumsUpTo
  <2>3. QED
    BY <2>2
<1>2. ASSUME NEW k \in T PROVE k + 1 \in T
  <2>1. k \in Nat
    OBVIOUS
  <2>2. PICK g : SumsUpTo(g, S, size, k)
    OBVIOUS
  <2> DEFINE h == [s \in SUBSET S |-> IF Cardinality(s) = k + 1
                                      THEN size[Pick(s)] + g[s \ {Pick(s)}] ELSE g[s]]
  <2>3. \A s \in SUBSET S : s # {} =>
          /\ Pick(s) \in S /\ size[Pick(s)] \in Nat
          /\ s \ {Pick(s)} \in SUBSET S /\ g[s \ {Pick(s)}] \in Nat
          /\ Cardinality(s) \in Nat
          /\ Cardinality(s \ {Pick(s)}) = Cardinality(s) - 1
    BY <2>2, Picked DEF SumsUpTo
  <2>4. \A s \in SUBSET S : Cardinality(s) \in Nat /\ (Cardinality(s) = k + 1 => s # {})
    BY <2>1, FS_Subset, FS_CardinalityType, FS_EmptySet
  <2>5. h \in [SUBSET S -> Nat]
    BY <2>2, <2>3, <2>4 DEF SumsUpTo
  <2>6. ASSUME NEW s \in SUBSET S, Cardinality(s) <= k + 1
        PROVE  h[s] = IF s = {} THEN 0 ELSE size[Pick(s)] + h[s \ {Pick(s)}]
    <3>1. s # {} => h[s \ {Pick(s)}] = g[s \ {Pick(s)}]
      <4>1. s # {} => Cardinality(s \ {Pick(s)}) # k + 1
        BY <2>1, <2>3, <2>6
      <4>2. QED
        BY <2>3, <4>1
    <3>2. CASE Cardinality(s) = k + 1
      BY <2>4, <3>1, <3>2
    <3>3. CASE Cardinality(s) # k + 1
      <4>1. Cardinality(s) <= k
        BY <2>1, <2>4, <2>6, <3>3
      <4>2. g[s] = IF s = {} THEN 0 ELSE size[Pick(s)] + g[s \ {Pick(s)}]
        BY <2>2, <4>1 DEF SumsUpTo
      <4>3. h[s] = g[s]
        BY <3>3
      <4> HIDE DEF h
      <4>4. QED
        BY <3>1, <4>2, <4>3
    <3>4. QED
      BY <3>2, <3>3
  <2> HIDE DEF h
  <2>7. SumsUpTo(h, S, size, k + 1)
    BY <2>5, <2>6 DEF SumsUpTo
  <2>8. QED
    BY <2>1, <2>7
<1>3. T = Nat
  <2>1. T \in SUBSET Nat
    OBVIOUS
  <2> HIDE DEF T
  <2>2. QED
    BY <1>1, <1>2, <2>1, Numbers
<1>4. QED
  BY <1>3, FS_CardinalityType

\* The subsets of a set have the sums they have in a larger one.
LEMMA SumsAgree ==
  ASSUME NEW U, IsFiniteSet(U), NEW size \in [U -> Nat],
         NEW G, SumsUpTo(G, U, size, Cardinality(U)), NEW S \in SUBSET U
  PROVE  SumOver(S, size) = G[S]
<1> DEFINE RHS(g, s) == IF s = {} THEN 0 ELSE size[Pick(s)] + g[s \ {Pick(s)}]
           g == CHOOSE g : g = [s \in SUBSET S |-> RHS(g, s)]
<1>1. IsFiniteSet(S) /\ \A s \in SUBSET S : s \in SUBSET U
  BY FS_Subset
<1>2. \A s \in SUBSET U : Cardinality(s) \in Nat /\ Cardinality(s) <= Cardinality(U)
  BY FS_Subset, FS_CardinalityType
<1>3. \A s \in SUBSET U : G[s] = RHS(G, s)
  BY <1>2 DEF SumsUpTo
<1>4. g = [s \in SUBSET S |-> RHS(g, s)]
  <2> DEFINE f == [s \in SUBSET S |-> G[s]]
  <2>1. ASSUME NEW s \in SUBSET S PROVE f[s] = RHS(f, s)
    <3>1. s \ {Pick(s)} \in SUBSET S
      OBVIOUS
    <3>2. QED
      BY <1>1, <1>3, <3>1
  <2>2. f = [s \in SUBSET S |-> f[s]]
    OBVIOUS
  <2> HIDE DEF f, RHS
  <2>3. f = [s \in SUBSET S |-> RHS(f, s)]
    BY <2>1, <2>2
  <2>4. QED
    BY <2>3
<1> HIDE DEF g
<1> DEFINE T == {k \in Nat : \A s \in SUBSET S : Cardinality(s) = k => g[s] = G[s]}
<1>5. 0 \in T
  <2>1. ASSUME NEW s \in SUBSET S, Cardinality(s) = 0 PROVE g[s] = G[s]
    <3>1. s = {}
      BY <1>1, <2>1, Picked
    <3>2. QED
      BY <1>1, <1>3, <1>4, <3>1
  <2>2. QED
    BY <2>1
<1>6. ASSUME NEW k \in T PROVE k + 1 \in T
  <2>1. ASSUME NEW s \in SUBSET S, Cardinality(s) = k + 1 PROVE g[s] = G[s]
    <3>1. s # {}
      <4>1. Cardinality({}) = 0 /\ k + 1 # 0
        BY FS_EmptySet
      <4>2. QED
        BY <2>1, <4>1
    <3>2. s \ {Pick(s)} \in SUBSET S /\ Cardinality(s \ {Pick(s)}) = k
      BY <1>1, <2>1, <3>1, Picked
    <3>3. g[s \ {Pick(s)}] = G[s \ {Pick(s)}]
      BY <3>2
    <3>4. g[s] = size[Pick(s)] + g[s \ {Pick(s)}]
      BY <1>4, <3>1
    <3>5. G[s] = size[Pick(s)] + G[s \ {Pick(s)}]
      BY <1>1, <1>3, <3>1
    <3>6. QED
      BY <3>3, <3>4, <3>5
  <2>2. QED
    BY <2>1
<1>7. T = Nat
  <2>1. T \in SUBSET Nat
    OBVIOUS
  <2> HIDE DEF T
  <2>2. QED
    BY <1>5, <1>6, <2>1, Numbers
<1>8. g[S] = G[S]
  <2>1. Cardinality(S) \in T
    BY <1>2, <1>7
  <2>2. QED
    BY <2>1
<1>9. QED
  BY <1>8 DEF SumOver, g

\* One member more.
LEMMA SumOfMore ==
  ASSUME NEW U, IsFiniteSet(U), NEW size \in [U -> Nat],
         NEW S \in SUBSET U, NEW x \in U \ S
  PROVE  /\ SumOver(S, size) \in Nat
         /\ SumOver(S \cup {x}, size) = SumOver(S, size) + size[x]
<1>1. PICK G : SumsUpTo(G, U, size, Cardinality(U))
  BY SumsExist
<1>2. \A s \in SUBSET U : Cardinality(s) \in Nat /\ Cardinality(s) <= Cardinality(U)
                          /\ IsFiniteSet(s)
  BY FS_Subset, FS_CardinalityType
<1>3. \A s \in SUBSET U : /\ G[s] \in Nat
                          /\ s # {} => G[s] = size[Pick(s)] + G[s \ {Pick(s)}]
  BY <1>1, <1>2 DEF SumsUpTo
<1> DEFINE More(s, y) == G[s \cup {y}] = size[y] + G[s]
           T == {k \in Nat : \A s \in SUBSET U, y \in U :
                               y \notin s /\ Cardinality(s) = k => More(s, y)}
<1>4. ASSUME NEW s \in SUBSET U, NEW y \in U, y \notin s,
             \A r \in SUBSET U, z \in U :
               z \notin r /\ Cardinality(r) = Cardinality(s) - 1 => More(r, z)
      PROVE  More(s, y)
  <2> DEFINE u == s \cup {y}
             p == Pick(u)
  <2>1. u \in SUBSET U /\ u # {} /\ p \in u
    BY DEF Pick
  <2>2. G[u] = size[p] + G[u \ {p}]
    BY <1>3, <2>1
  <2>3. CASE p = y
    <3>1. u \ {p} = s
      BY <1>4, <2>3
    <3>2. QED
      BY <2>2, <2>3, <3>1
  <2>4. CASE p # y
    <3> DEFINE r == s \ {p}
    <3>1. p \in s /\ r \in SUBSET U /\ p \notin r /\ y \notin r /\ p \in U
      BY <1>4, <2>1, <2>4
    <3>2. IsFiniteSet(s) /\ Cardinality(s \ {p}) = Cardinality(s) - 1
      <4> HIDE DEF p
      <4>1. QED
        BY <1>2, <3>1, FS_RemoveElement
    <3>3. u \ {p} = r \cup {y} /\ r \cup {p} = s
      BY <2>4, <3>1
    <3> HIDE DEF r, p, u
    <3>4. G[r \cup {y}] = size[y] + G[r] /\ G[r \cup {p}] = size[p] + G[r]
      BY <1>4, <3>1, <3>2 DEF r
    <3>5. size[y] \in Nat /\ size[p] \in Nat /\ G[r] \in Nat
      BY <1>3, <3>1
    <3>6. G[u] = size[y] + G[s]
      <4>1. G[u \ {p}] = size[y] + G[r] /\ G[s] = size[p] + G[r]
        BY <3>3, <3>4, Zenon
      <4>2. QED
        BY <2>2, <3>5, <4>1
    <3>7. QED
      BY <3>6 DEF u
  <2>5. QED
    BY <2>3, <2>4
<1> HIDE DEF More
<1>5. 0 \in T
  <2>1. ASSUME NEW s \in SUBSET U, NEW y \in U, y \notin s, Cardinality(s) = 0
        PROVE  More(s, y)
    <3>1. \A r \in SUBSET U : Cardinality(r) # Cardinality(s) - 1
      BY <1>2, <2>1
    <3>2. QED
      BY <1>4, <2>1, <3>1
  <2>2. QED
    BY <2>1
<1>6. ASSUME NEW k \in T PROVE k + 1 \in T
  <2>1. k \in Nat /\ \A s \in SUBSET U, y \in U :
                       y \notin s /\ Cardinality(s) = k => More(s, y)
    OBVIOUS
  <2>2. ASSUME NEW s \in SUBSET U, NEW y \in U, y \notin s, Cardinality(s) = k + 1
        PROVE  More(s, y)
    <3>1. \A r \in SUBSET U, z \in U :
            z \notin r /\ Cardinality(r) = Cardinality(s) - 1 => More(r, z)
      BY <2>1, <2>2
    <3>2. QED
      BY <1>4, <2>2, <3>1
  <2>3. QED
    BY <2>1, <2>2
<1>7. T = Nat
  <2>1. T \in SUBSET Nat
    OBVIOUS
  <2> HIDE DEF T
  <2>2. QED
    BY <1>5, <1>6, <2>1, Numbers
<1>8. More(S, x)
  BY <1>2, <1>7
<1>9. SumOver(S, size) = G[S] /\ SumOver(S \cup {x}, size) = G[S \cup {x}]
  BY <1>1, SumsAgree
<1>10. G[S \cup {x}] = size[x] + G[S] /\ G[S] \in Nat /\ size[x] \in Nat
  BY <1>3, <1>8 DEF More
<1>11. QED
  BY <1>9, <1>10

\* Nothing sums up to zero.
LEMMA SumOfNone ==
  ASSUME NEW U, IsFiniteSet(U), NEW size \in [U -> Nat]
  PROVE  SumOver({}, size) = 0
<1>1. PICK G : SumsUpTo(G, U, size, Cardinality(U))
  BY SumsExist
<1>2. SumOver({}, size) = G[{}]
  BY <1>1, SumsAgree
<1>3. Cardinality({}) <= Cardinality(U)
  BY FS_EmptySet, FS_CardinalityType
<1>4. QED
  BY <1>1, <1>2, <1>3 DEF SumsUpTo

LEMMA SumIsNat ==
  ASSUME NEW U, IsFiniteSet(U), NEW size \in [U -> Nat], NEW S \in SUBSET U
  PROVE  SumOver(S, size) \in Nat
<1>1. PICK G : SumsUpTo(G, U, size, Cardinality(U))
  BY SumsExist
<1>2. SumOver(S, size) = G[S]
  BY <1>1, SumsAgree
<1>3. QED
  BY <1>1, <1>2 DEF SumsUpTo

=============================================================================
