--------------------------- MODULE IndexedDbProofs ---------------------------
(***************************************************************************)
(* Proofs about IndexedDbFiles, for every number of pages, transactions    *)
(* and crashes: whatever is merged, taken out and lost, what a tab finds   *)
(* is the database after some commit, and what has been stored when no     *)
(* item is left is what SQLite sees.                                       *)
(*                                                                         *)
(* The invariant describes the queue by a history: the files as each item  *)
(* will leave them stored.  Every state of the history must be good, for   *)
(* the tab may crash in it.  Items in front of one that ends merging do    *)
(* not change any more; behind it each file is created and written once,   *)
(* and the files are stored as they are in memory, one after the other.    *)
(***************************************************************************)
EXTENDS IndexedDbFiles, FoldLemmas, SequenceTheorems

(* Files and work items have these types. *)

\* Headers of the journal, contents of a file, files, work items, and the
\* states of the worker.
Headers == [hot : BOOLEAN, size : Nat, kept : SUBSET (1..MaxPages)]
Contents == UNION {[D -> Nat \cup Headers] : D \in SUBSET (0..MaxPages)}
FileMaps == UNION {[D -> Contents] : D \in SUBSET Files}
WorkItems == [kind : Kinds \ {"none"}, file : Files \cup {"none"},
              data : Contents, size : Nat]
States == [memory : FileMaps, queue : Seq(WorkItems),
           running : WorkItems \cup {NoItem}]

\* A file is a function of slots of which there are only so many.
LEMMA ContentsAre ==
  ASSUME NEW c
  PROVE  c \in Contents <=>
           /\ c = [p \in DOMAIN c |-> c[p]] /\ DOMAIN c \subseteq 0..MaxPages
           /\ \A p \in DOMAIN c : c[p] \in Nat \cup Headers
<1>1. c \in Contents => c = [p \in DOMAIN c |-> c[p]] /\ DOMAIN c \subseteq 0..MaxPages
           /\ \A p \in DOMAIN c : c[p] \in Nat \cup Headers
  <2> SUFFICES ASSUME NEW D \in SUBSET (0..MaxPages), c \in [D -> Nat \cup Headers]
               PROVE  c = [p \in DOMAIN c |-> c[p]] /\ DOMAIN c \subseteq 0..MaxPages
                      /\ \A p \in DOMAIN c : c[p] \in Nat \cup Headers
    BY DEF Contents
  <2> QED
    OBVIOUS
<1>2. ASSUME c = [p \in DOMAIN c |-> c[p]], DOMAIN c \subseteq 0..MaxPages,
             \A p \in DOMAIN c : c[p] \in Nat \cup Headers
      PROVE  c \in Contents
  <2>1. c \in [DOMAIN c -> Nat \cup Headers]
    BY <1>2
  <2>2. QED
    BY <1>2, <2>1 DEF Contents
<1>3. QED
  BY <1>1, <1>2

\* The files are a function of their names.
LEMMA FileMapsAre ==
  ASSUME NEW F
  PROVE  F \in FileMaps <=>
           /\ F = [f \in DOMAIN F |-> F[f]] /\ DOMAIN F \subseteq Files
           /\ \A f \in DOMAIN F : F[f] \in Contents
<1>1. F \in FileMaps => F = [f \in DOMAIN F |-> F[f]] /\ DOMAIN F \subseteq Files
                        /\ \A f \in DOMAIN F : F[f] \in Contents
  <2> SUFFICES ASSUME NEW D \in SUBSET Files, F \in [D -> Contents]
               PROVE  F = [f \in DOMAIN F |-> F[f]] /\ DOMAIN F \subseteq Files
                      /\ \A f \in DOMAIN F : F[f] \in Contents
    BY DEF FileMaps
  <2> QED
    OBVIOUS
<1>2. ASSUME F = [f \in DOMAIN F |-> F[f]], DOMAIN F \subseteq Files,
             \A f \in DOMAIN F : F[f] \in Contents
      PROVE  F \in FileMaps
  <2>1. F \in [DOMAIN F -> Contents]
    BY <1>2
  <2>2. QED
    BY <1>2, <2>1 DEF FileMaps
<1>3. QED
  BY <1>1, <1>2

\* The empty file, and no files at all, are the empty function.
LEMMA EmptyIs ==
  /\ Empty \in Contents /\ DOMAIN Empty = {}
  /\ Empty \in FileMaps
  /\ \A c \in Contents : DOMAIN c = {} => c = Empty
<1>1. Empty = [x \in {} |-> x] /\ DOMAIN Empty = {}
  BY DEF Empty
<1> HIDE DEF Empty
<1>2. Empty = [x \in DOMAIN Empty |-> Empty[x]]
  BY <1>1
<1>3. Empty \in Contents /\ Empty \in FileMaps
  BY <1>1, <1>2, ContentsAre, FileMapsAre
<1>4. ASSUME NEW c \in Contents, DOMAIN c = {} PROVE c = Empty
  BY <1>1, <1>4, ContentsAre
<1>5. QED
  BY <1>1, <1>3, <1>4

\* Slots written over others take their places, and the others stay.
LEMMA OverIs ==
  ASSUME NEW d \in Contents, NEW c \in Contents
  PROVE  /\ Over(d, c) \in Contents
         /\ DOMAIN Over(d, c) = DOMAIN d \cup DOMAIN c
         /\ \A p \in DOMAIN d : Over(d, c)[p] = d[p]
         /\ \A p \in DOMAIN c \ DOMAIN d : Over(d, c)[p] = c[p]
<1>1. /\ DOMAIN d \subseteq 0..MaxPages /\ DOMAIN c \subseteq 0..MaxPages
      /\ \A p \in DOMAIN d : d[p] \in Nat \cup Headers
      /\ \A p \in DOMAIN c : c[p] \in Nat \cup Headers
  BY ContentsAre
<1>2. Over(d, c) \in [DOMAIN d \cup DOMAIN c -> Nat \cup Headers]
  BY <1>1 DEF Over
<1>3. DOMAIN d \cup DOMAIN c \in SUBSET (0..MaxPages)
  BY <1>1
<1>4. Over(d, c) \in Contents
  BY <1>2, <1>3 DEF Contents
<1>5. QED
  BY <1>4 DEF Over

\* Writing twice is writing once what both writes have, the second over the
\* first: merging two writes loses nothing.
LEMMA OverOver ==
  ASSUME NEW d \in Contents, NEW e \in Contents, NEW c \in Contents
  PROVE  Over(d, Over(e, c)) = Over(Over(d, e), c)
<1>1. DOMAIN Over(d, Over(e, c)) = DOMAIN Over(Over(d, e), c)
  BY DEF Over
<1>2. \A p \in DOMAIN Over(d, Over(e, c)) :
        Over(d, Over(e, c))[p] = Over(Over(d, e), c)[p]
  BY DEF Over
<1>3. /\ Over(d, Over(e, c)) = [p \in DOMAIN Over(d, Over(e, c)) |-> Over(d, Over(e, c))[p]]
      /\ Over(Over(d, e), c) = [p \in DOMAIN Over(Over(d, e), c) |-> Over(Over(d, e), c)[p]]
  BY DEF Over
<1>4. QED
  BY <1>1, <1>2, <1>3

\* One slot is a file.
LEMMA OneIs ==
  ASSUME NEW p \in 0..MaxPages, NEW x \in Nat \cup Headers
  PROVE  One(p, x) \in Contents /\ DOMAIN One(p, x) = {p} /\ One(p, x)[p] = x
<1>1. One(p, x) \in [{p} -> Nat \cup Headers]
  BY DEF One
<1>2. QED
  BY <1>1 DEF One, Contents

\* A slot that is written over a file changes that slot only.
LEMMA OverOneIs ==
  ASSUME NEW c \in Contents, NEW p \in 0..MaxPages, NEW x \in Nat \cup Headers
  PROVE  /\ Over(One(p, x), c) \in Contents
         /\ DOMAIN Over(One(p, x), c) = DOMAIN c \cup {p}
         /\ Over(One(p, x), c)[p] = x
         /\ \A q \in DOMAIN c : q # p => Over(One(p, x), c)[q] = c[q]
         /\ Over(One(p, x), c) # Empty
<1>1. PICK d \in Contents : d = One(p, x) /\ DOMAIN d = {p} /\ d[p] = x
  BY OneIs
<1>2. /\ Over(d, c) \in Contents /\ DOMAIN Over(d, c) = {p} \cup DOMAIN c
      /\ Over(d, c)[p] = x
      /\ \A q \in DOMAIN c \ {p} : Over(d, c)[q] = c[q]
  BY <1>1, OverIs
<1>3. QED
  BY <1>1, <1>2, EmptyIs

-----------------------------------------------------------------------------
(* What an item does to the files *)

\* A file as SQLite reads it; one that is not there is empty.
View(F, f) == IF f \in DOMAIN F THEN F[f] ELSE Empty

\* What is read of a file is a file.
LEMMA ViewIs ==
  ASSUME NEW F \in FileMaps, NEW f
  PROVE  View(F, f) \in Contents
BY EmptyIs, FileMapsAre DEF View

\* Files that are all there and read the same are the same.
LEMMA SameFiles ==
  ASSUME NEW F \in FileMaps, NEW G \in FileMaps, DOMAIN F = DOMAIN G,
         \A f \in Files : View(F, f) = View(G, f)
  PROVE  F = G
<1>1. /\ F = [f \in DOMAIN F |-> F[f]] /\ G = [f \in DOMAIN G |-> G[f]]
      /\ DOMAIN F \subseteq Files
  BY FileMapsAre
<1>2. \A f \in DOMAIN F : F[f] = G[f]
  BY <1>1 DEF View
<1>3. QED
  BY <1>1, <1>2

\* The files when one of them has other contents.
Put(F, f, c) == [F EXCEPT ![f] = c]

\* Other contents of a file leave the other files as they were.
LEMMA PutIs ==
  ASSUME NEW F \in FileMaps, NEW f \in DOMAIN F, NEW c \in Contents
  PROVE  LET G == Put(F, f, c)
         IN  /\ G \in FileMaps /\ DOMAIN G = DOMAIN F
             /\ View(G, f) = c
             /\ \A e \in Files \ {f} : View(G, e) = View(F, e)
<1>1. /\ F = [e \in DOMAIN F |-> F[e]] /\ DOMAIN F \subseteq Files
      /\ \A e \in DOMAIN F : F[e] \in Contents
  BY FileMapsAre
<1> DEFINE G == Put(F, f, c)
<1>2. DOMAIN G = DOMAIN F /\ G[f] = c /\ \A e \in DOMAIN F \ {f} : G[e] = F[e]
  BY <1>1 DEF Put
<1>3. G = [e \in DOMAIN G |-> G[e]]
  BY <1>1 DEF Put
<1> HIDE DEF G
<1>4. G \in FileMaps
  BY <1>1, <1>2, <1>3, FileMapsAre
<1>5. QED
  BY <1>2, <1>4 DEF View, G

\* Creating a file changes nothing that is read.
LEMMA CreatedIs ==
  ASSUME NEW F \in FileMaps, NEW f \in Files
  PROVE  LET G == Over(F, One(f, Empty))
         IN  /\ G \in FileMaps /\ DOMAIN G = DOMAIN F \cup {f}
             /\ \A e \in Files : View(G, e) = View(F, e)
<1>1. /\ DOMAIN F \subseteq Files
      /\ \A e \in DOMAIN F : F[e] \in Contents
  BY FileMapsAre
<1> DEFINE G == Over(F, One(f, Empty))
<1>2. /\ DOMAIN G = DOMAIN F \cup {f}
      /\ \A e \in DOMAIN F : G[e] = F[e]
      /\ f \notin DOMAIN F => G[f] = Empty
      /\ G = [e \in DOMAIN G |-> G[e]]
  BY DEF Over, One
<1> HIDE DEF G
<1>3. \A e \in DOMAIN G : G[e] \in Contents
  BY <1>1, <1>2, EmptyIs
<1>4. G \in FileMaps
  BY <1>1, <1>2, <1>3, FileMapsAre
<1>5. QED
  BY <1>2, <1>4 DEF View, G

\* Deleting a file empties it and leaves the others.
LEMMA WithoutIs ==
  ASSUME NEW F \in FileMaps, NEW f \in Files
  PROVE  LET G == Without(F, f)
         IN  /\ G \in FileMaps /\ DOMAIN G = DOMAIN F \ {f}
             /\ View(G, f) = Empty
             /\ \A e \in Files \ {f} : View(G, e) = View(F, e)
<1>1. /\ DOMAIN F \subseteq Files
      /\ \A e \in DOMAIN F : F[e] \in Contents
  BY FileMapsAre
<1> DEFINE G == Without(F, f)
<1>2. /\ DOMAIN G = DOMAIN F \ {f}
      /\ \A e \in DOMAIN G : G[e] = F[e]
      /\ G = [e \in DOMAIN G |-> G[e]]
  BY DEF Without
<1> HIDE DEF G
<1>3. G \in FileMaps
  BY <1>1, <1>2, FileMapsAre
<1>4. QED
  BY <1>2, <1>3 DEF View, G

\* Truncating keeps the slots up to the size.
LEMMA ShortenedIs ==
  ASSUME NEW c \in Contents, NEW size \in Nat
  PROVE  /\ Shortened(c, size) \in Contents
         /\ DOMAIN Shortened(c, size) = {p \in DOMAIN c : p <= size}
         /\ \A p \in DOMAIN c : p <= size => Shortened(c, size)[p] = c[p]
<1>1. /\ DOMAIN c \subseteq 0..MaxPages
      /\ \A p \in DOMAIN c : c[p] \in Nat \cup Headers
  BY ContentsAre
<1> DEFINE D == {p \in DOMAIN c : p <= size}
<1>2. Shortened(c, size) \in [D -> Nat \cup Headers] /\ D \in SUBSET (0..MaxPages)
  BY <1>1 DEF Shortened
<1>3. QED
  BY <1>2 DEF Shortened, Contents

\* A work item has the effect of its kind.
LEMMA ItemRuns ==
  ASSUME NEW F \in FileMaps, NEW x \in WorkItems
  PROVE  LET G == AfterItem(F, x)
         IN  /\ x.kind = "create" /\ x.file \in Files =>
                  /\ G \in FileMaps /\ DOMAIN G = DOMAIN F \cup {x.file}
                  /\ \A e \in Files : View(G, e) = View(F, e)
             /\ x.kind = "write" /\ x.file \in DOMAIN F =>
                  /\ G \in FileMaps /\ DOMAIN G = DOMAIN F
                  /\ View(G, x.file) = Over(x.data, View(F, x.file))
                  /\ \A e \in Files \ {x.file} : View(G, e) = View(F, e)
             /\ x.kind = "truncate" /\ x.file \in DOMAIN F =>
                  /\ G \in FileMaps /\ DOMAIN G = DOMAIN F
                  /\ View(G, x.file) = Shortened(View(F, x.file), x.size)
                  /\ \A e \in Files \ {x.file} : View(G, e) = View(F, e)
             /\ x.kind = "delete" /\ x.file \in Files =>
                  /\ G \in FileMaps /\ DOMAIN G = DOMAIN F \ {x.file}
                  /\ View(G, x.file) = Empty
                  /\ \A e \in Files \ {x.file} : View(G, e) = View(F, e)
             /\ x.kind = "close" => G = F
<1> DEFINE G == AfterItem(F, x)
<1>0. x.data \in Contents /\ x.size \in Nat
  BY DEF WorkItems
<1>1. ASSUME x.kind = "create", x.file \in Files
      PROVE  /\ G \in FileMaps /\ DOMAIN G = DOMAIN F \cup {x.file}
             /\ \A e \in Files : View(G, e) = View(F, e)
  <2>1. G = Over(F, One(x.file, Empty))
    BY <1>1 DEF AfterItem
  <2> HIDE DEF G
  <2>2. QED
    BY <1>1, <2>1, CreatedIs
<1>2. ASSUME x.kind = "write", x.file \in DOMAIN F
      PROVE  /\ G \in FileMaps /\ DOMAIN G = DOMAIN F
             /\ View(G, x.file) = Over(x.data, View(F, x.file))
             /\ \A e \in Files \ {x.file} : View(G, e) = View(F, e)
  <2>1. G = [F EXCEPT ![x.file] = Over(x.data, F[x.file])]
    BY <1>2 DEF AfterItem
  <2>2. View(F, x.file) = F[x.file] /\ F[x.file] \in Contents
    BY <1>2, FileMapsAre DEF View
  <2>3. Over(x.data, F[x.file]) \in Contents
    BY <1>0, <2>2, OverIs
  <2> DEFINE c == Over(x.data, F[x.file])
  <2>4. x.file \in DOMAIN F /\ c \in Contents /\ G = Put(F, x.file, c)
    BY <1>2, <2>1, <2>3 DEF Put
  <2> HIDE DEF G, c
  <2>5. /\ G \in FileMaps /\ DOMAIN G = DOMAIN F
        /\ View(G, x.file) = c
        /\ \A e \in Files \ {x.file} : View(G, e) = View(F, e)
    BY <2>4, PutIs
  <2>6. QED
    BY <2>2, <2>5 DEF c
<1>3. ASSUME x.kind = "truncate", x.file \in DOMAIN F
      PROVE  /\ G \in FileMaps /\ DOMAIN G = DOMAIN F
             /\ View(G, x.file) = Shortened(View(F, x.file), x.size)
             /\ \A e \in Files \ {x.file} : View(G, e) = View(F, e)
  <2>1. G = [F EXCEPT ![x.file] = Shortened(F[x.file], x.size)]
    BY <1>3 DEF AfterItem
  <2>2. View(F, x.file) = F[x.file] /\ F[x.file] \in Contents
    BY <1>3, FileMapsAre DEF View
  <2>3. Shortened(F[x.file], x.size) \in Contents
    BY <1>0, <2>2, ShortenedIs
  <2> DEFINE c == Shortened(F[x.file], x.size)
  <2>4. x.file \in DOMAIN F /\ c \in Contents /\ G = Put(F, x.file, c)
    BY <1>3, <2>1, <2>3 DEF Put
  <2> HIDE DEF G, c
  <2>5. /\ G \in FileMaps /\ DOMAIN G = DOMAIN F
        /\ View(G, x.file) = c
        /\ \A e \in Files \ {x.file} : View(G, e) = View(F, e)
    BY <2>4, PutIs
  <2>6. QED
    BY <2>2, <2>5 DEF c
<1>4. ASSUME x.kind = "delete", x.file \in Files
      PROVE  /\ G \in FileMaps /\ DOMAIN G = DOMAIN F \ {x.file}
             /\ View(G, x.file) = Empty
             /\ \A e \in Files \ {x.file} : View(G, e) = View(F, e)
  <2>1. G = Without(F, x.file)
    BY <1>4 DEF AfterItem
  <2> HIDE DEF G
  <2>2. QED
    BY <1>4, <2>1, WithoutIs
<1>5. ASSUME x.kind = "close" PROVE G = F
  BY <1>5 DEF AfterItem
<1> HIDE DEF G
<1>6. QED
  BY <1>1, <1>2, <1>3, <1>4, <1>5 DEF G

-----------------------------------------------------------------------------
(* The items that wait, counted from the one that is being stored *)

\* The state of the worker has its type, and no item waits behind none.
WellFormed(s) ==
  s \in States /\ (s.running = NoItem => s.queue = <<>>)
\* How many items there are, the one that is being stored among them, the
\* one in the n-th place, and whether it does this to that file.
Count(s) == IF s.running = NoItem THEN 0 ELSE Len(s.queue) + 1
It(s, n) == IF n = 1 THEN s.running ELSE s.queue[n - 1]
Is(s, n, kind, f) == It(s, n).kind = kind /\ It(s, n).file = f

\* The items that are counted are the running one and the queue.
LEMMA ItemsAre ==
  ASSUME NEW s, WellFormed(s)
  PROVE  /\ Count(s) \in Nat /\ (Count(s) = 0 <=> s.running = NoItem)
         /\ s.memory \in FileMaps
         /\ \A n \in 1..Count(s) : It(s, n) \in WorkItems
         /\ DOMAIN s.queue = 1..Len(s.queue) /\ Len(s.queue) \in Nat
         /\ Count(s) > 0 => Len(s.queue) = Count(s) - 1
         /\ Count(s) = 0 => Len(s.queue) = 0
         /\ \A i \in 1..Len(s.queue) : i + 1 \in 1..Count(s)
              /\ s.queue[i] = It(s, i + 1) /\ s.queue[i] \in WorkItems
<1>1. /\ s.queue \in Seq(WorkItems) /\ s.running \in WorkItems \cup {NoItem}
      /\ s.memory \in FileMaps
      /\ s.running = NoItem => s.queue = <<>>
  BY DEF WellFormed, States
<1>2. /\ Len(s.queue) \in Nat /\ DOMAIN s.queue = 1..Len(s.queue)
      /\ \A i \in 1..Len(s.queue) : s.queue[i] \in WorkItems
      /\ s.queue = <<>> => Len(s.queue) = 0
  BY <1>1
<1> DEFINE q == s.queue
           k == Len(q)
<1> HIDE DEF q, k, NoItem, WorkItems, FileMaps
<1>3. /\ k \in Nat /\ DOMAIN q = 1..k /\ \A i \in 1..k : q[i] \in WorkItems
      /\ s.running = NoItem => k = 0
      /\ Count(s) = IF s.running = NoItem THEN 0 ELSE k + 1
      /\ \A n : It(s, n) = IF n = 1 THEN s.running ELSE q[n - 1]
  BY <1>1, <1>2 DEF q, k, Count, It
<1>4. \A i \in 1..k : i + 1 \in 1..Count(s) /\ q[i] = It(s, i + 1)
  BY <1>3
<1>5. \A n \in 1..Count(s) : It(s, n) \in WorkItems
  <2> SUFFICES ASSUME NEW n \in 1..Count(s) PROVE It(s, n) \in WorkItems
    OBVIOUS
  <2>1. CASE n = 1
    BY <1>1, <1>3, <2>1
  <2>2. CASE n # 1
    <3>1. n - 1 \in 1..k
      BY <1>3, <2>2
    <3>2. QED
      BY <1>3, <2>2, <3>1
  <2>3. QED
    BY <2>1, <2>2
<1>6. QED
  BY <1>1, <1>3, <1>4, <1>5 DEF q, k

\* A queue of one.
LEMMA Single ==
  ASSUME NEW x
  PROVE  /\ Append(<<>>, x) = <<x>> /\ <<x>> # <<>>
         /\ Head(<<x>>) = x /\ Tail(<<x>>) = <<>>
<1>1. Append(<<>>, x) = <<x>>
  OBVIOUS
<1>2. <<x>> # <<>> /\ Head(<<x>>) = x
  OBVIOUS
<1>3. Tail(<<x>>) = <<>>
  <2>1. Len(Tail(<<x>>)) = 0 /\ Tail(<<x>>) \in Seq({x})
    OBVIOUS
  <2>2. QED
    BY <2>1, EmptySeq
<1>4. QED
  BY <1>1, <1>2, <1>3

\* An item that is submitted comes last, or starts at once.
LEMMA SubmittedIs ==
  ASSUME NEW s, WellFormed(s), NEW x \in WorkItems
  PROVE  LET t == Submitted(s, x)
         IN  /\ WellFormed(t) /\ t.memory = s.memory
             /\ Count(t) = Count(s) + 1
             /\ \A n \in 1..Count(s) : It(t, n) = It(s, n)
             /\ It(t, Count(t)) = x
<1> DEFINE t == Submitted(s, x)
<1>1. /\ s \in States
      /\ s.queue \in Seq(WorkItems) /\ s.running \in WorkItems \cup {NoItem}
      /\ s.memory \in FileMaps
      /\ s.running = NoItem => s.queue = <<>>
      /\ x # NoItem
      /\ s = [memory |-> s.memory, queue |-> s.queue, running |-> s.running]
  BY DEF WellFormed, States, WorkItems, NoItem
<1>2. CASE s.running = NoItem
  <2>1. Append(s.queue, x) = <<x>> /\ <<x>> # <<>> /\ Head(<<x>>) = x /\ Tail(<<x>>) = <<>>
    BY <1>1, <1>2, Single
  <2>2. t = [memory |-> s.memory, queue |-> <<>>, running |-> x]
    BY <1>1, <1>2, <2>1 DEF Submitted, Started
  <2> HIDE DEF t
  <2>3. t \in States /\ WellFormed(t)
    BY <1>1, <2>2 DEF WellFormed, States
  <2>4. QED
    BY <1>1, <1>2, <2>2, <2>3 DEF Count, It, t
<1>3. CASE s.running # NoItem
  <2>1. t = [memory |-> s.memory, queue |-> Append(s.queue, x), running |-> s.running]
    BY <1>1, <1>3 DEF Submitted, Started
  <2> HIDE DEF t
  <2>2. t \in States /\ WellFormed(t)
    BY <1>1, <1>3, <2>1 DEF WellFormed, States
  <2>3. /\ Len(t.queue) = Len(s.queue) + 1 /\ Len(s.queue) \in Nat
        /\ \A i \in 1..Len(s.queue) : t.queue[i] = s.queue[i]
        /\ t.queue[Len(s.queue) + 1] = x
        /\ t.running = s.running /\ t.memory = s.memory
    BY <1>1, <2>1
  <2>4. Count(s) = Len(s.queue) + 1 /\ Count(t) = Count(s) + 1
    BY <1>3, <2>3 DEF Count
  <2>5. \A n \in 1..Count(s) : It(t, n) = It(s, n)
    <3> SUFFICES ASSUME NEW n \in 1..Count(s), n # 1 PROVE It(t, n) = It(s, n)
      BY <2>3 DEF It
    <3>1. n - 1 \in 1..Len(s.queue)
      BY <2>3, <2>4
    <3>2. QED
      BY <2>3, <3>1 DEF It
  <2>6. It(t, Count(t)) = x
    <3>1. Count(t) # 1 /\ Count(t) - 1 = Len(s.queue) + 1
      BY <2>3, <2>4
    <3>2. QED
      BY <2>3, <3>1 DEF It
  <2>7. QED
    BY <2>2, <2>3, <2>4, <2>5, <2>6 DEF t
<1>4. QED
  BY <1>2, <1>3

-----------------------------------------------------------------------------
(* What was queued up to an item that ends merging is not changed any more: *)
(* h[n] are the files once n items have been stored.  Behind it a file is   *)
(* created and written at most once, and nothing else happens.              *)

\* Items that later writes are not merged across.
Barrier(x) ==
  x.kind \in {"truncate", "close"} \/ (x.kind = "delete" /\ x.file = Journal)

\* The first L items and what they leave stored; the last of them ends merging,
\* or it is the one that is being stored.
Frozen(s, h, L) ==
  /\ L \in Nat /\ L <= Count(s) /\ (Count(s) > 0 => L > 0)
  /\ h \in [0..L -> FileMaps]
  /\ \A n \in 1..L : h[n] = AfterItem(h[n - 1], It(s, n))
  /\ L > 1 => Barrier(It(s, L))

\* The items behind them, and whether one of these does this to that file.
Late(s, L) == (L + 1)..Count(s)
LateOf(s, L, kind, f) == \E n \in Late(s, L) : Is(s, n, kind, f)

\* A file is there unless it is created late, and reads as it does in memory
\* once its late write is stored.
FileBehind(s, L, base, f) ==
  /\ IF LateOf(s, L, "create", f)
     THEN f \notin DOMAIN base /\ f \in DOMAIN s.memory
     ELSE f \in DOMAIN base <=> f \in DOMAIN s.memory
  /\ \A n \in Late(s, L) : Is(s, n, "write", f) =>
       /\ f \in DOMAIN s.memory
       /\ View(s.memory, f) = Over(It(s, n).data, View(base, f))
  /\ ~LateOf(s, L, "write", f) => View(s.memory, f) = View(base, f)

\* Late items create and write, once for each file and in this order.
Orderly(s, L) ==
  /\ \A n \in Late(s, L) :
       It(s, n).kind \in {"create", "write"} /\ It(s, n).file \in Files
  /\ \A m, n \in Late(s, L) : It(s, m).file = It(s, n).file =>
       /\ It(s, m).kind = It(s, n).kind => m = n
       /\ It(s, m).kind = "create" /\ It(s, n).kind = "write" => m < n

\* What memory is ahead of what is stored once the first items are.
Behind(s, L, base) ==
  Orderly(s, L) /\ \A f \in Files : FileBehind(s, L, base, f)

\* What the queue holds leads from what is stored to the files in memory.
Traced(s, h, L) == WellFormed(s) /\ Frozen(s, h, L) /\ Behind(s, L, h[L])

\* When no item is late, the files in memory are those that will be stored.
LEMMA NothingBehind ==
  ASSUME NEW s, NEW h, NEW L, Traced(s, h, L), L = Count(s)
  PROVE  h[L] = s.memory
<1>1. s.memory \in FileMaps /\ h[L] \in FileMaps /\ L \in Nat
  BY ItemsAre DEF Traced, Frozen
<1>2. Late(s, L) = {}
  BY <1>1 DEF Late
<1>3. \A f \in Files : /\ f \in DOMAIN h[L] <=> f \in DOMAIN s.memory
                       /\ View(s.memory, f) = View(h[L], f)
  BY <1>2 DEF Traced, Behind, FileBehind, LateOf
<1>4. DOMAIN h[L] = DOMAIN s.memory
  BY <1>1, <1>3, FileMapsAre
<1>5. QED
  BY <1>1, <1>3, <1>4, SameFiles

\* The state with other files in memory.
WithMemory(s, F) == [s EXCEPT !.memory = F]

\* Other files in memory leave the items as they are.
LEMMA MemoryChanged ==
  ASSUME NEW s, WellFormed(s), NEW F \in FileMaps
  PROVE  LET t == WithMemory(s, F)
         IN  /\ WellFormed(t) /\ t.memory = F /\ t.queue = s.queue
             /\ t.running = s.running
             /\ Count(t) = Count(s) /\ \A n : It(t, n) = It(s, n)
<1> DEFINE t == WithMemory(s, F)
<1>1. t \in States /\ t.memory = F /\ t.queue = s.queue /\ t.running = s.running
  BY DEF WellFormed, States, WithMemory
<1> HIDE DEF t
<1>2. QED
  BY <1>1 DEF t, WellFormed, Count, It

\* How the history goes on when an item is queued that may still be changed,
\* unless it is stored at once.
After(s, h, t) ==
  IF Count(s) = 0 THEN [n \in 0..1 |-> IF n = 0 THEN h[0] ELSE t.memory] ELSE h
Place(s, L) == IF Count(s) = 0 THEN 1 ELSE L

\* A creation or a first write that is queued, with its change of the files in
\* memory, keeps the trace.
LEMMA AppendTraced ==
  ASSUME NEW s, NEW h, NEW L, Traced(s, h, L),
         NEW x \in WorkItems, NEW F, F = AfterItem(s.memory, x),
         x.file \in Files,
         \/ x.kind = "create" /\ x.file \notin DOMAIN s.memory
         \/ /\ x.kind = "write" /\ x.file \in DOMAIN s.memory
            /\ ~LateOf(s, L, "write", x.file)
  PROVE  LET t == Submitted(WithMemory(s, F), x)
         IN  /\ Traced(t, After(s, h, t), Place(s, L)) /\ t.memory = F
             /\ Count(t) = Count(s) + 1 /\ It(t, Count(t)) = x
             /\ \A n \in 1..Count(s) : It(t, n) = It(s, n)
<1> DEFINE t == Submitted(WithMemory(s, F), x)
           N == Count(s)
<1>1. /\ WellFormed(s) /\ Frozen(s, h, L) /\ Behind(s, L, h[L])
      /\ s.memory \in FileMaps /\ N \in Nat /\ L \in Nat /\ L <= N /\ (N > 0 => L > 0)
      /\ h[L] \in FileMaps /\ h[0] \in FileMaps
  BY ItemsAre DEF Traced, Frozen
<1>2. /\ F \in FileMaps
      /\ \A f \in Files : f \in DOMAIN F <=>
           f \in DOMAIN s.memory \/ (x.kind = "create" /\ f = x.file)
      /\ \A f \in Files :
           View(F, f) = IF x.kind = "write" /\ f = x.file
                        THEN Over(x.data, View(s.memory, f)) ELSE View(s.memory, f)
  <2>1. CASE x.kind = "create"
    <3>1. /\ F \in FileMaps /\ DOMAIN F = DOMAIN s.memory \cup {x.file}
          /\ \A f \in Files : View(F, f) = View(s.memory, f)
      BY <1>1, <2>1, ItemRuns
    <3>2. QED
      BY <2>1, <3>1
  <2>2. CASE x.kind = "write" /\ x.file \in DOMAIN s.memory
    BY <1>1, <2>2, ItemRuns
  <2>3. QED
    BY <2>1, <2>2
<1>3. /\ WellFormed(t) /\ t.memory = F /\ Count(t) = N + 1 /\ It(t, N + 1) = x
      /\ \A n \in 1..N : It(t, n) = It(s, n)
  <2> DEFINE u == WithMemory(s, F)
  <2>1. WellFormed(u) /\ u.memory = F /\ Count(u) = N /\ \A n : It(u, n) = It(s, n)
    BY <1>1, <1>2, MemoryChanged
  <2> HIDE DEF u, N
  <2>2. /\ WellFormed(Submitted(u, x)) /\ Submitted(u, x).memory = F
        /\ Count(Submitted(u, x)) = N + 1 /\ It(Submitted(u, x), N + 1) = x
        /\ \A n \in 1..N : It(Submitted(u, x), n) = It(u, n)
    BY <2>1, SubmittedIs
  <2>3. QED
    BY <2>1, <2>2 DEF u
<1> HIDE DEF t
<1>4. CASE N = 0
  <2> DEFINE g == [n \in 0..1 |-> IF n = 0 THEN h[0] ELSE t.memory]
  <2>1. After(s, h, t) = g /\ Place(s, L) = 1 /\ L = 0
    BY <1>1, <1>4 DEF After, Place
  <2>2. h[0] = s.memory
    BY <1>1, <1>4, <2>1, NothingBehind
  <2>3. g \in [0..1 -> FileMaps] /\ g[0] = s.memory /\ g[1] = F
    BY <1>1, <1>2, <1>3, <2>2
  <2> HIDE DEF g
  <2>4. Frozen(t, g, 1)
    <3>1. \A n \in 1..1 : n = 1 /\ n - 1 = 0
      OBVIOUS
    <3>2. It(t, 1) = x /\ Count(t) = 1
      BY <1>3, <1>4
    <3>3. QED
      BY <2>3, <3>1, <3>2 DEF Frozen
  <2>5. Late(t, 1) = {}
    BY <1>3, <1>4 DEF Late
  <2>6. Behind(t, 1, g[1])
    BY <1>3, <2>3, <2>5 DEF Behind, Orderly, FileBehind, LateOf
  <2>7. QED
    BY <1>3, <2>1, <2>4, <2>6 DEF Traced, t
<1>5. CASE N > 0
  <2>1. After(s, h, t) = h /\ Place(s, L) = L /\ L > 0
    BY <1>1, <1>5 DEF After, Place
  <2>2. Frozen(t, h, L)
    <3>1. \A n \in 1..L : It(t, n) = It(s, n)
      BY <1>1, <1>3
    <3>2. L \in 1..L
      BY <1>1, <2>1
    <3>3. L <= Count(t)
      BY <1>1, <1>3
    <3>4. QED
      BY <1>1, <2>1, <3>1, <3>2, <3>3 DEF Frozen
  <2>3. /\ \A n : n \in Late(t, L) <=> n \in Late(s, L) \/ n = N + 1
        /\ \A n \in Late(s, L) : It(t, n) = It(s, n) /\ n < N + 1
        /\ N + 1 \notin Late(s, L) /\ It(t, N + 1) = x
    BY <1>1, <1>3, <2>1 DEF Late
  <2>4. \A n \in Late(s, L) : /\ n \in Nat
                              /\ It(s, n).kind \in {"create", "write"}
                              /\ It(s, n).file \in Files
    BY <1>1 DEF Behind, Orderly, Late
  <2>5. \A n \in Late(s, L) : It(s, n).file = x.file => It(s, n).kind = "create" /\ x.kind = "write"
    <3> SUFFICES ASSUME NEW n \in Late(s, L), It(s, n).file = x.file
                 PROVE  It(s, n).kind = "create" /\ x.kind = "write"
      OBVIOUS
    <3>1. FileBehind(s, L, h[L], x.file)
      BY <1>1 DEF Behind
    <3>2. CASE x.kind = "create"
      <4>1. x.file \notin DOMAIN s.memory
        BY <3>2
      <4>2. ~LateOf(s, L, "create", x.file) /\ ~Is(s, n, "write", x.file)
        BY <3>1, <4>1 DEF FileBehind
      <4>3. QED
        BY <2>4, <4>2 DEF LateOf, Is
    <3>3. CASE x.kind = "write" /\ ~LateOf(s, L, "write", x.file)
      BY <2>4, <3>3 DEF LateOf, Is
    <3>4. QED
      BY <3>2, <3>3
  <2>6. Orderly(t, L)
    <3>1. \A n \in Late(t, L) : It(t, n).kind \in {"create", "write"} /\ It(t, n).file \in Files
      BY <2>3, <2>4
    <3>2. ASSUME NEW m \in Late(t, L), NEW n \in Late(t, L), It(t, m).file = It(t, n).file
          PROVE  /\ It(t, m).kind = It(t, n).kind => m = n
                 /\ It(t, m).kind = "create" /\ It(t, n).kind = "write" => m < n
      <4>1. CASE m \in Late(s, L) /\ n \in Late(s, L)
        BY <1>1, <2>3, <3>2, <4>1 DEF Behind, Orderly
      <4>2. CASE m \in Late(s, L) /\ n = N + 1
        BY <2>3, <2>5, <3>2, <4>2
      <4>3. CASE m = N + 1 /\ n \in Late(s, L)
        BY <2>3, <2>5, <3>2, <4>3
      <4>4. CASE m = N + 1 /\ n = N + 1
        BY <2>3, <4>4
      <4>5. QED
        BY <2>3, <4>1, <4>2, <4>3, <4>4
    <3>3. QED
      BY <3>1, <3>2 DEF Orderly
  <2>7. ASSUME NEW f \in Files PROVE FileBehind(t, L, h[L], f)
    <3>1. FileBehind(s, L, h[L], f)
      BY <1>1 DEF Behind
    <3>2. /\ LateOf(t, L, "create", f) <=> LateOf(s, L, "create", f) \/ (x.kind = "create" /\ f = x.file)
          /\ LateOf(t, L, "write", f) <=> LateOf(s, L, "write", f) \/ (x.kind = "write" /\ f = x.file)
      BY <2>3 DEF LateOf, Is
    <3>3. ASSUME x.kind = "create", f = x.file, f \notin DOMAIN s.memory
          PROVE  FileBehind(t, L, h[L], f)
      <4>1. ~LateOf(s, L, "create", f) /\ ~LateOf(s, L, "write", f)
        BY <3>1, <3>3 DEF FileBehind, LateOf
      <4>2. f \notin DOMAIN h[L] /\ View(s.memory, f) = View(h[L], f)
        BY <3>1, <3>3, <4>1 DEF FileBehind
      <4>3. ~LateOf(t, L, "write", f)
        BY <3>2, <3>3, <4>1
      <4>4. f \in DOMAIN t.memory /\ View(t.memory, f) = View(h[L], f)
        BY <1>2, <1>3, <3>3, <4>2
      <4>5. QED
        BY <3>2, <3>3, <4>2, <4>3, <4>4 DEF FileBehind, LateOf
    <3>4. ASSUME x.kind = "write", f = x.file, f \in DOMAIN s.memory, ~LateOf(s, L, "write", f)
          PROVE  FileBehind(t, L, h[L], f)
      <4>1. View(s.memory, f) = View(h[L], f)
        BY <3>1, <3>4 DEF FileBehind
      <4>2. f \in DOMAIN t.memory /\ View(t.memory, f) = Over(x.data, View(h[L], f))
        BY <1>2, <1>3, <3>4, <4>1
      <4>3. \A n \in Late(t, L) : Is(t, n, "write", f) => n = N + 1
        BY <2>3, <3>4 DEF LateOf, Is
      <4>4. LateOf(t, L, "write", f) /\ (LateOf(t, L, "create", f) <=> LateOf(s, L, "create", f))
        BY <3>2, <3>4
      <4>5. QED
        BY <2>3, <3>1, <3>4, <4>2, <4>3, <4>4 DEF FileBehind
    <3>5. ASSUME f # x.file PROVE FileBehind(t, L, h[L], f)
      <4>1. /\ f \in DOMAIN t.memory <=> f \in DOMAIN s.memory
            /\ View(t.memory, f) = View(s.memory, f)
        BY <1>2, <1>3, <3>5
      <4>2. \A n \in Late(t, L) : Is(t, n, "write", f) =>
              n \in Late(s, L) /\ Is(s, n, "write", f) /\ It(t, n) = It(s, n)
        BY <2>3, <3>5 DEF Is
      <4>3. QED
        BY <3>1, <3>2, <3>5, <4>1, <4>2 DEF FileBehind
    <3>6. QED
      BY <3>3, <3>4, <3>5
  <2>8. Traced(t, h, L)
    BY <1>3, <2>2, <2>6, <2>7 DEF Traced, Behind
  <2>9. QED
    BY <1>3, <2>1, <2>8 DEF t
<1>6. QED
  BY <1>1, <1>4, <1>5

\* A write is merged with the late write of its file.
LEMMA MergesIs ==
  ASSUME NEW s, NEW h, NEW L, Traced(s, h, L), NEW f \in Files
  PROVE  \A i : i \in MergesWith(s.queue, f) <=>
                  i \in Nat /\ i + 1 \in Late(s, L) /\ Is(s, i + 1, "write", f)
<1> DEFINE N == Count(s)
           q == s.queue
<1>1. /\ Frozen(s, h, L) /\ Orderly(s, L)
      /\ N \in Nat /\ L \in Nat /\ L <= N /\ (N > 0 => L > 0)
      /\ L > 1 => Barrier(It(s, L))
  BY ItemsAre DEF Traced, Frozen, Behind
<1>2. /\ DOMAIN q = 1..Len(q) /\ Len(q) \in Nat
      /\ N > 0 => Len(q) = N - 1
      /\ N = 0 => Len(q) = 0
      /\ \A i \in 1..Len(q) : i + 1 \in 1..N /\ q[i] = It(s, i + 1)
  BY ItemsAre DEF Traced
<1>3. \A i : i \in MergesWith(q, f) <=>
        /\ i \in 1..Len(q) /\ q[i].kind = "write" /\ q[i].file = f
        /\ \A j \in (i + 1)..Len(q) :
             q[j].kind \in {"write", "create"} /\ q[j].file # f
  BY <1>2 DEF MergesWith
<1> HIDE DEF N, q
<1>4. ASSUME NEW i \in MergesWith(q, f)
      PROVE  i \in Nat /\ i + 1 \in Late(s, L) /\ Is(s, i + 1, "write", f)
  <2>1. i \in 1..Len(q) /\ Is(s, i + 1, "write", f) /\ i \in Nat /\ i + 1 \in 1..N
    BY <1>2, <1>3 DEF Is
  <2>2. ASSUME i + 1 <= L PROVE FALSE
    <3>1. Barrier(It(s, L)) /\ L - 1 \in 1..Len(q) /\ It(s, L) = q[L - 1]
      BY <1>1, <1>2, <2>1, <2>2
    <3>2. L # i + 1
      BY <2>1, <3>1 DEF Barrier, Is
    <3>3. L - 1 \in (i + 1)..Len(q)
      BY <1>1, <2>1, <2>2, <3>1, <3>2
    <3>4. q[L - 1].kind \in {"write", "create"}
      BY <1>3, <3>3
    <3>5. QED
      BY <3>1, <3>4 DEF Barrier
  <2>3. i + 1 \in (L + 1)..N
    BY <1>1, <2>1, <2>2
  <2>4. QED
    BY <2>1, <2>3 DEF Late, N
<1>5. ASSUME NEW i \in Nat, i + 1 \in Late(s, L), Is(s, i + 1, "write", f)
      PROVE  i \in MergesWith(q, f)
  <2>1. i + 1 \in (L + 1)..N
    BY <1>5 DEF Late, N
  <2>2. i \in 1..Len(q) /\ q[i] = It(s, i + 1)
    BY <1>1, <1>2, <2>1
  <2>3. ASSUME NEW j \in (i + 1)..Len(q)
        PROVE  q[j].kind \in {"write", "create"} /\ q[j].file # f
    <3>1. j \in 1..Len(q) /\ q[j] = It(s, j + 1) /\ j + 1 \in (L + 1)..N /\ j + 1 > i + 1
      BY <1>1, <1>2, <2>1, <2>2, <2>3
    <3>2. j + 1 \in Late(s, L)
      BY <3>1 DEF Late, N
    <3>3. It(s, j + 1).kind \in {"write", "create"}
      BY <1>1, <3>2 DEF Orderly
    <3>4. ASSUME It(s, j + 1).file = f PROVE FALSE
      <4>1. It(s, i + 1).kind = "write" /\ It(s, i + 1).file = f
        BY <1>5 DEF Is
      <4>2. It(s, j + 1).kind # "write"
        BY <1>1, <1>5, <3>1, <3>2, <3>4, <4>1 DEF Orderly
      <4>3. j + 1 < i + 1
        BY <1>1, <1>5, <3>2, <3>3, <3>4, <4>1, <4>2 DEF Orderly
      <4>4. QED
        BY <3>1, <4>3, <2>2
    <3>5. QED
      BY <3>1, <3>3, <3>4
  <2>4. QED
    BY <1>3, <1>5, <2>2, <2>3 DEF Is
<1>6. QED
  BY <1>4, <1>5 DEF q

\* What a write leaves: the items there were, of which one may have got more
\* data, or one more.
LEMMA WriteTraced ==
  ASSUME NEW s, NEW h, NEW L, Traced(s, h, L),
         NEW f \in DOMAIN s.memory, NEW d \in Contents
  PROVE  LET t == Written(s, f, d)
         IN  /\ Traced(t, After(s, h, t), Place(s, L))
             /\ t.memory = Put(s.memory, f, Over(d, View(s.memory, f)))
             /\ \A n \in 1..Count(s) : It(t, n).kind = It(s, n).kind
                                       /\ It(t, n).file = It(s, n).file
             /\ \/ Count(t) = Count(s) /\ LateOf(s, L, "write", f)
                \/ /\ Count(t) = Count(s) + 1 /\ ~LateOf(s, L, "write", f)
                   /\ Is(t, Count(t), "write", f)
<1> DEFINE t == Written(s, f, d)
           c == Over(d, View(s.memory, f))
           F == Put(s.memory, f, c)
           m == WithMemory(s, F)
           merged == MergesWith(s.queue, f)
<1>1. /\ WellFormed(s) /\ Frozen(s, h, L) /\ Behind(s, L, h[L])
      /\ s.memory \in FileMaps /\ f \in Files
      /\ View(s.memory, f) = s.memory[f] /\ View(s.memory, f) \in Contents
      /\ s \in States
  BY ItemsAre, ViewIs, FileMapsAre DEF Traced, View, WellFormed
<1>2. /\ c \in Contents /\ F \in FileMaps /\ DOMAIN F = DOMAIN s.memory
      /\ View(F, f) = c
      /\ \A e \in Files \ {f} : View(F, e) = View(s.memory, e)
  <2>1. c \in Contents
    BY <1>1, OverIs
  <2> HIDE DEF c
  <2>2. QED
    BY <1>1, <2>1, PutIs
<1>3. \A i : i \in merged <=>
               i \in Nat /\ i + 1 \in Late(s, L) /\ Is(s, i + 1, "write", f)
  BY <1>1, MergesIs
<1>4. m = [s EXCEPT !.memory[f] = Over(d, @)]
  BY <1>1 DEF WithMemory, Put, States
<1>5. CASE merged = {}
  <2> DEFINE x == Item("write", f, d, 0)
  <2>1. x \in WorkItems /\ x.kind = "write" /\ x.file = f /\ x.data = d
    BY <1>1 DEF Item, WorkItems, Kinds
  <2>2. ~LateOf(s, L, "write", f)
    <3> SUFFICES ASSUME NEW n \in Late(s, L), Is(s, n, "write", f) PROVE FALSE
      BY DEF LateOf
    <3>1. n \in Nat /\ n >= 1
      BY <1>1 DEF Late, Frozen
    <3>2. n - 1 \in Nat /\ (n - 1) + 1 = n
      BY <3>1
    <3>3. QED
      BY <1>3, <1>5, <3>2
  <2>3. F = AfterItem(s.memory, x)
    BY <1>1, <2>1 DEF AfterItem, Put
  <2>4. t = Submitted(m, x)
    BY <1>4, <1>5 DEF Written
  <2> HIDE DEF x, F, t, m, merged
  <2>5. /\ Traced(Submitted(WithMemory(s, F), x), After(s, h, Submitted(WithMemory(s, F), x)), Place(s, L))
        /\ Submitted(WithMemory(s, F), x).memory = F
        /\ Count(Submitted(WithMemory(s, F), x)) = Count(s) + 1
        /\ It(Submitted(WithMemory(s, F), x), Count(Submitted(WithMemory(s, F), x))) = x
        /\ \A n \in 1..Count(s) : It(Submitted(WithMemory(s, F), x), n) = It(s, n)
    BY <1>1, <2>1, <2>2, <2>3, AppendTraced
  <2>6. t = Submitted(WithMemory(s, F), x)
    BY <2>4 DEF m
  <2>7. QED
    BY <2>1, <2>2, <2>5, <2>6 DEF Is, F, t
<1>6. CASE merged # {}
  <2> DEFINE q == s.queue
             Merged(i) == IF i \in merged THEN WithMore(q[i], d) ELSE q[i]
             r == [i \in DOMAIN q |-> Merged(i)]
             N == Count(s)
  <2>1. t = [m EXCEPT !.queue = r]
    <3>1. m.queue = q
      BY <1>1, <1>2, MemoryChanged
    <3>2. t = [m EXCEPT !.queue = [i \in DOMAIN m.queue |->
                 IF i \in merged THEN WithMore(m.queue[i], d) ELSE m.queue[i]]]
      BY <1>4, <1>6 DEF Written
    <3> HIDE DEF m, merged, t, q
    <3>3. [i \in DOMAIN m.queue |->
             IF i \in merged THEN WithMore(m.queue[i], d) ELSE m.queue[i]] = r
      BY <3>1
    <3> HIDE DEF r
    <3>4. QED
      BY <3>2, <3>3, Zenon
  <2>2. /\ DOMAIN q = 1..Len(q) /\ Len(q) \in Nat /\ N \in Nat
        /\ N > 0 => Len(q) = N - 1
        /\ N = 0 => Len(q) = 0
        /\ \A i \in 1..Len(q) : q[i] \in WorkItems /\ q[i] = It(s, i + 1) /\ i + 1 \in 1..N
        /\ N = 0 <=> s.running = NoItem
        /\ \A n \in 1..N : It(s, n) \in WorkItems
    BY <1>1, ItemsAre
  <2>3. N > 0
    <3>1. PICK i : i \in merged
      BY <1>6
    <3>2. i \in Nat /\ i + 1 \in (L + 1)..N /\ L \in Nat
      BY <1>1, <1>3, <3>1 DEF Late, Frozen
    <3>3. QED
      BY <2>2, <3>2
  <2>4. \A i \in 1..Len(q) : /\ Merged(i) \in WorkItems
                             /\ Merged(i).kind = q[i].kind /\ Merged(i).file = q[i].file
                             /\ i \notin merged => Merged(i) = q[i]
                             /\ i \in merged => Merged(i).data = Over(d, q[i].data)
    <3> SUFFICES ASSUME NEW i \in 1..Len(q)
                 PROVE  /\ Merged(i) \in WorkItems
                        /\ Merged(i).kind = q[i].kind /\ Merged(i).file = q[i].file
                        /\ i \notin merged => Merged(i) = q[i]
                        /\ i \in merged => Merged(i).data = Over(d, q[i].data)
      OBVIOUS
    <3>1. q[i] \in WorkItems /\ q[i].data \in Contents
      BY <2>2 DEF WorkItems
    <3>2. Over(d, q[i].data) \in Contents
      BY <3>1, OverIs
    <3>3. QED
      BY <3>1, <3>2 DEF WorkItems, WithMore
  <2>5. /\ r \in Seq(WorkItems) /\ Len(r) = Len(q) /\ DOMAIN r = DOMAIN q
        /\ \A i \in 1..Len(q) : r[i] = Merged(i)
    <3>1. r \in [1..Len(q) -> WorkItems]
      BY <2>2, <2>4
    <3> HIDE DEF Merged
    <3>2. r \in Seq(WorkItems) /\ DOMAIN r = 1..Len(q)
      BY <2>2, <3>1, IsASeq
    <3>3. Len(r) = Len(q)
      BY <2>2, <3>2, LenProperties
    <3>4. QED
      BY <2>2, <3>2, <3>3
  <2> HIDE DEF Merged, r, q, t, merged
  <2>6. /\ t \in States /\ t.memory = F /\ t.queue = r /\ t.running = s.running
        /\ WellFormed(t)
    <3>1. WellFormed(m) /\ m.memory = F /\ m.running = s.running
      BY <1>1, <1>2, MemoryChanged
    <3> HIDE DEF m, F
    <3>2. t \in States /\ t.memory = F /\ t.queue = r /\ t.running = s.running
      BY <2>1, <2>5, <3>1 DEF WellFormed, States
    <3>3. s.running # NoItem
      BY <2>2, <2>3
    <3>4. QED
      BY <3>2, <3>3 DEF WellFormed
  <2>7. /\ Count(t) = N /\ It(t, 1) = It(s, 1)
        /\ \A i \in 1..Len(q) : It(t, i + 1) = Merged(i)
    BY <2>2, <2>3, <2>5, <2>6 DEF Count, It, q
  <2>8. \A n \in 1..N : n = 1 \/ (n - 1 \in 1..Len(q) /\ (n - 1) + 1 = n)
    BY <2>2, <2>3
  <2>9. \A n \in 1..N : /\ It(t, n) \in WorkItems
                        /\ It(t, n).kind = It(s, n).kind /\ It(t, n).file = It(s, n).file
    <3> SUFFICES ASSUME NEW n \in 1..N
                 PROVE  /\ It(t, n) \in WorkItems
                        /\ It(t, n).kind = It(s, n).kind /\ It(t, n).file = It(s, n).file
      OBVIOUS
    <3>1. CASE n = 1
      BY <2>2, <2>7, <3>1
    <3>2. CASE n - 1 \in 1..Len(q) /\ (n - 1) + 1 = n
      BY <2>2, <2>4, <2>7, <3>2
    <3>3. QED
      BY <2>8, <3>1, <3>2
  <2>10. \A n \in 1..N : n - 1 \notin merged => It(t, n) = It(s, n)
    BY <2>2, <2>4, <2>7, <2>8
  <2>11. \A n \in 1..N : n - 1 \in merged => It(t, n).data = Over(d, It(s, n).data)
    <3>1. 0 \notin merged
      BY <1>1, <1>3, <2>3 DEF Late, Frozen
    <3>2. QED
      BY <2>2, <2>4, <2>7, <2>8, <3>1
  <2>12. /\ L \in Nat /\ L <= N /\ L > 0 /\ Late(t, L) = Late(s, L)
         /\ \A n \in Late(s, L) : n \in 1..N /\ n > L /\ n - 1 \in Nat /\ (n - 1) + 1 = n
    BY <1>1, <2>2, <2>3, <2>7 DEF Late, Frozen
  <2>13. Frozen(t, h, L)
    <3>1. \A n \in 1..L : n - 1 \notin merged
      BY <1>3, <2>12
    <3>2. \A n \in 1..L : n \in 1..N
      BY <2>2, <2>12
    <3>3. \A n \in 1..L : It(t, n) = It(s, n)
      BY <2>10, <3>1, <3>2
    <3>4. L \in 1..L
      BY <2>12
    <3>5. QED
      BY <1>1, <2>7, <2>12, <3>3, <3>4 DEF Frozen
  <2>14. Orderly(t, L)
    BY <1>1, <2>9, <2>12 DEF Orderly, Behind
  <2>15. \A n \in Late(s, L) : \A k, e : Is(t, n, k, e) <=> Is(s, n, k, e)
    BY <2>9, <2>12 DEF Is
  <2>16. LateOf(s, L, "write", f)
    <3>1. PICK i : i \in merged
      BY <1>6
    <3>2. QED
      BY <1>3, <3>1 DEF LateOf
  <2>17. ASSUME NEW e \in Files PROVE FileBehind(t, L, h[L], e)
    <3>1. FileBehind(s, L, h[L], e)
      BY <1>1 DEF Behind
    <3>2. \A k : LateOf(t, L, k, e) <=> LateOf(s, L, k, e)
      BY <2>12, <2>15 DEF LateOf
    <3>3. e \in DOMAIN t.memory <=> e \in DOMAIN s.memory
      BY <1>2, <2>6
    <3>4. CASE e = f
      <4>1. ASSUME NEW n \in Late(t, L), Is(t, n, "write", e)
            PROVE  View(t.memory, e) = Over(It(t, n).data, View(h[L], e))
        <5>1. n \in Late(s, L) /\ Is(s, n, "write", f) /\ n - 1 \in merged /\ n \in 1..N
          BY <1>3, <2>12, <2>15, <3>4, <4>1
        <5>2. View(s.memory, f) = Over(It(s, n).data, View(h[L], f))
          BY <3>1, <3>4, <5>1 DEF FileBehind
        <5>3. It(t, n).data = Over(d, It(s, n).data) /\ It(s, n).data \in Contents
          BY <2>2, <2>11, <5>1 DEF WorkItems
        <5>4. View(h[L], f) \in Contents
          BY <1>1, <2>12, ViewIs DEF Frozen
        <5>5. Over(d, Over(It(s, n).data, View(h[L], f))) = Over(Over(d, It(s, n).data), View(h[L], f))
          BY <5>3, <5>4, OverOver
        <5>6. QED
          BY <1>2, <2>6, <3>4, <5>2, <5>3, <5>5
      <4>2. LateOf(t, L, "write", e)
        BY <2>16, <3>2, <3>4
      <4>3. e \in DOMAIN t.memory
        BY <3>3, <3>4
      <4>4. QED
        BY <3>1, <3>2, <3>3, <4>1, <4>2, <4>3 DEF FileBehind
    <3>5. CASE e # f
      <4>1. View(t.memory, e) = View(s.memory, e)
        BY <1>2, <2>6, <3>5
      <4>2. \A n \in Late(t, L) : Is(t, n, "write", e) =>
              n \in Late(s, L) /\ Is(s, n, "write", e) /\ It(t, n) = It(s, n)
        BY <1>3, <2>10, <2>12, <2>15, <3>5 DEF Is
      <4>3. QED
        BY <3>1, <3>2, <3>3, <4>1, <4>2 DEF FileBehind
    <3>6. QED
      BY <3>4, <3>5
  <2>18. Traced(t, h, L)
    BY <2>6, <2>13, <2>14, <2>17 DEF Traced, Behind
  <2>19. After(s, h, t) = h /\ Place(s, L) = L
    BY <2>3 DEF After, Place
  <2>20. QED
    BY <2>6, <2>7, <2>9, <2>16, <2>18, <2>19 DEF t
<1>7. QED
  BY <1>5, <1>6

\* Opening a file that is not there keeps the trace and what is read.
LEMMA OpenTraced ==
  ASSUME NEW s, NEW h, NEW L, Traced(s, h, L), NEW f \in Files,
         f \notin DOMAIN s.memory
  PROVE  LET t == Opened(s, f)
         IN  /\ Traced(t, After(s, h, t), Place(s, L))
             /\ DOMAIN t.memory = DOMAIN s.memory \cup {f}
             /\ \A e \in Files : View(t.memory, e) = View(s.memory, e)
             /\ Count(t) = Count(s) + 1 /\ Is(t, Count(t), "create", f)
             /\ \A n \in 1..Count(s) : It(t, n) = It(s, n)
<1> DEFINE x == Item("create", f, Empty, 0)
           F == Over(s.memory, One(f, Empty))
<1>1. WellFormed(s) /\ s.memory \in FileMaps /\ s \in States
  BY ItemsAre DEF Traced, WellFormed
<1>2. x \in WorkItems /\ x.kind = "create" /\ x.file = f
  BY EmptyIs DEF Item, WorkItems, Kinds
<1>3. F = AfterItem(s.memory, x)
  BY <1>2 DEF AfterItem
<1>4. Opened(s, f) = Submitted(WithMemory(s, F), x)
  BY DEF Opened, WithMemory
<1>5. DOMAIN F = DOMAIN s.memory \cup {f} /\ \A e \in Files : View(F, e) = View(s.memory, e)
  BY <1>1, CreatedIs
<1> HIDE DEF x, F
<1>6. LET t == Submitted(WithMemory(s, F), x)
      IN  /\ Traced(t, After(s, h, t), Place(s, L)) /\ t.memory = F
          /\ Count(t) = Count(s) + 1 /\ It(t, Count(t)) = x
          /\ \A n \in 1..Count(s) : It(t, n) = It(s, n)
  BY <1>2, <1>3, AppendTraced
<1>7. QED
  BY <1>2, <1>4, <1>5, <1>6 DEF Is

\* The states of the files as the late items are stored: each file is as it
\* was before its late write, or as SQLite reads it.
Reached(s, base, n) ==
  [f \in {f \in DOMAIN s.memory : ~LateOf(s, n, "create", f)} |->
     IF LateOf(s, n, "write", f) THEN View(base, f) ELSE s.memory[f]]

\* What the files read as when some late items have been stored.
LEMMA ReachedIs ==
  ASSUME NEW s, NEW h, NEW L, Traced(s, h, L), NEW n \in L..Count(s)
  PROVE  /\ Reached(s, h[L], n) \in FileMaps
         /\ DOMAIN Reached(s, h[L], n) =
              {f \in DOMAIN s.memory : ~LateOf(s, n, "create", f)}
         /\ \A f \in Files :
              View(Reached(s, h[L], n), f) =
                IF LateOf(s, n, "write", f) THEN View(h[L], f) ELSE View(s.memory, f)
<1> DEFINE R == Reached(s, h[L], n)
<1>1. /\ Frozen(s, h, L) /\ Behind(s, L, h[L])
      /\ s.memory \in FileMaps /\ DOMAIN s.memory \subseteq Files
      /\ L \in Nat /\ h[L] \in FileMaps /\ Count(s) \in Nat
      /\ \A f \in DOMAIN s.memory : s.memory[f] \in Contents
  BY ItemsAre, FileMapsAre DEF Traced, Frozen
<1>2. /\ DOMAIN R = {f \in DOMAIN s.memory : ~LateOf(s, n, "create", f)}
      /\ \A f \in DOMAIN R : R[f] = IF LateOf(s, n, "write", f) THEN View(h[L], f)
                                    ELSE s.memory[f]
      /\ R = [f \in DOMAIN R |-> R[f]]
  BY DEF Reached
<1> HIDE DEF R
<1>3. \A f \in DOMAIN R : R[f] \in Contents
  BY <1>1, <1>2, ViewIs
<1>4. R \in FileMaps
  BY <1>1, <1>2, <1>3, FileMapsAre
<1>5. \A m \in Late(s, n) : m \in Late(s, L)
  BY <1>1 DEF Late
<1>6. ASSUME NEW f \in Files
      PROVE  View(R, f) = IF LateOf(s, n, "write", f) THEN View(h[L], f)
                          ELSE View(s.memory, f)
  <2>1. FileBehind(s, L, h[L], f)
    BY <1>1 DEF Behind
  <2>2. CASE f \in DOMAIN R
    BY <1>2, <2>2 DEF View
  <2>3. CASE f \notin DOMAIN s.memory
    <3>1. View(s.memory, f) = Empty /\ View(R, f) = Empty
      BY <1>2, <2>3 DEF View
    <3>2. ~LateOf(s, n, "write", f)
      BY <1>5, <2>1, <2>3 DEF FileBehind, LateOf
    <3>3. QED
      BY <3>1, <3>2
  <2>4. CASE f \in DOMAIN s.memory /\ LateOf(s, n, "create", f)
    <3>1. PICK m \in Late(s, n) : Is(s, m, "create", f)
      BY <2>4 DEF LateOf
    <3>2. LateOf(s, L, "create", f) /\ m \in Late(s, L)
      BY <1>5, <3>1 DEF LateOf
    <3>3. View(h[L], f) = Empty
      BY <2>1, <3>2 DEF FileBehind, View
    <3>4. View(R, f) = Empty
      BY <1>2, <2>4 DEF View
    <3>5. CASE LateOf(s, n, "write", f)
      BY <3>3, <3>4, <3>5
    <3>6. CASE ~LateOf(s, n, "write", f)
      <4>1. ASSUME NEW k \in Late(s, L), Is(s, k, "write", f) PROVE FALSE
        <5>1. m < k
          BY <1>1, <3>1, <3>2, <4>1 DEF Behind, Orderly, Is
        <5>2. k \in Late(s, n)
          BY <1>1, <3>1, <4>1, <5>1 DEF Late
        <5>3. QED
          BY <3>6, <4>1, <5>2 DEF LateOf
      <4>2. View(s.memory, f) = View(h[L], f)
        BY <2>1, <4>1 DEF FileBehind, LateOf
      <4>3. QED
        BY <3>3, <3>4, <3>6, <4>2
    <3>7. QED
      BY <3>5, <3>6
  <2>5. QED
    BY <1>2, <2>2, <2>3, <2>4
<1>7. QED
  BY <1>2, <1>4, <1>6 DEF R

\* Storing the next late item leads from each of these states to the next.
LEMMA ReachedNext ==
  ASSUME NEW s, NEW h, NEW L, Traced(s, h, L), NEW n \in Late(s, L)
  PROVE  Reached(s, h[L], n) = AfterItem(Reached(s, h[L], n - 1), It(s, n))
<1> DEFINE x == It(s, n)
           P == Reached(s, h[L], n - 1)
           R == Reached(s, h[L], n)
           Q == AfterItem(P, x)
<1>1. /\ Frozen(s, h, L) /\ Behind(s, L, h[L])
      /\ s.memory \in FileMaps /\ DOMAIN s.memory \subseteq Files
      /\ L \in Nat /\ L <= Count(s) /\ Count(s) \in Nat /\ n \in 1..Count(s)
      /\ n \in L..Count(s) /\ n - 1 \in L..Count(s)
      /\ x \in WorkItems
  BY ItemsAre, FileMapsAre DEF Traced, Frozen, Late
<1>2. /\ x.kind \in {"create", "write"} /\ x.file \in Files
      /\ \A m \in Late(s, L) : It(s, m).file = x.file =>
           /\ It(s, m).kind = x.kind => m = n
           /\ It(s, m).kind = "create" /\ x.kind = "write" => m < n
           /\ x.kind = "create" /\ It(s, m).kind = "write" => n < m
  BY <1>1 DEF Behind, Orderly
<1>3. /\ P \in FileMaps /\ R \in FileMaps
      /\ DOMAIN P = {f \in DOMAIN s.memory : ~LateOf(s, n - 1, "create", f)}
      /\ DOMAIN R = {f \in DOMAIN s.memory : ~LateOf(s, n, "create", f)}
      /\ \A f \in Files :
           View(P, f) = IF LateOf(s, n - 1, "write", f) THEN View(h[L], f) ELSE View(s.memory, f)
      /\ \A f \in Files :
           View(R, f) = IF LateOf(s, n, "write", f) THEN View(h[L], f) ELSE View(s.memory, f)
  <2>1. \A i \in L..Count(s) :
          /\ Reached(s, h[L], i) \in FileMaps
          /\ DOMAIN Reached(s, h[L], i) = {f \in DOMAIN s.memory : ~LateOf(s, i, "create", f)}
          /\ \A f \in Files : View(Reached(s, h[L], i), f) =
               IF LateOf(s, i, "write", f) THEN View(h[L], f) ELSE View(s.memory, f)
    BY ReachedIs
  <2>2. QED
    BY <1>1, <2>1
<1> HIDE DEF P, R
<1>4. /\ \A m : m \in Late(s, n - 1) <=> m = n \/ m \in Late(s, n)
      /\ \A m \in Late(s, n) : m \in Late(s, L) /\ m > n
  BY <1>1 DEF Late
<1>5. \A k, f : LateOf(s, n - 1, k, f) <=> LateOf(s, n, k, f) \/ (x.kind = k /\ x.file = f)
  BY <1>4 DEF LateOf, Is
<1>6. FileBehind(s, L, h[L], x.file)
  BY <1>1, <1>2 DEF Behind
<1>7. CASE x.kind = "create"
  <2>1. ~LateOf(s, n, "create", x.file)
    <3> SUFFICES ASSUME NEW m \in Late(s, n), It(s, m).kind = "create", It(s, m).file = x.file
                 PROVE  FALSE
      BY DEF LateOf, Is
    <3>1. m \in Late(s, L) /\ m > n
      BY <1>4
    <3>2. m = n
      BY <1>2, <1>7, <3>1
    <3>3. QED
      BY <1>1, <3>1, <3>2
  <2>2. x.file \in DOMAIN s.memory
    BY <1>6, <1>7 DEF FileBehind, LateOf, Is
  <2>3. DOMAIN R = DOMAIN P \cup {x.file}
    BY <1>3, <1>5, <1>7, <2>1, <2>2
  <2>4. \A f \in Files : View(R, f) = View(P, f)
    BY <1>3, <1>5, <1>7
  <2>5. Q \in FileMaps /\ DOMAIN Q = DOMAIN P \cup {x.file} /\ \A f \in Files : View(Q, f) = View(P, f)
    BY <1>1, <1>2, <1>3, <1>7, ItemRuns
  <2> HIDE DEF Q, x
  <2>6. R = Q
    BY <1>3, <2>3, <2>4, <2>5, SameFiles
  <2>7. QED
    BY <2>6 DEF P, Q, R, x
<1>8. CASE x.kind = "write"
  <2>1. ~LateOf(s, n, "write", x.file) /\ LateOf(s, n - 1, "write", x.file)
    <3>1. ASSUME NEW m \in Late(s, n), It(s, m).kind = "write", It(s, m).file = x.file
          PROVE  FALSE
      <4>1. m \in Late(s, L) /\ m > n
        BY <1>4
      <4>2. m = n
        BY <1>2, <1>8, <3>1, <4>1
      <4>3. QED
        BY <1>1, <4>1, <4>2
    <3>2. ~LateOf(s, n, "write", x.file)
      BY <3>1 DEF LateOf, Is
    <3>3. QED
      BY <1>5, <1>8, <3>2
  <2>2. ~LateOf(s, n - 1, "create", x.file)
    <3>1. \A m \in Late(s, n) : ~Is(s, m, "create", x.file)
      <4> SUFFICES ASSUME NEW m \in Late(s, n), Is(s, m, "create", x.file) PROVE FALSE
        OBVIOUS
      <4>1. m \in Late(s, L) /\ m > n
        BY <1>4
      <4>2. m < n
        BY <1>2, <1>8, <4>1 DEF Is
      <4>3. QED
        BY <1>1, <4>1, <4>2 DEF Late
    <3>2. QED
      BY <1>5, <1>8, <3>1 DEF LateOf
  <2>3. /\ x.file \in DOMAIN s.memory
        /\ View(s.memory, x.file) = Over(x.data, View(h[L], x.file))
    BY <1>6, <1>8 DEF FileBehind, Is
  <2>4. x.file \in DOMAIN P
    BY <1>3, <2>2, <2>3
  <2>5. DOMAIN R = DOMAIN P
    BY <1>3, <1>5, <1>8
  <2>6. View(R, x.file) = Over(x.data, View(P, x.file))
    BY <1>2, <1>3, <2>1, <2>3
  <2>7. \A f \in Files \ {x.file} : View(R, f) = View(P, f)
    BY <1>3, <1>5
  <2>8. /\ Q \in FileMaps /\ DOMAIN Q = DOMAIN P
        /\ View(Q, x.file) = Over(x.data, View(P, x.file))
        /\ \A f \in Files \ {x.file} : View(Q, f) = View(P, f)
    BY <1>1, <1>3, <1>8, <2>4, ItemRuns
  <2> HIDE DEF Q, x
  <2>9. R = Q
    BY <1>3, <2>5, <2>6, <2>7, <2>8, SameFiles
  <2>10. QED
    BY <2>9 DEF P, Q, R, x
<1>9. QED
  BY <1>2, <1>7, <1>8

\* The first of them is the last frozen state, the last one the files in memory.
LEMMA ReachedEnds ==
  ASSUME NEW s, NEW h, NEW L, Traced(s, h, L)
  PROVE  Reached(s, h[L], L) = h[L] /\ Reached(s, h[L], Count(s)) = s.memory
<1>1. /\ Frozen(s, h, L) /\ Behind(s, L, h[L])
      /\ s.memory \in FileMaps /\ DOMAIN s.memory \subseteq Files
      /\ L \in Nat /\ L <= Count(s) /\ Count(s) \in Nat /\ h[L] \in FileMaps
      /\ DOMAIN h[L] \subseteq Files
      /\ L \in L..Count(s) /\ Count(s) \in L..Count(s)
  BY ItemsAre, FileMapsAre DEF Traced, Frozen
<1>2. Reached(s, h[L], L) = h[L]
  <2> DEFINE R == Reached(s, h[L], L)
  <2>1. /\ R \in FileMaps
        /\ DOMAIN R = {f \in DOMAIN s.memory : ~LateOf(s, L, "create", f)}
        /\ \A f \in Files :
             View(R, f) = IF LateOf(s, L, "write", f) THEN View(h[L], f) ELSE View(s.memory, f)
    <3>1. \A i \in L..Count(s) :
            /\ Reached(s, h[L], i) \in FileMaps
            /\ DOMAIN Reached(s, h[L], i) = {f \in DOMAIN s.memory : ~LateOf(s, i, "create", f)}
            /\ \A f \in Files : View(Reached(s, h[L], i), f) =
                 IF LateOf(s, i, "write", f) THEN View(h[L], f) ELSE View(s.memory, f)
      BY ReachedIs
    <3>2. QED
      BY <1>1, <3>1
  <2> HIDE DEF R
  <2>2. \A f \in Files : f \in DOMAIN R <=> f \in DOMAIN h[L]
    BY <1>1, <2>1 DEF Behind, FileBehind
  <2>3. \A f \in Files : View(R, f) = View(h[L], f)
    BY <1>1, <2>1 DEF Behind, FileBehind
  <2>4. DOMAIN R = DOMAIN h[L]
    BY <1>1, <2>1, <2>2
  <2>5. QED
    BY <1>1, <2>1, <2>3, <2>4, SameFiles DEF R
<1>3. Reached(s, h[L], Count(s)) = s.memory
  <2> DEFINE R == Reached(s, h[L], Count(s))
  <2>1. /\ R \in FileMaps
        /\ DOMAIN R = {f \in DOMAIN s.memory : ~LateOf(s, Count(s), "create", f)}
        /\ \A f \in Files :
             View(R, f) = IF LateOf(s, Count(s), "write", f) THEN View(h[L], f) ELSE View(s.memory, f)
    BY <1>1, ReachedIs
  <2> HIDE DEF R
  <2>2. \A k, f : ~LateOf(s, Count(s), k, f)
    BY <1>1 DEF LateOf, Late
  <2>3. QED
    BY <1>1, <2>1, <2>2, SameFiles DEF R
<1>4. QED
  BY <1>2, <1>3

\* The history of all items that are queued.
Whole(s, h, L) == [n \in 0..Count(s) |-> IF n <= L THEN h[n] ELSE Reached(s, h[L], n)]

\* The whole history: each item leads from one state to the next, and the last
\* state is the files in memory.
LEMMA WholeIs ==
  ASSUME NEW s, NEW h, NEW L, Traced(s, h, L)
  PROVE  LET g == Whole(s, h, L)
         IN  /\ g \in [0..Count(s) -> FileMaps]
             /\ \A n \in 0..L : g[n] = h[n]
             /\ \A n \in L..Count(s) : g[n] = Reached(s, h[L], n)
             /\ \A n \in 1..Count(s) : g[n] = AfterItem(g[n - 1], It(s, n))
             /\ g[Count(s)] = s.memory
<1> DEFINE g == Whole(s, h, L)
           N == Count(s)
<1>1. /\ Frozen(s, h, L) /\ L \in Nat /\ L <= N /\ N \in Nat
      /\ \A n \in 0..L : h[n] \in FileMaps
      /\ \A n \in 1..L : h[n] = AfterItem(h[n - 1], It(s, n))
  BY ItemsAre DEF Traced, Frozen
<1>2. Reached(s, h[L], L) = h[L] /\ Reached(s, h[L], N) = s.memory
  BY ReachedEnds
<1>3. \A n \in L..N : Reached(s, h[L], n) \in FileMaps
  BY ReachedIs
<1> HIDE DEF N
<1>4. /\ \A n \in 0..L : n \in 0..N /\ g[n] = h[n]
      /\ \A n \in 0..N : n \notin 0..L => n \in L..N
      /\ \A n \in L..N : g[n] = Reached(s, h[L], n)
  BY <1>1, <1>2 DEF Whole, N
<1>5. g \in [0..N -> FileMaps]
  <2>1. \A n \in 0..N : g[n] \in FileMaps
    BY <1>1, <1>3, <1>4
  <2>2. g = [n \in 0..N |-> g[n]]
    BY DEF Whole, N
  <2> HIDE DEF g
  <2>3. QED
    BY <2>1, <2>2
<1> HIDE DEF g
<1>6. ASSUME NEW n \in 1..N PROVE g[n] = AfterItem(g[n - 1], It(s, n))
  <2>1. CASE n <= L
    <3>1. n \in 1..L /\ n \in 0..L /\ n - 1 \in 0..L
      BY <1>1, <2>1
    <3>2. QED
      BY <1>1, <1>4, <3>1
  <2>2. CASE n > L
    <3>1. n \in Late(s, L) /\ n \in L..N /\ n - 1 \in L..N
      BY <1>1, <2>2 DEF Late, N
    <3>2. QED
      BY <1>4, <3>1, ReachedNext
  <2>3. QED
    BY <1>1, <2>1, <2>2
<1>7. N \in L..N
  BY <1>1
<1>8. QED
  BY <1>2, <1>4, <1>5, <1>6, <1>7 DEF g, N

-----------------------------------------------------------------------------
(* What a tab makes of the files it finds *)

\* A journal that is complete, so that a tab plays it back.
HotC(j) == Header \in DOMAIN j /\ j[Header].hot

\* A page of the database once the journal has been played back.
Found(D, J, p) ==
  IF D = Empty \/ ~HotC(J) THEN Page(D, p)
  ELSE IF p \notin 1..J[Header].size THEN 0
  ELSE IF p \in J[Header].kept THEN J[p] ELSE Page(D, p)

\* The pages of the database have no gaps, and a journal that is complete keeps
\* pages the database had; the database, once it has pages, has those it had.
Spans(D) == \E m \in 0..MaxPages : DOMAIN D = 1..m
Sound(D, J) ==
  /\ Spans(D)
  /\ HotC(J) =>
       /\ J[Header].size \in 0..MaxPages
       /\ J[Header].kept \subseteq 1..J[Header].size
       /\ J[Header].kept \subseteq DOMAIN J
       /\ D # Empty => 1..J[Header].size \subseteq DOMAIN D
\* The database has all the pages it had when the journal was begun.
Covers(D, J) == HotC(J) => 1..J[Header].size \subseteq DOMAIN D

\* The pages are those of C, or are allowed to be different.
Fits(D, J, C, A) ==
  \A p \in 1..MaxPages : Found(D, J, p) = Page(C, p) \/ Found(D, J, p) \in A
\* The pages are those of C.
Exact(D, J, C) == \A p \in 1..MaxPages : Found(D, J, p) = Page(C, p)
\* A tab that finds these files finds one of the databases Cs, but for pages
\* that A allows to be different.
GoodPair(D, J, Cs, A) == Sound(D, J) /\ \E C \in Cs : Fits(D, J, C, A)
Good(F, Cs, A) == GoodPair(View(F, Database), View(F, Journal), Cs, A)

\* The files in memory give back the last commit C, and go on doing so when
\* the journal that was stored, JL, is not up to date.  A is what pages may be
\* that a transaction has changed, G what stored pages may be.
Phase(D, J, JL, C, G, A) ==
  /\ Sound(D, J) /\ Covers(D, J) /\ Exact(D, J, C)
  /\ HotC(JL) => /\ HotC(J) /\ JL[Header].size = J[Header].size
                 /\ \A p \in JL[Header].kept : JL[p] = Page(C, p)
  /\ Fits(D, JL, C, A)
  /\ A = G \/ ~HotC(JL)

\* When the journal is stored before the database, DL, is changed.
Ahead(D, J, DL, C, A) ==
  IF HotC(J) THEN Sound(DL, J) /\ Fits(DL, J, C, A) ELSE DL = D

\* A page that is not kept, or is kept as it is, shows.
LEMMA PageShown ==
  ASSUME NEW D, NEW J, Sound(D, J), Covers(D, J), HotC(J)
  PROVE  /\ D = Empty => J[Header].size = 0 /\ J[Header].kept = {}
         /\ \A p \in J[Header].kept : D # Empty /\ Found(D, J, p) = J[p]
         /\ \A p \in 1..MaxPages : p \notin 1..J[Header].size => Found(D, J, p) = 0
         /\ \A p \in 1..J[Header].size : p \notin J[Header].kept =>
              D # Empty /\ Found(D, J, p) = D[p] /\ Page(D, p) = D[p]
<1>1. /\ J[Header].size \in Nat /\ J[Header].kept \subseteq 1..J[Header].size
      /\ 1..J[Header].size \subseteq DOMAIN D /\ DOMAIN Empty = {}
  BY EmptyIs DEF Sound, Covers
<1>2. D = Empty => J[Header].size = 0 /\ J[Header].kept = {}
  <2> SUFFICES ASSUME D = Empty PROVE J[Header].size = 0 /\ J[Header].kept = {}
    OBVIOUS
  <2>1. 1 \notin 1..J[Header].size
    BY <1>1
  <2>2. QED
    BY <1>1, <2>1
<1>3. \A p \in 1..J[Header].size : D # Empty
  BY <1>1
<1>4. \A p \in 1..MaxPages : Page(Empty, p) = 0
  BY <1>1 DEF Page
<1>5. QED
  BY <1>1, <1>2, <1>3, <1>4 DEF Found, Page

\* What is exact is good.
LEMMA ExactIsGood ==
  ASSUME NEW D, NEW J, NEW C, NEW Cs, NEW A, Sound(D, J), Exact(D, J, C), C \in Cs
  PROVE  GoodPair(D, J, Cs, A)
BY DEF Exact, Fits, GoodPair

\* A journal that is stored as it is in memory.
LEMMA FreshPhase ==
  ASSUME NEW D, NEW J, NEW C, NEW G, NEW A,
         Sound(D, J), Covers(D, J), Exact(D, J, C), A = G \/ ~HotC(J)
  PROVE  Phase(D, J, J, C, G, A)
<1>1. Fits(D, J, C, A)
  BY DEF Exact, Fits
<1>2. ASSUME HotC(J) PROVE \A p \in J[Header].kept : J[p] = Page(C, p)
  <2>1. \A p \in J[Header].kept : Found(D, J, p) = J[p] /\ p \in 1..MaxPages
    BY <1>2, PageShown, FilesAssumption DEF Sound
  <2>2. QED
    BY <2>1 DEF Exact
<1>3. QED
  BY <1>1, <1>2 DEF Phase

\* The journal keeps more pages as they are.
LEMMA JournalPhase ==
  ASSUME NEW D, NEW J, NEW JL, NEW C, NEW G, NEW A, NEW K,
         Phase(D, J, JL, C, G, A),
         Sound(D, K), Covers(D, K), Exact(D, K, C),
         HotC(J) => /\ HotC(K) /\ K[Header].size = J[Header].size
                    /\ J[Header].kept \subseteq K[Header].kept
  PROVE  /\ Phase(D, K, JL, C, G, A)
         /\ \A DL : Ahead(D, J, DL, C, A) => Ahead(D, K, DL, C, A)
         /\ Ahead(D, K, D, C, A)
<1>1. Phase(D, K, JL, C, G, A)
  BY DEF Phase
<1>2. Ahead(D, K, D, C, A)
  BY DEF Ahead, Exact, Fits
<1>3. ASSUME NEW DL, Ahead(D, J, DL, C, A) PROVE Ahead(D, K, DL, C, A)
  <2>1. CASE ~HotC(J)
    BY <1>2, <1>3, <2>1 DEF Ahead
  <2>2. CASE HotC(J)
    <3>1. /\ Sound(DL, J) /\ Fits(DL, J, C, A)
          /\ HotC(K) /\ K[Header].size = J[Header].size
          /\ J[Header].kept \subseteq K[Header].kept
      BY <1>3, <2>2 DEF Ahead
    <3>2. Sound(DL, K)
      BY <2>2, <3>1 DEF Sound
    <3>3. ASSUME NEW p \in 1..MaxPages
          PROVE  Found(DL, K, p) = Page(C, p) \/ Found(DL, K, p) \in A
      <4>1. Found(DL, J, p) = Page(C, p) \/ Found(DL, J, p) \in A
        BY <3>1 DEF Fits
      <4>2. CASE DL = Empty \/ p \notin 1..K[Header].size \/ p \notin K[Header].kept
        <5>1. Found(DL, K, p) = Found(DL, J, p)
          BY <2>2, <3>1, <4>2 DEF Found
        <5>2. QED
          BY <4>1, <5>1
      <4>3. CASE DL # Empty /\ p \in 1..K[Header].size /\ p \in K[Header].kept
        <5>1. Found(DL, K, p) = K[p]
          BY <3>1, <4>3 DEF Found
        <5>2. Found(D, K, p) = K[p]
          BY <3>1, <4>3, PageShown
        <5>3. QED
          BY <5>1, <5>2 DEF Exact
      <4>4. QED
        BY <4>2, <4>3
    <3>4. QED
      BY <3>1, <3>2, <3>3 DEF Ahead, Fits
  <2>3. QED
    BY <2>1, <2>2
<1>4. QED
  BY <1>1, <1>2, <1>3

\* A page is changed that the journal keeps, or that the database did not have.
LEMMA DatabasePhase ==
  ASSUME NEW D \in Contents, NEW J, NEW JL, NEW C, NEW G, NEW A,
         Phase(D, J, JL, C, G, A), HotC(J),
         NEW p \in 1..MaxPages, NEW v \in Nat \cup Headers,
         Spans(Over(One(p, v), D)),
         p \in J[Header].kept \/ p \notin 1..J[Header].size,
         v \in A \/ v = Page(C, p)
  PROVE  /\ Phase(Over(One(p, v), D), J, JL, C, G, A)
         /\ \A DL : Ahead(D, J, DL, C, A) => Ahead(Over(One(p, v), D), J, DL, C, A)
<1> DEFINE E == Over(One(p, v), D)
           size == J[Header].size
           kept == J[Header].kept
<1>1. /\ DOMAIN E = DOMAIN D \cup {p} /\ E[p] = v
      /\ \A q \in DOMAIN D : q # p => E[q] = D[q]
      /\ E # Empty
  <2>1. p \in 0..MaxPages
    BY FilesAssumption
  <2> HIDE DEF size, kept
  <2>2. QED
    BY <2>1, OverOneIs
<1>2. /\ Sound(D, J) /\ Covers(D, J) /\ Exact(D, J, C) /\ Fits(D, JL, C, A)
      /\ HotC(JL) => JL[Header].size = size /\ \A q \in JL[Header].kept : JL[q] = Page(C, q)
      /\ A = G \/ ~HotC(JL)
      /\ size \in Nat /\ kept \subseteq 1..size /\ kept \subseteq DOMAIN J
      /\ 1..size \subseteq DOMAIN D /\ size \in 0..MaxPages
      /\ \A q \in 1..MaxPages : Found(D, J, q) = Page(C, q)
  BY DEF Phase, Sound, Covers, Exact
<1> HIDE DEF E
<1>3. Sound(E, J) /\ Covers(E, J)
  BY <1>1, <1>2 DEF Sound, Covers, E
<1>4. /\ \A q \in kept : D # Empty /\ Found(D, J, q) = J[q]
      /\ \A q \in 1..MaxPages : q \notin 1..size => Found(D, J, q) = 0
      /\ \A q \in 1..size : q \notin kept => D # Empty /\ Found(D, J, q) = D[q]
  BY <1>2, PageShown
<1>5. /\ \A q \in kept : Found(E, J, q) = J[q]
      /\ \A q \in 1..MaxPages : q \notin 1..size => Found(E, J, q) = 0
      /\ \A q \in 1..size : q \notin kept => Found(E, J, q) = E[q]
  BY <1>2, <1>3, PageShown
<1>6. Exact(E, J, C)
  <2> SUFFICES ASSUME NEW q \in 1..MaxPages PROVE Found(E, J, q) = Page(C, q)
    BY DEF Exact
  <2>1. CASE q \in kept
    BY <1>2, <1>4, <1>5, <2>1
  <2>2. CASE q \notin 1..size
    BY <1>2, <1>4, <1>5, <2>2
  <2>3. CASE q \in 1..size /\ q \notin kept
    <3>1. q # p /\ q \in DOMAIN D
      BY <1>2, <2>3
    <3>2. E[q] = D[q]
      BY <1>1, <3>1
    <3>3. QED
      BY <1>2, <1>4, <1>5, <2>3, <3>2
  <2>4. QED
    BY <2>1, <2>2, <2>3
<1>7. Fits(E, JL, C, A)
  <2> SUFFICES ASSUME NEW q \in 1..MaxPages
               PROVE  Found(E, JL, q) = Page(C, q) \/ Found(E, JL, q) \in A
    BY DEF Fits
  <2>1. Found(D, JL, q) = Page(C, q) \/ Found(D, JL, q) \in A
    BY <1>2 DEF Fits
  <2>2. Page(E, p) = v /\ (q # p => Page(E, q) = Page(D, q))
    BY <1>1 DEF Page
  <2>3. CASE ~HotC(JL)
    BY <2>1, <2>2, <2>3 DEF Found
  <2>4. CASE HotC(JL) /\ q \notin 1..size
    <3>1. Found(E, JL, q) = 0 /\ Page(C, q) = 0
      BY <1>1, <1>2, <1>4, <2>4 DEF Found
    <3>2. QED
      BY <3>1
  <2>5. CASE HotC(JL) /\ q \in 1..size
    <3>1. D # Empty
      BY <1>2, <2>5, EmptyIs
    <3>2. CASE q \in JL[Header].kept
      <4>1. Found(E, JL, q) = JL[q] /\ JL[q] = Page(C, q)
        BY <1>1, <1>2, <2>5, <3>2 DEF Found
      <4>2. QED
        BY <4>1
    <3>3. CASE q \notin JL[Header].kept
      <4>1. Found(E, JL, q) = Page(E, q) /\ Found(D, JL, q) = Page(D, q)
        BY <1>1, <1>2, <2>5, <3>1, <3>3 DEF Found
      <4>2. QED
        BY <2>1, <2>2, <4>1
    <3>4. QED
      BY <3>2, <3>3
  <2>6. QED
    BY <2>3, <2>4, <2>5
<1>8. Phase(E, J, JL, C, G, A)
  BY <1>2, <1>3, <1>6, <1>7 DEF Phase
<1>9. \A DL : Ahead(D, J, DL, C, A) => Ahead(E, J, DL, C, A)
  BY DEF Ahead
<1>10. QED
  BY <1>8, <1>9 DEF E

-----------------------------------------------------------------------------
(* Wherever the tab crashes, what is stored is good *)

\* A late write of the journal that is stored before the database changes.
JournalFirst(s, L) ==
  \E m \in Late(s, L) :
    /\ Is(s, m, "write", Journal)
    /\ \A n \in Late(s, L) : Is(s, n, "write", Database) => m < n

\* Each file is as it was before its late write, or as SQLite reads it; the
\* database alone may be old only if the journal is stored first.
LEMMA ReachedPairs ==
  ASSUME NEW s, NEW h, NEW L, Traced(s, h, L), NEW n \in L..Count(s)
  PROVE  LET X == View(Reached(s, h[L], n), Database)
             Y == View(Reached(s, h[L], n), Journal)
             D == View(s.memory, Database)
             J == View(s.memory, Journal)
             DL == View(h[L], Database)
             JL == View(h[L], Journal)
         IN  \/ X = DL /\ Y = JL
             \/ X = D /\ Y = JL
             \/ X = D /\ Y = J
             \/ X = DL /\ Y = J /\ JournalFirst(s, L)
<1>1. /\ View(Reached(s, h[L], n), Database) =
           IF LateOf(s, n, "write", Database) THEN View(h[L], Database) ELSE View(s.memory, Database)
      /\ View(Reached(s, h[L], n), Journal) =
           IF LateOf(s, n, "write", Journal) THEN View(h[L], Journal) ELSE View(s.memory, Journal)
  BY ReachedIs DEF Files
<1>2. CASE ~LateOf(s, n, "write", Database) \/ LateOf(s, n, "write", Journal)
  BY <1>1, <1>2
<1>3. CASE LateOf(s, n, "write", Database) /\ ~LateOf(s, n, "write", Journal)
  <2>1. /\ FileBehind(s, L, h[L], Journal) /\ Orderly(s, L)
        /\ L \in Nat /\ Count(s) \in Nat
    BY ItemsAre DEF Traced, Behind, Files, Frozen
  <2>2. CASE ~LateOf(s, L, "write", Journal)
    <3>1. View(s.memory, Journal) = View(h[L], Journal)
      BY <2>1, <2>2 DEF FileBehind
    <3>2. QED
      BY <1>1, <1>3, <3>1
  <2>3. CASE LateOf(s, L, "write", Journal)
    <3>1. PICK m \in Late(s, L) : Is(s, m, "write", Journal)
      BY <2>3 DEF LateOf
    <3>2. PICK k \in Late(s, n) : Is(s, k, "write", Database)
      BY <1>3 DEF LateOf
    <3>3. m \notin Late(s, n)
      BY <1>3, <3>1 DEF LateOf
    <3>4. k \in Late(s, L) /\ m < k
      BY <2>1, <3>2, <3>3 DEF Late
    <3>5. \A i \in Late(s, L) : Is(s, i, "write", Database) => i = k
      BY <2>1, <3>2, <3>4 DEF Orderly, Is
    <3>6. JournalFirst(s, L)
      BY <3>1, <3>4, <3>5 DEF JournalFirst
    <3>7. QED
      BY <1>1, <1>3, <3>6
  <2>4. QED
    BY <2>2, <2>3
<1>4. QED
  BY <1>2, <1>3

\* The frozen states are good, and the files in memory are.
Kept(s, h, L, C, Cs, G, A) ==
  /\ Traced(s, h, L) /\ C \in Cs
  /\ \A n \in 0..L : Good(h[n], Cs, G)
  /\ Phase(View(s.memory, Database), View(s.memory, Journal),
           View(h[L], Journal), C, G, A)
  /\ JournalFirst(s, L) =>
       Ahead(View(s.memory, Database), View(s.memory, Journal),
             View(h[L], Database), C, A)
  /\ A = G \/ (HotC(View(s.memory, Journal)) => Count(s) > 0)

\* The database as it is now with the journal that was stored.
LEMMA NewWithOld ==
  ASSUME NEW D, NEW J, NEW JL, NEW C, NEW G, NEW A, Phase(D, J, JL, C, G, A),
         NEW DL, Sound(DL, JL)
  PROVE  Sound(D, JL)
BY DEF Phase, Sound, Covers

\* Every state of the history is good, those the late items lead to as well.
LEMMA AllGood ==
  ASSUME NEW s, NEW h, NEW L, NEW C, NEW Cs, NEW A, Kept(s, h, L, C, Cs, A, A),
         NEW n \in 0..Count(s)
  PROVE  Good(Whole(s, h, L)[n], Cs, A)
<1> DEFINE D == View(s.memory, Database)
           J == View(s.memory, Journal)
           DL == View(h[L], Database)
           JL == View(h[L], Journal)
           X == View(Reached(s, h[L], n), Database)
           Y == View(Reached(s, h[L], n), Journal)
<1>1. /\ Traced(s, h, L) /\ C \in Cs /\ L \in Nat /\ L <= Count(s) /\ Count(s) \in Nat
      /\ \A i \in 0..L : Good(h[i], Cs, A)
      /\ Phase(D, J, JL, C, A, A)
      /\ JournalFirst(s, L) => Ahead(D, J, DL, C, A)
  BY ItemsAre DEF Kept, Traced, Frozen
<1>2. CASE n <= L
  <2>1. n \in 0..L /\ Whole(s, h, L)[n] = h[n]
    BY <1>1, <1>2, WholeIs
  <2>2. QED
    BY <1>1, <2>1
<1>3. CASE n > L
  <2>1. n \in L..Count(s)
    BY <1>1, <1>3
  <2>2. Whole(s, h, L)[n] = Reached(s, h[L], n)
    BY <1>1, <2>1, WholeIs
  <2>3. \/ X = DL /\ Y = JL
        \/ X = D /\ Y = JL
        \/ X = D /\ Y = J
        \/ X = DL /\ Y = J /\ JournalFirst(s, L)
    BY <1>1, <2>1, ReachedPairs
  <2>4. GoodPair(DL, JL, Cs, A)
    <3>1. L \in 0..L
      BY <1>1
    <3>2. QED
      BY <1>1, <3>1 DEF Good
  <2> HIDE DEF D, J, DL, JL, X, Y
  <2>5. GoodPair(D, JL, Cs, A)
    <3>1. Sound(DL, JL)
      BY <2>4 DEF GoodPair
    <3>2. Sound(D, JL)
      BY <1>1, <3>1, NewWithOld
    <3>3. QED
      BY <1>1, <3>2 DEF Phase, GoodPair
  <2>6. GoodPair(D, J, Cs, A)
    BY <1>1, ExactIsGood DEF Phase
  <2>7. ASSUME JournalFirst(s, L) PROVE GoodPair(DL, J, Cs, A)
    <3>1. CASE HotC(J)
      BY <1>1, <2>7, <3>1 DEF Ahead, GoodPair
    <3>2. CASE ~HotC(J)
      BY <1>1, <2>6, <2>7, <3>2 DEF Ahead
    <3>3. QED
      BY <3>1, <3>2
  <2>8. GoodPair(X, Y, Cs, A)
    BY <2>3, <2>4, <2>5, <2>6, <2>7
  <2>9. QED
    BY <2>2, <2>8 DEF Good, X, Y
<1>4. QED
  BY <1>1, <1>2, <1>3

\* An item that ends merging is queued behind all others.
Ended(s, h, L, F) ==
  [n \in 0..(Count(s) + 1) |-> IF n <= Count(s) THEN Whole(s, h, L)[n] ELSE F]

\* An item that ends merging makes the whole history frozen.
LEMMA BarrierTraced ==
  ASSUME NEW s, NEW h, NEW L, Traced(s, h, L),
         NEW x \in WorkItems, Barrier(x),
         NEW F \in FileMaps, F = AfterItem(s.memory, x)
  PROVE  LET t == Submitted(WithMemory(s, F), x)
             g == Ended(s, h, L, F)
         IN  /\ Traced(t, g, Count(t)) /\ t.memory = F
             /\ Count(t) = Count(s) + 1 /\ It(t, Count(t)) = x
             /\ \A n \in 1..Count(s) : It(t, n) = It(s, n)
             /\ \A n \in 0..Count(s) : g[n] = Whole(s, h, L)[n]
             /\ g[Count(t)] = F
             /\ Late(t, Count(t)) = {}
<1> DEFINE t == Submitted(WithMemory(s, F), x)
           g == Ended(s, h, L, F)
           W == Whole(s, h, L)
           N == Count(s)
<1>1. WellFormed(s) /\ N \in Nat
  BY ItemsAre DEF Traced
<1>2. /\ WellFormed(t) /\ t.memory = F /\ Count(t) = N + 1 /\ It(t, N + 1) = x
      /\ \A n \in 1..N : It(t, n) = It(s, n)
  <2> DEFINE u == WithMemory(s, F)
  <2>1. WellFormed(u) /\ u.memory = F /\ Count(u) = N /\ \A n : It(u, n) = It(s, n)
    BY <1>1, MemoryChanged
  <2> HIDE DEF u, N
  <2>2. /\ WellFormed(Submitted(u, x)) /\ Submitted(u, x).memory = F
        /\ Count(Submitted(u, x)) = N + 1 /\ It(Submitted(u, x), N + 1) = x
        /\ \A n \in 1..N : It(Submitted(u, x), n) = It(u, n)
    BY <2>1, SubmittedIs
  <2>3. QED
    BY <2>1, <2>2 DEF u
<1>3. /\ W \in [0..N -> FileMaps] /\ W[N] = s.memory
      /\ \A n \in 1..N : W[n] = AfterItem(W[n - 1], It(s, n))
  BY WholeIs
<1> HIDE DEF t, W, N
<1>4. /\ g \in [0..(N + 1) -> FileMaps]
      /\ \A n \in 0..N : g[n] = W[n]
      /\ g[N + 1] = F
  <2>1. \A n \in 0..(N + 1) : n <= N => n \in 0..N
    BY <1>1
  <2>2. g = [n \in 0..(N + 1) |-> IF n <= N THEN W[n] ELSE F]
    BY DEF Ended, W, N
  <2> HIDE DEF g
  <2>3. QED
    BY <1>1, <1>3, <2>1, <2>2
<1> HIDE DEF g
<1>5. ASSUME NEW n \in 1..(N + 1) PROVE g[n] = AfterItem(g[n - 1], It(t, n))
  <2>1. CASE n \in 1..N
    <3>1. n \in 0..N /\ n - 1 \in 0..N
      BY <1>1, <2>1
    <3>2. QED
      BY <1>2, <1>3, <1>4, <2>1, <3>1
  <2>2. CASE n = N + 1
    <3>1. n - 1 = N /\ N \in 0..N
      BY <1>1, <2>2
    <3>2. QED
      BY <1>2, <1>3, <1>4, <2>2, <3>1
  <2>3. QED
    BY <1>1, <2>1, <2>2
<1>6. Frozen(t, g, N + 1)
  BY <1>1, <1>2, <1>4, <1>5 DEF Frozen
<1>7. Late(t, N + 1) = {}
  BY <1>1, <1>2 DEF Late
<1>8. Behind(t, N + 1, g[N + 1])
  BY <1>2, <1>4, <1>7 DEF Behind, Orderly, FileBehind, LateOf
<1>9. QED
  BY <1>2, <1>4, <1>6, <1>7, <1>8 DEF Traced, t, g, W, N

-----------------------------------------------------------------------------
(* What SQLite's calls keep *)

\* Some history leads from what is stored to memory and keeps the commits; and
\* the files have not been closed.
Core(s, base, C, Cs, G, A) ==
  \E h, L : h[0] = base /\ Kept(s, h, L, C, Cs, G, A)
Unclosed(s) == \A n \in 1..Count(s) : It(s, n).kind # "close"
Safe(s, base, C, Cs, G, A) ==
  Core(s, base, C, Cs, G, A) /\ Unclosed(s) /\ Database \in DOMAIN s.memory

\* An item is merged, or is the last one.
Longer(s, t) ==
  /\ Count(t) \in {Count(s), Count(s) + 1} /\ Count(t) > 0
  /\ \A n \in 1..Count(s) : It(t, n).kind = It(s, n).kind /\ It(t, n).file = It(s, n).file

\* The late items when an item has been merged or is queued.
LEMMA LateLonger ==
  ASSUME NEW s, NEW t, NEW L \in Nat, Count(s) \in Nat, L <= Count(s), Longer(s, t)
  PROVE  /\ \A n : n \in Late(t, L) <=>
                     n \in Late(s, L) \/ (n = Count(t) /\ Count(t) = Count(s) + 1)
         /\ \A n \in Late(s, L) : /\ n < Count(s) + 1 /\ n \in 1..Count(s)
                                  /\ \A k, f : Is(t, n, k, f) <=> Is(s, n, k, f)
BY DEF Late, Longer, Is

\* A write or a creation that keeps the trace and the phase keeps the commits.
LEMMA KeptOn ==
  ASSUME NEW s, NEW h, NEW L, NEW C, NEW Cs, NEW G, NEW A,
         Kept(s, h, L, C, Cs, G, A),
         NEW t, Longer(s, t), Traced(t, After(s, h, t), Place(s, L)),
         Phase(View(t.memory, Database), View(t.memory, Journal),
               View(h[L], Journal), C, G, A),
         Count(s) > 0 /\ JournalFirst(t, L) =>
           Ahead(View(t.memory, Database), View(t.memory, Journal),
                 View(h[L], Database), C, A),
         Count(s) = 0 => A = G \/ ~HotC(View(t.memory, Journal))
  PROVE  Core(t, h[0], C, Cs, G, A)
<1> DEFINE g == After(s, h, t)
           M == Place(s, L)
           D == View(t.memory, Database)
           J == View(t.memory, Journal)
<1>1. /\ Count(s) \in Nat /\ L \in Nat /\ L <= Count(s) /\ C \in Cs
      /\ \A n \in 0..L : Good(h[n], Cs, G)
      /\ Count(t) > 0 /\ Traced(t, g, M)
  BY ItemsAre DEF Kept, Traced, Frozen, Longer
<1>2. Kept(t, g, M, C, Cs, G, A) /\ g[0] = h[0]
  <2>1. CASE Count(s) = 0
    <3>1. /\ M = 1 /\ g[0] = h[0] /\ g[1] = t.memory /\ Count(t) = 1 /\ L = 0
          /\ A = G \/ ~HotC(J)
      BY <1>1, <2>1 DEF Place, After, Longer
    <3>2. Phase(D, J, J, C, G, A)
      <4>1. Sound(D, J) /\ Covers(D, J) /\ Exact(D, J, C)
        BY DEF Phase
      <4> HIDE DEF D, J
      <4>2. QED
        BY <3>1, <4>1, FreshPhase
    <3>3. Late(t, M) = {}
      BY <3>1 DEF Late
    <3>4. ~JournalFirst(t, M)
      BY <3>3 DEF JournalFirst
    <3>5. Good(g[1], Cs, G)
      <4>1. Sound(D, J) /\ Exact(D, J, C)
        BY <3>2 DEF Phase
      <4>2. GoodPair(D, J, Cs, G)
        BY <1>1, <4>1, ExactIsGood
      <4>3. QED
        BY <3>1, <4>2 DEF Good
    <3>6. \A n \in 0..1 : n = 0 \/ n = 1
      OBVIOUS
    <3>7. 0 \in 0..L
      BY <3>1
    <3> HIDE DEF g, M
    <3>8. \A n \in 0..M : Good(g[n], Cs, G)
      BY <1>1, <3>1, <3>5, <3>6, <3>7
    <3>9. QED
      BY <1>1, <3>1, <3>2, <3>4, <3>8 DEF Kept
  <2>2. CASE Count(s) > 0
    <3>1. M = L /\ g = h
      BY <2>2 DEF Place, After
    <3> HIDE DEF g, M
    <3>2. QED
      BY <1>1, <2>2, <3>1 DEF Kept
  <2>3. QED
    BY <1>1, <2>1, <2>2
<1>3. QED
  BY <1>2 DEF Core

\* Only a journal write that is queued can come before the database's.
LEMMA FirstBefore ==
  ASSUME NEW s, NEW t, NEW L \in Nat, Count(s) \in Nat, L <= Count(s), Longer(s, t),
         Count(t) = Count(s) \/ ~Is(t, Count(t), "write", Journal),
         JournalFirst(t, L)
  PROVE  JournalFirst(s, L)
<1>1. PICK m \in Late(t, L) :
        /\ Is(t, m, "write", Journal)
        /\ \A n \in Late(t, L) : Is(t, n, "write", Database) => m < n
  BY DEF JournalFirst
<1>2. m \in Late(s, L)
  BY <1>1, LateLonger
<1>3. QED
  BY <1>1, <1>2, LateLonger DEF JournalFirst

\* Pages are journaled.
LEMMA JournalWritten ==
  ASSUME NEW s, NEW base, NEW C, NEW Cs, NEW G, NEW A, Safe(s, base, C, Cs, G, A),
         Journal \in DOMAIN s.memory, NEW d \in Contents,
         NEW D, D = View(s.memory, Database),
         NEW J, J = View(s.memory, Journal),
         NEW K, K = Over(d, J),
         Sound(D, K), Covers(D, K), Exact(D, K, C),
         HotC(J) => /\ HotC(K) /\ K[Header].size = J[Header].size
                    /\ J[Header].kept \subseteq K[Header].kept,
         A = G \/ Count(s) > 0 \/ ~HotC(K)
  PROVE  LET t == Written(s, Journal, d)
         IN  /\ Safe(t, base, C, Cs, G, A) /\ Count(t) > 0
             /\ DOMAIN t.memory = DOMAIN s.memory
             /\ View(t.memory, Database) = D /\ View(t.memory, Journal) = K
<1> DEFINE t == Written(s, Journal, d)
<1>1. PICK h, L : h[0] = base /\ Kept(s, h, L, C, Cs, G, A)
  BY DEF Safe, Core
<1>2. /\ Traced(s, h, L) /\ WellFormed(s) /\ s.memory \in FileMaps
      /\ Count(s) \in Nat /\ L \in Nat /\ L <= Count(s)
      /\ Phase(D, J, View(h[L], Journal), C, G, A)
      /\ JournalFirst(s, L) => Ahead(D, J, View(h[L], Database), C, A)
      /\ J \in Contents
  BY <1>1, ItemsAre, ViewIs DEF Kept, Traced, Frozen
<1>3. /\ Traced(t, After(s, h, t), Place(s, L))
      /\ t.memory = Put(s.memory, Journal, Over(d, View(s.memory, Journal)))
      /\ \A n \in 1..Count(s) : It(t, n).kind = It(s, n).kind
                                /\ It(t, n).file = It(s, n).file
      /\ \/ Count(t) = Count(s) /\ LateOf(s, L, "write", Journal)
         \/ /\ Count(t) = Count(s) + 1 /\ ~LateOf(s, L, "write", Journal)
            /\ Is(t, Count(t), "write", Journal)
  BY <1>2, WriteTraced
<1> HIDE DEF t
<1>4. t.memory = Put(s.memory, Journal, K) /\ K \in Contents
  BY <1>2, <1>3, OverIs
<1>5. /\ t.memory \in FileMaps /\ DOMAIN t.memory = DOMAIN s.memory
      /\ View(t.memory, Journal) = K /\ View(t.memory, Database) = D
  BY <1>2, <1>4, PutIs DEF Files, Database, Journal
<1>6. Longer(s, t)
  BY <1>2, <1>3 DEF Longer, LateOf, Late
<1>7. /\ Phase(D, K, View(h[L], Journal), C, G, A)
      /\ \A DL : Ahead(D, J, DL, C, A) => Ahead(D, K, DL, C, A)
      /\ Ahead(D, K, D, C, A)
  BY <1>2, JournalPhase
<1>8. ASSUME JournalFirst(t, L) PROVE JournalFirst(s, L) \/ D = View(h[L], Database)
  <2>1. CASE Count(t) = Count(s)
    BY <1>2, <1>6, <1>8, <2>1, FirstBefore
  <2>2. CASE Count(t) = Count(s) + 1 /\ ~LateOf(s, L, "write", Journal)
    <3>1. CASE LateOf(s, L, "write", Database)
      <4>1. PICK k \in Late(s, L) : Is(s, k, "write", Database)
        BY <3>1 DEF LateOf
      <4>2. PICK m \in Late(t, L) :
              /\ Is(t, m, "write", Journal)
              /\ \A n \in Late(t, L) : Is(t, n, "write", Database) => m < n
        BY <1>8 DEF JournalFirst
      <4>3. k \in Late(t, L) /\ Is(t, k, "write", Database) /\ k < Count(s) + 1 /\ k \in Nat
        BY <1>2, <1>6, <4>1, LateLonger
      <4>4. m < k
        BY <4>2, <4>3
      <4>5. m \in Late(s, L)
        BY <1>2, <1>6, <2>2, <4>2, <4>3, <4>4, LateLonger
      <4>6. QED
        BY <1>2, <1>6, <2>2, <4>2, <4>5, LateLonger DEF LateOf
    <3>2. CASE ~LateOf(s, L, "write", Database)
      <4>1. FileBehind(s, L, h[L], Database)
        BY <1>2 DEF Traced, Behind, Files
      <4>2. QED
        BY <3>2, <4>1 DEF FileBehind
    <3>3. QED
      BY <3>1, <3>2
  <2>3. QED
    BY <1>3, <2>1, <2>2
<1>9. Core(t, h[0], C, Cs, G, A)
  <2>1. JournalFirst(t, L) => Ahead(D, K, View(h[L], Database), C, A)
    BY <1>2, <1>7, <1>8
  <2>2. Count(s) = 0 => A = G \/ ~HotC(K)
    OBVIOUS
  <2>3. QED
    BY <1>1, <1>3, <1>5, <1>6, <1>7, <2>1, <2>2, KeptOn
<1>10. Unclosed(t)
  <2>1. Unclosed(s)
    BY DEF Safe
  <2>2. \A n \in 1..Count(t) : n \in 1..Count(s) \/ Is(t, n, "write", Journal)
    BY <1>2, <1>3
  <2>3. QED
    BY <1>3, <2>1, <2>2 DEF Unclosed, Is
<1>11. QED
  BY <1>1, <1>5, <1>6, <1>9, <1>10 DEF Safe, Longer, t

\* A page of the database is written.
LEMMA DatabaseWritten ==
  ASSUME NEW s, NEW base, NEW C, NEW Cs, NEW G, NEW A, Safe(s, base, C, Cs, G, A),
         NEW D, D = View(s.memory, Database),
         NEW J, J = View(s.memory, Journal), HotC(J),
         NEW p \in 1..MaxPages, NEW v \in Nat \cup Headers,
         Spans(Over(One(p, v), D)),
         p \in J[Header].kept \/ p \notin 1..J[Header].size,
         v \in A \/ v = Page(C, p)
  PROVE  LET t == Written(s, Database, One(p, v))
         IN  /\ Safe(t, base, C, Cs, G, A)
             /\ DOMAIN t.memory = DOMAIN s.memory
             /\ View(t.memory, Database) = Over(One(p, v), D)
             /\ View(t.memory, Journal) = J
<1> DEFINE t == Written(s, Database, One(p, v))
           E == Over(One(p, v), D)
<1>1. PICK h, L : h[0] = base /\ Kept(s, h, L, C, Cs, G, A)
  BY DEF Safe, Core
<1>2. /\ Traced(s, h, L) /\ WellFormed(s) /\ s.memory \in FileMaps
      /\ Count(s) \in Nat /\ L \in Nat /\ L <= Count(s)
      /\ Phase(D, J, View(h[L], Journal), C, G, A)
      /\ JournalFirst(s, L) => Ahead(D, J, View(h[L], Database), C, A)
      /\ D \in Contents /\ Database \in DOMAIN s.memory /\ Unclosed(s)
      /\ A = G \/ Count(s) > 0
      /\ p \in 0..MaxPages
  BY <1>1, ItemsAre, ViewIs, FilesAssumption DEF Kept, Traced, Frozen, Safe
<1>3. One(p, v) \in Contents /\ E \in Contents
  BY <1>2, OneIs, OverOneIs
<1> DEFINE d == One(p, v)
<1>4. d \in Contents /\ t = Written(s, Database, d)
  BY <1>3
<1> HIDE DEF d, t
<1>5. /\ Traced(t, After(s, h, t), Place(s, L))
      /\ t.memory = Put(s.memory, Database, Over(d, View(s.memory, Database)))
      /\ \A n \in 1..Count(s) : It(t, n).kind = It(s, n).kind
                                /\ It(t, n).file = It(s, n).file
      /\ \/ Count(t) = Count(s) /\ LateOf(s, L, "write", Database)
         \/ /\ Count(t) = Count(s) + 1 /\ ~LateOf(s, L, "write", Database)
            /\ Is(t, Count(t), "write", Database)
  BY <1>2, <1>4, WriteTraced
<1>6. t.memory = Put(s.memory, Database, E)
  BY <1>5 DEF d
<1> HIDE DEF E
<1>7. /\ t.memory \in FileMaps /\ DOMAIN t.memory = DOMAIN s.memory
      /\ View(t.memory, Database) = E /\ View(t.memory, Journal) = J
  BY <1>2, <1>3, <1>6, PutIs DEF Files, Database, Journal
<1>8. Longer(s, t)
  BY <1>2, <1>5 DEF Longer, LateOf, Late
<1>9. /\ Phase(E, J, View(h[L], Journal), C, G, A)
      /\ \A DL : Ahead(D, J, DL, C, A) => Ahead(E, J, DL, C, A)
  BY <1>2, DatabasePhase DEF E
<1>10. ~Is(t, Count(t), "write", Journal) \/ Count(t) = Count(s)
  BY <1>5 DEF Is, Database, Journal
<1>11. JournalFirst(t, L) => JournalFirst(s, L)
  BY <1>2, <1>8, <1>10, FirstBefore
<1>12. Core(t, h[0], C, Cs, G, A)
  <2>1. JournalFirst(t, L) => Ahead(E, J, View(h[L], Database), C, A)
    BY <1>2, <1>9, <1>11
  <2>2. Count(s) = 0 => A = G \/ ~HotC(J)
    BY <1>2
  <2>3. QED
    BY <1>1, <1>5, <1>7, <1>8, <1>9, <2>1, <2>2, KeptOn
<1>13. Unclosed(t)
  <2>1. \A n \in 1..Count(t) : n \in 1..Count(s) \/ Is(t, n, "write", Database)
    BY <1>2, <1>5
  <2>2. QED
    BY <1>2, <1>5, <2>1 DEF Unclosed, Is
<1>14. QED
  BY <1>1, <1>2, <1>7, <1>12, <1>13 DEF Safe, t, d, E

\* A file is created.
LEMMA FileOpened ==
  ASSUME NEW s, NEW base, NEW C, NEW Cs, NEW G, NEW A, Core(s, base, C, Cs, G, A),
         Unclosed(s), NEW f \in Files, f \notin DOMAIN s.memory
  PROVE  LET t == Opened(s, f)
         IN  /\ Core(t, base, C, Cs, G, A) /\ Unclosed(t) /\ Count(t) > 0
             /\ Count(t) = Count(s) + 1
             /\ DOMAIN t.memory = DOMAIN s.memory \cup {f}
             /\ \A e \in Files : View(t.memory, e) = View(s.memory, e)
<1> DEFINE t == Opened(s, f)
           D == View(s.memory, Database)
           J == View(s.memory, Journal)
<1>1. PICK h, L : h[0] = base /\ Kept(s, h, L, C, Cs, G, A)
  BY DEF Core
<1>2. /\ Traced(s, h, L)
      /\ Count(s) \in Nat /\ L \in Nat /\ L <= Count(s)
      /\ Phase(D, J, View(h[L], Journal), C, G, A)
      /\ JournalFirst(s, L) => Ahead(D, J, View(h[L], Database), C, A)
      /\ A = G \/ (HotC(J) => Count(s) > 0)
  BY <1>1, ItemsAre DEF Kept, Traced, Frozen
<1>3. /\ Traced(t, After(s, h, t), Place(s, L))
      /\ DOMAIN t.memory = DOMAIN s.memory \cup {f}
      /\ \A e \in Files : View(t.memory, e) = View(s.memory, e)
      /\ Count(t) = Count(s) + 1 /\ Is(t, Count(t), "create", f)
      /\ \A n \in 1..Count(s) : It(t, n) = It(s, n)
  BY <1>2, OpenTraced
<1> HIDE DEF t, D, J
<1>4. View(t.memory, Database) = D /\ View(t.memory, Journal) = J
  BY <1>3 DEF Files, D, J
<1>5. Longer(s, t) /\ ~Is(t, Count(t), "write", Journal)
  BY <1>2, <1>3 DEF Longer, Is
<1>6. JournalFirst(t, L) => JournalFirst(s, L)
  BY <1>2, <1>5, FirstBefore
<1>7. Core(t, h[0], C, Cs, G, A)
  <2>1. JournalFirst(t, L) => Ahead(D, J, View(h[L], Database), C, A)
    BY <1>2, <1>6
  <2>2. Count(s) = 0 => A = G \/ ~HotC(J)
    BY <1>2
  <2>3. QED
    BY <1>1, <1>2, <1>3, <1>4, <1>5, <2>1, <2>2, KeptOn
<1>8. Unclosed(t)
  <2>1. \A n \in 1..Count(t) : n \in 1..Count(s) \/ Is(t, n, "create", f)
    BY <1>2, <1>3
  <2>2. QED
    BY <1>3, <2>1 DEF Unclosed, Is
<1>9. QED
  BY <1>1, <1>2, <1>3, <1>7, <1>8 DEF t

\* An item that ends merging is queued.
LEMMA EndedCore ==
  ASSUME NEW s, NEW base, NEW C, NEW Cs, NEW A, Core(s, base, C, Cs, A, A),
         NEW x \in WorkItems, Barrier(x),
         NEW F \in FileMaps, F = AfterItem(s.memory, x),
         Sound(View(F, Database), View(F, Journal)),
         Covers(View(F, Database), View(F, Journal)),
         Exact(View(F, Database), View(F, Journal), C)
  PROVE  LET t == Submitted(WithMemory(s, F), x)
         IN  /\ Core(t, base, C, Cs, A, A) /\ t.memory = F
             /\ Count(t) = Count(s) + 1 /\ It(t, Count(t)) = x
             /\ \A n \in 1..Count(s) : It(t, n) = It(s, n)
<1> DEFINE t == Submitted(WithMemory(s, F), x)
           D == View(F, Database)
           J == View(F, Journal)
<1>1. PICK h, L : h[0] = base /\ Kept(s, h, L, C, Cs, A, A)
  BY DEF Core
<1> DEFINE g == Ended(s, h, L, F)
           M == Count(t)
<1>2. Traced(s, h, L) /\ C \in Cs /\ Count(s) \in Nat /\ L \in Nat
  BY <1>1, ItemsAre DEF Kept, Traced, Frozen
<1>3. /\ Traced(t, g, M) /\ t.memory = F
      /\ M = Count(s) + 1 /\ It(t, M) = x
      /\ \A n \in 1..Count(s) : It(t, n) = It(s, n)
      /\ \A n \in 0..Count(s) : g[n] = Whole(s, h, L)[n]
      /\ g[M] = F
      /\ Late(t, M) = {}
  BY <1>2, BarrierTraced
<1> HIDE DEF t, g
<1>4. Phase(D, J, J, C, A, A)
  BY FreshPhase
<1>5. GoodPair(D, J, Cs, A)
  BY <1>2, ExactIsGood
<1>6. ASSUME NEW n \in 0..M PROVE Good(g[n], Cs, A)
  <2>1. CASE n \in 0..Count(s)
    BY <1>1, <1>3, <2>1, AllGood
  <2>2. CASE n = M
    BY <1>3, <1>5, <2>2 DEF Good
  <2>3. QED
    BY <1>2, <1>3, <2>1, <2>2
<1>7. ~JournalFirst(t, M)
  BY <1>3 DEF JournalFirst
<1>8. Kept(t, g, M, C, Cs, A, A)
  BY <1>2, <1>3, <1>4, <1>6, <1>7 DEF Kept
<1>9. g[0] = base
  <2>1. 0 \in 0..Count(s) /\ 0 \in 0..L
    BY <1>2
  <2>2. QED
    BY <1>1, <1>2, <1>3, <2>1, WholeIs
<1>10. QED
  BY <1>3, <1>8, <1>9 DEF Core, t

\* Cutting the database back to its size before the transaction is safe while
\* the journal is hot.
LEMMA TruncatedSafe ==
  ASSUME NEW s, NEW base, NEW C, NEW Cs, NEW A, Safe(s, base, C, Cs, A, A),
         NEW D, D = View(s.memory, Database),
         NEW J, J = View(s.memory, Journal), HotC(J),
         NEW size, size = J[Header].size
  PROVE  LET t == Truncated(s, Database, size)
         IN  /\ Safe(t, base, C, Cs, A, A)
             /\ DOMAIN t.memory = DOMAIN s.memory
             /\ View(t.memory, Database) = Shortened(D, size)
             /\ View(t.memory, Journal) = J
<1> DEFINE t == Truncated(s, Database, size)
           x == Item("truncate", Database, Empty, size)
           E == Shortened(D, size)
           F == AfterItem(s.memory, x)
<1>1. PICK h, L : h[0] = base /\ Kept(s, h, L, C, Cs, A, A)
  BY DEF Safe, Core
<1>2. /\ WellFormed(s) /\ s.memory \in FileMaps /\ s \in States
      /\ Count(s) \in Nat
      /\ Sound(D, J) /\ Covers(D, J) /\ Exact(D, J, C)
      /\ D \in Contents /\ Database \in DOMAIN s.memory /\ Unclosed(s)
      /\ Core(s, base, C, Cs, A, A)
      /\ size \in Nat /\ size <= MaxPages
  BY <1>1, ItemsAre, ViewIs, FilesAssumption DEF Kept, Traced, WellFormed, Safe, Phase, Sound
<1>3. x \in WorkItems /\ x.kind = "truncate" /\ x.file = Database /\ x.size = size
  BY <1>2, EmptyIs DEF Item, WorkItems, Kinds, Files
<1>4. s.memory[Database] = D
  BY <1>2 DEF View
<1>5. t = Submitted(WithMemory(s, F), x)
  <2>1. F = [s.memory EXCEPT ![Database] = Shortened(s.memory[Database], size)]
    BY <1>3 DEF AfterItem
  <2>2. [s EXCEPT !.memory[Database] = Shortened(@, size)] = WithMemory(s, F)
    BY <1>2, <2>1 DEF WithMemory, States
  <2>3. QED
    BY <2>2 DEF Truncated
<1> HIDE DEF t, x
<1>6. /\ F \in FileMaps /\ DOMAIN F = DOMAIN s.memory
      /\ View(F, Database) = E
      /\ \A e \in Files \ {Database} : View(F, e) = View(s.memory, e)
  <2>1. x.file \in DOMAIN s.memory
    BY <1>2, <1>3
  <2> HIDE DEF E, F
  <2>2. /\ F \in FileMaps /\ DOMAIN F = DOMAIN s.memory
        /\ View(F, x.file) = Shortened(View(s.memory, x.file), x.size)
        /\ \A e \in Files \ {x.file} : View(F, e) = View(s.memory, e)
    BY <1>2, <1>3, <2>1, ItemRuns DEF F
  <2>3. QED
    BY <1>3, <2>2 DEF E
<1>7. View(F, Journal) = J
  BY <1>6 DEF Files, Database, Journal
<1> HIDE DEF F
<1>8. /\ E \in Contents /\ DOMAIN E = {p \in DOMAIN D : p <= size}
      /\ \A p \in DOMAIN D : p <= size => E[p] = D[p]
  BY <1>2, ShortenedIs
<1> HIDE DEF E
<1>9. /\ 1..size \subseteq DOMAIN D /\ J[Header].kept \subseteq 1..size
      /\ J[Header].kept \subseteq DOMAIN J /\ size \in 0..MaxPages
      /\ \E m \in 0..MaxPages : DOMAIN D = 1..m
  BY <1>2 DEF Sound, Covers, Spans
<1>10. DOMAIN E = 1..size
  BY <1>2, <1>8, <1>9
<1>11. Sound(E, J) /\ Covers(E, J)
  BY <1>9, <1>10 DEF Sound, Covers, Spans
<1>12. Exact(E, J, C)
  <2> SUFFICES ASSUME NEW p \in 1..MaxPages PROVE Found(E, J, p) = Found(D, J, p)
    BY <1>2 DEF Exact
  <2>1. /\ \A q \in J[Header].kept : Found(D, J, q) = J[q]
        /\ \A q \in 1..MaxPages : q \notin 1..size => Found(D, J, q) = 0
        /\ \A q \in 1..size : q \notin J[Header].kept => Found(D, J, q) = D[q]
    BY <1>2, PageShown
  <2>2. /\ \A q \in J[Header].kept : Found(E, J, q) = J[q]
        /\ \A q \in 1..MaxPages : q \notin 1..size => Found(E, J, q) = 0
        /\ \A q \in 1..size : q \notin J[Header].kept => Found(E, J, q) = E[q]
    BY <1>11, PageShown
  <2>3. \A q \in 1..size : E[q] = D[q]
    BY <1>2, <1>8, <1>9
  <2>4. QED
    BY <2>1, <2>2, <2>3
<1>13. Barrier(x)
  BY <1>3 DEF Barrier
<1>14. LET u == Submitted(WithMemory(s, F), x)
       IN  /\ Core(u, base, C, Cs, A, A) /\ u.memory = F
           /\ Count(u) = Count(s) + 1 /\ It(u, Count(u)) = x
           /\ \A n \in 1..Count(s) : It(u, n) = It(s, n)
  BY <1>2, <1>3, <1>6, <1>7, <1>11, <1>12, <1>13, EndedCore DEF F
<1>15. /\ Core(t, base, C, Cs, A, A) /\ t.memory = F
       /\ Count(t) = Count(s) + 1 /\ It(t, Count(t)) = x
       /\ \A n \in 1..Count(s) : It(t, n) = It(s, n)
  BY <1>5, <1>14
<1>16. Unclosed(t)
  <2>1. \A n \in 1..Count(t) : n \in 1..Count(s) \/ n = Count(t)
    BY <1>2, <1>15
  <2>2. QED
    BY <1>2, <1>3, <1>15, <2>1 DEF Unclosed
<1>17. QED
  BY <1>2, <1>6, <1>7, <1>15, <1>16 DEF Safe, t, E

-----------------------------------------------------------------------------
(* The deletion of the journal *)

\* A deletion stops at the last item that stops it.
LEMMA StopsAtIs ==
  ASSUME NEW q \in Seq(WorkItems), NEW f
  PROVE  /\ StopsAt(q, f) \in 0..Len(q)
         /\ \A i \in Stops(q, f) : i \in 1..Len(q) /\ i <= StopsAt(q, f)
         /\ StopsAt(q, f) > 0 => StopsAt(q, f) \in Stops(q, f)
<1> DEFINE S == Stops(q, f)
<1>1. Len(q) \in Nat /\ S \in SUBSET (1..Len(q))
  BY DEF Stops
<1> HIDE DEF S
<1>2. CASE S = {}
  BY <1>1, <1>2 DEF StopsAt, S
<1>3. CASE S # {}
  <2>1. StopsAt(q, f) = CHOOSE i \in S : \A j \in S : j <= i
    BY <1>3 DEF StopsAt, S
  <2>2. \E i \in S : \A j \in S : j <= i
    BY <1>1, <1>3, FirstAndLast
  <2>3. StopsAt(q, f) \in S /\ \A j \in S : j <= StopsAt(q, f)
    BY <2>1, <2>2
  <2>4. QED
    BY <1>1, <2>3 DEF S
<1>4. QED
  BY <1>2, <1>3

\* A queue without the writes of a file.
Drops(q, r, f) ==
  /\ r \in Seq(WorkItems)
  /\ \A i \in DOMAIN r : ~(r[i].kind = "write" /\ r[i].file = f)
  /\ \A i \in DOMAIN r : \E a \in 1..Len(q) : q[a] = r[i]
  /\ \A a \in 1..Len(q) : ~(q[a].kind = "write" /\ q[a].file = f) =>
       \E i \in DOMAIN r : r[i] = q[a]
  /\ \A i, j \in DOMAIN r : i < j =>
       \E a, b \in 1..Len(q) : a < b /\ q[a] = r[i] /\ q[b] = r[j]

\* Taking out the writes of a file leaves the other items in their order.
LEMMA WithoutWritesIs ==
  ASSUME NEW q \in Seq(WorkItems), NEW f
  PROVE  Drops(q, WithoutWrites(q, f), f)
<1> DEFINE S == {x \in ToSet(q) : ~(x.kind = "write" /\ x.file = f)}
           r == WithoutWrites(q, f)
<1>1. r = Chosen(q, S)
  BY DEF WithoutWrites, Chosen, FoldLeft, MapThenFoldSet
<1>2. \A a \in 1..Len(q) : q[a] \in ToSet(q)
  BY DEF ToSet
<1>3. \A x \in S : ~(x.kind = "write" /\ x.file = f)
  OBVIOUS
<1>4. \A a \in 1..Len(q) : ~(q[a].kind = "write" /\ q[a].file = f) => q[a] \in S
  BY <1>2
<1> HIDE DEF S, r
<1>5. Holds(r, WorkItems, q, Len(q), S)
  BY <1>1, ChosenHolds
<1>6. QED
  BY <1>3, <1>4, <1>5 DEF Holds, r, Drops

\* The front of a sequence.
LEMMA FrontIs ==
  ASSUME NEW S, NEW q \in Seq(S), NEW k \in Nat, k <= Len(q)
  PROVE  /\ SubSeq(q, 1, k) \in Seq(S) /\ Len(SubSeq(q, 1, k)) = k
         /\ \A i \in 1..k : SubSeq(q, 1, k)[i] = q[i]
<1>1. SubSeq(q, 1, k) \in Seq(S)
  OBVIOUS
<1>2. Len(SubSeq(q, 1, k)) = k
  OBVIOUS
<1>3. \A i \in 1..k : SubSeq(q, 1, k)[i] = q[i]
  OBVIOUS
<1>4. QED
  BY <1>1, <1>2, <1>3

\* Two sequences, one behind the other.
LEMMA JoinedIs ==
  ASSUME NEW S, NEW f \in Seq(S), NEW g \in Seq(S)
  PROVE  /\ f \o g \in Seq(S) /\ Len(f \o g) = Len(f) + Len(g)
         /\ \A i \in 1..(Len(f) + Len(g)) :
              /\ i <= Len(f) => (f \o g)[i] = f[i]
              /\ ~(i <= Len(f)) => (f \o g)[i] = g[i - Len(f)]
<1>1. f \o g \in Seq(S)
  OBVIOUS
<1>2. Len(f \o g) = Len(f) + Len(g)
  OBVIOUS
<1>3. \A i \in 1..(Len(f) + Len(g)) : i <= Len(f) => (f \o g)[i] = f[i]
  OBVIOUS
<1>4. \A i \in 1..(Len(f) + Len(g)) : ~(i <= Len(f)) => (f \o g)[i] = g[i - Len(f)]
  OBVIOUS
<1>5. QED
  BY <1>1, <1>2, <1>3, <1>4

\* A queue without the writes of the journal behind a place, and without the
\* items from k to there.
Shorter(q, r, k, stop) ==
  /\ r \in Seq(WorkItems) /\ k <= Len(r)
  /\ \A i \in 1..k : r[i] = q[i]
  /\ \A i \in (k + 1)..Len(r) : \E a \in (stop + 1)..Len(q) :
       q[a] = r[i] /\ ~(q[a].kind = "write" /\ q[a].file = Journal)
  /\ \A a \in (stop + 1)..Len(q) :
       ~(q[a].kind = "write" /\ q[a].file = Journal) =>
         \E i \in (k + 1)..Len(r) : r[i] = q[a]
  /\ \A i, j \in (k + 1)..Len(r) : i < j =>
       \E a, b \in (stop + 1)..Len(q) : a < b /\ q[a] = r[i] /\ q[b] = r[j]

\* What a deletion leaves of the queue.
LEMMA ShorterIs ==
  ASSUME NEW q \in Seq(WorkItems), NEW k \in Nat, NEW stop \in Nat,
         k <= stop, stop <= Len(q)
  PROVE  Shorter(q, SubSeq(q, 1, k)
                    \o WithoutWrites(SubSeq(q, stop + 1, Len(q)), Journal), k, stop)
<1> DEFINE N == Len(q)
           tail == SubSeq(q, stop + 1, N)
           rest == WithoutWrites(tail, Journal)
           front == SubSeq(q, 1, k)
           r == front \o rest
           K == Len(rest)
           Drop(x) == x.kind = "write" /\ x.file = Journal
<1>1. N \in Nat
  OBVIOUS
<1>2. /\ tail \in Seq(WorkItems) /\ Len(tail) = N - stop
      /\ \A a \in 1..(N - stop) : tail[a] = q[stop + a]
  <2> HIDE DEF N
  <2>1. /\ SubSeq(q, stop + 1, N) \in Seq(WorkItems)
        /\ Len(SubSeq(q, stop + 1, N)) = IF stop + 1 <= N THEN N - (stop + 1) + 1 ELSE 0
        /\ \A i \in 1..(N - (stop + 1) + 1) : SubSeq(q, stop + 1, N)[i] = q[stop + 1 + i - 1]
    BY <1>1, SubSeqProperties DEF N
  <2>2. \A a \in 1..(N - stop) : a \in 1..(N - (stop + 1) + 1) /\ stop + 1 + a - 1 = stop + a
    BY <1>1
  <2>3. (IF stop + 1 <= N THEN N - (stop + 1) + 1 ELSE 0) = N - stop
    BY <1>1 DEF N
  <2>4. QED
    BY <2>1, <2>2, <2>3
<1>3. /\ front \in Seq(WorkItems) /\ Len(front) = k
      /\ \A i \in 1..k : front[i] = q[i]
  <2>1. k <= Len(q)
    BY <1>1
  <2> HIDE DEF N, front, tail
  <2>2. PICK p \in Seq(WorkItems) : p = q
    OBVIOUS
  <2>3. /\ SubSeq(p, 1, k) \in Seq(WorkItems) /\ Len(SubSeq(p, 1, k)) = k
        /\ \A i \in 1..k : SubSeq(p, 1, k)[i] = p[i]
    BY <2>1, <2>2, FrontIs
  <2>4. front = SubSeq(p, 1, k)
    BY <2>2 DEF front
  <2>5. QED
    BY <2>2, <2>3, <2>4
<1> HIDE DEF tail, front
<1>4. /\ rest \in Seq(WorkItems)
      /\ \A i \in DOMAIN rest : ~Drop(rest[i])
      /\ \A i \in DOMAIN rest : \E a \in 1..Len(tail) : tail[a] = rest[i]
      /\ \A a \in 1..Len(tail) : ~Drop(tail[a]) => \E i \in DOMAIN rest : rest[i] = tail[a]
      /\ \A i, j \in DOMAIN rest : i < j =>
           \E a, b \in 1..Len(tail) : a < b /\ tail[a] = rest[i] /\ tail[b] = rest[j]
  <2>1. Drops(tail, rest, Journal)
    BY <1>2, WithoutWritesIs
  <2> HIDE DEF rest
  <2>2. QED
    BY <2>1 DEF Drops
<1> HIDE DEF rest, Drop, N
<1>5. DOMAIN rest = 1..K /\ K \in Nat
  BY <1>4
<1>6. /\ r \in Seq(WorkItems) /\ Len(r) = k + K
      /\ \A i \in 1..(k + K) : r[i] = IF i <= k THEN front[i] ELSE rest[i - k]
  <2> HIDE DEF K
  <2>1. PICK f \in Seq(WorkItems), g \in Seq(WorkItems) : f = front /\ g = rest
    BY <1>3, <1>4
  <2>2. /\ f \o g \in Seq(WorkItems) /\ Len(f \o g) = Len(f) + Len(g)
        /\ \A i \in 1..(Len(f) + Len(g)) :
             /\ i <= Len(f) => (f \o g)[i] = f[i]
             /\ ~(i <= Len(f)) => (f \o g)[i] = g[i - Len(f)]
    BY JoinedIs
  <2>3. Len(f) = k /\ Len(g) = K /\ r = f \o g
    BY <1>3, <2>1 DEF K
  <2> HIDE DEF r
  <2>4. QED
    BY <2>1, <2>2, <2>3
<1> HIDE DEF r, K
<1>7. \A i \in 1..k : r[i] = q[i]
  BY <1>3, <1>5, <1>6
<1>8. \A i \in (k + 1)..Len(r) : i - k \in 1..K /\ r[i] = rest[i - k]
  BY <1>5, <1>6
<1>9. \A i \in 1..K : k + i \in (k + 1)..Len(r) /\ r[k + i] = rest[i]
  <2>1. \A i \in 1..K : k + i \in (k + 1)..Len(r) /\ (k + i) - k = i
    BY <1>5, <1>6
  <2>2. QED
    BY <1>8, <2>1
<1>10. \A a \in 1..(N - stop) : stop + a \in (stop + 1)..N /\ q[stop + a] = tail[a]
  BY <1>1, <1>2
<1>11. \A a \in (stop + 1)..N : a - stop \in 1..(N - stop) /\ q[a] = tail[a - stop]
  <2>1. \A a \in (stop + 1)..N : a - stop \in 1..(N - stop) /\ stop + (a - stop) = a
    BY <1>1
  <2>2. QED
    BY <1>10, <2>1
<1>12. ASSUME NEW i \in (k + 1)..Len(r)
       PROVE  \E a \in (stop + 1)..N : q[a] = r[i] /\ ~Drop(q[a])
  <2>1. PICK a \in 1..(N - stop) : tail[a] = rest[i - k] /\ ~Drop(rest[i - k])
    BY <1>2, <1>4, <1>5, <1>8
  <2>2. QED
    BY <1>8, <1>10, <2>1
<1>13. ASSUME NEW a \in (stop + 1)..N, ~Drop(q[a])
       PROVE  \E i \in (k + 1)..Len(r) : r[i] = q[a]
  <2>1. PICK i \in 1..K : rest[i] = tail[a - stop]
    BY <1>2, <1>4, <1>5, <1>11, <1>13
  <2>2. QED
    BY <1>9, <1>11, <2>1
<1>14. ASSUME NEW i \in (k + 1)..Len(r), NEW j \in (k + 1)..Len(r), i < j
       PROVE  \E a, b \in (stop + 1)..N : a < b /\ q[a] = r[i] /\ q[b] = r[j]
  <2>1. i - k \in DOMAIN rest /\ j - k \in DOMAIN rest /\ i - k < j - k
    BY <1>5, <1>6, <1>8, <1>14
  <2>2. PICK a \in 1..Len(tail), b \in 1..Len(tail) :
          a < b /\ tail[a] = rest[i - k] /\ tail[b] = rest[j - k]
    BY <1>4, <2>1
  <2>5. a \in 1..(N - stop) /\ b \in 1..(N - stop)
    BY <1>2
  <2>3. stop + a < stop + b
    BY <2>2, <2>5, <1>1
  <2>4. QED
    BY <1>8, <1>10, <2>2, <2>3, <2>5
<1>15. k <= Len(r)
  BY <1>5, <1>6
<1>16. Shorter(q, r, k, stop)
  BY <1>6, <1>7, <1>12, <1>13, <1>14, <1>15 DEF Shorter, Drop, N
<1>17. QED
  BY <1>16 DEF r, front, rest, tail, N

\* Late items of the database only, in their order.
OnlyDatabase(s, u, L) ==
  /\ Count(u) \in Nat /\ L <= Count(u)
  /\ \A n \in 1..L : It(u, n) = It(s, n)
  /\ \A n \in Late(u, L) : \E a \in Late(s, L) :
       It(s, a) = It(u, n) /\ It(s, a).file = Database
  /\ \A a \in Late(s, L) : It(s, a).file = Database =>
       \E n \in Late(u, L) : It(u, n) = It(s, a)
  /\ \A i, j \in Late(u, L) : i < j =>
       \E a, b \in Late(s, L) : a < b /\ It(s, a) = It(u, i) /\ It(s, b) = It(u, j)

\* A deletion of the journal takes out late items of the journal only.
LEMMA QueueFiltered ==
  ASSUME NEW s, NEW h, NEW L, Traced(s, h, L), Count(s) > 0,
         NEW q, q = s.queue, NEW k \in Nat, NEW stop \in Nat,
         L - 1 <= k, k <= stop, stop <= Len(q),
         \A i \in L..k : q[i].file = Database,
         \A i \in (k + 1)..stop : q[i].file = Journal,
         \A i \in (stop + 1)..Len(q) : q[i].file = Journal => q[i].kind = "write",
         NEW F \in FileMaps, NEW r, Shorter(q, r, k, stop),
         NEW u, u = [memory |-> F, queue |-> r, running |-> s.running]
  PROVE  WellFormed(u) /\ OnlyDatabase(s, u, L)
<1> DEFINE N == Len(q)
           M == Len(r)
<1>1. /\ WellFormed(s) /\ q \in Seq(WorkItems) /\ s.running \in WorkItems \cup {NoItem}
      /\ s.running # NoItem
      /\ N \in Nat /\ Count(s) = N + 1 /\ L \in Nat /\ L > 0 /\ L <= N + 1
      /\ Orderly(s, L)
      /\ \A i \in 1..N : q[i] = It(s, i + 1) /\ q[i] \in WorkItems
  <2>1. /\ WellFormed(s) /\ q \in Seq(WorkItems) /\ s.running \in WorkItems \cup {NoItem}
        /\ Orderly(s, L) /\ L \in Nat /\ L <= Count(s) /\ (Count(s) > 0 => L > 0)
    BY DEF Traced, WellFormed, States, Behind, Frozen
  <2>2. /\ Count(s) \in Nat /\ s.running # NoItem
        /\ Len(s.queue) \in Nat /\ Len(s.queue) = Count(s) - 1
        /\ \A i \in 1..Len(s.queue) : s.queue[i] = It(s, i + 1) /\ s.queue[i] \in WorkItems
    BY <2>1, ItemsAre
  <2>3. QED
    BY <2>1, <2>2
<1>2. /\ r \in Seq(WorkItems) /\ M \in Nat /\ k <= M
      /\ \A i \in 1..k : r[i] = q[i]
      /\ \A i \in (k + 1)..M : \E a \in (stop + 1)..N :
           q[a] = r[i] /\ ~(q[a].kind = "write" /\ q[a].file = Journal)
      /\ \A a \in (stop + 1)..N :
           ~(q[a].kind = "write" /\ q[a].file = Journal) =>
             \E i \in (k + 1)..M : r[i] = q[a]
      /\ \A i, j \in (k + 1)..M : i < j =>
           \E a, b \in (stop + 1)..N : a < b /\ q[a] = r[i] /\ q[b] = r[j]
  <2>1. r \in Seq(WorkItems)
    BY DEF Shorter
  <2>2. M \in Nat
    BY <2>1
  <2> HIDE DEF M, N
  <2>3. QED
    BY <2>1, <2>2 DEF Shorter, M, N
<1>3. u \in States /\ WellFormed(u)
  BY <1>1, <1>2 DEF WellFormed, States
<1>4. /\ Count(u) = M + 1 /\ It(u, 1) = It(s, 1)
      /\ \A i \in 1..M : It(u, i + 1) = r[i]
  BY <1>1, <1>2 DEF Count, It
<1> HIDE DEF N, M
<1>5. k <= N /\ stop <= N
  BY <1>1 DEF N
<1>6. /\ \A i \in L..N : i \in 1..N /\ i + 1 \in Late(s, L) /\ q[i] = It(s, i + 1)
      /\ \A i \in L..M : i \in 1..M /\ i + 1 \in Late(u, L) /\ r[i] = It(u, i + 1)
      /\ \A n \in Late(s, L) : n - 1 \in L..N /\ (n - 1) + 1 = n /\ It(s, n) = q[n - 1]
      /\ \A n \in Late(u, L) : n - 1 \in L..M /\ (n - 1) + 1 = n /\ It(u, n) = r[n - 1]
  <2>1. \A i \in L..N : i \in 1..N /\ i + 1 \in Late(s, L) /\ q[i] = It(s, i + 1)
    BY <1>1 DEF Late
  <2>2. \A i \in L..M : i \in 1..M /\ i + 1 \in Late(u, L) /\ r[i] = It(u, i + 1)
    BY <1>1, <1>2, <1>4 DEF Late
  <2>3. \A n \in Late(s, L) : n - 1 \in L..N /\ (n - 1) + 1 = n
    BY <1>1 DEF Late
  <2>4. \A n \in Late(u, L) : n - 1 \in L..M /\ (n - 1) + 1 = n
    BY <1>1, <1>2, <1>4 DEF Late
  <2>5. QED
    BY <2>1, <2>2, <2>3, <2>4
\* in the queues
<1>7. \A a \in (stop + 1)..N : /\ a \in L..N
                               /\ ~(q[a].kind = "write" /\ q[a].file = Journal) <=>
                                    q[a].file = Database
  <2> SUFFICES ASSUME NEW a \in (stop + 1)..N
               PROVE  a \in L..N /\ (~(q[a].kind = "write" /\ q[a].file = Journal) <=>
                                       q[a].file = Database)
    OBVIOUS
  <2>1. a \in L..N
    BY <1>1
  <2>2. q[a].file \in Files
    BY <1>1, <1>6, <2>1 DEF Orderly
  <2>3. q[a].file = Journal => q[a].kind = "write"
    BY DEF N
  <2>4. QED
    BY <2>1, <2>2, <2>3 DEF Files, Database, Journal
<1>8. \A i \in L..M : i \in L..k \/ i \in (k + 1)..M
  BY <1>1, <1>2
<1>9. \A i \in L..k : i \in L..N /\ i \in L..M /\ i \in 1..k
  BY <1>1, <1>2, <1>5
<1>10. ASSUME NEW i \in L..M
       PROVE  \E a \in L..N : q[a] = r[i] /\ q[a].file = Database
  <2>1. CASE i \in L..k
    BY <1>2, <1>9, <2>1
  <2>2. CASE i \in (k + 1)..M
    BY <1>2, <1>7, <2>2
  <2>3. QED
    BY <1>8, <2>1, <2>2
<1>11. ASSUME NEW a \in L..N, q[a].file = Database
       PROVE  \E i \in L..M : r[i] = q[a]
  <2>1. CASE a <= k
    <3>1. a \in L..k
      BY <1>1, <2>1
    <3>2. QED
      BY <1>2, <1>9, <3>1
  <2>2. CASE a > k /\ a <= stop
    <3>1. a \in (k + 1)..stop
      BY <1>1, <2>2
    <3>2. QED
      BY <1>11, <3>1 DEF Database, Journal
  <2>3. CASE a > stop
    <3>1. a \in (stop + 1)..N
      BY <1>1, <2>3
    <3>2. PICK i \in (k + 1)..M : r[i] = q[a]
      BY <1>2, <1>7, <1>11, <3>1
    <3>3. i \in L..M
      BY <1>1
    <3>4. QED
      BY <3>2, <3>3
  <2>4. a \in Nat
    BY <1>1
  <2>5. QED
    BY <2>1, <2>2, <2>3, <2>4
<1>12. ASSUME NEW i \in L..M, NEW j \in L..M, i < j
       PROVE  \E a, b \in L..N : a < b /\ q[a] = r[i] /\ q[b] = r[j]
  <2>1. CASE i \in L..k /\ j \in L..k
    BY <1>2, <1>9, <1>12, <2>1
  <2>2. CASE i \in L..k /\ j \in (k + 1)..M
    <3>1. PICK b \in (stop + 1)..N : q[b] = r[j]
      BY <1>2, <2>2
    <3>2. b \in L..N /\ i < b /\ i \in L..N /\ q[i] = r[i]
      BY <1>2, <1>7, <1>9, <2>2
    <3>3. QED
      BY <3>1, <3>2
  <2>3. CASE i \in (k + 1)..M
    <3>1. j \in (k + 1)..M
      BY <1>2, <1>12, <2>3
    <3>2. PICK a \in (stop + 1)..N, b \in (stop + 1)..N : a < b /\ q[a] = r[i] /\ q[b] = r[j]
      BY <1>2, <1>12, <2>3, <3>1
    <3>3. QED
      BY <1>7, <3>2
  <2>4. QED
    BY <1>8, <2>1, <2>2, <2>3
<1>13. \A n \in 1..L : It(u, n) = It(s, n)
  <2> SUFFICES ASSUME NEW n \in 1..L, n # 1 PROVE It(u, n) = It(s, n)
    BY <1>4
  <2>1. n - 1 \in 1..k /\ n - 1 \in 1..N /\ n - 1 \in 1..M /\ (n - 1) + 1 = n
    BY <1>1, <1>2, <1>5
  <2>2. QED
    BY <1>1, <1>2, <1>4, <2>1
<1>14. ASSUME NEW n \in Late(u, L)
       PROVE  \E a \in Late(s, L) : It(s, a) = It(u, n) /\ It(s, a).file = Database
  <2>1. PICK a \in L..N : q[a] = r[n - 1] /\ q[a].file = Database
    BY <1>6, <1>10
  <2>2. QED
    BY <1>6, <2>1
<1>15. ASSUME NEW a \in Late(s, L), It(s, a).file = Database
       PROVE  \E n \in Late(u, L) : It(u, n) = It(s, a)
  <2>1. PICK i \in L..M : r[i] = q[a - 1]
    BY <1>6, <1>11, <1>15
  <2>2. QED
    BY <1>6, <2>1
<1>16. ASSUME NEW i \in Late(u, L), NEW j \in Late(u, L), i < j
       PROVE  \E a, b \in Late(s, L) : a < b /\ It(s, a) = It(u, i) /\ It(s, b) = It(u, j)
  <2>1. i - 1 \in L..M /\ j - 1 \in L..M /\ i - 1 < j - 1
    BY <1>1, <1>2, <1>4, <1>6, <1>16 DEF Late
  <2>2. PICK a \in L..N, b \in L..N : a < b /\ q[a] = r[i - 1] /\ q[b] = r[j - 1]
    BY <1>12, <2>1
  <2>3. a + 1 < b + 1
    BY <1>1, <2>2
  <2>4. QED
    BY <1>6, <2>2, <2>3
<1>17. Count(u) \in Nat /\ L <= Count(u)
  BY <1>1, <1>2, <1>4
<1>18. QED
  BY <1>3, <1>13, <1>14, <1>15, <1>16, <1>17 DEF OnlyDatabase

\* What is left without the journal's late items.
LEMMA FilteredTraced ==
  ASSUME NEW s, NEW h, NEW L, Traced(s, h, L),
         NEW u, WellFormed(u), OnlyDatabase(s, u, L), Count(s) > 0,
         Database \in DOMAIN u.memory <=> Database \in DOMAIN s.memory,
         View(u.memory, Database) = View(s.memory, Database),
         Journal \in DOMAIN u.memory <=> Journal \in DOMAIN h[L],
         View(u.memory, Journal) = View(h[L], Journal)
  PROVE  Traced(u, h, L) /\ ~JournalFirst(u, L)
<1>1. Frozen(s, h, L) /\ Orderly(s, L) /\ L \in Nat /\ Count(s) \in Nat /\ L > 0
  BY ItemsAre DEF Traced, Behind, Frozen
<1>2. /\ Count(u) \in Nat /\ L <= Count(u)
      /\ \A n \in 1..L : It(u, n) = It(s, n)
      /\ \A n \in Late(u, L) : \E a \in Late(s, L) :
           It(s, a) = It(u, n) /\ It(s, a).file = Database
      /\ \A a \in Late(s, L) : It(s, a).file = Database =>
           \E n \in Late(u, L) : It(u, n) = It(s, a)
      /\ \A i, j \in Late(u, L) : i < j =>
           \E a, b \in Late(s, L) : a < b /\ It(s, a) = It(u, i) /\ It(s, b) = It(u, j)
  BY DEF OnlyDatabase
<1>3. Frozen(u, h, L)
  <2>1. L \in 1..L
    BY <1>1
  <2>2. QED
    BY <1>1, <1>2, <2>1 DEF Frozen
<1>4. Orderly(u, L)
  <2>1. \A n \in Late(u, L) : It(u, n).kind \in {"create", "write"} /\ It(u, n).file \in Files
    BY <1>1, <1>2 DEF Orderly
  <2>2. ASSUME NEW m \in Late(u, L), NEW n \in Late(u, L), It(u, m).file = It(u, n).file,
               m < n
        PROVE  It(u, m).kind = "create" /\ It(u, n).kind = "write"
    <3>1. PICK a \in Late(s, L), b \in Late(s, L) :
            a < b /\ It(s, a) = It(u, m) /\ It(s, b) = It(u, n)
      BY <1>2, <2>2
    <3>2. a \in Nat /\ b \in Nat
      BY <1>1 DEF Late
    <3>3. QED
      BY <1>1, <2>1, <2>2, <3>1, <3>2 DEF Orderly
  <2>3. \A m, n \in Late(u, L) : m \in Nat /\ n \in Nat /\ (m < n \/ n < m \/ m = n)
    BY <1>1, <1>2 DEF Late
  <2>4. ASSUME NEW m \in Late(u, L), NEW n \in Late(u, L), It(u, m).file = It(u, n).file
        PROVE  /\ It(u, m).kind = It(u, n).kind => m = n
               /\ It(u, m).kind = "create" /\ It(u, n).kind = "write" => m < n
    <3>1. CASE m < n
      BY <2>2, <2>4, <3>1
    <3>2. CASE n < m
      BY <2>2, <2>4, <3>2
    <3>3. CASE m = n
      BY <3>3
    <3>4. QED
      BY <2>3, <3>1, <3>2, <3>3
  <2>5. QED
    BY <2>1, <2>4 DEF Orderly
<1>5. \A n \in Late(u, L) : It(u, n).file = Database
  BY <1>2
<1>6. \A k : ~LateOf(u, L, k, Journal)
  BY <1>5 DEF LateOf, Is, Database, Journal
<1>7. \A k : LateOf(u, L, k, Database) <=> LateOf(s, L, k, Database)
  BY <1>2 DEF LateOf, Is
<1>8. FileBehind(u, L, h[L], Database)
  <2>1. FileBehind(s, L, h[L], Database)
    BY DEF Traced, Behind, Files
  <2>2. ASSUME NEW n \in Late(u, L), Is(u, n, "write", Database)
        PROVE  /\ Database \in DOMAIN u.memory
               /\ View(u.memory, Database) = Over(It(u, n).data, View(h[L], Database))
    <3>1. PICK a \in Late(s, L) : It(s, a) = It(u, n)
      BY <1>2
    <3>2. Is(s, a, "write", Database)
      BY <2>2, <3>1 DEF Is
    <3>3. /\ Database \in DOMAIN s.memory
          /\ View(s.memory, Database) = Over(It(s, a).data, View(h[L], Database))
      BY <2>1, <3>2 DEF FileBehind
    <3>4. QED
      BY <3>1, <3>3
  <2>3. QED
    BY <1>7, <2>1, <2>2 DEF FileBehind
<1>9. FileBehind(u, L, h[L], Journal)
  BY <1>6 DEF FileBehind, LateOf
<1>10. Behind(u, L, h[L])
  BY <1>4, <1>8, <1>9 DEF Behind, Files
<1>11. ~JournalFirst(u, L)
  BY <1>6 DEF JournalFirst, LateOf
<1>12. QED
  BY <1>3, <1>10, <1>11 DEF Traced

\* Without a journal the database is found as it is.
LEMMA NoJournal ==
  ASSUME NEW D, NEW C, Spans(D), \A p \in 1..MaxPages : Page(D, p) = Page(C, p)
  PROVE  /\ ~HotC(Empty) /\ Sound(D, Empty) /\ Covers(D, Empty) /\ Exact(D, Empty, C)
<1>1. ~HotC(Empty)
  BY EmptyIs DEF HotC
<1>2. QED
  BY <1>1 DEF Sound, Covers, Exact, Found

\* Where the deletion of the journal stops: at its late creation, or at the
\* place behind which items are late.
LEMMA StopsWhere ==
  ASSUME NEW s, NEW h, NEW L, Traced(s, h, L), Journal \in DOMAIN s.memory,
         NEW q, q = s.queue, NEW stop, stop = StopsAt(q, Journal)
  PROVE  /\ stop \in Nat /\ stop <= Len(q)
         /\ LateOf(s, L, "create", Journal) =>
              /\ stop >= L /\ q[stop].kind = "create" /\ q[stop].file = Journal
              /\ \A i \in L..(stop - 1) : q[i].file = Database
         /\ ~LateOf(s, L, "create", Journal) /\ Count(s) > 0 =>
              stop = L - 1 /\ (stop = 0 \/ ~IsOwn(q[stop], Journal))
         /\ \A i \in (stop + 1)..Len(q) :
              L <= i /\ q[i].file = Journal => q[i].kind = "write"
<1> DEFINE N == Len(q)
<1>1. /\ q \in Seq(WorkItems) /\ Count(s) \in Nat
      /\ N \in Nat /\ (Count(s) > 0 => N = Count(s) - 1) /\ (Count(s) = 0 => N = 0)
      /\ L \in Nat /\ L <= Count(s) /\ (Count(s) > 0 => L > 0)
      /\ Orderly(s, L) /\ Frozen(s, h, L)
      /\ \A i \in 1..N : q[i] = It(s, i + 1)
  <2>1. /\ WellFormed(s) /\ q \in Seq(WorkItems)
        /\ Orderly(s, L) /\ Frozen(s, h, L) /\ L \in Nat /\ L <= Count(s) /\ (Count(s) > 0 => L > 0)
    BY DEF Traced, WellFormed, States, Behind, Frozen
  <2>2. /\ Count(s) \in Nat
        /\ Len(s.queue) \in Nat /\ (Count(s) > 0 => Len(s.queue) = Count(s) - 1)
        /\ (Count(s) = 0 => Len(s.queue) = 0)
        /\ \A i \in 1..Len(s.queue) : s.queue[i] = It(s, i + 1)
    BY <2>1, ItemsAre
  <2>3. QED
    BY <2>1, <2>2
<1>2. /\ stop \in 0..N
      /\ \A i \in Stops(q, Journal) : i \in 1..N /\ i <= stop
      /\ stop > 0 => stop \in Stops(q, Journal)
  BY <1>1, StopsAtIs
<1>3. \A i : i \in Stops(q, Journal) <=>
               i \in 1..N /\ (IsOwn(q[i], Journal) \/ q[i].kind \in {"truncate", "close"})
  BY <1>1 DEF Stops
<1> HIDE DEF N
\* late items
<1>4. \A i \in 1..N : L <= i =>
        /\ i + 1 \in Late(s, L) /\ q[i] = It(s, i + 1)
        /\ q[i].kind \in {"create", "write"} /\ q[i].file \in Files
  <2>1. \A i \in 1..N : L <= i => i + 1 \in Late(s, L) /\ q[i] = It(s, i + 1)
    BY <1>1 DEF Late
  <2>2. QED
    BY <1>1, <2>1 DEF Orderly
<1>5. \A i \in 1..N : L <= i /\ i \in Stops(q, Journal) =>
        q[i].kind = "create" /\ q[i].file = Journal
  BY <1>3, <1>4 DEF IsOwn
<1>6. ASSUME LateOf(s, L, "create", Journal)
      PROVE  /\ stop >= L /\ q[stop].kind = "create" /\ q[stop].file = Journal
             /\ \A i \in L..(stop - 1) : q[i].file = Database
             /\ \A i \in (stop + 1)..N : q[i].file = Journal => q[i].kind = "write"
  <2>1. PICK c \in Late(s, L) : Is(s, c, "create", Journal)
    BY <1>6 DEF LateOf
  <2>2. c - 1 \in 1..N /\ L <= c - 1 /\ (c - 1) + 1 = c /\ c \in Nat
    BY <1>1, <2>1 DEF Late
  <2>3. q[c - 1] = It(s, c)
    BY <1>1, <2>2
  <2>4. c - 1 \in Stops(q, Journal)
    BY <1>3, <2>1, <2>2, <2>3 DEF IsOwn, Is
  <2>5. stop >= c - 1 /\ stop > 0 /\ stop >= L /\ stop \in 1..N /\ stop \in Stops(q, Journal)
    BY <1>1, <1>2, <2>2, <2>4
  <2>6. q[stop].kind = "create" /\ q[stop].file = Journal /\ stop + 1 \in Late(s, L)
        /\ q[stop] = It(s, stop + 1)
    BY <1>4, <1>5, <2>5
  <2>7. \A i \in 1..N : L <= i /\ q[i].file = Journal /\ i # stop =>
          q[i].kind = "write" /\ stop < i
    <3> SUFFICES ASSUME NEW i \in 1..N, L <= i, q[i].file = Journal, i # stop
                 PROVE  q[i].kind = "write" /\ stop < i
      OBVIOUS
    <3>1. i + 1 \in Late(s, L) /\ q[i] = It(s, i + 1) /\ q[i].kind \in {"create", "write"}
      BY <1>4
    <3>2. i + 1 # stop + 1
      BY <2>5
    <3>3. q[i].kind # "create"
      BY <1>1, <2>6, <3>1, <3>2 DEF Orderly
    <3>4. stop + 1 < i + 1
      BY <1>1, <2>6, <3>1, <3>3 DEF Orderly
    <3>5. QED
      BY <2>5, <3>1, <3>3, <3>4
  <2>8. \A i \in L..(stop - 1) : q[i].file = Database
    <3> SUFFICES ASSUME NEW i \in L..(stop - 1) PROVE q[i].file = Database
      OBVIOUS
    <3>1. i \in 1..N /\ L <= i /\ i # stop /\ ~(stop < i)
      <4>1. L \in Nat /\ L >= 1 /\ stop \in Nat /\ stop <= N
        BY <1>1, <2>2, <2>5
      <4>2. QED
        BY <4>1, <1>1
    <3>2. q[i].file # Journal /\ q[i].file \in Files
      BY <1>4, <2>7, <3>1
    <3>3. QED
      BY <3>2 DEF Files
  <2>9. \A i \in (stop + 1)..N : i \in 1..N /\ L <= i /\ i # stop
    BY <1>1, <2>5
  <2>10. QED
    BY <2>5, <2>6, <2>7, <2>8, <2>9
<1>7. ASSUME ~LateOf(s, L, "create", Journal)
      PROVE  /\ Count(s) > 0 => stop = L - 1 /\ (stop = 0 \/ ~IsOwn(q[stop], Journal))
             /\ \A i \in (stop + 1)..N : L <= i /\ q[i].file = Journal => q[i].kind = "write"
  <2>1. \A i \in 1..N : L <= i => ~(q[i].kind = "create" /\ q[i].file = Journal)
    BY <1>4, <1>7 DEF LateOf, Is
  <2>2. \A i \in 1..N : L <= i => i \notin Stops(q, Journal)
    BY <1>5, <2>1
  <2>3. stop <= L - 1 \/ Count(s) = 0
    BY <1>1, <1>2, <2>2
  <2>4. ASSUME L > 1 PROVE stop = L - 1 /\ ~IsOwn(q[stop], Journal)
    <3>1. L - 1 \in 1..N /\ (L - 1) + 1 = L
      BY <1>1, <2>4
    <3>2. q[L - 1] = It(s, L) /\ Barrier(It(s, L))
      BY <1>1, <2>4, <3>1 DEF Frozen
    <3>3. L - 1 \in Stops(q, Journal)
      BY <1>3, <3>1, <3>2 DEF Barrier, IsOwn
    <3>4. stop = L - 1
      BY <1>1, <1>2, <2>3, <2>4, <3>3
    <3>5. ASSUME It(s, L).kind = "delete", It(s, L).file = Journal PROVE FALSE
      <4>1. /\ L \in 1..L /\ h[L] = AfterItem(h[L - 1], It(s, L))
            /\ h[L - 1] \in FileMaps /\ h[L] \in FileMaps
        BY <1>1, <2>4 DEF Frozen
      <4>2. It(s, L) \in WorkItems
        <5>1. q[L - 1] \in WorkItems
          BY <1>1, <3>1 DEF N
        <5>2. QED
          BY <3>2, <5>1
      <4>3. Journal \notin DOMAIN h[L]
        <5>1. It(s, L).kind = "delete" /\ It(s, L).file \in Files
          BY <3>5 DEF Files
        <5>2. PICK x \in WorkItems, P \in FileMaps : x = It(s, L) /\ P = h[L - 1]
          BY <4>1, <4>2
        <5>3. x.kind = "delete" /\ x.file \in Files /\ h[L] = AfterItem(P, x)
          BY <4>1, <5>1, <5>2
        <5>4. DOMAIN AfterItem(P, x) = DOMAIN P \ {x.file}
          BY <5>3, ItemRuns
        <5>5. QED
          BY <3>5, <5>2, <5>3, <5>4
      <4>4. FileBehind(s, L, h[L], Journal)
        BY DEF Traced, Behind, Files
      <4>5. QED
        BY <1>7, <4>3, <4>4 DEF FileBehind
    <3>6. QED
      BY <3>2, <3>4, <3>5 DEF Barrier, IsOwn
  <2>5. ASSUME L = 1 PROVE stop = 0
    BY <1>1, <1>2, <2>3, <2>5
  <2>6. \A i \in (stop + 1)..N : L <= i => i \in 1..N
    BY <1>2
  <2>7. \A i \in (stop + 1)..N : L <= i /\ q[i].file = Journal => q[i].kind = "write"
    BY <1>4, <2>1, <2>6
  <2>8. Count(s) > 0 => L = 1 \/ L > 1
    BY <1>1
  <2>9. QED
    BY <2>4, <2>5, <2>7, <2>8
<1>8. stop \in Nat /\ stop <= N
  BY <1>1, <1>2
<1>9. CASE LateOf(s, L, "create", Journal)
  BY <1>6, <1>8, <1>9 DEF N
<1>10. CASE ~LateOf(s, L, "create", Journal)
  BY <1>7, <1>8, <1>10 DEF N
<1>11. QED
  BY <1>9, <1>10

\* The deletion of the journal is queued behind the items there are.
LEMMA DeletionIs ==
  ASSUME NEW u, NEW h, NEW L, Traced(u, h, L),
         NEW F \in FileMaps, F = Without(u.memory, Journal)
  PROVE  LET t == Submitted(WithMemory(u, F), Item("delete", Journal, Empty, 0))
         IN  /\ t.memory = F /\ Count(t) = Count(u) + 1
             /\ It(t, Count(t)) = Item("delete", Journal, Empty, 0)
             /\ \A n \in 1..Count(u) : It(t, n) = It(u, n)
<1> DEFINE x == Item("delete", Journal, Empty, 0)
           t == Submitted(WithMemory(u, F), x)
<1>1. x \in WorkItems /\ Barrier(x) /\ x.kind = "delete" /\ x.file = Journal
  BY EmptyIs DEF Item, WorkItems, Kinds, Files, Barrier
<1>2. F = AfterItem(u.memory, x)
  BY <1>1 DEF AfterItem
<1> HIDE DEF x
<1>3. /\ t.memory = F /\ Count(t) = Count(u) + 1 /\ It(t, Count(t)) = x
      /\ \A n \in 1..Count(u) : It(t, n) = It(u, n)
  BY <1>1, <1>2, BarrierTraced
<1>4. QED
  BY <1>3 DEF t, x

\* The deletion is queued behind the items that are left.
LEMMA DeletionQueued ==
  ASSUME NEW u, NEW h, NEW L, Traced(u, h, L),
         NEW C, NEW Cs, NEW A, C \in Cs,
         NEW D, D = View(u.memory, Database), Spans(D),
         \A p \in 1..MaxPages : Page(D, p) = Page(C, p),
         \A n \in 0..Count(u) : Good(Whole(u, h, L)[n], Cs, A),
         NEW F \in FileMaps, F = Without(u.memory, Journal)
  PROVE  LET t == Submitted(WithMemory(u, F), Item("delete", Journal, Empty, 0))
         IN  /\ Core(t, h[0], C, Cs, A, A) /\ t.memory = F
             /\ Count(t) = Count(u) + 1
             /\ It(t, Count(t)) = Item("delete", Journal, Empty, 0)
             /\ \A n \in 1..Count(u) : It(t, n) = It(u, n)
<1> DEFINE x == Item("delete", Journal, Empty, 0)
           t == Submitted(WithMemory(u, F), x)
           g == Ended(u, h, L, F)
           M == Count(t)
<1>1. /\ u.memory \in FileMaps /\ Count(u) \in Nat /\ L \in Nat
  BY ItemsAre DEF Traced, Frozen
<1>2. /\ x \in WorkItems /\ Barrier(x) /\ x.kind = "delete" /\ x.file = Journal
  BY EmptyIs DEF Item, WorkItems, Kinds, Files, Barrier
<1>3. F = AfterItem(u.memory, x)
  BY <1>2 DEF AfterItem
<1>4. View(F, Journal) = Empty /\ View(F, Database) = D
  BY <1>1, WithoutIs DEF Files, Database, Journal
<1> HIDE DEF x
<1>5. /\ Traced(t, g, M) /\ t.memory = F
      /\ M = Count(u) + 1 /\ It(t, M) = x
      /\ \A n \in 1..Count(u) : It(t, n) = It(u, n)
      /\ \A n \in 0..Count(u) : g[n] = Whole(u, h, L)[n]
      /\ g[M] = F /\ Late(t, M) = {}
  BY <1>2, <1>3, BarrierTraced
<1> HIDE DEF t, g
<1>6. /\ ~HotC(Empty) /\ Sound(D, Empty) /\ Covers(D, Empty) /\ Exact(D, Empty, C)
  BY NoJournal
<1>7. Phase(D, Empty, Empty, C, A, A)
  BY <1>6, FreshPhase
<1>8. GoodPair(D, Empty, Cs, A)
  BY <1>6, ExactIsGood
<1>9. ASSUME NEW n \in 0..M PROVE Good(g[n], Cs, A)
  <2>1. CASE n \in 0..Count(u)
    BY <1>5, <2>1
  <2>2. CASE n = M
    BY <1>4, <1>5, <1>8, <2>2 DEF Good
  <2>3. QED
    BY <1>1, <1>5, <2>1, <2>2
<1>10. ~JournalFirst(t, M)
  BY <1>5 DEF JournalFirst
<1>11. Kept(t, g, M, C, Cs, A, A)
  BY <1>4, <1>5, <1>7, <1>9, <1>10 DEF Kept
<1>12. g[0] = h[0]
  <2>1. 0 \in 0..Count(u) /\ 0 \in 0..L
    BY <1>1
  <2>2. QED
    BY <1>5, <2>1, WholeIs
<1>13. QED
  BY <1>5, <1>11, <1>12 DEF Core, t, x

\* A state is the record of its fields, also when two of them change.
LEMMA StateIs ==
  ASSUME NEW s \in States, NEW F, NEW r
  PROVE  [[s EXCEPT !.memory = F] EXCEPT !.queue = r]
           = [memory |-> F, queue |-> r, running |-> s.running]
<1> DEFINE t == [s EXCEPT !.memory = F]
           u == [t EXCEPT !.queue = r]
<1>1. DOMAIN s = {"memory", "queue", "running"}
  BY DEF States
<1>2. /\ DOMAIN t = {"memory", "queue", "running"}
      /\ t.memory = F /\ t.running = s.running
  BY <1>1
<1> HIDE DEF t
<1>3. u = [memory |-> F, queue |-> r, running |-> s.running]
  BY <1>2
<1>4. QED
  BY <1>3 DEF t

\* Of the files only the journal is gone.
Unjournaled(s, t) ==
  /\ DOMAIN t.memory = DOMAIN s.memory \ {Journal}
  /\ View(t.memory, Database) = View(s.memory, Database)
  /\ View(t.memory, Journal) = Empty

\* Once the database is as it was committed, or changed back, the journal is
\* deleted.
LEMMA DeletedSafe ==
  ASSUME NEW s, NEW h, NEW L, Traced(s, h, L), Unclosed(s),
         Database \in DOMAIN s.memory, Journal \in DOMAIN s.memory,
         NEW C, NEW Cs, NEW A, C \in Cs,
         \A n \in 0..L : Good(h[n], Cs, A),
         NEW D, D = View(s.memory, Database), Spans(D),
         \A p \in 1..MaxPages : Page(D, p) = Page(C, p),
         GoodPair(D, View(h[L], Journal), Cs, A)
  PROVE  LET t == Deleted(s, Journal)
         IN  Safe(t, h[0], C, Cs, A, A) /\ Unjournaled(s, t)
<1> USE DEF Unjournaled
<1> DEFINE q == s.queue
           N == Len(q)
           stop == StopsAt(q, Journal)
           rest == WithoutWrites(SubSeq(q, stop + 1, Len(q)), Journal)
           F == Without(s.memory, Journal)
           t == Deleted(s, Journal)
           x == Item("delete", Journal, Empty, 0)
           Left(k) == SubSeq(q, 1, k) \o rest
           With(G, k) == [memory |-> G, queue |-> Left(k), running |-> s.running]
<1>1. /\ WellFormed(s) /\ s \in States /\ q \in Seq(WorkItems) /\ N \in Nat
      /\ s.memory \in FileMaps
      /\ L \in Nat /\ L <= Count(s) /\ (Count(s) > 0 => L > 0) /\ Count(s) \in Nat
      /\ (Count(s) = 0 => q = <<>>) /\ h[L] \in FileMaps
      /\ s.running \in WorkItems \cup {NoItem}
  <2>1. /\ WellFormed(s) /\ s \in States /\ q \in Seq(WorkItems)
        /\ s.running \in WorkItems \cup {NoItem}
        /\ L \in Nat /\ L <= Count(s) /\ (Count(s) > 0 => L > 0)
        /\ s.running = NoItem => s.queue = <<>>
        /\ h[L] \in FileMaps
    BY DEF Traced, WellFormed, States, Frozen
  <2>2. QED
    BY <2>1, ItemsAre
<1>2. /\ F \in FileMaps /\ DOMAIN F = DOMAIN s.memory \ {Journal}
      /\ View(F, Journal) = Empty /\ View(F, Database) = D
  BY <1>1, WithoutIs DEF Files, Database, Journal
<1>3. /\ stop \in Nat /\ stop <= N
      /\ LateOf(s, L, "create", Journal) =>
           /\ stop >= L /\ q[stop].kind = "create" /\ q[stop].file = Journal
           /\ \A i \in L..(stop - 1) : q[i].file = Database
      /\ ~LateOf(s, L, "create", Journal) /\ Count(s) > 0 =>
           stop = L - 1 /\ (stop = 0 \/ ~IsOwn(q[stop], Journal))
      /\ \A i \in (stop + 1)..N : L <= i /\ q[i].file = Journal => q[i].kind = "write"
  BY StopsWhere
<1>4. \A k \in Nat : k <= stop => Shorter(q, Left(k), k, stop)
  BY <1>1, <1>3, ShorterIs
<1>5. ASSUME NEW r
      PROVE  [[s EXCEPT !.memory = F] EXCEPT !.queue = r]
               = [memory |-> F, queue |-> r, running |-> s.running]
  BY <1>1, StateIs
<1>6. t = IF stop = 0 \/ ~IsOwn(q[stop], Journal)
          THEN Submitted(With(F, stop), x)
          ELSE With(F, IF q[stop].kind = "create" THEN stop - 1 ELSE stop)
  <2> DEFINE k == IF q[stop].kind = "create" THEN stop - 1 ELSE stop
  <2>1. t = IF stop = 0 \/ ~IsOwn(q[stop], Journal)
            THEN Submitted([[s EXCEPT !.memory = F] EXCEPT !.queue = Left(stop)], x)
            ELSE [[s EXCEPT !.memory = F] EXCEPT !.queue = Left(k)]
    BY DEF Deleted
  <2>2. [[s EXCEPT !.memory = F] EXCEPT !.queue = Left(stop)] = With(F, stop)
    BY <1>5
  <2>3. [[s EXCEPT !.memory = F] EXCEPT !.queue = Left(k)] = With(F, k)
    BY <1>5
  <2> HIDE DEF t, Left, F, x, rest, stop, q, N, With
  <2>4. QED
    BY <2>1, <2>2, <2>3
<1> HIDE DEF t, Left, F, x, rest, stop, q, N
<1>7. CASE LateOf(s, L, "create", Journal)
  <2>1. /\ stop >= L /\ L > 0 /\ IsOwn(q[stop], Journal) /\ q[stop].file = Journal
        /\ Count(s) > 0 /\ stop # 0
        /\ t = With(F, stop - 1)
        /\ stop - 1 \in Nat /\ L - 1 <= stop - 1
    <3>1. Count(s) > 0
      BY <1>1, <1>7 DEF LateOf, Late
    <3>2. /\ stop >= L /\ L > 0 /\ stop # 0 /\ stop - 1 \in Nat /\ L - 1 <= stop - 1
          /\ q[stop].kind = "create" /\ q[stop].file = Journal
      BY <1>1, <1>3, <1>7, <3>1
    <3>3. IsOwn(q[stop], Journal)
      BY <3>2 DEF IsOwn
    <3>4. QED
      BY <1>6, <3>1, <3>2, <3>3
  <2>2. /\ Shorter(q, Left(stop - 1), stop - 1, stop)
        /\ \A i \in L..(stop - 1) : q[i].file = Database
        /\ \A i \in ((stop - 1) + 1)..stop : q[i].file = Journal
        /\ \A i \in (stop + 1)..N : q[i].file = Journal => q[i].kind = "write"
    <3>1. \A i \in ((stop - 1) + 1)..stop : i = stop
      BY <1>3, <2>1
    <3>2. \A i \in (stop + 1)..N : L <= i
      BY <1>1, <1>3, <2>1
    <3>3. stop - 1 <= stop
      BY <1>3
    <3>4. QED
      BY <1>3, <1>4, <1>7, <2>1, <3>1, <3>2, <3>3
  <2>3. WellFormed(t) /\ OnlyDatabase(s, t, L)
    <3>1. PICK k, e, r :
            /\ k \in Nat /\ e \in Nat
            /\ k = stop - 1 /\ e = stop /\ r = Left(stop - 1)
      BY <1>3, <2>1
    <3>2. t = [memory |-> F, queue |-> r, running |-> s.running]
      BY <2>1, <3>1
    <3>3. /\ L - 1 <= k /\ k <= e /\ e <= Len(q) /\ Shorter(q, r, k, e)
          /\ \A i \in L..k : q[i].file = Database
          /\ \A i \in (k + 1)..e : q[i].file = Journal
          /\ \A i \in (e + 1)..Len(q) : q[i].file = Journal => q[i].kind = "write"
      <4>1. Len(q) = N /\ e = k + 1
        BY <2>1, <3>1 DEF N
      <4>2. Shorter(q, r, k, e)
        BY <2>2, <3>1
      <4>3. \A i \in L..k : q[i].file = Database
        BY <2>2, <3>1
      <4>4. \A i \in (k + 1)..e : q[i].file = Journal
        BY <2>2, <3>1
      <4>5. \A i \in (e + 1)..Len(q) : q[i].file = Journal => q[i].kind = "write"
        BY <2>2, <3>1, <4>1
      <4>6. L - 1 <= k /\ k <= e /\ e <= Len(q)
        BY <1>1, <1>3, <2>1, <3>1, <4>1
      <4>7. QED
        BY <4>2, <4>3, <4>4, <4>5, <4>6
    <3>4. QED
      BY <1>2, <2>1, <3>1, <3>2, <3>3, QueueFiltered DEF q
  <2>4. t.memory = F
    BY <2>1
  <2>5. /\ Journal \notin DOMAIN h[L] /\ View(h[L], Journal) = Empty
    <3>1. FileBehind(s, L, h[L], Journal)
      BY DEF Traced, Behind, Files
    <3>2. QED
      BY <1>7, <3>1 DEF FileBehind, View
  <2>6. Traced(t, h, L) /\ ~JournalFirst(t, L)
    <3>1. /\ Database \in DOMAIN t.memory <=> Database \in DOMAIN s.memory
          /\ View(t.memory, Database) = View(s.memory, Database)
          /\ Journal \in DOMAIN t.memory <=> Journal \in DOMAIN h[L]
          /\ View(t.memory, Journal) = View(h[L], Journal)
      BY <1>2, <2>4, <2>5 DEF Database, Journal
    <3>2. QED
      BY <2>1, <2>3, <3>1, FilteredTraced
  <2>7. Phase(D, Empty, Empty, C, A, A)
    BY NoJournal, FreshPhase
  <2>8. Kept(t, h, L, C, Cs, A, A)
    BY <1>2, <2>4, <2>5, <2>6, <2>7 DEF Kept
  <2>9. Unclosed(t)
    <3>1. \A n \in 1..Count(t) : n \in 1..L \/ n \in Late(t, L)
      BY <1>1, <2>3 DEF Late, OnlyDatabase
    <3>2. \A n \in Late(s, L) : n \in 1..Count(s)
      BY <1>1 DEF Late
    <3>3. \A n \in 1..L : n \in 1..Count(s)
      BY <1>1
    <3>4. QED
      BY <2>3, <3>1, <3>2, <3>3 DEF Unclosed, OnlyDatabase
  <2>10. Database \in DOMAIN t.memory
    BY <1>2, <2>4 DEF Database, Journal
  <2>11. QED
    BY <1>2, <2>4, <2>8, <2>9, <2>10 DEF Safe, Core, t, F
<1>8. CASE ~LateOf(s, L, "create", Journal) /\ Count(s) > 0
  <2> DEFINE JL == View(h[L], Journal)
             R == Put(s.memory, Journal, JL)
             u == With(R, stop)
  <2>1. /\ stop = L - 1 /\ L > 0 /\ t = Submitted(With(F, stop), x)
    BY <1>1, <1>3, <1>6, <1>8
  <2>2. /\ R \in FileMaps /\ DOMAIN R = DOMAIN s.memory
        /\ View(R, Journal) = JL /\ View(R, Database) = D
    <3>1. JL \in Contents
      BY <1>1, ViewIs
    <3> HIDE DEF JL
    <3>2. QED
      BY <1>1, <3>1, PutIs DEF Files, Database, Journal
  <2>3. /\ Shorter(q, Left(stop), stop, stop)
        /\ \A i \in L..stop : q[i].file = Database
        /\ \A i \in (stop + 1)..stop : q[i].file = Journal
        /\ \A i \in (stop + 1)..N : q[i].file = Journal => q[i].kind = "write"
    <3>1. \A i \in (stop + 1)..N : L <= i
      BY <1>1, <2>1
    <3>2. \A i \in L..stop : FALSE
      BY <1>1, <2>1
    <3>3. \A i \in (stop + 1)..stop : FALSE
      BY <1>3
    <3>4. stop <= stop
      BY <1>3
    <3>5. QED
      BY <1>3, <1>4, <3>1, <3>2, <3>3, <3>4
  <2> HIDE DEF R, u
  <2>4. WellFormed(u) /\ OnlyDatabase(s, u, L)
    <3>1. PICK k, r : k \in Nat /\ k = stop /\ r = Left(stop)
      BY <1>3
    <3>2. u = [memory |-> R, queue |-> r, running |-> s.running]
      BY <3>1 DEF u
    <3>3. /\ L - 1 <= k /\ k <= k /\ k <= Len(q) /\ Shorter(q, r, k, k)
          /\ \A i \in L..k : q[i].file = Database
          /\ \A i \in (k + 1)..k : q[i].file = Journal
          /\ \A i \in (k + 1)..Len(q) : q[i].file = Journal => q[i].kind = "write"
      BY <1>1, <1>3, <2>1, <2>3, <3>1 DEF N
    <3>4. QED
      BY <1>8, <2>2, <3>1, <3>2, <3>3, QueueFiltered DEF q
  <2>5. u.memory = R /\ WithMemory(u, F) = With(F, stop)
    BY DEF u, WithMemory
  <2>6. Journal \in DOMAIN h[L]
    <3>1. FileBehind(s, L, h[L], Journal)
      BY DEF Traced, Behind, Files
    <3>2. QED
      BY <1>8, <3>1 DEF FileBehind
  <2>7. Traced(u, h, L) /\ ~JournalFirst(u, L)
    <3>1. /\ Database \in DOMAIN u.memory <=> Database \in DOMAIN s.memory
          /\ View(u.memory, Database) = View(s.memory, Database)
          /\ Journal \in DOMAIN u.memory <=> Journal \in DOMAIN h[L]
          /\ View(u.memory, Journal) = View(h[L], Journal)
      BY <2>2, <2>5, <2>6
    <3>2. QED
      BY <1>8, <2>4, <3>1, FilteredTraced
  <2>8. ASSUME NEW n \in 0..Count(u) PROVE Good(Whole(u, h, L)[n], Cs, A)
    <3>1. L <= Count(u) /\ Count(u) \in Nat
      BY <2>4 DEF OnlyDatabase
    <3>2. CASE n <= L
      <4>1. n \in 0..L /\ Whole(u, h, L)[n] = h[n]
        BY <1>1, <2>7, <3>2, WholeIs
      <4>2. QED
        BY <4>1
    <3>3. CASE n > L
      <4>1. n \in L..Count(u)
        BY <1>1, <3>1, <3>3
      <4>2. Whole(u, h, L)[n] = Reached(u, h[L], n)
        BY <2>7, <4>1, WholeIs
      <4> DEFINE X == View(Reached(u, h[L], n), Database)
                 Y == View(Reached(u, h[L], n), Journal)
                 DL == View(h[L], Database)
      <4>3. \/ X = DL /\ Y = JL
            \/ X = D /\ Y = JL
        <5>1. \/ X = View(h[L], Database) /\ Y = View(h[L], Journal)
              \/ X = View(u.memory, Database) /\ Y = View(h[L], Journal)
              \/ X = View(u.memory, Database) /\ Y = View(u.memory, Journal)
              \/ X = View(h[L], Database) /\ Y = View(u.memory, Journal) /\ JournalFirst(u, L)
          BY <2>7, <4>1, ReachedPairs
        <5>2. QED
          BY <2>2, <2>5, <2>7, <5>1
      <4>4. GoodPair(DL, JL, Cs, A)
        <5>1. L \in 0..L
          BY <1>1
        <5>2. QED
          BY <5>1 DEF Good
      <4>5. GoodPair(X, Y, Cs, A)
        <5> HIDE DEF X, Y, DL
        <5>1. QED
          BY <4>3, <4>4
      <4>6. QED
        BY <4>2, <4>5 DEF Good
    <3>4. QED
      BY <1>1, <3>1, <3>2, <3>3
  <2>9. F = Without(u.memory, Journal)
    <3>1. Without(R, Journal) = Without(s.memory, Journal)
      BY <2>2 DEF Without, R, Put
    <3>2. QED
      BY <2>5, <3>1 DEF F
  <2>10. /\ Core(t, h[0], C, Cs, A, A) /\ t.memory = F
         /\ Count(t) = Count(u) + 1 /\ It(t, Count(t)) = x
         /\ \A n \in 1..Count(u) : It(t, n) = It(u, n)
    <3>1. t = Submitted(WithMemory(u, F), Item("delete", Journal, Empty, 0))
      BY <2>1, <2>5 DEF x
    <3>2. D = View(u.memory, Database)
      BY <2>2, <2>5
    <3> DEFINE y == Item("delete", Journal, Empty, 0)
    <3>3. F \in FileMaps
      BY <1>2
    <3> HIDE DEF F, t, Left, With
    <3>4. LET z == Submitted(WithMemory(u, F), y)
          IN  /\ Core(z, h[0], C, Cs, A, A) /\ z.memory = F
              /\ Count(z) = Count(u) + 1
              /\ It(z, Count(z)) = y
              /\ \A n \in 1..Count(u) : It(z, n) = It(u, n)
      <4>1. Traced(u, h, L)
        BY <2>7
      <4>2. \A n \in 0..Count(u) : Good(Whole(u, h, L)[n], Cs, A)
        BY <2>8
      <4>3. F = Without(u.memory, Journal) /\ D = View(u.memory, Database)
        BY <2>9, <3>2
      <4>4. /\ C \in Cs /\ Spans(D)
            /\ \A p \in 1..MaxPages : Page(D, p) = Page(C, p)
        OBVIOUS
      <4> HIDE DEF y
      <4>5. PICK v, G : v = u /\ G = F
        OBVIOUS
      <4>6. /\ Traced(v, h, L) /\ G \in FileMaps
            /\ \A n \in 0..Count(v) : Good(Whole(v, h, L)[n], Cs, A)
            /\ G = Without(v.memory, Journal) /\ D = View(v.memory, Database)
        BY <3>3, <4>1, <4>2, <4>3, <4>5
      <4>7. LET z == Submitted(WithMemory(v, G), y)
            IN  /\ Core(z, h[0], C, Cs, A, A) /\ z.memory = G
                /\ Count(z) = Count(v) + 1
                /\ It(z, Count(z)) = y
                /\ \A n \in 1..Count(v) : It(z, n) = It(v, n)
        <5>1. /\ Traced(v, h, L) /\ C \in Cs /\ Spans(D)
              /\ D = View(v.memory, Database)
              /\ \A p \in 1..MaxPages : Page(D, p) = Page(C, p)
              /\ \A n \in 0..Count(v) : Good(Whole(v, h, L)[n], Cs, A)
              /\ G \in FileMaps /\ G = Without(v.memory, Journal)
          BY <4>4, <4>6
        <5>2. PICK z : z = Submitted(WithMemory(v, G), y)
          OBVIOUS
        <5>3. Core(z, h[0], C, Cs, A, A)
          BY <5>1, <5>2, DeletionQueued DEF y
        <5>4. /\ z.memory = G /\ Count(z) = Count(v) + 1
              /\ It(z, Count(z)) = y
              /\ \A n \in 1..Count(v) : It(z, n) = It(v, n)
          BY <5>1, <5>2, DeletionIs DEF y
        <5>5. QED
          BY <5>2, <5>3, <5>4
      <4>8. QED
        BY <4>5, <4>7
    <3>5. x = y
      BY DEF x
    <3>6. QED
      BY <3>1, <3>4, <3>5
  <2>11. Unclosed(t)
    <3>1. \A n \in 1..Count(t) : n \in 1..L \/ n \in Late(u, L) \/ n = Count(t)
      <4>1. PICK a, b : a = Count(u) /\ b = Count(t)
        OBVIOUS
      <4>2. a \in Nat /\ L <= a /\ b = a + 1 /\ L \in Nat
        BY <1>1, <2>4, <2>10, <4>1 DEF OnlyDatabase
      <4>3. \A n \in 1..b : n \in 1..L \/ n \in (L + 1)..a \/ n = b
        BY <4>2
      <4>4. QED
        BY <4>1, <4>3 DEF Late
    <3>2. \A n \in Late(u, L) : n \in 1..Count(u)
      BY <1>1, <2>4 DEF Late, OnlyDatabase
    <3>3. \A n \in 1..L : n \in 1..Count(u) /\ n \in 1..Count(s)
      BY <1>1, <2>4 DEF OnlyDatabase
    <3>4. \A n \in Late(s, L) : n \in 1..Count(s)
      BY <1>1 DEF Late
    <3>5. x.kind # "close"
      BY DEF x, Item
    <3>6. QED
      BY <2>4, <2>10, <3>1, <3>2, <3>3, <3>4, <3>5 DEF Unclosed, OnlyDatabase
  <2>12. Database \in DOMAIN t.memory
    BY <1>2, <2>10 DEF Database, Journal
  <2>13. QED
    BY <1>2, <2>10, <2>11, <2>12 DEF Safe, t, F
<1>9. CASE Count(s) = 0
  <2>1. q = <<>> /\ N = 0 /\ stop = 0 /\ L = 0
    <3>1. q = <<>> /\ L = 0
      BY <1>1, <1>9
    <3>2. N = 0
      BY <3>1 DEF N
    <3>3. QED
      BY <1>3, <3>1, <3>2
  <2>2. Left(0) = <<>>
    <3>1. Shorter(q, Left(0), 0, 0)
      BY <1>4, <2>1
    <3>2. Left(0) \in Seq(WorkItems) /\ \A i \in (0 + 1)..Len(Left(0)) : \E a \in (0 + 1)..Len(q) : TRUE
      BY <3>1 DEF Shorter
    <3>3. Len(q) = 0
      BY <2>1 DEF N
    <3>4. Len(Left(0)) = 0
      <4>1. Len(Left(0)) \in Nat
        BY <3>2
      <4>2. \A i \in (0 + 1)..Len(Left(0)) : FALSE
        BY <3>2, <3>3
      <4>3. QED
        BY <4>1, <4>2
    <3>5. QED
      BY <3>2, <3>4, EmptySeq
  <2>3. With(F, 0) = WithMemory(s, F)
    BY <1>1, <2>1, <2>2 DEF WithMemory, States, q
  <2>4. t = Submitted(WithMemory(s, F), Item("delete", Journal, Empty, 0))
    BY <1>6, <2>1, <2>3 DEF x
  <2>5. ASSUME NEW n \in 0..Count(s) PROVE Good(Whole(s, h, L)[n], Cs, A)
    <3>1. n = 0 /\ 0 \in 0..L
      BY <1>9, <2>1
    <3>2. Whole(s, h, L)[0] = h[0]
      BY <3>1, WholeIs
    <3>3. QED
      BY <3>1, <3>2
  <2>6. /\ Core(t, h[0], C, Cs, A, A) /\ t.memory = F
        /\ Count(t) = Count(s) + 1 /\ It(t, Count(t)) = x
    <3> DEFINE y == Item("delete", Journal, Empty, 0)
    <3>1. F \in FileMaps /\ F = Without(s.memory, Journal)
      BY <1>2 DEF F
    <3> HIDE DEF t, Left, With
    <3>2. LET z == Submitted(WithMemory(s, F), y)
          IN  /\ Core(z, h[0], C, Cs, A, A) /\ z.memory = F
              /\ Count(z) = Count(s) + 1
              /\ It(z, Count(z)) = y
      <4>1. \A n \in 0..Count(s) : Good(Whole(s, h, L)[n], Cs, A)
        BY <2>5
      <4>2. QED
        <5>1. PICK z : z = Submitted(WithMemory(s, F), y)
          OBVIOUS
        <5>2. Core(z, h[0], C, Cs, A, A)
          BY <3>1, <4>1, <5>1, DeletionQueued
        <5>3. z.memory = F /\ Count(z) = Count(s) + 1 /\ It(z, Count(z)) = y
          BY <3>1, <5>1, DeletionIs
        <5>4. QED
          BY <5>1, <5>2, <5>3
    <3>3. x = y
      BY DEF x
    <3>4. QED
      BY <2>4, <3>2, <3>3
  <2>7. Unclosed(t)
    <3>1. \A n \in 1..Count(t) : n = Count(t)
      BY <1>9, <2>6
    <3>2. QED
      BY <2>6, <3>1 DEF Unclosed, x, Item
  <2>8. Database \in DOMAIN t.memory
    BY <1>2, <2>6 DEF Database, Journal
  <2>9. QED
    BY <1>2, <2>6, <2>7, <2>8 DEF Safe, t, F
<1>10. QED
  BY <1>1, <1>7, <1>8, <1>9

-----------------------------------------------------------------------------
(* Pages are written one after the other *)

\* What one page adds to the writes of some pages.
OnePage(b, p, f, pages, content) ==
  IF p \in pages THEN Written(b, f, One(p, content[p])) ELSE b

\* The states that the writes of the pages go through, page by page.
PageSteps(a, s, f, pages, content) ==
  /\ a[0] = s
  /\ \A p \in 1..MaxPages : a[p] = OnePage(a[p - 1], p, f, pages, content)

\* The loop over the pages goes through such states, and ends in the last.
LEMMA PagesAre ==
  ASSUME NEW s, NEW f, NEW pages, NEW content
  PROVE  \E a : /\ PageSteps(a, s, f, pages, content)
                /\ PagesWritten(s, f, pages, content) = a[MaxPages]
<1> DEFINE B(b, p) == OnePage(b, p, f, pages, content)
           Is1(a, k) == a = [p \in 0..k |-> IF p = 0 THEN s ELSE B(a[p - 1], p)]
           T == {k \in Nat : \E a : Is1(a, k)}
<1>1. MaxPages \in Nat
  BY FilesAssumption
<1>2. 0 \in T
  <2>1. PICK a : a = [p \in 0..0 |-> s]
    OBVIOUS
  <2>2. \A p \in 0..0 : p = 0
    OBVIOUS
  <2> HIDE DEF B
  <2>3. a = [p \in 0..0 |-> IF p = 0 THEN s ELSE B(a[p - 1], p)]
    BY <2>1, <2>2
  <2>4. QED
    BY <2>3
<1>3. ASSUME NEW k \in T PROVE k + 1 \in T
  <2> HIDE DEF B
  <2>1. PICK a : a = [p \in 0..k |-> IF p = 0 THEN s ELSE B(a[p - 1], p)]
    OBVIOUS
  <2>2. k \in Nat
    OBVIOUS
  <2>3. PICK b : b = [p \in 0..(k + 1) |-> IF p = k + 1 THEN B(a[k], k + 1) ELSE a[p]]
    OBVIOUS
  <2>4. ASSUME NEW p \in 0..(k + 1) PROVE b[p] = IF p = 0 THEN s ELSE B(b[p - 1], p)
    <3>1. CASE p = k + 1
      <4>1. p - 1 = k /\ k \in 0..(k + 1) /\ k # k + 1 /\ p # 0
        BY <2>2, <3>1
      <4>2. b[k] = a[k]
        BY <2>3, <4>1
      <4>3. QED
        BY <2>3, <3>1, <4>1, <4>2
    <3>2. CASE p # k + 1
      <4>1. p \in 0..k
        BY <2>2, <3>2
      <4>2. a[p] = IF p = 0 THEN s ELSE B(a[p - 1], p)
        BY <2>1, <4>1
      <4>3. b[p] = a[p]
        BY <2>3, <3>2
      <4>4. p # 0 => b[p - 1] = a[p - 1]
        <5>1. p # 0 => p - 1 \in 0..(k + 1) /\ p - 1 # k + 1
          BY <2>2, <4>1
        <5>2. QED
          BY <2>3, <5>1
      <4>5. QED
        BY <4>2, <4>3, <4>4
    <3>3. QED
      BY <3>1, <3>2
  <2>5. b = [p \in 0..(k + 1) |-> IF p = 0 THEN s ELSE B(b[p - 1], p)]
    BY <2>3, <2>4
  <2>6. QED
    BY <2>2, <2>5
<1>4. MaxPages \in T
  <2>1. T \in SUBSET Nat
    OBVIOUS
  <2> HIDE DEF T
  <2>2. QED
    BY <1>1, <1>2, <1>3, <2>1, Numbers
<1>5. PICK a : Is1(a, MaxPages)
  BY <1>4
<1>6. \A b : Is1(b, MaxPages) => PageSteps(b, s, f, pages, content)
  <2> TAKE b
  <2> HAVE Is1(b, MaxPages)
  <2> HIDE DEF B
  <2>1. b[0] = s
    BY <1>1
  <2>2. \A p \in 1..MaxPages : p \in 0..MaxPages /\ p # 0
    BY <1>1
  <2>3. \A p \in 1..MaxPages : b[p] = B(b[p - 1], p)
    BY <2>2
  <2>4. QED
    BY <2>1, <2>3 DEF B, PageSteps
<1>7. PICK c : c = CHOOSE b : Is1(b, MaxPages)
  OBVIOUS
<1>8. Is1(c, MaxPages)
  <2> HIDE DEF Is1
  <2>1. QED
    BY <1>5, <1>7
<1>9. PagesWritten(s, f, pages, content) = c[MaxPages]
  BY <1>7 DEF PagesWritten, OnePage
<1>10. QED
  BY <1>6, <1>8, <1>9

\* What holds before the first page, and after each page that it holds before,
\* holds after the last.
LEMMA PageByPage ==
  ASSUME NEW T, 0 \in T, \A k \in Nat : k \in T /\ k < MaxPages => k + 1 \in T
  PROVE  MaxPages \in T
<1> DEFINE U == {k \in Nat : k <= MaxPages => k \in T}
<1>1. MaxPages \in Nat
  BY FilesAssumption
<1>2. U \in SUBSET Nat /\ 0 \in U
  OBVIOUS
<1>3. ASSUME NEW k \in U PROVE k + 1 \in U
  <2>1. k \in Nat
    OBVIOUS
  <2>2. CASE k + 1 <= MaxPages
    <3>1. k < MaxPages /\ k <= MaxPages
      BY <1>1, <2>1, <2>2
    <3>2. QED
      BY <2>1, <3>1
  <2>3. CASE ~(k + 1 <= MaxPages)
    BY <2>1, <2>3
  <2>4. QED
    BY <2>2, <2>3
<1> HIDE DEF U
<1>4. U = Nat
  BY <1>2, <1>3, Numbers
<1>5. QED
  BY <1>1, <1>4 DEF U

\* In a safe state the journal is sound, and keeps the database as it was.
LEMMA SafeHas ==
  ASSUME NEW s, NEW base, NEW C, NEW Cs, NEW G, NEW A, Core(s, base, C, Cs, G, A),
         NEW D, D = View(s.memory, Database),
         NEW J, J = View(s.memory, Journal)
  PROVE  /\ Sound(D, J) /\ Covers(D, J) /\ Exact(D, J, C)
         /\ D \in Contents /\ J \in Contents /\ s.memory \in FileMaps
         /\ WellFormed(s) /\ C \in Cs
<1>1. PICK h, L : h[0] = base /\ Kept(s, h, L, C, Cs, G, A)
  BY DEF Core
<1>2. WellFormed(s) /\ C \in Cs /\ Phase(D, J, View(h[L], Journal), C, G, A)
  BY <1>1 DEF Kept, Traced
<1>3. s.memory \in FileMaps
  BY <1>2, ItemsAre
<1>4. D \in Contents /\ J \in Contents
  BY <1>3, ViewIs
<1>5. QED
  BY <1>2, <1>3, <1>4 DEF Phase

\* A page that the header does not name changes nothing of what a journal says.
LEMMA PageJournaled ==
  ASSUME NEW D, NEW J \in Contents, NEW C, Sound(D, J), Covers(D, J), Exact(D, J, C),
         NEW p \in 1..MaxPages, NEW x \in Nat \cup Headers, Header \in DOMAIN J,
         HotC(J) => p \notin J[Header].kept,
         NEW K, K = Over(One(p, x), J)
  PROVE  /\ K \in Contents /\ DOMAIN K = DOMAIN J \cup {p}
         /\ K[p] = x /\ \A i \in DOMAIN J : i # p => K[i] = J[i]
         /\ Header \in DOMAIN K /\ K[Header] = J[Header] /\ (HotC(K) <=> HotC(J))
         /\ Sound(D, K) /\ Covers(D, K) /\ Exact(D, K, C)
<1>1. p \in 0..MaxPages /\ p # Header
  BY FilesAssumption DEF Header
<1>2. /\ K \in Contents /\ DOMAIN K = DOMAIN J \cup {p}
      /\ K[p] = x /\ \A i \in DOMAIN J : i # p => K[i] = J[i]
  BY <1>1, OverOneIs
<1>3. Header \in DOMAIN K /\ K[Header] = J[Header] /\ (HotC(K) <=> HotC(J))
  BY <1>1, <1>2 DEF HotC
<1>4. HotC(J) => \A i \in J[Header].kept : i \in DOMAIN K /\ K[i] = J[i]
  BY <1>2 DEF Sound
<1>5. Sound(D, K) /\ Covers(D, K)
  BY <1>2, <1>3 DEF Sound, Covers
<1>6. ASSUME NEW i \in 1..MaxPages PROVE Found(D, K, i) = Found(D, J, i)
  BY <1>3, <1>4 DEF Found
<1>7. Exact(D, K, C)
  BY <1>6 DEF Exact
<1>8. QED
  BY <1>2, <1>3, <1>5, <1>7

\* The pages the database had are added to the journal.
LEMMA PagesJournaled ==
  ASSUME NEW s, NEW base, NEW C, NEW Cs, NEW G, NEW A, Safe(s, base, C, Cs, G, A),
         Journal \in DOMAIN s.memory,
         NEW D, D = View(s.memory, Database),
         NEW J, J = View(s.memory, Journal), Header \in DOMAIN J,
         A = G \/ ~HotC(J),
         NEW new, new \subseteq DOMAIN D, new \subseteq 1..MaxPages,
         HotC(J) => new \cap J[Header].kept = {}
  PROVE  LET t == PagesWritten(s, Journal, new, D)
             K == View(t.memory, Journal)
         IN  /\ Safe(t, base, C, Cs, G, A) /\ (Count(s) > 0 => Count(t) > 0)
             /\ DOMAIN t.memory = DOMAIN s.memory
             /\ View(t.memory, Database) = D
             /\ Header \in DOMAIN K /\ K[Header] = J[Header]
             /\ \A p \in new : p \in DOMAIN K /\ K[p] = D[p]
             /\ \A p \in DOMAIN J \ new : p \in DOMAIN K /\ K[p] = J[p]
<1> DEFINE Shows(t, k) ==
             LET K == View(t.memory, Journal)
             IN  /\ Safe(t, base, C, Cs, G, A) /\ (Count(s) > 0 => Count(t) > 0)
                 /\ DOMAIN t.memory = DOMAIN s.memory
                 /\ View(t.memory, Database) = D
                 /\ Header \in DOMAIN K /\ K[Header] = J[Header]
                 /\ \A p \in new : p <= k => p \in DOMAIN K /\ K[p] = D[p]
                 /\ \A p \in DOMAIN J \ new : p \in DOMAIN K /\ K[p] = J[p]
<1>1. PICK a : /\ PageSteps(a, s, Journal, new, D)
               /\ PagesWritten(s, Journal, new, D) = a[MaxPages]
  BY PagesAre
<1>2. Shows(a[0], 0)
  <2>1. \A p \in new : ~(p <= 0)
    OBVIOUS
  <2>2. QED
    BY <1>1, <2>1 DEF PageSteps
<1>3. ASSUME NEW k \in Nat, k < MaxPages, Shows(a[k], k)
      PROVE  Shows(a[k + 1], k + 1)
  <2>1. k + 1 \in 1..MaxPages /\ (k + 1) - 1 = k /\ k + 1 # Header
    BY <1>3, FilesAssumption DEF Header
  <2>2. a[k + 1] = OnePage(a[k], k + 1, Journal, new, D)
    BY <1>1, <2>1 DEF PageSteps
  <2>3. \A p \in new : p <= k + 1 => p <= k \/ p = k + 1
    OBVIOUS
  <2>4. CASE k + 1 \notin new
    <3>1. a[k + 1] = a[k]
      BY <2>2, <2>4 DEF OnePage
    <3>2. QED
      BY <1>3, <2>3, <2>4, <3>1
  <2>5. CASE k + 1 \in new
    <3> DEFINE v == a[k]
               x == D[k + 1]
               d == One(k + 1, x)
               Jk == View(v.memory, Journal)
               K == Over(d, Jk)
               t == Written(v, Journal, d)
    <3>1. a[k + 1] = t
      BY <2>2, <2>5 DEF OnePage
    <3>2. /\ Safe(v, base, C, Cs, G, A) /\ Journal \in DOMAIN v.memory
          /\ View(v.memory, Database) = D
          /\ Header \in DOMAIN Jk /\ Jk[Header] = J[Header]
          /\ HotC(Jk) <=> HotC(J)
      BY <1>3 DEF HotC
    <3>3. /\ Sound(D, Jk) /\ Covers(D, Jk) /\ Exact(D, Jk, C)
          /\ D \in Contents /\ Jk \in Contents
      BY <3>2, SafeHas DEF Safe
    <3>4. x \in Nat \cup Headers
      BY <2>5, <3>3, ContentsAre
    <3>5. d \in Contents
      <4>1. k + 1 \in 0..MaxPages
        BY <2>1
      <4> HIDE DEF x
      <4>2. QED
        BY <3>4, <4>1, OneIs
    <3>6. HotC(Jk) => k + 1 \notin Jk[Header].kept
      BY <2>5, <3>2
    <3> HIDE DEF v, x, t, Jk
    <3>7. /\ K \in Contents /\ DOMAIN K = DOMAIN Jk \cup {k + 1}
          /\ K[k + 1] = x /\ \A i \in DOMAIN Jk : i # k + 1 => K[i] = Jk[i]
          /\ Header \in DOMAIN K /\ K[Header] = Jk[Header] /\ (HotC(K) <=> HotC(Jk))
          /\ Sound(D, K) /\ Covers(D, K) /\ Exact(D, K, C)
      BY <2>1, <3>2, <3>3, <3>4, <3>6, PageJournaled
    <3> HIDE DEF d, K
    <3>8. /\ Safe(t, base, C, Cs, G, A) /\ Count(t) > 0
          /\ DOMAIN t.memory = DOMAIN v.memory
          /\ View(t.memory, Database) = D /\ View(t.memory, Journal) = K
      <4>1. HotC(Jk) => /\ HotC(K) /\ K[Header].size = Jk[Header].size
                        /\ Jk[Header].kept \subseteq K[Header].kept
        BY <3>7
      <4>2. A = G \/ Count(v) > 0 \/ ~HotC(K)
        BY <3>2, <3>7
      <4>3. K = Over(d, Jk) /\ Jk = View(v.memory, Journal)
        BY DEF K, Jk
      <4>4. QED
        BY <3>2, <3>5, <3>7, <4>1, <4>2, <4>3, JournalWritten DEF t
    <3>9. \A p \in new : p <= k => p \in DOMAIN Jk /\ Jk[p] = D[p]
      BY <1>3 DEF Jk, v
    <3>10. \A p \in DOMAIN J \ new : p \in DOMAIN Jk /\ Jk[p] = J[p]
      BY <1>3 DEF Jk, v
    <3>11. \A p \in new : p <= k + 1 => p \in DOMAIN K /\ K[p] = D[p]
      BY <2>3, <3>7, <3>9 DEF x
    <3>12. \A p \in DOMAIN J \ new : p \in DOMAIN K /\ K[p] = J[p]
      BY <2>5, <3>7, <3>10
    <3>13. DOMAIN v.memory = DOMAIN s.memory
      BY <1>3 DEF v
    <3>14. QED
      BY <3>1, <3>2, <3>7, <3>8, <3>11, <3>12, <3>13
  <2>6. QED
    BY <2>4, <2>5
<1>4. Shows(a[MaxPages], MaxPages)
  <2> DEFINE T == {k \in Nat : Shows(a[k], k)}
  <2>1. 0 \in T /\ \A k \in Nat : k \in T /\ k < MaxPages => k + 1 \in T
    <3> HIDE DEF Shows
    <3>1. QED
      BY <1>2, <1>3
  <2> HIDE DEF T
  <2>2. MaxPages \in T
    BY <2>1, PageByPage
  <2>3. QED
    BY <2>2 DEF T
<1>5. \A p \in new : p <= MaxPages
  BY FilesAssumption
<1>6. QED
  BY <1>1, <1>4, <1>5

\* A journal that is hot as SQLite looks at it.
LEMMA HotIs ==
  ASSUME NEW F
  PROVE  /\ IsHot(F) <=> HotC(View(F, Journal))
         /\ HotC(View(F, Journal)) => Journal \in DOMAIN F
BY EmptyIs DEF IsHot, HotC, View

\* The header takes the place of the one there was.
LEMMA HeaderWritten ==
  ASSUME NEW J \in Contents, NEW x \in Headers,
         NEW K, K = Over(One(Header, x), J)
  PROVE  /\ One(Header, x) \in Contents
         /\ K \in Contents /\ DOMAIN K = DOMAIN J \cup {Header} /\ K[Header] = x
         /\ \A q \in DOMAIN J : q # Header => K[q] = J[q]
<1>1. Header \in 0..MaxPages /\ x \in Nat \cup Headers
  BY FilesAssumption DEF Header
<1>2. One(Header, x) \in Contents
  BY <1>1, OneIs
<1>3. K \in Contents
  BY <1>1, OverOneIs
<1>4. DOMAIN K = DOMAIN J \cup {Header} /\ K[Header] = x
  BY <1>1, OverOneIs
<1>5. \A q \in DOMAIN J : q # Header => K[q] = J[q]
  BY <1>1, OverOneIs
<1>6. QED
  BY <1>2, <1>3, <1>4, <1>5

\* A journal that has the new pages, though its header does not name them yet,
\* and one whose header does.
Ready(D, J, C, m, size, kept, new) ==
  /\ J \in Contents /\ Sound(D, J) /\ Covers(D, J) /\ Exact(D, J, C)
  /\ m \in 0..MaxPages /\ DOMAIN D = 1..m
  /\ size = IF HotC(J) THEN J[Header].size ELSE m
  /\ kept = IF HotC(J) THEN J[Header].kept ELSE {}
  /\ new \subseteq 1..size /\ new \cap kept = {}
  /\ \A p \in new : p \in DOMAIN J /\ J[p] = D[p]
Complete(D, K, C, size, pages, x) ==
  /\ x \in Headers /\ K \in Contents /\ HotC(K)
  /\ K[Header].size = size /\ K[Header].kept = pages
  /\ Sound(D, K) /\ Covers(D, K) /\ Exact(D, K, C)

\* When the header of a journal is written again it names the pages that were
\* added, and the journal keeps the database as it was.
LEMMA HeaderSynced ==
  ASSUME NEW D, NEW J, NEW C, NEW m, NEW size, NEW kept, NEW new,
         Ready(D, J, C, m, size, kept, new),
         NEW all, all = kept \cup new,
         NEW x, x = Synced(size, all),
         NEW K, K = Over(One(Header, x), J)
  PROVE  Complete(D, K, C, size, all, x)
<1> USE DEF Ready
<1>1. size \in 0..MaxPages /\ size <= m /\ 1..size \subseteq 1..MaxPages
  <2>1. CASE HotC(J)
    <3>1. J[Header].size \in 0..MaxPages /\ 1..J[Header].size \subseteq 1..m
      BY <2>1 DEF Sound, Covers
    <3>2. size \in 0..MaxPages /\ 1..size \subseteq 1..m
      BY <2>1, <3>1
    <3>3. size <= m
      <4>1. CASE size = 0
        BY <4>1
      <4>2. CASE size # 0
        <5>1. size \in 1..size
          BY <3>2, <4>2
        <5>2. size \in 1..m
          BY <3>2, <5>1
        <5>3. QED
          BY <5>2
      <4>3. QED
        BY <4>1, <4>2
    <3>4. QED
      BY <3>2, <3>3, FilesAssumption
  <2>2. CASE ~HotC(J)
    BY <2>2, FilesAssumption
  <2>3. QED
    BY <2>1, <2>2
<1>2. kept \subseteq 1..size
  BY DEF Sound
<1>3. x \in Headers /\ x.hot /\ x.size = size /\ x.kept = kept \cup new
  <2>1. PICK e : e = kept \cup new
    OBVIOUS
  <2>2. e \subseteq 1..size /\ e \in SUBSET (1..MaxPages)
    BY <1>1, <1>2, <2>1
  <2>3. size \in Nat
    BY <1>1
  <2>4. PICK y : y = Synced(size, e)
    OBVIOUS
  <2>5. y \in Headers /\ y.hot /\ y.size = size /\ y.kept = e
    BY <2>2, <2>3, <2>4 DEF Synced, Headers
  <2>6. x = y
    BY <2>1, <2>4
  <2>7. QED
    BY <2>1, <2>5, <2>6
<1>4. Header \in 0..MaxPages /\ Header \notin 1..MaxPages
  BY FilesAssumption DEF Header
<1>5. /\ K \in Contents /\ DOMAIN K = DOMAIN J \cup {Header} /\ K[Header] = x
      /\ \A q \in DOMAIN J : q # Header => K[q] = J[q]
  <2>1. K = Over(One(Header, x), J) /\ x \in Headers
    BY <1>3
  <2>2. K \in Contents
    BY <2>1, HeaderWritten
  <2>3. DOMAIN K = DOMAIN J \cup {Header} /\ K[Header] = x
    BY <2>1 DEF Over, One
  <2>4. \A q \in DOMAIN J : q # Header => K[q] = J[q]
    BY <2>1 DEF Over, One
  <2>5. QED
    BY <2>2, <2>3, <2>4
<1>6. HotC(K) /\ K[Header].size = size /\ K[Header].kept = kept \cup new
  BY <1>3, <1>5 DEF HotC
<1>7. \A p \in kept : p \in DOMAIN J
  BY DEF Sound
<1>8. Sound(D, K)
  <2>1. kept \cup new \subseteq DOMAIN K
    BY <1>5, <1>7
  <2>2. 1..size \subseteq DOMAIN D
    BY <1>1
  <2>3. QED
    BY <1>1, <1>2, <1>6, <2>1, <2>2 DEF Sound
<1>9. Covers(D, K)
  BY <1>1, <1>6 DEF Covers
<1>10. ASSUME NEW p \in 1..MaxPages PROVE Found(D, K, p) = Page(C, p)
  <2>1. Found(D, J, p) = Page(C, p)
    BY DEF Exact
  <2>2. p \in kept \cup new => K[p] = J[p]
    BY <1>4, <1>5, <1>7
  <2>3. p \in new => p \notin kept /\ p \in 1..size /\ J[p] = D[p] /\ Page(D, p) = D[p]
    BY <1>1 DEF Page
  <2>4. CASE D = Empty
    BY <2>1, <2>4 DEF Found
  <2>5. CASE D # Empty /\ HotC(J)
    <3>1. size = J[Header].size /\ kept = J[Header].kept
      BY <2>5
    <3>2. QED
      BY <1>6, <2>1, <2>2, <2>3, <2>5, <3>1 DEF Found
  <2>6. CASE D # Empty /\ ~HotC(J)
    <3>1. size = m /\ kept = {}
      BY <2>6
    <3>2. p \notin 1..size => Page(D, p) = 0
      BY <3>1 DEF Page
    <3>3. Page(D, p) = Page(C, p)
      BY <2>1, <2>6 DEF Found
    <3>4. QED
      BY <1>6, <2>2, <2>3, <2>6, <3>1, <3>2, <3>3 DEF Found
  <2>7. QED
    BY <2>4, <2>5, <2>6
<1>11. QED
  BY <1>3, <1>5, <1>6, <1>8, <1>9, <1>10 DEF Exact, Complete

\* A journal is begun: it is created if it is not there, and gets a header that
\* does not make it hot.
LEMMA JournalBegun ==
  ASSUME NEW s, NEW base, NEW C, NEW Cs, NEW G, NEW A, Safe(s, base, C, Cs, G, A),
         NEW D, D = View(s.memory, Database), ~HotC(View(s.memory, Journal))
  PROVE  LET t == Written(Opened(s, Journal), Journal, One(Header, Unsynced))
             K == View(t.memory, Journal)
         IN  /\ Safe(t, base, C, Cs, G, A) /\ Count(t) > 0
             /\ DOMAIN t.memory = DOMAIN s.memory \cup {Journal}
             /\ View(t.memory, Database) = D
             /\ Header \in DOMAIN K /\ ~HotC(K)
<1> DEFINE u == Opened(s, Journal)
           J == View(s.memory, Journal)
           d == One(Header, Unsynced)
           K == Over(d, J)
           t == Written(u, Journal, d)
<1>1. /\ Safe(u, base, C, Cs, G, A)
      /\ DOMAIN u.memory = DOMAIN s.memory \cup {Journal}
      /\ View(u.memory, Database) = D /\ View(u.memory, Journal) = J
  <2>1. CASE Journal \in DOMAIN s.memory
    BY <2>1 DEF Opened
  <2>2. CASE Journal \notin DOMAIN s.memory
    <3>1. Core(s, base, C, Cs, G, A) /\ Unclosed(s) /\ Journal \in Files
      BY DEF Safe, Files
    <3>2. /\ Core(u, base, C, Cs, G, A) /\ Unclosed(u)
          /\ DOMAIN u.memory = DOMAIN s.memory \cup {Journal}
          /\ \A e \in Files : View(u.memory, e) = View(s.memory, e)
      BY <2>2, <3>1, FileOpened
    <3>3. QED
      BY <3>2 DEF Safe, Files
  <2>3. QED
    BY <2>1, <2>2
<1>2. /\ Sound(D, J) /\ Covers(D, J) /\ Exact(D, J, C) /\ J \in Contents
  BY SafeHas DEF Safe
<1>3. Unsynced \in Headers /\ ~Unsynced.hot
  BY DEF Unsynced, Headers
<1>4. d \in Contents
  BY <1>2, <1>3, HeaderWritten
<1> HIDE DEF u, J
<1>5. Header \in DOMAIN K /\ K[Header] = Unsynced
  BY DEF Over, One
<1>6. ~HotC(K) /\ ~HotC(J)
  BY <1>3, <1>5 DEF HotC, J
<1>7. Sound(D, K) /\ Covers(D, K) /\ Exact(D, K, C)
  BY <1>2, <1>6 DEF Sound, Covers, Exact, Found
<1> HIDE DEF d, t
<1>8. /\ Safe(t, base, C, Cs, G, A) /\ Count(t) > 0
      /\ DOMAIN t.memory = DOMAIN u.memory
      /\ View(t.memory, Database) = D /\ View(t.memory, Journal) = K
  <2>1. Journal \in DOMAIN u.memory /\ D = View(u.memory, Database)
        /\ J = View(u.memory, Journal)
    BY <1>1
  <2>2. PICK k : k = K
    OBVIOUS
  <2>3. k = Over(d, J) /\ Sound(D, k) /\ Covers(D, k) /\ Exact(D, k, C) /\ ~HotC(k)
    BY <1>6, <1>7, <2>2
  <2> HIDE DEF K
  <2>4. QED
    BY <1>1, <1>4, <1>6, <2>1, <2>2, <2>3, JournalWritten DEF t
<1>9. QED
  BY <1>1, <1>5, <1>6, <1>8 DEF t, u, d

\* Before pages change, the journal is synced, hot, and keeps them.
LEMMA JournaledSafe ==
  ASSUME NEW s, NEW base, NEW C, NEW Cs, NEW G, NEW A, Safe(s, base, C, Cs, G, A),
         NEW D, D = View(s.memory, Database),
         A = G \/ ~HotC(View(s.memory, Journal)),
         NEW pages, pages \subseteq 1..MaxPages
  PROVE  LET t == Journaled(s, pages)
             K == View(t.memory, Journal)
         IN  /\ Safe(t, base, C, Cs, G, A)
             /\ DOMAIN t.memory = DOMAIN s.memory \cup {Journal}
             /\ View(t.memory, Database) = D
             /\ HotC(K)
             /\ \A p \in pages : p \in K[Header].kept \/ p \notin 1..K[Header].size
<1> DEFINE J == View(s.memory, Journal)
           size == IF HotC(J) THEN J[Header].size ELSE Cardinality(DOMAIN D)
           kept == IF HotC(J) THEN J[Header].kept ELSE {}
           new == {p \in pages : p <= size /\ p \notin kept}
           begun == IF HotC(J) THEN s
                    ELSE Written(Opened(s, Journal), Journal, One(Header, Unsynced))
           u == PagesWritten(begun, Journal, new, D)
           x == Synced(size, kept \cup new)
           t == Written(u, Journal, One(Header, x))
<1>1. /\ Sound(D, J) /\ Covers(D, J) /\ Exact(D, J, C) /\ J \in Contents
      /\ D \in Contents /\ s.memory \in FileMaps
  BY SafeHas DEF Safe
<1>2. PICK m \in 0..MaxPages : DOMAIN D = 1..m
  BY <1>1 DEF Sound, Spans
<1>3. Cardinality(DOMAIN D) = m /\ m \in Nat
  BY <1>2, FilesAssumption, FS_Interval
<1>4. size \in 0..MaxPages /\ 1..size \subseteq DOMAIN D
  BY <1>1, <1>2, <1>3 DEF Sound, Covers
<1>5. /\ Safe(begun, base, C, Cs, G, A)
      /\ DOMAIN begun.memory = DOMAIN s.memory \cup {Journal}
      /\ View(begun.memory, Database) = D
      /\ Header \in DOMAIN View(begun.memory, Journal)
      /\ HotC(J) => View(begun.memory, Journal) = J
      /\ ~HotC(J) => ~HotC(View(begun.memory, Journal)) /\ Count(begun) > 0
  <2>1. CASE HotC(J)
    <3>1. Journal \in DOMAIN s.memory
      BY <2>1, HotIs
    <3>2. Header \in DOMAIN J
      BY <2>1 DEF HotC
    <3>3. QED
      BY <2>1, <3>1, <3>2
  <2>2. CASE ~HotC(J)
    BY <2>2, JournalBegun
  <2>3. QED
    BY <2>1, <2>2
<1>6. Journaled(s, pages) = t
  <2>1. s.memory[Database] = D
    BY DEF Safe, View
  <2>2. IsHot(s.memory) <=> HotC(J)
    BY HotIs
  <2>3. HotC(J) => s.memory[Journal] = J
    BY HotIs DEF View
  <2>4. QED
    BY <2>1, <2>2, <2>3 DEF Journaled
<1>7. new \subseteq 1..size /\ new \subseteq DOMAIN D /\ new \subseteq 1..MaxPages
      /\ new \cap kept = {}
  <2>1. PICK z : z = size
    OBVIOUS
  <2>2. z \in 0..MaxPages /\ 1..z \subseteq DOMAIN D
    BY <1>4, <2>1
  <2>3. \A p \in new : p \in 1..MaxPages /\ p <= z /\ p \notin kept
    BY <2>1
  <2> HIDE DEF new, size, kept
  <2>4. \A p \in new : p \in 1..z
    BY <2>2, <2>3, FilesAssumption
  <2>5. QED
    BY <2>1, <2>2, <2>3, <2>4
<1> DEFINE Jb == View(begun.memory, Journal)
           Ju == View(u.memory, Journal)
           K == Over(One(Header, x), Ju)
<1>8. /\ Safe(u, base, C, Cs, G, A) /\ (Count(begun) > 0 => Count(u) > 0)
      /\ DOMAIN u.memory = DOMAIN begun.memory
      /\ View(u.memory, Database) = D
      /\ Header \in DOMAIN Ju /\ Ju[Header] = Jb[Header]
      /\ \A p \in new : p \in DOMAIN Ju /\ Ju[p] = D[p]
  <2>1. PICK v, n, j : v = begun /\ n = new /\ j = Jb
    OBVIOUS
  <2>2. /\ Safe(v, base, C, Cs, G, A) /\ Journal \in DOMAIN v.memory
        /\ D = View(v.memory, Database) /\ j = View(v.memory, Journal)
        /\ Header \in DOMAIN j
        /\ A = G \/ ~HotC(j)
        /\ n \subseteq DOMAIN D /\ n \subseteq 1..MaxPages
        /\ HotC(j) => n \cap j[Header].kept = {}
    BY <1>5, <1>7, <2>1
  <2> HIDE DEF begun, new, Jb
  <2>3. LET r == PagesWritten(v, Journal, n, D)
            k == View(r.memory, Journal)
        IN  /\ Safe(r, base, C, Cs, G, A) /\ (Count(v) > 0 => Count(r) > 0)
            /\ DOMAIN r.memory = DOMAIN v.memory
            /\ View(r.memory, Database) = D
            /\ Header \in DOMAIN k /\ k[Header] = j[Header]
            /\ \A p \in n : p \in DOMAIN k /\ k[p] = D[p]
    BY <2>2, PagesJournaled
  <2>4. QED
    BY <2>1, <2>3
<1> HIDE DEF u, Jb, begun
<1>9. /\ Sound(D, Ju) /\ Covers(D, Ju) /\ Exact(D, Ju, C) /\ Ju \in Contents
  BY <1>8, SafeHas DEF Safe
<1>10. HotC(Ju) <=> HotC(J)
  BY <1>5, <1>8 DEF HotC, Jb
<1>11. HotC(J) => Ju[Header] = J[Header]
  BY <1>5, <1>8 DEF Jb
<1>12. /\ K \in Contents /\ HotC(K) /\ x \in Headers
       /\ K[Header].size = size /\ K[Header].kept = kept \cup new
       /\ Sound(D, K) /\ Covers(D, K) /\ Exact(D, K, C)
  <2>1. /\ size = IF HotC(Ju) THEN Ju[Header].size ELSE m
        /\ kept = IF HotC(Ju) THEN Ju[Header].kept ELSE {}
    BY <1>3, <1>10, <1>11
  <2>2. PICK z, e, n, j : z = size /\ e = kept /\ n = new /\ j = Ju
    OBVIOUS
  <2>3. PICK y, k : y = Synced(z, e \cup n) /\ k = Over(One(Header, y), j)
    OBVIOUS
  <2>4. K = k
    BY <2>2, <2>3
  <2>5. Ready(D, j, C, m, z, e, n)
    BY <1>2, <1>7, <1>8, <1>9, <2>1, <2>2 DEF Ready
  <2>6. PICK l : l = e \cup n
    OBVIOUS
  <2> HIDE DEF size, kept, new, Ju, K
  <2>7. Complete(D, k, C, z, l, y)
    BY <2>3, <2>5, <2>6, HeaderSynced
  <2>8. y \in Headers /\ y = Synced(size, kept \cup new)
    BY <2>2, <2>3, <2>7 DEF Complete
  <2>9. QED
    BY <2>2, <2>4, <2>6, <2>7, <2>8 DEF Complete
<1>13. One(Header, x) \in Contents
  <2>1. PICK y \in Headers : y = x
    BY <1>12
  <2>2. One(Header, y) \in Contents
    <3>1. Header \in 0..MaxPages /\ y \in Nat \cup Headers
      BY <2>1, FilesAssumption DEF Header
    <3>2. QED
      BY <3>1, OneIs
  <2>3. QED
    BY <2>1, <2>2
<1>14. /\ Safe(t, base, C, Cs, G, A)
       /\ DOMAIN t.memory = DOMAIN u.memory
       /\ View(t.memory, Database) = D /\ View(t.memory, Journal) = K
  <2>1. HotC(Ju) => /\ HotC(K) /\ K[Header].size = Ju[Header].size
                    /\ Ju[Header].kept \subseteq K[Header].kept
    BY <1>10, <1>11, <1>12
  <2>2. A = G \/ Count(u) > 0 \/ ~HotC(K)
    BY <1>5, <1>8
  <2>3. Journal \in DOMAIN u.memory
    BY <1>5, <1>8
  <2>4. PICK d, k, j : d = One(Header, x) /\ k = K /\ j = Ju
    OBVIOUS
  <2>5. /\ d \in Contents /\ D = View(u.memory, Database)
        /\ j = View(u.memory, Journal) /\ k = Over(d, j)
        /\ Sound(D, k) /\ Covers(D, k) /\ Exact(D, k, C)
        /\ HotC(j) => /\ HotC(k) /\ k[Header].size = j[Header].size
                      /\ j[Header].kept \subseteq k[Header].kept
        /\ A = G \/ Count(u) > 0 \/ ~HotC(k)
    BY <1>8, <1>12, <1>13, <2>1, <2>2, <2>4
  <2>6. t = Written(u, Journal, d)
    BY <2>4
  <2> HIDE DEF x, K, Ju, t
  <2>7. QED
    BY <1>8, <2>3, <2>4, <2>5, <2>6, JournalWritten
<1>15. \A p \in pages : p \in kept \cup new \/ p \notin 1..size
  OBVIOUS
<1> HIDE DEF t, K, size, kept, new
<1>16. QED
  BY <1>5, <1>6, <1>8, <1>12, <1>14, <1>15

-----------------------------------------------------------------------------
(* The journal is deleted, or played back *)

\* What is good for some commits is good for more of them.
LEMMA GoodGrows ==
  ASSUME NEW D, NEW J, NEW Cs, NEW Cs1, Cs \subseteq Cs1, NEW A, NEW A1, A \subseteq A1,
         GoodPair(D, J, Cs, A)
  PROVE  GoodPair(D, J, Cs1, A1)
BY DEF GoodPair, Fits

\* Once the database is as it was, or as it is committed, the journal is deleted.
LEMMA JournalDeleted ==
  ASSUME NEW s, NEW base, NEW C, NEW Cs, NEW G, NEW A, Safe(s, base, C, Cs, G, A),
         Journal \in DOMAIN s.memory,
         NEW D, D = View(s.memory, Database),
         NEW C1, NEW Cs1, C1 \in Cs1, Cs \subseteq Cs1,
         \A p \in 1..MaxPages : Page(D, p) = Page(C1, p)
  PROVE  LET t == Deleted(s, Journal)
         IN  Safe(t, base, C1, Cs1, G, G) /\ Unjournaled(s, t)
<1>1. PICK h, L : h[0] = base /\ Kept(s, h, L, C, Cs, G, A)
  BY DEF Safe, Core
<1>2. PICK J, JL : J = View(s.memory, Journal) /\ JL = View(h[L], Journal)
  OBVIOUS
<1>3. /\ Traced(s, h, L) /\ C \in Cs /\ \A n \in 0..L : Good(h[n], Cs, G)
      /\ Phase(D, J, JL, C, G, A)
  BY <1>1, <1>2 DEF Kept
<1>4. L \in 0..L
  BY <1>3 DEF Traced, Frozen
<1>5. Sound(View(h[L], Database), JL)
  BY <1>2, <1>3, <1>4 DEF Good, GoodPair
<1>6. Sound(D, JL)
  BY <1>3, <1>5 DEF Phase, Sound, Covers
<1>7. GoodPair(D, JL, Cs1, G)
  <2>1. CASE HotC(JL)
    <3>1. Fits(D, JL, C, G)
      BY <1>3, <2>1 DEF Phase
    <3>2. QED
      BY <1>3, <1>6, <3>1 DEF GoodPair
  <2>2. CASE ~HotC(JL)
    <3>1. Fits(D, JL, C1, G)
      BY <2>2 DEF Fits, Found
    <3>2. QED
      BY <1>6, <3>1 DEF GoodPair
  <2>3. QED
    BY <2>1, <2>2
<1>8. \A n \in 0..L : Good(h[n], Cs1, G)
  BY <1>3, GoodGrows DEF Good
<1>9. Spans(D) /\ Unclosed(s) /\ Database \in DOMAIN s.memory
  BY <1>6 DEF Sound, Safe
<1>10. LET t == Deleted(s, Journal)
       IN  Safe(t, h[0], C1, Cs1, G, G) /\ Unjournaled(s, t)
  <2>1. GoodPair(D, View(h[L], Journal), Cs1, G)
    BY <1>2, <1>7
  <2>2. QED
    <3>1. PICK b, JL1 : b = s /\ JL1 = View(h[L], Journal)
      OBVIOUS
    <3>2. /\ Traced(b, h, L) /\ Unclosed(b)
          /\ Database \in DOMAIN b.memory /\ Journal \in DOMAIN b.memory
          /\ C1 \in Cs1 /\ \A n \in 0..L : Good(h[n], Cs1, G)
          /\ D = View(b.memory, Database) /\ Spans(D)
          /\ \A p \in 1..MaxPages : Page(D, p) = Page(C1, p)
          /\ GoodPair(D, View(h[L], Journal), Cs1, G)
      BY <1>3, <1>8, <1>9, <2>1, <3>1
    <3>3. PICK t : t = Deleted(b, Journal)
      OBVIOUS
    <3>4. Safe(t, h[0], C1, Cs1, G, G)
      BY <3>2, <3>3, DeletedSafe
    <3>5. Unjournaled(b, t)
      BY <3>2, <3>3, <3>4, DeletedSafe
    <3>6. QED
      BY <3>1, <3>3, <3>4, <3>5
<1>11. QED
  BY <1>1, <1>10

\* What rolling back finds, page by page.
LEMMA RolledBackIs ==
  ASSUME NEW F \in FileMaps,
         NEW D, D = View(F, Database), NEW J, J = View(F, Journal), Sound(D, J)
  PROVE  LET c == RolledBack(F)
         IN  /\ \A p \in 1..MaxPages : Page(c, p) = Found(D, J, p)
             /\ c \in Contents /\ Spans(c)
             /\ (D = Empty \/ ~HotC(J)) => c = D
             /\ (D # Empty /\ HotC(J)) => DOMAIN c = 1..J[Header].size
<1> DEFINE c == RolledBack(F)
<1>1. D \in Contents /\ J \in Contents
  BY ViewIs
<1>2. IsHot(F) <=> HotC(J)
  BY HotIs
<1>3. CASE D = Empty \/ ~HotC(J)
  <2>1. c = D
    BY <1>2, <1>3, EmptyIs DEF RolledBack, View
  <2>2. \A p \in 1..MaxPages : Page(c, p) = Found(D, J, p)
    BY <1>3, <2>1 DEF Found
  <2>3. Spans(c)
    BY <2>1 DEF Sound
  <2>4. QED
    BY <1>1, <1>3, <2>1, <2>2, <2>3
<1>4. CASE D # Empty /\ HotC(J)
  <2> DEFINE size == J[Header].size
             kept == J[Header].kept
  <2>1. /\ size \in 0..MaxPages /\ kept \subseteq 1..size
        /\ kept \subseteq DOMAIN J /\ 1..size \subseteq DOMAIN D
    BY <1>4 DEF Sound
  <2>2. F[Database] = D /\ F[Journal] = J /\ Database \in DOMAIN F
    BY <1>4, HotIs DEF View
  <2>3. c = [p \in 1..size |->
               IF p \in kept \cap DOMAIN J THEN J[p]
               ELSE IF p \in DOMAIN D THEN D[p] ELSE 0]
    BY <1>2, <1>4, <2>2 DEF RolledBack
  <2> HIDE DEF c, size, kept
  <2>4. DOMAIN c = 1..size
        /\ \A p \in 1..size : c[p] = IF p \in kept THEN J[p] ELSE D[p]
    BY <2>1, <2>3
  <2>5. \A p \in 1..MaxPages : Page(c, p) = Found(D, J, p)
    BY <1>4, <2>1, <2>4 DEF Found, Page, size, kept
  <2>6. c \in Contents
    <3>1. \A p \in 1..size : c[p] \in Nat \cup Headers
      BY <1>1, <2>1, <2>4, ContentsAre
    <3>2. 1..size \in SUBSET (0..MaxPages)
      BY <2>1, FilesAssumption
    <3>3. c = [p \in 1..size |-> c[p]]
      BY <2>3, <2>4
    <3>4. c \in [1..size -> Nat \cup Headers]
      BY <3>1, <3>3
    <3>5. QED
      BY <3>2, <3>4 DEF Contents
  <2>7. Spans(c)
    BY <2>1, <2>4 DEF Spans
  <2>8. QED
    BY <1>4, <2>4, <2>5, <2>6, <2>7 DEF c, size
<1>5. QED
  BY <1>3, <1>4

\* Pages that may be written: the journal keeps them or the database had none,
\* they are those of a commit or ones that may tear it, and after each of them
\* the database has no hole.
Writable(D, J, C, A, pages, content) ==
  /\ HotC(J) /\ pages \subseteq 1..MaxPages
  /\ \A p \in pages :
       /\ content[p] \in Nat \cup Headers
       /\ content[p] \in A \/ content[p] = Page(C, p)
       /\ p \in J[Header].kept \/ p \notin 1..J[Header].size
  /\ \A k \in 0..MaxPages : \E m \in 0..MaxPages :
       DOMAIN D \cup {p \in pages : p <= k} = 1..m
\* The files with those pages.
HasPages(F, E, D, J, pages, content) ==
  /\ DOMAIN E = DOMAIN F /\ View(E, Journal) = J
  /\ DOMAIN View(E, Database) = DOMAIN D \cup pages
  /\ \A p \in pages : View(E, Database)[p] = content[p]
  /\ \A p \in DOMAIN D \ pages : View(E, Database)[p] = D[p]

\* The pages up to one.
LEMMA PagesUpto ==
  ASSUME NEW pages, pages \subseteq 1..MaxPages,
         NEW U, U = [k \in Nat |-> {p \in pages : p <= k}]
  PROVE  /\ U[0] = {} /\ U[MaxPages] = pages
         /\ \A k \in Nat : /\ k + 1 \notin U[k]
                           /\ k + 1 \in pages => U[k + 1] = U[k] \cup {k + 1}
                           /\ k + 1 \notin pages => U[k + 1] = U[k]
<1>1. MaxPages \in Nat /\ \A p \in pages : p \in Nat /\ p > 0 /\ p <= MaxPages
  BY FilesAssumption
<1>2. \A k \in Nat : \A p : p \in U[k] <=> p \in pages /\ p <= k
  OBVIOUS
<1>3. U[0] = {}
  <2>1. \A p \in pages : ~(p <= 0)
    BY <1>1
  <2>2. \A p : p \in U[0] <=> p \in pages /\ p <= 0
    BY <1>2
  <2>3. \A p : p \notin U[0]
    BY <2>1, <2>2
  <2>4. QED
    BY <2>3
<1>4. U[MaxPages] = pages
  BY <1>1, <1>2
<1>5. ASSUME NEW k \in Nat
      PROVE  /\ k + 1 \notin U[k]
             /\ k + 1 \in pages => U[k + 1] = U[k] \cup {k + 1}
             /\ k + 1 \notin pages => U[k + 1] = U[k]
  <2>1. \A p \in pages : p <= k + 1 <=> p <= k \/ p = k + 1
    BY <1>1
  <2>2. ~(k + 1 <= k) /\ k + 1 \in Nat
    OBVIOUS
  <2>3. \A p : p \in U[k + 1] <=> p \in U[k] \/ (p = k + 1 /\ p \in pages)
    BY <1>2, <2>1, <2>2
  <2>4. QED
    BY <1>2, <2>2, <2>3
<1>6. QED
  BY <1>3, <1>4, <1>5

\* Pages are written to the database while its journal is hot.
LEMMA PagesChanged ==
  ASSUME NEW s, NEW base, NEW C, NEW Cs, NEW G, NEW A, Safe(s, base, C, Cs, G, A),
         NEW D, D = View(s.memory, Database),
         NEW J, J = View(s.memory, Journal),
         NEW pages, NEW content, Writable(D, J, C, A, pages, content)
  PROVE  LET t == PagesWritten(s, Database, pages, content)
         IN  /\ Safe(t, base, C, Cs, G, A)
             /\ HasPages(s.memory, t.memory, D, J, pages, content)
<1> DEFINE U == [k \in Nat |-> {p \in pages : p <= k}]
           Shows(t, k) ==
             /\ Safe(t, base, C, Cs, G, A)
             /\ HasPages(s.memory, t.memory, D, J, U[k], content)
<1>1. PICK a : /\ PageSteps(a, s, Database, pages, content)
               /\ PagesWritten(s, Database, pages, content) = a[MaxPages]
  BY PagesAre
<1>2. pages \subseteq 1..MaxPages /\ HotC(J)
  BY DEF Writable
<1>3. /\ U[0] = {} /\ U[MaxPages] = pages
      /\ \A k \in Nat : /\ k + 1 \notin U[k]
                        /\ k + 1 \in pages => U[k + 1] = U[k] \cup {k + 1}
                        /\ k + 1 \notin pages => U[k + 1] = U[k]
  BY <1>2, PagesUpto
<1>4. Shows(a[0], 0)
  <2>1. a[0] = s
    BY <1>1 DEF PageSteps
  <2>2. HasPages(s.memory, s.memory, D, J, {}, content)
    BY DEF HasPages
  <2> HIDE DEF U
  <2>3. QED
    BY <1>3, <2>1, <2>2
<1>5. ASSUME NEW k \in Nat, k < MaxPages, Shows(a[k], k)
      PROVE  Shows(a[k + 1], k + 1)
  <2>1. k + 1 \in 1..MaxPages /\ (k + 1) - 1 = k /\ k \in 0..MaxPages
        /\ k + 1 \in 0..MaxPages
    BY <1>5, FilesAssumption
  <2>2. a[k + 1] = OnePage(a[k], k + 1, Database, pages, content)
    BY <1>1, <2>1 DEF PageSteps
  <2>3. /\ k + 1 \notin U[k]
        /\ k + 1 \in pages => U[k + 1] = U[k] \cup {k + 1}
        /\ k + 1 \notin pages => U[k + 1] = U[k]
    BY <1>3
  <2>4. CASE k + 1 \notin pages
    <3>1. a[k + 1] = a[k]
      BY <2>2, <2>4 DEF OnePage
    <3>2. U[k + 1] = U[k]
      BY <2>3, <2>4
    <3> HIDE DEF U
    <3>3. QED
      BY <1>5, <3>1, <3>2
  <2>5. CASE k + 1 \in pages
    <3>1. U[k + 1] = U[k] \cup {k + 1}
      BY <2>3, <2>5
    <3>2. PICK v, x, E, W, p : /\ v = a[k] /\ x = content[k + 1] /\ W = U[k]
                               /\ E = View(v.memory, Database) /\ p = k + 1
      OBVIOUS
    <3>3. PICK t : t = Written(v, Database, One(p, x))
      OBVIOUS
    <3>4. a[k + 1] = t
      BY <2>2, <2>5, <3>2, <3>3 DEF OnePage
    <3>5. Safe(v, base, C, Cs, G, A) /\ HasPages(s.memory, v.memory, D, J, W, content)
      BY <1>5, <3>2
    <3>6. /\ DOMAIN v.memory = DOMAIN s.memory /\ View(v.memory, Journal) = J
          /\ DOMAIN E = DOMAIN D \cup W
          /\ \A q \in W : E[q] = content[q]
          /\ \A q \in DOMAIN D \ W : E[q] = D[q]
      BY <3>2, <3>5 DEF HasPages
    <3>7. /\ x \in Nat \cup Headers /\ (x \in A \/ x = Page(C, p))
          /\ (p \in J[Header].kept \/ p \notin 1..J[Header].size)
          /\ p \in 1..MaxPages /\ p \in 0..MaxPages
      BY <2>1, <2>5, <3>2 DEF Writable
    <3>8. E \in Contents
      BY <3>2, <3>5, SafeHas DEF Safe
    <3>9. /\ DOMAIN Over(One(p, x), E) = DOMAIN E \cup {p}
          /\ Over(One(p, x), E)[p] = x
          /\ \A q \in DOMAIN E : q # p => Over(One(p, x), E)[q] = E[q]
      BY DEF Over, One
    <3>10. Spans(Over(One(p, x), E))
      <4>1. \E m \in 0..MaxPages : DOMAIN D \cup U[k + 1] = 1..m
        <5>1. U[k + 1] = {q \in pages : q <= k + 1}
          BY <2>1, FilesAssumption
        <5> HIDE DEF U
        <5>2. QED
          BY <2>1, <5>1 DEF Writable
      <4>2. DOMAIN E \cup {p} = DOMAIN D \cup U[k + 1]
        <5> HIDE DEF U
        <5>1. QED
          BY <3>1, <3>2, <3>6
      <4>3. DOMAIN Over(One(p, x), E) = DOMAIN D \cup U[k + 1]
        BY <3>9, <4>2
      <4> HIDE DEF U
      <4>4. QED
        BY <4>1, <4>3 DEF Spans
    <3>11. /\ J = View(v.memory, Journal) /\ E = View(v.memory, Database)
      BY <3>2, <3>6
    <3>12. Safe(t, base, C, Cs, G, A)
      BY <1>2, <3>3, <3>5, <3>7, <3>10, <3>11, DatabaseWritten
    <3>13. DOMAIN t.memory = DOMAIN v.memory
      BY <1>2, <3>3, <3>5, <3>7, <3>10, <3>11, <3>12, DatabaseWritten
    <3>14. View(t.memory, Database) = Over(One(p, x), E)
      BY <1>2, <3>3, <3>5, <3>7, <3>10, <3>11, <3>12, DatabaseWritten
    <3>15. View(t.memory, Journal) = J
      BY <1>2, <3>3, <3>5, <3>7, <3>10, <3>11, <3>12, DatabaseWritten
    <3>16. HasPages(s.memory, t.memory, D, J, W \cup {p}, content)
      <4>1. PICK X : X = View(t.memory, Database)
        OBVIOUS
      <4>2. /\ DOMAIN X = DOMAIN D \cup (W \cup {p})
            /\ X[p] = content[p]
            /\ \A q \in W : X[q] = content[q]
            /\ \A q \in DOMAIN D \ (W \cup {p}) : X[q] = D[q]
        <5>1. DOMAIN X = DOMAIN D \cup (W \cup {p})
          BY <3>6, <3>9, <3>14, <4>1
        <5>2. X[p] = content[p]
          BY <3>2, <3>9, <3>14, <4>1
        <5>3. \A q \in W : X[q] = content[q]
          BY <2>3, <3>2, <3>6, <3>9, <3>14, <4>1
        <5>4. \A q \in DOMAIN D \ (W \cup {p}) : X[q] = D[q]
          BY <3>6, <3>9, <3>14, <4>1
        <5>5. QED
          BY <5>1, <5>2, <5>3, <5>4
      <4>3. QED
        BY <3>6, <3>13, <3>15, <4>1, <4>2 DEF HasPages
    <3>17. W \cup {p} = U[k + 1]
      <4> HIDE DEF U
      <4>1. QED
        BY <3>1, <3>2
    <3> HIDE DEF U
    <3>18. QED
      BY <3>4, <3>12, <3>16, <3>17
  <2>6. QED
    BY <2>4, <2>5
<1>6. Shows(a[MaxPages], MaxPages)
  <2> DEFINE T == {k \in Nat : Shows(a[k], k)}
  <2>1. 0 \in T /\ \A k \in Nat : k \in T /\ k < MaxPages => k + 1 \in T
    <3> HIDE DEF Shows
    <3>1. QED
      BY <1>4, <1>5
  <2> HIDE DEF T
  <2>2. MaxPages \in T
    BY <2>1, PageByPage
  <2>3. QED
    BY <2>2 DEF T
<1> HIDE DEF U
<1>7. QED
  BY <1>1, <1>3, <1>6

\* Playing back a hot journal restores the database of the last commit.
LEMMA PlayedBackSafe ==
  ASSUME NEW s, NEW base, NEW C, NEW Cs, NEW A, Safe(s, base, C, Cs, A, A),
         HotC(View(s.memory, Journal)), View(s.memory, Database) # Empty
  PROVE  LET t == PlayedBack(s)
         IN  /\ Safe(t, base, C, Cs, A, A)
             /\ DOMAIN t.memory = DOMAIN s.memory \ {Journal}
             /\ View(t.memory, Journal) = Empty
<1>1. PICK D, J, c : /\ D = View(s.memory, Database) /\ J = View(s.memory, Journal)
                     /\ c = RolledBack(s.memory)
  OBVIOUS
<1>2. PICK size, kept : size = J[Header].size /\ kept = J[Header].kept
  OBVIOUS
<1>3. /\ Sound(D, J) /\ Covers(D, J) /\ Exact(D, J, C)
      /\ D \in Contents /\ J \in Contents /\ s.memory \in FileMaps /\ C \in Cs
  BY <1>1, SafeHas DEF Safe
<1>4. /\ HotC(J) /\ D # Empty /\ Journal \in DOMAIN s.memory
      /\ s.memory[Journal] = J /\ s.memory[Database] = D
      /\ Database \in DOMAIN s.memory
  BY <1>1, HotIs DEF View, Safe
<1>5. /\ size \in 0..MaxPages /\ kept \subseteq 1..size /\ kept \subseteq DOMAIN J
      /\ 1..size \subseteq DOMAIN D /\ kept \subseteq 1..MaxPages
      /\ 1..size \subseteq 1..MaxPages /\ size \in Nat
  BY <1>2, <1>3, <1>4, FilesAssumption DEF Sound, Covers
<1>6. /\ \A p \in 1..MaxPages : Page(c, p) = Found(D, J, p)
      /\ c \in Contents /\ DOMAIN c = 1..size
  BY <1>1, <1>2, <1>3, <1>4, RolledBackIs
<1>7. \A p \in 1..MaxPages : Page(c, p) = Page(C, p)
  BY <1>3, <1>6 DEF Exact
<1> DEFINE cut == IF DOMAIN D \subseteq DOMAIN c THEN s
                  ELSE Truncated(s, Database, size)
           E == View(cut.memory, Database)
           u == PagesWritten(cut, Database, kept, c)
<1>8. PlayedBack(s) = Deleted(u, Journal)
  <2>1. Cardinality(DOMAIN c) = size
    BY <1>5, <1>6, FS_Interval
  <2>2. QED
    BY <1>1, <1>2, <1>4, <2>1 DEF PlayedBack
<1>9. /\ Safe(cut, base, C, Cs, A, A)
      /\ DOMAIN cut.memory = DOMAIN s.memory /\ View(cut.memory, Journal) = J
      /\ DOMAIN E = 1..size /\ \A p \in 1..size : E[p] = D[p]
  <2>1. CASE DOMAIN D \subseteq DOMAIN c
    <3>1. DOMAIN D = 1..size
      BY <1>5, <1>6, <2>1
    <3>2. cut = s
      BY <2>1
    <3>3. QED
      BY <1>1, <3>1, <3>2
  <2>2. CASE ~(DOMAIN D \subseteq DOMAIN c)
    <3>1. PICK t : t = Truncated(s, Database, size)
      OBVIOUS
    <3>2. cut = t
      BY <2>2, <3>1
    <3>3. Safe(t, base, C, Cs, A, A)
      BY <1>1, <1>2, <1>4, <3>1, TruncatedSafe
    <3>4. DOMAIN t.memory = DOMAIN s.memory
      BY <1>1, <1>2, <1>4, <3>1, <3>3, TruncatedSafe
    <3>5. View(t.memory, Journal) = J
      BY <1>1, <1>2, <1>4, <3>1, <3>3, TruncatedSafe
    <3>6. View(t.memory, Database) = Shortened(D, size)
      BY <1>1, <1>2, <1>4, <3>1, <3>3, TruncatedSafe
    <3>7. {p \in DOMAIN D : p <= size} = 1..size
      <4>1. \A p \in DOMAIN D : p \in Nat /\ p > 0
        BY <1>3 DEF Sound, Spans
      <4>2. QED
        BY <1>5, <4>1
    <3>8. E = Shortened(D, size)
      BY <3>2, <3>6
    <3> HIDE DEF cut, E
    <3>9. DOMAIN E = 1..size /\ \A p \in 1..size : E[p] = D[p]
      BY <1>3, <1>5, <3>7, <3>8, ShortenedIs
    <3>10. QED
      BY <3>2, <3>3, <3>4, <3>5, <3>9
  <2>3. QED
    BY <2>1, <2>2
<1>10. Writable(E, J, C, A, kept, c)
  <2>1. \A p \in kept : /\ c[p] \in Nat \cup Headers /\ c[p] = Page(C, p)
    BY <1>5, <1>6, <1>7, ContentsAre DEF Page
  <2>2. \A k \in 0..MaxPages : DOMAIN E \cup {p \in kept : p <= k} = 1..size
    BY <1>5, <1>9
  <2> HIDE DEF E
  <2>3. QED
    BY <1>2, <1>4, <1>5, <2>1, <2>2 DEF Writable
<1>11. /\ Safe(u, base, C, Cs, A, A)
       /\ HasPages(cut.memory, u.memory, E, J, kept, c)
  <2>1. PICK v, e, t : v = cut /\ e = E /\ t = u
    OBVIOUS
  <2>2. /\ Safe(v, base, C, Cs, A, A) /\ e = View(v.memory, Database)
        /\ J = View(v.memory, Journal) /\ Writable(e, J, C, A, kept, c)
        /\ t = PagesWritten(v, Database, kept, c)
    BY <1>9, <1>10, <2>1
  <2> HIDE DEF cut, E, u
  <2>3. Safe(t, base, C, Cs, A, A)
    BY <2>2, PagesChanged
  <2>4. HasPages(v.memory, t.memory, e, J, kept, c)
    BY <2>2, PagesChanged
  <2>5. QED
    BY <2>1, <2>3, <2>4
<1> DEFINE D2 == View(u.memory, Database)
<1> HIDE DEF cut, E, u
<1>12. /\ DOMAIN u.memory = DOMAIN s.memory /\ View(u.memory, Journal) = J
       /\ DOMAIN D2 = 1..size
       /\ \A p \in kept : D2[p] = c[p]
       /\ \A p \in (1..size) \ kept : D2[p] = D[p]
  BY <1>5, <1>9, <1>11 DEF HasPages
<1>13. \A p \in 1..MaxPages : Page(D2, p) = Page(C, p)
  <2> SUFFICES ASSUME NEW p \in 1..MaxPages PROVE Page(D2, p) = Page(c, p)
    BY <1>7
  <2>1. CASE p \in kept
    BY <1>5, <1>6, <1>12, <2>1 DEF Page
  <2>2. CASE p \in (1..size) \ kept
    <3>1. Page(c, p) = Page(D, p)
      BY <1>2, <1>4, <1>6, <2>2 DEF Found
    <3>2. QED
      BY <1>5, <1>12, <2>2, <3>1 DEF Page
  <2>3. CASE p \notin 1..size
    BY <1>6, <1>12, <2>3 DEF Page
  <2>4. QED
    BY <1>5, <2>1, <2>2, <2>3
<1>14. Safe(Deleted(u, Journal), base, C, Cs, A, A) /\ Unjournaled(u, Deleted(u, Journal))
  <2>1. PICK e : e = D2
    OBVIOUS
  <2>2. /\ e = View(u.memory, Database) /\ C \in Cs /\ Cs \subseteq Cs
        /\ \A p \in 1..MaxPages : Page(e, p) = Page(C, p)
        /\ Journal \in DOMAIN u.memory
    BY <1>3, <1>4, <1>12, <1>13, <2>1
  <2> HIDE DEF D2
  <2>3. QED
    BY <1>11, <2>2, JournalDeleted
<1>15. QED
  BY <1>8, <1>12, <1>14 DEF Unjournaled

-----------------------------------------------------------------------------
(* An item has been stored *)

\* The items move up by one place.
Moved(s, t) ==
  /\ WellFormed(t) /\ t.memory = s.memory
  /\ Count(s) = Count(t) + 1
  /\ \A n \in 1..Count(t) : It(t, n) = It(s, n + 1)

\* The next item starts when one has been stored.
LEMMA StartedIs ==
  ASSUME NEW s, WellFormed(s), Count(s) > 0,
         NEW t, t = Started([s EXCEPT !.running = NoItem])
  PROVE  Moved(s, t)
<1>1. /\ s \in States
      /\ s.queue \in Seq(WorkItems) /\ s.running \in WorkItems
      /\ s.memory \in FileMaps /\ Len(s.queue) \in Nat /\ Count(s) = Len(s.queue) + 1
      /\ s = [memory |-> s.memory, queue |-> s.queue, running |-> s.running]
  BY ItemsAre DEF WellFormed, States, Count
<1>2. PICK u : u = [s EXCEPT !.running = NoItem]
  OBVIOUS
<1>3. u = [memory |-> s.memory, queue |-> s.queue, running |-> NoItem]
  BY <1>1, <1>2
<1>4. NoItem \notin WorkItems
  BY DEF NoItem, WorkItems
<1>5. CASE s.queue = <<>>
  <2>1. t = [memory |-> s.memory, queue |-> <<>>, running |-> NoItem]
    BY <1>2, <1>3, <1>5 DEF Started
  <2>2. t \in States
    <3>1. t = [memory |-> s.memory, queue |-> s.queue, running |-> NoItem]
      BY <1>5, <2>1
    <3>2. QED
      BY <1>1, <3>1 DEF States
  <2>3. Count(t) = 0 /\ Count(s) = 1
    BY <1>1, <1>5, <2>1 DEF Count
  <2>4. QED
    BY <2>1, <2>2, <2>3 DEF Moved, WellFormed
<1>6. CASE s.queue # <<>>
  <2>1. t = [memory |-> s.memory, queue |-> Tail(s.queue), running |-> Head(s.queue)]
    <3>1. t = [u EXCEPT !.running = Head(u.queue), !.queue = Tail(@)]
      BY <1>2, <1>3, <1>6 DEF Started
    <3>2. QED
      BY <1>3, <3>1
  <2>2. /\ Head(s.queue) = s.queue[1] /\ s.queue[1] \in WorkItems
        /\ Tail(s.queue) \in Seq(WorkItems)
        /\ Len(Tail(s.queue)) = Len(s.queue) - 1 /\ Len(s.queue) > 0
        /\ \A i \in 1..(Len(s.queue) - 1) : Tail(s.queue)[i] = s.queue[i + 1]
    <3>1. PICK q : q = s.queue
      OBVIOUS
    <3>2. q \in Seq(WorkItems) /\ q # <<>>
      BY <1>1, <1>6, <3>1
    <3>3. /\ Tail(q) \in Seq(WorkItems) /\ Len(Tail(q)) = Len(q) - 1
          /\ \A i \in 1..Len(Tail(q)) : Tail(q)[i] = q[i + 1]
      BY <3>2, HeadTailProperties
    <3>4. Len(q) > 0 /\ Head(q) = q[1] /\ q[1] \in WorkItems
      BY <3>2
    <3>5. QED
      BY <3>1, <3>3, <3>4
  <2> DEFINE r == Tail(s.queue)
             x == Head(s.queue)
  <2> HIDE DEF r, x
  <2>3. /\ t = [memory |-> s.memory, queue |-> r, running |-> x]
        /\ r \in Seq(WorkItems) /\ x \in WorkItems /\ x = s.queue[1]
        /\ Len(r) = Len(s.queue) - 1 /\ Len(s.queue) > 0
        /\ \A i \in 1..(Len(s.queue) - 1) : r[i] = s.queue[i + 1]
    BY <2>1, <2>2 DEF r, x
  <2>7. t \in States /\ WellFormed(t)
    <3>1. t \in States
      BY <1>1, <2>3 DEF States
    <3>2. QED
      BY <1>4, <2>3, <3>1 DEF WellFormed
  <2>4. Count(t) = Len(s.queue) /\ t.running # NoItem
    BY <1>1, <1>4, <2>3 DEF Count
  <2>5. ASSUME NEW n \in 1..Count(t) PROVE It(t, n) = It(s, n + 1)
    <3>1. n \in 1..Len(s.queue) /\ n + 1 # 1 /\ (n + 1) - 1 = n
      BY <2>4
    <3>2. It(s, n + 1) = s.queue[n]
      BY <3>1 DEF It
    <3>3. CASE n = 1
      BY <2>3, <3>2, <3>3 DEF It
    <3>4. CASE n # 1
      <4>1. n - 1 \in 1..(Len(s.queue) - 1) /\ (n - 1) + 1 = n
        BY <1>1, <3>1, <3>4
      <4>2. r[n - 1] = s.queue[n]
        BY <2>3, <4>1
      <4>3. QED
        BY <2>3, <3>2, <3>4, <4>2 DEF It
    <3>5. QED
      BY <3>3, <3>4
  <2>6. QED
    <3>1. t.memory = s.memory /\ Count(s) = Count(t) + 1
      BY <1>1, <2>3, <2>4
    <3>2. QED
      BY <2>5, <2>7, <3>1 DEF Moved
<1>7. QED
  BY <1>5, <1>6

\* What is behind an item is behind it still, in its new place.
LEMMA MovedBehind ==
  ASSUME NEW s, WellFormed(s), NEW t, Moved(s, t), NEW k \in Nat,
         NEW base, Behind(s, k + 1, base)
  PROVE  Behind(t, k, base) /\ (JournalFirst(t, k) => JournalFirst(s, k + 1))
<1>1. Count(s) \in Nat /\ Count(t) \in Nat /\ Count(s) = Count(t) + 1
  BY ItemsAre DEF Moved
<1>2. /\ \A n \in Late(t, k) : n + 1 \in Late(s, k + 1) /\ It(t, n) = It(s, n + 1)
      /\ \A n \in Late(t, k) : n \in Nat
  <2>1. \A n \in Late(t, k) : n \in 1..Count(t)
    BY <1>1 DEF Late
  <2>2. \A n \in Late(t, k) : n + 1 \in Late(s, k + 1) /\ n \in Nat
    BY <1>1 DEF Late
  <2>3. QED
    BY <2>1, <2>2 DEF Moved
<1>3. \A m \in Late(s, k + 1) : \E n \in Late(t, k) : m = n + 1
  <2>1. ASSUME NEW m \in Late(s, k + 1) PROVE \E n \in Late(t, k) : m = n + 1
    <3>1. m - 1 \in Late(t, k) /\ m = (m - 1) + 1
      BY <1>1 DEF Late
    <3>2. QED
      BY <3>1
  <2>2. QED
    BY <2>1
<1>4. \A n \in Late(t, k) : It(t, n) = It(s, n + 1)
  BY <1>2
<1>5. ASSUME NEW kind, NEW f
      PROVE  LateOf(t, k, kind, f) <=> LateOf(s, k + 1, kind, f)
  <2>1. LateOf(t, k, kind, f) => LateOf(s, k + 1, kind, f)
    BY <1>2 DEF LateOf, Is
  <2>2. LateOf(s, k + 1, kind, f) => LateOf(t, k, kind, f)
    BY <1>2, <1>3 DEF LateOf, Is
  <2>3. QED
    BY <2>1, <2>2
<1>6. Orderly(t, k)
  <2>1. Orderly(s, k + 1)
    BY DEF Behind
  <2>2. \A m, n \in Late(t, k) : (m + 1 = n + 1 => m = n) /\ (m + 1 < n + 1 => m < n)
    BY <1>2
  <2>3. QED
    BY <1>2, <2>1, <2>2 DEF Orderly
<1>7. ASSUME NEW f \in Files PROVE FileBehind(t, k, base, f)
  <2>1. FileBehind(s, k + 1, base, f) /\ t.memory = s.memory
    BY DEF Behind, Moved
  <2>2. \A n \in Late(t, k) : Is(t, n, "write", f) => Is(s, n + 1, "write", f)
    BY <1>2 DEF Is
  <2>3. QED
    BY <1>2, <1>5, <2>1, <2>2 DEF FileBehind
<1>8. JournalFirst(t, k) => JournalFirst(s, k + 1)
  <2> SUFFICES ASSUME JournalFirst(t, k) PROVE JournalFirst(s, k + 1)
    OBVIOUS
  <2>1. PICK m \in Late(t, k) :
          /\ Is(t, m, "write", Journal)
          /\ \A n \in Late(t, k) : Is(t, n, "write", Database) => m < n
    BY DEF JournalFirst
  <2>2. m + 1 \in Late(s, k + 1) /\ Is(s, m + 1, "write", Journal)
    BY <1>2, <2>1 DEF Is
  <2>3. ASSUME NEW j \in Late(s, k + 1), Is(s, j, "write", Database) PROVE m + 1 < j
    <3>1. PICK n \in Late(t, k) : j = n + 1
      BY <1>3
    <3>2. Is(t, n, "write", Database)
      BY <1>2, <2>3, <3>1 DEF Is
    <3>3. m < n /\ m \in Nat /\ n \in Nat
      BY <1>2, <2>1, <3>1, <3>2
    <3>4. QED
      BY <3>1, <3>3
  <2>4. QED
    BY <2>2, <2>3 DEF JournalFirst
<1>9. QED
  BY <1>6, <1>7, <1>8 DEF Behind

\* An item that only waited is frozen as it starts to be stored.
LEMMA BehindNext ==
  ASSUME NEW s, NEW h, NEW L, Traced(s, h, L), NEW n \in L..Count(s)
  PROVE  Behind(s, n, Reached(s, h[L], n))
<1> DEFINE R == Reached(s, h[L], n)
<1>1. L \in Nat /\ Count(s) \in Nat /\ s.memory \in FileMaps /\ n \in Nat
  BY ItemsAre DEF Traced, Frozen
<1>2. \A m \in Late(s, n) : m \in Late(s, L)
  BY <1>1 DEF Late
<1>3. Orderly(s, n)
  <2>1. Orderly(s, L)
    BY DEF Traced, Behind
  <2>2. QED
    BY <1>2, <2>1 DEF Orderly
<1>4. /\ DOMAIN R = {f \in DOMAIN s.memory : ~LateOf(s, n, "create", f)}
      /\ \A f \in Files :
           View(R, f) =
             IF LateOf(s, n, "write", f) THEN View(h[L], f) ELSE View(s.memory, f)
  BY ReachedIs
<1> HIDE DEF R
<1>5. ASSUME NEW f \in Files PROVE FileBehind(s, n, R, f)
  <2>1. FileBehind(s, L, h[L], f)
    BY DEF Traced, Behind
  <2>2. LateOf(s, n, "create", f) => f \in DOMAIN s.memory
    <3>1. LateOf(s, n, "create", f) => LateOf(s, L, "create", f)
      BY <1>2 DEF LateOf
    <3>2. QED
      BY <2>1, <3>1 DEF FileBehind
  <2>3. \A m \in Late(s, n) : Is(s, m, "write", f) =>
          /\ f \in DOMAIN s.memory /\ LateOf(s, n, "write", f)
          /\ View(s.memory, f) = Over(It(s, m).data, View(h[L], f))
    BY <1>2, <2>1 DEF FileBehind, LateOf
  <2>4. QED
    BY <1>4, <2>2, <2>3 DEF FileBehind
<1>6. QED
  BY <1>3, <1>5 DEF Behind, R

\* Once the first item has been stored, what is stored is good, and it is what
\* the items that are left go on from.
LEMMA ItemStored ==
  ASSUME NEW s, NEW base, NEW C, NEW Cs, NEW A, Core(s, base, C, Cs, A, A),
         Count(s) > 0, NEW t, Moved(s, t),
         NEW b, b = AfterItem(base, It(s, 1))
  PROVE  Core(t, b, C, Cs, A, A) /\ Good(b, Cs, A) /\ b \in FileMaps
<1>1. PICK h, L : h[0] = base /\ Kept(s, h, L, C, Cs, A, A)
  BY DEF Core
<1>2. /\ Traced(s, h, L) /\ C \in Cs /\ \A n \in 0..L : Good(h[n], Cs, A)
  BY <1>1 DEF Kept
<1>3. /\ WellFormed(s) /\ Behind(s, L, h[L]) /\ L \in Nat /\ L <= Count(s) /\ L > 0
      /\ h \in [0..L -> FileMaps]
      /\ \A n \in 1..L : h[n] = AfterItem(h[n - 1], It(s, n))
      /\ L > 1 => Barrier(It(s, L))
      /\ Count(s) \in Nat
  BY <1>2, ItemsAre DEF Traced, Frozen
<1>4. h[1] = b /\ 1 \in 0..L
  <2>1. 1 \in 1..L /\ 1 \in 0..L /\ 1 - 1 = 0
    BY <1>3
  <2>2. h[1] = AfterItem(h[1 - 1], It(s, 1))
    BY <1>3, <2>1
  <2>3. QED
    BY <1>1, <2>1, <2>2
<1>5. Good(b, Cs, A) /\ b \in FileMaps
  BY <1>2, <1>3, <1>4
<1>6. /\ WellFormed(t) /\ t.memory = s.memory /\ Count(t) \in Nat
      /\ Count(s) = Count(t) + 1
      /\ \A n \in 1..Count(t) : It(t, n) = It(s, n + 1)
  BY ItemsAre DEF Moved
<1> DEFINE D == View(s.memory, Database)
           J == View(s.memory, Journal)
<1>7. /\ Phase(D, J, View(h[L], Journal), C, A, A)
      /\ JournalFirst(s, L) => Ahead(D, J, View(h[L], Database), C, A)
  BY <1>1 DEF Kept
<1>8. CASE L > 1 \/ Count(s) = 1
  <2> DEFINE k == L - 1
             g == [n \in 0..k |-> h[n + 1]]
  <2>1. k \in Nat /\ k <= Count(t) /\ (Count(t) > 0 => k > 0) /\ k + 1 = L
    BY <1>3, <1>6, <1>8
  <2>2. \A n \in 0..k : n + 1 \in 0..L /\ n + 1 \in 1..L
    BY <1>3
  <2>3. g \in [0..k -> FileMaps] /\ g[k] = h[L] /\ g[0] = b
    BY <1>3, <1>4, <2>1, <2>2
  <2>4. ASSUME NEW n \in 1..k PROVE g[n] = AfterItem(g[n - 1], It(t, n))
    <3>1. /\ n \in 0..k /\ n - 1 \in 0..k /\ n + 1 \in 1..L /\ n \in 1..Count(t)
          /\ (n - 1) + 1 = n /\ (n + 1) - 1 = n
      BY <1>3, <1>6, <2>1
    <3>2. g[n] = h[n + 1] /\ g[n - 1] = h[n]
      BY <3>1
    <3>3. h[n + 1] = AfterItem(h[n], It(s, n + 1))
      BY <1>3, <3>1
    <3>4. It(t, n) = It(s, n + 1)
      BY <1>6, <3>1
    <3> HIDE DEF g
    <3>5. QED
      BY <3>2, <3>3, <3>4
  <2>5. k > 1 => Barrier(It(t, k))
    <3>1. k > 1 => k \in 1..Count(t) /\ L > 1
      BY <2>1
    <3>2. k > 1 => It(t, k) = It(s, L)
      BY <1>6, <2>1, <3>1
    <3>3. QED
      BY <1>3, <3>1, <3>2
  <2>6. \A n \in 0..k : Good(g[n], Cs, A)
    BY <1>2, <2>2
  <2> HIDE DEF g, k
  <2>7. Behind(s, k + 1, h[L])
    BY <1>3, <2>1
  <2>8. Behind(t, k, h[L]) /\ (JournalFirst(t, k) => JournalFirst(s, L))
    BY <1>3, <2>1, <2>7, MovedBehind
  <2>9. Traced(t, g, k)
    BY <1>6, <2>1, <2>3, <2>4, <2>5, <2>8 DEF Traced, Frozen
  <2>10. Kept(t, g, k, C, Cs, A, A)
    BY <1>2, <1>6, <1>7, <2>3, <2>6, <2>8, <2>9 DEF Kept
  <2>11. QED
    BY <1>5, <2>3, <2>10 DEF Core
<1>9. CASE L = 1 /\ Count(s) # 1
  <2> DEFINE R == Reached(s, h[L], 2)
             g == [n \in 0..1 |-> IF n = 0 THEN b ELSE R]
  <2>1. /\ 2 \in L..Count(s) /\ 2 \in Late(s, L) /\ 1 \in 1..Count(t) /\ 2 \in 0..Count(s)
    BY <1>3, <1>6, <1>9 DEF Late
  <2>2. R \in FileMaps
    BY <1>2, <2>1, ReachedIs
  <2>3. R = AfterItem(b, It(s, 2))
    <3>1. Reached(s, h[L], L) = h[L]
      BY <1>2, ReachedEnds
    <3>2. Reached(s, h[L], 2) = AfterItem(Reached(s, h[L], 2 - 1), It(s, 2))
      BY <1>2, <2>1, ReachedNext
    <3>3. 2 - 1 = L
      BY <1>9
    <3>4. QED
      BY <1>4, <1>9, <3>1, <3>2, <3>3
  <2>4. It(t, 1) = It(s, 2)
    BY <1>6, <2>1
  <2>5. Behind(s, 1 + 1, R)
    BY <1>2, <2>1, BehindNext
  <2> HIDE DEF R
  <2>6. Behind(t, 1, R) /\ (JournalFirst(t, 1) => JournalFirst(s, 2))
    BY <1>3, <2>5, MovedBehind
  <2>7. /\ g \in [0..1 -> FileMaps] /\ g[0] = b /\ g[1] = R
        /\ \A n \in 1..1 : n = 1 /\ g[n] = AfterItem(g[n - 1], It(t, n))
    <3>1. g \in [0..1 -> FileMaps] /\ g[0] = b /\ g[1] = R
      BY <1>5, <2>2
    <3> HIDE DEF g
    <3>2. \A n \in 1..1 : n = 1 /\ n - 1 = 0
      OBVIOUS
    <3>3. QED
      BY <2>3, <2>4, <3>1, <3>2
  <2>8. Good(R, Cs, A)
    <3>1. Whole(s, h, L)[2] = R
      BY <1>2, <2>1, WholeIs DEF R
    <3>2. Good(Whole(s, h, L)[2], Cs, A)
      BY <1>1, <2>1, AllGood
    <3>3. QED
      BY <3>1, <3>2
  <2>9. \A n \in 0..1 : Good(g[n], Cs, A)
    BY <1>5, <2>8
  <2> HIDE DEF g
  <2>10. Traced(t, g, 1)
    BY <1>6, <2>1, <2>6, <2>7 DEF Traced, Frozen
  <2>11. /\ View(R, Database) =
              IF LateOf(s, 2, "write", Database) THEN View(h[L], Database) ELSE D
         /\ View(R, Journal) =
              IF LateOf(s, 2, "write", Journal) THEN View(h[L], Journal) ELSE J
    BY <1>2, <2>1, ReachedIs DEF R, Files
  <2>12. Phase(D, J, View(R, Journal), C, A, A)
    <3>1. Phase(D, J, J, C, A, A)
      BY <1>7, FreshPhase DEF Phase
    <3>2. QED
      BY <1>7, <2>11, <3>1
  <2>13. JournalFirst(t, 1) => Ahead(D, J, View(R, Database), C, A)
    <3> SUFFICES ASSUME JournalFirst(s, 2)
                 PROVE  Ahead(D, J, View(R, Database), C, A)
      BY <2>6
    <3>1. CASE LateOf(s, 2, "write", Database)
      <4>1. \A n : n \in Late(s, L) <=> n = 2 \/ n \in Late(s, 2)
        BY <1>3, <1>9, <2>1 DEF Late
      <4>2. PICK m \in Late(s, 2) :
              /\ Is(s, m, "write", Journal)
              /\ \A n \in Late(s, 2) : Is(s, n, "write", Database) => m < n
        BY DEF JournalFirst
      <4>3. ~Is(s, 2, "write", Database)
        <5>1. PICK n \in Late(s, 2) : Is(s, n, "write", Database)
          BY <3>1 DEF LateOf
        <5>2. n # 2 /\ n \in Late(s, L)
          BY <4>1 DEF Late
        <5>3. Orderly(s, L)
          BY <1>3 DEF Behind
        <5>4. QED
          BY <2>1, <5>1, <5>2, <5>3 DEF Orderly, Is
      <4>4. JournalFirst(s, L)
        BY <4>1, <4>2, <4>3 DEF JournalFirst
      <4>5. QED
        BY <1>7, <2>11, <3>1, <4>4
    <3>2. CASE ~LateOf(s, 2, "write", Database)
      <4>1. View(R, Database) = D
        BY <2>11, <3>2
      <4>2. Sound(D, J) /\ Fits(D, J, C, A)
        BY <1>7 DEF Phase, Exact, Fits
      <4>3. QED
        BY <4>1, <4>2 DEF Ahead
    <3>3. QED
      BY <3>1, <3>2
  <2>14. Kept(t, g, 1, C, Cs, A, A)
    BY <1>2, <1>6, <2>7, <2>9, <2>10, <2>12, <2>13 DEF Kept
  <2>15. QED
    BY <1>5, <2>7, <2>14 DEF Core
<1>10. QED
  BY <1>3, <1>8, <1>9

-----------------------------------------------------------------------------
(* The invariant *)

\* The databases of a sequence of commits, and the last of them.
Commits(q) == {q[k] : k \in DOMAIN q}
Latest(q) == q[Len(q)]

\* While the worker is up, memory and items stem from what is stored so that
\* a crash finds, however many items have been stored, the database of some
\* commit, but for pages that were written before their transaction ended.  A
\* transaction that left its journal hot has written such pages, and the item
\* that closes the files is the last.
FilesInv ==
  /\ worker \in {"down", "open", "closing"}
  /\ version \in Nat /\ spilled \subseteq 1..MaxTransactions
  /\ committed \in Seq(Contents) /\ committed # <<>>
  /\ stored \in FileMaps /\ Good(stored, Commits(committed), spilled)
  /\ worker = "down" => memory = Empty /\ queue = <<>> /\ running = NoItem
  /\ worker # "down" =>
       /\ Core(Now, stored, Latest(committed), Commits(committed), spilled, spilled)
       /\ Database \in DOMAIN memory
       /\ \A n \in 1..Count(Now) :
            It(Now, n).kind = "close" => worker = "closing" /\ n = Count(Now)
  /\ worker = "open" /\ HotC(View(memory, Journal)) => Current \in spilled

\* One commit, and one more.
LEMMA CommitsAre ==
  /\ \A c \in Contents : /\ <<c>> \in Seq(Contents) /\ <<c>> # <<>>
                         /\ Commits(<<c>>) = {c} /\ Latest(<<c>>) = c
  /\ \A q \in Seq(Contents), c \in Contents :
       /\ Append(q, c) \in Seq(Contents) /\ Append(q, c) # <<>>
       /\ Commits(Append(q, c)) = Commits(q) \cup {c}
       /\ Latest(Append(q, c)) = c
<1>1. ASSUME NEW c \in Contents
      PROVE  /\ <<c>> \in Seq(Contents) /\ <<c>> # <<>>
             /\ Commits(<<c>>) = {c} /\ Latest(<<c>>) = c
  <2>1. <<c>> \in Seq(Contents) /\ Len(<<c>>) = 1 /\ <<c>>[1] = c /\ <<c>> # <<>>
    OBVIOUS
  <2>2. DOMAIN <<c>> = {1}
    OBVIOUS
  <2>3. QED
    BY <2>1, <2>2 DEF Commits, Latest
<1>2. ASSUME NEW q \in Seq(Contents), NEW c \in Contents
      PROVE  /\ Append(q, c) \in Seq(Contents) /\ Append(q, c) # <<>>
             /\ Commits(Append(q, c)) = Commits(q) \cup {c}
             /\ Latest(Append(q, c)) = c
  <2> DEFINE r == Append(q, c)
             N == Len(q)
  <2>1. /\ r \in Seq(Contents) /\ N \in Nat /\ Len(r) = N + 1
        /\ \A i \in 1..N : r[i] = q[i]
        /\ r[N + 1] = c
        /\ DOMAIN q = 1..N /\ DOMAIN r = 1..(N + 1)
    BY AppendProperties, LenProperties
  <2> HIDE DEF r, N
  <2>2. r # <<>>
    <3>1. Len(r) # 0
      BY <2>1
    <3>2. QED
      BY <3>1, EmptySeq
  <2>3. \A i : i \in 1..(N + 1) <=> i \in 1..N \/ i = N + 1
    BY <2>1
  <2>4. Commits(r) = Commits(q) \cup {c}
    BY <2>1, <2>3 DEF Commits
  <2>5. Latest(r) = c
    BY <2>1 DEF Latest
  <2>6. QED
    BY <2>1, <2>2, <2>4, <2>5 DEF r
<1>3. QED
  BY <1>1, <1>2

\* Pages that may tear a commit may become more.
LEMMA CoreGrows ==
  ASSUME NEW s, NEW base, NEW C, NEW Cs, NEW A, NEW A1, A \subseteq A1,
         Core(s, base, C, Cs, A, A)
  PROVE  Core(s, base, C, Cs, A1, A1)
<1>1. PICK h, L : h[0] = base /\ Kept(s, h, L, C, Cs, A, A)
  BY DEF Core
<1>2. \A n \in 0..L : Good(h[n], Cs, A1)
  BY <1>1, GoodGrows DEF Kept, Good
<1>3. \A D, J, JL : Phase(D, J, JL, C, A, A) => Phase(D, J, JL, C, A1, A1)
  BY DEF Phase, Fits
<1>4. \A D, J, DL : Ahead(D, J, DL, C, A) => Ahead(D, J, DL, C, A1)
  BY DEF Ahead, Fits
<1>5. Kept(s, h, L, C, Cs, A1, A1)
  BY <1>1, <1>2, <1>3, <1>4 DEF Kept
<1>6. QED
  BY <1>1, <1>5 DEF Core

\* Before a journal is hot, a transaction may change pages that what is stored
\* does not have yet.
LEMMA CoreOpens ==
  ASSUME NEW s, NEW base, NEW C, NEW Cs, NEW A, NEW A1, A \subseteq A1,
         Core(s, base, C, Cs, A, A), ~HotC(View(s.memory, Journal))
  PROVE  Core(s, base, C, Cs, A, A1)
<1>1. PICK h, L : h[0] = base /\ Kept(s, h, L, C, Cs, A, A)
  BY DEF Core
<1>2. \A D, J, JL : Phase(D, J, JL, C, A, A) /\ ~HotC(J) => Phase(D, J, JL, C, A, A1)
  BY DEF Phase, Fits
<1>3. \A D, J, DL : Ahead(D, J, DL, C, A) => Ahead(D, J, DL, C, A1)
  BY DEF Ahead, Fits
<1>4. Kept(s, h, L, C, Cs, A, A1)
  BY <1>1, <1>2, <1>3 DEF Kept
<1>5. QED
  BY <1>1, <1>4 DEF Core

\* A state is what the variables say it is.
LEMMA NowIs ==
  ASSUME NEW s, WellFormed(s)
  PROVE  s = [memory |-> s.memory, queue |-> s.queue, running |-> s.running]
BY DEF WellFormed, States

\* While the worker is open its state is safe.
LEMMA OpenIsSafe ==
  ASSUME FilesInv, worker = "open"
  PROVE  /\ Safe(Now, stored, Latest(committed), Commits(committed), spilled, spilled)
         /\ Now.memory = memory /\ Now.queue = queue /\ Now.running = running
<1>1. Now.memory = memory /\ Now.queue = queue /\ Now.running = running
  BY DEF Now
<1>2. /\ Core(Now, stored, Latest(committed), Commits(committed), spilled, spilled)
      /\ Database \in DOMAIN Now.memory
      /\ \A n \in 1..Count(Now) : It(Now, n).kind # "close"
  BY <1>1 DEF FilesInv
<1>3. QED
  BY <1>1, <1>2 DEF Safe, Unclosed

\* A call of an open worker that leaves its state safe keeps the invariant.
LEMMA BecomesSafe ==
  ASSUME NEW u, Become(u), worker' = "open",
         version' \in Nat, spilled' \subseteq 1..MaxTransactions,
         committed' \in Seq(Contents), committed' # <<>>,
         stored' \in FileMaps, Good(stored', Commits(committed'), spilled'),
         Safe(u, stored', Latest(committed'), Commits(committed'), spilled', spilled'),
         HotC(View(u.memory, Journal)) => version' + 1 \in spilled'
  PROVE  FilesInv'
<1>1. WellFormed(u)
  BY SafeHas DEF Safe
<1>2. Now' = u /\ memory' = u.memory
  BY <1>1, NowIs DEF Now, Become
<1>3. PICK v : v = Now'
  OBVIOUS
<1>4. /\ Core(v, stored', Latest(committed'), Commits(committed'), spilled', spilled')
      /\ Database \in DOMAIN memory'
      /\ \A n \in 1..Count(v) : It(v, n).kind # "close"
  BY <1>2, <1>3 DEF Safe, Unclosed
<1>5. QED
  BY <1>2, <1>3, <1>4 DEF FilesInv, Current

\* A page of a transaction that goes on is written.
LEMMA SpillKeeps ==
  ASSUME FilesInv, NEW p \in 1..MaxPages, Spill(p)
  PROVE  FilesInv'
<1>1. PICK C, Cs, A, D : /\ C = Latest(committed) /\ Cs = Commits(committed)
                         /\ A = spilled' /\ D = View(memory, Database)
  OBVIOUS
<1>2. /\ Safe(Now, stored, C, Cs, spilled, spilled)
      /\ Now.memory = memory /\ worker = "open"
  BY <1>1, OpenIsSafe DEF Spill
<1>3. A = spilled \cup {Current} /\ Current \in Nat /\ Current \in A
      /\ A \subseteq 1..MaxTransactions
  BY <1>1, FilesAssumption DEF FilesInv, Spill, Current
<1>4. Safe(Now, stored, C, Cs, A, A)
  BY <1>2, <1>3, CoreGrows DEF Safe
<1>5. D \in Contents /\ memory[Database] = D /\ Spans(D)
  BY <1>1, <1>2, SafeHas DEF Safe, View, Sound
<1> DEFINE t == Journaled(Now, {p})
           K == View(t.memory, Journal)
           u == Written(t, Database, One(p, Current))
<1>6. /\ Safe(t, stored, C, Cs, A, A)
      /\ View(t.memory, Database) = D /\ HotC(K)
      /\ p \in K[Header].kept \/ p \notin 1..K[Header].size
  <2>1. PICK pages : pages = {p}
    OBVIOUS
  <2>2. pages \subseteq 1..MaxPages /\ D = View(Now.memory, Database)
    BY <1>1, <1>2, <2>1
  <2>3. LET r == Journaled(Now, pages)
            k == View(r.memory, Journal)
        IN  /\ Safe(r, stored, C, Cs, A, A)
            /\ View(r.memory, Database) = D
            /\ HotC(k)
            /\ \A i \in pages : i \in k[Header].kept \/ i \notin 1..k[Header].size
    BY <1>4, <2>2, JournaledSafe
  <2>4. QED
    BY <2>1, <2>3
<1>7. Spans(Over(One(p, Current), D))
  <2>1. PICK m \in 0..MaxPages : DOMAIN D = 1..m
    BY <1>5 DEF Spans
  <2>2. Cardinality(DOMAIN D) = m
    BY <2>1, FilesAssumption, FS_Interval
  <2>3. p <= m + 1
    BY <1>5, <2>2 DEF Spill
  <2>4. DOMAIN Over(One(p, Current), D) = DOMAIN D \cup {p}
    BY DEF Over, One
  <2>5. 1..m \cup {p} = 1..m \/ (p = m + 1 /\ 1..m \cup {p} = 1..(m + 1))
    BY <2>1, <2>3, FilesAssumption
  <2>6. m + 1 \in 0..MaxPages \/ p # m + 1
    BY <2>1, FilesAssumption
  <2>7. QED
    BY <2>1, <2>4, <2>5, <2>6 DEF Spans
<1>8. Safe(u, stored, C, Cs, A, A)
  <2>1. PICK r, J, v : r = t /\ J = K /\ v = Current
    OBVIOUS
  <2>2. /\ Safe(r, stored, C, Cs, A, A) /\ D = View(r.memory, Database)
        /\ J = View(r.memory, Journal) /\ HotC(J)
        /\ v \in Nat \cup Headers /\ Spans(Over(One(p, v), D))
        /\ p \in J[Header].kept \/ p \notin 1..J[Header].size
        /\ v \in A
    BY <1>3, <1>6, <1>7, <2>1
  <2> HIDE DEF t, K
  <2>3. Safe(Written(r, Database, One(p, v)), stored, C, Cs, A, A)
    BY <2>2, DatabaseWritten
  <2>4. QED
    BY <2>1, <2>3
<1>9. Become(u)
  BY DEF Spill
<1> HIDE DEF u, t, K
<1>10. /\ worker' = "open" /\ version' = version /\ committed' = committed
       /\ stored' = stored
  BY <1>2 DEF Spill
<1>11. Good(stored, Cs, A) /\ stored \in FileMaps
  <2>1. spilled \subseteq A
    BY <1>3
  <2>2. QED
    BY <1>1, <2>1, GoodGrows DEF FilesInv, Good
<1>12. /\ version \in Nat /\ committed \in Seq(Contents) /\ committed # <<>>
  BY DEF FilesInv
<1>13. Safe(u, stored', Latest(committed'), Commits(committed'), spilled', spilled')
  BY <1>1, <1>8, <1>10
<1>14. Good(stored', Commits(committed'), spilled')
  BY <1>1, <1>10, <1>11
<1>15. version' + 1 \in spilled' /\ spilled' \subseteq 1..MaxTransactions
  BY <1>1, <1>3, <1>10 DEF Current
<1>16. QED
  BY <1>9, <1>10, <1>11, <1>12, <1>13, <1>14, <1>15, BecomesSafe

\* The numbers up to one, and pages behind them that leave no hole.
LEMMA NoHole ==
  ASSUME NEW m \in 0..MaxPages, NEW pages \in SUBSET (1..MaxPages),
         NEW size, 1..m \cup pages = 1..size, size \in Nat
  PROVE  \A k \in 0..MaxPages : \E n \in 0..MaxPages :
           1..m \cup {p \in pages : p <= k} = 1..n
<1>1. MaxPages \in Nat /\ m \in Nat /\ m <= MaxPages
  BY FilesAssumption
<1>2. size <= MaxPages /\ m <= size
  <2>1. \A p \in 1..m \cup pages : p <= MaxPages /\ p <= size /\ p \in Nat
    BY <1>1
  <2>2. size = 0 \/ size \in 1..m \cup pages
    OBVIOUS
  <2>3. m = 0 \/ m \in 1..m
    BY <1>1
  <2>4. QED
    BY <1>1, <2>1, <2>2, <2>3
<1>3. ASSUME NEW k \in 0..MaxPages
      PROVE  \E n \in 0..MaxPages : 1..m \cup {p \in pages : p <= k} = 1..n
  <2> DEFINE n == IF k <= m THEN m ELSE IF k <= size THEN k ELSE size
  <2>1. n \in 0..MaxPages /\ n \in Nat
    BY <1>1, <1>2
  <2>2. ASSUME NEW p PROVE p \in 1..m \cup {q \in pages : q <= k} <=> p \in 1..n
    <3>1. p \in 1..m \cup pages <=> p \in 1..size
      OBVIOUS
    <3>2. CASE k <= m
      BY <1>1, <3>1, <3>2
    <3>3. CASE ~(k <= m)
      BY <1>1, <1>2, <3>1, <3>3
    <3>4. QED
      BY <3>2, <3>3
  <2>3. 1..m \cup {q \in pages : q <= k} = 1..n
    <3> HIDE DEF n
    <3>1. QED
      BY <2>2
  <2>4. QED
    BY <2>1, <2>3
<1>4. QED
  BY <1>3

\* A transaction is committed.
LEMMA CommitKeeps ==
  ASSUME FilesInv, NEW pages \in SUBSET (1..MaxPages), Commit(pages)
  PROVE  FilesInv'
<1>1. PICK C, Cs, G, D, J : /\ C = Latest(committed) /\ Cs = Commits(committed)
                            /\ G = spilled /\ D = View(memory, Database)
                            /\ J = View(memory, Journal)
  OBVIOUS
<1>2. PICK A : A = IF HotC(J) THEN G ELSE G \cup {Current}
  OBVIOUS
<1>3. /\ Safe(Now, stored, C, Cs, G, G)
      /\ Now.memory = memory /\ worker = "open"
  BY <1>1, OpenIsSafe DEF Commit
<1>4. Current \in Nat /\ Current \in A /\ (A = G \/ ~HotC(J))
  BY <1>1, <1>2, <1>3 DEF FilesInv, Current
<1>5. Safe(Now, stored, C, Cs, G, A)
  <2>1. CASE HotC(J)
    BY <1>2, <1>3, <2>1
  <2>2. CASE ~HotC(J)
    <3>1. G \subseteq A /\ ~HotC(View(Now.memory, Journal))
      BY <1>1, <1>2, <1>3, <2>2
    <3>2. QED
      BY <1>3, <3>1, CoreOpens DEF Safe
  <2>3. QED
    BY <2>1, <2>2
<1>6. D \in Contents /\ memory[Database] = D /\ Spans(D) /\ memory \in FileMaps
  BY <1>1, <1>3, SafeHas DEF Safe, View, Sound
<1> DEFINE t == Journaled(Now, pages)
           K == View(t.memory, Journal)
           content == [p \in pages |-> Current]
           u == PagesWritten(t, Database, pages, content)
           E == View(u.memory, Database)
           r == Deleted(u, Journal)
           size == Cardinality(DOMAIN memory[Database] \cup pages)
<1>7. /\ Safe(t, stored, C, Cs, G, A)
      /\ View(t.memory, Database) = D /\ HotC(K) /\ Journal \in DOMAIN t.memory
      /\ \A p \in pages : p \in K[Header].kept \/ p \notin 1..K[Header].size
  <2>1. D = View(Now.memory, Database) /\ pages \subseteq 1..MaxPages
        /\ (A = G \/ ~HotC(View(Now.memory, Journal)))
    BY <1>1, <1>3, <1>4
  <2>2. LET b == Journaled(Now, pages)
            k == View(b.memory, Journal)
        IN  /\ Safe(b, stored, C, Cs, G, A)
            /\ DOMAIN b.memory = DOMAIN Now.memory \cup {Journal}
            /\ View(b.memory, Database) = D
            /\ HotC(k)
            /\ \A i \in pages : i \in k[Header].kept \/ i \notin 1..k[Header].size
    BY <1>5, <2>1, JournaledSafe
  <2>3. QED
    BY <2>2
<1>8. Become(r) /\ committed' = Append(committed, u.memory[Database])
      /\ DOMAIN D \cup pages = 1..size
  BY <1>6 DEF Commit
<1>9. Writable(D, K, C, A, pages, content)
  <2>1. PICK m \in 0..MaxPages : DOMAIN D = 1..m
    BY <1>6 DEF Spans
  <2>2. size \in Nat
    <3>1. IsFiniteSet(1..MaxPages)
      BY FilesAssumption, FS_Interval
    <3>2. DOMAIN D \cup pages \subseteq 1..MaxPages
      BY <2>1, FilesAssumption
    <3>3. IsFiniteSet(DOMAIN D \cup pages)
      BY <3>1, <3>2, FS_Subset
    <3>4. QED
      BY <1>6, <3>3, FS_CardinalityType
  <2>3. \A k \in 0..MaxPages : \E n \in 0..MaxPages :
          1..m \cup {p \in pages : p <= k} = 1..n
    <3>1. PICK z \in Nat : z = size
      BY <2>2
    <3>2. 1..m \cup pages = 1..z
      BY <1>8, <2>1, <3>1
    <3> HIDE DEF size
    <3>3. QED
      BY <2>1, <3>1, <3>2, NoHole
  <2>4. \A p \in pages : content[p] = Current
    OBVIOUS
  <2> HIDE DEF content, K, t
  <2>5. QED
    BY <1>4, <1>7, <2>1, <2>3, <2>4 DEF Writable
<1>10. /\ Safe(u, stored, C, Cs, G, A)
       /\ HasPages(t.memory, u.memory, D, K, pages, content)
  <2>1. PICK b, k, c : b = t /\ k = K /\ c = content
    OBVIOUS
  <2>2. /\ Safe(b, stored, C, Cs, G, A) /\ D = View(b.memory, Database)
        /\ k = View(b.memory, Journal) /\ Writable(D, k, C, A, pages, c)
    BY <1>7, <1>9, <2>1
  <2> HIDE DEF t, K, content
  <2>3. PICK v : v = PagesWritten(b, Database, pages, c)
    OBVIOUS
  <2>4. Safe(v, stored, C, Cs, G, A)
    BY <2>2, <2>3, PagesChanged
  <2>5. HasPages(b.memory, v.memory, D, k, pages, c)
    BY <2>2, <2>3, PagesChanged
  <2>6. QED
    BY <2>1, <2>3, <2>4, <2>5
<1> HIDE DEF u, t, K, content, size
<1>11. /\ Journal \in DOMAIN u.memory /\ E \in Contents
       /\ u.memory[Database] = E
  <2>1. DOMAIN u.memory = DOMAIN t.memory
    BY <1>10 DEF HasPages
  <2>2. E \in Contents
    BY <1>10, SafeHas DEF Safe
  <2>3. QED
    BY <1>7, <1>10, <2>1, <2>2 DEF Safe, View
<1>12. /\ Safe(r, stored, E, Cs \cup {E}, G, G) /\ Unjournaled(u, r)
  <2>1. PICK e, Cs1, x : e = E /\ Cs1 = Cs \cup {E} /\ x = r
    OBVIOUS
  <2>2. /\ e = View(u.memory, Database) /\ e \in Cs1 /\ Cs \subseteq Cs1
        /\ \A p \in 1..MaxPages : Page(e, p) = Page(e, p)
        /\ x = Deleted(u, Journal)
    BY <2>1
  <2> HIDE DEF E, r
  <2>3. Safe(x, stored, e, Cs1, G, G)
    BY <1>10, <1>11, <2>2, JournalDeleted
  <2>4. Unjournaled(u, x)
    BY <1>10, <1>11, <2>2, <2>3, JournalDeleted
  <2>5. QED
    BY <2>1, <2>3, <2>4
<1> HIDE DEF E, r
<1>13. /\ committed \in Seq(Contents) /\ version \in Nat /\ spilled \subseteq 1..MaxTransactions
       /\ stored \in FileMaps /\ Good(stored, Cs, G)
  BY <1>1 DEF FilesInv
<1>14. /\ committed' = Append(committed, E)
       /\ committed' \in Seq(Contents) /\ committed' # <<>>
       /\ Commits(committed') = Cs \cup {E} /\ Latest(committed') = E
  <2>1. committed' = Append(committed, E)
    BY <1>8, <1>11
  <2>2. QED
    BY <1>1, <1>11, <1>13, <2>1, CommitsAre
<1>15. /\ worker' = "open" /\ version' = Current
       /\ stored' = stored /\ spilled' = spilled
  BY <1>3 DEF Commit
<1>16. Good(stored, Cs \cup {E}, G)
  BY <1>13, GoodGrows DEF Good
<1>17. ~HotC(View(r.memory, Journal))
  BY <1>12, EmptyIs DEF Unjournaled, HotC
<1>18. Safe(r, stored', Latest(committed'), Commits(committed'), spilled', spilled')
  BY <1>1, <1>12, <1>14, <1>15
<1>19. Good(stored', Commits(committed'), spilled') /\ stored' \in FileMaps
  BY <1>1, <1>13, <1>14, <1>15, <1>16
<1>20. version' \in Nat /\ spilled' \subseteq 1..MaxTransactions
  BY <1>4, <1>13, <1>15
<1>21. QED
  BY <1>8, <1>14, <1>15, <1>17, <1>18, <1>19, <1>20, BecomesSafe

\* A transaction that wrote to the database is rolled back.
LEMMA RollbackKeeps ==
  ASSUME FilesInv, Rollback
  PROVE  FilesInv'
<1>1. PICK C, Cs, A, D, J : /\ C = Latest(committed) /\ Cs = Commits(committed)
                            /\ A = spilled /\ D = View(memory, Database)
                            /\ J = View(memory, Journal)
  OBVIOUS
<1>2. /\ Safe(Now, stored, C, Cs, A, A)
      /\ Now.memory = memory /\ worker = "open"
  BY <1>1, OpenIsSafe DEF Rollback
<1>3. /\ Sound(D, J) /\ Exact(D, J, C) /\ C \in Cs /\ memory \in FileMaps
      /\ memory[Database] = D
  BY <1>1, <1>2, SafeHas DEF Safe, View
<1>4. HotC(J) /\ Journal \in DOMAIN memory
  BY <1>1, HotIs DEF Rollback
<1> DEFINE u == IF D = Empty THEN Deleted(Now, Journal) ELSE PlayedBack(Now)
<1>5. Become(u)
  BY <1>3 DEF Rollback
<1>6. Safe(u, stored, C, Cs, A, A) /\ View(u.memory, Journal) = Empty
  <2>1. CASE D = Empty
    <3>1. PICK s, t : s = Now /\ t = Deleted(Now, Journal)
      OBVIOUS
    <3>2. \A p \in 1..MaxPages : Page(D, p) = Page(C, p)
      BY <1>3, <2>1 DEF Exact, Found
    <3>3. /\ Safe(s, stored, C, Cs, A, A) /\ Journal \in DOMAIN s.memory
          /\ D = View(s.memory, Database) /\ Cs \subseteq Cs
          /\ t = Deleted(s, Journal)
      BY <1>1, <1>2, <1>4, <3>1
    <3>4. Safe(t, stored, C, Cs, A, A)
      BY <1>3, <3>2, <3>3, JournalDeleted
    <3>5. Unjournaled(s, t)
      BY <1>3, <3>2, <3>3, <3>4, JournalDeleted
    <3>6. u = t
      BY <2>1, <3>1
    <3>7. QED
      BY <3>4, <3>5, <3>6 DEF Unjournaled
  <2>2. CASE D # Empty
    <3>1. PICK s, t : s = Now /\ t = PlayedBack(Now)
      OBVIOUS
    <3>2. /\ Safe(s, stored, C, Cs, A, A) /\ HotC(View(s.memory, Journal))
          /\ View(s.memory, Database) # Empty /\ t = PlayedBack(s)
      BY <1>1, <1>2, <1>4, <2>2, <3>1
    <3>3. Safe(t, stored, C, Cs, A, A)
      BY <3>2, PlayedBackSafe
    <3>4. View(t.memory, Journal) = Empty
      BY <3>2, <3>3, PlayedBackSafe
    <3>5. u = t
      BY <2>2, <3>1
    <3>6. QED
      BY <3>3, <3>4, <3>5
  <2>3. QED
    BY <2>1, <2>2
<1> HIDE DEF u
<1>7. /\ worker' = "open" /\ version' = Current /\ Current \in Nat
      /\ stored' = stored /\ spilled' = spilled /\ committed' = committed
  BY <1>2 DEF Rollback, FilesInv, Current
<1>8. ~HotC(View(u.memory, Journal))
  BY <1>6, EmptyIs DEF HotC
<1>9. /\ committed' \in Seq(Contents) /\ committed' # <<>>
      /\ version' \in Nat /\ spilled' \subseteq 1..MaxTransactions
      /\ stored' \in FileMaps /\ Good(stored', Commits(committed'), spilled')
      /\ Safe(u, stored', Latest(committed'), Commits(committed'), spilled', spilled')
  BY <1>1, <1>6, <1>7 DEF FilesInv
<1>10. QED
  BY <1>5, <1>7, <1>8, <1>9, BecomesSafe

\* The files are closed behind the items there are.
LEMMA CloseKeeps ==
  ASSUME FilesInv, Close
  PROVE  FilesInv'
<1>1. PICK C, Cs, A, D, J : /\ C = Latest(committed) /\ Cs = Commits(committed)
                            /\ A = spilled /\ D = View(memory, Database)
                            /\ J = View(memory, Journal)
  OBVIOUS
<1>2. /\ Safe(Now, stored, C, Cs, A, A)
      /\ Now.memory = memory /\ worker = "open"
  BY <1>1, OpenIsSafe DEF Close
<1>3. /\ Sound(D, J) /\ Covers(D, J) /\ Exact(D, J, C) /\ memory \in FileMaps
      /\ WellFormed(Now)
  BY <1>1, <1>2, SafeHas DEF Safe
<1> DEFINE x == Item("close", "none", Empty, 0)
           u == Submitted(Now, x)
<1>4. x \in WorkItems /\ Barrier(x) /\ memory = AfterItem(memory, x)
      /\ x.kind = "close"
  BY EmptyIs DEF Item, WorkItems, Kinds, Files, Barrier, AfterItem
<1>5. Become(u)
  BY DEF Close
<1>6. WithMemory(Now, memory) = Now
  BY DEF WithMemory, Now
<1> HIDE DEF x
<1>7. /\ Core(u, stored, C, Cs, A, A) /\ u.memory = memory
      /\ Count(u) = Count(Now) + 1 /\ It(u, Count(u)) = x
      /\ \A n \in 1..Count(Now) : It(u, n) = It(Now, n)
  <2>1. PICK s, F, t : s = Now /\ F = memory /\ t = Submitted(WithMemory(s, F), x)
    OBVIOUS
  <2>2. /\ Core(s, stored, C, Cs, A, A) /\ F \in FileMaps /\ F = AfterItem(s.memory, x)
        /\ Sound(View(F, Database), View(F, Journal))
        /\ Covers(View(F, Database), View(F, Journal))
        /\ Exact(View(F, Database), View(F, Journal), C)
    BY <1>1, <1>2, <1>3, <1>4, <2>1 DEF Safe
  <2>3. t = u
    BY <1>6, <2>1
  <2>4. Core(t, stored, C, Cs, A, A)
    BY <1>4, <2>1, <2>2, EndedCore
  <2>5. t.memory = F /\ Count(t) = Count(s) + 1
    BY <1>4, <2>1, <2>2, <2>4, EndedCore
  <2>6. It(t, Count(t)) = x
    BY <1>4, <2>1, <2>2, <2>4, EndedCore
  <2>7. \A n \in 1..Count(s) : It(t, n) = It(s, n)
    BY <1>4, <2>1, <2>2, <2>4, EndedCore
  <2>8. QED
    BY <2>1, <2>3, <2>4, <2>5, <2>6, <2>7
<1> HIDE DEF u
<1>8. WellFormed(u) /\ Count(u) \in Nat /\ Count(Now) \in Nat
  BY <1>3, <1>7, SafeHas, ItemsAre
<1>9. Now' = u /\ memory' = memory
  BY <1>5, <1>7, <1>8, NowIs DEF Now, Become
<1>10. \A n \in 1..Count(u) : It(u, n).kind = "close" => n = Count(u)
  <2>1. \A n \in 1..Count(u) : n = Count(u) \/ n \in 1..Count(Now)
    BY <1>7, <1>8
  <2>2. QED
    BY <1>2, <1>7, <2>1 DEF Safe, Unclosed
<1>11. /\ worker' = "closing" /\ stored' = stored /\ version' = version
       /\ committed' = committed /\ spilled' = spilled
  BY DEF Close
<1>12. Database \in DOMAIN memory
  BY <1>2 DEF Safe
<1>13. PICK v : v = Now'
  OBVIOUS
<1>14. /\ Core(v, stored', Latest(committed'), Commits(committed'), spilled', spilled')
       /\ \A n \in 1..Count(v) : It(v, n).kind = "close" => n = Count(v)
  BY <1>1, <1>7, <1>9, <1>10, <1>11, <1>13
<1>15. QED
  BY <1>9, <1>11, <1>12, <1>13, <1>14 DEF FilesInv

\* What was not stored is lost.
LEMMA CrashKeeps ==
  ASSUME FilesInv, Crash
  PROVE  FilesInv'
BY DEF FilesInv, Crash, Current

\* An item has been stored.
LEMMA StoreKeeps ==
  ASSUME FilesInv, Store
  PROVE  FilesInv'
<1>1. PICK C, Cs, A : /\ C = Latest(committed) /\ Cs = Commits(committed)
                      /\ A = spilled
  OBVIOUS
<1>2. running # NoItem /\ worker # "down"
  BY DEF FilesInv, Store
<1>3. Core(Now, stored, C, Cs, A, A)
  BY <1>1, <1>2 DEF FilesInv
<1>4. Now.memory = memory /\ Now.running = running
  BY DEF Now
<1>5. WellFormed(Now) /\ Count(Now) \in Nat /\ Count(Now) > 0 /\ It(Now, 1) = running
  <2>1. WellFormed(Now)
    BY <1>3, SafeHas
  <2>2. Count(Now) \in Nat /\ Count(Now) # 0
    BY <1>2, <1>4, <2>1, ItemsAre
  <2>3. QED
    BY <1>4, <2>1, <2>2 DEF It
<1>6. PICK s, t : s = Now /\ t = Started([Now EXCEPT !.running = NoItem])
  OBVIOUS
<1>7. Moved(s, t)
  BY <1>5, <1>6, StartedIs
<1>8. Core(t, stored', C, Cs, A, A) /\ Good(stored', Cs, A) /\ stored' \in FileMaps
  <2>1. PICK b : b = stored'
    OBVIOUS
  <2>2. b = AfterItem(stored, It(s, 1))
    BY <1>5, <1>6, <2>1 DEF Store
  <2>3. Core(s, stored, C, Cs, A, A) /\ Count(s) > 0
    BY <1>3, <1>5, <1>6
  <2>4. Core(t, b, C, Cs, A, A) /\ Good(b, Cs, A) /\ b \in FileMaps
    BY <1>7, <2>2, <2>3, ItemStored
  <2>5. QED
    BY <2>1, <2>4
<1>9. /\ WellFormed(t) /\ t.memory = memory
      /\ Count(Now) = Count(t) + 1 /\ Count(t) \in Nat
      /\ \A n \in 1..Count(t) : It(t, n) = It(Now, n + 1)
  BY <1>4, <1>6, <1>7, ItemsAre DEF Moved
<1>10. queue' = t.queue /\ running' = t.running
  BY <1>6 DEF Store
<1>11. UNCHANGED <<version, committed, spilled>>
  BY DEF Store
<1>12. CASE running.kind = "close"
  <2>1. worker' = "down" /\ memory' = Empty
    BY <1>12 DEF Store
  <2>2. 1 \in 1..Count(Now) /\ 1 = Count(Now)
    BY <1>2, <1>5, <1>12 DEF FilesInv
  <2>3. t.running = NoItem /\ t.queue = <<>>
    BY <1>9, <2>2, ItemsAre DEF WellFormed
  <2>4. QED
    BY <1>1, <1>8, <1>10, <1>11, <2>1, <2>3 DEF FilesInv
<1>13. CASE running.kind # "close"
  <2>1. worker' = worker /\ memory' = memory
    BY <1>13 DEF Store
  <2>2. Now' = t
    BY <1>9, <1>10, <2>1, NowIs DEF Now
  <2>3. \A n \in 1..Count(t) :
          It(t, n).kind = "close" => worker = "closing" /\ n = Count(t)
    <3>1. \A n \in 1..Count(t) : n + 1 \in 1..Count(Now) /\ (n + 1 = Count(Now) => n = Count(t))
      BY <1>9
    <3>2. \A n \in 1..Count(Now) :
            It(Now, n).kind = "close" => worker = "closing" /\ n = Count(Now)
      BY <1>2 DEF FilesInv
    <3>3. QED
      BY <1>9, <3>1, <3>2
  <2>4. PICK v : v = Now'
    OBVIOUS
  <2>5. /\ Core(v, stored', Latest(committed'), Commits(committed'), spilled', spilled')
        /\ \A n \in 1..Count(v) :
             It(v, n).kind = "close" => worker' = "closing" /\ n = Count(v)
    BY <1>1, <1>8, <1>11, <2>1, <2>2, <2>3, <2>4
  <2>6. QED
    BY <1>1, <1>2, <1>8, <1>11, <2>1, <2>4, <2>5 DEF FilesInv, Current
<1>14. QED
  BY <1>12, <1>13

\* The files as a tab reads them, before it changes any.
LEMMA ReadIs ==
  ASSUME NEW F \in FileMaps, NEW s, s = [memory |-> F, queue |-> <<>>, running |-> NoItem],
         NEW h, h = [n \in 0..0 |-> F]
  PROVE  /\ Traced(s, h, 0) /\ Unclosed(s) /\ Count(s) = 0
         /\ h[0] = F /\ ~JournalFirst(s, 0)
<1>1. <<>> \in Seq(WorkItems)
  OBVIOUS
<1>2. WellFormed(s) /\ Count(s) = 0
  BY <1>1 DEF WellFormed, States, Count
<1>3. h[0] = F /\ h \in [0..0 -> FileMaps]
  OBVIOUS
<1>4. Late(s, 0) = {} /\ \A n : n \notin Late(s, 0)
  BY <1>2 DEF Late
<1>5. Behind(s, 0, F)
  BY <1>4 DEF Behind, Orderly, FileBehind, LateOf
<1>6. \A n \in 1..0 : FALSE
  OBVIOUS
<1>7. Traced(s, h, 0)
  BY <1>2, <1>3, <1>5, <1>6 DEF Traced, Frozen
<1>8. QED
  BY <1>2, <1>3, <1>4, <1>6, <1>7 DEF Unclosed, JournalFirst

\* What a tab finds is the database that rolling back leaves.
LEMMA FoundIsGood ==
  ASSUME NEW F \in FileMaps, Sound(View(F, Database), View(F, Journal)),
         NEW c, c = RolledBack(F), NEW A
  PROVE  Good(F, {c}, A) /\ c \in Contents
<1>1. PICK D, J : D = View(F, Database) /\ J = View(F, Journal)
  OBVIOUS
<1>2. /\ \A p \in 1..MaxPages : Page(c, p) = Found(D, J, p)
      /\ c \in Contents
  BY <1>1, RolledBackIs
<1>3. Fits(D, J, c, A)
  BY <1>2 DEF Fits
<1>4. QED
  BY <1>1, <1>2, <1>3 DEF Good, GoodPair

\* A tab that finds a database without holes, or no hot journal, is safe.
LEMMA LoadedSafe ==
  ASSUME NEW F \in FileMaps,
         NEW D, D = View(F, Database), NEW J, J = View(F, Journal),
         Sound(D, J), D # Empty \/ ~HotC(J),
         NEW c, c = RolledBack(F), NEW A,
         NEW s, s = [memory |-> F, queue |-> <<>>, running |-> NoItem],
         NEW t, t = Opened(s, Database)
  PROVE  /\ Safe(t, F, c, {c}, A, A)
         /\ DOMAIN t.memory = DOMAIN F \cup {Database}
         /\ View(t.memory, Database) = D /\ View(t.memory, Journal) = J
<1>1. PICK h : h = [n \in 0..0 |-> F]
  OBVIOUS
<1>2. /\ Traced(s, h, 0) /\ Unclosed(s) /\ Count(s) = 0
      /\ h[0] = F /\ ~JournalFirst(s, 0)
  BY <1>1, ReadIs
<1>3. Good(F, {c}, A) /\ c \in Contents
  BY FoundIsGood
<1>4. Exact(D, J, c)
  BY RolledBackIs DEF Exact
<1>5. Covers(D, J)
  BY DEF Sound, Covers
<1>6. Phase(D, J, J, c, A, A)
  BY <1>4, <1>5, FreshPhase
<1>7. Kept(s, h, 0, c, {c}, A, A)
  <2>1. \A n \in 0..0 : h[n] = F
    BY <1>1
  <2>2. s.memory = F
    OBVIOUS
  <2>3. Phase(View(s.memory, Database), View(s.memory, Journal), View(h[0], Journal), c, A, A)
    BY <1>2, <1>6, <2>2
  <2>4. QED
    BY <1>2, <1>3, <2>1, <2>3 DEF Kept
<1>8. Core(s, F, c, {c}, A, A)
  BY <1>2, <1>7 DEF Core
<1>9. CASE Database \in DOMAIN F
  <2>1. t = s /\ s.memory = F
    BY <1>9 DEF Opened
  <2>2. DOMAIN F = DOMAIN F \cup {Database}
    BY <1>9
  <2>3. QED
    BY <1>2, <1>8, <1>9, <2>1, <2>2 DEF Safe
<1>10. CASE Database \notin DOMAIN F
  <2>1. Database \in Files /\ Journal \in Files /\ s.memory = F
    BY DEF Files
  <2>2. Core(t, F, c, {c}, A, A) /\ Unclosed(t)
    BY <1>2, <1>8, <1>10, <2>1, FileOpened
  <2>3. DOMAIN t.memory = DOMAIN F \cup {Database}
    BY <1>2, <1>8, <1>10, <2>1, FileOpened
  <2>4. \A e \in Files : View(t.memory, e) = View(F, e)
    BY <1>2, <1>8, <1>10, <2>1, FileOpened
  <2>5. QED
    BY <2>1, <2>2, <2>3, <2>4 DEF Safe
<1>11. QED
  BY <1>9, <1>10

\* A hot journal of an empty database is deleted.
LEMMA EmptyLoaded ==
  ASSUME NEW F \in FileMaps,
         NEW D, D = View(F, Database), NEW J, J = View(F, Journal),
         Sound(D, J), D = Empty, Journal \in DOMAIN F,
         NEW c, c = RolledBack(F), NEW A,
         NEW s, s = [memory |-> F, queue |-> <<>>, running |-> NoItem],
         NEW t, t = Opened(s, Database)
  PROVE  LET u == Deleted(t, Journal)
         IN  Safe(u, F, c, {c}, A, A) /\ Unjournaled(t, u)
<1>1. PICK h : h = [n \in 0..0 |-> F]
  OBVIOUS
<1>2. /\ Traced(s, h, 0) /\ Unclosed(s) /\ Count(s) = 0 /\ h[0] = F
  BY <1>1, ReadIs
<1>3. Good(F, {c}, A) /\ GoodPair(D, J, {c}, A)
  <2>1. Sound(View(F, Database), View(F, Journal))
    OBVIOUS
  <2>2. Good(F, {c}, A)
    BY <2>1, FoundIsGood
  <2>3. GoodPair(View(F, Database), View(F, Journal), {c}, A)
    BY <2>2 DEF Good
  <2>4. QED
    BY <2>2, <2>3
<1>4. \A p \in 1..MaxPages : Page(D, p) = Page(c, p)
  <2>1. c = D
    BY DEF RolledBack, View
  <2>2. QED
    BY <2>1
<1>5. \E g, L : /\ Traced(t, g, L) /\ Unclosed(t) /\ g[0] = F
                /\ \A n \in 0..L : Good(g[n], {c}, A)
                /\ View(g[L], Journal) = J
                /\ Database \in DOMAIN t.memory /\ Journal \in DOMAIN t.memory
                /\ View(t.memory, Database) = D
  <2>1. CASE Database \in DOMAIN F
    <3>1. t = s /\ s.memory = F
      BY <2>1 DEF Opened
    <3>2. \A n \in 0..0 : Good(h[n], {c}, A)
      BY <1>1, <1>3
    <3>3. QED
      BY <1>2, <2>1, <3>1, <3>2
  <2>2. CASE Database \notin DOMAIN F
    <3>1. Database \in Files /\ Journal \in Files /\ s.memory = F
      BY DEF Files
    <3>2. PICK g : g = After(s, h, t)
      OBVIOUS
    <3>3. Traced(t, g, 1)
      <4>1. Place(s, 0) = 1
        BY <1>2 DEF Place
      <4>2. Traced(t, After(s, h, t), Place(s, 0))
        BY <1>2, <2>2, <3>1, OpenTraced
      <4>3. QED
        BY <3>2, <4>1, <4>2
    <3>4. DOMAIN t.memory = DOMAIN F \cup {Database}
      BY <1>2, <2>2, <3>1, OpenTraced
    <3>5. \A e \in Files : View(t.memory, e) = View(F, e)
      BY <1>2, <2>2, <3>1, OpenTraced
    <3>6. Count(t) = Count(s) + 1 /\ Is(t, Count(t), "create", Database)
      BY <1>2, <2>2, <3>1, OpenTraced
    <3>7. g = [n \in 0..1 |-> IF n = 0 THEN F ELSE t.memory]
      BY <1>2, <3>2 DEF After
    <3>8. g[0] = F /\ g[1] = t.memory /\ \A n \in 0..1 : g[n] = F \/ g[n] = t.memory
      BY <3>7
    <3>9. Good(t.memory, {c}, A)
      BY <1>3, <3>1, <3>5 DEF Good
    <3>10. \A n \in 0..1 : Good(g[n], {c}, A)
      BY <1>3, <3>8, <3>9
    <3>11. Unclosed(t)
      <4>1. Count(t) = 1
        BY <1>2, <3>6
      <4>2. \A n \in 1..Count(t) : n = Count(t)
        BY <4>1
      <4>3. QED
        BY <3>6, <4>2 DEF Unclosed, Is
    <3>12. Database \in DOMAIN t.memory /\ Journal \in DOMAIN t.memory
      BY <3>4
    <3>13. View(g[1], Journal) = J /\ View(t.memory, Database) = D
      BY <3>1, <3>5, <3>8
    <3>14. QED
      BY <3>3, <3>8, <3>10, <3>11, <3>12, <3>13
  <2>3. QED
    BY <2>1, <2>2
<1>6. PICK g, L : /\ Traced(t, g, L) /\ Unclosed(t) /\ g[0] = F
                  /\ \A n \in 0..L : Good(g[n], {c}, A)
                  /\ View(g[L], Journal) = J
                  /\ Database \in DOMAIN t.memory /\ Journal \in DOMAIN t.memory
                  /\ View(t.memory, Database) = D
  BY <1>5
<1>7. PICK Cs, C, b, E : Cs = {c} /\ C = c /\ b = t /\ E = D
  OBVIOUS
<1>8. /\ Traced(b, g, L) /\ Unclosed(b)
      /\ Database \in DOMAIN b.memory /\ Journal \in DOMAIN b.memory
      /\ C \in Cs /\ \A n \in 0..L : Good(g[n], Cs, A)
      /\ E = View(b.memory, Database) /\ Spans(E)
      /\ \A p \in 1..MaxPages : Page(E, p) = Page(C, p)
      /\ GoodPair(E, View(g[L], Journal), Cs, A)
  BY <1>3, <1>4, <1>6, <1>7 DEF Sound
<1>9. PICK u : u = Deleted(b, Journal)
  OBVIOUS
<1>10. Safe(u, g[0], C, Cs, A, A)
  BY <1>8, <1>9, DeletedSafe
<1>11. Unjournaled(b, u)
  BY <1>8, <1>9, <1>10, DeletedSafe
<1>12. QED
  BY <1>6, <1>7, <1>9, <1>10, <1>11

\* A tab opens the database.
LEMMA LoadKeeps ==
  ASSUME FilesInv, Load
  PROVE  FilesInv'
<1>1. PICK D, J, c, A, s, t :
        /\ D = View(stored, Database) /\ J = View(stored, Journal)
        /\ c = RolledBack(stored) /\ A = spilled
        /\ s = [memory |-> stored, queue |-> <<>>, running |-> NoItem]
        /\ t = Opened(s, Database)
  OBVIOUS
<1>2. /\ stored \in FileMaps /\ Sound(D, J) /\ queue = <<>> /\ running = NoItem
      /\ version \in Nat /\ spilled \subseteq 1..MaxTransactions
  BY <1>1 DEF FilesInv, Load, Good, GoodPair
<1>3. [Now EXCEPT !.memory = stored] = s
  BY <1>1, <1>2 DEF Now
<1> DEFINE u == IF Journal \notin DOMAIN stored THEN t
                ELSE IF t.memory[Database] = Empty THEN Deleted(t, Journal)
                ELSE IF IsHot(stored) THEN PlayedBack(t) ELSE t
<1>4. Become(u)
  BY <1>1, <1>3 DEF Load
<1>5. Good(stored, {c}, A) /\ c \in Contents
  BY <1>1, <1>2, FoundIsGood
<1>6. IsHot(stored) <=> HotC(J)
  BY <1>1, HotIs
<1>7. Journal \notin DOMAIN stored => ~HotC(J)
  BY <1>1, HotIs
<1>8. /\ DOMAIN t.memory = DOMAIN stored \cup {Database}
      /\ View(t.memory, Database) = D /\ View(t.memory, Journal) = J
  <2>1. CASE Database \in DOMAIN stored
    <3>1. t = s /\ s.memory = stored
      BY <1>1, <2>1 DEF Opened
    <3>2. t.memory = stored /\ D = View(stored, Database) /\ J = View(stored, Journal)
      BY <1>1, <3>1
    <3>3. DOMAIN stored = DOMAIN stored \cup {Database}
      BY <2>1
    <3>4. QED
      BY <3>2, <3>3
  <2>2. CASE Database \notin DOMAIN stored
    <3>1. PICK h : h = [n \in 0..0 |-> stored]
      OBVIOUS
    <3>2. Traced(s, h, 0) /\ s.memory = stored
      BY <1>1, <1>2, <3>1, ReadIs
    <3>3. Database \in Files /\ Journal \in Files
      BY DEF Files
    <3>4. DOMAIN t.memory = DOMAIN stored \cup {Database}
      BY <1>1, <2>2, <3>2, <3>3, OpenTraced
    <3>5. \A e \in Files : View(t.memory, e) = View(stored, e)
      BY <1>1, <2>2, <3>2, <3>3, OpenTraced
    <3>6. QED
      BY <1>1, <3>3, <3>4, <3>5
  <2>3. QED
    BY <2>1, <2>2
<1>9. t.memory[Database] = D
  BY <1>8 DEF View
<1>10. Safe(u, stored, c, {c}, A, A) /\ ~HotC(View(u.memory, Journal))
  <2>1. CASE D = Empty /\ Journal \in DOMAIN stored
    <3>1. PICK v : v = Deleted(t, Journal)
      OBVIOUS
    <3>2. Safe(v, stored, c, {c}, A, A)
      BY <1>1, <1>2, <2>1, <3>1, EmptyLoaded
    <3>3. Unjournaled(t, v)
      BY <1>1, <1>2, <2>1, <3>1, <3>2, EmptyLoaded
    <3>4. u = v
      BY <1>9, <2>1, <3>1
    <3>5. QED
      BY <3>2, <3>3, <3>4, EmptyIs DEF Unjournaled, HotC
  <2>2. CASE ~(D = Empty /\ Journal \in DOMAIN stored)
    <3>1. Safe(t, stored, c, {c}, A, A)
      <4>1. D # Empty \/ ~HotC(J)
        BY <1>7, <2>2
      <4>2. PICK F : F = stored
        OBVIOUS
      <4>3. /\ F \in FileMaps /\ D = View(F, Database) /\ J = View(F, Journal)
            /\ Sound(D, J) /\ c = RolledBack(F)
            /\ s = [memory |-> F, queue |-> <<>>, running |-> NoItem]
            /\ t = Opened(s, Database)
        BY <1>1, <1>2, <4>2
      <4>4. Safe(t, F, c, {c}, A, A)
        BY <4>1, <4>3, LoadedSafe
      <4>5. QED
        BY <4>2, <4>4
    <3>2. CASE ~HotC(J)
      <4>1. u = t
        BY <1>6, <1>9, <2>2, <3>2
      <4>2. QED
        BY <1>8, <3>1, <3>2, <4>1
    <3>3. CASE HotC(J)
      <4>1. PICK v, Cs : v = PlayedBack(t) /\ Cs = {c}
        OBVIOUS
      <4>2. D # Empty /\ Journal \in DOMAIN stored
        BY <1>7, <2>2, <3>3
      <4>3. /\ Safe(t, stored, c, Cs, A, A) /\ HotC(View(t.memory, Journal))
            /\ View(t.memory, Database) # Empty
        BY <1>8, <3>1, <3>3, <4>1, <4>2
      <4>4. Safe(v, stored, c, Cs, A, A)
        BY <4>1, <4>3, PlayedBackSafe
      <4>5. View(v.memory, Journal) = Empty
        BY <4>1, <4>3, <4>4, PlayedBackSafe
      <4>6. u = v
        BY <1>6, <1>9, <3>3, <4>1, <4>2
      <4>7. QED
        BY <4>1, <4>4, <4>5, <4>6, EmptyIs DEF HotC
    <3>4. QED
      BY <3>2, <3>3
  <2>3. QED
    BY <2>1, <2>2
<1> HIDE DEF u
<1>11. /\ worker' = "open" /\ version' = version /\ committed' = <<c>>
       /\ stored' = stored /\ spilled' = spilled
  BY <1>1 DEF Load
<1>12. /\ committed' \in Seq(Contents) /\ committed' # <<>>
       /\ Commits(committed') = {c} /\ Latest(committed') = c
  BY <1>5, <1>11, CommitsAre
<1>13. /\ version' \in Nat /\ spilled' \subseteq 1..MaxTransactions
       /\ stored' \in FileMaps /\ Good(stored', Commits(committed'), spilled')
       /\ Safe(u, stored', Latest(committed'), Commits(committed'), spilled', spilled')
  BY <1>1, <1>2, <1>5, <1>10, <1>11, <1>12
<1>14. QED
  BY <1>4, <1>10, <1>11, <1>12, <1>13, BecomesSafe

\* At first there are no files.
LEMMA FilesStart ==
  ASSUME FilesInit
  PROVE  FilesInv
<1>1. Empty \in Contents /\ DOMAIN Empty = {}
  BY EmptyIs
<1>2. stored \in FileMaps /\ View(stored, Database) = Empty /\ View(stored, Journal) = Empty
  <2>1. Empty \in FileMaps
    <3>1. Empty = [f \in {} |-> Empty[f]]
      BY <1>1 DEF Empty
    <3>2. QED
      BY <1>1, <3>1, FileMapsAre
  <2>2. QED
    BY <1>1, <2>1 DEF FilesInit, View
<1>3. /\ committed \in Seq(Contents) /\ committed # <<>> /\ Commits(committed) = {Empty}
  BY <1>1, CommitsAre DEF FilesInit
<1>4. Spans(Empty)
  <2>1. 1..0 = {} /\ 0 \in 0..MaxPages
    BY FilesAssumption
  <2>2. QED
    BY <1>1, <2>1 DEF Spans
<1>5. Sound(Empty, Empty) /\ Exact(Empty, Empty, Empty)
  BY <1>4, NoJournal
<1>6. Good(stored, Commits(committed), spilled)
  <2>1. Empty \in Commits(committed)
    BY <1>3
  <2>2. QED
    BY <1>2, <1>5, <2>1, ExactIsGood DEF Good
<1>7. QED
  BY <1>2, <1>3, <1>6 DEF FilesInit, FilesInv

-----------------------------------------------------------------------------
(* Theorems *)

\* Each step of the file system keeps the invariant.
LEMMA FilesStep ==
  ASSUME FilesInv, [FilesNext]_fileVars
  PROVE  FilesInv'
<1>1. CASE Load
  BY <1>1, LoadKeeps
<1>2. CASE Store
  BY <1>2, StoreKeeps
<1>3. CASE Rollback
  BY <1>3, RollbackKeeps
<1>4. CASE Close
  BY <1>4, CloseKeeps
<1>5. CASE Crash
  BY <1>5, CrashKeeps
<1>6. ASSUME NEW p \in 1..MaxPages, Spill(p)
      PROVE  FilesInv'
  BY <1>6, SpillKeeps
<1>7. ASSUME NEW pages \in SUBSET (1..MaxPages), Commit(pages)
      PROVE  FilesInv'
  BY <1>7, CommitKeeps
<1>8. CASE UNCHANGED fileVars
  <2>1. /\ worker' = worker /\ memory' = memory /\ queue' = queue
        /\ running' = running /\ stored' = stored /\ version' = version
        /\ committed' = committed /\ spilled' = spilled
    BY <1>8 DEF fileVars
  <2>2. Now' = Now /\ Current' = Current
    BY <2>1 DEF Now, Current
  <2>3. QED
    BY <2>1, <2>2 DEF FilesInv
<1>9. QED
  BY <1>1, <1>2, <1>3, <1>4, <1>5, <1>6, <1>7, <1>8 DEF FilesNext

\* Whatever the calls, the items and the crashes: what is stored, and what
\* every prefix of the items would leave stored, is a database a commit left.
THEOREM FilesInvariant == FilesSpec => []FilesInv
<1>1. FilesInit => FilesInv
  BY FilesStart
<1>2. FilesInv /\ [FilesNext]_fileVars => FilesInv'
  BY FilesStep
<1>3. QED
  BY <1>1, <1>2, PTL DEF FilesSpec

\* The files, the work items and what is remembered of the transactions are of
\* their types, and no item waits behind none.
THEOREM FilesTypesOK == FilesSpec => []FilesTypeOK
<1>1. FilesInv => FilesTypeOK
  <2> SUFFICES ASSUME FilesInv
               PROVE  FilesTypeOK
    OBVIOUS
  <2>1. DOMAIN stored \subseteq Files
    BY FileMapsAre DEF FilesInv
  <2>2. IsItem(NoItem)
    BY EmptyIs DEF IsItem, NoItem, Kinds
  <2>3. \A x \in WorkItems : IsItem(x)
    BY ContentsAre DEF WorkItems, IsItem
  <2>4. CASE worker = "down"
    <3>1. memory = Empty /\ queue = <<>> /\ running = NoItem
      BY <2>4 DEF FilesInv
    <3>2. DOMAIN memory = {} /\ DOMAIN queue = {}
      BY <3>1, EmptyIs
    <3>3. QED
      BY <2>1, <2>2, <3>1, <3>2 DEF FilesInv, FilesTypeOK
  <2>5. CASE worker # "down"
    <3>1. WellFormed(Now) /\ Now.memory = memory
          /\ Now.queue = queue /\ Now.running = running
      <4>1. Core(Now, stored, Latest(committed), Commits(committed), spilled, spilled)
        BY <2>5 DEF FilesInv
      <4>2. WellFormed(Now)
        BY <4>1, SafeHas
      <4>3. QED
        BY <4>2 DEF Now
    <3>2. /\ memory \in FileMaps /\ queue \in Seq(WorkItems)
          /\ running \in WorkItems \cup {NoItem}
          /\ running = NoItem => queue = <<>>
      BY <3>1 DEF WellFormed, States
    <3>3. DOMAIN memory \subseteq Files
      BY <3>2, FileMapsAre
    <3>4. \A i \in DOMAIN queue : queue[i] \in WorkItems
      BY <3>2
    <3>5. QED
      BY <2>1, <2>2, <2>3, <3>2, <3>3, <3>4 DEF FilesInv, FilesTypeOK
  <2>6. QED
    BY <2>4, <2>5
<1>2. QED
  BY <1>1, FilesInvariant, PTL

\* A new tab finds the database after some commit, but for what transactions
\* wrote that spilled.
LEMMA NoneTorn ==
  ASSUME FilesInv
  PROVE  CrashTearsNone
<1>1. PICK c, D, J, A : /\ c = RolledBack(stored) /\ D = View(stored, Database)
                        /\ J = View(stored, Journal) /\ A = spilled
  OBVIOUS
<1>2. stored \in FileMaps /\ GoodPair(D, J, Commits(committed), A)
  BY <1>1 DEF FilesInv, Good
<1>3. PICK C \in Commits(committed) : Fits(D, J, C, A)
  BY <1>2 DEF GoodPair
<1>4. PICK k \in DOMAIN committed : C = committed[k]
  BY <1>3 DEF Commits
<1>5. \A p \in 1..MaxPages : Page(c, p) = Found(D, J, p)
  BY <1>1, <1>2, RolledBackIs DEF GoodPair
<1>6. \A p \in 1..MaxPages :
        Page(c, p) = Page(committed[k], p) \/ Page(c, p) \in spilled
  BY <1>1, <1>3, <1>4, <1>5 DEF Fits
<1>7. QED
  BY <1>1, <1>4, <1>6 DEF CrashTearsNone

\* Once no item is left the files are stored as they are in memory.
LEMMA NoneLeft ==
  ASSUME FilesInv
  PROVE  DrainedIsSaved
<1> SUFFICES ASSUME worker = "open", running = NoItem
             PROVE  stored = memory
  BY DEF DrainedIsSaved
<1>1. PICK s, C, Cs, A :
        /\ s = Now /\ C = Latest(committed) /\ Cs = Commits(committed)
        /\ A = spilled
  OBVIOUS
<1>2. Core(s, stored, C, Cs, A, A)
  BY <1>1 DEF FilesInv
<1>3. PICK h, L : h[0] = stored /\ Kept(s, h, L, C, Cs, A, A)
  BY <1>2 DEF Core
<1>4. Traced(s, h, L)
  BY <1>3 DEF Kept
<1>5. s.memory = memory /\ s.running = NoItem
  BY <1>1 DEF Now
<1>6. Count(s) = 0
  BY <1>5 DEF Count
<1>7. L = 0
  BY <1>4, <1>6 DEF Traced, Frozen
<1>8. h[L] = s.memory
  BY <1>4, <1>6, <1>7, NothingBehind
<1>9. QED
  BY <1>3, <1>5, <1>7, <1>8

\* What was committed is stored whole: whenever the tab crashes a new one finds
\* the database as some commit left it, although items were merged with others
\* and taken out; and when no item is left, the files are stored as SQLite
\* sees them.
THEOREM CommitsAreStored == FilesSpec => []CommitsStored
<1>1. FilesInv => CommitsStored
  BY NoneTorn, NoneLeft DEF CommitsStored
<1>2. QED
  BY <1>1, FilesInvariant, PTL
=============================================================================
