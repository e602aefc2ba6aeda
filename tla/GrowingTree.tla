----------------------------- MODULE GrowingTree -----------------------------
(***************************************************************************)
(* A scan of the pdu backend while it runs: the threads of the traversal   *)
(* record the nodes they visit, the scan thread drains the recorder now    *)
(* and then into bounded batches of growing tree events, and the workspace *)
(* store of the client applies the batches to its partial tree.  How       *)
(* batches reach the client is the subject of EventStream.                 *)
(*                                                                         *)
(* A path is the sequence of names below the root of the scan.             *)
(***************************************************************************)
EXTENDS Naturals, FiniteSets, Sequences, SequencesExt, FiniteSetsExt

CONSTANTS
  Tree,         \* the paths below the root, with those of all directories
  Directories,  \* those with nodes below them, or that may have some
  Size,         \* the own size of each node
  MaxDepth,     \* depth below which nodes are only counted
  MaxPartial,   \* MAX_MATERIALIZED_PARTIAL_NODES
  BatchSize     \* MAX_GROWING_EVENTS_PER_BATCH

Root == <<>>

ASSUME TreeAssumption ==
  /\ IsFiniteSet(Tree) /\ Root \in Tree /\ Tree \subseteq Seq(STRING)
  /\ \A p \in Tree : p # Root => Front(p) \in Directories
  /\ Directories \subseteq Tree
  /\ Size \in [Tree -> Nat]
  /\ MaxDepth \in Nat /\ MaxPartial \in Nat \ {0} /\ BatchSize \in Nat \ {0}

VARIABLES
  counted,      \* nodes the reporter counted (received_data_count)
  recorded,     \* nodes get_info has recorded
  failed,       \* nodes whose metadata could not be read
  traversal,    \* whether the thread of the traversal has ended
  nodes,        \* PduGrowingTreeState::nodes, the aggregate size of each
  pending,      \* pending_discoveries
  dirty,        \* dirty_paths, and dirty_path_set as the set of them
  backend,      \* where PduScannerBackend::scan is
  batch,        \* what it drained last
  progress,     \* last_progress
  token,        \* the cancellation token
  view          \* the partial tree of the client

recorder == <<nodes, pending, dirty>>
treeVars == <<counted, recorded, failed, traversal, nodes, pending, dirty,
              backend, batch, progress, token, view>>

-----------------------------------------------------------------------------
NoParent == <<"none">>

Discovered(p, parent) == [kind |-> "discovered", path |-> p, parent |-> parent]
SizeUpdated(p, n) == [kind |-> "size", path |-> p, size |-> n]
Completed(p, n) == [kind |-> "completed", path |-> p, size |-> n]

Ancestors(p) == {SubSeq(p, 1, i) : i \in 0..Len(p)}

TreeInit ==
  /\ counted = {} /\ recorded = {} /\ failed = {}
  /\ traversal = "running"
  /\ nodes = <<>> /\ pending = <<>> /\ dirty = <<>>
  /\ backend = "start"
  /\ batch = <<>>
  /\ progress = 0
  /\ token = FALSE
  /\ view = <<>>

-----------------------------------------------------------------------------
(* The traversal *)

\* The thread of the traversal was spawned and has not ended.
Traversing == backend \notin {"start", "canceled"} /\ traversal = "running"

\* A child is visited once its directory was listed.
Reached(p) ==
  /\ Traversing
  /\ p \notin counted \cup failed
  /\ p = Root \/ Front(p) \in recorded

\* symlink_metadata fails: an issue, and nothing below the node.
FailNode(p) ==
  /\ Reached(p)
  /\ failed' = failed \cup {p}
  /\ UNCHANGED <<counted, recorded, traversal, recorder, backend, batch,
                 progress, token, view>>

CountNode(p) ==
  /\ Reached(p)
  /\ counted' = counted \cup {p}
  /\ UNCHANGED <<recorded, failed, traversal, recorder, backend, batch,
                 progress, token, view>>

\* a plausible mistake: a directory is announced when it has some size
MaterializesSized(p) ==
  /\ p = Root \/ (p \in Directories /\ Size[p] > 0)
  /\ Len(p) < MaxDepth
  /\ p \notin DOMAIN nodes
  /\ Cardinality(DOMAIN nodes) < MaxPartial

\* should_materialize_partial_node: directories that are not too deep.
Materializes(p) ==
  /\ p = Root \/ p \in Directories
  /\ Len(p) < MaxDepth
  /\ p \notin DOMAIN nodes
  /\ Cardinality(DOMAIN nodes) < MaxPartial

Materialized(p) ==
  IF Materializes(p)
  THEN [q \in DOMAIN nodes \cup {p} |-> IF q = p THEN 0 ELSE nodes[q]]
  ELSE nodes

ParentOf(p) == IF p # Root /\ Front(p) \in DOMAIN nodes THEN Front(p)
               ELSE NoParent

\* A node adds its size to all of its ancestors that are materialized.
AddSize(known, p) ==
  [q \in DOMAIN known |->
     IF q \in Ancestors(p) THEN known[q] + Size[p] ELSE known[q]]

\* Those paths of a sequence that are in a set.
Those(paths, set) ==
  FoldLeft(LAMBDA those, p : IF p \in set THEN Append(those, p) ELSE those,
           <<>>, paths)

\* A path and the paths above it, from the root down.
PathsTo(p) == [i \in 1..(Len(p) + 1) |-> SubSeq(p, 1, i - 1)]

\* The ancestors that are not dirty yet.
NewlyDirty(known, p) ==
  IF Size[p] = 0 THEN <<>>
  ELSE Those(PathsTo(p), DOMAIN known \ ToSet(dirty))

\* record_node, under the lock of the recorder.
RecordNode(p) ==
  /\ p \in counted \ recorded
  /\ traversal = "running"
  /\ recorded' = recorded \cup {p}
  /\ pending' = IF Materializes(p)
                THEN Append(pending, Discovered(p, ParentOf(p))) ELSE pending
  /\ nodes' = AddSize(Materialized(p), p)
  /\ dirty' = dirty \o NewlyDirty(Materialized(p), p)
  /\ UNCHANGED <<counted, failed, traversal, backend, batch, progress,
                 token, view>>

EndTraversal ==
  /\ Traversing
  /\ counted = recorded
  /\ \A p \in Tree : Ancestors(p) \cap failed # {} \/ p \in recorded
  /\ traversal' = "ended"
  /\ UNCHANGED <<counted, recorded, failed, recorder, backend, batch, progress,
                 token, view>>

-----------------------------------------------------------------------------
(* The scan thread *)

Goto(from, to) == backend = from /\ backend' = to

\* A scan that was canceled before it starts does nothing.
Start ==
  /\ Goto("start", IF token THEN "canceled" ELSE "loop")
  /\ UNCHANGED <<counted, recorded, failed, traversal, recorder, batch,
                 progress, token, view>>

\* a plausible mistake: the last drain is skipped
CheckFinishedOnly ==
  /\ Goto("loop", IF traversal = "ended" THEN "complete" ELSE "drain")
  /\ UNCHANGED <<counted, recorded, failed, traversal, recorder, batch,
                 progress, token, view>>

\* The loop sleeps and drains until the thread is seen to have ended; what it
\* recorded last is drained after it was joined.
CheckFinished ==
  /\ Goto("loop", IF traversal = "ended" THEN "drain last" ELSE "drain")
  /\ UNCHANGED <<counted, recorded, failed, traversal, recorder, batch,
                 progress, token, view>>

\* drain_regular_batch: discoveries first, then sizes as they are now.
Drained ==
  LET news == Min({Len(pending), BatchSize})
      sizes == Min({Len(dirty), BatchSize - news})
  IN  [events |-> SubSeq(pending, 1, news) \o
                  [i \in 1..sizes |-> SizeUpdated(dirty[i], nodes[dirty[i]])],
       news |-> news, sizes |-> sizes]

Drain(from, to) ==
  /\ Goto(from, to)
  /\ batch' = Drained.events
  /\ pending' = SubSeq(pending, Drained.news + 1, Len(pending))
  /\ dirty' = SubSeq(dirty, Drained.sizes + 1, Len(dirty))
  /\ UNCHANGED <<counted, recorded, failed, traversal, nodes, progress,
                 token, view>>

\* The client (_applyGrowingTreeBatch): a node that was discovered before
\* stays as it is, an update of a node it does not know is ignored.
Apply(tree, e) ==
  IF e.kind = "discovered"
  THEN [p \in DOMAIN tree \cup {e.path} |->
          IF p \in DOMAIN tree THEN tree[p]
          ELSE [parent |-> e.parent, size |-> 0, state |-> "discovered"]]
  ELSE IF e.path \notin DOMAIN tree THEN tree
  ELSE [tree EXCEPT ![e.path].size = e.size,
          ![e.path].state = IF e.kind = "size" THEN "scanning" ELSE "complete"]

\* drain_and_emit_growing_tree_events drops what it drained when the scan was
\* canceled in the meantime.
Emit(from, to) ==
  /\ Goto(from, to)
  /\ view' = IF token THEN view ELSE FoldLeft(Apply, view, batch)
  /\ UNCHANGED <<counted, recorded, failed, traversal, recorder, batch,
                 progress, token>>

\* emit_progress_if_changed
NextProgress == IF token \/ Cardinality(counted) <= progress THEN progress
                ELSE Cardinality(counted)

EmitProgress ==
  /\ Goto("progress", "loop")
  /\ progress' = NextProgress
  /\ UNCHANGED <<counted, recorded, failed, traversal, recorder, batch,
                 token, view>>

\* The size of the root in the DataTree.
TreeSize == MapThenSumSet(LAMBDA p : Size[p], recorded)

\* emit_final_root_completion_event and complete_node
CompleteRoot ==
  /\ Goto("complete", "end")
  /\ IF token \/ Root \notin DOMAIN nodes
     THEN UNCHANGED <<recorder, view>>
     ELSE LET n == IF nodes[Root] > TreeSize THEN nodes[Root] ELSE TreeSize
          IN  /\ nodes' = [nodes EXCEPT ![Root] = n]
              /\ dirty' = Those(dirty, ToSet(dirty) \ {Root})
              /\ view' = FoldLeft(Apply, view, <<SizeUpdated(Root, n),
                                                 Completed(Root, n)>>)
              /\ UNCHANGED pending
  /\ UNCHANGED <<counted, recorded, failed, traversal, batch, progress,
                 token>>

Finish ==
  /\ Goto("end", IF token THEN "canceled" ELSE "finished")
  /\ progress' = NextProgress
  /\ UNCHANGED <<counted, recorded, failed, traversal, recorder, batch,
                 token, view>>

\* The token is canceled by another thread, at any time.
CancelScan ==
  /\ ~token
  /\ token' = TRUE
  /\ UNCHANGED <<counted, recorded, failed, traversal, recorder, backend, batch,
                 progress, view>>

-----------------------------------------------------------------------------
Traverse ==
  \/ \E p \in Tree : FailNode(p) \/ CountNode(p) \/ RecordNode(p)
  \/ EndTraversal

ScanThread ==
  \/ Start \/ CheckFinished
  \/ Drain("drain", "emit") \/ Emit("emit", "progress") \/ EmitProgress
  \/ Drain("drain last", "emit last") \/ Emit("emit last", "complete")
  \/ CompleteRoot \/ Finish

TreeNext == Traverse \/ ScanThread \/ CancelScan

TreeSpec == TreeInit /\ [][TreeNext]_treeVars

-----------------------------------------------------------------------------
(* Properties *)

Sizes == [kind : {"size", "completed"}, path : Tree, size : Nat]
Discoveries ==
  [kind : {"discovered"}, path : Tree, parent : Tree \cup {NoParent}]
Steps == {"start", "loop", "drain", "emit", "progress", "drain last",
          "emit last", "complete", "end", "finished", "canceled"}

\* The state of the traversal, the recorder, the scan thread and the client:
\* the recorder keeps to its bound, and queues each path once.
TreeTypeOK ==
  /\ recorded \subseteq counted /\ counted \subseteq Tree
  /\ failed \subseteq Tree \ counted
  /\ traversal \in {"running", "ended"}
  /\ DOMAIN nodes \subseteq recorded
  /\ \A p \in DOMAIN nodes : nodes[p] \in Nat
  /\ pending \in Seq(Discoveries)
  /\ Cardinality(DOMAIN nodes) <= MaxPartial
  /\ dirty \in Seq(DOMAIN nodes) /\ Cardinality(ToSet(dirty)) = Len(dirty)
  /\ backend \in Steps
  /\ batch \in Seq(Sizes \cup Discoveries)
  /\ progress \in 0..Cardinality(counted)
  /\ token \in BOOLEAN
  /\ \A p \in DOMAIN view :
       view[p] \in [parent : Tree \cup {NoParent}, size : Nat,
                    state : {"discovered", "scanning", "complete"}]

\* The client is told of a directory before anything below it, and each node
\* it shows hangs below its directory, whichever thread visits what first and
\* wherever the batches are cut.
ParentsShown ==
  \A p \in DOMAIN view \ {Root} :
    view[p].parent = Front(p) /\ Front(p) \in DOMAIN view

\* When a scan that was not canceled ends, the client was shown the complete
\* root with the size of all that was counted and the number of counted
\* nodes; news it was not told of are those the last batch had no room for.
FinishedTold ==
  backend = "finished" =>
    /\ progress = Cardinality(counted)
    /\ Root \in DOMAIN view =>
         view[Root].size = TreeSize /\ view[Root].state = "complete"
    /\ pending # <<>> => Len(batch) = BatchSize
    /\ dirty # <<>> => Len(batch) = BatchSize

\* The client is shown a tree whenever it looks, and the whole of it in the end.
TreeIsTold == ParentsShown /\ FinishedTold

\* The threads of the traversal and the scan thread go on.
TreeFairSpec ==
  TreeSpec /\ WF_treeVars(Traverse) /\ WF_treeVars(ScanThread)

\* The scan returns, whatever nodes cannot be read, canceled or not.
ScanReturns == <>(backend \in {"finished", "canceled"})
=============================================================================
