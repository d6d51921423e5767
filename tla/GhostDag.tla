------------------------------ MODULE GhostDag ------------------------------
(***************************************************************************)
(* GHOSTDAG of src/core/consensus/ghostdag.rs over the block DAG: the      *)
(* labels of each block, how process_block computes those of a block and   *)
(* recomputes those around it, the virtual block, the ordering, finality.  *)
(*                                                                         *)
(* The code keeps the labels on the BlockNode; here they are a variable of *)
(* their own, because consensus never changes a link.  The network layer   *)
(* outside the repository adds a block when it has the parents, and        *)
(* processes it once, when they are.                                       *)
(***************************************************************************)
EXTENDS Dag, Sequences, SequencesExt

CONSTANTS
  K,              \* k
  FinalityDepth,  \* FINALITY_DEPTH
  None,           \* an Option that is None
  Genesis,        \* the only block the network layer adds without parents
  Removable,      \* the blocks the embedding program may remove
  MaxPending,     \* bound on the blocks added and not yet processed
  MaxRemoved      \* bound on the number of removals

ASSUME ConsensusAssumption ==
  /\ K \in Nat /\ FinalityDepth \in Nat /\ MaxPending \in Nat /\ MaxRemoved \in Nat
  /\ None \notin Hash /\ Genesis \in Hash /\ Removable \subseteq Hash

VARIABLES
  labels,      \* selected_parent, blue_set, red_set and blue_score of each block
  processed,   \* history: the blocks processed since they were added
  removed      \* history: the number of removals

vars == <<blocks, tips, labels, processed, removed>>

Label == [selected_parent : Hash \cup {None}, blue_set : SUBSET Hash,
          red_set : SUBSET Hash, blue_score : Nat]

NewLabel     == [selected_parent |-> None, blue_set |-> {}, red_set |-> {}, blue_score |-> 0]
GenesisLabel == [NewLabel EXCEPT !.blue_score = 1]

-----------------------------------------------------------------------------
\* Faulty variant: the largest hash of the highest score.
SelectLastParent(l, parents) ==
  CHOOSE p \in parents : \A q \in parents :
    \/ l[p].blue_score > l[q].blue_score
    \/ l[p].blue_score = l[q].blue_score /\ p >= q

\* The highest score, then the smallest hash.
SelectParent(l, parents) ==
  CHOOSE p \in parents : \A q \in parents :
    \/ l[p].blue_score > l[q].blue_score
    \/ l[p].blue_score = l[q].blue_score /\ p <= q

\* The hashes in ascending order: the n-th has n - 1 smaller ones.
Ascending(hashes) ==
  [n \in 1..Cardinality(hashes) |->
     CHOOSE x \in hashes : Cardinality({y \in hashes : y < x}) = n - 1]

\* One block of the anticone is added to the blue or to the red blocks.
Colour(b, sets, c) ==
  IF Cardinality(Anticone(b, c) \cap sets.blue) <= K
  THEN [sets EXCEPT !.blue = @ \cup {c}]
  ELSE [sets EXCEPT !.red = @ \cup {c}]

ColourAll(b, blue, candidates) ==
  LET Coloured[n \in 0..Len(candidates)] ==
        IF n = 0 THEN [blue |-> blue, red |-> {}]
        ELSE Colour(b, Coloured[n - 1], candidates[n])
  IN  Coloured[Len(candidates)]

\* build_blue_set: the blue set of the selected parent and itself, then each
\* block of its anticone, in the order of the hashes.
BuildBlueSet(b, l, parent) ==
  ColourAll(b, l[parent].blue_set \cup {parent}, Ascending(Anticone(b, parent)))

\* The label of a block over some parents: what recompute_block stores and
\* what build_virtual_block returns for the tips.
LabelOver(b, l, parents) ==
  LET parent == SelectParent(l, parents)
      sets   == BuildBlueSet(b, l, parent)
  IN  [selected_parent |-> parent, blue_set |-> sets.blue, red_set |-> sets.red,
       blue_score |-> l[parent].blue_score + Cardinality(sets.blue)]

Recompute(b, l, h) ==
  IF b[h].parents = {} \/ ~(b[h].parents \subseteq DOMAIN b) THEN l
  ELSE [l EXCEPT ![h] = LabelOver(b, l, b[h].parents)]

\* Faulty variant: the nodes in the order of their hashes.
SortByHash(b, nodes) == Ascending(nodes)

\* The candidates that have no unsorted parent left among the nodes.
Freed(b, nodes, sorted, candidates) ==
  Ascending({c \in candidates : b[c].parents \cap nodes \subseteq ToSet(sorted)})

\* A round pops a block from the stack and pushes the children it frees.
SortNext(b, nodes, round) ==
  LET current == Last(round.stack)
      sorted  == Append(round.sorted, current)
  IN  [sorted |-> sorted,
       stack  |-> Front(round.stack) \o Freed(b, nodes, sorted, b[current].children \cap nodes)]

\* topological_sort: Kahn's algorithm with a stack.
TopologicalSort(b, nodes) ==
  LET Round[n \in 0..Cardinality(nodes)] ==
        IF n = 0 THEN [sorted |-> <<>>, stack |-> Freed(b, nodes, <<>>, nodes)]
        ELSE SortNext(b, nodes, Round[n - 1])
  IN  Round[Cardinality(nodes)].sorted

\* Faulty variant: the parents of the block and their children.
AffectedSiblings(b, h) == UNION {{p} \cup b[p].children : p \in b[h].parents}

\* The parents of the block and all their descendants.
Affected(b, h) == UNION {{p} \cup Descendants(b, p) : p \in b[h].parents}

RecomputeAll(b, l, order) ==
  LET Pass[n \in 0..Len(order)] ==
        IF n = 0 THEN l ELSE Recompute(b, Pass[n - 1], order[n])
  IN  Pass[Len(order)]

Process(b, l, h) ==
  IF b[h].parents = {} THEN [l EXCEPT ![h] = GenesisLabel]
  ELSE RecomputeAll(b, Recompute(b, l, h), TopologicalSort(b, Affected(b, h)))

-----------------------------------------------------------------------------
Init ==
  /\ DagInit
  /\ labels = [h \in {} |-> NewLabel]
  /\ processed = {}
  /\ removed = 0

Pending == DOMAIN blocks \ processed

Receive(h, parents) ==
  /\ parents = {} => h = Genesis
  /\ Cardinality(Pending) < MaxPending
  /\ AddBlock(h, parents)
  /\ labels' = [x \in DOMAIN labels \cup {h} |-> IF x = h THEN NewLabel ELSE labels[x]]
  /\ UNCHANGED <<processed, removed>>

ProcessBlock(h) ==
  /\ h \in Pending
  /\ blocks[h].parents \subseteq processed
  /\ labels' = Process(blocks, labels, h)
  /\ processed' = processed \cup {h}
  /\ UNCHANGED <<blocks, tips, removed>>

\* Faulty variant: the block stays known to consensus.
DiscardKeepsLabel(h) ==
  /\ removed < MaxRemoved
  /\ RemoveBlock(h)
  /\ processed' = processed \ {h}
  /\ removed' = removed + 1
  /\ UNCHANGED labels

\* remove_block; the labels of the other blocks go on naming the removed one.
Discard(h) ==
  /\ removed < MaxRemoved
  /\ RemoveBlock(h)
  /\ labels' = [x \in DOMAIN labels \ {h} |-> labels[x]]
  /\ processed' = processed \ {h}
  /\ removed' = removed + 1

Next ==
  \/ \E h \in Hash : \E parents \in SUBSET DOMAIN blocks : Receive(h, parents)
  \/ \E h \in Hash : ProcessBlock(h)
  \/ \E h \in Removable : Discard(h)

Spec == Init /\ [][Next]_vars

-----------------------------------------------------------------------------
(* What callers read. *)

\* build_virtual_block.
VirtualBlock ==
  IF Cardinality(DOMAIN blocks) = 1
  THEN labels[CHOOSE h \in DOMAIN blocks : TRUE]
  ELSE IF tips = {} THEN NewLabel ELSE LabelOver(blocks, labels, tips)

\* get_virtual_block, on a DAG that is not empty.
GetVirtualBlock ==
  CHOOSE h \in DOMAIN blocks : \A x \in DOMAIN blocks :
    \/ labels[h].blue_score > labels[x].blue_score
    \/ labels[h].blue_score = labels[x].blue_score /\ h <= x

\* get_ordering and get_virtual_ordering: x comes before y.
Before(l, x, y) ==
  \/ l[x].blue_score < l[y].blue_score
  \/ l[x].blue_score = l[y].blue_score /\ x < y

SelectedChain(h) ==
  {h} \cup Reach([x \in DOMAIN labels |-> {labels[x].selected_parent} \ {None}], h)

SaturatingSub(a, b) == IF a >= b THEN a - b ELSE 0

\* check_finality with a threshold that is not above FINALITY_DEPTH.
CheckFinality(h) ==
  SaturatingSub(VirtualBlock.blue_score, labels[h].blue_score) >= FinalityDepth

\* can_reorganize walks from the target to the first tip.  The blocks below a
\* block that is no tip are no tips, so the walk ends at once or at the end of
\* the chain.
CanReorganize(target) ==
  target \in tips \/ Cardinality(SelectedChain(target)) <= FinalityDepth

-----------------------------------------------------------------------------
(* Safety. *)

TypeOK ==
  /\ DagTypeOK
  /\ labels \in [DOMAIN blocks -> Label]
  /\ processed \subseteq DOMAIN blocks
  /\ removed \in Nat

\* get_ordering lists a block after all its ancestors: whatever recomputation a
\* later block causes, the score of a parent stays below that of its child.
OrderingTopological ==
  \A h \in processed : \A p \in blocks[h].parents : labels[p].blue_score < labels[h].blue_score

\* A stored label is what recomputing it would give today, from the present
\* labels of the parents and over the present DAG, but for the blocks that have
\* arrived since: its selected parent is the one that would be selected now, its
\* blue and red sets are that parent's blue set and the colouring of the blocks
\* of the parent's present anticone it has seen, and its score counts from the
\* present score of the parent.  The labels of the parents change, and blocks
\* are added to their anticones, after the block was processed.
LabelsCurrent ==
  removed = 0 => \A h \in processed : blocks[h].parents # {} =>
    LET label  == labels[h]
        parent == SelectParent(labels, blocks[h].parents)
        seen   == Anticone(blocks, parent) \cap (label.blue_set \cup label.red_set)
        sets   == ColourAll(blocks, labels[parent].blue_set \cup {parent}, Ascending(seen))
    IN
      /\ label.selected_parent = parent
      /\ label.blue_set = sets.blue /\ label.red_set = sets.red
      /\ label.blue_score = labels[parent].blue_score + Cardinality(label.blue_set)

\* The two notions of a virtual block agree: the block of the highest score of
\* all is the selected parent of the block built over the tips.
VirtualBlocksAgree ==
  removed = 0 /\ Pending = {} /\ Cardinality(DOMAIN blocks) > 1 =>
    VirtualBlock.selected_parent = GetVirtualBlock

\* One pass in topological order is enough: recomputing any block that
\* process_block has recomputed changes nothing.
PassSettles ==
  [][\A h \in Hash : ProcessBlock(h) =>
       \A x \in Affected(blocks, h) : Recompute(blocks, labels', x) = labels']_vars

-----------------------------------------------------------------------------
(* Claims of the documentation and the comments. *)

\* "Blue score dihitung sebagai blue score selected parent + 1" (the blue score
\* is that of the selected parent plus one, docs/klomang-core-consensus.md:24).
\* The code adds the size of the blue set.
ScoreStepsByOne ==
  \A h \in processed : blocks[h].parents # {} =>
    labels[h].blue_score = labels[labels[h].selected_parent].blue_score + 1

\* "Ordering is always consistent in the whole network": a node that received
\* the same blocks in another order, that of topological_sort, and processed
\* each as it came, orders them in the same way.
Replay ==
  FoldLeft(LAMBDA node, h :
             LET b == WithBlock(node.blocks, h, blocks[h].parents)
                 l == [x \in DOMAIN b |-> IF x = h THEN NewLabel ELSE node.labels[x]]
             IN  [blocks |-> b, labels |-> Process(b, l, h)],
           [blocks |-> NoBlocks, labels |-> [h \in {} |-> NewLabel]],
           TopologicalSort(blocks, DOMAIN blocks)).labels

OrderingAgreed ==
  removed = 0 /\ Pending = {} =>
    \A x, y \in DOMAIN blocks : Before(labels, x, y) <=> Before(Replay, x, y)

\* "k-cluster check": a blue block has at most k blue blocks in its anticone.
BlueSetIsKCluster ==
  \A h \in DOMAIN blocks : \A x \in labels[h].blue_set :
    Cardinality(Anticone(blocks, x) \cap labels[h].blue_set) <= K

\* "Check if reorganization to target block would violate finality": a tip one
\* may reorganize to has every final block of the selected chain on its own.
ReorganizationKeepsFinal ==
  removed = 0 /\ Pending = {} =>
    \A t \in tips : CanReorganize(t) =>
      \A h \in SelectedChain(GetVirtualBlock) : CheckFinality(h) => h \in SelectedChain(t)
=============================================================================
