-------------------------------- MODULE Dag --------------------------------
(***************************************************************************)
(* The block DAG of src/core/dag: the blocks with their links to parents   *)
(* and children, and the set of tips.                                      *)
(*                                                                         *)
(* A block is its id.  The labels that consensus keeps on the same         *)
(* BlockNode (selected parent, blue and red set, blue score) are in        *)
(* GhostDag; the other fields of a header are not read there.  The         *)
(* operators take the blocks as an argument, so that a module may hold the *)
(* DAGs of several nodes.                                                  *)
(***************************************************************************)
EXTENDS Integers, FiniteSets

CONSTANT Hash       \* block ids, in the order of their bytes

ASSUME HashAssumption == Hash \subseteq Nat

VARIABLES
  blocks,    \* HashMap<Hash, BlockNode>: the parents and children of each block
  tips

dagVars == <<blocks, tips>>

Node == [parents : SUBSET Hash, children : SUBSET Hash]

NoBlocks == [h \in {} |-> [parents |-> {}, children |-> {}]]

DagInit == blocks = NoBlocks /\ tips = {}

-----------------------------------------------------------------------------
\* add_block refuses a known id, a second genesis and a missing parent (which
\* a reference to itself always is).
CanAdd(b, h, parents) ==
  /\ h \notin DOMAIN b
  /\ h \notin parents
  /\ parents = {} => DOMAIN b = {}
  /\ parents \subseteq DOMAIN b

WithBlock(b, h, parents) ==
  [x \in DOMAIN b \cup {h} |->
     IF x = h THEN [parents |-> parents, children |-> {}]
     ELSE IF x \in parents THEN [b[x] EXCEPT !.children = @ \cup {h}]
     ELSE b[x]]

\* Faulty variant: a parent that was a tip remains one.
KeepTips(ts, h, parents) == ts \cup {h}

NewTips(ts, h, parents) == (ts \ parents) \cup {h}

AddBlock(h, parents) ==
  /\ CanAdd(blocks, h, parents)
  /\ blocks' = WithBlock(blocks, h, parents)
  /\ tips' = NewTips(tips, h, parents)

\* Faulty variants of remove_block: one of the two kinds of links survives.
WithoutBlockKeepsChild(b, h) ==
  [x \in DOMAIN b \ {h} |-> [b[x] EXCEPT !.parents = @ \ {h}]]
WithoutBlockKeepsParent(b, h) ==
  [x \in DOMAIN b \ {h} |-> [b[x] EXCEPT !.children = @ \ {h}]]

WithoutBlock(b, h) ==
  [x \in DOMAIN b \ {h} |->
     [parents  |-> IF x \in b[h].children THEN b[x].parents \ {h} ELSE b[x].parents,
      children |-> IF x \in b[h].parents THEN b[x].children \ {h} ELSE b[x].children]]

\* remove_block does not make the parents of the block tips again.
RemoveBlock(h) ==
  /\ h \in DOMAIN blocks
  /\ blocks' = WithoutBlock(blocks, h)
  /\ tips' = tips \ {h}

-----------------------------------------------------------------------------
\* What a search along `link' from h visits, h itself aside.
Reach(link, h) ==
  LET Within[n \in 0..Cardinality(DOMAIN link)] ==
        IF n = 0 THEN link[h]
        ELSE LET nearer == Within[n - 1]
             IN  nearer \cup UNION {link[x] : x \in nearer \cap DOMAIN link}
  IN  Within[Cardinality(DOMAIN link)]

Ancestors(b, h)   == Reach([x \in DOMAIN b |-> b[x].parents], h)
Descendants(b, h) == Reach([x \in DOMAIN b |-> b[x].children], h)
Anticone(b, h)    == DOMAIN b \ ({h} \cup Ancestors(b, h) \cup Descendants(b, h))

-----------------------------------------------------------------------------
(* Safety. *)

DagTypeOK ==
  /\ DOMAIN blocks \subseteq Hash /\ blocks \in [DOMAIN blocks -> Node]
  /\ tips \subseteq Hash

\* The two directions of every link agree and lead to stored blocks, whatever
\* is added and removed: get_descendants walks children, get_ancestors walks
\* parents, and the anticone is wrong for both blocks if one link is missing.
LinksMirrored ==
  \A h \in DOMAIN blocks :
    /\ blocks[h].parents \subseteq DOMAIN blocks
    /\ blocks[h].children = {c \in DOMAIN blocks : h \in blocks[c].parents}

\* Every set of blocks has one without a parent in the set, also when a removed
\* id is added again above what used to be its descendants.
Acyclic ==
  \A S \in SUBSET DOMAIN blocks :
    S # {} => \E x \in S : blocks[x].parents \cap S = {}

\* A tip has no child: the virtual block never refers to a block and to one of
\* its ancestors.
TipsAreSinks == \A t \in tips : t \in DOMAIN blocks /\ blocks[t].children = {}
=============================================================================
