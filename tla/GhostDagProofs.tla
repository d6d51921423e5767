--------------------------- MODULE GhostDagProofs ---------------------------
(***************************************************************************)
(* The DAG and the labels of its blocks, for any set of hashes, any k and  *)
(* any sequence of additions, removals and processing: the links mirror    *)
(* each other, there is no cycle and tips have no children; the order      *)
(* topological_sort returns is topological, one pass in that order settles *)
(* the labels, and so the labels of all processed blocks stay above those  *)
(* of their parents and what recomputing them would give.                  *)
(***************************************************************************)
EXTENDS GhostDag, FiniteSetTheorems, WellFoundedInduction, TLAPS

DagInv == DagTypeOK /\ LinksMirrored /\ Acyclic /\ TipsAreSinks

-----------------------------------------------------------------------------
(* Adding a block. *)

\* The new blocks are typed.
LEMMA AddType ==
  ASSUME DagInv, NEW h \in Hash, NEW parents \in SUBSET DOMAIN blocks, AddBlock(h, parents)
  PROVE  DagTypeOK'
PROOF
  <1>1. DOMAIN blocks' = DOMAIN blocks \cup {h}
    BY DEF AddBlock, WithBlock
  <1>2. ASSUME NEW x \in DOMAIN blocks' PROVE blocks'[x] \in Node
    BY <1>1, <1>2 DEF AddBlock, WithBlock, DagInv, DagTypeOK, Node
  <1>3. blocks' = [x \in DOMAIN blocks' |-> blocks'[x]]
    BY DEF AddBlock, WithBlock
  <1>4. tips' \subseteq Hash
    BY DEF AddBlock, NewTips, DagInv, DagTypeOK
  <1> QED BY <1>1, <1>2, <1>3, <1>4 DEF DagInv, DagTypeOK

\* The parents and the children of each block once h is added.
Added(h, parents) ==
  /\ DOMAIN blocks' = DOMAIN blocks \cup {h}
  /\ h \notin DOMAIN blocks
  /\ blocks'[h].parents = parents /\ blocks'[h].children = {}
  /\ \A x \in DOMAIN blocks :
       /\ blocks'[x].parents = blocks[x].parents
       /\ blocks'[x].children = IF x \in parents THEN blocks[x].children \cup {h}
                                ELSE blocks[x].children

\* add_block leaves these links.
LEMMA AddLinks ==
  ASSUME DagInv, NEW h \in Hash, NEW parents \in SUBSET DOMAIN blocks, AddBlock(h, parents)
  PROVE  Added(h, parents)
PROOF
  <1>1. \A x \in DOMAIN blocks : blocks[x] \in Node
    BY DEF DagInv, DagTypeOK
  <1> QED BY <1>1 DEF AddBlock, CanAdd, WithBlock, Node, Added

\* add_block links the new block in both directions.
LEMMA AddMirrors ==
  ASSUME DagInv, NEW h \in Hash, NEW parents \in SUBSET DOMAIN blocks, AddBlock(h, parents)
  PROVE  LinksMirrored'
PROOF
  <1>0. Added(h, parents)
    BY AddLinks
  <1>1. ASSUME NEW x \in DOMAIN blocks'
        PROVE  /\ blocks'[x].parents \subseteq DOMAIN blocks'
               /\ blocks'[x].children = {c \in DOMAIN blocks' : x \in blocks'[c].parents}
    <2>1. CASE x = h
      BY <2>1, <1>0 DEF Added, DagInv, LinksMirrored
    <2>2. CASE x # h
      <3>1. x \in DOMAIN blocks
        BY <1>1, <2>2, <1>0 DEF Added
      <3>2. blocks[x].parents \subseteq DOMAIN blocks
        BY <3>1 DEF DagInv, LinksMirrored
      <3>3. blocks[x].children = {c \in DOMAIN blocks : x \in blocks[c].parents}
        BY <3>1 DEF DagInv, LinksMirrored
      <3>4. {c \in DOMAIN blocks' : x \in blocks'[c].parents}
              = {c \in DOMAIN blocks : x \in blocks[c].parents} \cup {c \in {h} : x \in parents}
        BY <1>0 DEF Added
      <3>5. blocks'[x].children
              = {c \in DOMAIN blocks : x \in blocks[c].parents} \cup {c \in {h} : x \in parents}
        BY <3>1, <3>3, <1>0 DEF Added
      <3>6. blocks'[x].parents \subseteq DOMAIN blocks'
        BY <3>1, <3>2, <1>0 DEF Added
      <3> QED BY <3>4, <3>5, <3>6
    <2> QED BY <2>1, <2>2
  <1> QED BY <1>1 DEF LinksMirrored

\* A new block is nobody's parent, so no cycle goes through it.
LEMMA AddAcyclic ==
  ASSUME DagInv, NEW h \in Hash, NEW parents \in SUBSET DOMAIN blocks, AddBlock(h, parents)
  PROVE  Acyclic'
PROOF
  <1>0. Added(h, parents)
    BY AddLinks
  <1> SUFFICES ASSUME NEW S \in SUBSET DOMAIN blocks', S # {}
               PROVE  \E x \in S : blocks'[x].parents \cap S = {}
    BY DEF Acyclic
  <1>1. CASE S \subseteq {h}
    BY <1>1, <1>0 DEF Added
  <1>2. CASE ~(S \subseteq {h})
    <2>1. S \ {h} \in SUBSET DOMAIN blocks /\ S \ {h} # {}
      BY <1>2, <1>0 DEF Added
    <2>2. PICK x \in S \ {h} : blocks[x].parents \cap (S \ {h}) = {}
      BY <2>1 DEF DagInv, Acyclic
    <2>3. x \in DOMAIN blocks /\ h \notin blocks[x].parents
      BY <2>1, <2>2, <1>0 DEF Added, DagInv, LinksMirrored
    <2>4. blocks'[x].parents = blocks[x].parents
      BY <2>3, <1>0 DEF Added
    <2>5. blocks'[x].parents \cap S = {}
      BY <2>2, <2>3, <2>4
    <2> QED BY <2>5
  <1> QED BY <1>1, <1>2

\* The new block is a tip and its parents no longer are.
LEMMA AddTips ==
  ASSUME DagInv, NEW h \in Hash, NEW parents \in SUBSET DOMAIN blocks, AddBlock(h, parents)
  PROVE  TipsAreSinks'
PROOF
  <1>0. Added(h, parents)
    BY AddLinks
  <1>1. tips' = (tips \ parents) \cup {h}
    BY DEF AddBlock, NewTips
  <1>2. ASSUME NEW t \in tips' PROVE t \in DOMAIN blocks' /\ blocks'[t].children = {}
    BY <1>1, <1>2, <1>0 DEF Added, DagInv, TipsAreSinks
  <1> QED BY <1>2 DEF TipsAreSinks

-----------------------------------------------------------------------------
(* Removing a block. *)

\* The parents and the children of each block once h is removed.
Removed(h) ==
  /\ h \in DOMAIN blocks
  /\ DOMAIN blocks' = DOMAIN blocks \ {h}
  /\ \A x \in DOMAIN blocks' :
       /\ blocks'[x].parents = blocks[x].parents \ {h}
       /\ blocks'[x].children = blocks[x].children \ {h}

\* remove_block leaves these links.
LEMMA RemoveLinks ==
  ASSUME DagInv, NEW h \in Hash, RemoveBlock(h)
  PROVE  Removed(h)
PROOF
  <1>1. \A x \in DOMAIN blocks :
          /\ x \in blocks[h].children <=> h \in blocks[x].parents
          /\ x \in blocks[h].parents <=> h \in blocks[x].children
    BY DEF DagInv, LinksMirrored, RemoveBlock
  <1> QED BY <1>1 DEF RemoveBlock, WithoutBlock, Removed

\* The remaining blocks are typed.
LEMMA RemoveType ==
  ASSUME DagInv, NEW h \in Hash, RemoveBlock(h)
  PROVE  DagTypeOK'
PROOF
  <1>0. Removed(h)
    BY RemoveLinks
  <1>1. ASSUME NEW x \in DOMAIN blocks' PROVE blocks'[x] \in Node
    <2>1. blocks[x] \in Node
      BY <1>1, <1>0 DEF Removed, DagInv, DagTypeOK
    <2> QED BY <1>1, <2>1 DEF RemoveBlock, WithoutBlock, Node
  <1>2. blocks' = [x \in DOMAIN blocks' |-> blocks'[x]]
    BY DEF RemoveBlock, WithoutBlock
  <1>3. tips' \subseteq Hash
    BY DEF RemoveBlock, DagInv, DagTypeOK
  <1> QED BY <1>1, <1>2, <1>3, <1>0 DEF Removed, DagInv, DagTypeOK

\* remove_block cuts both directions of every link of the block.
LEMMA RemoveMirrors ==
  ASSUME DagInv, NEW h \in Hash, RemoveBlock(h)
  PROVE  LinksMirrored'
PROOF
  <1>0. Removed(h)
    BY RemoveLinks
  <1>1. ASSUME NEW x \in DOMAIN blocks'
        PROVE  /\ blocks'[x].parents \subseteq DOMAIN blocks'
               /\ blocks'[x].children = {c \in DOMAIN blocks' : x \in blocks'[c].parents}
    BY <1>1, <1>0 DEF Removed, DagInv, LinksMirrored
  <1> QED BY <1>1 DEF LinksMirrored

\* Fewer blocks and fewer links cannot close a cycle.
LEMMA RemoveAcyclic ==
  ASSUME DagInv, NEW h \in Hash, RemoveBlock(h)
  PROVE  Acyclic'
PROOF
  <1>0. Removed(h)
    BY RemoveLinks
  <1> SUFFICES ASSUME NEW S \in SUBSET DOMAIN blocks', S # {}
               PROVE  \E x \in S : blocks'[x].parents \cap S = {}
    BY DEF Acyclic
  <1>1. S \in SUBSET DOMAIN blocks
    BY <1>0 DEF Removed
  <1>2. PICK x \in S : blocks[x].parents \cap S = {}
    BY <1>1 DEF DagInv, Acyclic
  <1> QED BY <1>2, <1>0 DEF Removed

\* A removal leaves the other tips without children.
LEMMA RemoveTips ==
  ASSUME DagInv, NEW h \in Hash, RemoveBlock(h)
  PROVE  TipsAreSinks'
PROOF
  <1>0. Removed(h)
    BY RemoveLinks
  <1>1. tips' = tips \ {h}
    BY DEF RemoveBlock
  <1>2. ASSUME NEW t \in tips' PROVE t \in DOMAIN blocks' /\ blocks'[t].children = {}
    BY <1>1, <1>2, <1>0 DEF Removed, DagInv, TipsAreSinks
  <1> QED BY <1>2 DEF TipsAreSinks

-----------------------------------------------------------------------------
\* The empty DAG has the shape.
LEMMA InitDag == Init => DagInv
PROOF
  <1> SUFFICES ASSUME Init PROVE DagInv
    OBVIOUS
  <1>1. DOMAIN blocks = {} /\ tips = {}
    BY DEF Init, DagInit, NoBlocks
  <1>2. blocks \in [DOMAIN blocks -> Node]
    BY <1>1 DEF Init, DagInit, NoBlocks
  <1> QED BY <1>1, <1>2 DEF DagInv, DagTypeOK, LinksMirrored, Acyclic, TipsAreSinks

\* Every step keeps it; consensus does not touch a link.
LEMMA StepDag == DagInv /\ [Next]_vars => DagInv'
PROOF
  <1> SUFFICES ASSUME DagInv, [Next]_vars PROVE DagInv'
    OBVIOUS
  <1>1. ASSUME NEW h \in Hash, NEW parents \in SUBSET DOMAIN blocks, Receive(h, parents)
        PROVE  DagInv'
    <2>1. AddBlock(h, parents)
      BY <1>1 DEF Receive
    <2> QED BY <2>1, AddType, AddMirrors, AddAcyclic, AddTips DEF DagInv
  <1>2. ASSUME NEW h \in Removable, Discard(h) PROVE DagInv'
    <2>1. h \in Hash /\ RemoveBlock(h)
      BY <1>2, ConsensusAssumption DEF Discard
    <2> QED BY <2>1, RemoveType, RemoveMirrors, RemoveAcyclic, RemoveTips DEF DagInv
  <1>3. CASE UNCHANGED <<blocks, tips>>
    BY <1>3 DEF DagInv, DagTypeOK, LinksMirrored, Acyclic, TipsAreSinks
  <1> QED BY <1>1, <1>2, <1>3 DEF Next, ProcessBlock, vars

\* The shape of the DAG is an inductive invariant.
LEMMA DagInvariant == Spec => []DagInv
PROOF
  <1> QED BY InitDag, StepDag, PTL DEF Spec

\* Every parent of a stored block is stored, and a block is among the children
\* of exactly its parents, after any sequence of add_block and remove_block.
THEOREM LinksAlwaysMirrored == Spec => []LinksMirrored
PROOF
  <1>1. DagInv => LinksMirrored
    BY DEF DagInv
  <1> QED BY DagInvariant, <1>1, PTL

\* The blocks never form a cycle, so the searches for ancestors end and
\* topological_sort reaches every node it is given.
THEOREM AlwaysAcyclic == Spec => []Acyclic
PROOF
  <1>1. DagInv => Acyclic
    BY DEF DagInv
  <1> QED BY DagInvariant, <1>1, PTL

\* A tip never has a child: no parent of the virtual block is an ancestor of
\* another.
THEOREM TipsAlwaysSinks == Spec => []TipsAreSinks
PROOF
  <1>1. DagInv => TipsAreSinks
    BY DEF DagInv
  <1> QED BY DagInvariant, <1>1, PTL

-----------------------------------------------------------------------------
(* Recursive functions and induction. *)

\* The order of the naturals, as the well-foundedness theorem of the library wants it.
LEMMA NatOrder == OpToRel(<, Nat) = {ss \in Nat \X Nat : ss[1] < ss[2]}
BY DEF OpToRel

\* A nonempty set of naturals has a least element.
LEMMA LeastNat ==
  ASSUME NEW T \in SUBSET Nat, T # {}
  PROVE  \E x \in T : \A y \in T : x <= y
PROOF
  <1> DEFINE R == {ss \in Nat \X Nat : ss[1] < ss[2]}
  <1>1. IsWellFoundedOn(R, Nat)
    BY NatLessThanWellFounded, NatOrder
  <1>2. PICK x \in T : \A y \in T : ~ (<<y, x>> \in R)
    <2> HIDE DEF R
    <2> QED BY <1>1, WFMin
  <1>3. ASSUME NEW y \in T, y < x PROVE FALSE
    <2>1. x \in Nat /\ y \in Nat
      OBVIOUS
    <2>2. <<y, x>> \in R
      BY <2>1, <1>3
    <2> QED BY <1>2, <2>2
  <1> QED BY <1>3

\* f is what the recursive definition over 0..n from base by the steps G defines.
Solution(f, X, base, n, G) ==
  f \in [0..n -> X] /\ f[0] = base /\ \A i \in 1..n : f[i] = G[i][f[i - 1]]

\* A recursive definition over 0..n whose steps map X to X has a solution.
LEMMA Recursion ==
  ASSUME NEW X, NEW base \in X, NEW n \in Nat, NEW G \in [1..n -> [X -> X]]
  PROVE  \E f : Solution(f, X, base, n, G)
PROOF
  <1> DEFINE Solves(f, m) == f = [i \in 0..m |-> IF i = 0 THEN base ELSE G[i][f[i - 1]]]
             Solved(m) == \E f \in [0..m -> X] : Solves(f, m)
  <1>1. Solved(0)
    <2> DEFINE g == [i \in 0..0 |-> base]
    <2>1. \A i \in 0..0 : i = 0
      BY SMT
    <2>2. g \in [0..0 -> X]
      OBVIOUS
    <2>3. Solves(g, 0)
      BY <2>1, Zenon
    <2> QED BY <2>2, <2>3
  <1>2. ASSUME NEW m \in 1..n, Solved(m - 1) PROVE Solved(m)
    <2>1. PICK f \in [0..m - 1 -> X] : Solves(f, m - 1)
      BY <1>2
    <2> DEFINE g == [i \in 0..m |-> IF i = m THEN G[m][f[m - 1]] ELSE f[i]]
    <2>2. \A i \in 0..m - 1 : f[i] \in X /\ f[i] = IF i = 0 THEN base ELSE G[i][f[i - 1]]
      BY <2>1
    <2>3. m - 1 \in 0..m - 1 /\ m # 0 /\ \A i \in 0..m : i # m => i \in 0..m - 1
      OBVIOUS
    <2>4. G[m][f[m - 1]] \in X
      BY <2>2, <2>3
    <2>5. g \in [0..m -> X]
      BY <2>2, <2>3, <2>4
    <2>6. ASSUME NEW i \in 0..m PROVE g[i] = IF i = 0 THEN base ELSE G[i][g[i - 1]]
      <3>1. CASE i = m
        BY <3>1, <2>3
      <3>2. CASE i # m
        <4>1. i \in 0..m - 1 /\ i - 1 # m
          BY <3>2, <2>3
        <4>2. i # 0 => i - 1 \in 0..m
          BY <4>1
        <4> QED BY <4>1, <4>2, <2>2, <3>2
      <3> QED BY <3>1, <3>2
    <2>7. Solves(g, m)
      <3>1. g = [i \in 0..m |-> g[i]]
        OBVIOUS
      <3> HIDE DEF g
      <3> QED BY <3>1, <2>6
    <2> QED BY <2>5, <2>7
  <1>3. ASSUME NEW m \in 0..n PROVE Solved(m)
    <2> DEFINE T == {x \in 0..n : ~Solved(x)}
    <2> HIDE DEF Solved
    <2> SUFFICES ASSUME T # {} PROVE FALSE
      OBVIOUS
    <2>1. T \in SUBSET Nat
      OBVIOUS
    <2>2. PICK x \in T : \A y \in T : x <= y
      <3> HIDE DEF T
      <3> QED BY <2>1, LeastNat
    <2>3. x \in 1..n /\ x - 1 \in 0..n /\ ~(x <= x - 1)
      BY <2>2, <1>1
    <2>4. Solved(x - 1)
      BY <2>2, <2>3
    <2> QED BY <2>2, <2>3, <2>4, <1>2
  <1>4. Solved(n)
    <2> HIDE DEF Solved
    <2> QED BY <1>3
  <1>5. PICK f \in [0..n -> X] : Solves(f, n)
    BY <1>4
  <1>6. f[0] = base /\ \A i \in 1..n : f[i] = G[i][f[i - 1]]
    BY <1>5
  <1> QED BY <1>6 DEF Solution

\* Induction over 0..n, with the set of the numbers for which the claim holds.
LEMMA UpTo ==
  ASSUME NEW n \in Nat, NEW T, 0 \in T, \A i \in 1..n : i - 1 \in T => i \in T
  PROVE  0..n \subseteq T
PROOF
  <1> DEFINE U == (0..n) \ T
  <1> SUFFICES ASSUME U # {} PROVE FALSE
    OBVIOUS
  <1>1. U \in SUBSET Nat
    OBVIOUS
  <1>2. PICK x \in U : \A y \in U : x <= y
    <2> HIDE DEF U
    <2> QED BY <1>1, LeastNat
  <1>3. x \in 1..n /\ x - 1 \in 0..n /\ ~(x <= x - 1)
    BY <1>2
  <1> QED BY <1>2, <1>3

\* The same when the step maps what may stand at one index to what may stand at
\* the next.
LEMMA RecursionInv ==
  ASSUME NEW X, NEW n \in Nat, NEW Inv \in [0..n -> SUBSET X], NEW base \in Inv[0],
         NEW G \in [1..n -> [X -> X]],
         \A i \in 1..n : \A x \in Inv[i - 1] : G[i][x] \in Inv[i]
  PROVE  \E f : Solution(f, X, base, n, G) /\ \A i \in 0..n : f[i] \in Inv[i]
PROOF
  <1>0. 0 \in 0..n
    OBVIOUS
  <1>1. base \in X
    BY <1>0
  <1>2. PICK f : Solution(f, X, base, n, G)
    BY <1>1, Recursion
  <1> DEFINE T == {i \in 0..n : f[i] \in Inv[i]}
  <1>4. 0 \in T
    BY <1>0, <1>2 DEF Solution
  <1>5. ASSUME NEW i \in 1..n, i - 1 \in T PROVE i \in T
    BY <1>2, <1>5 DEF Solution
  <1>6. 0..n \subseteq T
    <2> HIDE DEF T
    <2> QED BY <1>4, <1>5, UpTo
  <1> QED BY <1>2, <1>6

-----------------------------------------------------------------------------
(* Searches along the links. *)

\* What lies within n links of h, for each n.
Layers(D, link, h, W) ==
  /\ W[0] = link[h]
  /\ \A i \in 1..Cardinality(D) : W[i] = W[i - 1] \cup UNION {link[x] : x \in W[i - 1] \cap D}

\* Reach returns the last of as many layers as there are nodes.
LEMMA ReachLayers ==
  ASSUME NEW D, IsFiniteSet(D), NEW link \in [D -> SUBSET D], NEW h \in D
  PROVE  \E W : Layers(D, link, h, W) /\ Reach(link, h) = W[Cardinality(D)]
PROOF
  <1> DEFINE N == Cardinality(D)
             Next1(s) == s \cup UNION {link[x] : x \in s \cap D}
             G == [i \in 1..N |-> [s \in SUBSET D |-> Next1(s)]]
             Solves(f) == f = [n \in 0..Cardinality(DOMAIN link) |->
                    IF n = 0 THEN link[h]
                    ELSE LET nearer == f[n - 1]
                         IN  nearer \cup UNION {link[x] : x \in nearer \cap DOMAIN link}]
             W == CHOOSE f : Solves(f)
  <1>1. N \in Nat /\ DOMAIN link = D
    BY FS_CardinalityType
  <1>2. Reach(link, h) = W[N]
    BY <1>1 DEF Reach
  <1>3. \A s \in SUBSET D : Next1(s) \in SUBSET D
    OBVIOUS
  <1>4. G \in [1..N -> [SUBSET D -> SUBSET D]]
    BY <1>3
  <1>5. link[h] \in SUBSET D
    OBVIOUS
  <1>6a. PICK f : Solution(f, SUBSET D, link[h], N, G)
    <2> HIDE DEF N, G
    <2> QED BY <1>1, <1>4, <1>5, Recursion
  <1>6. f \in [0..N -> SUBSET D] /\ f[0] = link[h] /\ \A i \in 1..N : f[i] = G[i][f[i - 1]]
    BY <1>6a DEF Solution
  <1>7. Solves(f)
    <2>1. \A i \in 0..N : f[i] = IF i = 0 THEN link[h] ELSE Next1(f[i - 1])
      <3> SUFFICES ASSUME NEW i \in 0..N
                   PROVE  f[i] = IF i = 0 THEN link[h] ELSE Next1(f[i - 1])
        OBVIOUS
      <3>1. i # 0 => i \in 1..N /\ f[i - 1] \in SUBSET D
        BY <1>1, <1>6
      <3> HIDE DEF N, Next1
      <3> QED BY <3>1, <1>6
    <2>2. f = [n \in 0..N |-> f[n]]
      BY <1>6
    <2> QED BY <2>1, <2>2, <1>1
  <1>8. Solves(W)
    <2> HIDE DEF Solves
    <2> QED BY <1>7
  <1> HIDE DEF W
  <1>9. W[0] = link[h] /\ \A i \in 1..N : W[i] = Next1(W[i - 1])
    <2>1. \A i \in 0..N : W[i] = IF i = 0 THEN link[h]
                               ELSE W[i - 1] \cup UNION {link[x] : x \in W[i - 1] \cap D}
      BY <1>8, <1>1, Zenon
    <2>2. 0 \in 0..N /\ \A i \in 1..N : i \in 0..N /\ i # 0
      BY <1>1
    <2> QED BY <2>1, <2>2
  <1> QED BY <1>2, <1>9 DEF Layers

\* What Reach returns contains the first links and is closed under links.
LEMMA ReachClosed ==
  ASSUME NEW D, IsFiniteSet(D), NEW link \in [D -> SUBSET D], NEW h \in D
  PROVE  /\ Reach(link, h) \subseteq D
         /\ link[h] \subseteq Reach(link, h)
         /\ \A x \in Reach(link, h) : link[x] \subseteq Reach(link, h)
PROOF
  <1> DEFINE N == Cardinality(D)
             Next1(s) == s \cup UNION {link[x] : x \in s \cap D}
             Closed(s) == \A x \in s : link[x] \subseteq s
  <1>1. N \in Nat
    BY FS_CardinalityType
  <1>2. PICK W : Layers(D, link, h, W) /\ Reach(link, h) = W[N]
    BY ReachLayers
  <1>3. \A s \in SUBSET D : Next1(s) \in SUBSET D
    OBVIOUS
  <1>5. link[h] \in SUBSET D
    OBVIOUS
  <1>9. W[0] = link[h] /\ \A i \in 1..N : W[i] = Next1(W[i - 1])
    BY <1>2 DEF Layers
  <1>10. \A i \in 0..N : W[i] \in SUBSET D
    <2> DEFINE T == {i \in 0..N : W[i] \in SUBSET D}
    <2>1. 0 \in T
      BY <1>9, <1>5, <1>1
    <2>2. ASSUME NEW i \in 1..N, i - 1 \in T PROVE i \in T
      <3> HIDE DEF Next1
      <3> QED BY <2>2, <1>9, <1>3, <1>1
    <2>3. 0..N \subseteq T
      <3> HIDE DEF T, N
      <3> QED BY <2>1, <2>2, <1>1, UpTo
    <2> QED BY <2>3
  <1>11. \A i \in 1..N : W[i - 1] \subseteq W[i]
    BY <1>9
  <1>12. PICK i \in 0..N : Closed(W[i])
    <2>1. CASE \E i \in 1..N : W[i] = W[i - 1]
      <3>1. PICK i \in 1..N : W[i] = W[i - 1]
        BY <2>1
      <3>2. i - 1 \in 0..N /\ W[i] = Next1(W[i - 1]) /\ W[i - 1] \subseteq D
        BY <1>1, <1>9, <1>10
      <3> QED BY <3>1, <3>2
    <2>2. CASE link[h] = {}
      BY <2>2, <1>9, <1>1
    <2>3. CASE link[h] # {} /\ \A i \in 1..N : W[i] # W[i - 1]
      <3> DEFINE T == {i \in 0..N : Cardinality(W[i]) > i}
      <3>0. \A i \in 0..N : IsFiniteSet(W[i]) /\ Cardinality(W[i]) \in Nat /\ Cardinality(W[i]) <= N
        BY <1>10, FS_Subset, FS_CardinalityType
      <3>1. 0 \in T
        <4>1. IsFiniteSet(W[0]) /\ Cardinality(W[0]) \in Nat /\ W[0] # {}
          BY <3>0, <1>1, <1>9, <2>3
        <4>2. Cardinality(W[0]) # 0
          BY <4>1, FS_EmptySet
        <4> QED BY <4>1, <4>2, <1>1
      <3>2. ASSUME NEW i \in 1..N, i - 1 \in T PROVE i \in T
        <4>1. i - 1 \in 0..N /\ W[i - 1] \subseteq W[i] /\ W[i - 1] # W[i]
          BY <1>1, <1>11, <2>3
        <4>2. Cardinality(W[i - 1]) <= Cardinality(W[i]) /\ Cardinality(W[i - 1]) # Cardinality(W[i])
          BY <4>1, <3>0, FS_Subset, <1>1
        <4>3. Cardinality(W[i]) \in Nat /\ Cardinality(W[i - 1]) \in Nat
          BY <4>1, <3>0, <1>1
        <4>4. Cardinality(W[i - 1]) > i - 1
          BY <3>2
        <4> QED BY <4>2, <4>3, <4>4, <1>1
      <3>3. 0..N \subseteq T
        <4> HIDE DEF T, N
        <4> QED BY <3>1, <3>2, <1>1, UpTo
      <3>4. N \in 0..N
        BY <1>1
      <3>5. Cardinality(W[N]) > N /\ Cardinality(W[N]) <= N /\ Cardinality(W[N]) \in Nat
        BY <3>0, <3>3, <3>4
      <3> QED BY <3>5, <1>1
    <2> QED BY <2>1, <2>2, <2>3
  <1>13. W[N] = W[i] /\ link[h] \subseteq W[i]
    <2> DEFINE T == {j \in 0..N : /\ j >= i => W[j] = W[i]
                                  /\ j <= i => link[h] \subseteq W[j]}
    <2>1. 0 \in T
      BY <1>1, <1>9
    <2>2. ASSUME NEW j \in 1..N, j - 1 \in T PROVE j \in T
      <3>1. W[j] = Next1(W[j - 1]) /\ W[j - 1] \subseteq W[j] /\ j - 1 \in 0..N
        BY <1>9, <1>11, <1>1
      <3>2. CASE j <= i
        <4>1. j - 1 <= i
          BY <3>2, <1>1
        <4> QED BY <4>1, <3>1, <2>2, <3>2, <1>1
      <3>3. CASE j > i
        <4>1. j - 1 >= i
          BY <3>3, <1>1
        <4>2. W[j - 1] = W[i]
          BY <4>1, <2>2
        <4>3. W[j] = W[i]
          BY <4>2, <3>1, <1>12
        <4> QED BY <4>3, <3>3, <1>1
      <3> QED BY <3>2, <3>3, <1>1
    <2>3. 0..N \subseteq T
      <3> HIDE DEF T, N
      <3> QED BY <2>1, <2>2, <1>1, UpTo
    <2>4. N \in T /\ i \in T /\ N >= i
      BY <2>3, <1>1
    <2> QED BY <2>4
  <1> QED BY <1>2, <1>10, <1>12, <1>13, <1>1

\* It is within every set that contains the first links and is closed.
LEMMA ReachLeast ==
  ASSUME NEW D, IsFiniteSet(D), NEW link \in [D -> SUBSET D], NEW h \in D,
         NEW S, link[h] \subseteq S, \A x \in S \cap D : link[x] \subseteq S
  PROVE  Reach(link, h) \subseteq S
PROOF
  <1> DEFINE N == Cardinality(D)
  <1>1. N \in Nat
    BY FS_CardinalityType
  <1>2. PICK W : Layers(D, link, h, W) /\ Reach(link, h) = W[N]
    BY ReachLayers
  <1> DEFINE T == {i \in 0..N : W[i] \subseteq S}
  <1>3. 0 \in T
    BY <1>1, <1>2 DEF Layers
  <1>4. ASSUME NEW i \in 1..N, i - 1 \in T PROVE i \in T
    <2>1. W[i - 1] \subseteq S /\ i \in 0..N
      BY <1>4, <1>1
    <2>2. W[i] = W[i - 1] \cup UNION {link[x] : x \in W[i - 1] \cap D}
      BY <1>2 DEF Layers
    <2> HIDE DEF N
    <2> QED BY <2>1, <2>2
  <1>5. 0..N \subseteq T
    <2> HIDE DEF T, N
    <2> QED BY <1>1, <1>3, <1>4, UpTo
  <1> QED BY <1>1, <1>2, <1>5

-----------------------------------------------------------------------------
(* Sorting and selecting. *)

\* s lists the members of S, each once.
Lists(s, S) ==
  /\ s \in Seq(S) /\ Len(s) = Cardinality(S)
  /\ \A i, j \in 1..Len(s) : s[i] = s[j] => i = j
  /\ \A x \in S : \E i \in 1..Len(s) : s[i] = x

\* Ascending lists the hashes it is given.
LEMMA AscendingLists ==
  ASSUME NEW S \in SUBSET Nat, IsFiniteSet(S)
  PROVE  Lists(Ascending(S), S)
PROOF
  <1> DEFINE N == Cardinality(S)
             Less(x) == {y \in S : y < x}
             rank == [x \in S |-> Cardinality(Less(x)) + 1]
             A == Ascending(S)
  <1>1. N \in Nat
    BY FS_CardinalityType
  <1>2. \A x \in S : IsFiniteSet(Less(x)) /\ Cardinality(Less(x)) \in Nat
    BY FS_Subset, FS_CardinalityType
  <1>3. ASSUME NEW x \in S PROVE Cardinality(Less(x)) + 1 \in 1..N
    <2>1. Less(x) \subseteq S /\ x \notin Less(x)
      OBVIOUS
    <2>2. Cardinality(Less(x)) <= N /\ Cardinality(Less(x)) # N
      <3> HIDE DEF Less
      <3> QED BY <2>1, FS_Subset
    <2> QED BY <2>2, <1>1, <1>2
  <1>4. ASSUME NEW x \in S, NEW y \in S, x < y PROVE Cardinality(Less(x)) < Cardinality(Less(y))
    <2>0. x \in Nat /\ y \in Nat
      OBVIOUS
    <2>1. Less(x) \subseteq Less(y) /\ x \notin Less(x) /\ x \in Less(y)
      <3>1. \A z \in S : z < x => z < y
        BY <1>4, <2>0
      <3>2. ~(x < x)
        BY <2>0
      <3> QED BY <3>1, <3>2, <1>4
    <2>2. Cardinality(Less(x)) <= Cardinality(Less(y)) /\ Cardinality(Less(x)) # Cardinality(Less(y))
      <3> HIDE DEF Less
      <3> QED BY <2>1, <1>2, FS_Subset
    <2> QED BY <2>2, <1>2
  <1>5. rank \in Injection(S, 1..N)
    <2>1. rank \in [S -> 1..N]
      <3> HIDE DEF Less, N
      <3> QED BY <1>3
    <2>2. ASSUME NEW x \in S, NEW y \in S, rank[x] = rank[y] PROVE x = y
      <3>1. Cardinality(Less(x)) = Cardinality(Less(y))
        <4> HIDE DEF Less
        <4> QED BY <2>2, <1>2
      <3>2. ~(x < y) /\ ~(y < x)
        <4> HIDE DEF Less
        <4> QED BY <3>1, <1>4, <1>2
      <3> QED BY <3>2
    <2> HIDE DEF rank
    <2> QED BY <2>1, <2>2 DEF Injection, IsInjective
  <1>6. rank \in Surjection(S, 1..N)
    <2>1. IsFiniteSet(1..N) /\ Cardinality(1..N) = N
      BY <1>1, FS_Interval
    <2> HIDE DEF rank
    <2> QED BY <1>5, <2>1, FS_Injection
  <1>7. \A n \in 1..N : \E x \in S : Cardinality(Less(x)) = n - 1
    <2> SUFFICES ASSUME NEW n \in 1..N PROVE \E x \in S : Cardinality(Less(x)) = n - 1
      OBVIOUS
    <2>1. PICK x \in S : rank[x] = n
      <3> HIDE DEF rank
      <3> QED BY <1>6 DEF Surjection
    <2>2. Cardinality(Less(x)) + 1 = n
      BY <2>1
    <2> HIDE DEF Less
    <2> QED BY <2>2, <1>2, <1>1
  <1>8. ASSUME NEW n \in 1..N PROVE A[n] \in S /\ Cardinality(Less(A[n])) = n - 1
    <2>1. A[n] = CHOOSE x \in S : Cardinality(Less(x)) = n - 1
      BY DEF Ascending
    <2> HIDE DEF Less, A
    <2> QED BY <2>1, <1>7
  <1>9. A \in [1..N -> S]
    <2>1. A = [n \in 1..N |-> A[n]]
      BY DEF Ascending
    <2> HIDE DEF A, N
    <2> QED BY <2>1, <1>8
  <1>10. A \in Seq(S) /\ Len(A) = N /\ Len(A) = Cardinality(S)
    <2>1. N = Cardinality(S)
      OBVIOUS
    <2> HIDE DEF A, N
    <2> QED BY <1>9, <1>1, <2>1
  <1>11. ASSUME NEW x \in S PROVE \E n \in 1..N : A[n] = x
    <2> DEFINE n == Cardinality(Less(x)) + 1
    <2>1. n \in 1..N
      BY <1>3
    <2>2. A[n] \in S /\ Cardinality(Less(A[n])) = Cardinality(Less(x))
      <3>1. n - 1 = Cardinality(Less(x))
        BY <1>2
      <3> HIDE DEF Less, A, N, n
      <3> QED BY <2>1, <1>8, <3>1
    <2>3. ASSUME NEW a \in S, Cardinality(Less(a)) = Cardinality(Less(x)) PROVE a = x
      <3>1. ~(a < x)
        <4> HIDE DEF Less
        <4> QED BY <2>3, <1>4, <1>2
      <3>2. ~(x < a)
        <4> HIDE DEF Less
        <4> QED BY <2>3, <1>4, <1>2
      <3>3. a \in Nat /\ x \in Nat
        OBVIOUS
      <3> QED BY <3>1, <3>2, <3>3
    <2>4. A[n] = x
      <3> HIDE DEF A, n, Less
      <3> QED BY <2>2, <2>3
    <2> HIDE DEF A, n
    <2> QED BY <2>4, <2>1
  <1>12. \A i, j \in 1..N : A[i] = A[j] => i = j
    <2> SUFFICES ASSUME NEW i \in 1..N, NEW j \in 1..N, A[i] = A[j] PROVE i = j
      OBVIOUS
    <2>1. i - 1 = j - 1
      <3> HIDE DEF Less, A
      <3> QED BY <1>8
    <2> QED BY <2>1, <1>1
  <1> HIDE DEF A, N
  <1> QED BY <1>10, <1>11, <1>12 DEF Lists, A

\* p goes before q: what select_parent and get_virtual_block compare.
Better(l, p, q) ==
  \/ l[p].blue_score > l[q].blue_score
  \/ l[p].blue_score = l[q].blue_score /\ p <= q

Best(l, S, p) == p \in S /\ \A q \in S : Better(l, p, q)

\* Some block of a finite set is the best one.
LEMMA BestExists ==
  ASSUME NEW S \in SUBSET Nat, IsFiniteSet(S), S # {},
         NEW l, \A p \in S : l[p].blue_score \in Nat
  PROVE  \E p \in S : Best(l, S, p)
PROOF
  <1> DEFINE N == Cardinality(S)
             T == {n \in 0..N : \A U \in SUBSET S :
                     Cardinality(U) = n /\ U # {} => \E p \in U : Best(l, U, p)}
  <1>1. N \in Nat
    BY FS_CardinalityType
  <1>2. \A U \in SUBSET S : IsFiniteSet(U) /\ Cardinality(U) \in Nat
    BY FS_Subset, FS_CardinalityType
  <1>3. 0 \in T
    BY <1>1, <1>2, FS_EmptySet
  <1>4. ASSUME NEW n \in 1..N, n - 1 \in T PROVE n \in T
    <2> SUFFICES ASSUME NEW U \in SUBSET S, Cardinality(U) = n, U # {}
                 PROVE  \E p \in U : Best(l, U, p)
      <3>1. n \in 0..N
        BY <1>1
      <3> QED BY <3>1
    <2>1. PICK x \in U : TRUE
      OBVIOUS
    <2>2. CASE U = {x}
      <3>1. Best(l, U, x)
        BY <2>2 DEF Best, Better
      <3> QED BY <3>1
    <2>3. CASE U # {x}
      <3>1. Cardinality(U \ {x}) = n - 1
        BY <1>2, FS_RemoveElement
      <3>2. PICK p \in U \ {x} : Best(l, U \ {x}, p)
        <4>1. U \ {x} \in SUBSET S /\ U \ {x} # {}
          BY <2>3, <2>1
        <4> QED BY <4>1, <3>1, <1>4
      <3>3. p \in Nat /\ x \in Nat /\ \A q \in U : l[q].blue_score \in Nat /\ q \in Nat
        OBVIOUS
      <3>4. CASE Better(l, x, p)
        <4>1. \A q \in U : Better(l, x, q)
          BY <3>2, <3>3, <3>4 DEF Best, Better
        <4> QED BY <4>1 DEF Best
      <3>5. CASE ~Better(l, x, p)
        <4>1. \A q \in U : Better(l, p, q)
          BY <3>2, <3>3, <3>5 DEF Best, Better
        <4> QED BY <4>1, <3>2 DEF Best
      <3> QED BY <3>4, <3>5
    <2> QED BY <2>2, <2>3
  <1>5. 0..N \subseteq T
    <2> HIDE DEF T, N
    <2> QED BY <1>1, <1>3, <1>4, UpTo
  <1>6. N \in T
    BY <1>1, <1>5
  <1> QED BY <1>6

\* Only one block is.
LEMMA BestUnique ==
  ASSUME NEW S \in SUBSET Nat, NEW l, \A p \in S : l[p].blue_score \in Nat,
         NEW p, NEW q, Best(l, S, p), Best(l, S, q)
  PROVE  p = q
PROOF
  <1>1. p \in S /\ q \in S /\ p \in Nat /\ q \in Nat
    BY DEF Best
  <1> QED BY <1>1 DEF Best, Better

\* select_parent returns the best of the parents.
LEMMA SelectBest ==
  ASSUME NEW S \in SUBSET Nat, IsFiniteSet(S), S # {},
         NEW l, \A p \in S : l[p].blue_score \in Nat
  PROVE  Best(l, S, SelectParent(l, S))
PROOF
  <1> DEFINE P(p) == \A q \in S : \/ l[p].blue_score > l[q].blue_score
                                  \/ l[p].blue_score = l[q].blue_score /\ p <= q
  <1>1. \E p \in S : P(p)
    BY BestExists DEF Best, Better
  <1>2. SelectParent(l, S) = CHOOSE p \in S : P(p)
    BY DEF SelectParent
  <1>3. SelectParent(l, S) \in S /\ P(SelectParent(l, S))
    <2> HIDE DEF P
    <2> QED BY <1>1, <1>2
  <1> QED BY <1>3 DEF Best, Better

-----------------------------------------------------------------------------
(* Colouring and labels. *)

FinHash  == {s \in SUBSET Hash : IsFiniteSet(s)}
FinLabel == {x \in Label : IsFiniteSet(x.blue_set)}

\* The two colours after each candidate, sets of hashes all along; what was blue
\* stays so, and the result is that of the last candidate.
Coloured(b, blue, candidates, W) ==
  /\ W[0] = [blue |-> blue, red |-> {}]
  /\ \A i \in 1..Len(candidates) : W[i] = Colour(b, W[i - 1], candidates[i])
  /\ \A i \in 0..Len(candidates) : /\ W[i] \in [blue : FinHash, red : SUBSET Hash]
                                   /\ blue \subseteq W[i].blue
  /\ ColourAll(b, blue, candidates) = W[Len(candidates)]

\* Colouring is such a sequence.
LEMMA ColourLoop ==
  ASSUME NEW b, NEW blue \in FinHash, NEW candidates \in Seq(Hash)
  PROVE  \E W : Coloured(b, blue, candidates, W)
PROOF
  <1> DEFINE N == Len(candidates)
             X == {s \in [blue : FinHash, red : SUBSET Hash] : blue \subseteq s.blue}
             base == [blue |-> blue, red |-> {}]
             G == [i \in 1..N |-> [s \in X |-> Colour(b, s, candidates[i])]]
             Solves(f) == f = [n \in 0..Len(candidates) |->
                            IF n = 0 THEN [blue |-> blue, red |-> {}]
                            ELSE Colour(b, f[n - 1], candidates[n])]
             W == CHOOSE f : Solves(f)
  <1>1. N \in Nat /\ \A i \in 1..N : candidates[i] \in Hash
    OBVIOUS
  <1>2. ColourAll(b, blue, candidates) = W[N]
    BY DEF ColourAll
  <1>3. base \in X
    BY DEF FinHash
  <1>4. ASSUME NEW s \in X, NEW c \in Hash PROVE Colour(b, s, c) \in X
    <2>1. s.blue \cup {c} \in FinHash
      BY FS_AddElement DEF FinHash
    <2> QED BY <2>1 DEF Colour
  <1>5. G \in [1..N -> [X -> X]]
    <2> HIDE DEF X, N
    <2> QED BY <1>1, <1>4
  <1>6. PICK f : Solution(f, X, base, N, G)
    <2> HIDE DEF N, G, X, base
    <2> QED BY <1>1, <1>3, <1>5, Recursion
  <1>7. f \in [0..N -> X] /\ f[0] = base /\ \A i \in 1..N : f[i] = G[i][f[i - 1]]
    BY <1>6 DEF Solution
  <1>8. Solves(f)
    <2>1. \A i \in 0..N : f[i] = IF i = 0 THEN base ELSE Colour(b, f[i - 1], candidates[i])
      <3> SUFFICES ASSUME NEW i \in 0..N
                   PROVE  f[i] = IF i = 0 THEN base ELSE Colour(b, f[i - 1], candidates[i])
        OBVIOUS
      <3> HIDE DEF N, X, base
      <3>1. i # 0 => i \in 1..N /\ f[i - 1] \in X
        BY <1>1, <1>7
      <3> QED BY <3>1, <1>7
    <2>2. f = [n \in 0..N |-> f[n]]
      BY <1>7
    <2> QED BY <2>1, <2>2
  <1>9. Solves(W)
    <2> HIDE DEF Solves
    <2> QED BY <1>8
  <1> HIDE DEF W
  <1>10. W[0] = base /\ \A i \in 1..N : W[i] = Colour(b, W[i - 1], candidates[i])
    <2>1. \A i \in 0..N : W[i] = IF i = 0 THEN base ELSE Colour(b, W[i - 1], candidates[i])
      BY <1>9, Zenon
    <2>2. 0 \in 0..N /\ \A i \in 1..N : i \in 0..N /\ i # 0
      BY <1>1
    <2> HIDE DEF base
    <2> QED BY <2>1, <2>2
  <1> DEFINE T == {i \in 0..N : W[i] \in X}
  <1>11. 0 \in T
    <2> HIDE DEF X, base
    <2> QED BY <1>1, <1>3, <1>10
  <1>12. ASSUME NEW i \in 1..N, i - 1 \in T PROVE i \in T
    <2> HIDE DEF X
    <2> QED BY <1>12, <1>1, <1>4, <1>10
  <1>13. \A i \in 0..N : W[i] \in X
    <2>1. 0..N \subseteq T
      <3> HIDE DEF T, N
      <3> QED BY <1>1, <1>11, <1>12, UpTo
    <2> QED BY <2>1
  <1> QED BY <1>2, <1>10, <1>13 DEF Coloured

\* Colouring adds to the blue blocks it starts from.
LEMMA ColourGrows ==
  ASSUME NEW b, NEW blue \in FinHash, NEW candidates \in Seq(Hash)
  PROVE  /\ ColourAll(b, blue, candidates).blue \in FinHash
         /\ ColourAll(b, blue, candidates).red \in SUBSET Hash
         /\ blue \subseteq ColourAll(b, blue, candidates).blue
PROOF
  <1>1. Len(candidates) \in 0..Len(candidates)
    OBVIOUS
  <1>2. PICK W : Coloured(b, blue, candidates, W)
    BY ColourLoop
  <1> DEFINE w == W[Len(candidates)]
  <1>3. w \in [blue : FinHash, red : SUBSET Hash] /\ blue \subseteq w.blue
    BY <1>1, <1>2 DEF Coloured
  <1>4. ColourAll(b, blue, candidates) = w
    BY <1>2 DEF Coloured
  <1> HIDE DEF w
  <1> QED BY <1>3, <1>4

\* Nothing but the candidates is added, and each gets a colour.
LEMMA ColourRange ==
  ASSUME NEW b, NEW blue \in FinHash, NEW candidates \in Seq(Hash),
         NEW D, blue \subseteq D, \A i \in 1..Len(candidates) : candidates[i] \in D
  PROVE  LET sets == ColourAll(b, blue, candidates) IN
           /\ sets.blue \subseteq D /\ sets.red \subseteq D
           /\ \A i \in 1..Len(candidates) : candidates[i] \in sets.blue \cup sets.red
PROOF
  <1> DEFINE N == Len(candidates)
             Ok(i, w) == /\ w.blue \subseteq D /\ w.red \subseteq D
                         /\ \A j \in 1..i : candidates[j] \in w.blue \cup w.red
  <1>1. N \in Nat
    OBVIOUS
  <1>2. PICK W : Coloured(b, blue, candidates, W)
    BY ColourLoop
  <1> DEFINE T == {i \in 0..N : Ok(i, W[i])}
  <1>3. 0 \in T
    BY <1>1, <1>2 DEF Coloured
  <1>4. ASSUME NEW i \in 1..N, i - 1 \in T PROVE i \in T
    <2>1. Ok(i - 1, W[i - 1]) /\ i \in 0..N /\ i - 1 \in 0..N
      BY <1>4, <1>1
    <2>2. /\ W[i - 1] \in [blue : FinHash, red : SUBSET Hash]
          /\ W[i] = Colour(b, W[i - 1], candidates[i]) /\ candidates[i] \in D
      BY <2>1, <1>2 DEF Coloured
    <2>3. /\ W[i].blue \cup W[i].red = W[i - 1].blue \cup W[i - 1].red \cup {candidates[i]}
          /\ W[i].blue \subseteq W[i - 1].blue \cup {candidates[i]}
          /\ W[i].red \subseteq W[i - 1].red \cup {candidates[i]}
      <3> DEFINE w == W[i - 1]
                 k == candidates[i]
      <3>1. \/ W[i] = [w EXCEPT !.blue = w.blue \cup {k}]
            \/ W[i] = [w EXCEPT !.red = w.red \cup {k}]
        BY <2>2 DEF Colour
      <3>2. w \in [blue : FinHash, red : SUBSET Hash]
        BY <2>2
      <3> HIDE DEF k, w
      <3>3. CASE W[i] = [w EXCEPT !.blue = w.blue \cup {k}]
        <4>1. W[i].blue = w.blue \cup {k} /\ W[i].red = w.red
          BY <3>2, <3>3
        <4> QED BY <4>1 DEF k, w
      <3>4. CASE W[i] = [w EXCEPT !.red = w.red \cup {k}]
        <4>1. W[i].red = w.red \cup {k} /\ W[i].blue = w.blue
          BY <3>2, <3>4
        <4> QED BY <4>1 DEF k, w
      <3> QED BY <3>1, <3>3, <3>4
    <2>4. \A j \in 1..i : j = i \/ j \in 1..i - 1
      BY <1>1
    <2>5. Ok(i, W[i])
      BY <2>1, <2>2, <2>3, <2>4
    <2> QED BY <2>1, <2>5
  <1>5. 0..N \subseteq T
    <2> HIDE DEF T, N
    <2> QED BY <1>1, <1>3, <1>4, UpTo
  <1>6. Ok(N, W[N])
    BY <1>1, <1>5
  <1> QED BY <1>2, <1>6 DEF Coloured

\* Within D, the blocks of D have the same anticones in both DAGs.
Agree(b, c, D) == \A x \in D : Anticone(c, x) \cap D = Anticone(b, x) \cap D

\* Only the part of the anticones within the coloured blocks matters.
LEMMA ColourLocal ==
  ASSUME NEW b, NEW c, NEW blue \in FinHash, NEW candidates \in Seq(Hash),
         NEW D, blue \subseteq D, \A i \in 1..Len(candidates) : candidates[i] \in D,
         Agree(b, c, D)
  PROVE  ColourAll(c, blue, candidates) = ColourAll(b, blue, candidates)
PROOF
  <1> DEFINE N == Len(candidates)
  <1>1. N \in Nat
    OBVIOUS
  <1>2. PICK W : Coloured(b, blue, candidates, W)
    BY ColourLoop
  <1>3. PICK V : Coloured(c, blue, candidates, V)
    BY ColourLoop
  <1> DEFINE T == {i \in 0..N : V[i] = W[i] /\ W[i].blue \subseteq D}
  <1>4. 0 \in T
    BY <1>1, <1>2, <1>3 DEF Coloured
  <1>5. ASSUME NEW i \in 1..N, i - 1 \in T PROVE i \in T
    <2>1. V[i - 1] = W[i - 1] /\ W[i - 1].blue \subseteq D /\ i \in 0..N /\ i - 1 \in 0..N
      BY <1>5, <1>1
    <2>2. /\ W[i - 1] \in [blue : FinHash, red : SUBSET Hash]
          /\ W[i] = Colour(b, W[i - 1], candidates[i]) /\ candidates[i] \in D
          /\ V[i] = Colour(c, W[i - 1], candidates[i])
      BY <2>1, <1>2, <1>3 DEF Coloured
    <2>3. Anticone(c, candidates[i]) \cap W[i - 1].blue = Anticone(b, candidates[i]) \cap W[i - 1].blue
      BY <2>1, <2>2 DEF Agree
    <2>4. V[i] = W[i]
      <3>1. Colour(c, W[i - 1], candidates[i]) = Colour(b, W[i - 1], candidates[i])
        BY <2>3, Zenon DEF Colour
      <3> QED BY <3>1, <2>2
    <2>5. W[i].blue \subseteq D
      BY <2>1, <2>2 DEF Colour
    <2> QED BY <2>1, <2>4, <2>5
  <1>6. 0..N \subseteq T
    <2> HIDE DEF T, N
    <2> QED BY <1>1, <1>4, <1>5, UpTo
  <1> QED BY <1>1, <1>2, <1>3, <1>6 DEF Coloured

\* What the callers of LabelOver know of its arguments.
Labelled(b, l, P) ==
  /\ DOMAIN b \subseteq Hash /\ IsFiniteSet(DOMAIN b)
  /\ P \subseteq Hash /\ IsFiniteSet(P) /\ P # {}
  /\ \A p \in P : l[p] \in FinLabel

\* The scores of the parents are numbers, and the best parent is one of them.
LEMMA ParentFacts ==
  ASSUME NEW b, NEW l, NEW P, Labelled(b, l, P)
  PROVE  /\ P \in SUBSET Nat /\ \A p \in P : l[p].blue_score \in Nat
         /\ SelectParent(l, P) \in P /\ Best(l, P, SelectParent(l, P))
PROOF
  <1>1. P \in SUBSET Nat /\ IsFiniteSet(P) /\ P # {}
    BY HashAssumption DEF Labelled
  <1>2. \A p \in P : l[p].blue_score \in Nat
    BY DEF Labelled, FinLabel, Label
  <1>3. Best(l, P, SelectParent(l, P))
    BY <1>1, <1>2, SelectBest
  <1> QED BY <1>1, <1>2, <1>3 DEF Best

\* build_blue_set keeps the selected parent and counts finitely many blocks.
LEMMA BlueSetFacts ==
  ASSUME NEW b, NEW l, NEW P, Labelled(b, l, P)
  PROVE  LET sets == BuildBlueSet(b, l, SelectParent(l, P)) IN
           /\ sets.blue \in FinHash /\ sets.red \in SUBSET Hash
           /\ SelectParent(l, P) \in sets.blue
           /\ Cardinality(sets.blue) \in Nat \ {0}
PROOF
  <1> DEFINE parent == SelectParent(l, P)
             blue == l[parent].blue_set \cup {parent}
             A == Anticone(b, parent)
  <1>1. parent \in Hash /\ l[parent] \in FinLabel
    BY ParentFacts DEF Labelled
  <1>2. blue \in FinHash /\ parent \in blue
    <2> HIDE DEF parent
    <2> QED BY <1>1, FS_AddElement DEF FinHash, FinLabel, Label
  <1>3. A \in SUBSET Hash /\ IsFiniteSet(A)
    <2>1. A \in SUBSET DOMAIN b
      BY DEF Anticone
    <2> QED BY <2>1, FS_Subset DEF Labelled
  <1>4. Ascending(A) \in Seq(Hash)
    <2>1. A \in SUBSET Nat
      BY <1>3, HashAssumption
    <2>2. Ascending(A) \in Seq(A)
      <3> HIDE DEF A
      <3> QED BY <2>1, <1>3, AscendingLists DEF Lists
    <2> HIDE DEF A
    <2> QED BY <2>2, <1>3
  <1> DEFINE sets == ColourAll(b, blue, Ascending(A))
  <1>5. sets = BuildBlueSet(b, l, parent)
    BY DEF BuildBlueSet
  <1>6. sets.blue \in FinHash /\ sets.red \in SUBSET Hash /\ blue \subseteq sets.blue
    <2> HIDE DEF blue, A, parent
    <2> QED BY <1>2, <1>4, ColourGrows
  <1> HIDE DEF sets
  <1>7. Cardinality(sets.blue) \in Nat /\ Cardinality(sets.blue) # 0
    <2>1. IsFiniteSet(sets.blue) /\ sets.blue # {}
      BY <1>2, <1>6 DEF FinHash
    <2> QED BY <2>1, FS_CardinalityType, FS_EmptySet
  <1> QED BY <1>2, <1>5, <1>6, <1>7

\* The label of a block is above all its parents and counts from the best.
LEMMA LabelFacts ==
  ASSUME NEW b, NEW l, NEW P, Labelled(b, l, P)
  PROVE  LET x == LabelOver(b, l, P) IN
           /\ x \in FinLabel
           /\ x.selected_parent = SelectParent(l, P)
           /\ x.blue_score = l[SelectParent(l, P)].blue_score + Cardinality(x.blue_set)
           /\ \A p \in P : l[p].blue_score < x.blue_score
PROOF
  <1> DEFINE parent == SelectParent(l, P)
             sets == BuildBlueSet(b, l, parent)
             x == LabelOver(b, l, P)
  <1>1. x = [selected_parent |-> parent, blue_set |-> sets.blue, red_set |-> sets.red,
             blue_score |-> l[parent].blue_score + Cardinality(sets.blue)]
    BY DEF LabelOver
  <1>2. /\ parent \in P /\ Best(l, P, parent) /\ parent \in Hash
        /\ \A p \in P : l[p].blue_score \in Nat
    BY ParentFacts DEF Labelled
  <1>3. /\ sets.blue \in FinHash /\ sets.red \in SUBSET Hash
        /\ Cardinality(sets.blue) \in Nat \ {0}
    BY BlueSetFacts
  <1> HIDE DEF parent, sets, x
  <1>4. x \in FinLabel
    BY <1>1, <1>2, <1>3 DEF FinLabel, Label, FinHash
  <1>5. \A p \in P : l[p].blue_score < x.blue_score
    BY <1>1, <1>2, <1>3 DEF Best, Better
  <1> QED BY <1>1, <1>4, <1>5 DEF parent, x

\* The hashes of some blocks in ascending order are these blocks.
LEMMA AscendingHashes ==
  ASSUME NEW S \in SUBSET Hash, IsFiniteSet(S)
  PROVE  /\ Ascending(S) \in Seq(Hash)
         /\ \A i \in 1..Len(Ascending(S)) : Ascending(S)[i] \in S
         /\ \A x \in S : \E i \in 1..Len(Ascending(S)) : Ascending(S)[i] = x
PROOF
  <1>1. S \in SUBSET Nat
    BY HashAssumption
  <1>2. Lists(Ascending(S), S)
    BY <1>1, AscendingLists
  <1> DEFINE A == Ascending(S)
  <1> HIDE DEF A
  <1>3. A \in Seq(S) /\ \A x \in S : \E i \in 1..Len(A) : A[i] = x
    BY <1>2 DEF Lists, A
  <1>4. A \in Seq(Hash) /\ \A i \in 1..Len(A) : A[i] \in S
    BY <1>3
  <1> QED BY <1>3, <1>4 DEF A

\* A label gives a colour to the whole anticone of the selected parent, and to
\* no block from elsewhere than the label of that parent and the DAG.
LEMMA LabelRange ==
  ASSUME NEW b, NEW l, NEW P, Labelled(b, l, P), NEW D,
         DOMAIN b \cup P \subseteq D, l[SelectParent(l, P)].blue_set \subseteq D
  PROVE  LET x == LabelOver(b, l, P) IN
           /\ x.blue_set \subseteq D /\ x.red_set \subseteq D
           /\ Anticone(b, SelectParent(l, P)) \subseteq x.blue_set \cup x.red_set
PROOF
  <1> DEFINE parent == SelectParent(l, P)
             blue == l[parent].blue_set \cup {parent}
             A == Anticone(b, parent)
             sets == ColourAll(b, blue, Ascending(A))
             x == LabelOver(b, l, P)
  <1>1. parent \in P /\ parent \in Hash /\ l[parent] \in FinLabel
    BY ParentFacts DEF Labelled
  <1>2. blue \in FinHash /\ blue \subseteq D
    <2>1. l[parent].blue_set \in FinHash
      <3> HIDE DEF parent
      <3> QED BY <1>1 DEF FinHash, FinLabel, Label
    <2> HIDE DEF parent
    <2> QED BY <1>1, <2>1, FS_AddElement DEF FinHash, parent
  <1>3. A \in SUBSET Hash /\ IsFiniteSet(A) /\ A \subseteq D
    <2>1. A \in SUBSET DOMAIN b
      BY DEF Anticone
    <2> QED BY <2>1, FS_Subset DEF Labelled
  <1>4. x.blue_set = sets.blue /\ x.red_set = sets.red
    BY DEF LabelOver, BuildBlueSet
  <1> HIDE DEF parent, blue, x, A
  <1>5. /\ Ascending(A) \in Seq(Hash)
        /\ \A i \in 1..Len(Ascending(A)) : Ascending(A)[i] \in A
        /\ \A y \in A : \E i \in 1..Len(Ascending(A)) : Ascending(A)[i] = y
    BY <1>3, AscendingHashes
  <1>6. \A i \in 1..Len(Ascending(A)) : Ascending(A)[i] \in D
    BY <1>3, <1>5
  <1>7. /\ sets.blue \subseteq D /\ sets.red \subseteq D
        /\ \A i \in 1..Len(Ascending(A)) : Ascending(A)[i] \in sets.blue \cup sets.red
    BY <1>2, <1>5, <1>6, ColourRange
  <1> HIDE DEF sets
  <1>8. A \subseteq sets.blue \cup sets.red
    BY <1>5, <1>7
  <1> QED BY <1>4, <1>7, <1>8 DEF x, A, parent

\* Only the labels of the parents matter.
LEMMA SelectLocal ==
  ASSUME NEW b, NEW l, NEW m, NEW P, Labelled(b, l, P), \A p \in P : m[p] = l[p]
  PROVE  SelectParent(m, P) = SelectParent(l, P)
PROOF
  <1>1. Labelled(b, m, P)
    BY DEF Labelled
  <1>2. Best(l, P, SelectParent(l, P)) /\ Best(m, P, SelectParent(m, P))
    BY <1>1, ParentFacts
  <1>3. Best(l, P, SelectParent(m, P))
    BY <1>2 DEF Best, Better
  <1> QED BY <1>2, <1>3, ParentFacts, BestUnique

LEMMA LabelLocal ==
  ASSUME NEW b, NEW l, NEW m, NEW P, Labelled(b, l, P), \A p \in P : m[p] = l[p]
  PROVE  LabelOver(b, m, P) = LabelOver(b, l, P)
PROOF
  <1>1. SelectParent(m, P) = SelectParent(l, P) /\ SelectParent(l, P) \in P
    BY SelectLocal, ParentFacts
  <1> QED BY <1>1 DEF LabelOver, BuildBlueSet

-----------------------------------------------------------------------------
(* Sequences without repetition. *)

Distinct(s) == \A i, j \in 1..Len(s) : s[i] = s[j] => i = j

\* A sequence that is not empty, without its last member.
LEMMA FrontFacts ==
  ASSUME NEW S, NEW s \in Seq(S), s # <<>>, Distinct(s)
  PROVE  /\ Last(s) \in S /\ Last(s) \in ToSet(s)
         /\ Front(s) \in Seq(S) /\ Distinct(Front(s))
         /\ ToSet(Front(s)) = ToSet(s) \ {Last(s)}
PROOF
  <1>1. Len(s) \in Nat \ {0} /\ DOMAIN s = 1..Len(s)
    OBVIOUS
  <1>2. /\ Front(s) \in Seq(S) /\ Len(Front(s)) = Len(s) - 1
        /\ \A i \in 1..Len(s) - 1 : Front(s)[i] = s[i]
        /\ DOMAIN Front(s) = 1..Len(s) - 1
    BY <1>1 DEF Front
  <1>3. Last(s) = s[Len(s)] /\ Last(s) \in S /\ Last(s) \in ToSet(s)
    BY <1>1 DEF Last, ToSet
  <1>4. Distinct(Front(s))
    <2>1. \A i \in 1..Len(s) - 1 : i \in 1..Len(s)
      BY <1>1
    <2> QED BY <1>2, <2>1 DEF Distinct
  <1>5. ToSet(Front(s)) = ToSet(s) \ {Last(s)}
    <2>0. \A n \in Nat \ {0} : /\ \A i \in 1..n : i \in 1..n - 1 \/ i = n
                              /\ \A i \in 1..n - 1 : i \in 1..n /\ i # n
      OBVIOUS
    <2>1. \A i \in 1..Len(s) : i \in 1..Len(s) - 1 \/ i = Len(s)
      BY <1>1, <2>0
    <2>2. \A i \in 1..Len(s) - 1 : i \in 1..Len(s) /\ i # Len(s)
      BY <1>1, <2>0
    <2>3. Len(s) \in 1..Len(s)
      BY <1>1
    <2>4. \A i \in 1..Len(s) - 1 : s[i] # s[Len(s)]
      BY <2>2, <2>3 DEF Distinct
    <2> QED BY <1>1, <1>2, <1>3, <2>1, <2>2, <2>4 DEF ToSet
  <1> QED BY <1>2, <1>3, <1>4, <1>5

\* Two sequences without a common member, one after the other.
LEMMA ConcatFacts ==
  ASSUME NEW S, NEW s \in Seq(S), NEW t \in Seq(S), Distinct(s), Distinct(t),
         ToSet(s) \cap ToSet(t) = {}
  PROVE  /\ s \o t \in Seq(S) /\ Distinct(s \o t)
         /\ ToSet(s \o t) = ToSet(s) \cup ToSet(t)
PROOF
  <1>1. Len(s) \in Nat /\ Len(t) \in Nat /\ DOMAIN s = 1..Len(s) /\ DOMAIN t = 1..Len(t)
    OBVIOUS
  <1>2. /\ s \o t \in Seq(S) /\ Len(s \o t) = Len(s) + Len(t)
        /\ \A i \in 1..Len(s) + Len(t) :
             (s \o t)[i] = IF i <= Len(s) THEN s[i] ELSE t[i - Len(s)]
        /\ DOMAIN (s \o t) = 1..Len(s) + Len(t)
    OBVIOUS
  <1>3. \A i \in 1..Len(s) : i \in 1..Len(s) + Len(t) /\ i <= Len(s)
    BY <1>1
  <1>4. \A i \in 1..Len(t) : /\ i + Len(s) \in 1..Len(s) + Len(t)
                             /\ ~(i + Len(s) <= Len(s)) /\ (i + Len(s)) - Len(s) = i
    BY <1>1
  <1>5. \A i \in 1..Len(s) + Len(t) :
          \/ i \in 1..Len(s) /\ (s \o t)[i] = s[i]
          \/ ~(i <= Len(s)) /\ i - Len(s) \in 1..Len(t) /\ (s \o t)[i] = t[i - Len(s)]
    BY <1>1, <1>2
  <1>6. ToSet(s \o t) = ToSet(s) \cup ToSet(t)
    <2>1. ToSet(s \o t) \subseteq ToSet(s) \cup ToSet(t)
      BY <1>1, <1>2, <1>5 DEF ToSet
    <2>2. \A i \in 1..Len(s) : (s \o t)[i] = s[i]
      BY <1>2, <1>3
    <2>3. \A i \in 1..Len(t) : (s \o t)[i + Len(s)] = t[i]
      BY <1>2, <1>4
    <2>4. ToSet(s) \subseteq ToSet(s \o t)
      BY <1>1, <1>2, <1>3, <2>2 DEF ToSet
    <2>5. ToSet(t) \subseteq ToSet(s \o t)
      BY <1>1, <1>2, <1>4, <2>3 DEF ToSet
    <2> QED BY <2>1, <2>4, <2>5
  <1>7. ASSUME NEW i \in 1..Len(s) + Len(t), NEW j \in 1..Len(s) + Len(t), (s \o t)[i] = (s \o t)[j]
        PROVE  i = j
    <2>1. \A m \in 1..Len(s), n \in 1..Len(t) : s[m] # t[n]
      BY <1>1 DEF ToSet
    <2>2. CASE i \in 1..Len(s) /\ j \in 1..Len(s)
      BY <2>2, <1>7, <1>2, <1>3 DEF Distinct
    <2>3. CASE /\ i - Len(s) \in 1..Len(t) /\ (s \o t)[i] = t[i - Len(s)]
               /\ j - Len(s) \in 1..Len(t) /\ (s \o t)[j] = t[j - Len(s)]
      <3>1. i - Len(s) = j - Len(s)
        BY <2>3, <1>7 DEF Distinct
      <3> QED BY <3>1, <1>1
    <2> QED BY <1>5, <1>7, <2>1, <2>2, <2>3
  <1> QED BY <1>2, <1>6, <1>7 DEF Distinct

\* One more member at the end.
LEMMA AppendFacts ==
  ASSUME NEW S, NEW s \in Seq(S), NEW x \in S, Distinct(s), x \notin ToSet(s)
  PROVE  /\ Append(s, x) \in Seq(S) /\ Len(Append(s, x)) = Len(s) + 1
         /\ Append(s, x)[Len(s) + 1] = x /\ \A i \in 1..Len(s) : Append(s, x)[i] = s[i]
         /\ Distinct(Append(s, x))
         /\ ToSet(Append(s, x)) = ToSet(s) \cup {x}
PROOF
  <1>1. Len(s) \in Nat /\ DOMAIN s = 1..Len(s)
    OBVIOUS
  <1>2. /\ Append(s, x) \in Seq(S) /\ Len(Append(s, x)) = Len(s) + 1
        /\ Append(s, x)[Len(s) + 1] = x /\ \A i \in 1..Len(s) : Append(s, x)[i] = s[i]
        /\ DOMAIN Append(s, x) = 1..Len(s) + 1
    OBVIOUS
  <1>3. \A i \in 1..Len(s) + 1 : i \in 1..Len(s) \/ i = Len(s) + 1
    BY <1>1
  <1>4. \A i \in 1..Len(s) : i \in 1..Len(s) + 1 /\ i # Len(s) + 1
    BY <1>1
  <1>5. Len(s) + 1 \in 1..Len(s) + 1
    BY <1>1
  <1>6. ToSet(Append(s, x)) = ToSet(s) \cup {x}
    BY <1>1, <1>2, <1>3, <1>4, <1>5 DEF ToSet
  <1>7. \A i \in 1..Len(s) : s[i] # x
    BY <1>1 DEF ToSet
  <1>8. Distinct(Append(s, x))
    BY <1>2, <1>3, <1>7 DEF Distinct
  <1> QED BY <1>2, <1>6, <1>8

-----------------------------------------------------------------------------
(* The topological sort. *)

\* The shape the invariant gives a finite set of blocks.
Wired(b) ==
  /\ DOMAIN b \subseteq Hash /\ IsFiniteSet(DOMAIN b)
  /\ \A x \in DOMAIN b : /\ b[x].parents \subseteq DOMAIN b
                         /\ b[x].children = {c \in DOMAIN b : x \in b[c].parents}
  /\ \A S \in SUBSET DOMAIN b : S # {} => \E x \in S : b[x].parents \cap S = {}

\* The nodes that may be sorted next.
Ready(b, A, S) == {c \in A \ S : b[c].parents \cap A \subseteq S}

\* Every parent among the nodes comes before its child.
InOrder(b, A, s) ==
  \A j \in 1..Len(s) : \A p \in b[s[j]].parents \cap A : \E i \in 1..j - 1 : s[i] = p

\* What holds after n rounds.
Sorting(b, A, n, r) ==
  /\ r.sorted \in Seq(A) /\ Len(r.sorted) = n /\ Distinct(r.sorted) /\ InOrder(b, A, r.sorted)
  /\ r.stack \in Seq(A) /\ Distinct(r.stack) /\ ToSet(r.stack) = Ready(b, A, ToSet(r.sorted))

\* The candidates pushed, each once.
LEMMA FreedFacts ==
  ASSUME NEW b, NEW A, A \subseteq Hash, IsFiniteSet(A), NEW sorted, NEW C \in SUBSET A
  PROVE  LET F == {c \in C : b[c].parents \cap A \subseteq ToSet(sorted)} IN
           /\ Freed(b, A, sorted, C) \in Seq(A) /\ Distinct(Freed(b, A, sorted, C))
           /\ ToSet(Freed(b, A, sorted, C)) = F
PROOF
  <1> DEFINE F == {c \in C : b[c].parents \cap A \subseteq ToSet(sorted)}
             s == Ascending(F)
  <1>1. F \in SUBSET A /\ F \in SUBSET Nat /\ IsFiniteSet(F)
    <2>1. F \in SUBSET A
      OBVIOUS
    <2> HIDE DEF F
    <2> QED BY <2>1, HashAssumption, FS_Subset
  <1>2. Lists(s, F)
    <2> HIDE DEF F
    <2> QED BY <1>1, AscendingLists
  <1>3. Freed(b, A, sorted, C) = s
    BY DEF Freed
  <1> HIDE DEF F, s
  <1>4. s \in Seq(F) /\ DOMAIN s = 1..Len(s)
    BY <1>2 DEF Lists
  <1>5. s \in Seq(A)
    <2>1. Len(s) \in Nat /\ s \in [1..Len(s) -> F]
      BY <1>4
    <2>2. s \in [1..Len(s) -> A]
      BY <2>1, <1>1
    <2> QED BY <2>1, <2>2
  <1>6. Distinct(s) /\ ToSet(s) = F
    BY <1>2, <1>4 DEF Lists, Distinct, ToSet
  <1> QED BY <1>3, <1>5, <1>6 DEF F

\* No block is its own parent.
LEMMA NotOwnParent ==
  ASSUME NEW b, Wired(b), NEW x \in DOMAIN b
  PROVE  x \notin b[x].parents
PROOF
  <1>1. {x} \in SUBSET DOMAIN b /\ {x} # {}
    OBVIOUS
  <1>2. PICK y \in {x} : b[y].parents \cap {x} = {}
    BY <1>1 DEF Wired
  <1> QED BY <1>2

\* c is b and the block h, which has no child yet.
Grown(b, c, h) ==
  /\ Wired(b) /\ Wired(c)
  /\ DOMAIN c = DOMAIN b \cup {h} /\ h \notin DOMAIN b
  /\ c[h].children = {} /\ \A x \in DOMAIN b : c[x].parents = b[x].parents

\* A new block enters anticones and takes nothing out of them.
LEMMA AnticoneGrows ==
  ASSUME NEW b, NEW c, NEW h, Grown(b, c, h), NEW x \in DOMAIN b
  PROVE  Anticone(c, x) \cap DOMAIN b = Anticone(b, x)
PROOF
  <1> DEFINE B == DOMAIN b
             C == DOMAIN c
             up   == [y \in B |-> b[y].parents]
             up2  == [y \in C |-> c[y].parents]
             down  == [y \in B |-> b[y].children]
             down2 == [y \in C |-> c[y].children]
  <1>1. IsFiniteSet(B) /\ IsFiniteSet(C) /\ B \subseteq C /\ x \in B /\ x \in C /\ x # h
    BY DEF Grown, Wired
  <1>2. up \in [B -> SUBSET B] /\ down \in [B -> SUBSET B]
    BY DEF Grown, Wired
  <1>3. up2 \in [C -> SUBSET C] /\ down2 \in [C -> SUBSET C]
    BY DEF Grown, Wired
  <1>4. \A y \in B : up2[y] = up[y]
    BY <1>1 DEF Grown
  <1>5. \A y \in B : down2[y] \ {h} = down[y]
    BY <1>1 DEF Grown, Wired
  <1>6. down2[h] = {} /\ C = B \cup {h}
    BY DEF Grown
  <1>7. /\ Ancestors(b, x) = Reach(up, x) /\ Ancestors(c, x) = Reach(up2, x)
        /\ Descendants(b, x) = Reach(down, x) /\ Descendants(c, x) = Reach(down2, x)
    BY DEF Ancestors, Descendants
  <1> HIDE DEF up, up2, down, down2, B, C
  <1>8. /\ Reach(up, x) \subseteq B /\ up[x] \subseteq Reach(up, x)
        /\ \A y \in Reach(up, x) : up[y] \subseteq Reach(up, x)
        /\ Reach(down, x) \subseteq B /\ down[x] \subseteq Reach(down, x)
        /\ \A y \in Reach(down, x) : down[y] \subseteq Reach(down, x)
    BY <1>1, <1>2, ReachClosed
  <1>9. /\ up2[x] \subseteq Reach(up2, x)
        /\ \A y \in Reach(up2, x) : up2[y] \subseteq Reach(up2, x)
        /\ down2[x] \subseteq Reach(down2, x)
        /\ \A y \in Reach(down2, x) : down2[y] \subseteq Reach(down2, x)
    BY <1>1, <1>3, ReachClosed
  <1>10. Reach(up, x) \subseteq Reach(up2, x)
    <2>1. up[x] \subseteq Reach(up2, x) /\ \A y \in Reach(up2, x) \cap B : up[y] \subseteq Reach(up2, x)
      BY <1>1, <1>4, <1>9
    <2> QED BY <2>1, <1>1, <1>2, ReachLeast
  <1>11. Reach(up2, x) \subseteq Reach(up, x)
    <2>1. up2[x] \subseteq Reach(up, x) /\ \A y \in Reach(up, x) \cap C : up2[y] \subseteq Reach(up, x)
      BY <1>1, <1>4, <1>8
    <2> QED BY <2>1, <1>1, <1>3, ReachLeast
  <1>12. Reach(down, x) \subseteq Reach(down2, x)
    <2>1. /\ down[x] \subseteq Reach(down2, x)
          /\ \A y \in Reach(down2, x) \cap B : down[y] \subseteq Reach(down2, x)
      BY <1>1, <1>5, <1>9
    <2> QED BY <2>1, <1>1, <1>2, ReachLeast
  <1>13. Reach(down2, x) \subseteq Reach(down, x) \cup {h}
    <2> DEFINE S == Reach(down, x) \cup {h}
    <2>1. down2[x] \subseteq S
      BY <1>1, <1>5, <1>8
    <2>2. \A y \in S \cap C : down2[y] \subseteq S
      BY <1>5, <1>6, <1>8
    <2> HIDE DEF S
    <2>3. Reach(down2, x) \subseteq S
      BY <2>1, <2>2, <1>1, <1>3, ReachLeast
    <2> QED BY <2>3 DEF S
  <1>14. h \notin B
    BY DEF Grown, B
  <1> QED BY <1>6, <1>7, <1>8, <1>10, <1>11, <1>12, <1>13, <1>14 DEF Anticone, B, C

\* Sorting a ready block makes ready those of its children that wait for
\* nothing else.
LEMMA ReadyAfter ==
  ASSUME NEW b, Wired(b), NEW A \in SUBSET DOMAIN b, NEW S \in SUBSET A,
         \A x \in S : b[x].parents \cap A \subseteq S, NEW x \in Ready(b, A, S)
  PROVE  LET F == {c \in b[x].children \cap A : b[c].parents \cap A \subseteq S \cup {x}} IN
           /\ Ready(b, A, S \cup {x}) = (Ready(b, A, S) \ {x}) \cup F
           /\ (Ready(b, A, S) \ {x}) \cap F = {}
PROOF
  <1>1. x \in A /\ x \in DOMAIN b /\ x \notin S /\ x \notin b[x].parents
    BY NotOwnParent DEF Ready
  <1>2. \A c \in A : c \in b[x].children <=> x \in b[c].parents
    BY <1>1 DEF Wired
  <1>3. \A c \in S : x \notin b[c].parents
    BY <1>1
  <1> QED BY <1>1, <1>2, <1>3 DEF Ready

\* As long as a node is left, one is ready.
LEMMA SomeReady ==
  ASSUME NEW b, Wired(b), NEW A \in SUBSET DOMAIN b, NEW S \in SUBSET A, S # A
  PROVE  Ready(b, A, S) # {}
PROOF
  <1>1. A \ S \in SUBSET DOMAIN b /\ A \ S # {}
    OBVIOUS
  <1>2. PICK x \in A \ S : b[x].parents \cap (A \ S) = {}
    BY <1>1 DEF Wired
  <1>3. x \in Ready(b, A, S)
    BY <1>2 DEF Ready
  <1> QED BY <1>3

\* Fewer rounds than nodes leave a node.
LEMMA NotAllSorted ==
  ASSUME NEW A, IsFiniteSet(A), NEW s \in Seq(A), Len(s) < Cardinality(A)
  PROVE  ToSet(s) \in SUBSET A /\ ToSet(s) # A
PROOF
  <1>1. DOMAIN s = 1..Len(s) /\ Len(s) \in Nat /\ s \in [1..Len(s) -> A]
    OBVIOUS
  <1>2. ToSet(s) \in SUBSET A
    BY <1>1 DEF ToSet
  <1>3. ASSUME ToSet(s) = A PROVE FALSE
    <2>1. s \in Surjection(1..Len(s), A)
      BY <1>1, <1>3 DEF ToSet, Surjection
    <2>2. IsFiniteSet(1..Len(s)) /\ Cardinality(1..Len(s)) = Len(s)
      BY <1>1, FS_Interval
    <2>3. Cardinality(A) <= Len(s)
      BY <2>1, <2>2, FS_Surjection
    <2> QED BY <2>3, <1>1, FS_CardinalityType
  <1> QED BY <1>2, <1>3

\* As many distinct members as there are nodes are all the nodes.
LEMMA AllSorted ==
  ASSUME NEW A, IsFiniteSet(A), NEW s \in Seq(A), Len(s) = Cardinality(A), Distinct(s)
  PROVE  ToSet(s) = A
PROOF
  <1>1. DOMAIN s = 1..Len(s) /\ Len(s) \in Nat /\ s \in [1..Len(s) -> A]
    OBVIOUS
  <1>2. s \in Injection(1..Len(s), A)
    BY <1>1 DEF Distinct, Injection, IsInjective
  <1>3. IsFiniteSet(1..Len(s)) /\ Cardinality(1..Len(s)) = Len(s)
    BY <1>1, FS_Interval
  <1>4. s \in Surjection(1..Len(s), A)
    BY <1>2, <1>3, FS_Injection
  <1> QED BY <1>1, <1>4 DEF Surjection, ToSet

\* The blocks and the nodes that are sorted.
Sortable(b, A) == Wired(b) /\ A \subseteq DOMAIN b

\* The nodes are finitely many hashes.
LEMMA SortableFacts ==
  ASSUME NEW b, NEW A, Sortable(b, A)
  PROVE  /\ A \subseteq Hash /\ IsFiniteSet(A) /\ Cardinality(A) \in Nat
         /\ Wired(b) /\ A \in SUBSET DOMAIN b
PROOF
  <1>1. A \in SUBSET DOMAIN b /\ IsFiniteSet(DOMAIN b) /\ DOMAIN b \subseteq Hash
    BY DEF Sortable, Wired
  <1>2. IsFiniteSet(A)
    BY <1>1, FS_Subset
  <1>3. Cardinality(A) \in Nat
    BY <1>2, FS_CardinalityType
  <1> QED BY <1>1, <1>2, <1>3 DEF Sortable

\* What is sorted already is closed under parents.
LEMMA SortedClosed ==
  ASSUME NEW b, NEW A, NEW s \in Seq(A), InOrder(b, A, s)
  PROVE  \A x \in ToSet(s) : b[x].parents \cap A \subseteq ToSet(s)
PROOF
  <1>1. DOMAIN s = 1..Len(s) /\ Len(s) \in Nat
    OBVIOUS
  <1>2. SUFFICES ASSUME NEW j \in 1..Len(s), NEW p \in b[s[j]].parents \cap A
                 PROVE  p \in ToSet(s)
    BY <1>1 DEF ToSet
  <1>3. PICK i \in 1..j - 1 : s[i] = p
    BY <1>2 DEF InOrder
  <1>4. i \in 1..Len(s)
    BY <1>1
  <1> QED BY <1>1, <1>3, <1>4 DEF ToSet

\* A round keeps what Sorting says, for one more node.
LEMMA SortStep ==
  ASSUME NEW b, NEW A, Sortable(b, A), NEW n \in 1..Cardinality(A), NEW r, Sorting(b, A, n - 1, r)
  PROVE  Sorting(b, A, n, SortNext(b, A, r))
PROOF
  <1> DEFINE S == ToSet(r.sorted)
             x == Last(r.stack)
             sorted == Append(r.sorted, x)
             C == b[x].children \cap A
             pushed == Freed(b, A, sorted, C)
             rest == Front(r.stack)
  <1>0. /\ A \subseteq Hash /\ IsFiniteSet(A) /\ Cardinality(A) \in Nat
        /\ Wired(b) /\ A \in SUBSET DOMAIN b
    BY SortableFacts
  <1>1. /\ r.sorted \in Seq(A) /\ Len(r.sorted) = n - 1 /\ Distinct(r.sorted)
        /\ InOrder(b, A, r.sorted)
        /\ r.stack \in Seq(A) /\ Distinct(r.stack) /\ ToSet(r.stack) = Ready(b, A, S)
    BY DEF Sorting
  <1>2. S \in SUBSET A /\ S # A /\ \A y \in S : b[y].parents \cap A \subseteq S
    <2>1. n - 1 < Cardinality(A)
      BY <1>0
    <2> QED BY <2>1, <1>0, <1>1, NotAllSorted, SortedClosed
  <1>3. r.stack # <<>>
    <2>1. Ready(b, A, S) # {}
      <3> HIDE DEF S
      <3> QED BY <1>0, <1>2, SomeReady
    <2>2. ToSet(<<>>) = {}
      BY DEF ToSet
    <2> QED BY <1>1, <2>1, <2>2
  <1>4. /\ x \in A /\ x \in Ready(b, A, S)
        /\ rest \in Seq(A) /\ Distinct(rest) /\ ToSet(rest) = Ready(b, A, S) \ {x}
    <2> HIDE DEF S
    <2> QED BY <1>1, <1>3, FrontFacts
  <1>5. x \notin S /\ b[x].parents \cap A \subseteq S
    BY <1>4 DEF Ready
  <1>6. /\ sorted \in Seq(A) /\ Len(sorted) = n /\ Distinct(sorted) /\ ToSet(sorted) = S \cup {x}
        /\ sorted[n] = x /\ \A i \in 1..n - 1 : sorted[i] = r.sorted[i]
    <2>1. /\ sorted \in Seq(A) /\ Len(sorted) = (n - 1) + 1
          /\ sorted[(n - 1) + 1] = x /\ \A i \in 1..n - 1 : sorted[i] = r.sorted[i]
          /\ Distinct(sorted) /\ ToSet(sorted) = S \cup {x}
      <3> HIDE DEF x
      <3> QED BY <1>1, <1>4, <1>5, AppendFacts
    <2>2. (n - 1) + 1 = n
      OBVIOUS
    <2> HIDE DEF sorted, S, x
    <2> QED BY <2>1, <2>2
  <1>7. InOrder(b, A, sorted)
    <2> SUFFICES ASSUME NEW j \in 1..n, NEW p \in b[sorted[j]].parents \cap A
                 PROVE  \E i \in 1..j - 1 : sorted[i] = p
      BY <1>6 DEF InOrder
    <2>1. CASE j = n
      <3>1. p \in S
        BY <2>1, <1>5, <1>6
      <3>2. DOMAIN r.sorted = 1..n - 1
        BY <1>1
      <3>3. PICK i \in 1..n - 1 : r.sorted[i] = p
        BY <3>1, <3>2 DEF ToSet
      <3> QED BY <3>3, <2>1, <1>6
    <2>2. CASE j # n
      <3>1. j \in 1..n - 1
        BY <2>2
      <3>2. sorted[j] = r.sorted[j]
        BY <3>1, <1>6
      <3>3. PICK i \in 1..j - 1 : r.sorted[i] = p
        BY <3>1, <3>2, <1>1 DEF InOrder
      <3>4. i \in 1..n - 1
        BY <3>1
      <3> QED BY <3>3, <3>4, <1>6
    <2> QED BY <2>1, <2>2
  <1> DEFINE F == {c \in C : b[c].parents \cap A \subseteq S \cup {x}}
  <1>8. pushed \in Seq(A) /\ Distinct(pushed) /\ ToSet(pushed) = F
    <2>1. C \in SUBSET A
      OBVIOUS
    <2> HIDE DEF C, sorted, S, x
    <2> QED BY <2>1, <1>0, <1>6, FreedFacts
  <1>9. Ready(b, A, S \cup {x}) = (Ready(b, A, S) \ {x}) \cup F /\ (Ready(b, A, S) \ {x}) \cap F = {}
    <2> HIDE DEF S, x
    <2> QED BY <1>0, <1>2, <1>4, ReadyAfter
  <1>10. /\ rest \o pushed \in Seq(A) /\ Distinct(rest \o pushed)
         /\ ToSet(rest \o pushed) = Ready(b, A, S \cup {x})
    <2> HIDE DEF rest, pushed, F, S, x
    <2>1. ToSet(rest) \cap ToSet(pushed) = {}
      BY <1>4, <1>8, <1>9
    <2>2. /\ rest \o pushed \in Seq(A) /\ Distinct(rest \o pushed)
          /\ ToSet(rest \o pushed) = ToSet(rest) \cup ToSet(pushed)
      BY <1>4, <1>8, <2>1, ConcatFacts
    <2> QED BY <1>4, <1>8, <1>9, <2>2
  <1> DEFINE next == SortNext(b, A, r)
             stack == rest \o pushed
  <1>11. next = [sorted |-> sorted, stack |-> stack]
    BY DEF SortNext
  <1>12. next.sorted = sorted /\ next.stack = stack
    <2> HIDE DEF stack, sorted, next
    <2> QED BY <1>11
  <1> HIDE DEF rest, pushed, sorted, S, x, next
  <1> QED BY <1>6, <1>7, <1>10, <1>12 DEF Sorting, next

\* topological_sort returns every node it is given once, after the parents it
\* has among the nodes, for any finite DAG whose links mirror each other.
THEOREM TopologicalOrder ==
  ASSUME NEW b, NEW A, Sortable(b, A)
  PROVE  LET order == TopologicalSort(b, A) IN
           /\ order \in Seq(A) /\ Distinct(order) /\ ToSet(order) = A
           /\ InOrder(b, A, order)
PROOF
  <1> DEFINE N == Cardinality(A)
             X == [sorted : Seq(A), stack : Seq(A)]
             base == [sorted |-> <<>>, stack |-> Freed(b, A, <<>>, A)]
             I == [n \in 0..N |-> {r \in X : Sorting(b, A, n, r)}]
             G == [n \in 1..N |-> [r \in X |-> IF r \in I[n - 1] THEN SortNext(b, A, r) ELSE r]]
             Solves(f) == f = [n \in 0..Cardinality(A) |->
                            IF n = 0 THEN [sorted |-> <<>>, stack |-> Freed(b, A, <<>>, A)]
                            ELSE SortNext(b, A, f[n - 1])]
             W == CHOOSE f : Solves(f)
  <1>0. /\ A \subseteq Hash /\ IsFiniteSet(A) /\ N \in Nat
        /\ Wired(b) /\ A \in SUBSET DOMAIN b
    BY SortableFacts
  <1>1. TopologicalSort(b, A) = W[N].sorted
    BY DEF TopologicalSort
  <1>2. base \in X /\ Sorting(b, A, 0, base)
    <2>1. base.sorted = <<>> /\ <<>> \in Seq(A) /\ Len(<<>>) = 0 /\ Distinct(<<>>)
      BY DEF Distinct
    <2>2. InOrder(b, A, <<>>) /\ ToSet(<<>>) = {}
      BY DEF InOrder, ToSet
    <2>3. base.stack \in Seq(A) /\ Distinct(base.stack) /\ ToSet(base.stack) = Ready(b, A, {})
      <3>1. base.stack = Freed(b, A, <<>>, A) /\ A \in SUBSET A
        OBVIOUS
      <3>2. Ready(b, A, {}) = {c \in A : b[c].parents \cap A \subseteq ToSet(<<>>)}
        BY <2>2 DEF Ready
      <3>3. /\ Freed(b, A, <<>>, A) \in Seq(A) /\ Distinct(Freed(b, A, <<>>, A))
            /\ ToSet(Freed(b, A, <<>>, A)) = {c \in A : b[c].parents \cap A \subseteq ToSet(<<>>)}
        BY <3>1, <1>0, FreedFacts
      <3> HIDE DEF base
      <3> QED BY <3>1, <3>2, <3>3
    <2>4. base \in X
      BY <2>1, <2>3
    <2> HIDE DEF base
    <2> QED BY <2>1, <2>2, <2>3, <2>4 DEF Sorting
  <1>3. ASSUME NEW n \in 1..N, NEW r, Sorting(b, A, n - 1, r)
        PROVE  SortNext(b, A, r) \in X /\ Sorting(b, A, n, SortNext(b, A, r))
    <2>1. Sorting(b, A, n, SortNext(b, A, r))
      BY <1>3, SortStep
    <2>2. SortNext(b, A, r) \in X
      BY <2>1 DEF SortNext, Sorting
    <2> QED BY <2>1, <2>2
  <1>4. /\ I \in [0..N -> SUBSET X] /\ base \in I[0]
        /\ \A n \in 1..N : I[n - 1] = {r \in X : Sorting(b, A, n - 1, r)}
        /\ \A n \in 0..N : I[n] = {r \in X : Sorting(b, A, n, r)}
    <2>1. 0 \in 0..N /\ \A n \in 1..N : n - 1 \in 0..N
      BY <1>0
    <2> HIDE DEF N, X, base
    <2> QED BY <2>1, <1>2
  <1>5. G \in [1..N -> [X -> X]]
    <2> HIDE DEF N, X, I
    <2> QED BY <1>3, <1>4
  <1>6. ASSUME NEW n \in 1..N, NEW r \in I[n - 1]
        PROVE  r \in X /\ Sorting(b, A, n - 1, r) /\ G[n][r] = SortNext(b, A, r) /\ G[n][r] \in I[n]
    <2>1. r \in X /\ Sorting(b, A, n - 1, r)
      BY <1>6, <1>4
    <2>2. G[n][r] = SortNext(b, A, r)
      <3> HIDE DEF N, X, I
      <3> QED BY <2>1, <1>6
    <2>3. n \in 0..N
      BY <1>0
    <2>4. SortNext(b, A, r) \in I[n]
      <3> HIDE DEF N, X, I
      <3> QED BY <2>1, <2>3, <1>3, <1>4
    <2> HIDE DEF N, X, I, G
    <2> QED BY <2>1, <2>2, <2>4
  <1>7. PICK f : Solution(f, X, base, N, G) /\ \A i \in 0..N : f[i] \in I[i]
    <2>1. I \in [0..N -> SUBSET X] /\ base \in I[0] /\ N \in Nat
      BY <1>0, <1>4
    <2>2. \A n \in 1..N : \A r \in I[n - 1] : G[n][r] \in I[n]
      BY <1>6
    <2> HIDE DEF N, X, I, G, base
    <2> QED BY <2>1, <2>2, <1>5, RecursionInv
  <1>8. Solves(f)
    <2>1. \A i \in 0..N : f[i] = IF i = 0 THEN base ELSE SortNext(b, A, f[i - 1])
      <3> SUFFICES ASSUME NEW i \in 0..N
                   PROVE  f[i] = IF i = 0 THEN base ELSE SortNext(b, A, f[i - 1])
        OBVIOUS
      <3> HIDE DEF N, X, base, I, G
      <3>1. i # 0 => i \in 1..N /\ i - 1 \in 0..N
        BY <1>0
      <3> QED BY <3>1, <1>6, <1>7 DEF Solution
    <2>2. f = [n \in 0..N |-> f[n]]
      BY <1>7 DEF Solution
    <2> QED BY <2>1, <2>2
  <1>9. Solves(W)
    <2> HIDE DEF Solves
    <2> QED BY <1>8
  <1> HIDE DEF W
  <1>10. W[0] = base /\ \A i \in 1..N : W[i] = SortNext(b, A, W[i - 1])
    <2>1. \A i \in 0..N : W[i] = IF i = 0 THEN base ELSE SortNext(b, A, W[i - 1])
      BY <1>9, Zenon
    <2>2. 0 \in 0..N /\ \A i \in 1..N : i \in 0..N /\ i # 0
      BY <1>0
    <2> HIDE DEF base
    <2> QED BY <2>1, <2>2
  <1> DEFINE T == {i \in 0..N : Sorting(b, A, i, W[i])}
  <1>11. 0 \in T
    <2> HIDE DEF base
    <2> QED BY <1>0, <1>2, <1>10
  <1>12. ASSUME NEW i \in 1..N, i - 1 \in T PROVE i \in T
    <2> HIDE DEF X
    <2> QED BY <1>12, <1>0, <1>3, <1>10
  <1>13. Sorting(b, A, N, W[N])
    <2>1. 0..N \subseteq T
      <3> HIDE DEF T, N
      <3> QED BY <1>0, <1>11, <1>12, UpTo
    <2> QED BY <2>1, <1>0
  <1>14. ToSet(W[N].sorted) = A
    BY <1>0, <1>13, AllSorted DEF Sorting
  <1> QED BY <1>1, <1>13, <1>14 DEF Sorting

-----------------------------------------------------------------------------
(* One pass over the labels. *)

\* The label of x is what recompute_block would store now.
Settled(b, l, x) == b[x].parents # {} => l[x] = LabelOver(b, l, b[x].parents)

\* The labels of all stored blocks.
Labels(b) == [DOMAIN b -> FinLabel]

\* The labels name stored blocks only.
Known(b, l) ==
  \A x \in DOMAIN b : l[x].blue_set \subseteq DOMAIN b /\ l[x].red_set \subseteq DOMAIN b

\* The parents of a stored block are labelled.
LEMMA ParentsLabelled ==
  ASSUME NEW b, Wired(b), NEW l \in Labels(b), NEW x \in DOMAIN b, b[x].parents # {}
  PROVE  Labelled(b, l, b[x].parents)
PROOF
  <1>1. b[x].parents \in SUBSET DOMAIN b /\ DOMAIN b \subseteq Hash /\ IsFiniteSet(DOMAIN b)
    BY DEF Wired
  <1>2. IsFiniteSet(b[x].parents)
    BY <1>1, FS_Subset
  <1> QED BY <1>1, <1>2 DEF Labelled, Labels

\* recompute_block writes one label and settles it.
LEMMA RecomputeFacts ==
  ASSUME NEW b, Wired(b), NEW l \in Labels(b), NEW x \in DOMAIN b
  PROVE  /\ Recompute(b, l, x) \in Labels(b)
         /\ \A y \in DOMAIN b : y # x => Recompute(b, l, x)[y] = l[y]
         /\ Settled(b, Recompute(b, l, x), x)
         /\ Known(b, l) => Known(b, Recompute(b, l, x))
PROOF
  <1> DEFINE P == b[x].parents
             m == Recompute(b, l, x)
  <1>1. P \subseteq DOMAIN b /\ DOMAIN l = DOMAIN b
    BY DEF Wired, Labels
  <1>2. CASE P = {}
    BY <1>2 DEF Recompute, Settled
  <1>3. CASE P # {}
    <2>1. m = [l EXCEPT ![x] = LabelOver(b, l, P)]
      BY <1>1, <1>3 DEF Recompute
    <2>2. Labelled(b, l, P)
      BY <1>3, ParentsLabelled
    <2>3. LabelOver(b, l, P) \in FinLabel
      BY <2>2, LabelFacts
    <2>4. m \in Labels(b) /\ m[x] = LabelOver(b, l, P) /\ \A y \in DOMAIN b : y # x => m[y] = l[y]
      <3> HIDE DEF P, m
      <3> QED BY <1>1, <2>1, <2>3 DEF Labels
    <2>5. \A p \in P : m[p] = l[p]
      <3>1. x \notin P
        BY NotOwnParent
      <3> HIDE DEF P, m
      <3> QED BY <1>1, <2>4, <3>1
    <2>6. LabelOver(b, m, P) = LabelOver(b, l, P)
      <3> HIDE DEF P, m
      <3> QED BY <2>2, <2>5, LabelLocal
    <2>7. Known(b, l) => Known(b, m)
      <3> SUFFICES ASSUME Known(b, l) PROVE Known(b, m)
        OBVIOUS
      <3>1. SelectParent(l, P) \in DOMAIN b
        BY <1>1, <2>2, ParentFacts
      <3>2. l[SelectParent(l, P)].blue_set \subseteq DOMAIN b
        BY <3>1 DEF Known
      <3>3. /\ LabelOver(b, l, P).blue_set \subseteq DOMAIN b
            /\ LabelOver(b, l, P).red_set \subseteq DOMAIN b
        <4> HIDE DEF P
        <4> QED BY <1>1, <2>2, <3>2, LabelRange
      <3>4. \A y \in DOMAIN b : y = x \/ m[y] = l[y]
        BY <2>4
      <3> HIDE DEF m, P
      <3> QED BY <2>4, <3>3, <3>4 DEF Known
    <2> HIDE DEF m
    <2> QED BY <2>4, <2>6, <2>7 DEF Settled, m
  <1> QED BY <1>2, <1>3

\* A settled label stays settled when another block that is not a parent is
\* recomputed.
LEMMA StaysSettled ==
  ASSUME NEW b, Wired(b), NEW l \in Labels(b), NEW m \in Labels(b), NEW x \in DOMAIN b,
         Settled(b, l, x), m[x] = l[x], \A p \in b[x].parents : m[p] = l[p]
  PROVE  Settled(b, m, x)
PROOF
  <1> SUFFICES ASSUME b[x].parents # {} PROVE m[x] = LabelOver(b, m, b[x].parents)
    BY DEF Settled
  <1>1. Labelled(b, l, b[x].parents)
    BY ParentsLabelled
  <1>2. LabelOver(b, m, b[x].parents) = LabelOver(b, l, b[x].parents)
    BY <1>1, LabelLocal
  <1> QED BY <1>2 DEF Settled

\* What holds after n blocks of the pass.
Passed(b, l, order, n, m) ==
  /\ m \in Labels(b)
  /\ \A y \in DOMAIN b : (\A j \in 1..n : order[j] # y) => m[y] = l[y]
  /\ \A j \in 1..n : Settled(b, m, order[j])
  /\ Known(b, l) => Known(b, m)

\* One more block of the pass.
LEMMA PassStep ==
  ASSUME NEW b, Wired(b), NEW l \in Labels(b), NEW A \in SUBSET DOMAIN b,
         NEW order \in Seq(A), Distinct(order), InOrder(b, A, order),
         NEW n \in 1..Len(order), NEW m, Passed(b, l, order, n - 1, m)
  PROVE  Passed(b, l, order, n, Recompute(b, m, order[n]))
PROOF
  <1> DEFINE x == order[n]
             w == Recompute(b, m, x)
  <1>0. Len(order) \in Nat /\ \A j \in 1..n - 1 : j \in 1..Len(order) /\ j # n
    OBVIOUS
  <1>1. x \in A /\ x \in DOMAIN b /\ \A j \in 1..Len(order) : order[j] \in A
    OBVIOUS
  <1>2. m \in Labels(b)
    BY DEF Passed
  <1>3. /\ w \in Labels(b) /\ Settled(b, w, x)
        /\ \A y \in DOMAIN b : y # x => w[y] = m[y]
        /\ Known(b, m) => Known(b, w)
    <2> HIDE DEF x
    <2> QED BY <1>1, <1>2, RecomputeFacts
  <1>4. ASSUME NEW y \in DOMAIN b, \A j \in 1..n : order[j] # y PROVE w[y] = l[y]
    <2>1. n \in 1..n /\ \A j \in 1..n - 1 : j \in 1..n
      BY <1>0
    <2>2. m[y] = l[y] /\ y # x
      BY <2>1, <1>4 DEF Passed
    <2> QED BY <2>2, <1>3
  <1>5. ASSUME NEW j \in 1..n PROVE Settled(b, w, order[j])
    <2>1. CASE j = n
      BY <2>1, <1>3
    <2>2. CASE j # n
      <3>1. j \in 1..n - 1 /\ j \in 1..Len(order)
        BY <2>2, <1>0
      <3>2. order[j] \in A /\ order[j] \in DOMAIN b /\ order[j] # x
        BY <3>1, <1>0, <1>1, <2>2 DEF Distinct
      <3>3. x \notin b[order[j]].parents
        <4> SUFFICES ASSUME x \in b[order[j]].parents PROVE FALSE
          OBVIOUS
        <4>1. PICK i \in 1..j - 1 : order[i] = x
          BY <3>1, <1>1 DEF InOrder
        <4>2. i \in 1..Len(order) /\ i # n
          BY <3>1, <1>0
        <4> QED BY <4>1, <4>2 DEF Distinct
      <3>4. b[order[j]].parents \subseteq DOMAIN b
        BY <3>2 DEF Wired
      <3>5. /\ \A p \in b[order[j]].parents : w[p] = m[p]
            /\ w[order[j]] = m[order[j]]
        <4> HIDE DEF x, w
        <4> QED BY <1>3, <3>2, <3>3, <3>4
      <3>6. Settled(b, m, order[j])
        BY <3>1 DEF Passed
      <3> HIDE DEF w
      <3> QED BY <1>2, <1>3, <3>2, <3>5, <3>6, StaysSettled
    <2> QED BY <2>1, <2>2
  <1> HIDE DEF w
  <1> QED BY <1>3, <1>4, <1>5 DEF Passed, w

\* A pass over all blocks of A, each after its parents, settles all of them and
\* leaves the labels of the other blocks.
LEMMA PassFacts ==
  ASSUME NEW b, Wired(b), NEW l \in Labels(b), NEW A \in SUBSET DOMAIN b,
         NEW order \in Seq(A), Distinct(order), ToSet(order) = A, InOrder(b, A, order)
  PROVE  LET m == RecomputeAll(b, l, order) IN
           /\ m \in Labels(b)
           /\ \A y \in DOMAIN b \ A : m[y] = l[y]
           /\ \A x \in A : Settled(b, m, x)
           /\ Known(b, l) => Known(b, m)
PROOF
  <1> DEFINE N == Len(order)
             X == Labels(b)
             G == [n \in 1..N |-> [m \in X |-> Recompute(b, m, order[n])]]
             Solves(f) == f = [n \in 0..Len(order) |->
                            IF n = 0 THEN l ELSE Recompute(b, f[n - 1], order[n])]
             W == CHOOSE f : Solves(f)
  <1>1. N \in Nat /\ DOMAIN order = 1..N /\ \A n \in 1..N : order[n] \in DOMAIN b
    OBVIOUS
  <1>2. RecomputeAll(b, l, order) = W[N]
    BY DEF RecomputeAll
  <1>3. G \in [1..N -> [X -> X]]
    <2>1. \A n \in 1..N : \A m \in X : Recompute(b, m, order[n]) \in X
      BY <1>1, RecomputeFacts
    <2> HIDE DEF N, X
    <2> QED BY <2>1
  <1>4. PICK f : Solution(f, X, l, N, G)
    <2>1. l \in X
      OBVIOUS
    <2> HIDE DEF N, X, G
    <2> QED BY <2>1, <1>1, <1>3, Recursion
  <1>5. f \in [0..N -> X] /\ f[0] = l /\ \A n \in 1..N : f[n] = G[n][f[n - 1]]
    BY <1>4 DEF Solution
  <1>6. Solves(f)
    <2>1. \A n \in 0..N : f[n] = IF n = 0 THEN l ELSE Recompute(b, f[n - 1], order[n])
      <3> SUFFICES ASSUME NEW n \in 0..N
                   PROVE  f[n] = IF n = 0 THEN l ELSE Recompute(b, f[n - 1], order[n])
        OBVIOUS
      <3> HIDE DEF N, X
      <3>1. n # 0 => n \in 1..N /\ f[n - 1] \in X
        BY <1>1, <1>5
      <3> QED BY <3>1, <1>5
    <2>2. f = [n \in 0..N |-> f[n]]
      BY <1>5
    <2> QED BY <2>1, <2>2
  <1>7. Solves(W)
    <2> HIDE DEF Solves
    <2> QED BY <1>6
  <1> HIDE DEF W
  <1>8. W[0] = l /\ \A n \in 1..N : W[n] = Recompute(b, W[n - 1], order[n])
    <2>1. \A n \in 0..N : W[n] = IF n = 0 THEN l ELSE Recompute(b, W[n - 1], order[n])
      BY <1>7, Zenon
    <2>2. 0 \in 0..N /\ \A n \in 1..N : n \in 0..N /\ n # 0
      BY <1>1
    <2> QED BY <2>1, <2>2
  <1> DEFINE T == {n \in 0..N : Passed(b, l, order, n, W[n])}
  <1>9. 0 \in T
    BY <1>1, <1>8 DEF Passed
  <1>10. ASSUME NEW n \in 1..N, n - 1 \in T PROVE n \in T
    <2>1. Passed(b, l, order, n - 1, W[n - 1]) /\ n \in 1..Len(order) /\ n \in 0..N
      BY <1>10, <1>1
    <2>2. Passed(b, l, order, n, Recompute(b, W[n - 1], order[n]))
      BY <2>1, PassStep
    <2> QED BY <1>8, <2>1, <2>2
  <1>11. Passed(b, l, order, N, W[N])
    <2>1. 0..N \subseteq T
      <3> HIDE DEF T, N
      <3> QED BY <1>1, <1>9, <1>10, UpTo
    <2> QED BY <2>1, <1>1
  <1>12. \A y \in A : \E j \in 1..N : order[j] = y
    BY <1>1 DEF ToSet
  <1>13. \A y \in DOMAIN b \ A : \A j \in 1..N : order[j] # y
    BY <1>1
  <1> HIDE DEF N
  <1> QED BY <1>2, <1>11, <1>12, <1>13 DEF Passed

-----------------------------------------------------------------------------
(* Processing a block. *)

\* The blocks that process_block recomputes: the block is one of them, and so
\* are the children of each.
LEMMA AffectedFacts ==
  ASSUME NEW b, Wired(b), NEW h \in DOMAIN b, b[h].parents # {}
  PROVE  /\ Affected(b, h) \in SUBSET DOMAIN b
         /\ h \in Affected(b, h)
         /\ \A x \in Affected(b, h) : b[x].children \subseteq Affected(b, h)
PROOF
  <1> DEFINE link == [x \in DOMAIN b |-> b[x].children]
             A == Affected(b, h)
  <1>1. b[h].parents \subseteq DOMAIN b /\ IsFiniteSet(DOMAIN b)
    BY DEF Wired
  <1>2. link \in [DOMAIN b -> SUBSET DOMAIN b] /\ \A x \in DOMAIN b : link[x] = b[x].children
    BY DEF Wired
  <1>3. ASSUME NEW p \in b[h].parents
        PROVE  /\ Descendants(b, p) \subseteq DOMAIN b
               /\ b[p].children \subseteq Descendants(b, p)
               /\ \A x \in Descendants(b, p) : b[x].children \subseteq Descendants(b, p)
    <2>1. Descendants(b, p) = Reach(link, p)
      BY DEF Descendants
    <2>2. /\ Reach(link, p) \subseteq DOMAIN b
          /\ link[p] \subseteq Reach(link, p)
          /\ \A x \in Reach(link, p) : link[x] \subseteq Reach(link, p)
      <3>1. p \in DOMAIN b
        BY <1>1
      <3> HIDE DEF link
      <3> QED BY <1>1, <1>2, <3>1, ReachClosed
    <2> HIDE DEF link
    <2> QED BY <1>1, <1>2, <2>1, <2>2
  <1>4. A = UNION {{p} \cup Descendants(b, p) : p \in b[h].parents}
    BY DEF Affected
  <1> HIDE DEF A, link
  <1>5. A \in SUBSET DOMAIN b
    BY <1>1, <1>3, <1>4
  <1>6. h \in A
    <2>1. PICK p \in b[h].parents : TRUE
      OBVIOUS
    <2>2. h \in b[p].children
      BY <2>1, <1>1 DEF Wired
    <2> QED BY <2>1, <2>2, <1>3, <1>4
  <1>7. ASSUME NEW x \in A PROVE b[x].children \subseteq A
    <2>1. PICK p \in b[h].parents : x \in {p} \cup Descendants(b, p)
      BY <1>4
    <2>2. b[x].children \subseteq Descendants(b, p)
      BY <2>1, <1>3
    <2> QED BY <2>1, <2>2, <1>4
  <1> QED BY <1>5, <1>6, <1>7 DEF A

\* process_block settles the blocks it recomputes and leaves the other labels.
LEMMA ProcessFacts ==
  ASSUME NEW b, Wired(b), NEW l \in Labels(b), NEW h \in DOMAIN b, b[h].parents # {}
  PROVE  LET m == Process(b, l, h) IN
           /\ m \in Labels(b)
           /\ \A y \in DOMAIN b \ Affected(b, h) : m[y] = l[y]
           /\ \A x \in Affected(b, h) : Settled(b, m, x)
           /\ Known(b, l) => Known(b, m)
PROOF
  <1> DEFINE A == Affected(b, h)
             l1 == Recompute(b, l, h)
             order == TopologicalSort(b, A)
             m == RecomputeAll(b, l1, order)
  <1>1. A \in SUBSET DOMAIN b /\ h \in A
    BY AffectedFacts
  <1>2. /\ l1 \in Labels(b) /\ \A y \in DOMAIN b : y # h => l1[y] = l[y]
        /\ Known(b, l) => Known(b, l1)
    BY RecomputeFacts
  <1>3. order \in Seq(A) /\ Distinct(order) /\ ToSet(order) = A /\ InOrder(b, A, order)
    <2>1. Sortable(b, A)
      BY <1>1 DEF Sortable
    <2> HIDE DEF A
    <2> QED BY <2>1, TopologicalOrder
  <1>4. /\ m \in Labels(b)
        /\ \A y \in DOMAIN b \ A : m[y] = l1[y]
        /\ \A x \in A : Settled(b, m, x)
        /\ Known(b, l1) => Known(b, m)
    <2> HIDE DEF A, order, l1
    <2> QED BY <1>1, <1>2, <1>3, PassFacts
  <1>5. Process(b, l, h) = m
    BY DEF Process
  <1> HIDE DEF m, l1, A, order
  <1> QED BY <1>1, <1>2, <1>4, <1>5 DEF A

\* The genesis gets a fixed label.
LEMMA ProcessGenesis ==
  ASSUME NEW b, NEW l \in Labels(b), NEW h \in DOMAIN b, b[h].parents = {}
  PROVE  /\ Process(b, l, h) \in Labels(b)
         /\ \A y \in DOMAIN b : y # h => Process(b, l, h)[y] = l[y]
         /\ Known(b, l) => Known(b, Process(b, l, h))
PROOF
  <1>1. GenesisLabel \in FinLabel
    BY FS_EmptySet DEF GenesisLabel, NewLabel, FinLabel, Label
  <1>2. Process(b, l, h) = [l EXCEPT ![h] = GenesisLabel]
    BY DEF Process
  <1>3. /\ Process(b, l, h) \in Labels(b)
        /\ \A y \in DOMAIN b : y # h => Process(b, l, h)[y] = l[y]
        /\ Process(b, l, h)[h] = GenesisLabel
    BY <1>1, <1>2 DEF Labels
  <1>4. GenesisLabel.blue_set = {} /\ GenesisLabel.red_set = {}
    BY DEF GenesisLabel, NewLabel
  <1>5. \A y \in DOMAIN b : y = h \/ Process(b, l, h)[y] = l[y]
    BY <1>3
  <1> QED BY <1>3, <1>4, <1>5 DEF Known

-----------------------------------------------------------------------------
(* The invariant of the labels. *)

\* The colours that x should have over its selected parent p, from the present
\* label of p and the blocks of the present anticone of p that x has coloured.
Repainted(b, l, p, x) ==
  ColourAll(b, l[p].blue_set \cup {p},
            Ascending(Anticone(b, p) \cap (l[x].blue_set \cup l[x].red_set)))

\* What the label of a processed block keeps although the DAG grows: it has the
\* parent that would be selected now, the colours that follow from it and counts
\* from its score.
Current(b, l, x) ==
  b[x].parents # {} =>
    LET p == SelectParent(l, b[x].parents) IN
      /\ l[x].selected_parent = p
      /\ l[x].blue_set = Repainted(b, l, p, x).blue
      /\ l[x].red_set = Repainted(b, l, p, x).red
      /\ l[x].blue_score = l[p].blue_score + Cardinality(l[x].blue_set)

\* The block is above its parents.
Above(b, l, x) == \A p \in b[x].parents : l[p].blue_score < l[x].blue_score

\* A settled label is current and above the parents.
LEMMA SettledFacts ==
  ASSUME NEW b, Wired(b), NEW l \in Labels(b), NEW x \in DOMAIN b, Settled(b, l, x)
  PROVE  Current(b, l, x) /\ Above(b, l, x)
PROOF
  <1>1. CASE b[x].parents = {}
    BY <1>1 DEF Current, Above
  <1>2. CASE b[x].parents # {}
    <2> DEFINE P == b[x].parents
               p == SelectParent(l, P)
               sets == ColourAll(b, l[p].blue_set \cup {p}, Ascending(Anticone(b, p)))
    <2>1. Labelled(b, l, P)
      BY <1>2, ParentsLabelled
    <2>2. l[x] = LabelOver(b, l, P)
      BY <1>2 DEF Settled
    <2>3. /\ l[x].selected_parent = p
          /\ l[x].blue_score = l[p].blue_score + Cardinality(l[x].blue_set)
          /\ \A q \in P : l[q].blue_score < l[x].blue_score
      BY <2>1, <2>2, LabelFacts
    <2>4. l[x].blue_set = sets.blue /\ l[x].red_set = sets.red
      BY <2>2 DEF LabelOver, BuildBlueSet
    <2>5. Anticone(b, p) \subseteq l[x].blue_set \cup l[x].red_set
      <3>1. p \in P
        BY <2>1, ParentFacts
      <3>2. DOMAIN b \cup P \subseteq Hash /\ l[p].blue_set \subseteq Hash
        <4> HIDE DEF P, p
        <4> QED BY <2>1, <3>1 DEF Labelled, FinLabel, Label
      <3> HIDE DEF P
      <3> QED BY <2>1, <2>2, <3>2, LabelRange
    <2>6. Anticone(b, p) \cap (l[x].blue_set \cup l[x].red_set) = Anticone(b, p)
      BY <2>5
    <2>7. Repainted(b, l, p, x) = sets
      BY <2>6 DEF Repainted
    <2> HIDE DEF sets
    <2> QED BY <2>3, <2>4, <2>7 DEF Current, Above
  <1> QED BY <1>1, <1>2

\* A score stays above those of the parents as long as these labels stay.
LEMMA AboveLocal ==
  ASSUME NEW b, NEW c, NEW l, NEW m, NEW x, c[x].parents = b[x].parents,
         m[x] = l[x], \A p \in b[x].parents : m[p] = l[p], Above(b, l, x)
  PROVE  Above(c, m, x)
BY DEF Above

\* A label stays current as long as it and those of the parents stay and blocks
\* are only added to the anticones.
LEMMA CurrentLocal ==
  ASSUME NEW b, Wired(b), NEW l \in Labels(b), Known(b, l), NEW x \in DOMAIN b,
         NEW c, \A y \in DOMAIN b : Anticone(c, y) \cap DOMAIN b = Anticone(b, y),
         NEW m, c[x].parents = b[x].parents,
         m[x] = l[x], \A p \in b[x].parents : m[p] = l[p], Current(b, l, x)
  PROVE  Current(c, m, x)
PROOF
  <1> DEFINE P == b[x].parents
             p == SelectParent(l, P)
             blue == l[p].blue_set \cup {p}
             seen == Anticone(b, p) \cap (l[x].blue_set \cup l[x].red_set)
  <1> SUFFICES ASSUME P # {} PROVE Current(c, m, x)
    BY DEF Current
  <1>1. Labelled(b, l, P)
    BY ParentsLabelled
  <1>2. /\ SelectParent(m, P) = p /\ p \in P /\ m[p] = l[p]
        /\ p \in Hash /\ l[p] \in FinLabel
    <2>1. SelectParent(m, P) = p /\ p \in P
      BY <1>1, SelectLocal, ParentFacts
    <2> QED BY <1>1, <2>1 DEF Labelled
  <1>3. p \in DOMAIN b /\ DOMAIN b \subseteq Hash /\ IsFiniteSet(DOMAIN b)
    BY <1>2 DEF Wired
  <1>4. Anticone(c, p) \cap (m[x].blue_set \cup m[x].red_set) = seen
    <2>1. l[x].blue_set \cup l[x].red_set \subseteq DOMAIN b
      BY DEF Known
    <2>2. Anticone(c, p) \cap DOMAIN b = Anticone(b, p)
      BY <1>3
    <2> QED BY <2>1, <2>2
  <1>5. blue \in FinHash /\ blue \subseteq DOMAIN b
    <2>1. l[p].blue_set \in FinHash
      <3> HIDE DEF p
      <3> QED BY <1>2 DEF FinHash, FinLabel, Label
    <2>2. l[p].blue_set \subseteq DOMAIN b
      BY <1>3 DEF Known
    <2> HIDE DEF p
    <2> QED BY <1>2, <1>3, <2>1, <2>2, FS_AddElement DEF FinHash
  <1>6. seen \in SUBSET DOMAIN b /\ seen \in SUBSET Hash /\ IsFiniteSet(seen)
    <2>1. seen \in SUBSET DOMAIN b
      BY DEF Anticone
    <2> HIDE DEF seen
    <2> QED BY <2>1, <1>3, FS_Subset
  <1> HIDE DEF seen, blue, p
  <1>7. /\ Ascending(seen) \in Seq(Hash)
        /\ \A i \in 1..Len(Ascending(seen)) : Ascending(seen)[i] \in DOMAIN b
    BY <1>6, AscendingHashes
  <1>8. Agree(b, c, DOMAIN b)
    <2> SUFFICES ASSUME NEW y \in DOMAIN b
                 PROVE  Anticone(c, y) \cap DOMAIN b = Anticone(b, y) \cap DOMAIN b
      BY DEF Agree
    <2>1. Anticone(c, y) \cap DOMAIN b = Anticone(b, y)
      OBVIOUS
    <2>2. Anticone(b, y) \subseteq DOMAIN b
      BY DEF Anticone
    <2> QED BY <2>1, <2>2
  <1>9. ColourAll(c, blue, Ascending(seen)) = ColourAll(b, blue, Ascending(seen))
    BY <1>5, <1>7, <1>8, ColourLocal
  <1>10. Repainted(c, m, p, x) = Repainted(b, l, p, x)
    <2>1. Repainted(c, m, p, x) = ColourAll(c, blue, Ascending(seen))
      BY <1>2, <1>4 DEF Repainted, blue
    <2>2. Repainted(b, l, p, x) = ColourAll(b, blue, Ascending(seen))
      BY DEF Repainted, blue, seen
    <2> QED BY <1>9, <2>1, <2>2
  <1> QED BY <1>2, <1>10 DEF Current, p

\* As long as nothing was removed, a block without children is a tip.
ChildlessAreTips ==
  removed = 0 => \A x \in DOMAIN blocks : blocks[x].children = {} => x \in tips

LabelsAbove == \A x \in processed : Above(blocks, labels, x)
LabelsKnown == removed = 0 => Known(blocks, labels)
LabelsCount == removed = 0 => \A x \in processed : Current(blocks, labels, x)

\* The inductive invariant: only finitely many blocks are stored, so that blue
\* sets can be counted, and a block is processed after its parents.
GhostInv ==
  /\ DagInv /\ IsFiniteSet(DOMAIN blocks)
  /\ labels \in Labels(blocks) /\ removed \in Nat
  /\ processed \subseteq DOMAIN blocks
  /\ \A x \in processed : blocks[x].parents \subseteq processed
  /\ LabelsAbove /\ LabelsKnown /\ LabelsCount /\ ChildlessAreTips

\* The invariant says of the blocks what the topological sort needs.
LEMMA InvWired ==
  ASSUME GhostInv
  PROVE  Wired(blocks)
BY DEF GhostInv, DagInv, DagTypeOK, LinksMirrored, Acyclic, Wired

\* The empty DAG has no label that could be wrong.
LEMMA InitGhost == Init => GhostInv
PROOF
  <1> SUFFICES ASSUME Init PROVE GhostInv
    OBVIOUS
  <1>1. DagInv
    BY InitDag
  <1>2. DOMAIN blocks = {} /\ DOMAIN labels = {} /\ processed = {} /\ removed = 0
    BY DEF Init, DagInit, NoBlocks
  <1>3. labels \in Labels(blocks)
    BY <1>2 DEF Init, Labels
  <1>4. IsFiniteSet(DOMAIN blocks)
    BY <1>2, FS_EmptySet
  <1> QED BY <1>1, <1>2, <1>3, <1>4 DEF GhostInv, LabelsAbove, LabelsKnown, Known, LabelsCount,
                                            ChildlessAreTips

\* A new block is not processed, and the parents of the others are unchanged.
LEMMA ReceiveGhost ==
  ASSUME GhostInv, DagInv', NEW h \in Hash, NEW parents \in SUBSET DOMAIN blocks,
         Receive(h, parents)
  PROVE  GhostInv'
PROOF
  <1>1. Added(h, parents) /\ DagInv
    BY AddLinks DEF Receive, GhostInv
  <1>2. Wired(blocks) /\ labels \in Labels(blocks)
    BY InvWired DEF GhostInv
  <1>3. IsFiniteSet(DOMAIN blocks')
    BY <1>1, FS_AddElement DEF Added, GhostInv
  <1>4. /\ DOMAIN labels = DOMAIN blocks
        /\ labels' = [x \in DOMAIN labels \cup {h} |-> IF x = h THEN NewLabel ELSE labels[x]]
        /\ UNCHANGED <<processed, removed>>
    BY DEF Receive, GhostInv, Labels
  <1>5. labels' \in Labels(blocks')
    <2>1. NewLabel \in FinLabel
      BY FS_EmptySet DEF NewLabel, FinLabel, Label
    <2>2. DOMAIN blocks' = DOMAIN labels \cup {h}
      BY <1>1, <1>4 DEF Added
    <2>3. \A x \in DOMAIN blocks' : IF x = h THEN NewLabel \in FinLabel ELSE labels[x] \in FinLabel
      BY <1>2, <2>1, <2>2, <1>4 DEF Labels
    <2> HIDE DEF NewLabel
    <2> QED BY <1>4, <2>2, <2>3 DEF Labels
  <1>6. ASSUME NEW x \in processed
        PROVE  /\ x \in DOMAIN blocks /\ blocks'[x].parents = blocks[x].parents
               /\ blocks[x].parents \subseteq processed
               /\ labels'[x] = labels[x] /\ \A p \in blocks[x].parents : labels'[p] = labels[p]
    <2>1. x \in DOMAIN blocks /\ x # h /\ blocks[x].parents \subseteq processed
      BY <1>1 DEF GhostInv, Added
    <2>2. \A p \in blocks[x].parents : p \in DOMAIN blocks /\ p # h
      BY <2>1, <1>1 DEF GhostInv, Added
    <2> QED BY <2>1, <2>2, <1>1, <1>4 DEF Added
  <1>7. LabelsAbove'
    <2>1. \A x \in processed : Above(blocks', labels', x)
      BY <1>6, AboveLocal DEF GhostInv, LabelsAbove
    <2> QED BY <2>1, <1>4 DEF LabelsAbove
  <1>8. LabelsCount' /\ LabelsKnown'
    <2> SUFFICES ASSUME removed = 0
                 PROVE  /\ \A x \in processed : Current(blocks', labels', x)
                        /\ Known(blocks', labels')
      BY <1>4 DEF LabelsCount, LabelsKnown
    <2>1. Known(blocks, labels) /\ \A x \in processed : Current(blocks, labels, x)
      BY DEF GhostInv, LabelsKnown, LabelsCount
    <2>2. \A y \in DOMAIN blocks : Anticone(blocks', y) \cap DOMAIN blocks = Anticone(blocks, y)
      <3>1. Wired(blocks')
        BY <1>3 DEF DagInv, DagTypeOK, LinksMirrored, Acyclic, Wired
      <3>2. Grown(blocks, blocks', h)
        BY <1>1, <1>2, <3>1 DEF Added, Grown
      <3> QED BY <3>2, AnticoneGrows
    <2>3. ASSUME NEW x \in processed PROVE Current(blocks', labels', x)
      BY <1>2, <1>6, <2>1, <2>2, CurrentLocal
    <2>4. ASSUME NEW x \in DOMAIN blocks'
          PROVE  /\ labels'[x].blue_set \subseteq DOMAIN blocks'
                 /\ labels'[x].red_set \subseteq DOMAIN blocks'
      <3>1. x \in DOMAIN labels \cup {h} /\ DOMAIN blocks \subseteq DOMAIN blocks'
        BY <1>1, <1>4 DEF Added
      <3>2. CASE x = h
        <4>1. NewLabel.blue_set = {} /\ NewLabel.red_set = {}
          BY DEF NewLabel
        <4> QED BY <1>4, <3>1, <3>2, <4>1
      <3>3. CASE x # h
        <4>1. x \in DOMAIN blocks /\ labels'[x] = labels[x]
          BY <1>4, <3>1, <3>3
        <4> QED BY <2>1, <3>1, <4>1 DEF Known
      <3> QED BY <3>2, <3>3
    <2> QED BY <2>3, <2>4 DEF Known
  <1>9. ChildlessAreTips'
    <2>1. tips' = (tips \ parents) \cup {h}
      BY DEF Receive, AddBlock, NewTips
    <2>2. ASSUME removed = 0, NEW x \in DOMAIN blocks', blocks'[x].children = {} PROVE x \in tips'
      BY <2>1, <2>2, <1>1 DEF Added, GhostInv, ChildlessAreTips
    <2> QED BY <2>2, <1>4 DEF ChildlessAreTips
  <1>10. removed' \in Nat /\ processed' \subseteq DOMAIN blocks'
    BY <1>1, <1>4 DEF GhostInv, Added
  <1>11. \A x \in processed' : blocks'[x].parents \subseteq processed'
    BY <1>4, <1>6
  <1> QED BY <1>3, <1>5, <1>7, <1>8, <1>9, <1>10, <1>11 DEF GhostInv

\* A removal cuts the block off its children; their labels stay.
LEMMA DiscardGhost ==
  ASSUME GhostInv, DagInv', NEW h \in Hash, Discard(h)
  PROVE  GhostInv'
PROOF
  <1>1. Removed(h) /\ removed' = removed + 1 /\ processed' = processed \ {h}
    BY RemoveLinks DEF Discard, GhostInv
  <1>2. labels' = [x \in DOMAIN labels \ {h} |-> labels[x]] /\ DOMAIN labels = DOMAIN blocks
    BY DEF Discard, GhostInv, Labels
  <1>3. IsFiniteSet(DOMAIN blocks')
    BY <1>1, FS_Subset DEF Removed, GhostInv
  <1>4. labels' \in Labels(blocks')
    BY <1>1, <1>2 DEF GhostInv, Labels, Removed
  <1>5. removed' \in Nat /\ removed' # 0
    BY <1>1 DEF GhostInv
  <1>6. ASSUME NEW x \in processed'
        PROVE  /\ x \in DOMAIN blocks' /\ blocks'[x].parents = blocks[x].parents \ {h}
               /\ blocks[x].parents \subseteq processed /\ x \in processed
    BY <1>1 DEF GhostInv, Removed
  <1>7. LabelsAbove'
    <2> SUFFICES ASSUME NEW x \in processed', NEW p \in blocks'[x].parents
                 PROVE  labels'[p].blue_score < labels'[x].blue_score
      BY DEF LabelsAbove, Above
    <2>1. p \in blocks[x].parents /\ p # h /\ x # h /\ x \in DOMAIN labels /\ p \in DOMAIN labels
      BY <1>1, <1>2, <1>6 DEF GhostInv, Removed
    <2>2. labels[p].blue_score < labels[x].blue_score
      BY <1>6, <2>1 DEF GhostInv, LabelsAbove, Above
    <2> QED BY <1>2, <2>1, <2>2
  <1>8. LabelsKnown' /\ LabelsCount' /\ ChildlessAreTips'
    BY <1>5 DEF LabelsKnown, LabelsCount, ChildlessAreTips
  <1>9. processed' \subseteq DOMAIN blocks' /\ \A x \in processed' : blocks'[x].parents \subseteq processed'
    BY <1>1, <1>6
  <1> QED BY <1>3, <1>4, <1>5, <1>7, <1>8, <1>9 DEF GhostInv

\* What process_block changes is settled; the rest has no parent among it.
LEMMA ProcessGhost ==
  ASSUME GhostInv, DagInv', NEW h \in Hash, ProcessBlock(h)
  PROVE  GhostInv'
PROOF
  <1>1. /\ h \in DOMAIN blocks /\ h \notin processed /\ blocks[h].parents \subseteq processed
        /\ labels' = Process(blocks, labels, h)
        /\ processed' = processed \cup {h}
        /\ UNCHANGED <<blocks, tips, removed>>
    BY DEF ProcessBlock, Pending
  <1>2. Wired(blocks) /\ labels \in Labels(blocks)
    BY InvWired DEF GhostInv
  <1>3. ASSUME NEW x \in processed'
        PROVE  /\ x \in DOMAIN blocks /\ blocks[x].parents \subseteq processed
               /\ x # h => x \in processed
               /\ h \notin blocks[x].parents
    BY <1>1 DEF GhostInv
  <1>3a. removed = 0 => Known(blocks, labels)
    BY DEF GhostInv, LabelsKnown
  <1>3b. \A y \in DOMAIN blocks : Anticone(blocks, y) \cap DOMAIN blocks = Anticone(blocks, y)
    BY DEF Anticone
  <1>4. /\ labels' \in Labels(blocks)
        /\ removed = 0 => Known(blocks, labels')
        /\ \A x \in processed' : /\ Above(blocks, labels', x)
                                 /\ removed = 0 => Current(blocks, labels', x)
    <2>1. CASE blocks[h].parents = {}
      <3>1. /\ labels' \in Labels(blocks)
            /\ \A y \in DOMAIN blocks : y # h => labels'[y] = labels[y]
            /\ Known(blocks, labels) => Known(blocks, labels')
        BY <1>1, <1>2, <2>1, ProcessGenesis
      <3>2. ASSUME NEW x \in processed'
            PROVE  Above(blocks, labels', x) /\ (removed = 0 => Current(blocks, labels', x))
        <4>1. CASE x = h
          BY <2>1, <4>1 DEF Above, Current
        <4>2. CASE x # h
          <5>1. x \in processed /\ x \in DOMAIN blocks /\ labels'[x] = labels[x]
            BY <1>3, <3>1, <4>2
          <5>2. \A p \in blocks[x].parents : p \in DOMAIN blocks /\ p # h
            BY <1>3 DEF GhostInv
          <5>3. \A p \in blocks[x].parents : labels'[p] = labels[p]
            BY <3>1, <5>2
          <5>4. Above(blocks, labels, x) /\ (removed = 0 => Current(blocks, labels, x))
            BY <5>1 DEF GhostInv, LabelsAbove, LabelsCount
          <5>5. Above(blocks, labels', x)
            BY <5>1, <5>3, <5>4, AboveLocal
          <5>6. ASSUME removed = 0 PROVE Current(blocks, labels', x)
            BY <1>2, <1>3a, <1>3b, <5>1, <5>3, <5>4, <5>6, CurrentLocal
          <5> QED BY <5>5, <5>6
        <4> QED BY <4>1, <4>2
      <3> QED BY <1>3a, <3>1, <3>2
    <2>2. CASE blocks[h].parents # {}
      <3> DEFINE A == Affected(blocks, h)
      <3>1. /\ labels' \in Labels(blocks)
            /\ \A y \in DOMAIN blocks \ A : labels'[y] = labels[y]
            /\ \A x \in A : Settled(blocks, labels', x)
            /\ Known(blocks, labels) => Known(blocks, labels')
        BY <1>1, <1>2, <2>2, ProcessFacts
      <3>2. A \in SUBSET DOMAIN blocks /\ h \in A /\ \A x \in A : blocks[x].children \subseteq A
        BY <1>1, <1>2, <2>2, AffectedFacts
      <3> HIDE DEF A
      <3>3. ASSUME NEW x \in processed'
            PROVE  Above(blocks, labels', x) /\ (removed = 0 => Current(blocks, labels', x))
        <4>1. CASE x \in A
          BY <1>2, <3>1, <3>2, <4>1, SettledFacts
        <4>2. CASE x \notin A
          <5>1. x \in processed /\ x \in DOMAIN blocks /\ labels'[x] = labels[x]
            BY <1>3, <3>1, <3>2, <4>2
          <5>2. ASSUME NEW p \in blocks[x].parents PROVE p \in DOMAIN blocks \ A
            <6>1. p \in DOMAIN blocks /\ x \in blocks[p].children
              BY <5>1, <1>2 DEF Wired
            <6> QED BY <6>1, <3>2, <4>2
          <5>3. \A p \in blocks[x].parents : labels'[p] = labels[p]
            BY <3>1, <5>2
          <5>4. Above(blocks, labels, x) /\ (removed = 0 => Current(blocks, labels, x))
            BY <5>1 DEF GhostInv, LabelsAbove, LabelsCount
          <5>5. Above(blocks, labels', x)
            BY <5>1, <5>3, <5>4, AboveLocal
          <5>6. ASSUME removed = 0 PROVE Current(blocks, labels', x)
            BY <1>2, <1>3a, <1>3b, <5>1, <5>3, <5>4, <5>6, CurrentLocal
          <5> QED BY <5>5, <5>6
        <4> QED BY <4>1, <4>2
      <3> QED BY <1>3a, <3>1, <3>3
    <2> QED BY <2>1, <2>2
  <1>5. LabelsAbove' /\ LabelsKnown' /\ LabelsCount'
    BY <1>1, <1>4 DEF LabelsAbove, LabelsKnown, LabelsCount
  <1>6. labels' \in Labels(blocks') /\ ChildlessAreTips' /\ IsFiniteSet(DOMAIN blocks')
    BY <1>1, <1>4 DEF GhostInv, ChildlessAreTips
  <1>7. processed' \subseteq DOMAIN blocks' /\ \A x \in processed' : blocks'[x].parents \subseteq processed'
    BY <1>1, <1>3
  <1>8. removed' \in Nat
    BY <1>1 DEF GhostInv
  <1> QED BY <1>5, <1>6, <1>7, <1>8 DEF GhostInv

\* Every step keeps the invariant.
LEMMA StepGhost == GhostInv /\ [Next]_vars => GhostInv'
PROOF
  <1> SUFFICES ASSUME GhostInv, [Next]_vars PROVE GhostInv'
    OBVIOUS
  <1>0. DagInv'
    BY StepDag DEF GhostInv
  <1>1. ASSUME NEW h \in Hash, NEW parents \in SUBSET DOMAIN blocks, Receive(h, parents)
        PROVE  GhostInv'
    BY <1>0, <1>1, ReceiveGhost
  <1>2. ASSUME NEW h \in Hash, ProcessBlock(h) PROVE GhostInv'
    BY <1>0, <1>2, ProcessGhost
  <1>3. ASSUME NEW h \in Removable, Discard(h) PROVE GhostInv'
    <2>1. h \in Hash
      BY ConsensusAssumption
    <2> QED BY <1>0, <1>3, <2>1, DiscardGhost
  <1>4. CASE UNCHANGED vars
    BY <1>0, <1>4 DEF vars, GhostInv, LabelsAbove, LabelsKnown, LabelsCount, ChildlessAreTips
  <1> QED BY <1>1, <1>2, <1>3, <1>4 DEF Next

\* The invariant of the labels is inductive.
LEMMA GhostInvariant == Spec => []GhostInv
PROOF
  <1> QED BY InitGhost, StepGhost, PTL DEF Spec

\* Blocks, tips and labels have their types, and a blue score is a number, after
\* any sequence of additions, removals and processing.
THEOREM TypeCorrect == Spec => []TypeOK
PROOF
  <1>1. GhostInv => TypeOK
    BY DEF GhostInv, TypeOK, DagInv, Labels, FinLabel
  <1> QED BY GhostInvariant, <1>1, PTL

\* The blue score of a parent stays below that of a processed child, whatever
\* process_block recomputes later: get_ordering never lists a block before an
\* ancestor, for every k, also when blocks were removed.
THEOREM OrderingAlwaysTopological == Spec => []OrderingTopological
PROOF
  <1>1. GhostInv => OrderingTopological
    BY DEF GhostInv, LabelsAbove, Above, OrderingTopological
  <1> QED BY GhostInvariant, <1>1, PTL

\* As long as no block was removed, whatever was added and recomputed since, what
\* process_block stored is what it would store now, but for the blocks added since
\* to the anticone of the selected parent: the selected parent, the blue and the
\* red set over the present label of that parent, and the score that counts from
\* its present score.
THEOREM LabelsAlwaysCurrent == Spec => []LabelsCurrent
PROOF
  <1>1. GhostInv => LabelsCurrent
    BY DEF GhostInv, LabelsCount, Current, Repainted, LabelsCurrent
  <1> QED BY GhostInvariant, <1>1, PTL

\* The best of all blocks has no child, as a child would be above it, so it is a
\* tip and the best of the tips.
LEMMA BestIsTip ==
  ASSUME GhostInv, removed = 0, Pending = {}, Cardinality(DOMAIN blocks) > 1
  PROVE  VirtualBlock.selected_parent = GetVirtualBlock
PROOF
  <1> DEFINE D == DOMAIN blocks
             g == GetVirtualBlock
  <1>1. /\ D \in SUBSET Nat /\ IsFiniteSet(D) /\ D \subseteq Hash
        /\ \A x \in D : labels[x] \in FinLabel /\ labels[x].blue_score \in Nat
        /\ processed = D
    BY HashAssumption DEF GhostInv, DagInv, DagTypeOK, Labels, FinLabel, Label, Pending
  <1>2. D # {}
    BY FS_EmptySet
  <1>3. Best(labels, D, g)
    <2> DEFINE P(p) == \A x \in D : \/ labels[p].blue_score > labels[x].blue_score
                                    \/ labels[p].blue_score = labels[x].blue_score /\ p <= x
    <2>1. \E p \in D : P(p)
      <3>1. \E p \in D : Best(labels, D, p)
        <4> HIDE DEF D
        <4> QED BY <1>1, <1>2, BestExists
      <3> QED BY <3>1 DEF Best, Better
    <2>2. g = CHOOSE p \in D : P(p)
      BY DEF GetVirtualBlock
    <2>3. g \in D /\ P(g)
      <3> HIDE DEF P, D, g
      <3> QED BY <2>1, <2>2
    <2> HIDE DEF g
    <2> QED BY <2>3 DEF Best, Better
  <1> HIDE DEF g
  <1>4. blocks[g].children = {}
    <2> SUFFICES ASSUME NEW c \in blocks[g].children PROVE FALSE
      OBVIOUS
    <2>1. g \in D /\ c \in D /\ g \in blocks[c].parents
      BY <1>3 DEF Best, GhostInv, DagInv, LinksMirrored
    <2>2. labels[g].blue_score < labels[c].blue_score
      BY <1>1, <2>1 DEF GhostInv, LabelsAbove, Above
    <2>3. Better(labels, g, c)
      BY <1>3, <2>1 DEF Best
    <2> QED BY <1>1, <2>1, <2>2, <2>3 DEF Better
  <1>5. g \in tips /\ tips \subseteq D
    BY <1>3, <1>4 DEF Best, GhostInv, ChildlessAreTips, DagInv, TipsAreSinks
  <1>6. Best(labels, tips, g)
    BY <1>3, <1>5 DEF Best
  <1>7. Labelled(blocks, labels, tips)
    <2>1. IsFiniteSet(tips)
      BY <1>1, <1>5, FS_Subset
    <2> QED BY <1>1, <1>5, <2>1 DEF Labelled
  <1>8. SelectParent(labels, tips) = g
    <2>1. Best(labels, tips, SelectParent(labels, tips))
      BY <1>7, ParentFacts
    <2>2. tips \in SUBSET Nat /\ \A p \in tips : labels[p].blue_score \in Nat
      BY <1>7, ParentFacts
    <2> QED BY <1>6, <2>1, <2>2, BestUnique
  <1>9. VirtualBlock = LabelOver(blocks, labels, tips)
    <2>1. Cardinality(D) \in Nat
      BY <1>1, FS_CardinalityType
    <2>2. Cardinality(D) # 1 /\ tips # {}
      BY <2>1, <1>5
    <2> QED BY <2>2 DEF VirtualBlock
  <1>10. LabelOver(blocks, labels, tips).selected_parent = SelectParent(labels, tips)
    BY <1>7, LabelFacts
  <1> QED BY <1>8, <1>9, <1>10 DEF g

\* get_virtual_block returns the selected parent of what build_virtual_block
\* builds over the tips, for every DAG whose blocks are all processed.
THEOREM VirtualBlocksAlwaysAgree == Spec => []VirtualBlocksAgree
PROOF
  <1>1. GhostInv => VirtualBlocksAgree
    BY BestIsTip DEF VirtualBlocksAgree
  <1> QED BY GhostInvariant, <1>1, PTL

\* What process_block recomputed, recompute_block would not change.
LEMMA StepSettles ==
  ASSUME GhostInv, NEW h \in Hash, ProcessBlock(h), NEW x \in Affected(blocks, h)
  PROVE  Recompute(blocks, labels', x) = labels'
PROOF
  <1>1. h \in DOMAIN blocks /\ labels' = Process(blocks, labels, h)
    BY DEF ProcessBlock, Pending
  <1>2. Wired(blocks) /\ labels \in Labels(blocks)
    BY InvWired DEF GhostInv
  <1>3. blocks[h].parents # {}
    BY DEF Affected
  <1>4. labels' \in Labels(blocks) /\ Settled(blocks, labels', x)
    BY <1>1, <1>2, <1>3, ProcessFacts
  <1>5. DOMAIN labels' = DOMAIN blocks /\ labels' = [y \in DOMAIN labels' |-> labels'[y]]
    BY <1>4 DEF Labels
  <1> QED BY <1>4, <1>5 DEF Recompute, Settled

\* The single pass of process_block in topological order is enough: it leaves no
\* block among the recomputed ones whose label would change again.
THEOREM PassAlwaysSettles == Spec => PassSettles
PROOF
  <1>1. GhostInv /\ [Next]_vars =>
          [\A h \in Hash : ProcessBlock(h) =>
             \A x \in Affected(blocks, h) : Recompute(blocks, labels', x) = labels']_vars
    BY StepSettles
  <1> QED BY GhostInvariant, <1>1, PTL DEF Spec, PassSettles

\* The children and the tips of a DAG that follow from the parents of its blocks.
Determined(b, ts) ==
  /\ b \in [DOMAIN b -> Node]
  /\ \A h \in DOMAIN b : b[h].children = {c \in DOMAIN b : h \in b[c].parents}
  /\ ts = {h \in DOMAIN b : \A c \in DOMAIN b : h \notin b[c].parents}

\* add_block (dag/mod.rs) keeps no trace of the order in which blocks arrive: as long as none
\* is removed, children and tips follow from the parents.
THEOREM DagAlwaysDetermined == Spec => [](removed = 0 => Determined(blocks, tips))
<1>1. ASSUME GhostInv, removed = 0 PROVE Determined(blocks, tips)
  <2>1. /\ blocks \in [DOMAIN blocks -> Node] /\ LinksMirrored /\ TipsAreSinks /\ ChildlessAreTips
    BY <1>1 DEF GhostInv, DagInv, DagTypeOK
  <2>2. \A h \in DOMAIN blocks : blocks[h].children = {c \in DOMAIN blocks : h \in blocks[c].parents}
    BY <2>1 DEF LinksMirrored
  <2>3. tips = {h \in DOMAIN blocks : blocks[h].children = {}}
    BY <1>1, <2>1 DEF TipsAreSinks, ChildlessAreTips
  <2>4. tips = {h \in DOMAIN blocks : \A c \in DOMAIN blocks : h \notin blocks[c].parents}
    BY <2>2, <2>3
  <2> QED BY <2>1, <2>2, <2>4 DEF Determined
<1>2. GhostInv => (removed = 0 => Determined(blocks, tips))
  BY <1>1
<1> QED BY <1>2, GhostInvariant, PTL

\* Two nodes that store the same blocks with the same parents store the same
\* DAG, links and tips, whatever the order in which each of them received them.
THEOREM NodesAgreeOnDag ==
  ASSUME NEW b, NEW ts, NEW d, NEW us, Determined(b, ts), Determined(d, us),
         DOMAIN b = DOMAIN d, \A h \in DOMAIN b : b[h].parents = d[h].parents
  PROVE  b = d /\ ts = us
<1>1. ASSUME NEW h \in DOMAIN b PROVE b[h] = d[h]
  <2>1. b[h] \in Node /\ d[h] \in Node
    BY DEF Determined
  <2>2. /\ b[h].children = {x \in DOMAIN b : h \in b[x].parents}
        /\ d[h].children = {x \in DOMAIN d : h \in d[x].parents}
    BY DEF Determined
  <2>3. {x \in DOMAIN b : h \in b[x].parents} = {x \in DOMAIN d : h \in d[x].parents}
    OBVIOUS
  <2>4. b[h].parents = d[h].parents /\ b[h].children = d[h].children
    BY <2>2, <2>3
  <2> QED BY <2>1, <2>4 DEF Node
<1>2. b = d
  <2>1. b = [h \in DOMAIN b |-> b[h]] /\ d = [h \in DOMAIN d |-> d[h]]
    BY DEF Determined
  <2>2. [h \in DOMAIN b |-> b[h]] = [h \in DOMAIN d |-> d[h]]
    BY <1>1
  <2> QED BY <2>1, <2>2
<1> QED BY <1>2 DEF Determined
=============================================================================
