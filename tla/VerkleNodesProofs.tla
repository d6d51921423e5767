-------------------------- MODULE VerkleNodesProofs --------------------------
(***************************************************************************)
(* Lemmas about the node storage: what insert, prune_key and new return,   *)
(* and which leaves the root binds after them.  Cited by the proofs about  *)
(* the tree and about the state manager.                                   *)
(***************************************************************************)
EXTENDS VerkleNodes, SequenceTheorems, WellFoundedInduction, TLAPS

\* A key is a full path, and every path is a sequence of bytes.
LEMMA PathFacts ==
  /\ <<>> \in Path
  /\ Key \subseteq Path
  /\ \A p \in Path : p \in Seq(Byte) /\ Len(p) \in 0..KeySize /\ DOMAIN p = 1..Len(p)
  /\ \A k \in Key : k \in Seq(Byte) /\ Len(k) = KeySize
PROOF
  <1>0. KeySize \in Nat \ {0}
    BY KeySizeAssumption
  <1>1. <<>> \in Path
    <2>1. <<>> \in [1..0 -> Byte]
      OBVIOUS
    <2> QED BY <2>1, <1>0 DEF Path
  <1>2. Key \subseteq Path
    BY <1>0 DEF Key, Path
  <1>3. \A p \in Path : p \in Seq(Byte) /\ Len(p) \in 0..KeySize /\ DOMAIN p = 1..Len(p)
    BY <1>0 DEF Path
  <1>4. \A k \in Key : k \in Seq(Byte) /\ Len(k) = KeySize
    BY <1>0 DEF Key
  <1> QED BY <1>1, <1>2, <1>3, <1>4

-----------------------------------------------------------------------------
(* Paths and their prefixes. *)

\* The order of the naturals, as the well-foundedness theorem of the library wants it.
LEMMA NatOrder == OpToRel(<, Nat) = {ss \in Nat \X Nat : ss[1] < ss[2]}
PROOF
  BY DEF OpToRel

\* A nonempty set of naturals has a least element.
LEMMA LeastNat ==
  ASSUME NEW T \in SUBSET Nat, T # {}
  PROVE  \E x \in T : \A y \in T : x <= y
PROOF
  <1> DEFINE R == {ss \in Nat \X Nat : ss[1] < ss[2]}
  <1>1. IsWellFoundedOn(R, Nat)
    BY NatLessThanWellFounded, NatOrder
  <1>2. PICK x \in T : \A y \in T : ~ (<<y, x>> \in R)
    <2> HIDE DEF R
    <2> QED BY <1>1, WFMin
  <1>3. ASSUME NEW y \in T, y < x PROVE FALSE
    <2>1. x \in Nat /\ y \in Nat
      OBVIOUS
    <2>2. <<y, x>> \in R
      BY <2>1, <1>3
    <2> QED BY <1>2, <2>2
  <1> QED BY <1>3

\* What IsPrefix says of two paths, byte by byte.
LEMMA PrefixMeaning ==
  ASSUME NEW p \in Path, NEW q \in Path
  PROVE  /\ IsPrefix(p, q) <=> Len(p) <= Len(q) /\ \A i \in 1..Len(p) : p[i] = q[i]
         /\ IsPrefix(p, q) /\ Len(p) = Len(q) => p = q
         /\ IsStrictPrefix(p, q) <=> IsPrefix(p, q) /\ Len(p) < Len(q)
PROOF
  <1>1. p \in Seq(Byte) /\ q \in Seq(Byte)
    BY PathFacts
  <1>2. IsPrefix(p, q) <=> Len(p) <= Len(q) /\ \A i \in 1..Len(p) : p[i] = q[i]
    BY <1>1 DEF IsPrefix
  <1>3. IsPrefix(p, q) /\ Len(p) = Len(q) => p = q
    BY <1>1, <1>2
  <1>4. IsStrictPrefix(p, q) <=> IsPrefix(p, q) /\ Len(p) < Len(q)
    BY <1>1, <1>2, <1>3 DEF IsStrictPrefix
  <1> QED BY <1>2, <1>3, <1>4

\* Being a prefix is reflexive and transitive, and bounds the length.
LEMMA PrefixOrder ==
  ASSUME NEW p \in Path, NEW q \in Path, NEW r \in Path
  PROVE  /\ IsPrefix(p, p)
         /\ IsPrefix(<<>>, p)
         /\ IsPrefix(p, q) /\ IsPrefix(q, r) => IsPrefix(p, r)
         /\ IsPrefix(p, r) /\ IsPrefix(q, r) => IsPrefix(p, q) \/ IsPrefix(q, p)
         /\ IsPrefix(p, r) /\ IsPrefix(q, r) /\ Len(p) <= Len(q) => IsPrefix(p, q)
PROOF
  <1>1. p \in Seq(Byte) /\ q \in Seq(Byte) /\ r \in Seq(Byte) /\ <<>> \in Path
    BY PathFacts
  <1>2. IsPrefix(p, p)
    BY <1>1, PrefixMeaning
  <1>3. IsPrefix(<<>>, p)
    BY <1>1, PrefixMeaning
  <1>4. IsPrefix(p, q) /\ IsPrefix(q, r) => IsPrefix(p, r)
    BY <1>1, PrefixMeaning
  <1>5. IsPrefix(p, r) /\ IsPrefix(q, r) /\ Len(p) <= Len(q) => IsPrefix(p, q)
    BY <1>1, PrefixMeaning
  <1>6. IsPrefix(p, r) /\ IsPrefix(q, r) => IsPrefix(p, q) \/ IsPrefix(q, p)
    BY <1>1, PrefixMeaning
  <1> QED BY <1>2, <1>3, <1>4, <1>5, <1>6

\* The prefix of a path at a depth.
LEMMA PrefixAt ==
  ASSUME NEW q \in Path, NEW d \in 0..Len(q)
  PROVE  /\ SubSeq(q, 1, d) \in [1..d -> Byte]
         /\ SubSeq(q, 1, d) \in Path
         /\ Len(SubSeq(q, 1, d)) = d
         /\ IsPrefix(SubSeq(q, 1, d), q)
         /\ \A i \in 1..d : SubSeq(q, 1, d)[i] = q[i]
PROOF
  <1>0. KeySize \in Nat /\ d \in Nat /\ d <= Len(q) /\ Len(q) \in Nat /\ Len(q) <= KeySize
    BY PathFacts, KeySizeAssumption
  <1>1. q \in Seq(Byte)
    BY PathFacts
  <1>2. SubSeq(q, 1, d) \in Seq(Byte) /\ Len(SubSeq(q, 1, d)) = d
    BY <1>0, <1>1, SubSeqProperties
  <1>3. \A i \in 1..d : SubSeq(q, 1, d)[i] = q[i]
    BY <1>0, <1>1, SubSeqProperties
  <1>4. SubSeq(q, 1, d) \in [1..d -> Byte]
    BY <1>2, LenProperties
  <1>5. SubSeq(q, 1, d) \in Path
    BY <1>0, <1>4 DEF Path
  <1>6. IsPrefix(SubSeq(q, 1, d), q)
    BY <1>0, <1>2, <1>3, <1>5, PrefixMeaning
  <1> QED BY <1>2, <1>3, <1>4, <1>5, <1>6

\* Every prefix is a prefix at a depth.
LEMMA PrefixIsAt ==
  ASSUME NEW p \in Path, NEW q \in Path, IsPrefix(p, q)
  PROVE  Len(p) \in 0..Len(q) /\ p = SubSeq(q, 1, Len(p))
PROOF
  <1>1. Len(p) \in 0..Len(q)
    BY PathFacts, PrefixMeaning
  <1>2. PICK a \in Path : /\ a = SubSeq(q, 1, Len(p))
                          /\ Len(a) = Len(p)
                          /\ IsPrefix(a, q)
    BY <1>1, PrefixAt
  <1>3. Len(p) <= Len(a)
    BY <1>1, <1>2
  <1>4. IsPrefix(p, a)
    BY <1>2, <1>3, PrefixOrder
  <1>5. p = a
    BY <1>2, <1>4, PrefixMeaning, ZenonT(30)
  <1> QED BY <1>1, <1>2, <1>5

\* Where a path leaves a key: the depth of the last common prefix.
LEMMA Divergence ==
  ASSUME NEW q \in Path, NEW k \in Key, ~IsPrefix(q, k)
  PROVE  \E d \in 0..Len(q) - 1 :
           /\ d \in 0..KeySize - 1
           /\ SubSeq(q, 1, d) = SubSeq(k, 1, d)
           /\ ~IsPrefix(SubSeq(q, 1, d + 1), k)
PROOF
  <1>0. /\ KeySize \in Nat \ {0} /\ k \in Path /\ Len(k) = KeySize
        /\ Len(q) \in Nat /\ Len(q) <= KeySize
    BY PathFacts, KeySizeAssumption
  <1> DEFINE T == {i \in 1..Len(q) : q[i] # k[i]}
  <1>1. T # {} /\ T \in SUBSET Nat
    BY <1>0, PrefixMeaning
  <1>2. PICK i \in T : \A j \in T : i <= j
    BY <1>1, LeastNat
  <1>3. /\ i \in 1..Len(q) /\ i \in Nat /\ i - 1 \in 0..Len(q) - 1 /\ i - 1 \in 0..KeySize - 1
        /\ i - 1 \in 0..Len(q) /\ i - 1 \in 0..Len(k) /\ i \in 0..Len(q) /\ (i - 1) + 1 = i
    BY <1>0, <1>2
  <1>4. \A j \in 1..i - 1 : q[j] = k[j]
    BY <1>0, <1>2
  <1> HIDE DEF T
  <1>5. PICK a \in Path : /\ a = SubSeq(q, 1, i - 1) /\ Len(a) = i - 1
                          /\ \A j \in 1..i - 1 : a[j] = q[j]
    BY <1>3, PrefixAt
  <1>6. PICK b \in Path : /\ b = SubSeq(k, 1, i - 1) /\ Len(b) = i - 1
                          /\ \A j \in 1..i - 1 : b[j] = k[j]
    BY <1>0, <1>3, PrefixAt
  <1>7. a = b
    <2>1. Len(a) <= Len(b) /\ \A j \in 1..Len(a) : a[j] = b[j]
      BY <1>3, <1>4, <1>5, <1>6
    <2>2. IsPrefix(a, b) /\ Len(a) = Len(b)
      BY <1>5, <1>6, <2>1, PrefixMeaning
    <2> QED BY <2>2, PrefixMeaning
  <1>8. PICK c \in Path : /\ c = SubSeq(q, 1, i) /\ Len(c) = i
                          /\ \A j \in 1..i : c[j] = q[j]
    BY <1>3, PrefixAt
  <1>9. c[i] = q[i] /\ q[i] # k[i] /\ i \in 1..i
    BY <1>2, <1>3, <1>8 DEF T
  <1>10. ~IsPrefix(c, k)
    <2>1. SUFFICES ASSUME IsPrefix(c, k) PROVE FALSE
      OBVIOUS
    <2>2. \A j \in 1..Len(c) : c[j] = k[j]
      BY <1>0, <2>1, PrefixMeaning
    <2> QED BY <1>8, <1>9, <2>2
  <1> QED BY <1>3, <1>5, <1>6, <1>7, <1>8, <1>10

-----------------------------------------------------------------------------
(* What the operations return. *)

\* What insert writes is again a storage.
LEMMA InsertAllType ==
  ASSUME NEW nodes \in Storage, NEW updates, DOMAIN updates \subseteq Key,
         \A k \in DOMAIN updates : updates[k] \in Value
  PROVE  InsertAll(nodes, updates) \in Storage
PROOF
  BY DEF InsertAll, Storage

\* Writing one leaf keeps a storage a storage.
LEMMA InsertLeafType ==
  ASSUME NEW nodes \in Storage, NEW k \in Key, NEW v \in Value
  PROVE  InsertLeaf(nodes, k, v) \in Storage
PROOF
  BY InsertAllType DEF InsertLeaf

\* The batch that apply_state_transition writes.
LEMMA WithSupplyType ==
  ASSUME NEW updates, DOMAIN updates \subseteq Key,
         \A k \in DOMAIN updates : updates[k] \in Data, NEW n \in Nat
  PROVE  /\ DOMAIN WithSupply(updates, n) = DOMAIN updates \cup {TotalSupplyKey}
         /\ DOMAIN WithSupply(updates, n) \subseteq Key
         /\ \A k \in DOMAIN WithSupply(updates, n) : WithSupply(updates, n)[k] \in Value
         /\ WithSupply(updates, n)[TotalSupplyKey] = SupplyBytes(n)
PROOF
  BY SupplyAssumption DEF WithSupply, Value, SupplyBytes

\* The storage of a new tree is a storage and holds the root node.
LEMMA EmptyStorageType == EmptyStorage \in Storage /\ NodeExists(EmptyStorage, <<>>)
PROOF
  BY PathFacts, SentinelAssumption DEF EmptyStorage, Storage, NodeExists

\* Creating the root node keeps a storage a storage.
LEMMA EnsureRootType ==
  ASSUME NEW nodes \in Storage
  PROVE  EnsureRoot(nodes) \in Storage /\ NodeExists(EnsureRoot(nodes), <<>>)
PROOF
  BY PathFacts, SentinelAssumption DEF EnsureRoot, Storage, NodeExists

\* prune_key deletes paths of the tree, never the root.
LEMMA PrunedPathsType ==
  ASSUME NEW nodes, NEW pruned, NEW k \in Key
  PROVE  PrunedPaths(nodes, pruned, k) \subseteq Path \ {<<>>}
PROOF
  <1>0. KeySize \in Nat \ {0}
    BY KeySizeAssumption
  <1>1. k \in Path \ {<<>>}
    BY <1>0, PathFacts
  <1>2. ASSUME NEW d \in 1..KeySize - 1
        PROVE  SubSeq(k, 1, d) \in Path \ {<<>>}
    <2>0. d \in Nat \ {0} /\ d < KeySize
      BY <1>0, <1>2
    <2>1. k \in Seq(Byte) /\ Len(k) = KeySize
      BY PathFacts
    <2>2. SubSeq(k, 1, d) \in Seq(Byte) /\ Len(SubSeq(k, 1, d)) = d
      BY <1>0, <2>0, <2>1, SubSeqProperties
    <2>3. SubSeq(k, 1, d) \in [1..d -> Byte]
      BY <2>0, <2>2, LenProperties, ElementOfSeq
    <2>4. d \in 0..KeySize
      BY <1>0, <2>0
    <2>5. SubSeq(k, 1, d) \in Path
      BY <2>3, <2>4 DEF Path
    <2>6. SubSeq(k, 1, d) # <<>>
      BY <2>0, <2>2
    <2> QED BY <2>5, <2>6
  <1> QED BY <1>1, <1>2 DEF PrunedPaths

\* Deleting the pruned paths keeps a storage a storage, and its root node.
LEMMA PruneLeafType ==
  ASSUME NEW nodes \in Storage, NEW pruned, NEW k \in Key
  PROVE  /\ PruneLeaf(nodes, pruned, k) \in Storage
         /\ PruneLeaf(nodes, pruned, k)[<<>>] = nodes[<<>>]
PROOF
  BY PrunedPathsType, PathFacts DEF PruneLeaf, Storage

\* A root binds pairs of a key and a value.
LEMMA RootOfType ==
  ASSUME NEW nodes \in Storage
  PROVE  RootOf(nodes) \subseteq Key \X Value
PROOF
  BY PathFacts DEF RootOf, Commitment, HasValue, Storage

\* Whatever insert writes, the root binds afterwards.
LEMMA InsertedCommitted ==
  ASSUME NEW nodes \in Storage, NEW updates, DOMAIN updates \subseteq Key,
         \A x \in DOMAIN updates : updates[x] \in Value, NEW k \in DOMAIN updates
  PROVE  <<k, updates[k]>> \in RootOf(InsertAll(nodes, updates))
PROOF
  <1> DEFINE after == InsertAll(nodes, updates)
  <1>1. after[k] = updates[k] /\ HasValue(after, k)
    BY PathFacts, SentinelAssumption DEF InsertAll, HasValue
  <1>2. ASSUME NEW r \in Path, IsPrefix(r, k)
        PROVE  NodeExists(after, r)
    BY <1>2, SentinelAssumption DEF InsertAll, NodeExists
  <1>3. IsPrefix(<<>>, k)
    BY PathFacts DEF IsPrefix
  <1>4. Connected(after, <<>>, k)
    BY <1>2 DEF Connected
  <1> QED BY <1>1, <1>3, <1>4 DEF RootOf, Commitment

\* A prune only takes leaves away from what the root binds.
LEMMA PruneShrinksRoot ==
  ASSUME NEW nodes \in Storage, NEW pruned, NEW k \in Key
  PROVE  RootOf(PruneLeaf(nodes, pruned, k)) \subseteq RootOf(nodes)
PROOF
  <1> DEFINE after == PruneLeaf(nodes, pruned, k)
  <1>1. \A p \in Path : after[p] = nodes[p] \/ after[p] = Absent
    BY DEF PruneLeaf
  <1>2. ASSUME NEW x \in Key, HasValue(after, x)
        PROVE  HasValue(nodes, x) /\ after[x] = nodes[x]
    BY <1>1, <1>2, PathFacts DEF HasValue
  <1>3. ASSUME NEW x \in Key, Connected(after, <<>>, x)
        PROVE  Connected(nodes, <<>>, x)
    BY <1>1, <1>3 DEF Connected, NodeExists
  <1> QED BY <1>2, <1>3 DEF RootOf, Commitment

\* Opening a tree on a storage does not change what the root binds.
LEMMA EnsureRootSameRoot ==
  ASSUME NEW nodes \in Storage
  PROVE  RootOf(EnsureRoot(nodes)) = RootOf(nodes)
PROOF
  <1> DEFINE after == EnsureRoot(nodes)
  <1>0. KeySize \in Nat \ {0} /\ <<>> \notin Key
    BY KeySizeAssumption, PathFacts
  <1>1. \A p \in Path \ {<<>>} : after[p] = nodes[p]
    BY DEF EnsureRoot, Storage
  <1>2. \A x \in Key : HasValue(after, x) <=> HasValue(nodes, x)
    BY <1>0, <1>1, PathFacts DEF HasValue
  <1>3. \A x \in Key : Connected(after, <<>>, x) <=> Connected(nodes, <<>>, x)
    BY <1>1 DEF Connected, NodeExists, IsStrictPrefix
  <1> QED BY <1>0, <1>1, <1>2, <1>3, PathFacts DEF RootOf, Commitment

\* The empty storage binds nothing.
LEMMA EmptyRoot == RootOf(EmptyStorage) = {}
PROOF
  <1>1. ASSUME NEW k \in Key PROVE ~HasValue(EmptyStorage, k)
    BY PathFacts, KeySizeAssumption, SentinelAssumption DEF EmptyStorage, HasValue
  <1> QED BY <1>1 DEF RootOf, Commitment

-----------------------------------------------------------------------------
(* The leaves and the nodes above them. *)

\* A write sets the leaves of its batch and no other leaf.
LEMMA LeafAfterWrite ==
  ASSUME NEW nodes \in Storage, NEW updates, DOMAIN updates \subseteq Key, NEW x \in Key
  PROVE  InsertAll(nodes, updates)[x] = IF x \in DOMAIN updates THEN updates[x] ELSE nodes[x]
PROOF
  <1>1. x \in Path /\ x # <<>>
    BY PathFacts, KeySizeAssumption
  <1>2. ASSUME NEW k \in DOMAIN updates, IsPrefix(x, k) PROVE x = k
    <2>1. k \in Key /\ k \in Path /\ Len(x) = Len(k)
      BY PathFacts
    <2> QED BY <1>1, <1>2, <2>1, PrefixMeaning
  <1> QED BY <1>1, <1>2 DEF InsertAll

\* What prune_key deletes lies on the way to the key.
LEMMA PrunedPathsOnWay ==
  ASSUME NEW nodes, NEW pruned, NEW k \in Key, NEW p \in PrunedPaths(nodes, pruned, k)
  PROVE  IsPrefix(p, k)
PROOF
  <1>0. k \in Path /\ Len(k) = KeySize /\ KeySize \in Nat \ {0}
    BY PathFacts, KeySizeAssumption
  <1>1. CASE p = k
    BY <1>0, <1>1, PrefixOrder
  <1>2. CASE p # k
    <2>1. PICK d \in 1..KeySize - 1 : p = SubSeq(k, 1, d)
      BY <1>2 DEF PrunedPaths
    <2>2. d \in 0..Len(k)
      BY <1>0, <2>1
    <2> QED BY <1>0, <2>1, <2>2, PrefixAt
  <1> QED BY <1>1, <1>2

\* A prune deletes and marks its own leaf and no other.
LEMMA LeafAfterPrune ==
  ASSUME NEW nodes \in Storage, NEW pruned, NEW k \in Key, NEW x \in Key, x # k
  PROVE  /\ x \notin PrunedPaths(nodes, pruned, k)
         /\ PruneLeaf(nodes, pruned, k)[x] = nodes[x]
PROOF
  <1>1. x \in Path /\ k \in Path /\ Len(x) = Len(k)
    BY PathFacts
  <1>2. x \notin PrunedPaths(nodes, pruned, k)
    BY <1>1, PrunedPathsOnWay, PrefixMeaning
  <1> QED BY <1>1, <1>2 DEF PruneLeaf

\* When the cleanup deletes a node p but not a stored node q below it, the way
\* from p to q leaves the key at a child that has_children did not count: it is
\* missing, or it is marked pruned.
LEMMA CleanupPassesOver ==
  ASSUME NEW nodes \in Storage, NEW pruned, NEW k \in Key,
         NEW p \in PrunedPaths(nodes, pruned, k), NEW q \in Path, IsPrefix(p, q),
         q \notin PrunedPaths(nodes, pruned, k)
  PROVE  \E c \in Path \ {<<>>} :
           /\ IsPrefix(p, c) /\ IsPrefix(c, q) /\ ~IsPrefix(c, k)
           /\ NodeExists(nodes, c) => c \in pruned
PROOF
  <1> DEFINE cut == PrunedPaths(nodes, pruned, k)
  <1>0. /\ KeySize \in Nat \ {0} /\ k \in Path /\ Len(k) = KeySize
        /\ p \in Path /\ IsPrefix(p, k) /\ Len(q) \in Nat /\ Len(q) <= KeySize
    BY PathFacts, KeySizeAssumption, PrunedPathsType, PrunedPathsOnWay
  <1>1. p # k
    <2>1. SUFFICES ASSUME p = k PROVE FALSE
      OBVIOUS
    <2>2. Len(q) = KeySize
      BY <1>0, <2>1, PrefixMeaning
    <2>3. q = p
      BY <1>0, <2>1, <2>2, PrefixMeaning
    <2> QED BY <2>3
  <1>2. PICK e \in 1..KeySize - 1 : /\ p = SubSeq(k, 1, e)
                                    /\ \A f \in e..KeySize - 1 :
                                         ~HasOtherChildren(nodes, pruned, k, f)
    BY <1>1 DEF PrunedPaths
  <1>3. e \in Nat /\ e <= KeySize - 1 /\ e \in 0..Len(k)
    BY <1>0, <1>2
  <1>4. Len(p) = e /\ e <= Len(q)
    <2>1. Len(p) = e
      BY <1>0, <1>2, <1>3, PrefixAt
    <2> QED BY <1>0, <2>1, PrefixMeaning
  <1>5. ~IsPrefix(q, k)
    <2>1. SUFFICES ASSUME IsPrefix(q, k) PROVE q \in cut
      OBVIOUS
    <2>2. q = SubSeq(k, 1, Len(q))
      BY <1>0, <2>1, PrefixIsAt
    <2>3. CASE Len(q) = KeySize
      <3>1. q = k
        BY <1>0, <2>1, <2>3, PrefixMeaning
      <3> QED BY <3>1 DEF PrunedPaths
    <2>4. CASE Len(q) # KeySize
      <3>1. Len(q) \in 1..KeySize - 1 /\ \A f \in Len(q)..KeySize - 1 : f \in e..KeySize - 1
        BY <1>0, <1>2, <1>3, <1>4, <2>4
      <3> QED BY <1>2, <2>2, <3>1 DEF PrunedPaths
    <2> QED BY <2>3, <2>4
  <1>6. PICK d \in 0..Len(q) - 1 : /\ d \in 0..KeySize - 1
                                   /\ SubSeq(q, 1, d) = SubSeq(k, 1, d)
                                   /\ ~IsPrefix(SubSeq(q, 1, d + 1), k)
    BY <1>5, Divergence
  <1>7. d \in Nat /\ d + 1 \in 0..Len(q) /\ d \in 0..Len(q)
    BY <1>0, <1>6
  <1>8. PICK c \in Path : /\ c = SubSeq(q, 1, d + 1) /\ Len(c) = d + 1 /\ IsPrefix(c, q)
                          /\ c \in [1..d + 1 -> Byte]
    BY <1>7, PrefixAt
  <1>9. d >= e
    <2>1. SUFFICES ASSUME d < e PROVE FALSE
      BY <1>3, <1>7
    <2>2. Len(c) <= Len(p)
      BY <1>3, <1>4, <1>7, <1>8, <2>1
    <2>3. IsPrefix(c, p)
      BY <1>0, <1>8, <2>2, PrefixOrder
    <2> QED BY <1>0, <1>6, <1>8, <2>3, PrefixOrder
  <1>10. ~HasOtherChildren(nodes, pruned, k, d)
    BY <1>2, <1>3, <1>6, <1>7, <1>9
  <1>11. IsPrefix(SubSeq(k, 1, d), c)
    <2>1. PICK a \in Path : a = SubSeq(q, 1, d) /\ Len(a) = d /\ IsPrefix(a, q)
      BY <1>7, PrefixAt
    <2>2. Len(a) <= Len(c) /\ IsPrefix(a, q) /\ IsPrefix(c, q)
      BY <1>7, <1>8, <2>1
    <2>3. IsPrefix(a, c)
      BY <2>2, PrefixOrder
    <2> QED BY <1>6, <2>1, <2>3
  <1>12. NodeExists(nodes, c) => c \in pruned
    BY <1>6, <1>8, <1>10, <1>11 DEF HasOtherChildren
  <1>13. IsPrefix(p, c) /\ c # <<>>
    <2>1. Len(p) <= Len(c) /\ Len(c) # 0
      BY <1>3, <1>4, <1>7, <1>8, <1>9
    <2>2. IsPrefix(p, c)
      <3>1. p \in Path /\ c \in Path /\ q \in Path /\ IsPrefix(p, q) /\ IsPrefix(c, q)
        BY <1>0, <1>8
      <3> QED BY <2>1, <3>1, PrefixOrder
    <2>3. c # <<>>
      <3>1. Len(<<>>) = 0
        OBVIOUS
      <3> QED BY <2>1, <3>1, Zenon
    <2> QED BY <2>2, <2>3
  <1> QED BY <1>6, <1>8, <1>12, <1>13

\* Wherever a node is missing above a stored one, a path between the two is
\* marked pruned and stored again.
CutsMarked(nodes, pruned) ==
  \A p, q \in Path :
    p # <<>> /\ IsPrefix(p, q) /\ NodeExists(nodes, q) /\ ~NodeExists(nodes, p)
      => \E r \in pruned : IsPrefix(p, r) /\ IsPrefix(r, q) /\ NodeExists(nodes, r)

\* A new storage has no node below the root.
LEMMA EmptyCuts ==
  ASSUME NEW pruned
  PROVE  CutsMarked(EmptyStorage, pruned)
PROOF
  <1>1. \A q \in Path : NodeExists(EmptyStorage, q) => q = <<>>
    BY DEF EmptyStorage, NodeExists
  <1>2. \A p \in Path : IsPrefix(p, <<>>) => p = <<>>
    BY PathFacts, PrefixMeaning, PrefixOrder
  <1> QED BY <1>1, <1>2 DEF CutsMarked

\* A write creates every node above the leaves it writes, so it cuts off none.
LEMMA WriteKeepsCuts ==
  ASSUME NEW nodes \in Storage, NEW pruned, CutsMarked(nodes, pruned), pruned \subseteq Path,
         NEW updates, DOMAIN updates \subseteq Key,
         \A x \in DOMAIN updates : updates[x] \in Value
  PROVE  CutsMarked(InsertAll(nodes, updates), pruned)
PROOF
  <1> DEFINE after == InsertAll(nodes, updates)
             touched(p) == \E k \in DOMAIN updates : IsPrefix(p, k)
  <1>1. \A p \in Path \ {<<>>} : NodeExists(after, p) <=> touched(p) \/ NodeExists(nodes, p)
    <2> TAKE p \in Path \ {<<>>}
    <2>0. \A k \in DOMAIN updates : IsPrefix(k, k)
      BY PathFacts, PrefixOrder
    <2>1. CASE p \in DOMAIN updates
      BY <2>0, <2>1, SentinelAssumption DEF InsertAll, NodeExists
    <2>2. CASE p \notin DOMAIN updates
      BY <2>0, <2>2, SentinelAssumption DEF InsertAll, NodeExists
    <2> QED BY <2>1, <2>2
  <1> HIDE DEF after
  <1>2. ASSUME NEW p \in Path, NEW q \in Path, p # <<>>, IsPrefix(p, q),
               NodeExists(after, q), ~NodeExists(after, p)
        PROVE  \E r \in pruned : IsPrefix(p, r) /\ IsPrefix(r, q) /\ NodeExists(after, r)
    <2>1. q # <<>>
      <3>1. Len(p) # 0 /\ Len(p) <= Len(q) /\ Len(p) \in Nat
        BY <1>2, PathFacts, PrefixMeaning, EmptySeq
      <3> QED BY <3>1
    <2>2. ~touched(p) /\ ~NodeExists(nodes, p)
      BY <1>1, <1>2
    <2>3. ~touched(q)
      BY <1>2, <2>2, PathFacts, PrefixOrder
    <2>4. NodeExists(nodes, q)
      BY <1>1, <1>2, <2>1, <2>3
    <2>5. PICK r \in pruned : IsPrefix(p, r) /\ IsPrefix(r, q) /\ NodeExists(nodes, r)
      BY <1>2, <2>2, <2>4 DEF CutsMarked
    <2>6. r \in Path /\ r # <<>>
      <3>1. Len(p) # 0 /\ Len(p) <= Len(r) /\ Len(p) \in Nat
        BY <1>2, <2>5, PathFacts, PrefixMeaning, EmptySeq
      <3> QED BY <3>1
    <2> QED BY <1>1, <2>5, <2>6
  <1>3. CutsMarked(after, pruned)
    BY <1>2 DEF CutsMarked
  <1> QED BY <1>3 DEF after

\* A prune cuts a stored node off only at a path that was marked and stored again.
LEMMA PruneKeepsCuts ==
  ASSUME NEW nodes \in Storage, NEW pruned, CutsMarked(nodes, pruned), pruned \subseteq Path,
         NEW k \in Key
  PROVE  CutsMarked(PruneLeaf(nodes, pruned, k), pruned \cup PrunedPaths(nodes, pruned, k))
PROOF
  <1> DEFINE cut   == PrunedPaths(nodes, pruned, k)
             after == PruneLeaf(nodes, pruned, k)
  <1>0. k \in Path /\ cut \subseteq Path \ {<<>>} /\ \A p \in cut : IsPrefix(p, k)
    BY PathFacts, PrunedPathsType, PrunedPathsOnWay
  <1>1. \A p \in Path : NodeExists(after, p) <=> NodeExists(nodes, p) /\ p \notin cut
    BY DEF PruneLeaf, NodeExists
  <1>2. ASSUME NEW p \in cut, NEW q \in Path, IsPrefix(p, q), NodeExists(nodes, q), q \notin cut
        PROVE  \E r \in pruned : IsPrefix(p, r) /\ IsPrefix(r, q) /\ NodeExists(after, r)
    <2>1. PICK c \in Path \ {<<>>} :
            /\ IsPrefix(p, c) /\ IsPrefix(c, q) /\ ~IsPrefix(c, k)
            /\ NodeExists(nodes, c) => c \in pruned
      BY <1>2, CleanupPassesOver
    <2>2. CASE NodeExists(nodes, c)
      BY <1>0, <1>1, <2>1, <2>2
    <2>3. CASE ~NodeExists(nodes, c)
      <3>1. PICK r \in pruned : IsPrefix(c, r) /\ IsPrefix(r, q) /\ NodeExists(nodes, r)
        BY <1>2, <2>1, <2>3 DEF CutsMarked
      <3>2. p \in Path /\ r \in Path
        BY <1>0
      <3>3. IsPrefix(p, r)
        BY <2>1, <3>1, <3>2, PrefixOrder
      <3>4. r \notin cut
        BY <1>0, <2>1, <3>1, <3>2, PrefixOrder
      <3> QED BY <1>1, <3>1, <3>2, <3>3, <3>4
    <2> QED BY <2>2, <2>3
  <1> HIDE DEF cut, after
  <1>3. ASSUME NEW p \in Path, NEW q \in Path, p # <<>>, IsPrefix(p, q),
               NodeExists(after, q), ~NodeExists(after, p)
        PROVE  \E r \in pruned : IsPrefix(p, r) /\ IsPrefix(r, q) /\ NodeExists(after, r)
    <2>1. NodeExists(nodes, q) /\ q \notin cut
      BY <1>1, <1>3
    <2>2. CASE p \in cut
      BY <1>2, <1>3, <2>1, <2>2
    <2>3. CASE p \notin cut
      <3>1. PICK r \in pruned : IsPrefix(p, r) /\ IsPrefix(r, q) /\ NodeExists(nodes, r)
        BY <1>1, <1>3, <2>1, <2>3 DEF CutsMarked
      <3>2. CASE r \in cut
        <4>1. PICK s \in pruned : IsPrefix(r, s) /\ IsPrefix(s, q) /\ NodeExists(after, s)
          BY <1>2, <2>1, <3>1, <3>2
        <4>2. IsPrefix(p, s)
          BY <3>1, <4>1, PrefixOrder
        <4> QED BY <4>1, <4>2
      <3>3. CASE r \notin cut
        BY <1>1, <3>1, <3>3
      <3> QED BY <3>2, <3>3
    <2> QED BY <2>2, <2>3
  <1>4. CutsMarked(after, pruned \cup cut)
    BY <1>3 DEF CutsMarked
  <1> QED BY <1>4 DEF after, cut

\* The root binds a stored leaf unless a path on its way was marked pruned and
\* is stored again.
LEMMA BoundUnlessRevived ==
  ASSUME NEW nodes \in Storage, NEW pruned, CutsMarked(nodes, pruned),
         NEW k \in Key, HasValue(nodes, k),
         \A r \in pruned : ~(IsPrefix(r, k) /\ NodeExists(nodes, r))
  PROVE  <<k, nodes[k]>> \in RootOf(nodes)
PROOF
  <1>0. k \in Path /\ <<>> \in Path /\ NodeExists(nodes, k)
    BY PathFacts DEF HasValue, NodeExists
  <1>1. ASSUME NEW r \in Path, IsStrictPrefix(<<>>, r), IsPrefix(r, k)
        PROVE  NodeExists(nodes, r)
    <2>1. r # <<>>
      BY <1>1 DEF IsStrictPrefix
    <2> QED BY <1>0, <1>1, <2>1 DEF CutsMarked
  <1>2. IsPrefix(<<>>, k)
    BY <1>0, PrefixOrder
  <1>3. Connected(nodes, <<>>, k)
    BY <1>1 DEF Connected
  <1> QED BY <1>2, <1>3 DEF RootOf, Commitment
=============================================================================
