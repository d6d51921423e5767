------------------------- MODULE StandaloneTreeProofs -------------------------
(***************************************************************************)
(* The properties of StandaloneTree, for every key size, alphabet and set  *)
(* of values: what the root binds, that pruning keeps it, and which keys   *)
(* can be proved.                                                          *)
(***************************************************************************)
EXTENDS StandaloneTree, VerkleNodesProofs

-----------------------------------------------------------------------------
(* What a commitment binds, said without caches. *)

\* The pruned leaves that the recorded commitment of a bottom node keeps.
Kept(b) == IF pruned_commitments[b] # None THEN pruned_commitments[b] ELSE {}

\* Below p: the leaves that can be read, and those kept by the node above them.
Bound(p) ==
  {leaf \in Key \X Data :
     /\ IsPrefix(p, leaf[1])
     /\ leaf \in LeafAt(leaf[1]) \/ leaf \in Kept(Bottom(leaf[1]))}

Inner == {p \in Path : Len(p) < KeySize}

\* No leaf holds a supply record: every write is of Data.
Leaves == \A k \in Key : HasValue(nodes, k) => nodes[k] \in Data

Typed ==
  /\ nodes \in Storage /\ Leaves /\ pruned_keys \subseteq Key
  /\ DOMAIN pruned_commitments = Path /\ DOMAIN commitment_cache = Path

\* Every node above a node exists.
Closed == \A p, q \in Path : IsPrefix(p, q) /\ NodeExists(nodes, q) => NodeExists(nodes, p)

\* A pruned leaf is gone, until an insert brings it back and removes the mark.
PrunedGone == \A k \in pruned_keys : ~NodeExists(nodes, k)

\* A recorded commitment stands at a node that exists, or at a pruned leaf, and
\* binds what its node binds.
RecordsHold ==
  \A p \in Path : pruned_commitments[p] # None =>
    IF p \in Inner THEN NodeExists(nodes, p) /\ pruned_commitments[p] = Bound(p)
                   ELSE ~NodeExists(nodes, p)

\* A leaf that a bottom node keeps can be read or is pruned.
KeptKnown == \A b \in Inner : \A leaf \in Kept(b) : leaf \in LeafAt(leaf[1]) \/ leaf[1] \in pruned_keys

\* The cached commitments are those of the nodes; a missing leaf may be cached.
CacheHolds ==
  \A p \in Path : commitment_cache[p] # None =>
    /\ p \in Inner => commitment_cache[p] = Bound(p)
    /\ p \in Key /\ NodeExists(nodes, p) => commitment_cache[p] = LeafAt(p)

RootHolds == root_cache # None => root_cache = Bound(<<>>)

TreeInv == Typed /\ Closed /\ PrunedGone /\ RecordsHold /\ KeptKnown /\ CacheHolds /\ RootHolds

-----------------------------------------------------------------------------
\* A path is inner or a key.
LEMMA InnerOrKey ==
  /\ \A p \in Path : p \in Inner \/ p \in Key
  /\ \A p \in Path : ~(p \in Inner /\ p \in Key)
  /\ <<>> \in Inner
<1>0. KeySize \in Nat \ {0}
  BY KeySizeAssumption
<1>1. ASSUME NEW p \in Path, Len(p) = KeySize PROVE p \in Key
  <2>1. PICK n \in 0..KeySize : p \in [1..n -> Byte]
    BY DEF Path
  <2>2. p \in Seq(Byte) /\ Len(p) = n
    BY <1>0, <2>1
  <2> QED BY <1>1, <2>1, <2>2 DEF Key
<1> QED BY <1>0, <1>1, PathFacts DEF Inner

\* The prefixes of a key are the paths above it.
LEMMA PrefixesOf ==
  ASSUME NEW k \in Key, NEW p \in Path
  PROVE  p \in Prefixes(k) <=> IsPrefix(p, k)
<1>0. k \in Path /\ Len(k) = KeySize /\ Len(k) \in Nat
  BY PathFacts, KeySizeAssumption
<1>1. ASSUME p \in Prefixes(k) PROVE IsPrefix(p, k)
  <2>1. PICK n \in 0..Len(k) : p = SubSeq(k, 1, n)
    BY <1>1 DEF Prefixes
  <2> QED BY <1>0, <2>1, PrefixAt
<1>2. ASSUME IsPrefix(p, k) PROVE p \in Prefixes(k)
  <2>1. Len(p) \in 0..Len(k) /\ p = SubSeq(k, 1, Len(p))
    BY <1>0, <1>2, PrefixIsAt
  <2> QED BY <2>1 DEF Prefixes
<1> QED BY <1>1, <1>2

\* The bottom node above a key is inner, and the last one on the way to it.
LEMMA BottomOf ==
  ASSUME NEW k \in Key
  PROVE  /\ Bottom(k) \in Inner /\ Bottom(k) \in Path /\ IsPrefix(Bottom(k), k)
         /\ \A p \in Inner : IsPrefix(p, k) <=> IsPrefix(p, Bottom(k))
<1>0. /\ k \in Path /\ Len(k) = KeySize /\ KeySize \in Nat \ {0} /\ KeySize - 1 \in 0..Len(k)
      /\ \A p \in Path : Len(p) \in Nat
  BY PathFacts, KeySizeAssumption
<1> DEFINE b == Bottom(k)
<1>1. b \in Path /\ Len(b) = KeySize - 1 /\ IsPrefix(b, k)
  BY <1>0, PrefixAt DEF Bottom
<1> HIDE DEF b
<1>2. b \in Inner
  BY <1>0, <1>1 DEF Inner
<1>3. ASSUME NEW p \in Inner PROVE IsPrefix(p, k) <=> IsPrefix(p, b)
  <2>1. p \in Path /\ Len(p) <= Len(b)
    BY <1>0, <1>1 DEF Inner
  <2> QED BY <1>0, <1>1, <2>1, PrefixOrder
<1> QED BY <1>1, <1>2, <1>3 DEF b

\* What can be read of a key is a leaf of it.
LEMMA LeafAtType ==
  ASSUME Typed, NEW k \in Key
  PROVE  /\ LeafAt(k) \subseteq Key \X Data /\ \A leaf \in LeafAt(k) : leaf[1] = k
         /\ LeafAt(k) # {} => NodeExists(nodes, k)
BY PathFacts DEF Typed, Leaves, LeafAt, HasValue, NodeExists

\* The commitment of a path binds what the one of any path above it binds there.
LEMMA BoundBelow ==
  ASSUME NEW p \in Path, NEW q \in Path, IsPrefix(p, q)
  PROVE  /\ Bound(q) \subseteq Bound(p)
         /\ \A leaf \in Bound(p) : IsPrefix(q, leaf[1]) => leaf \in Bound(q)
<1>1. \A leaf \in Key \X Data : IsPrefix(q, leaf[1]) => IsPrefix(p, leaf[1])
  <2> TAKE leaf \in Key \X Data
  <2>1. leaf[1] \in Path
    BY PathFacts
  <2> QED BY <2>1, PrefixOrder
<1> QED BY <1>1 DEF Bound

\* On the way from p to q something stands, and a first one, or nothing does.
LEMMA FirstStanding ==
  ASSUME NEW p \in Path, NEW q \in Path, IsPrefix(p, q),
         \E r \in Path : IsPrefix(p, r) /\ IsPrefix(r, q) /\ Standing(r) # None
  PROVE  \E r \in Path : /\ IsPrefix(p, r) /\ IsPrefix(r, q) /\ Standing(r) # None
                         /\ \A t \in Path : IsPrefix(p, t) /\ IsStrictPrefix(t, r) => Standing(t) = None
<1> DEFINE way  == {r \in Path : IsPrefix(p, r) /\ IsPrefix(r, q) /\ Standing(r) # None}
           lens == {Len(r) : r \in way}
<1>0. \A r \in Path : Len(r) \in Nat
  BY PathFacts, KeySizeAssumption
<1>1. lens # {} /\ lens \in SUBSET Nat
  BY <1>0
<1>2. PICK r \in way : \A t \in way : Len(r) <= Len(t)
  <2> HIDE DEF lens
  <2>1. PICK n \in lens : \A m \in lens : n <= m
    BY <1>1, LeastNat
  <2> QED BY <2>1 DEF lens
<1>3. ASSUME NEW t \in Path, IsPrefix(p, t), IsStrictPrefix(t, r)
      PROVE  Standing(t) = None
  <2>1. IsPrefix(t, q) /\ Len(t) < Len(r)
    BY <1>3, PrefixOrder, PrefixMeaning
  <2>2. t \notin way
    BY <1>0, <1>2, <2>1
  <2> QED BY <1>3, <2>1, <2>2
<1> QED BY <1>3

\* What stands at an inner node, or at a leaf that exists, binds what it binds.
LEMMA StandingHolds ==
  ASSUME RecordsHold, CacheHolds, NEW p \in Path, Standing(p) # None
  PROVE  /\ p \in Inner => Standing(p) = Bound(p)
         /\ p \in Key /\ NodeExists(nodes, p) => Standing(p) = LeafAt(p)
<1>1. CASE commitment_cache[p] # None
  BY <1>1 DEF Standing, CacheHolds
<1>2. CASE commitment_cache[p] = None
  BY <1>2, InnerOrKey DEF Standing, RecordsHold
<1> QED BY <1>1, <1>2

\* The recursion that stops where something stands returns what the commitment
\* binds, from whichever inner node it starts.
LEMMA ComputeInner ==
  ASSUME Typed, Closed, RecordsHold, CacheHolds, NEW p \in Inner
  PROVE  ComputeCommitment(p) = Bound(p)
<1> DEFINE reached == {q \in Path : Visited(p, q)}
           stood == UNION {Standing(q) : q \in {r \in reached : Standing(r) # None}}
           read  == UNION {LeafAt(k) : k \in {x \in reached : Len(x) = KeySize /\ Standing(x) = None}}
<1>0. p \in Path /\ KeySize \in Nat \ {0} /\ \A r \in Path : Len(r) \in Nat
  BY PathFacts, KeySizeAssumption DEF Inner
<1>1. ComputeCommitment(p) = stood \cup read
  BY DEF ComputeCommitment
<1>2. ASSUME NEW k \in Key, Visited(p, k)
      PROVE  LeafAt(k) \subseteq Bound(p) /\ NodeExists(nodes, k)
  <2>1. k \in Path /\ Len(k) = KeySize /\ IsPrefix(p, k)
    BY <1>2, PathFacts DEF Visited
  <2>2. IsStrictPrefix(p, k) /\ IsPrefix(k, k)
    BY <1>0, <2>1, PrefixMeaning, PrefixOrder DEF Inner
  <2>3. NodeExists(nodes, k)
    BY <1>2, <2>1, <2>2 DEF Visited, Connected
  <2> QED BY <2>1, <2>3, LeafAtType DEF Bound
<1>3. stood \subseteq Bound(p)
  <2> SUFFICES ASSUME NEW r \in Path, Visited(p, r), Standing(r) # None
               PROVE  Standing(r) \subseteq Bound(p)
    OBVIOUS
  <2>1. CASE r \in Inner
    <3>1. Standing(r) = Bound(r) /\ IsPrefix(p, r)
      BY <2>1, StandingHolds DEF Visited
    <3> QED BY <1>0, <3>1, BoundBelow
  <2>2. CASE r \in Key
    <3>1. Standing(r) = LeafAt(r)
      BY <1>2, <2>2, StandingHolds
    <3> QED BY <1>2, <2>2, <3>1
  <2> QED BY <2>1, <2>2, InnerOrKey
<1>4. read \subseteq Bound(p)
  <2> SUFFICES ASSUME NEW x \in Path, Visited(p, x), Len(x) = KeySize
               PROVE  LeafAt(x) \subseteq Bound(p)
    OBVIOUS
  <2>1. x \in Key
    BY <1>0, InnerOrKey DEF Inner
  <2> QED BY <1>2, <2>1
<1>5. ASSUME NEW q \in Path, IsPrefix(p, q), NodeExists(nodes, q)
      PROVE  Connected(nodes, p, q)
  BY <1>5 DEF Closed, Connected
<1>6. ASSUME NEW leaf \in Bound(p), NEW q \in Path, NodeExists(nodes, q), IsPrefix(p, q), IsPrefix(q, leaf[1]),
             q \in Inner \/ leaf \in LeafAt(leaf[1]),
             \E r \in Path : IsPrefix(p, r) /\ IsPrefix(r, q) /\ Standing(r) # None
      PROVE  leaf \in stood
  <2>1. PICK r \in Path : /\ IsPrefix(p, r) /\ IsPrefix(r, q) /\ Standing(r) # None
                          /\ \A t \in Path : IsPrefix(p, t) /\ IsStrictPrefix(t, r) => Standing(t) = None
    BY <1>0, <1>6, FirstStanding
  <2>2. NodeExists(nodes, r)
    BY <1>6, <2>1 DEF Closed
  <2>3. Visited(p, r)
    BY <1>5, <2>1, <2>2 DEF Visited
  <2>4. leaf[1] \in Key /\ leaf[1] \in Path
    BY PathFacts DEF Bound
  <2>5. IsPrefix(r, leaf[1])
    BY <1>6, <2>1, <2>4, PrefixOrder
  <2>6. CASE r \in Inner
    <3>1. Standing(r) = Bound(r)
      BY <2>1, <2>6, StandingHolds
    <3>2. leaf \in Bound(r)
      BY <1>0, <2>1, <2>5, BoundBelow
    <3> QED BY <2>1, <2>3, <3>1, <3>2
  <2>7. CASE r \in Key
    <3>1. Standing(r) = LeafAt(r)
      BY <2>1, <2>2, <2>7, StandingHolds
    <3>2. Len(r) <= Len(q) /\ Len(r) <= Len(leaf[1]) /\ Len(r) = KeySize /\ Len(leaf[1]) = KeySize
      BY <2>1, <2>4, <2>5, <2>7, PathFacts, PrefixMeaning
    <3>3. q \notin Inner
      BY <1>0, <3>2 DEF Inner
    <3>4. r = leaf[1]
      BY <2>4, <2>5, <3>2, PrefixMeaning
    <3>5. leaf \in LeafAt(leaf[1])
      BY <1>6, <3>3
    <3>6. leaf \in Standing(r)
      BY <3>1, <3>4, <3>5
    <3> QED BY <2>1, <2>3, <3>6
  <2> QED BY <2>6, <2>7, InnerOrKey
<1>7. ASSUME NEW leaf \in Bound(p)
      PROVE  leaf \in stood \cup read
  <2> DEFINE x == leaf[1]
             b == Bottom(x)
  <2>1. x \in Key /\ x \in Path /\ IsPrefix(p, x) /\ IsPrefix(x, x) /\ Len(x) = KeySize
    BY PathFacts, PrefixOrder DEF Bound
  <2>2. CASE leaf \in LeafAt(x)
    <3>1. NodeExists(nodes, x)
      BY <2>1, <2>2, LeafAtType
    <3>2. CASE \E r \in Path : IsPrefix(p, r) /\ IsPrefix(r, x) /\ Standing(r) # None
      <4> HIDE DEF stood, read
      <4> QED BY <1>6, <2>1, <2>2, <3>1, <3>2
    <3>3. CASE ~\E r \in Path : IsPrefix(p, r) /\ IsPrefix(r, x) /\ Standing(r) # None
      <4>1. Visited(p, x)
        BY <1>5, <2>1, <3>1, <3>3 DEF Visited, IsStrictPrefix
      <4>2. Standing(x) = None
        BY <2>1, <3>3
      <4> HIDE DEF x
      <4> QED BY <2>1, <2>2, <4>1, <4>2
    <3> QED BY <3>2, <3>3
  <2>3. CASE leaf \in Kept(b)
    <3>1. b \in Inner /\ b \in Path /\ IsPrefix(b, x) /\ IsPrefix(p, b) /\ IsPrefix(b, b)
      BY <2>1, BottomOf, PrefixOrder
    <3>2. pruned_commitments[b] # None
      BY <2>3 DEF Kept
    <3>3. Standing(b) # None /\ NodeExists(nodes, b)
      BY <3>1, <3>2 DEF Standing, RecordsHold
    <3> HIDE DEF stood, read, b
    <3> QED BY <1>6, <3>1, <3>3
  <2> QED BY <2>2, <2>3 DEF Bound
<1> HIDE DEF stood, read
<1> QED BY <1>1, <1>3, <1>4, <1>7

\* For a leaf that exists it returns the leaf.
LEMMA ComputeLeaf ==
  ASSUME Typed, RecordsHold, CacheHolds, NEW k \in Key, NodeExists(nodes, k)
  PROVE  ComputeCommitment(k) = LeafAt(k)
<1>0. k \in Path /\ Len(k) = KeySize /\ KeySize \in Nat
  BY PathFacts, KeySizeAssumption
<1>1. \A q \in Path : Visited(k, q) <=> q = k
  <2> TAKE q \in Path
  <2>1. ASSUME IsPrefix(k, q) PROVE q = k
    <3>1. Len(k) <= Len(q) /\ Len(q) <= KeySize /\ Len(q) \in Nat
      BY <1>0, <2>1, PathFacts, PrefixMeaning
    <3> QED BY <1>0, <2>1, <3>1, PrefixMeaning
  <2>2. Visited(k, k)
    <3>1. \A r \in Path : ~(IsPrefix(k, r) /\ IsStrictPrefix(r, k))
      BY <1>0, PrefixMeaning, PathFacts
    <3>2. \A r \in Path : ~(IsStrictPrefix(k, r) /\ IsPrefix(r, k))
      BY <1>0, PrefixMeaning, PathFacts
    <3> QED BY <1>0, <3>1, <3>2, PrefixOrder DEF Visited, Connected
  <2> QED BY <2>1, <2>2 DEF Visited
<1>2. {q \in Path : Visited(k, q)} = {k}
  BY <1>0, <1>1
<1>3. ComputeCommitment(k) = IF Standing(k) # None THEN Standing(k) ELSE LeafAt(k)
  BY <1>0, <1>2 DEF ComputeCommitment
<1> QED BY <1>0, <1>3, StandingHolds

-----------------------------------------------------------------------------
(* The caches. *)

\* Asking for commitments fills the cache with what the nodes bind.
LEMMA CacheFromHolds ==
  ASSUME Typed, Closed, RecordsHold, CacheHolds, NEW starts, NEW p \in Path,
         CacheFrom(starts)[p] # None
  PROVE  /\ p \in Inner => CacheFrom(starts)[p] = Bound(p)
         /\ p \in Key /\ NodeExists(nodes, p) => CacheFrom(starts)[p] = LeafAt(p)
<1>1. CacheFrom(starts)[p] = ComputeCommitment(p) \/ CacheFrom(starts)[p] = commitment_cache[p]
  BY DEF CacheFrom
<1>2. CASE CacheFrom(starts)[p] = ComputeCommitment(p)
  BY <1>2, ComputeInner, ComputeLeaf
<1>3. CASE CacheFrom(starts)[p] = commitment_cache[p]
  BY <1>3 DEF CacheHolds
<1> QED BY <1>1, <1>2, <1>3

\* The root that get_root returns is what the tree binds.
LEMMA RootHashHolds ==
  ASSUME TreeInv
  PROVE  RootHash = Bound(<<>>)
BY ComputeInner, InnerOrKey DEF TreeInv, RootHash, RootHolds

\* A step that only fills the caches changes nothing that is bound.
LEMMA FillPreserves ==
  ASSUME TreeInv, NEW starts, UNCHANGED <<nodes, pruned_keys, pruned_commitments>>,
         commitment_cache' = CacheFrom(starts) \/ commitment_cache' = commitment_cache,
         root_cache' = RootHash
  PROVE  TreeInv' /\ Bound(<<>>)' = Bound(<<>>)
<1>1. Typed /\ Closed /\ PrunedGone /\ RecordsHold /\ KeptKnown /\ CacheHolds
  BY DEF TreeInv
<1>2. \A p : Bound(p)' = Bound(p)
  BY DEF Bound, LeafAt, Kept, HasValue
<1>3. \A k : LeafAt(k)' = LeafAt(k) /\ Kept(k)' = Kept(k)
  BY DEF LeafAt, Kept, HasValue
<1>4. Typed' /\ Closed' /\ PrunedGone' /\ KeptKnown'
  BY <1>1, <1>3 DEF Typed, Leaves, HasValue, Closed, PrunedGone, KeptKnown, CacheFrom
<1>5. RecordsHold'
  BY <1>1, <1>2 DEF RecordsHold
<1>6. CacheHolds'
  <2>1. ASSUME NEW p \in Path, commitment_cache'[p] # None
        PROVE  /\ p \in Inner => commitment_cache'[p] = Bound(p)
               /\ p \in Key /\ NodeExists(nodes, p) => commitment_cache'[p] = LeafAt(p)
    BY <1>1, <2>1, CacheFromHolds DEF CacheHolds
  <2> QED BY <1>2, <1>3, <2>1 DEF CacheHolds
<1>7. RootHolds'
  BY <1>2, RootHashHolds DEF RootHolds
<1> QED BY <1>2, <1>4, <1>5, <1>6, <1>7 DEF TreeInv

-----------------------------------------------------------------------------
(* Inserts and prunes. *)

\* What the other leaves and the nodes above them bind is not touched by a step
\* that changes the leaf k and forgets the records on the way to it.
LEMMA LeafElsewhere ==
  ASSUME NEW k \in Key, NEW x \in Key, x # k, nodes'[x] = nodes[x],
         pruned_keys' \cup {k} = pruned_keys \cup {k}
  PROVE  LeafAt(x)' = LeafAt(x)
BY DEF LeafAt, HasValue

\* A path that is not above k has no leaf below it whose bottom node is above k.
LEMMA BoundElsewhere ==
  ASSUME NEW k \in Key, NEW p \in Inner, ~IsPrefix(p, k),
         \A x \in Key : x # k => LeafAt(x)' = LeafAt(x),
         \A q \in Inner : ~IsPrefix(q, k) => pruned_commitments'[q] = pruned_commitments[q]
  PROVE  Bound(p)' = Bound(p)
<1>1. ASSUME NEW leaf \in Key \X Data, IsPrefix(p, leaf[1])
      PROVE  LeafAt(leaf[1])' = LeafAt(leaf[1]) /\ Kept(Bottom(leaf[1]))' = Kept(Bottom(leaf[1]))
  <2> DEFINE x == leaf[1]
             b == Bottom(x)
  <2>1. x \in Key /\ x # k
    BY <1>1
  <2>2. b \in Inner /\ b \in Path /\ IsPrefix(p, b) /\ p \in Path
    BY <1>1, <2>1, BottomOf DEF Inner
  <2>3. ~IsPrefix(b, k)
    BY <2>2, PathFacts, PrefixOrder
  <2> QED BY <2>1, <2>2, <2>3 DEF Kept
<1>2. \A leaf \in Key \X Data :
        /\ IsPrefix(p, leaf[1]) /\ (leaf \in LeafAt(leaf[1])' \/ leaf \in Kept(Bottom(leaf[1]))')
        <=> /\ IsPrefix(p, leaf[1]) /\ (leaf \in LeafAt(leaf[1]) \/ leaf \in Kept(Bottom(leaf[1])))
  BY <1>1
<1> QED BY <1>2 DEF Bound

\* An insert creates the nodes on the way to its leaf and changes no other.
LEMMA InsertNodes ==
  ASSUME Typed, Closed, NEW k \in Keys, NEW v \in Data, Insert(k, v)
  PROVE  /\ k \in Key /\ nodes' \in Storage /\ Leaves' /\ nodes'[k] = v /\ Closed'
         /\ \A x \in Key : x # k => nodes'[x] = nodes[x]
         /\ \A p \in Path : NodeExists(nodes', p) <=> NodeExists(nodes, p) \/ IsPrefix(p, k)
<1> DEFINE updates == [x \in {k} |-> v]
<1>1. k \in Key /\ k \in Path /\ v \in Value /\ nodes \in Storage
  BY StandaloneAssumption, PathFacts DEF Typed, Value
<1>2. nodes' = InsertAll(nodes, updates) /\ DOMAIN updates = {k} /\ updates[k] = v
  BY DEF Insert, InsertLeaf
<1> HIDE DEF updates
<1>3. nodes' \in Storage
  BY <1>1, InsertLeafType DEF Insert
<1>4. nodes'[k] = v /\ \A x \in Key : x # k => nodes'[x] = nodes[x]
  BY <1>1, <1>2, LeafAfterWrite
<1>5. ASSUME NEW p \in Path
      PROVE  NodeExists(nodes', p) <=> NodeExists(nodes, p) \/ IsPrefix(p, k)
  <2>1. v # Absent /\ NoValue # Absent
    BY <1>1, SentinelAssumption
  <2>2. CASE p = k
    BY <1>1, <1>4, <2>1, <2>2, PrefixOrder DEF NodeExists
  <2>3. CASE p # k
    <3>1. nodes'[p] = IF ~NodeExists(nodes, p) /\ (p = <<>> \/ IsPrefix(p, k)) THEN NoValue ELSE nodes[p]
      BY <1>2, <2>3 DEF InsertAll
    <3>2. p = <<>> => IsPrefix(p, k)
      BY <1>1, PrefixOrder
    <3> QED BY <2>1, <3>1, <3>2 DEF NodeExists
  <2> QED BY <2>2, <2>3
<1>6. Closed'
  BY <1>1, <1>5, PrefixOrder DEF Closed
<1>7. Leaves'
  BY <1>4 DEF Typed, Leaves, HasValue
<1> QED BY <1>1, <1>3, <1>4, <1>5, <1>6, <1>7

\* An insert forgets what is recorded and cached above its leaf, and changes
\* what is bound there only.
LEMMA InsertPreserves ==
  ASSUME TreeInv, NEW k \in Keys, NEW v \in Data, Insert(k, v)
  PROVE  TreeInv'
<1>1. Typed /\ Closed /\ PrunedGone /\ RecordsHold /\ KeptKnown /\ CacheHolds
  BY DEF TreeInv
<1>2. /\ k \in Key /\ k \in Path /\ nodes' \in Storage /\ Leaves' /\ Closed'
      /\ \A x \in Key : x # k => nodes'[x] = nodes[x]
      /\ \A p \in Path : NodeExists(nodes', p) <=> NodeExists(nodes, p) \/ IsPrefix(p, k)
  BY <1>1, InsertNodes, PathFacts
<1>3. /\ pruned_keys' = pruned_keys \ {k} /\ root_cache' = None
      /\ pruned_commitments' = [p \in Path |-> IF IsPrefix(p, k) THEN None ELSE pruned_commitments[p]]
      /\ commitment_cache' = [p \in Path |-> IF IsPrefix(p, k) THEN None ELSE commitment_cache[p]]
  <2>1. \A p \in Path : p \in Prefixes(k) <=> IsPrefix(p, k)
    BY <1>2, PrefixesOf
  <2> QED BY <2>1 DEF Insert, ClearPath, InvalidatePath
<1>4. \A x \in Key : x # k => LeafAt(x)' = LeafAt(x)
  BY <1>2, <1>3, LeafElsewhere
<1>5. \A p \in Inner : ~IsPrefix(p, k) => Bound(p)' = Bound(p) /\ Kept(p)' = Kept(p)
  <2>1. \A p \in Inner : p \in Path /\ (~IsPrefix(p, k) => pruned_commitments'[p] = pruned_commitments[p])
    BY <1>3 DEF Inner
  <2> QED BY <1>2, <1>4, <2>1, BoundElsewhere DEF Kept
<1>6. Typed' /\ RootHolds'
  BY <1>1, <1>2, <1>3 DEF Typed, RootHolds
<1>7. PrunedGone'
  <2> SUFFICES ASSUME NEW x \in pruned_keys, x # k PROVE ~NodeExists(nodes', x)
    BY <1>3 DEF PrunedGone
  <2>1. x \in Key
    BY <1>1 DEF Typed
  <2>2. ~NodeExists(nodes, x)
    BY <1>1 DEF PrunedGone
  <2> QED BY <1>2, <2>1, <2>2 DEF NodeExists
<1>8. RecordsHold'
  <2> SUFFICES ASSUME NEW p \in Path, pruned_commitments'[p] # None
               PROVE  IF p \in Inner THEN NodeExists(nodes', p) /\ pruned_commitments'[p] = Bound(p)'
                                     ELSE ~NodeExists(nodes', p)
    BY DEF RecordsHold
  <2>1. ~IsPrefix(p, k) /\ pruned_commitments'[p] = pruned_commitments[p]
    BY <1>3
  <2> QED BY <1>1, <1>2, <1>5, <2>1 DEF RecordsHold
<1>9. KeptKnown'
  <2> SUFFICES ASSUME NEW b \in Inner, NEW leaf \in Kept(b)'
               PROVE  leaf \in LeafAt(leaf[1])' \/ leaf[1] \in pruned_keys'
    BY DEF KeptKnown
  <2>1. b \in Path /\ ~IsPrefix(b, k)
    BY <1>3 DEF Inner, Kept
  <2>2. leaf \in Kept(b)
    BY <1>5, <2>1
  <2>3. leaf \in Bound(b)
    BY <1>1, <2>1, <2>2 DEF Kept, RecordsHold
  <2>4. leaf[1] \in Key /\ leaf[1] # k
    BY <2>1, <2>3 DEF Bound
  <2> QED BY <1>1, <1>3, <1>4, <2>2, <2>4 DEF KeptKnown
<1>10. CacheHolds'
  <2> SUFFICES ASSUME NEW p \in Path, commitment_cache'[p] # None
               PROVE  /\ p \in Inner => commitment_cache'[p] = Bound(p)'
                      /\ p \in Key /\ NodeExists(nodes', p) => commitment_cache'[p] = LeafAt(p)'
    BY DEF CacheHolds
  <2>1. ~IsPrefix(p, k) /\ commitment_cache'[p] = commitment_cache[p] /\ p # k
    BY <1>2, <1>3, PrefixOrder
  <2> QED BY <1>1, <1>2, <1>4, <1>5, <2>1 DEF CacheHolds
<1> QED BY <1>2, <1>6, <1>7, <1>8, <1>9, <1>10 DEF TreeInv

\* A prune deletes one leaf and no other node.
LEMMA PruneNodes ==
  ASSUME Typed, Closed, NEW k \in Keys, PruneKey(k)
  PROVE  /\ k \in Key /\ k \in Path /\ nodes' \in Storage /\ Leaves' /\ Closed'
         /\ \A p \in Path : p # k => nodes'[p] = nodes[p]
         /\ \A p \in Path : NodeExists(nodes', p) <=> NodeExists(nodes, p) /\ p # k
<1>1. k \in Key /\ k \in Path /\ Len(k) = KeySize /\ nodes \in Storage
  BY StandaloneAssumption, PathFacts DEF Typed
<1>2. nodes' = [nodes EXCEPT ![k] = Absent] /\ nodes' \in Storage
  BY <1>1 DEF PruneKey, Storage
<1>3. \A p \in Path : nodes'[p] = IF p = k THEN Absent ELSE nodes[p]
  BY <1>1, <1>2 DEF Storage
<1>4. /\ \A p \in Path : NodeExists(nodes', p) <=> NodeExists(nodes, p) /\ p # k
      /\ Leaves'
  BY <1>3, PathFacts DEF NodeExists, Typed, Leaves, HasValue
<1>5. ASSUME NEW q \in Path, IsPrefix(k, q) PROVE q = k
  <2>1. Len(k) <= Len(q) /\ Len(q) <= KeySize /\ Len(q) \in Nat /\ KeySize \in Nat
    BY <1>1, <1>5, PathFacts, PrefixMeaning, KeySizeAssumption
  <2> QED BY <1>1, <1>5, <2>1, PrefixMeaning
<1>6. Closed'
  BY <1>4, <1>5 DEF Closed
<1> QED BY <1>1, <1>2, <1>3, <1>4, <1>6

\* The commitments recorded on the way to a pruned leaf bind it in its place, so
\* that every inner node binds what it bound.
LEMMA PruneKeepsBound ==
  ASSUME TreeInv, NEW k \in Keys, PruneKey(k)
  PROVE  /\ \A p \in Path : pruned_commitments'[p] =
                IF ~IsPrefix(p, k) THEN pruned_commitments[p]
                ELSE IF p \in Inner THEN Bound(p) ELSE LeafAt(k)
         /\ \A p \in Inner : Bound(p)' = Bound(p)
<1>1. Typed /\ Closed /\ PrunedGone /\ RecordsHold /\ CacheHolds
  BY DEF TreeInv
<1>2. /\ k \in Key /\ k \in Path /\ NodeExists(nodes, k)
      /\ \A p \in Path : p # k => nodes'[p] = nodes[p]
      /\ pruned_keys' = pruned_keys \cup {k}
  BY <1>1, PruneNodes DEF PruneKey
<1>3. ASSUME NEW p \in Path
      PROVE  pruned_commitments'[p] = IF ~IsPrefix(p, k) THEN pruned_commitments[p]
                                      ELSE IF p \in Inner THEN Bound(p) ELSE LeafAt(k)
  <2>1. pruned_commitments'[p] = IF IsPrefix(p, k) THEN ComputeCommitment(p) ELSE pruned_commitments[p]
    BY <1>2, PrefixesOf DEF PruneKey, RecordPath
  <2>2. CASE p \in Inner
    BY <1>1, <2>1, <2>2, ComputeInner
  <2>3. CASE p \notin Inner /\ IsPrefix(p, k)
    <3>1. p \in Key
      BY <2>3, InnerOrKey
    <3>2. p = k
      BY <1>2, <2>3, <3>1, PathFacts, PrefixMeaning
    <3>3. ComputeCommitment(k) = LeafAt(k)
      BY <1>1, <1>2, ComputeLeaf
    <3> QED BY <2>1, <2>3, <3>2, <3>3
  <2>4. CASE ~IsPrefix(p, k)
    BY <2>1, <2>4
  <2> QED BY <2>2, <2>3, <2>4
<1>4. \A x \in Key : x # k => LeafAt(x)' = LeafAt(x)
  <2>1. \A x \in Key : x # k => nodes'[x] = nodes[x]
    BY <1>2, PathFacts
  <2> QED BY <1>2, <2>1, LeafElsewhere
<1>5. LeafAt(k)' = {}
  BY <1>2 DEF LeafAt
<1>6. \A p \in Inner : Bound(p) # None /\ Bound(p) \in SUBSET (Key \X Data)
  BY NoneAssumption DEF Bound
<1>7. \A p \in Inner : ~IsPrefix(p, k) => Bound(p)' = Bound(p)
  <2>1. \A p \in Inner : ~IsPrefix(p, k) => pruned_commitments'[p] = pruned_commitments[p]
    BY <1>3 DEF Inner
  <2> QED BY <1>2, <1>4, <2>1, BoundElsewhere
<1>8. ASSUME NEW p \in Inner, IsPrefix(p, k), NEW leaf \in Key \X Data, IsPrefix(p, leaf[1])
      PROVE  (leaf \in LeafAt(leaf[1])' \/ leaf \in Kept(Bottom(leaf[1]))')
               <=> (leaf \in LeafAt(leaf[1]) \/ leaf \in Kept(Bottom(leaf[1])))
  <2> DEFINE x == leaf[1]
             b == Bottom(x)
  <2>1. x \in Key /\ b \in Inner /\ b \in Path /\ IsPrefix(b, x) /\ b = Bottom(leaf[1])
    BY BottomOf
  <2>2. CASE IsPrefix(b, k)
    <3>1. Kept(b)' = Bound(b)
      BY <1>3, <1>6, <2>1, <2>2 DEF Kept
    <3>2. leaf \in Bound(b) <=> (leaf \in LeafAt(x) \/ leaf \in Kept(b))
      BY <2>1 DEF Bound
    <3>3. leaf \in LeafAt(x)' => leaf \in LeafAt(x)
      BY <1>4, <1>5, <2>1
    <3> QED BY <3>1, <3>2, <3>3
  <2>3. CASE ~IsPrefix(b, k)
    <3>1. x # k
      BY <2>1, <2>3
    <3>2. Kept(b)' = Kept(b)
      BY <1>3, <2>1, <2>3 DEF Kept
    <3> QED BY <1>4, <2>1, <3>1, <3>2
  <2> QED BY <2>2, <2>3
<1>9. \A p \in Inner : IsPrefix(p, k) => Bound(p)' = Bound(p)
  BY <1>8 DEF Bound
<1> QED BY <1>3, <1>7, <1>9

\* A prune records what was bound and forgets what was cached above its leaf.
LEMMA PrunePreserves ==
  ASSUME TreeInv, NEW k \in Keys, PruneKey(k)
  PROVE  TreeInv'
<1>1. Typed /\ Closed /\ PrunedGone /\ RecordsHold /\ KeptKnown /\ CacheHolds
  BY DEF TreeInv
<1>2. /\ k \in Key /\ k \in Path /\ nodes' \in Storage /\ Leaves' /\ Closed' /\ NodeExists(nodes, k)
      /\ \A p \in Path : p # k => nodes'[p] = nodes[p]
      /\ \A p \in Path : NodeExists(nodes', p) <=> NodeExists(nodes, p) /\ p # k
  BY <1>1, PruneNodes DEF PruneKey
<1>3. /\ pruned_keys' = pruned_keys \cup {k} /\ root_cache' = None
      /\ DOMAIN pruned_commitments' = Path /\ DOMAIN commitment_cache' = Path
      /\ \A p \in Path : commitment_cache'[p] = IF IsPrefix(p, k) THEN None ELSE CacheFrom(Prefixes(k))[p]
  <2>1. \A p \in Path : p \in Prefixes(k) <=> IsPrefix(p, k)
    BY <1>2, PrefixesOf
  <2> QED BY <2>1 DEF PruneKey, RecordPath, InvalidatePath
<1>4. /\ \A p \in Path : pruned_commitments'[p] =
                IF ~IsPrefix(p, k) THEN pruned_commitments[p]
                ELSE IF p \in Inner THEN Bound(p) ELSE LeafAt(k)
      /\ \A p \in Inner : Bound(p)' = Bound(p)
  BY PruneKeepsBound
<1>5. \A x \in Key : x # k => LeafAt(x)' = LeafAt(x)
  <2>1. \A x \in Key : x # k => nodes'[x] = nodes[x]
    BY <1>2, PathFacts
  <2> QED BY <1>2, <1>3, <2>1, LeafElsewhere
<1>6. Typed' /\ RootHolds'
  BY <1>1, <1>2, <1>3 DEF Typed, RootHolds
<1>7. PrunedGone'
  BY <1>1, <1>2, <1>3, PathFacts DEF PrunedGone, Typed
<1>8. RecordsHold'
  <2> SUFFICES ASSUME NEW p \in Path, pruned_commitments'[p] # None
               PROVE  IF p \in Inner THEN NodeExists(nodes', p) /\ pruned_commitments'[p] = Bound(p)'
                                     ELSE ~NodeExists(nodes', p)
    BY DEF RecordsHold
  <2>1. p \in Inner => p # k
    BY <1>2, InnerOrKey
  <2>2. CASE ~IsPrefix(p, k)
    BY <1>1, <1>2, <1>4, <2>1, <2>2 DEF RecordsHold
  <2>3. CASE IsPrefix(p, k) /\ p \in Inner
    <3>1. NodeExists(nodes, p)
      BY <1>1, <1>2, <2>3 DEF Closed
    <3> QED BY <1>2, <1>4, <2>1, <2>3, <3>1
  <2>4. CASE IsPrefix(p, k) /\ p \notin Inner
    <3>1. p = k
      BY <1>2, <2>4, InnerOrKey, PathFacts, PrefixMeaning
    <3> QED BY <1>2, <2>4, <3>1
  <2> QED BY <2>2, <2>3, <2>4
<1>9. KeptKnown'
  <2> SUFFICES ASSUME NEW b \in Inner, NEW leaf \in Kept(b)'
               PROVE  leaf \in LeafAt(leaf[1])' \/ leaf[1] \in pruned_keys'
    BY DEF KeptKnown
  <2>0. b \in Path
    BY DEF Inner
  <2>1. leaf \in Key \X Data /\ (leaf \in LeafAt(leaf[1]) \/ leaf[1] \in pruned_keys)
    <3>1. CASE IsPrefix(b, k)
      <4>1. leaf \in Bound(b)
        BY <1>4, <2>0, <3>1 DEF Kept
      <4>2. leaf \in Key \X Data /\ (leaf \in LeafAt(leaf[1]) \/ leaf \in Kept(Bottom(leaf[1])))
        BY <4>1 DEF Bound
      <4>3. Bottom(leaf[1]) \in Inner
        BY <4>2, BottomOf
      <4> QED BY <1>1, <4>2, <4>3 DEF KeptKnown
    <3>2. CASE ~IsPrefix(b, k)
      <4>1. leaf \in Kept(b)
        BY <1>4, <2>0, <3>2 DEF Kept
      <4>2. leaf \in Bound(b)
        BY <1>1, <2>0, <4>1 DEF Kept, RecordsHold
      <4> QED BY <1>1, <4>1, <4>2 DEF KeptKnown, Bound
    <3> QED BY <3>1, <3>2
  <2> QED BY <1>3, <1>5, <2>1
<1>10. CacheHolds'
  <2> SUFFICES ASSUME NEW p \in Path, commitment_cache'[p] # None
               PROVE  /\ p \in Inner => commitment_cache'[p] = Bound(p)'
                      /\ p \in Key /\ NodeExists(nodes', p) => commitment_cache'[p] = LeafAt(p)'
    BY DEF CacheHolds
  <2>1. commitment_cache'[p] = CacheFrom(Prefixes(k))[p] /\ p # k
    BY <1>2, <1>3, PrefixOrder
  <2>2. /\ p \in Inner => commitment_cache'[p] = Bound(p)
        /\ p \in Key /\ NodeExists(nodes, p) => commitment_cache'[p] = LeafAt(p)
    BY <1>1, <2>1, CacheFromHolds
  <2> QED BY <1>2, <1>4, <1>5, <2>1, <2>2
<1> QED BY <1>2, <1>6, <1>7, <1>8, <1>9, <1>10 DEF TreeInv

-----------------------------------------------------------------------------
(* The other steps. *)

\* A new tree holds its root node and nothing else.
LEMMA InitTreeInv == Init => TreeInv
<1> SUFFICES ASSUME Init PROVE TreeInv
  OBVIOUS
<1>1. nodes \in Storage /\ \A p \in Path : NodeExists(nodes, p) <=> p = <<>>
  BY EmptyStorageType, SentinelAssumption DEF Init, EmptyStorage, NodeExists
<1>2. Typed
  <2>1. \A k \in Key : k \in Path /\ k # <<>>
    BY PathFacts, KeySizeAssumption
  <2> QED BY <1>1, <2>1 DEF Init, Typed, Leaves, HasValue, NodeExists, NoCommitments
<1>3. Closed
  <2> SUFFICES ASSUME NEW p \in Path, IsPrefix(p, <<>>) PROVE p = <<>>
    BY <1>1 DEF Closed
  <2> QED BY PathFacts, PrefixMeaning
<1>4. \A b \in Inner : Kept(b) = {}
  BY DEF Init, NoCommitments, Kept, Inner
<1> QED BY <1>2, <1>3, <1>4 DEF Init, NoCommitments, TreeInv, PrunedGone, RecordsHold, KeptKnown, CacheHolds, RootHolds

\* A rebuilt tree holds the leaves of its outputs and the nodes above them, and
\* caches what they bind.
LEMMA RebuildPreserves ==
  ASSUME NEW utxos \in UtxoSets, CalculateVerkleRoot(utxos)
  PROVE  TreeInv'
<1> DEFINE none == [p \in Path |-> Absent]
<1>1. PICK last \in [{u[2] : u \in utxos} -> {u[3] : u \in utxos}] :
        LET filled == IF utxos = {} THEN none ELSE InsertAll(none, last)
            root   == {<<k, last[k]>> : k \in DOMAIN last}
        IN
        /\ \A k \in DOMAIN last : \E u \in utxos : u[2] = k /\ u[3] = last[k]
        /\ nodes' = filled
        /\ pruned_keys' = {} /\ pruned_commitments' = NoCommitments
        /\ root_cache' = root
        /\ commitment_cache' =
             [p \in Path |-> IF p = <<>> \/ NodeExists(filled, p)
                             THEN {leaf \in root : IsPrefix(p, leaf[1])} ELSE None]
  BY DEF CalculateVerkleRoot
<1> DEFINE ks == DOMAIN last
           root == {<<k, last[k]>> : k \in ks}
<1>2. ks \subseteq Key /\ ks \subseteq Path /\ \A k \in ks : last[k] \in Data /\ last[k] \in Value
  BY <1>1, StandaloneAssumption, PathFacts DEF Value
<1>3. none \in Storage /\ \A p \in Path : none[p] = Absent
  BY DEF Storage
<1>4. /\ nodes' \in Storage
      /\ \A x \in Key : nodes'[x] = IF x \in ks THEN last[x] ELSE Absent
      /\ \A p \in Path : NodeExists(nodes', p) <=> \E k \in ks : IsPrefix(p, k)
  <2>1. CASE utxos = {}
    <3>1. nodes' = none /\ ks = {}
      BY <1>1, <2>1
    <3> QED BY <1>3, <3>1, PathFacts DEF NodeExists
  <2>2. CASE utxos # {}
    <3>1. nodes' = InsertAll(none, last) /\ ks # {}
      BY <1>1, <2>2
    <3>2. nodes' \in Storage
      BY <1>2, <1>3, <3>1, InsertAllType
    <3>3. \A x \in Key : nodes'[x] = IF x \in ks THEN last[x] ELSE Absent
      BY <1>2, <1>3, <3>1, LeafAfterWrite, PathFacts
    <3>4. ASSUME NEW p \in Path
          PROVE  NodeExists(nodes', p) <=> \E k \in ks : IsPrefix(p, k)
      <4>1. p = <<>> => \E k \in ks : IsPrefix(p, k)
        BY <1>2, <3>1, PrefixOrder
      <4>2. p \in ks => IsPrefix(p, p) /\ last[p] # Absent
        BY <1>2, PrefixOrder, SentinelAssumption
      <4>3. nodes'[p] = IF p \in ks THEN last[p]
                        ELSE IF p = <<>> \/ \E k \in ks : IsPrefix(p, k) THEN NoValue ELSE Absent
        BY <1>3, <3>1 DEF InsertAll, NodeExists
      <4> QED BY <4>1, <4>2, <4>3, SentinelAssumption DEF NodeExists
    <3> QED BY <3>2, <3>3, <3>4
  <2> QED BY <2>1, <2>2
<1>5. /\ pruned_keys' = {} /\ pruned_commitments' = NoCommitments /\ root_cache' = root
      /\ commitment_cache' = [p \in Path |-> IF p = <<>> \/ NodeExists(nodes', p)
                                             THEN {leaf \in root : IsPrefix(p, leaf[1])} ELSE None]
  BY <1>1
<1> HIDE DEF none
<1>6. Typed'
  BY <1>2, <1>4, <1>5 DEF Typed, Leaves, HasValue, NoCommitments
<1>7. Closed'
  <2> SUFFICES ASSUME NEW p \in Path, NEW q \in Path, IsPrefix(p, q), NodeExists(nodes', q)
               PROVE  NodeExists(nodes', p)
    BY DEF Closed
  <2>1. PICK k \in ks : IsPrefix(q, k)
    BY <1>4
  <2>2. IsPrefix(p, k)
    BY <1>2, <2>1, PrefixOrder
  <2> QED BY <1>4, <2>2
<1>8. \A p \in Path : Kept(p)' = {} /\ pruned_commitments'[p] = None
  BY <1>5 DEF NoCommitments, Kept
<1>9. \A x \in Key : LeafAt(x)' = IF x \in ks THEN {<<x, last[x]>>} ELSE {}
  BY <1>2, <1>4, <1>5, SentinelAssumption DEF LeafAt, HasValue
<1>10. \A p \in Path : Bound(p)' = {leaf \in root : IsPrefix(p, leaf[1])}
  <2> TAKE p \in Path
  <2>1. \A leaf \in Key \X Data : Kept(Bottom(leaf[1]))' = {}
    BY <1>8, BottomOf
  <2>2. \A leaf \in Key \X Data : leaf \in LeafAt(leaf[1])' <=> leaf \in root
    BY <1>9
  <2>3. root \subseteq Key \X Data
    BY <1>2
  <2> HIDE DEF root
  <2> QED BY <2>1, <2>2, <2>3 DEF Bound
<1>11. PrunedGone' /\ RecordsHold' /\ KeptKnown'
  BY <1>5, <1>8 DEF PrunedGone, RecordsHold, KeptKnown, Inner
<1>12. RootHolds'
  <2>1. <<>> \in Path /\ \A leaf \in root : leaf[1] \in Path
    BY <1>2, PathFacts
  <2>2. \A leaf \in root : IsPrefix(<<>>, leaf[1])
    BY <2>1, PrefixOrder
  <2> HIDE DEF root
  <2> QED BY <1>5, <1>10, <2>1, <2>2 DEF RootHolds
<1>13. CacheHolds'
  <2> SUFFICES ASSUME NEW p \in Path, commitment_cache'[p] # None
               PROVE  /\ p \in Inner => commitment_cache'[p] = Bound(p)'
                      /\ p \in Key /\ NodeExists(nodes', p) => commitment_cache'[p] = LeafAt(p)'
    BY DEF CacheHolds
  <2>1. commitment_cache'[p] = {leaf \in root : IsPrefix(p, leaf[1])}
    BY <1>5
  <2>2. ASSUME p \in Key, NodeExists(nodes', p)
        PROVE  {leaf \in root : IsPrefix(p, leaf[1])} = {<<p, last[p]>>} /\ p \in ks
    <3>1. \A k \in ks : IsPrefix(p, k) <=> p = k
      BY <1>2, <2>2, PathFacts, PrefixMeaning, PrefixOrder
    <3>2. p \in ks
      BY <1>4, <2>2, <3>1
    <3> QED BY <3>1, <3>2
  <2> QED BY <1>9, <1>10, <2>1, <2>2
<1> QED BY <1>6, <1>7, <1>11, <1>12, <1>13 DEF TreeInv

\* Every step preserves the invariant; only the root request and the proof,
\* which fill the caches, and the prune leave what the root binds unmoved.
LEMMA StepTreeInv == TreeInv /\ [Next]_vars => TreeInv'
<1> SUFFICES ASSUME TreeInv, [Next]_vars PROVE TreeInv'
  OBVIOUS
<1>1. ASSUME NEW k \in Keys, NEW v \in Data, Insert(k, v) PROVE TreeInv'
  BY <1>1, InsertPreserves
<1>2. ASSUME NEW k \in Keys, PruneKey(k) PROVE TreeInv'
  BY <1>2, PrunePreserves
<1>3. CASE GetRoot
  BY <1>3, FillPreserves DEF GetRoot
<1>4. ASSUME NEW k \in Keys, GenerateProof(k) PROVE TreeInv'
  BY <1>4, FillPreserves DEF GenerateProof
<1>5. ASSUME NEW utxos \in UtxoSets, CalculateVerkleRoot(utxos) PROVE TreeInv'
  BY <1>5, RebuildPreserves
<1>6. CASE UNCHANGED vars
  BY <1>6 DEF vars, TreeInv, Typed, Leaves, Closed, PrunedGone, RecordsHold, KeptKnown, CacheHolds, RootHolds,
              Bound, LeafAt, Kept, HasValue, NodeExists
<1> QED BY <1>1, <1>2, <1>3, <1>4, <1>5, <1>6 DEF Next

\* TreeInv holds in every reachable state.
LEMMA TreeInvariant == Spec => []TreeInv
BY InitTreeInv, StepTreeInv, PTL DEF Spec

-----------------------------------------------------------------------------
(* The results. *)

\* RootBinds (get_root): for every key size, alphabet and values, the root binds
\* each leaf that can be read, with its present value, and beside them only
\* leaves that were pruned.
THEOREM RootAlwaysBinds == Spec => []RootBinds
<1>1. TreeInv => RootBinds
  <2> SUFFICES ASSUME TreeInv PROVE RootBinds
    OBVIOUS
  <2>1. Typed /\ KeptKnown /\ RootHash = Bound(<<>>)
    BY RootHashHolds DEF TreeInv
  <2>2. \A k \in Key : LeafAt(k) \subseteq RootHash
    <3> TAKE k \in Key
    <3>1. IsPrefix(<<>>, k)
      BY PathFacts, PrefixOrder
    <3> QED BY <2>1, <3>1, LeafAtType DEF Bound
  <2>3. ASSUME NEW leaf \in RootHash
        PROVE  leaf \in LeafAt(leaf[1]) \/ leaf[1] \in pruned_keys
    <3>1. leaf \in Key \X Data /\ (leaf \in LeafAt(leaf[1]) \/ leaf \in Kept(Bottom(leaf[1])))
      BY <2>1 DEF Bound
    <3>2. Bottom(leaf[1]) \in Inner
      BY <3>1, BottomOf
    <3> QED BY <2>1, <3>1, <3>2 DEF KeptKnown
  <2> QED BY <2>2, <2>3 DEF RootBinds
<1> QED BY <1>1, TreeInvariant, PTL

\* PruningKeepsRoot (prune_key, generate_proof, get_root): none of them ever
\* moves the root.
THEOREM PruningAlwaysKeepsRoot == Spec => PruningKeepsRoot
<1> DEFINE RootIs == RootHash = Bound(<<>>)
<1>1. ASSUME TreeInv, RootIs, RootIs', GetRoot \/ \E k \in Keys : PruneKey(k) \/ GenerateProof(k)
      PROVE  RootHash' = RootHash
  <2>1. Bound(<<>>)' = Bound(<<>>)
    <3>1. CASE GetRoot
      BY <1>1, <3>1, FillPreserves DEF GetRoot
    <3>2. ASSUME NEW k \in Keys, PruneKey(k) PROVE Bound(<<>>)' = Bound(<<>>)
      BY <1>1, <3>2, PruneKeepsBound, InnerOrKey
    <3>3. ASSUME NEW k \in Keys, GenerateProof(k) PROVE Bound(<<>>)' = Bound(<<>>)
      BY <1>1, <3>3, FillPreserves DEF GenerateProof
    <3> QED BY <1>1, <3>1, <3>2, <3>3
  <2> QED BY <1>1, <2>1
<1>2. TreeInv => RootIs
  BY RootHashHolds
<1>3. TreeInv /\ RootIs /\ RootIs' /\ [Next]_vars
        => [GetRoot \/ (\E k \in Keys : PruneKey(k) \/ GenerateProof(k)) => RootHash' = RootHash]_vars
  BY <1>1
<1> QED BY <1>2, <1>3, TreeInvariant, PTL DEF Spec, PruningKeepsRoot

\* The siblings in the proof of a key: the nodes that exist beside the way to it.
LEMMA SiblingNodes ==
  ASSUME Typed, Closed, NEW k \in Key
  PROVE  {d \in ProofChildren(k) : ~IsPrefix(d, k)}
           = {c \in Path : /\ NodeExists(nodes, c) /\ ~IsPrefix(c, k)
                           /\ \E n \in 0..KeySize - 1 : /\ Len(c) = n + 1
                                                        /\ IsPrefix(SubSeq(k, 1, n), c)}
<1>0. /\ k \in Path /\ Len(k) = KeySize /\ KeySize \in Nat \ {0} /\ <<>> \in Path
      /\ \A p \in Path : Len(p) \in Nat /\ IsPrefix(<<>>, p) /\ IsPrefix(p, p)
  BY PathFacts, KeySizeAssumption, PrefixOrder
<1>1. ASSUME NEW d \in ProofChildren(k)
      PROVE  /\ d \in Path /\ NodeExists(nodes, d)
             /\ \E n \in 0..KeySize - 1 : Len(d) = n + 1 /\ IsPrefix(SubSeq(k, 1, n), d)
  <2>1. PICK p \in Walked(k) : d \in Children(p)
    BY DEF ProofChildren
  <2>2. PICK n \in 0..Len(k) : p = SubSeq(k, 1, n)
    BY <2>1 DEF Walked, Prefixes
  <2>3. p # k /\ Len(p) = n /\ p \in Path /\ IsPrefix(p, k)
    BY <1>0, <2>1, <2>2, PrefixAt DEF Walked
  <2>4. n \in 0..KeySize - 1
    <3>1. n # KeySize
      BY <1>0, <2>3, PrefixMeaning
    <3> QED BY <1>0, <2>2, <3>1
  <2> QED BY <2>1, <2>2, <2>3, <2>4 DEF Children
<1>2. ASSUME NEW c \in Path, NodeExists(nodes, c), ~IsPrefix(c, k), NEW n \in 0..KeySize - 1,
             Len(c) = n + 1, IsPrefix(SubSeq(k, 1, n), c)
      PROVE  c \in ProofChildren(k)
  <2> DEFINE p == SubSeq(k, 1, n)
  <2>1. p \in Path /\ Len(p) = n /\ IsPrefix(p, k) /\ n \in 0..Len(k)
    BY <1>0, PrefixAt
  <2>2. p \in Prefixes(k) /\ p # k
    BY <1>0, <2>1, PrefixesOf
  <2>3. NodeExists(nodes, p) /\ NodeExists(nodes, <<>>)
    BY <1>0, <1>2, <2>1 DEF Closed
  <2>4. Connected(nodes, <<>>, p)
    BY <2>1, <2>3 DEF Closed, Connected
  <2>5. c \in Children(p)
    BY <1>2, <2>1 DEF Children
  <2>6. p \in Walked(k)
    BY <2>2, <2>3, <2>4 DEF Walked
  <2> HIDE DEF p
  <2> QED BY <2>5, <2>6 DEF ProofChildren
<1> QED BY <1>1, <1>2

\* Folding a proof gives what the root binds, without the leaves that the bottom
\* node above the key keeps and the storage has lost.
LEMMA ProofFolds ==
  ASSUME TreeInv, NEW k \in Key
  PROVE  ProofOf(k).leaf \cup ProofOf(k).siblings
           = {leaf \in Bound(<<>>) : leaf \in LeafAt(leaf[1]) \/ Bottom(leaf[1]) # Bottom(k)}
<1> DEFINE beside   == {d \in ProofChildren(k) : ~IsPrefix(d, k)}
           siblings == UNION {ComputeCommitment(c) : c \in beside}
           folded   == {leaf \in Bound(<<>>) : leaf \in LeafAt(leaf[1]) \/ Bottom(leaf[1]) # Bottom(k)}
<1>0. /\ k \in Path /\ Len(k) = KeySize /\ KeySize \in Nat \ {0} /\ <<>> \in Path
      /\ \A p \in Path : Len(p) \in Nat /\ IsPrefix(<<>>, p) /\ IsPrefix(p, p)
  BY PathFacts, KeySizeAssumption, PrefixOrder
<1>1. Typed /\ Closed /\ PrunedGone /\ RecordsHold /\ KeptKnown /\ CacheHolds
  BY DEF TreeInv
<1>2. ProofOf(k).leaf = LeafAt(k)
  <2>1. LeafAt(k) # {} => Connected(nodes, <<>>, k)
    BY <1>0, <1>1, LeafAtType DEF Closed, Connected
  <2> QED BY <2>1 DEF ProofOf
<1>3. ProofOf(k).siblings = siblings
  BY DEF ProofOf
<1>4. \A c : c \in beside <=> /\ c \in Path /\ NodeExists(nodes, c) /\ ~IsPrefix(c, k)
                              /\ \E n \in 0..KeySize - 1 : Len(c) = n + 1 /\ IsPrefix(SubSeq(k, 1, n), c)
  BY <1>1, SiblingNodes
<1>5. ASSUME NEW c \in beside
      PROVE  ComputeCommitment(c) = IF c \in Inner THEN Bound(c) ELSE LeafAt(c)
  <2>1. c \in Path /\ NodeExists(nodes, c)
    BY <1>4
  <2> QED BY <1>1, <2>1, ComputeInner, ComputeLeaf, InnerOrKey
<1> HIDE DEF beside
<1>6. \A x \in Key : LeafAt(x) \subseteq folded
  <2> TAKE x \in Key
  <2>1. x \in Path /\ IsPrefix(<<>>, x)
    BY <1>0, PathFacts
  <2> QED BY <1>1, <2>1, LeafAtType DEF Bound
<1>7. siblings \subseteq folded
  <2> SUFFICES ASSUME NEW c \in beside, NEW leaf \in ComputeCommitment(c) PROVE leaf \in folded
    OBVIOUS
  <2>1. c \in Path /\ ~IsPrefix(c, k) /\ IsPrefix(<<>>, c)
    BY <1>0, <1>4
  <2>2. CASE c \in Inner
    <3>1. leaf \in Bound(c)
      BY <1>5, <2>2
    <3>2. leaf[1] \in Key /\ IsPrefix(c, leaf[1])
      BY <3>1 DEF Bound
    <3>3. leaf \in Bound(<<>>)
      BY <1>0, <2>1, <3>1, BoundBelow
    <3>4. Bottom(leaf[1]) # Bottom(k)
      BY <2>1, <2>2, <3>2, BottomOf
    <3> QED BY <3>3, <3>4
  <2>3. CASE c \notin Inner
    <3>1. c \in Key /\ leaf \in LeafAt(c)
      BY <1>5, <2>1, <2>3, InnerOrKey
    <3> HIDE DEF folded
    <3> QED BY <1>6, <3>1
  <2> QED BY <2>2, <2>3
<1>8. ASSUME NEW leaf \in folded PROVE leaf \in LeafAt(k) \cup siblings
  <2> DEFINE x == leaf[1]
  <2>1. x \in Key /\ x \in Path /\ leaf \in Bound(<<>>) /\ Len(x) = KeySize
    BY PathFacts DEF Bound
  <2>2. leaf \in LeafAt(x) \/ Bottom(x) # Bottom(k)
    OBVIOUS
  <2>3. leaf \in LeafAt(x) \/ leaf \in Kept(Bottom(x))
    BY <2>1 DEF Bound
  <2> HIDE DEF folded, x
  <2>4. CASE x = k
    BY <2>2, <2>4
  <2>5. CASE x # k
    <3>1. ~IsPrefix(x, k)
      BY <1>0, <2>1, <2>5, PrefixMeaning
    <3>2. PICK n \in 0..Len(x) - 1 : /\ n \in 0..KeySize - 1 /\ SubSeq(x, 1, n) = SubSeq(k, 1, n)
                                     /\ ~IsPrefix(SubSeq(x, 1, n + 1), k)
      BY <2>1, <3>1, Divergence
    <3> DEFINE c == SubSeq(x, 1, n + 1)
    <3>3. /\ c \in Path /\ Len(c) = n + 1 /\ IsPrefix(c, x) /\ ~IsPrefix(c, k)
          /\ IsPrefix(SubSeq(k, 1, n), c)
      <4>1. n \in 0..Len(x) /\ n + 1 \in 0..Len(x) /\ n <= n + 1
        BY <1>0, <2>1, <3>2
      <4>2. /\ SubSeq(x, 1, n) \in Path /\ Len(SubSeq(x, 1, n)) = n /\ IsPrefix(SubSeq(x, 1, n), x)
            /\ c \in Path /\ Len(c) = n + 1 /\ IsPrefix(c, x)
        BY <2>1, <4>1, PrefixAt
      <4>3. IsPrefix(SubSeq(x, 1, n), c)
        <5>1. Len(SubSeq(x, 1, n)) <= Len(c)
          BY <4>1, <4>2
        <5> HIDE DEF c
        <5> QED BY <2>1, <4>2, <5>1, PrefixOrder
      <4> QED BY <3>2, <4>2, <4>3
    <3> HIDE DEF c
    <3>4. NodeExists(nodes, c) => c \in beside
      BY <1>4, <3>2, <3>3
    <3>5. CASE c \in Inner
      <4>1. NodeExists(nodes, c)
        <5>1. CASE leaf \in LeafAt(x)
          <6>1. NodeExists(nodes, x)
            BY <1>1, <2>1, <5>1, LeafAtType
          <6> QED BY <1>1, <2>1, <3>3, <6>1 DEF Closed
        <5>2. CASE leaf \in Kept(Bottom(x))
          <6>1. Bottom(x) \in Inner /\ Bottom(x) \in Path /\ IsPrefix(c, Bottom(x))
            BY <2>1, <3>3, <3>5, BottomOf
          <6>2. NodeExists(nodes, Bottom(x))
            BY <1>1, <5>2, <6>1 DEF Kept, RecordsHold
          <6> QED BY <1>1, <3>3, <6>1, <6>2 DEF Closed
        <5> QED BY <2>3, <5>1, <5>2
      <4>2. leaf \in Bound(c)
        BY <1>0, <2>1, <3>3, BoundBelow DEF x
      <4> QED BY <1>5, <3>4, <3>5, <4>1, <4>2
    <3>6. CASE c \notin Inner
      <4>1. Len(c) = KeySize /\ c = x /\ n = KeySize - 1
        BY <1>0, <2>1, <3>2, <3>3, <3>6, PathFacts, InnerOrKey, PrefixMeaning
      <4>2. leaf \in LeafAt(x)
        BY <2>2, <3>2, <4>1 DEF Bottom
      <4>3. NodeExists(nodes, c)
        BY <1>1, <2>1, <4>1, <4>2, LeafAtType
      <4> QED BY <1>5, <3>4, <3>6, <4>1, <4>2, <4>3
    <3> QED BY <3>5, <3>6
  <2> QED BY <2>4, <2>5
<1> HIDE DEF siblings, folded
<1>9. LeafAt(k) \cup siblings = folded
  BY <1>6, <1>7, <1>8
<1> QED BY <1>2, <1>3, <1>9 DEF folded

\* ProofsVerify (generate_proof, verify_proof): the proof of a key verifies
\* exactly as long as the bottom node above it binds no leaf that was pruned.
THEOREM ProofsVerifyUntilPruned == Spec => []ProofsVerify
<1>1. TreeInv => ProofsVerify
  <2> SUFFICES ASSUME TreeInv, NEW k \in Key PROVE VerifyProof(ProofOf(k)) <=> ~LostLeaf(k)
    BY DEF ProofsVerify
  <2>1. Typed /\ PrunedGone /\ KeptKnown /\ RootHash = Bound(<<>>)
    BY RootHashHolds DEF TreeInv
  <2>2. ProofOf(k).root = Bound(<<>>)
    BY <2>1 DEF ProofOf
  <2>3. ASSUME NEW leaf \in Bound(<<>>)
        PROVE  leaf \in LeafAt(leaf[1]) <=> leaf[1] \notin pruned_keys
    <3>1. leaf[1] \in Key /\ (leaf \in LeafAt(leaf[1]) \/ leaf \in Kept(Bottom(leaf[1])))
      BY DEF Bound
    <3>2. Bottom(leaf[1]) \in Inner
      BY <3>1, BottomOf
    <3> QED BY <2>1, <3>1, <3>2 DEF KeptKnown, LeafAt
  <2>4. VerifyProof(ProofOf(k))
          <=> \A leaf \in Bound(<<>>) : leaf \in LeafAt(leaf[1]) \/ Bottom(leaf[1]) # Bottom(k)
    <3>1. VerifyProof(ProofOf(k))
            <=> {leaf \in Bound(<<>>) : leaf \in LeafAt(leaf[1]) \/ Bottom(leaf[1]) # Bottom(k)} = Bound(<<>>)
      BY <2>2, ProofFolds DEF VerifyProof
    <3> QED BY <3>1
  <2>5. LostLeaf(k) <=> \E leaf \in Bound(<<>>) : leaf[1] \in pruned_keys /\ Bottom(leaf[1]) = Bottom(k)
    BY <2>1 DEF LostLeaf
  <2> QED BY <2>3, <2>4, <2>5
<1> QED BY <1>1, TreeInvariant, PTL
=============================================================================
