-------------------------- MODULE VerkleTreeProofs --------------------------
(***************************************************************************)
(* The properties of VerkleTree, proved for every key size, alphabet and   *)
(* batch: the type invariant, the coherence of the caches, what the root   *)
(* binds as long as nothing was revived, and the refinement of             *)
(* AuthenticatedMap.                                                       *)
(***************************************************************************)
EXTENDS VerkleTree, VerkleNodesProofs

USE DEF Leaves

-----------------------------------------------------------------------------
(* Type correctness. *)

\* The batch that apply_state_transition inserts maps keys to values.
LEMMA BatchType ==
  ASSUME NEW b \in Batch, NEW n \in Supply
  PROVE  /\ DOMAIN WithSupply(b, n) \subseteq Key
         /\ \A k \in DOMAIN WithSupply(b, n) : WithSupply(b, n)[k] \in Value
PROOF
  BY CallerAssumption, WithSupplyType

\* A computed commitment is a set of leaves.
LEMMA ComputeCommitmentType ==
  ASSUME TypeOK, NEW p \in Path
  PROVE  ComputeCommitment(p) \in Leaves
PROOF
  <1>1. \A r \in Path : commitment_cache[r] # None => commitment_cache[r] \in Leaves
    BY DEF TypeOK
  <1>2. \A x \in Key : HasValue(nodes, x) => nodes[x] \in Value
    BY PathFacts DEF HasValue, TypeOK, Storage
  <1> DEFINE cached == UNION {commitment_cache[q] : q \in
                          {r \in Path : Visited(p, r) /\ commitment_cache[r] # None}}
             fresh  == {<<k, nodes[k]>> : k \in
                          {x \in Key : /\ Visited(p, x)
                                       /\ commitment_cache[x] = None
                                       /\ HasValue(nodes, x)}}
  <1>3. cached \subseteq Key \X Value
    BY <1>1
  <1>4. fresh \subseteq Key \X Value
    BY <1>2
  <1>5. ComputeCommitment(p) = cached \cup fresh
    BY DEF ComputeCommitment
  <1> HIDE DEF cached, fresh
  <1> QED BY <1>3, <1>4, <1>5

\* The root that get_root returns is a set of leaves.
LEMMA RootHashType ==
  ASSUME TypeOK
  PROVE  RootHash \in Leaves
PROOF
  BY ComputeCommitmentType, PathFacts DEF RootHash, RootCached, TypeOK

\* Filling the cache keeps its type.
LEMMA CacheFromType ==
  ASSUME TypeOK, NEW starts, CacheFrom(starts)
  PROVE  commitment_cache' \in [Path -> {None} \cup Leaves]
PROOF
  BY ComputeCommitmentType DEF CacheFrom, TypeOK

\* Writing a batch keeps the types of what it changes, and the root node.
LEMMA WriteType ==
  ASSUME TypeOK, NEW updates, DOMAIN updates \subseteq Key,
         \A k \in DOMAIN updates : updates[k] \in Value,
         Write(updates)
  PROVE  /\ nodes' \in Storage /\ NodeExists(nodes', <<>>)
         /\ commitment_cache' \in [Path -> {None} \cup Leaves]
         /\ root_cache' \in {None} \cup Leaves
         /\ revived' \in BOOLEAN
PROOF
  <1>1. nodes' \in Storage
    BY InsertAllType DEF TypeOK, Write
  <1>2. NodeExists(nodes', <<>>)
    <2>1. <<>> \notin DOMAIN updates
      BY KeySizeAssumption, PathFacts
    <2> QED BY <2>1, PathFacts, SentinelAssumption DEF TypeOK, Write, InsertAll, NodeExists
  <1>3. commitment_cache' \in [Path -> {None} \cup Leaves] /\ root_cache' \in {None} \cup Leaves
    BY DEF TypeOK, Write, InvalidatePaths
  <1>4. revived' \in BOOLEAN
    BY DEF TypeOK, Write
  <1> QED BY <1>1, <1>2, <1>3, <1>4

\* A new tree is well typed.
LEMMA InitType == Init => TypeOK
PROOF
  BY EmptyStorageType DEF Init, TypeOK, NoCache

\* Every step keeps the types.
LEMMA StepType == TypeOK /\ [Next]_vars => TypeOK'
PROOF
  <1> SUFFICES ASSUME TypeOK, [Next]_vars PROVE TypeOK'
    OBVIOUS
  <1>1. ASSUME NEW k \in Keys, NEW v \in Data, Insert(k, v)
        PROVE  TypeOK'
    <2> DEFINE updates == [x \in {k} |-> v]
    <2>1. DOMAIN updates \subseteq Key /\ \A x \in DOMAIN updates : updates[x] \in Value
      BY CallerAssumption DEF Value
    <2>2. Write(updates) /\ dirty' = TRUE /\ pruned_keys' = pruned_keys
      BY <1>1 DEF Insert
    <2> HIDE DEF updates
    <2> QED BY <2>1, <2>2, WriteType DEF TypeOK
  <1>2. ASSUME NEW b \in Batch, NEW n \in Supply, ApplyStateTransition(b, n)
        PROVE  TypeOK'
    <2>1. CASE SendsToBurn(b)
      BY <1>2, <2>1 DEF ApplyStateTransition, TypeOK
    <2>2. CASE ~SendsToBurn(b)
      <3>1. Write(WithSupply(b, n)) /\ dirty' = TRUE /\ pruned_keys' = pruned_keys
        BY <1>2, <2>2 DEF ApplyStateTransition
      <3> QED BY <3>1, BatchType, WriteType DEF TypeOK
    <2> QED BY <2>1, <2>2
  <1>3. ASSUME NEW k \in Keys, PruneKey(k)
        PROVE  TypeOK'
    <2>0. k \in Key
      BY CallerAssumption
    <2>1. CASE NodeExists(nodes, k)
      <3>1. nodes' = PruneLeaf(nodes, pruned_keys, k)
            /\ pruned_keys' = pruned_keys \cup PrunedPaths(nodes, pruned_keys, k)
            /\ InvalidatePaths({k}) /\ dirty' = TRUE /\ revived' = revived
        BY <1>3, <2>1 DEF PruneKey
      <3>2. nodes' \in Storage /\ NodeExists(nodes', <<>>)
        BY <2>0, <3>1, PruneLeafType DEF TypeOK, NodeExists
      <3>3. pruned_keys' \subseteq Path \ {<<>>}
        BY <2>0, <3>1, PrunedPathsType DEF TypeOK
      <3> QED BY <3>1, <3>2, <3>3 DEF TypeOK, InvalidatePaths
    <2>2. CASE ~NodeExists(nodes, k)
      BY <1>3, <2>2 DEF PruneKey, TypeOK
    <2> QED BY <2>1, <2>2
  <1>4. CASE GetRoot
    BY <1>4, CacheFromType, RootHashType DEF GetRoot, TypeOK
  <1>5. ASSUME NEW k \in Keys, GenerateProof(k)
        PROVE  TypeOK'
    BY <1>5, CacheFromType, RootHashType DEF GenerateProof, TypeOK
  <1>6. CASE Clone
    BY <1>6, EnsureRootType DEF Clone, DropCaches, NoCache, TypeOK
  <1>7. CASE Reopen
    BY <1>7, EnsureRootType DEF Reopen, DropCaches, NoCache, TypeOK
  <1>8. CASE UNCHANGED vars
    BY <1>8 DEF vars, TypeOK
  <1> QED BY <1>1, <1>2, <1>3, <1>4, <1>5, <1>6, <1>7, <1>8 DEF Next

\* The storage, the marks and the caches keep their types, and the root node
\* is never deleted.
THEOREM TypeCorrect == Spec => []TypeOK
PROOF
  BY InitType, StepType, PTL DEF Spec
-----------------------------------------------------------------------------
(* The caches. *)

Coherent == \A p \in Path : commitment_cache[p] # None => commitment_cache[p] = Commitment(nodes, p)

\* The membership of a commitment, unfolded.
LEMMA InCommitment ==
  ASSUME NEW p, NEW k, NEW v
  PROVE  <<k, v>> \in Commitment(nodes, p) <=>
           /\ k \in Key /\ v = nodes[k] /\ IsPrefix(p, k)
           /\ HasValue(nodes, k) /\ Connected(nodes, p, k)
PROOF
  BY DEF Commitment

\* What is connected stays so between two nodes of the way, and two
\* connections that meet make one.
LEMMA ConnectedParts ==
  ASSUME NEW p \in Path, NEW r \in Path, NEW k \in Path, IsPrefix(p, r), IsPrefix(r, k)
  PROVE  Connected(nodes, p, k) <=> Connected(nodes, p, r) /\ Connected(nodes, r, k)
PROOF
  <1>1. ASSUME Connected(nodes, p, k) PROVE Connected(nodes, p, r)
    <2>1. \A t \in Path : IsPrefix(t, r) => IsPrefix(t, k)
      BY PrefixOrder
    <2> QED BY <1>1, <2>1 DEF Connected
  <1>2. ASSUME Connected(nodes, p, k) PROVE Connected(nodes, r, k)
    <2>1. \A t \in Path : IsStrictPrefix(r, t) => IsStrictPrefix(p, t)
      BY PrefixOrder, PrefixMeaning, PathFacts
    <2> QED BY <1>2, <2>1 DEF Connected
  <1>3. ASSUME Connected(nodes, p, r), Connected(nodes, r, k) PROVE Connected(nodes, p, k)
    <2>1. ASSUME NEW t \in Path, IsStrictPrefix(p, t), IsPrefix(t, k)
          PROVE  NodeExists(nodes, t)
      <3>1. IsPrefix(t, r) \/ IsPrefix(r, t)
        BY <2>1, PrefixOrder
      <3>2. CASE IsPrefix(t, r)
        BY <1>3, <2>1, <3>2 DEF Connected
      <3>3. CASE IsPrefix(r, t) /\ ~IsPrefix(t, r)
        <4>1. IsStrictPrefix(r, t)
          BY <3>3 DEF IsStrictPrefix
        <4> QED BY <1>3, <2>1, <4>1 DEF Connected
      <3> QED BY <3>1, <3>2, <3>3
    <2> QED BY <2>1 DEF Connected
  <1> QED BY <1>1, <1>2, <1>3

\* The recursion that stops at cached nodes returns what the recursion without
\* a cache returns.
LEMMA ComputeCorrect ==
  ASSUME TypeOK, Coherent, NEW p \in Path
  PROVE  ComputeCommitment(p) = Commitment(nodes, p)
PROOF
  <1> DEFINE cached == UNION {commitment_cache[q] : q \in
                          {r \in Path : Visited(p, r) /\ commitment_cache[r] # None}}
             fresh  == {<<k, nodes[k]>> : k \in
                          {x \in Key : /\ Visited(p, x)
                                       /\ commitment_cache[x] = None
                                       /\ HasValue(nodes, x)}}
  <1>1. ComputeCommitment(p) = cached \cup fresh
    BY DEF ComputeCommitment
  <1>2. cached \subseteq Commitment(nodes, p)
    <2>1. SUFFICES ASSUME NEW r \in Path, Visited(p, r), commitment_cache[r] # None,
                          NEW kv \in commitment_cache[r]
                   PROVE  kv \in Commitment(nodes, p)
      OBVIOUS
    <2>2. kv \in Commitment(nodes, r)
      BY <2>1 DEF Coherent
    <2>3. PICK k \in Key : /\ kv = <<k, nodes[k]>> /\ IsPrefix(r, k)
                           /\ HasValue(nodes, k) /\ Connected(nodes, r, k)
      BY <2>2 DEF Commitment
    <2>4. k \in Path /\ IsPrefix(p, r) /\ Connected(nodes, p, r)
      BY <2>1, PathFacts DEF Visited
    <2>5. IsPrefix(p, k) /\ Connected(nodes, p, k)
      BY <2>3, <2>4, ConnectedParts, PrefixOrder
    <2> QED BY <2>3, <2>5 DEF Commitment
  <1>3. fresh \subseteq Commitment(nodes, p)
    BY PathFacts DEF Visited, Commitment
  <1>4. ASSUME NEW k \in Key, IsPrefix(p, k), HasValue(nodes, k), Connected(nodes, p, k)
        PROVE  <<k, nodes[k]>> \in cached \cup fresh
    <2> DEFINE way  == {r \in Path : IsPrefix(p, r) /\ IsPrefix(r, k) /\ commitment_cache[r] # None}
               lens == {Len(r) : r \in way}
    <2>0. k \in Path
      BY PathFacts
    <2>1. CASE way = {}
      <3>1. \A r \in Path : IsPrefix(p, r) /\ IsStrictPrefix(r, k) => commitment_cache[r] = None
        BY <2>1 DEF IsStrictPrefix
      <3>2. commitment_cache[k] = None
        BY <1>4, <2>0, <2>1, PrefixOrder
      <3>3. Visited(p, k)
        BY <1>4, <3>1 DEF Visited
      <3> QED BY <1>4, <3>2, <3>3
    <2>2. CASE way # {}
      <3>0. \A r \in Path : Len(r) \in Nat
        BY PathFacts, KeySizeAssumption
      <3>1. lens # {} /\ lens \in SUBSET Nat
        BY <2>2, <3>0
      <3>2. PICK r \in way : \A t \in way : Len(r) <= Len(t)
        <4> HIDE DEF lens
        <4>1. PICK n \in lens : \A m \in lens : n <= m
          BY <3>1, LeastNat
        <4> QED BY <4>1 DEF lens
      <3>3. r \in Path /\ IsPrefix(p, r) /\ IsPrefix(r, k) /\ commitment_cache[r] # None
        OBVIOUS
      <3>4. Connected(nodes, p, r) /\ Connected(nodes, r, k)
        BY <1>4, <2>0, <3>3, ConnectedParts
      <3>5. ASSUME NEW t \in Path, IsPrefix(p, t), IsStrictPrefix(t, r)
            PROVE  commitment_cache[t] = None
        <4>1. IsPrefix(t, k) /\ Len(t) < Len(r)
          BY <2>0, <3>3, <3>5, PrefixOrder, PrefixMeaning
        <4>2. Len(t) \in Nat /\ Len(r) \in Nat
          BY <3>0
        <4>3. t \notin way
          BY <3>2, <4>1, <4>2
        <4> QED BY <3>5, <4>1, <4>3
      <3>6. Visited(p, r)
        BY <3>3, <3>4, <3>5 DEF Visited
      <3>7. <<k, nodes[k]>> \in commitment_cache[r]
        BY <1>4, <3>3, <3>4 DEF Coherent, Commitment
      <3> QED BY <3>3, <3>6, <3>7
    <2> QED BY <2>1, <2>2
  <1>5. Commitment(nodes, p) \subseteq cached \cup fresh
    <2> HIDE DEF cached, fresh
    <2> QED BY <1>4 DEF Commitment
  <1> HIDE DEF cached, fresh
  <1> QED BY <1>1, <1>2, <1>3, <1>5

\* A commitment reads only the nodes from its own on.
LEMMA CommitmentLocal ==
  ASSUME NEW p \in Path, \A r \in Path : IsPrefix(p, r) => nodes'[r] = nodes[r]
  PROVE  Commitment(nodes', p) = Commitment(nodes, p)
PROOF
  <1>1. ASSUME NEW x \in Key, IsPrefix(p, x)
        PROVE  /\ nodes'[x] = nodes[x]
               /\ HasValue(nodes', x) <=> HasValue(nodes, x)
               /\ Connected(nodes', p, x) <=> Connected(nodes, p, x)
    <2>1. nodes'[x] = nodes[x]
      BY <1>1, PathFacts
    <2>2. Connected(nodes', p, x) <=> Connected(nodes, p, x)
      BY DEF Connected, NodeExists, IsStrictPrefix
    <2> QED BY <2>1, <2>2 DEF HasValue
  <1> QED BY <1>1 DEF Commitment

\* A cache from which every prefix of a touched path was removed is coherent.
LEMMA InvalidateCoherent ==
  ASSUME TypeOK, Coherent, NEW paths \in SUBSET Path, InvalidatePaths(paths),
         \A r \in Path : nodes'[r] # nodes[r] => \E q \in paths : IsPrefix(r, q)
  PROVE  Coherent'
PROOF
  <1> SUFFICES ASSUME NEW p \in Path, commitment_cache'[p] # None
               PROVE  commitment_cache'[p] = Commitment(nodes', p)
    BY DEF Coherent
  <1>1. /\ commitment_cache'[p] = commitment_cache[p] /\ commitment_cache[p] # None
        /\ \A q \in paths : ~IsPrefix(p, q)
    BY DEF InvalidatePaths
  <1>2. ASSUME NEW r \in Path, IsPrefix(p, r)
        PROVE  nodes'[r] = nodes[r]
    BY <1>1, <1>2, PrefixOrder
  <1>3. Commitment(nodes', p) = Commitment(nodes, p)
    BY <1>2, CommitmentLocal
  <1> QED BY <1>1, <1>3 DEF Coherent

\* Filling a coherent cache keeps it coherent.
LEMMA CacheFromCoherent ==
  ASSUME TypeOK, Coherent, NEW starts, CacheFrom(starts), nodes' = nodes
  PROVE  Coherent'
PROOF
  BY ComputeCorrect DEF CacheFrom, Coherent

\* The invalidation done by a write is enough for the cache to stay coherent.
LEMMA WriteCoherent ==
  ASSUME TypeOK, Coherent, NEW updates, DOMAIN updates \subseteq Key, Write(updates)
  PROVE  Coherent' /\ root_cache' = None
PROOF
  <1>1. DOMAIN updates \in SUBSET Path /\ InvalidatePaths(DOMAIN updates)
    BY PathFacts DEF Write
  <1>2. ASSUME NEW r \in Path, nodes'[r] # nodes[r]
        PROVE  \E q \in DOMAIN updates : IsPrefix(r, q)
    <2>1. CASE r \in DOMAIN updates
      BY <2>1, PrefixOrder
    <2>2. CASE r \notin DOMAIN updates
      BY <1>2, <2>2 DEF Write, InsertAll, TypeOK, NodeExists
    <2> QED BY <2>1, <2>2
  <1>3. root_cache' = None
    BY DEF Write, InvalidatePaths
  <1> QED BY <1>1, <1>2, <1>3, InvalidateCoherent

\* The invalidation done by prune_key is enough, cleanup included.
LEMMA PruneCoherent ==
  ASSUME TypeOK, Coherent, NEW k \in Key, nodes' = PruneLeaf(nodes, pruned_keys, k),
         InvalidatePaths({k})
  PROVE  Coherent'
PROOF
  <1>1. {k} \in SUBSET Path
    BY PathFacts
  <1>2. ASSUME NEW r \in Path, nodes'[r] # nodes[r]
        PROVE  \E q \in {k} : IsPrefix(r, q)
    BY <1>2, PrunedPathsOnWay DEF PruneLeaf, TypeOK, Storage
  <1> QED BY <1>1, <1>2, InvalidateCoherent

\* A root served from the cache is that of the stored nodes.
RootCoherent == RootCached => root_cache = RootOf(nodes)

\* With coherent caches get_root returns the root of the stored nodes.
LEMMA RootHashCorrect ==
  ASSUME TypeOK, Coherent, RootCoherent
  PROVE  RootHash = RootOf(nodes)
PROOF
  BY ComputeCorrect, PathFacts DEF RootHash, RootCoherent, RootOf

CacheInv == TypeOK /\ Coherent /\ RootCoherent

\* A new tree has coherent caches.
LEMMA InitCache == Init => CacheInv
PROOF
  BY InitType DEF Init, CacheInv, Coherent, RootCoherent, RootCached, NoCache

\* Every step keeps the caches coherent.
LEMMA StepCache == CacheInv /\ [Next]_vars => CacheInv'
PROOF
  <1> SUFFICES ASSUME CacheInv, [Next]_vars PROVE CacheInv'
    OBVIOUS
  <1>0. TypeOK /\ Coherent /\ RootCoherent /\ TypeOK'
    BY StepType DEF CacheInv
  <1> SUFFICES Coherent' /\ RootCoherent'
    BY <1>0 DEF CacheInv
  <1>1. ASSUME NEW k \in Keys, NEW v \in Data, Insert(k, v)
        PROVE  Coherent' /\ RootCoherent'
    <2> DEFINE updates == [x \in {k} |-> v]
    <2>1. DOMAIN updates \subseteq Key
      BY CallerAssumption
    <2>2. Write(updates) /\ dirty' = TRUE
      BY <1>1 DEF Insert
    <2> HIDE DEF updates
    <2> QED BY <1>0, <2>1, <2>2, WriteCoherent DEF RootCoherent, RootCached
  <1>2. ASSUME NEW b \in Batch, NEW n \in Supply, ApplyStateTransition(b, n)
        PROVE  Coherent' /\ RootCoherent'
    <2>1. CASE SendsToBurn(b)
      BY <1>0, <1>2, <2>1 DEF ApplyStateTransition, Coherent, RootCoherent, RootCached
    <2>2. CASE ~SendsToBurn(b)
      BY <1>0, <1>2, <2>2, BatchType, WriteCoherent
         DEF ApplyStateTransition, RootCoherent, RootCached
    <2> QED BY <2>1, <2>2
  <1>3. ASSUME NEW k \in Keys, PruneKey(k)
        PROVE  Coherent' /\ RootCoherent'
    <2>1. k \in Key /\ dirty' = TRUE
      BY <1>3, CallerAssumption DEF PruneKey
    <2>2. CASE NodeExists(nodes, k)
      BY <1>0, <1>3, <2>1, <2>2, PruneCoherent DEF PruneKey, RootCoherent, RootCached
    <2>3. CASE ~NodeExists(nodes, k)
      BY <1>0, <1>3, <2>1, <2>3 DEF PruneKey, Coherent, RootCoherent, RootCached
    <2> QED BY <2>2, <2>3
  <1>4. CASE GetRoot
    <2>1. Coherent'
      BY <1>0, <1>4, CacheFromCoherent DEF GetRoot, Coherent
    <2>2. RootCoherent'
      BY <1>0, <1>4, RootHashCorrect DEF GetRoot, RootCoherent
    <2> QED BY <2>1, <2>2
  <1>5. ASSUME NEW k \in Keys, GenerateProof(k)
        PROVE  Coherent' /\ RootCoherent'
    <2>1. Coherent'
      BY <1>0, <1>5, CacheFromCoherent DEF GenerateProof
    <2>2. RootCoherent'
      BY <1>0, <1>5, RootHashCorrect DEF GenerateProof, RootCoherent
    <2> QED BY <2>1, <2>2
  <1>6. CASE Clone
    BY <1>6 DEF Clone, DropCaches, NoCache, Coherent, RootCoherent, RootCached
  <1>7. CASE Reopen
    BY <1>7 DEF Reopen, DropCaches, NoCache, Coherent, RootCoherent, RootCached
  <1>8. CASE UNCHANGED vars
    BY <1>0, <1>8 DEF vars, Coherent, RootCoherent, RootCached
  <1> QED BY <1>1, <1>2, <1>3, <1>4, <1>5, <1>6, <1>7, <1>8 DEF Next

\* No cached commitment and no cached root is ever stale.
THEOREM CachesCoherent == Spec => []CacheCoherent
PROOF
  <1>1. CacheInv => CacheCoherent
    BY DEF CacheInv, Coherent, RootCoherent, CacheCoherent
  <1> QED BY <1>1, InitCache, StepCache, PTL DEF Spec
-----------------------------------------------------------------------------
(* What the root binds, as long as nothing was revived. *)

\* Every prefix of a node is a node, and no marked path is one.
PrefixClosed == \A p, q \in Path : NodeExists(nodes, q) /\ IsPrefix(p, q) => NodeExists(nodes, p)
Unmarked     == \A p \in pruned_keys : ~NodeExists(nodes, p)

LeafInv == TypeOK /\ (~revived => PrefixClosed /\ Unmarked)

\* In a prefix-closed storage the root binds exactly the stored leaves.
StoredLeaves == {<<k, nodes[k]>> : k \in {x \in Key : HasValue(nodes, x)}}

\* When every prefix of a stored path exists, the root binds all stored leaves.
LEMMA RootBindsLeaves == PrefixClosed => RootOf(nodes) = StoredLeaves
PROOF
  <1> SUFFICES ASSUME PrefixClosed PROVE RootOf(nodes) = StoredLeaves
    OBVIOUS
  <1>1. ASSUME NEW k \in Key, HasValue(nodes, k)
        PROVE  Connected(nodes, <<>>, k) /\ IsPrefix(<<>>, k)
    <2>1. NodeExists(nodes, k) /\ k \in Path
      BY <1>1, PathFacts DEF HasValue, NodeExists
    <2>2. Connected(nodes, <<>>, k)
      BY <2>1 DEF PrefixClosed, Connected
    <2> QED BY <2>1, <2>2, PrefixOrder
  <1> QED BY <1>1 DEF RootOf, Commitment, StoredLeaves

\* A write that revives nothing keeps the storage prefix-closed and unmarked.
LEMMA WriteKeepsLeaves ==
  ASSUME TypeOK, PrefixClosed, Unmarked, NEW updates, DOMAIN updates \subseteq Key,
         \A k \in DOMAIN updates : updates[k] \in Value,
         Write(updates), ~revived', pruned_keys' = pruned_keys
  PROVE  PrefixClosed' /\ Unmarked'
PROOF
  <1> DEFINE touched(p) == \E k \in DOMAIN updates : IsPrefix(p, k)
  <1>1. \A p \in Path : NodeExists(nodes', p) <=> touched(p) \/ NodeExists(nodes, p)
    <2> TAKE p \in Path
    <2>0. NodeExists(nodes, <<>>) /\ \A k \in DOMAIN updates : IsPrefix(k, k)
      BY PathFacts, PrefixOrder DEF TypeOK
    <2>1. CASE p \in DOMAIN updates
      BY <2>0, <2>1, SentinelAssumption DEF Write, InsertAll, NodeExists
    <2>2. CASE p \notin DOMAIN updates
      BY <2>0, <2>2, SentinelAssumption DEF Write, InsertAll, NodeExists
    <2> QED BY <2>1, <2>2
  <1>2. PrefixClosed'
    <2>1. ASSUME NEW p \in Path, NEW q \in Path, NodeExists(nodes', q), IsPrefix(p, q)
          PROVE  NodeExists(nodes', p)
      <3>1. CASE touched(q)
        <4>1. PICK k \in DOMAIN updates : IsPrefix(q, k)
          BY <3>1
        <4>2. IsPrefix(p, k)
          BY <2>1, <4>1, PathFacts, PrefixOrder
        <4> QED BY <1>1, <4>2
      <3>2. CASE NodeExists(nodes, q)
        BY <1>1, <2>1, <3>2 DEF PrefixClosed
      <3> QED BY <1>1, <2>1, <3>1, <3>2
    <2> QED BY <2>1 DEF PrefixClosed
  <1>3. Unmarked'
    <2>1. \A p \in pruned_keys : ~touched(p)
      BY DEF Write
    <2> QED BY <1>1, <2>1 DEF Unmarked, TypeOK
  <1> QED BY <1>2, <1>3

\* The cleanup deletes a prefix of the key only when every node below it is
\* deleted as well.
LEMMA PruneKeepsLeaves ==
  ASSUME TypeOK, PrefixClosed, Unmarked, NEW k \in Key,
         nodes' = PruneLeaf(nodes, pruned_keys, k),
         pruned_keys' = pruned_keys \cup PrunedPaths(nodes, pruned_keys, k)
  PROVE  PrefixClosed' /\ Unmarked'
PROOF
  <1> DEFINE cut == PrunedPaths(nodes, pruned_keys, k)
  <1>0. /\ KeySize \in Nat \ {0} /\ k \in Path /\ Len(k) = KeySize
        /\ cut \subseteq Path \ {<<>>}
    BY PathFacts, KeySizeAssumption, PrunedPathsType
  <1>1. \A p \in Path : NodeExists(nodes', p) <=> NodeExists(nodes, p) /\ p \notin cut
    BY DEF PruneLeaf, NodeExists
  <1>2. Unmarked'
    BY <1>0, <1>1 DEF Unmarked, TypeOK
  <1>3. ASSUME NEW p \in Path, NEW q \in Path, NodeExists(nodes, q), IsPrefix(p, q), p \in cut
        PROVE  q \in cut
    <2>1. SUFFICES ASSUME q \notin cut PROVE FALSE
      OBVIOUS
    <2>2. nodes \in Storage
      BY DEF TypeOK
    <2>3. PICK c \in Path \ {<<>>} : /\ IsPrefix(p, c) /\ IsPrefix(c, q) /\ ~IsPrefix(c, k)
                                     /\ NodeExists(nodes, c) => c \in pruned_keys
      BY <1>3, <2>1, <2>2, CleanupPassesOver
    <2>4. NodeExists(nodes, c)
      BY <1>3, <2>3 DEF PrefixClosed
    <2> QED BY <2>3, <2>4 DEF Unmarked
  <1>4. PrefixClosed'
    <2>1. ASSUME NEW p \in Path, NEW q \in Path, NodeExists(nodes', q), IsPrefix(p, q)
          PROVE  NodeExists(nodes', p)
      <3>1. NodeExists(nodes, q) /\ q \notin cut
        BY <1>1, <2>1
      <3>2. NodeExists(nodes, p)
        BY <2>1, <3>1 DEF PrefixClosed
      <3>3. p \notin cut
        BY <1>3, <2>1, <3>1
      <3> QED BY <1>1, <3>2, <3>3
    <2> QED BY <2>1 DEF PrefixClosed
  <1> QED BY <1>2, <1>4

\* A new tree is prefix-closed and has no mark.
LEMMA InitLeaf == Init => LeafInv
PROOF
  <1> SUFFICES ASSUME Init PROVE LeafInv
    OBVIOUS
  <1>1. \A p \in Path : NodeExists(nodes, p) <=> p = <<>>
    BY SentinelAssumption DEF Init, EmptyStorage, NodeExists
  <1>2. \A p \in Path : IsPrefix(p, <<>>) => p = <<>>
    BY PathFacts, PrefixOrder, PrefixMeaning
  <1> QED BY <1>1, <1>2, InitType DEF Init, LeafInv, PrefixClosed, Unmarked

\* Every step keeps what LeafInv says.
LEMMA StepLeaf == LeafInv /\ [Next]_vars => LeafInv'
PROOF
  <1> SUFFICES ASSUME LeafInv, [Next]_vars, ~revived'
               PROVE  PrefixClosed' /\ Unmarked'
    BY StepType DEF LeafInv
  <1>0. TypeOK
    BY DEF LeafInv
  <1>1. ~revived
    BY <1>0 DEF Next, vars, Insert, ApplyStateTransition, Write, PruneKey, GetRoot,
                GenerateProof, Clone, Reopen, DropCaches, TypeOK
  <1>2. PrefixClosed /\ Unmarked
    BY <1>1 DEF LeafInv
  <1>3. ASSUME nodes' = nodes, pruned_keys' \subseteq pruned_keys
        PROVE  PrefixClosed' /\ Unmarked'
    BY <1>2, <1>3 DEF PrefixClosed, Unmarked
  <1>4. ASSUME NEW k \in Keys, NEW v \in Data, Insert(k, v)
        PROVE  PrefixClosed' /\ Unmarked'
    <2> DEFINE updates == [x \in {k} |-> v]
    <2>1. DOMAIN updates \subseteq Key /\ \A x \in DOMAIN updates : updates[x] \in Value
      BY CallerAssumption DEF Value
    <2>2. Write(updates) /\ pruned_keys' = pruned_keys
      BY <1>4 DEF Insert
    <2> HIDE DEF updates
    <2> QED BY <1>0, <1>2, <2>1, <2>2, WriteKeepsLeaves
  <1>5. ASSUME NEW b \in Batch, NEW n \in Supply, ApplyStateTransition(b, n)
        PROVE  PrefixClosed' /\ Unmarked'
    <2>1. CASE SendsToBurn(b)
      BY <1>3, <1>5, <2>1 DEF ApplyStateTransition
    <2>2. CASE ~SendsToBurn(b)
      BY <1>0, <1>2, <1>5, <2>2, BatchType, WriteKeepsLeaves DEF ApplyStateTransition
    <2> QED BY <2>1, <2>2
  <1>6. ASSUME NEW k \in Keys, PruneKey(k)
        PROVE  PrefixClosed' /\ Unmarked'
    <2>1. k \in Key
      BY CallerAssumption
    <2>2. CASE NodeExists(nodes, k)
      BY <1>0, <1>2, <1>6, <2>1, <2>2, PruneKeepsLeaves DEF PruneKey
    <2>3. CASE ~NodeExists(nodes, k)
      BY <1>3, <1>6, <2>3 DEF PruneKey
    <2> QED BY <2>2, <2>3
  <1>7. CASE GetRoot
    BY <1>3, <1>7 DEF GetRoot
  <1>8. ASSUME NEW k \in Keys, GenerateProof(k)
        PROVE  PrefixClosed' /\ Unmarked'
    BY <1>3, <1>8 DEF GenerateProof
  <1>9. CASE Clone
    BY <1>0, <1>3, <1>9 DEF Clone, DropCaches, EnsureRoot, TypeOK
  <1>10. CASE Reopen
    BY <1>0, <1>3, <1>10 DEF Reopen, DropCaches, EnsureRoot, TypeOK
  <1>11. CASE UNCHANGED vars
    BY <1>3, <1>11 DEF vars
  <1> QED BY <1>4, <1>5, <1>6, <1>7, <1>8, <1>9, <1>10, <1>11 DEF Next

\* Until something is revived, the storage is closed under prefixes and no stored
\* path is marked pruned: what insert, prune_key and the cleanup maintain together.
THEOREM LeafInvariant == Spec => []LeafInv
PROOF
  BY InitLeaf, StepLeaf, PTL DEF Spec

\* Until a key is written below a pruned path, the root commits to every
\* stored leaf.
THEOREM LeavesCommitted == Spec => []LiveLeavesCommitted
PROOF
  <1>1. LeafInv => LiveLeavesCommitted
    BY RootBindsLeaves DEF LeafInv, LiveLeavesCommitted, StoredLeaves
  <1> QED BY <1>1, LeafInvariant, PTL

\* Until then, get and generate_proof tell the same of every key.
THEOREM ReadsAgreeWithProofs == Spec => []ReadsMatchProofs
PROOF
  <1>1. LeafInv => ReadsMatchProofs
    <2> SUFFICES ASSUME LeafInv, ~revived, NEW k \in Key
                 PROVE  (Get(nodes, pruned_keys, k) = "value") <=> (ProofOf(k).leaf # {})
      BY DEF ReadsMatchProofs
    <2>1. PrefixClosed /\ Unmarked /\ k \in Path
      BY PathFacts DEF LeafInv
    <2>2. HasValue(nodes, k) => NodeExists(nodes, k)
      BY DEF HasValue, NodeExists
    <2>3. HasValue(nodes, k) => k \notin pruned_keys /\ Connected(nodes, <<>>, k)
      BY <2>1, <2>2 DEF PrefixClosed, Unmarked, Connected
    <2>4. (Get(nodes, pruned_keys, k) = "value") <=> HasValue(nodes, k)
      BY <2>3 DEF Get
    <2>5. (ProofOf(k).leaf # {}) <=> HasValue(nodes, k)
      BY <2>3 DEF ProofOf
    <2> QED BY <2>4, <2>5
  <1> QED BY <1>1, LeafInvariant, PTL
-----------------------------------------------------------------------------
(* Proofs of membership and of absence. *)

\* A node connected to the root, and what is connected below it.
LEMMA RootThrough ==
  ASSUME NEW c \in Path, NEW x \in Key, IsPrefix(c, x)
  PROVE  Connected(nodes, <<>>, x) <=> Connected(nodes, <<>>, c) /\ Connected(nodes, c, x)
PROOF
  BY PathFacts, PrefixOrder, ConnectedParts

\* The siblings on the way to a key bind the leaves that the key is not.
LEMMA SiblingsBind ==
  ASSUME TypeOK, NEW k \in Key, NEW x \in Key, x # k
  PROVE  (/\ HasValue(nodes, x) /\ Connected(nodes, <<>>, x))
         <=> \E c \in ProofChildren(k) : ~IsPrefix(c, k) /\ <<x, nodes[x]>> \in Commitment(nodes, c)
PROOF
  <1>0. /\ KeySize \in Nat \ {0} /\ k \in Path /\ x \in Path
        /\ Len(k) = KeySize /\ Len(x) = KeySize
    BY PathFacts, KeySizeAssumption
  <1>1. ASSUME HasValue(nodes, x), Connected(nodes, <<>>, x)
        PROVE  \E c \in ProofChildren(k) :
                 ~IsPrefix(c, k) /\ <<x, nodes[x]>> \in Commitment(nodes, c)
    <2>1. ~IsPrefix(x, k)
      BY <1>0, PrefixMeaning
    <2>2. PICK d \in 0..Len(x) - 1 : /\ d \in 0..KeySize - 1
                                     /\ SubSeq(x, 1, d) = SubSeq(k, 1, d)
                                     /\ ~IsPrefix(SubSeq(x, 1, d + 1), k)
      BY <1>0, <2>1, Divergence
    <2>3. /\ d \in Nat /\ d < KeySize /\ d \in 0..Len(x) /\ d \in 0..Len(k)
          /\ d + 1 \in 0..Len(x)
      BY <1>0, <2>2
    <2>4. PICK q \in Path : q = SubSeq(x, 1, d) /\ Len(q) = d /\ IsPrefix(q, x)
      BY <1>0, <2>3, PrefixAt
    <2>5. PICK c \in Path : c = SubSeq(x, 1, d + 1) /\ Len(c) = d + 1 /\ IsPrefix(c, x)
      BY <1>0, <2>3, PrefixAt
    <2>6. q = SubSeq(k, 1, d)
      BY <2>2, <2>4
    <2>7. IsPrefix(q, k)
      BY <1>0, <2>3, <2>6, PrefixAt
    <2>8. IsStrictPrefix(q, k)
      BY <1>0, <2>3, <2>4, <2>7, PrefixMeaning
    <2>9. IsPrefix(q, x) /\ IsPrefix(c, x) /\ Len(q) <= Len(c)
      BY <2>3, <2>4, <2>5
    <2>10. IsPrefix(q, c)
      BY <1>0, <2>9, PrefixOrder
    <2>11. Connected(nodes, <<>>, q) /\ Connected(nodes, <<>>, c) /\ Connected(nodes, c, x)
      BY <1>1, <2>9, RootThrough
    <2>12. NodeExists(nodes, c)
      <3>1. IsPrefix(<<>>, c) /\ Len(<<>>) < Len(c)
        BY <2>3, <2>5, PrefixOrder
      <3>2. IsStrictPrefix(<<>>, c) /\ IsPrefix(c, c)
        BY <3>1, PathFacts, PrefixMeaning, PrefixOrder
      <3> QED BY <2>11, <3>2 DEF Connected
    <2>13. c \in Children(q)
      BY <2>4, <2>5, <2>10, <2>12 DEF Children
    <2>14. c \in ProofChildren(k)
      BY <2>8, <2>11, <2>13 DEF ProofChildren
    <2>15. ~IsPrefix(c, k)
      BY <2>2, <2>5
    <2>16. <<x, nodes[x]>> \in Commitment(nodes, c)
      BY <1>1, <2>9, <2>11, InCommitment
    <2> QED BY <2>14, <2>15, <2>16
  <1>2. ASSUME NEW c \in ProofChildren(k), ~IsPrefix(c, k),
               <<x, nodes[x]>> \in Commitment(nodes, c)
        PROVE  HasValue(nodes, x) /\ Connected(nodes, <<>>, x)
    <2>1. PICK q \in Path : IsStrictPrefix(q, k) /\ Connected(nodes, <<>>, q) /\ c \in Children(q)
      BY <1>2 DEF ProofChildren
    <2>2. c \in Path /\ Len(c) = Len(q) + 1 /\ IsPrefix(q, c) /\ NodeExists(nodes, c)
      BY <2>1 DEF Children
    <2>3. HasValue(nodes, x) /\ IsPrefix(c, x) /\ Connected(nodes, c, x)
      BY <1>2, InCommitment
    <2>4. Connected(nodes, q, c)
      <3>1. ASSUME NEW r \in Path, IsStrictPrefix(q, r), IsPrefix(r, c)
            PROVE  r = c
        <4>1. Len(q) < Len(r) /\ Len(r) <= Len(c)
          BY <2>2, <3>1, PrefixMeaning
        <4>2. Len(q) \in Nat /\ Len(r) \in Nat /\ Len(c) \in Nat
          BY <1>0, <2>2, PathFacts
        <4>3. Len(r) = Len(c)
          BY <2>2, <4>1, <4>2
        <4> QED BY <2>2, <3>1, <4>3, PrefixMeaning
      <3> QED BY <2>2, <3>1 DEF Connected
    <2>5. Connected(nodes, <<>>, c)
      <3>1. IsPrefix(<<>>, q) /\ <<>> \in Path
        BY PathFacts, PrefixOrder
      <3> QED BY <2>1, <2>2, <2>4, <3>1, ConnectedParts
    <2> QED BY <2>2, <2>3, <2>5, RootThrough
  <1> QED BY <1>1, <1>2

\* A proof generated in any reachable state, of any key, verifies.
THEOREM EveryProofVerifies == Spec => []ProofsVerify
PROOF
  <1>1. CacheInv => ProofsVerify
    <2> SUFFICES ASSUME CacheInv, NEW k \in Key PROVE VerifyProof(ProofOf(k))
      BY DEF ProofsVerify
    <2>0. TypeOK /\ Coherent /\ RootCoherent /\ k \in Path
      BY PathFacts DEF CacheInv
    <2> DEFINE leaf == {<<x, nodes[x]>> : x \in
                          {y \in {k} : Connected(nodes, <<>>, y) /\ HasValue(nodes, y)}}
               away == {d \in ProofChildren(k) : ~IsPrefix(d, k)}
               siblings == UNION {ComputeCommitment(c) : c \in away}
    <2>1. ProofOf(k) = [leaf |-> leaf, siblings |-> siblings, root |-> RootHash]
      BY DEF ProofOf
    <2>2. away \subseteq Path
      BY DEF ProofChildren, Children
    <2>3. \A kv : kv \in siblings <=> \E c \in away : kv \in Commitment(nodes, c)
      BY <2>0, <2>2, ComputeCorrect
    <2>4. ASSUME NEW c \in away PROVE <<k, nodes[k]>> \notin Commitment(nodes, c)
      BY InCommitment
    <2>5. ASSUME NEW x \in Key
          PROVE  <<x, nodes[x]>> \in RootOf(nodes) <=>
                   HasValue(nodes, x) /\ Connected(nodes, <<>>, x)
      BY PathFacts, PrefixOrder, InCommitment DEF RootOf
    <2>6. \A kv \in RootOf(nodes) : \E x \in Key : kv = <<x, nodes[x]>>
      BY DEF RootOf, Commitment
    <2>7. \A c \in away : \A kv \in Commitment(nodes, c) : \E x \in Key : kv = <<x, nodes[x]>>
      BY DEF Commitment
    <2>8. ASSUME NEW x \in Key
          PROVE  <<x, nodes[x]>> \in leaf \cup siblings <=> <<x, nodes[x]>> \in RootOf(nodes)
      <3>1. CASE x = k
        <4>1. <<k, nodes[k]>> \in leaf <=> Connected(nodes, <<>>, k) /\ HasValue(nodes, k)
          OBVIOUS
        <4>2. <<k, nodes[k]>> \notin siblings
          <5> HIDE DEF siblings, away
          <5> QED BY <2>3, <2>4
        <4> QED BY <2>5, <3>1, <4>1, <4>2
      <3>2. CASE x # k
        <4>1. <<x, nodes[x]>> \notin leaf
          BY <3>2
        <4>2. <<x, nodes[x]>> \in siblings <=>
                \E c \in ProofChildren(k) : ~IsPrefix(c, k) /\ <<x, nodes[x]>> \in Commitment(nodes, c)
          <5> HIDE DEF siblings
          <5> QED BY <2>3
        <4>3. <<x, nodes[x]>> \in siblings <=> HasValue(nodes, x) /\ Connected(nodes, <<>>, x)
          BY <2>0, <3>2, <4>2, SiblingsBind
        <4> QED BY <2>5, <4>1, <4>3
      <3> QED BY <3>1, <3>2
    <2>9. \A kv \in leaf \cup siblings : \E x \in Key : kv = <<x, nodes[x]>>
      <3> HIDE DEF siblings, away
      <3> QED BY <2>3, <2>7
    <2>10. leaf \cup siblings = RootOf(nodes)
      <3> HIDE DEF siblings, leaf
      <3>1. leaf \cup siblings \subseteq RootOf(nodes)
        BY <2>8, <2>9
      <3>2. RootOf(nodes) \subseteq leaf \cup siblings
        BY <2>6, <2>8
      <3> QED BY <3>1, <3>2
    <2>11. RootHash = RootOf(nodes)
      BY <2>0, RootHashCorrect
    <2> HIDE DEF leaf, siblings
    <2> QED BY <2>1, <2>10, <2>11 DEF VerifyProof
  <1> QED BY <1>1, InitCache, StepCache, PTL DEF Spec

-----------------------------------------------------------------------------
(* The refinement. *)

\* A write is a Put of the authenticated map.
LEMMA WritePuts ==
  ASSUME TypeOK, NEW updates, DOMAIN updates \subseteq Key,
         \A k \in DOMAIN updates : updates[k] \in Value, Write(updates)
  PROVE  StoredLeaves' = {kv \in StoredLeaves : kv[1] \notin DOMAIN updates}
                           \cup {<<k, updates[k]>> : k \in DOMAIN updates}
PROOF
  <1>1. ASSUME NEW x \in DOMAIN updates
        PROVE  nodes'[x] = updates[x] /\ HasValue(nodes', x)
    BY <1>1, PathFacts, SentinelAssumption DEF Write, InsertAll, HasValue
  <1>2. ASSUME NEW x \in Key, x \notin DOMAIN updates
        PROVE  HasValue(nodes', x) <=> HasValue(nodes, x)
    BY <1>2, PathFacts DEF Write, InsertAll, HasValue, NodeExists
  <1>3. ASSUME NEW x \in Key, x \notin DOMAIN updates, HasValue(nodes, x)
        PROVE  nodes'[x] = nodes[x]
    BY <1>3, PathFacts DEF Write, InsertAll, HasValue, NodeExists
  <1> QED BY <1>1, <1>2, <1>3 DEF StoredLeaves

\* A prune of a stored leaf is a Delete of the authenticated map.
LEMMA PruneDeletes ==
  ASSUME TypeOK, NEW k \in Key, nodes' = PruneLeaf(nodes, pruned_keys, k)
  PROVE  StoredLeaves' = {kv \in StoredLeaves : kv[1] # k}
PROOF
  <1>0. k \in PrunedPaths(nodes, pruned_keys, k) /\ \A x \in Key : x \in Path
    BY PathFacts DEF PrunedPaths
  <1>1. ASSUME NEW x \in Key, x # k
        PROVE  x \notin PrunedPaths(nodes, pruned_keys, k)
    <2>1. ~IsPrefix(x, k)
      BY <1>1, PathFacts, PrefixMeaning
    <2> QED BY <2>1, PrunedPathsOnWay
  <1>2. ASSUME NEW x \in Key, x # k
        PROVE  nodes'[x] = nodes[x] /\ (HasValue(nodes', x) <=> HasValue(nodes, x))
    BY <1>0, <1>1, <1>2 DEF PruneLeaf, HasValue
  <1>3. ~HasValue(nodes', k)
    BY <1>0 DEF PruneLeaf, HasValue
  <1> QED BY <1>2, <1>3 DEF StoredLeaves

\* A new tree maps to the empty map.
LEMMA InitMap == Init => Map!Init
PROOF
  BY EmptyRoot DEF Init, Map!Init

\* Every step of the tree maps to a step or a stutter of the map.
LEMMA StepMap ==
  LeafInv /\ LeafInv' /\ [Next]_vars => [Map!Next]_<<RootOf(nodes), ~revived>>
PROOF
  <1> SUFFICES ASSUME LeafInv, LeafInv', [Next]_vars
               PROVE  [Map!Next]_<<RootOf(nodes), ~revived>>
    OBVIOUS
  <1>0. TypeOK /\ revived \in BOOLEAN /\ revived' \in BOOLEAN
    BY DEF LeafInv, TypeOK
  <1>1. CASE revived'
    BY <1>0, <1>1 DEF Map!Next
  <1>2. CASE ~revived'
    <2>1. ~revived
      BY <1>0, <1>2 DEF Next, vars, Insert, ApplyStateTransition, Write, PruneKey, GetRoot,
                  GenerateProof, Clone, Reopen, DropCaches, TypeOK
    <2>2. RootOf(nodes) = StoredLeaves
      BY <2>1, RootBindsLeaves DEF LeafInv
    <2>3. RootOf(nodes') = StoredLeaves'
      <3>1. (PrefixClosed => RootOf(nodes) = StoredLeaves)'
        BY RootBindsLeaves, PTL
      <3> QED BY <1>2, <3>1 DEF LeafInv
    <2>4. ASSUME NEW updates \in Writes, DOMAIN updates \subseteq Key,
                 \A k \in DOMAIN updates : updates[k] \in Value, Write(updates)
          PROVE  Map!Next
      <3>1. Map!Put(updates)
        BY <1>0, <2>2, <2>3, <2>4, WritePuts DEF Map!Put
      <3> QED BY <1>2, <2>1, <2>4, <3>1 DEF Map!Next
    <2>5. ASSUME NEW k \in Keys, NEW v \in Data, Insert(k, v)
          PROVE  Map!Next
      <3> DEFINE updates == [x \in {k} |-> v]
      <3>1. DOMAIN updates \subseteq Key /\ \A x \in DOMAIN updates : updates[x] \in Value
        BY CallerAssumption DEF Value
      <3>2. Write(updates) /\ updates \in Writes
        BY <2>5 DEF Insert, Writes
      <3> HIDE DEF updates
      <3> QED BY <2>4, <3>1, <3>2
    <2>6. ASSUME NEW b \in Batch, NEW n \in Supply, ApplyStateTransition(b, n)
          PROVE  Map!Next \/ nodes' = nodes
      <3>1. CASE SendsToBurn(b)
        BY <2>6, <3>1 DEF ApplyStateTransition
      <3>2. CASE ~SendsToBurn(b)
        <4>1. Write(WithSupply(b, n)) /\ WithSupply(b, n) \in Writes
          BY <2>6, <3>2 DEF ApplyStateTransition, Writes
        <4> QED BY <2>4, <4>1, BatchType
      <3> QED BY <3>1, <3>2
    <2>7. ASSUME NEW k \in Keys, PruneKey(k)
          PROVE  Map!Next \/ nodes' = nodes
      <3>1. CASE NodeExists(nodes, k)
        <4>1. k \in Key /\ nodes' = PruneLeaf(nodes, pruned_keys, k)
          BY <2>7, <3>1, CallerAssumption DEF PruneKey
        <4>2. Map!Delete(k)
          BY <1>0, <2>2, <2>3, <4>1, PruneDeletes DEF Map!Delete
        <4> QED BY <1>2, <2>1, <4>1, <4>2 DEF Map!Next
      <3>2. CASE ~NodeExists(nodes, k)
        BY <2>7, <3>2 DEF PruneKey
      <3> QED BY <3>1, <3>2
    <2>8. ASSUME NEW k \in Keys, GenerateProof(k)
          PROVE  nodes' = nodes
      BY <2>8 DEF GenerateProof
    <2>9. ASSUME Clone \/ Reopen
          PROVE  nodes' = nodes
      BY <1>0, <2>9 DEF Clone, Reopen, DropCaches, EnsureRoot, TypeOK
    <2>10. ASSUME GetRoot \/ UNCHANGED vars
           PROVE  nodes' = nodes
      BY <2>10 DEF GetRoot, vars
    <2>11. ASSUME nodes' = nodes
           PROVE  [Map!Next]_<<RootOf(nodes), ~revived>>
      BY <1>2, <2>1, <2>11
    <2> QED BY <2>5, <2>6, <2>7, <2>8, <2>9, <2>10, <2>11 DEF Next
  <1> QED BY <1>1, <1>2

\* The tree implements the authenticated map.
THEOREM TreeImplementsMap == Spec => ImplementsMap
PROOF
  BY InitMap, StepMap, LeafInvariant, PTL DEF Spec, ImplementsMap, Map!Spec
=============================================================================
