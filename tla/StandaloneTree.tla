---------------------------- MODULE StandaloneTree ----------------------------
(***************************************************************************)
(* The standalone Verkle tree of src/core/crypto/verkle/verkle_tree.rs,    *)
(* which the crate exports beside the tree of the state.  It prunes in     *)
(* another way: prune_key deletes the leaf but records the commitments on  *)
(* its path, which stand in for the deleted leaf "to preserve root for     *)
(* stateless proofs", until an insert clears them on the path of its key.  *)
(*                                                                         *)
(* Paths, storage and commitments are those of VerkleNodes.  A cache entry *)
(* marked dirty and a missing one are both None.                           *)
(***************************************************************************)
EXTENDS VerkleNodes

CONSTANTS
  Keys,        \* the keys the callers use
  UtxoSets,    \* the sets of <<outpoint, key, value>> given to calculate_verkle_root
  None         \* an Option that is None

\* A commitment is the set of leaves it binds, so None is no such set.
ASSUME NoneAssumption == \A leaves \in SUBSET (Key \X Data) : leaves # None
ASSUME StandaloneAssumption ==
  /\ Keys \subseteq Key
  /\ \A utxos \in UtxoSets : \A u \in utxos : u[2] \in Key /\ u[3] \in Data

VARIABLES
  nodes,               \* storage
  pruned_keys,
  pruned_commitments,
  commitment_cache,
  root_cache

vars == <<nodes, pruned_keys, pruned_commitments, commitment_cache, root_cache>>

NoCommitments == [p \in Path |-> None]

\* VerkleTree::new on an empty storage.
Init ==
  /\ nodes = EmptyStorage
  /\ pruned_keys = {}
  /\ pruned_commitments = NoCommitments
  /\ commitment_cache = NoCommitments
  /\ root_cache = None

-----------------------------------------------------------------------------
(* Commitments. *)

\* Faulty variant: the recorded commitments are ignored.
StandingCacheOnly(p) == commitment_cache[p]

\* get_node_commitment: a clean cache entry first, then a recorded commitment.
Standing(p) ==
  IF commitment_cache[p] # None THEN commitment_cache[p] ELSE pruned_commitments[p]

\* The nodes compute_node_commitment reaches from p before it meets a standing
\* commitment.
Visited(p, q) ==
  /\ IsPrefix(p, q)
  /\ Connected(nodes, p, q)
  /\ \A r \in Path : IsPrefix(p, r) /\ IsStrictPrefix(r, q) => Standing(r) = None

\* get_node_value hides the value of a pruned leaf.
LeafAt(k) == IF HasValue(nodes, k) /\ k \notin pruned_keys THEN {<<k, nodes[k]>>} ELSE {}

ComputeCommitment(p) ==
  LET reached == {q \in Path : Visited(p, q)} IN
    (UNION {Standing(q) : q \in {r \in reached : Standing(r) # None}})
      \cup UNION {LeafAt(k) : k \in {x \in reached : Len(x) = KeySize /\ Standing(x) = None}}

\* The cache after the commitments of some nodes were asked for.
CacheFrom(starts) ==
  [q \in Path |-> IF Standing(q) = None /\ \E p \in starts : Visited(p, q)
                  THEN ComputeCommitment(q)
                  ELSE commitment_cache[q]]

\* Faulty variant: only the leaf is marked dirty.
InvalidateLeaf(cache, k) == [cache EXCEPT ![k] = None]

\* invalidate_path_cache, on a cache; root_cache goes with it.
InvalidatePath(cache, k) == [p \in Path |-> IF p \in Prefixes(k) THEN None ELSE cache[p]]

-----------------------------------------------------------------------------
\* Faulty variant: clear_pruned_state_for_key forgets the ancestors.
ClearLeafCommitment(k) == [pruned_commitments EXCEPT ![k] = None]

\* clear_pruned_state_for_key, its commitments.
ClearPath(k) ==
  [p \in Path |-> IF p \in Prefixes(k) THEN None ELSE pruned_commitments[p]]

Insert(k, v) ==
  /\ pruned_keys' = pruned_keys \ {k}
  /\ pruned_commitments' = ClearPath(k)
  /\ nodes' = InsertLeaf(nodes, k, v)
  /\ commitment_cache' = InvalidatePath(commitment_cache, k)
  /\ root_cache' = None

\* Faulty variant: only the commitment of the leaf is recorded.
RecordLeaf(k) == [pruned_commitments EXCEPT ![k] = ComputeCommitment(k)]

RecordPath(k) ==
  [p \in Path |-> IF p \in Prefixes(k) THEN ComputeCommitment(p) ELSE pruned_commitments[p]]

\* The last lines of prune_key, which would keep the root cache, look the root
\* up under the empty key; it is stored under key_for_path(&[]), so they never
\* find it and the root cache stays empty.
PruneKey(k) ==
  /\ NodeExists(nodes, k)
  /\ pruned_commitments' = RecordPath(k)
  /\ nodes' = [nodes EXCEPT ![k] = Absent]
  /\ pruned_keys' = pruned_keys \cup {k}
  /\ commitment_cache' = InvalidatePath(CacheFrom(Prefixes(k)), k)
  /\ root_cache' = None

RootHash == IF root_cache # None THEN root_cache ELSE ComputeCommitment(<<>>)

GetRoot ==
  /\ root_cache' = RootHash
  /\ commitment_cache' = IF root_cache = None THEN CacheFrom({<<>>}) ELSE commitment_cache
  /\ UNCHANGED <<nodes, pruned_keys, pruned_commitments>>

-----------------------------------------------------------------------------
(* Proofs. *)

\* Faulty variant: the walk misses the last level.
WalkedShort(k) ==
  {q \in Prefixes(k) : Len(q) < KeySize - 1 /\ NodeExists(nodes, <<>>) /\ Connected(nodes, <<>>, q)}

\* generate_proof walks the key while its prefixes exist.  At each of them it
\* asks for the commitments of the node, of its existing children and of the
\* next node on the path, which may be missing.
Walked(k) ==
  {q \in Prefixes(k) \ {k} : NodeExists(nodes, <<>>) /\ Connected(nodes, <<>>, q)}
Children(p) == {c \in Path : Len(c) = Len(p) + 1 /\ IsPrefix(p, c) /\ NodeExists(nodes, c)}
ProofChildren(k) == UNION {Children(p) : p \in Walked(k)}
NextOnPath(k) == {SubSeq(k, 1, Len(p) + 1) : p \in Walked(k)}

GenerateProof(k) ==
  /\ commitment_cache' = CacheFrom(Walked(k) \cup ProofChildren(k) \cup NextOnPath(k)
                                     \cup (IF root_cache = None THEN {<<>>} ELSE {}))
  /\ root_cache' = RootHash
  /\ UNCHANGED <<nodes, pruned_keys, pruned_commitments>>

ProofOf(k) ==
  [leaf     |-> IF Connected(nodes, <<>>, k) THEN LeafAt(k) ELSE {},
   siblings |-> UNION {ComputeCommitment(c) : c \in {d \in ProofChildren(k) : ~IsPrefix(d, k)}},
   root     |-> RootHash]

\* verify_proof folds the leaf and the siblings back into a root.
VerifyProof(proof) == proof.leaf \cup proof.siblings = proof.root

-----------------------------------------------------------------------------
\* calculate_verkle_root empties the tree and inserts every output, in the
\* order of the hash map, under a key made of its address and its index only:
\* of several outputs with the same key the last one stays.
CalculateVerkleRoot(utxos) ==
  \E last \in [{u[2] : u \in utxos} -> {u[3] : u \in utxos}] :
    LET filled == IF utxos = {} THEN [p \in Path |-> Absent]
                  ELSE InsertAll([p \in Path |-> Absent], last)
        root   == {<<k, last[k]>> : k \in DOMAIN last}
    IN
    /\ \A k \in DOMAIN last : \E u \in utxos : u[2] = k /\ u[3] = last[k]
    /\ nodes' = filled
    /\ pruned_keys' = {} /\ pruned_commitments' = NoCommitments
    /\ root_cache' = root
    /\ commitment_cache' =
         [p \in Path |-> IF p = <<>> \/ NodeExists(filled, p)
                         THEN {leaf \in root : IsPrefix(p, leaf[1])} ELSE None]

Next ==
  \/ \E k \in Keys, v \in Data : Insert(k, v)
  \/ \E k \in Keys : PruneKey(k)
  \/ GetRoot
  \/ \E k \in Keys : GenerateProof(k)
  \/ \E utxos \in UtxoSets : CalculateVerkleRoot(utxos)

Spec == Init /\ [][Next]_vars

-----------------------------------------------------------------------------
(* Safety. *)

\* The root get_root would return, from whatever caches and recorded
\* commitments the calls before left, binds every leaf that can be read, with
\* its present value, and binds no other leaf except pruned ones: an insert
\* next to a pruned leaf never revives an old value or loses a live one.
RootBinds ==
  /\ \A k \in Key : LeafAt(k) \subseteq RootHash
  /\ \A leaf \in RootHash : leaf \in LeafAt(leaf[1]) \/ leaf[1] \in pruned_keys

\* pruned_commitments, "to preserve root for stateless proofs": only a write
\* moves the root; pruning, proofs and root requests never do.
PruningKeepsRoot ==
  [][GetRoot \/ (\E k \in Keys : PruneKey(k) \/ GenerateProof(k)) => RootHash' = RootHash]_vars

\* Until the bottom node above a key loses a leaf, the proof of the key
\* verifies, so it tells the truth: what it says of the key is what the root
\* binds.  After it, no proof of the key verifies as long as the recorded
\* commitment of the node stands, and none can show a pruned leaf absent that
\* the root still binds.
Bottom(k) == SubSeq(k, 1, KeySize - 1)
LostLeaf(k) == \E leaf \in RootHash : leaf[1] \in pruned_keys /\ Bottom(leaf[1]) = Bottom(k)
ProofsVerify == \A k \in Key : VerifyProof(ProofOf(k)) <=> ~LostLeaf(k)

\* Not so for every key: the sibling commitments of the bottom node are built
\* from the storage, which has lost the leaf, so a pruned key cannot be proved
\* although its root was preserved for it.
PrunedKeysProvable == \A k \in Key : VerifyProof(ProofOf(k))
=============================================================================
