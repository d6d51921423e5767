----------------------------- MODULE VerkleTree -----------------------------
(***************************************************************************)
(* The Verkle tree of src/core/state/v_trie.rs as a state machine: the     *)
(* node storage, the set of paths marked pruned, and the two caches (the   *)
(* commitments of nodes, the root hash) with the dirty flag that decides   *)
(* whether get_root may answer from the cache.                             *)
(*                                                                         *)
(* One action per &mut self method, and two for the constructors that the  *)
(* state manager calls to replace its tree: clone(), which keeps           *)
(* pruned_keys and drops the caches, and VerkleTree::new(storage_clone()), *)
(* which drops both.                                                       *)
(***************************************************************************)
EXTENDS VerkleNodes

CONSTANTS
  Keys,       \* the keys the callers use
  Batch,      \* the update lists given to apply_state_transition, by key
  Supply,     \* the total supplies given to apply_state_transition
  None        \* an Option that is None

ASSUME CallerAssumption ==
  /\ Keys \subseteq Key
  /\ Supply \subseteq Nat
  /\ \A b \in Batch : DOMAIN b \subseteq Key /\ \A k \in DOMAIN b : b[k] \in Data

VARIABLES
  nodes,             \* storage
  pruned_keys,
  commitment_cache,
  root_cache,
  dirty,
  revived            \* history: some key was written below a pruned path

vars == <<nodes, pruned_keys, commitment_cache, root_cache, dirty, revived>>

Leaves == SUBSET (Key \X Value)

TypeOK ==
  /\ nodes \in Storage
  /\ NodeExists(nodes, <<>>)
  /\ pruned_keys \subseteq Path \ {<<>>}
  /\ commitment_cache \in [Path -> {None} \cup Leaves]
  /\ root_cache \in {None} \cup Leaves
  /\ dirty \in BOOLEAN
  /\ revived \in BOOLEAN

NoCache == [p \in Path |-> None]

\* VerkleTree::new on an empty storage.
Init ==
  /\ nodes = EmptyStorage
  /\ pruned_keys = {}
  /\ commitment_cache = NoCache
  /\ root_cache = None
  /\ dirty = TRUE
  /\ revived = FALSE

-----------------------------------------------------------------------------
\* compute_node_commitment recurses from p through existing nodes and stops at
\* a cached one: the nodes it visits, and what it returns.
Visited(p, q) ==
  /\ IsPrefix(p, q)
  /\ Connected(nodes, p, q)
  /\ \A r \in Path : IsPrefix(p, r) /\ IsStrictPrefix(r, q) => commitment_cache[r] = None

ComputeCommitment(p) ==
  (UNION {commitment_cache[q] : q \in
           {r \in Path : Visited(p, r) /\ commitment_cache[r] # None}})
  \cup {<<k, nodes[k]>> : k \in
           {x \in Key : /\ Visited(p, x)
                        /\ commitment_cache[x] = None
                        /\ HasValue(nodes, x)}}

\* Every visited node that was not cached is cached with what it returned.
CacheFrom(starts) ==
  commitment_cache' =
    [q \in Path |-> IF commitment_cache[q] = None /\ \E p \in starts : Visited(p, q)
                    THEN ComputeCommitment(q)
                    ELSE commitment_cache[q]]

\* Faulty variant: the parents of a path keep their cached commitments.
InvalidateLeaves(paths) ==
  /\ commitment_cache' = [p \in Path |-> IF p \in paths THEN None ELSE commitment_cache[p]]
  /\ root_cache' = None

\* invalidate_path_cache, for each path of a set.
InvalidatePaths(paths) ==
  /\ commitment_cache' =
       [p \in Path |-> IF \E q \in paths : IsPrefix(p, q) THEN None
                       ELSE commitment_cache[p]]
  /\ root_cache' = None

Write(updates) ==
  /\ nodes' = InsertAll(nodes, updates)
  /\ InvalidatePaths(DOMAIN updates)
  /\ revived' = (revived \/ \E k \in DOMAIN updates, p \in pruned_keys : IsPrefix(p, k))

-----------------------------------------------------------------------------
Insert(k, v) ==
  /\ dirty' = TRUE
  /\ Write([x \in {k} |-> v])
  /\ UNCHANGED pruned_keys

\* A batch with a burn output is refused before anything is written; a supply
\* above the cap is refused after everything is written.
ApplyStateTransition(updates, supply) ==
  /\ dirty' = TRUE
  /\ IF SendsToBurn(updates)
     THEN UNCHANGED <<nodes, commitment_cache, root_cache, revived>>
     ELSE Write(WithSupply(updates, supply))
  /\ UNCHANGED pruned_keys

\* An absent leaf is an error that leaves only the dirty flag set.
PruneKey(k) ==
  /\ dirty' = TRUE
  /\ IF NodeExists(nodes, k)
     THEN /\ nodes' = PruneLeaf(nodes, pruned_keys, k)
          /\ pruned_keys' = pruned_keys \cup PrunedPaths(nodes, pruned_keys, k)
          /\ InvalidatePaths({k})
     ELSE UNCHANGED <<nodes, pruned_keys, commitment_cache, root_cache>>
  /\ UNCHANGED revived

RootCached == ~dirty /\ root_cache # None
RootHash == IF RootCached THEN root_cache ELSE ComputeCommitment(<<>>)

GetRoot ==
  /\ IF RootCached THEN UNCHANGED commitment_cache ELSE CacheFrom({<<>>})
  /\ root_cache' = RootHash
  /\ dirty' = FALSE
  /\ UNCHANGED <<nodes, pruned_keys, revived>>

\* generate_proof walks the key while its prefixes exist and computes every
\* existing child of each prefix it reaches.
Children(p) == {c \in Path : Len(c) = Len(p) + 1 /\ IsPrefix(p, c) /\ NodeExists(nodes, c)}

\* Faulty variant: the walk goes on below a missing node.
ProofChildrenPastGaps(k) ==
  UNION {Children(p) : p \in {q \in Path : IsStrictPrefix(q, k)}}

ProofChildren(k) ==
  UNION {Children(p) : p \in {q \in Path : IsStrictPrefix(q, k) /\ Connected(nodes, <<>>, q)}}

GenerateProof(k) ==
  /\ CacheFrom(ProofChildren(k) \cup (IF RootCached THEN {} ELSE {<<>>}))
  /\ root_cache' = RootHash
  /\ dirty' = FALSE
  /\ UNCHANGED <<nodes, pruned_keys, revived>>

\* The proof it returns: the leaf found at the end of the walk, what the
\* sibling roots bind, and the root.
ProofOf(k) ==
  [leaf     |-> {<<x, nodes[x]>> : x \in
                   {y \in {k} : Connected(nodes, <<>>, y) /\ HasValue(nodes, y)}},
   siblings |-> UNION {ComputeCommitment(c) : c \in {d \in ProofChildren(k) : ~IsPrefix(d, k)}},
   root     |-> RootHash]

\* verify_proof folds the leaf and the siblings back into a root.
VerifyProof(proof) == proof.leaf \cup proof.siblings = proof.root

DropCaches ==
  /\ nodes' = EnsureRoot(nodes)
  /\ commitment_cache' = NoCache
  /\ root_cache' = None
  /\ dirty' = TRUE
  /\ UNCHANGED revived

\* The tree is replaced by its clone().
Clone == DropCaches /\ UNCHANGED pruned_keys

\* The tree is replaced by VerkleTree::new(storage_clone()).
Reopen == DropCaches /\ pruned_keys' = {}

Next ==
  \/ \E k \in Keys, v \in Data : Insert(k, v)
  \/ \E b \in Batch, n \in Supply : ApplyStateTransition(b, n)
  \/ \E k \in Keys : PruneKey(k)
  \/ GetRoot
  \/ \E k \in Keys : GenerateProof(k)
  \/ Clone
  \/ Reopen

Spec == Init /\ [][Next]_vars

-----------------------------------------------------------------------------
(* Safety. *)

\* A cached commitment is never stale: whatever sequence of writes, prunes,
\* proofs and clones preceded, it binds what a computation without the cache
\* would bind, and a root served without recomputation is the root of the
\* stored nodes.  (The invalidation rules of insert, prune_key and the cleanup.)
CacheCoherent ==
  /\ \A p \in Path : commitment_cache[p] # None =>
       commitment_cache[p] = Commitment(nodes, p)
  /\ RootCached => root_cache = RootOf(nodes)

\* Until a key is written below a pruned path, the root commits to every leaf
\* the storage holds: the cleanup of empty parents never cuts off a live leaf.
LiveLeavesCommitted ==
  ~revived => \A k \in Key : HasValue(nodes, k) => <<k, nodes[k]>> \in RootOf(nodes)

\* Until then a read and a proof say the same of a key: get returns a value
\* exactly when the proof generated for the key is one of membership.
ReadsMatchProofs ==
  ~revived => \A k \in Key :
    (Get(nodes, pruned_keys, k) = "value") <=> (ProofOf(k).leaf # {})

\* A proof generated in any state verifies, also with warm caches, missing
\* paths, and nodes cut off from the root.
ProofsVerify == \A k \in Key : VerifyProof(ProofOf(k))

\* The tree implements the authenticated map, as long as nothing was revived.
Writes ==
  {[x \in {k} |-> v] : k \in Keys, v \in Data}
    \cup {WithSupply(b, n) : b \in Batch, n \in Supply}
Map == INSTANCE AuthenticatedMap
         WITH Updates <- Writes, content <- RootOf(nodes), exact <- ~revived
ImplementsMap == Map!Spec

\* The unconditional claim of the comment on the cleanup ("Stop cleanup if we
\* find a parent with children (tree is still valid)"): a stored leaf is always
\* committed to.  The marks that survive a re-insertion break it.
StoredLeavesCommitted ==
  \A k \in Key : HasValue(nodes, k) => <<k, nodes[k]>> \in RootOf(nodes)
=============================================================================
