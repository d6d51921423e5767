---------------------------- MODULE VerkleNodes ----------------------------
(***************************************************************************)
(* The node storage of the Verkle tree of src/core/state/v_trie.rs: which  *)
(* paths hold a node, what insert and prune_key write and delete, and what *)
(* the commitment of a node covers.                                        *)
(*                                                                         *)
(* Abstractions.  A path is a sequence of at most KeySize bytes over a     *)
(* small alphabet; storage is a total function on paths.  A commitment is  *)
(* collision-free, so the commitment of a node is modelled by the content  *)
(* it binds: the set of <<key, value>> leaves that the recursion of        *)
(* compute_node_commitment reaches.  An existing node without children and *)
(* a missing node commit to the same polynomial in the code, and to the    *)
(* same (empty) set here.                                                  *)
(***************************************************************************)
EXTENDS Integers, Sequences, SequencesExt

CONSTANTS
  KeySize,      \* KEY_SIZE: the number of bytes of a key
  Byte,         \* the bytes a path is made of (VERKLE_RADIX of them)
  Data,         \* the leaf values other than the supply record
  BurnData,     \* those that deserialize to an output of the burn address
  NoValue,      \* serialize_node(None): an internal node
  Absent,       \* storage.get(..) is None
  TotalSupplyKey,
  MaxSupply     \* MAX_GLOBAL_SUPPLY_NANO_SLUG

Key  == [1..KeySize -> Byte]
Path == UNION {[1..n -> Byte] : n \in 0..KeySize}

\* The leaf apply_state_transition stores at TOTAL_SUPPLY_KEY.
SupplyBytes(n) == [supply |-> n]
Value == Data \cup [supply : Nat]

ASSUME KeySizeAssumption == KeySize \in Nat \ {0}
ASSUME SentinelAssumption ==
  NoValue # Absent /\ NoValue \notin Value /\ Absent \notin Value
ASSUME SupplyAssumption ==
  TotalSupplyKey \in Key /\ MaxSupply \in Nat /\ BurnData \subseteq Data

Storage == [Path -> {NoValue, Absent} \cup Value]

-----------------------------------------------------------------------------
NodeExists(nodes, p) == nodes[p] # Absent
HasValue(nodes, p)   == nodes[p] \notin {NoValue, Absent}   \* get_node_value

\* MemoryStorage::new, then the ensure_node(&[]) of VerkleTree::new.
EmptyStorage == [p \in Path |-> IF p = <<>> THEN NoValue ELSE Absent]
EnsureRoot(nodes) ==
  IF NodeExists(nodes, <<>>) THEN nodes ELSE [nodes EXCEPT ![<<>>] = NoValue]

\* Faulty variant: insert forgets the internal nodes.
InsertAllNoParents(nodes, updates) ==
  [p \in Path |-> IF p \in DOMAIN updates THEN updates[p] ELSE nodes[p]]

\* insert, for each (key, value) of a batch: ensure_node on every prefix of
\* the key, then set_node_value on the leaf.  A batch is a function from its
\* keys to their values.
InsertAll(nodes, updates) ==
  [p \in Path |->
     IF p \in DOMAIN updates THEN updates[p]
     ELSE IF ~NodeExists(nodes, p)
             /\ (p = <<>> \/ \E k \in DOMAIN updates : IsPrefix(p, k))
          THEN NoValue
          ELSE nodes[p]]

InsertLeaf(nodes, k, v) == InsertAll(nodes, [x \in {k} |-> v])

\* apply_state_transition: the batch it inserts, and when it refuses to.
\* The supply leaf is written after the batch, so it wins on its own key.
WithSupply(updates, supply) ==
  [k \in DOMAIN updates \cup {TotalSupplyKey} |->
     IF k = TotalSupplyKey THEN SupplyBytes(supply) ELSE updates[k]]

SendsToBurn(updates) == \E k \in DOMAIN updates : updates[k] \in BurnData

\* Faulty variant: has_children starts at child 1.
HasOtherChildrenButFirst(nodes, pruned, k, depth) ==
  \E c \in [1..depth + 1 -> Byte \ {0}] :
    /\ IsPrefix(SubSeq(k, 1, depth), c)
    /\ ~IsPrefix(c, k)
    /\ NodeExists(nodes, c)
    /\ c \notin pruned

\* recursive_cleanup_empty_nodes: has_children of the prefix of k at a depth,
\* the prefixes of k below it being already deleted.
HasOtherChildren(nodes, pruned, k, depth) ==
  \E c \in [1..depth + 1 -> Byte] :
    /\ IsPrefix(SubSeq(k, 1, depth), c)
    /\ ~IsPrefix(c, k)
    /\ NodeExists(nodes, c)
    /\ c \notin pruned

\* Faulty variant: the cleanup does not stop at the root.
PrunedPathsWithRoot(nodes, pruned, k) ==
  {k} \cup {SubSeq(k, 1, d) : d \in
              {e \in 0..KeySize - 1 : \A f \in e..KeySize - 1 :
                 ~HasOtherChildren(nodes, pruned, k, f)}}

\* The paths prune_key deletes and marks: the leaf, and each prefix of it up
\* to the first one that still has a child; never the root.
PrunedPaths(nodes, pruned, k) ==
  {k} \cup {SubSeq(k, 1, d) : d \in
              {e \in 1..KeySize - 1 : \A f \in e..KeySize - 1 :
                 ~HasOtherChildren(nodes, pruned, k, f)}}

\* Faulty variant: the leaf is marked but not deleted.
PruneLeafKeepsIt(nodes, pruned, k) ==
  [p \in Path |-> IF p \in PrunedPaths(nodes, pruned, k) \ {k} THEN Absent ELSE nodes[p]]

PruneLeaf(nodes, pruned, k) ==
  [p \in Path |-> IF p \in PrunedPaths(nodes, pruned, k) THEN Absent ELSE nodes[p]]

-----------------------------------------------------------------------------
\* get: a key once marked pruned is an error, whatever is stored there.
Get(nodes, pruned, k) ==
  IF k \in pruned THEN "pruned"
  ELSE IF HasValue(nodes, k) THEN "value" ELSE "none"

\* Every node strictly below p, down to q, exists.
Connected(nodes, p, q) ==
  \A r \in Path : IsStrictPrefix(p, r) /\ IsPrefix(r, q) => NodeExists(nodes, r)

\* What the commitment of the node at p binds, computed without any cache.
Commitment(nodes, p) ==
  {<<k, nodes[k]>> : k \in
     {x \in Key : IsPrefix(p, x) /\ HasValue(nodes, x) /\ Connected(nodes, p, x)}}

RootOf(nodes) == Commitment(nodes, <<>>)
=============================================================================
