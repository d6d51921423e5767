# Klomang Core: a TLA+ verification of the node core

Klomang Core (`src/src/core`) is the core library of a block-DAG node written in
Rust: a GHOSTDAG consensus, a UTXO ledger whose outputs are leaves of a Verkle
tree, a state manager that applies blocks to both, smart contracts that write
to the same tree, and the economics around them. This directory holds TLA+
modules translated from that source, the TLC configurations that check them on
small instances, and proofs of the main properties for every instance.
Paths below are relative to `src/src/core` unless they say otherwise.

`PROJECT.json` lists the components, runs, mutants, the source lines of every
definition, the findings, the hazards and the theorems.

## 1. The system

| Component | State | Operations | Talks to |
|---|---|---|---|
| Verkle tree (`state/v_trie.rs`, `state/storage.rs`) | node storage, `pruned_keys`, a commitment cache, a root cache, a dirty flag | `insert`, `apply_state_transition`, `get`, `prune_key`, `get_root`, `generate_proof`, `verify_proof`, `clone`, `new`, `storage_clone` | called by the state manager and by contracts |
| State manager (`state_manager.rs`) | the tree, the height, one snapshot and one storage copy per height, total supply, gas fees, pending updates, prune marks, outpoint map | `apply_block`, `validate_and_apply_block`, `rollback_state`, `rollback`, `restore_from_snapshot`, `mark_outpoint_for_pruning`, `execute_pruning_cycle`, `validate_snapshots`, `cross_check_supply_consistency` | owns a tree; changes the caller's `UtxoSet`; runs contracts; asks `GhostDag` to validate |
| UTXO set and blockchain state (`state/utxo.rs`, `state/mod.rs`) | unspent outputs; spent-output undo data, heights, prune marks | `validate_tx`, `apply_tx`, `revert_tx`; `apply_block`, `revert_block`, `snapshot`, `restore`, pruning | used by the state manager and the tests |
| Block DAG (`dag/`) | blocks with parents and children, the set of tips | `add_block`, `remove_block`, ancestors, descendants, anticone | read and written by consensus |
| GHOSTDAG (`consensus/ghostdag.rs`, `consensus/ordering.rs`) | per block: selected parent, blue set, red set, blue score; `k`, the network load, the time of the last adjustment | `process_block`, `recompute_block`, `build_virtual_block`, orderings, `check_finality`, `can_reorganize`, `validate_block`, `adjust_k` | the DAG; the tree, for validation |
| Parallel scheduler (`scheduler/parallel.rs`, `state/access_set.rs`) | none of its own; a checkpoint per group | `schedule_transactions`, `execute_groups` | the state manager |
| Contracts (`vm/`) | gas counters, the storage of the contract | host calls for reading, writing, destroying; gas accounting | the tree, in the middle of a block |
| Batch verification (`crypto/schnorr.rs`) | a channel between worker threads and the caller | `batch_verify` | `validate_block` |
| Economics (`consensus/emission.rs`, `reward.rs`, `economic_constants.rs`) | none | `capped_reward`, `total_emitted`, `block_reward`, `calculate_accepted_fees`, `create_coinbase_tx`, `validate_coinbase_reward` | the UTXO set, of which it clones a copy |
| Standalone tree (`crypto/verkle/verkle_tree.rs`) | node storage, `pruned_keys`, `pruned_commitments`, a commitment cache, a root cache | `insert`, `prune_key`, `get_root`, `generate_proof`, `verify_proof`, `calculate_verkle_root` | its own tests; `calculate_verkle_root` fills it from a UTXO set |
| Difficulty (`daa/`), proof of work (`pow/`) | none | target from a window of timestamps; hash and search | `validate_block` |

How they interact: a network layer outside this repository adds a block to the
DAG, asks GHOSTDAG to process it, and hands its transactions to the state
manager with a UTXO set the caller owns. The state manager validates against
its tree, applies transactions one by one (contracts run in the middle, on the
same tree), writes the collected outputs and the supply to the tree at the end,
and keeps a snapshot. Scheduler and state manager are alternatives for the same
job. There are threads only in `batch_verify`; everything else is a synchronous
call on `&mut self`, so two calls never overlap. What makes the code hard is
*inside* a call (it fails after having changed several fields) and *between*
calls (any legal sequence of them).

### What is hard, and what would make it correct

* **Caches of the tree.** Every write and prune has to invalidate exactly the
  prefixes of what it touched, while proofs fill the caches and clear the dirty
  flag. Correct: no cached value ever differs from a fresh computation.
* **Pruning.** The cleanup deletes empty parents and marks them; marks are
  consulted again by later cleanups and by reads. Correct: no live leaf is ever
  cut off from the root; reads and proofs agree.
* **Failure inside a block.** Eight fields and the caller's UTXO set change
  before the last check. Correct: a block commits as a whole or leaves no trace.
* **Going back.** Two vectors are indexed by height and truncated by three
  methods. Correct: index and height agree; a kept storage replays its root.
* **Supply.** It is counted in a field, locked in the tree, and implied by the
  UTXO set. Correct: the three agree.
* **Arrival order of blocks in the DAG.** Blue sets and scores are stored and
  recomputed in part only. Correct: scores follow the DAG, and two nodes agree.
* **Execution in groups.** A group that fails is undone from a checkpoint that
  holds part of the state, and a plan may have several groups. Correct: a plan
  loses nothing and separates what conflicts; a failed one leaves no trace.
* **Threads.** The verdicts of the chunks race each other and the return of the
  caller. Correct: one answer, the conjunction of all, and no thread left over.
* **Two gas books.** Host calls are charged to a meter and to the metering of
  the WASM engine. Correct: they agree wherever a run stops.
* **Money.** Subsidy, fees and shares round, are capped, and are computed on a
  clone of the UTXO set by the miner and again by the validator. Correct: every
  coin is accounted for, and a miner's coinbase is accepted.

`PROJECT.json` lists these as hazards, each at its line, with the properties
that cover it.

## 2. Modules

| Module | Models |
|---|---|
| `VerkleNodes` | the node storage and the pure operations on it: insert, the paths a prune deletes, reads, what a commitment binds |
| `VerkleTree` | the tree as a state machine with its caches; proofs |
| `AuthenticatedMap` | what a tree promises: a map bound by its root |
| `StateManager` | the state manager with its UTXO set and the contracts' host calls, one action per loop iteration |
| `Ledger` | what a state manager promises: atomic blocks, immutable checkpoints |
| `Dag` | the block DAG: links, tips, `add_block`, `remove_block`, the searches |
| `GhostDag` | consensus over the DAG: labels, `process_block`, the virtual block, ordering, finality |
| `UtxoSet` | what `validate_tx` accepts, what `apply_tx` and `revert_tx` do |
| `BlockchainState` | blocks over a UTXO set with their rollback, `revert_block`, pruning, snapshots |
| `Scheduler` | the scheduler over the steps of `StateManager`: scanning, groups, checkpoints |
| `Verification` | what `batch_verify` promises: one right answer, in the end |
| `BatchVerify` | the caller, the threads and the channel of `batch_verify` |
| `StandaloneTree` | the second tree, with the commitments it records for pruned nodes |
| `Rewards` | subsidy, cap, fees, coinbase and its validation over blocks that may share a score |
| `ContractGas` | one contract run: the gas meter, the metering points, the snapshot of the tree |
| `MC...` | values of the constants for TLC, one module per module above that is run |
| `VerkleNodesProofs` | lemmas about the nodes, shared by the proofs about both trees and the state manager |
| `VerkleTreeProofs`, `StandaloneTreeProofs`, `StateManagerProofs`, `GhostDagProofs`, `UtxoSetProofs`, `BatchVerifyProofs`, `ContractGasProofs` | theorems and their proofs; `StateManagerProofs` holds those about the scheduler too, whose steps are steps of the state manager, and `UtxoSetProofs` those about `BlockchainState` and `Rewards` |

`VerkleTree`, `StandaloneTree` and `StateManager` extend `VerkleNodes`, and
`Scheduler` extends `StateManager`; `GhostDag` extends `Dag`; `BlockchainState`
and `Rewards` extend `UtxoSet`. `VerkleTree` is shown to implement
`AuthenticatedMap`, `StateManager` to implement `Ledger`, and `BatchVerify` to
implement `Verification`, liveness included.
The state manager uses the node storage without the caches: `CacheCoherent` of
`VerkleTree` is what justifies leaving them out.

### How the tree corresponds to the code

A path is a sequence of at most `KeySize` bytes (32 in the code) over a small
alphabet (256). Storage is a total function on paths with `Absent` for a missing
node and `NoValue` for an internal node. A commitment is assumed collision-free
and modelled by *the content it binds*, the set of key-value leaves that the
recursion of `compute_node_commitment` reaches through existing children. So
two commitments are equal in the model exactly when they bind the same leaves,
and "the proof verifies" means that leaf and siblings add up to the root.
`pruned_keys` holds leaf paths and internal paths, as in the code.
`ComputeCommitment` is the recursion with the cache (it stops at a cached node),
`Commitment` without it. `revived` is a history variable: it becomes true when
some key is written below a path marked pruned; the promise of the tree ends
there (see the findings).

### How the state manager corresponds to the code

Each `&mut self` method is a sequence of steps from phase `idle` back to `idle`:
`tx` (the next transaction), `vm` (inside a contract), `body` (inputs and outputs
of a transaction), `failed` (the error path, before the fields are put back),
`pruning` (inside a pruning cycle). The steps are loop iterations, so that
invariants are also checked in the middle of a block, which is where an error
leaves the code. `saved` is the set of clones taken at the start of
`apply_block` and `vm_snapshot` the clone taken before a contract runs. A
contract is any sequence of host writes and destructions of `ContractKeys`
followed by success or failure. `validate_and_apply_block` adds the guard
`Validated`, the part of `validate_block` that reads the state. Its second gate,
`can_reorganize` on the id of the block (`state_manager.rs:222`), is left out, as
the DAG is: here every block passes it, and one that it refuses changes nothing.

`Ledger` says what going back means: the content, the supply and the fees of a
checkpoint are restored together. `rollback_state` and `rollback` do that;
`restore_from_snapshot` leaves the supply and the fees as they were, against its
own comment. `ImplementsLedger` therefore excepts that one call by name
(`StaleRestore`), and `RestoredEntire` states what the comment says and is broken
(see the findings).

The methods are enabled through `Calls`, so that an instance can leave out those
its question is not about. A rollback to a height that does not exist is an
error without effect and is left out.

### How the DAG and consensus correspond to the code

A block is its id, a natural number, so that ids are ordered as hashes are. The
code keeps links and labels in one `BlockNode`; the model keeps the links in
`blocks` (module `Dag`) and the labels in `labels` (module `GhostDag`), because
consensus reads the links and changes only the labels. The operators of `Dag`
take the blocks as an argument, so that `GhostDag` can also replay a DAG.

`Receive` is `add_block`, `Discard` is `remove_block`, and `ProcessBlock` is the
whole of `process_block`: the labels of the block, then a recomputation of the
parents and all their descendants in the order of `topological_sort`, which is
modelled with its stack. Refused additions have no effect and are left out.
The driver of these calls is outside the repository. It is assumed to add one
genesis, and to process a block once, after its parents; between adding and
processing other blocks may be added (up to `MaxPending` wait). `processed` and
`removed` are history variables that the properties refer to. `k` is a
constant; nothing in the crate calls its adjustment.

### How the blockchain state corresponds to the code

`UtxoSet` holds the pure part, `BlockchainState` the state machine. The id of a
transaction is a hash over its outputs, so an outpoint has one output for ever
and the map of unspent outputs is a set of outpoints. `apply_block` takes one
step per transaction (`ApplyNext`, `RejectNext`), and after a refusal one per
transaction undone (`UndoLast`), until it returns (`EndBlock`, `EndRollback`,
or `GiveUp`, the error inside the error path). The history variable `trail`
holds the sets the call has gone through, `overwritten` says that a transaction
of the block created an output that was unspent already. That is possible: the
id of a coinbase depends on its reward and address alone, and `validate_tx` does
not look at the outputs that exist. Undoing such a block loses the earlier
output, and where the block holds the coinbase twice the second undo fails; the
properties are stated for the other blocks. `revert_block` removes outputs and
restores nothing, as its comment says.

### How the scheduler corresponds to the code

`Scheduler` composes with the state manager: `TransactionStep` is the part of
`BlockStep` that `apply_transaction` runs, taken between two steps of the
scheduler, and all methods of the state manager can be called between two plans
(`ManagerStep`). `step` is where the call stands: `scan` (one `Consider` per
candidate, one `CloseGroup` per pass), `planned`, `between` two groups, `execute`.
A transaction list goes straight from `schedule_transactions` into
`execute_groups`. The access set of a transaction is computed as the code does,
from its *own* id; the storage slots that `generate_access_set` scans the payload
for, and what it writes besides them, are the constants `Slots` and
`WriteOnly`. `checkpoint` holds exactly the fields of `ExecutionCheckpoint`: the
fees are truncated to the recorded length, the tree and the outpoint map are in
no checkpoint and stay as the group left them.

### How the batch verification corresponds to the code

One thread per chunk: `Verify` one item, `Send` or, when the receiver is gone,
`SendPanics` (the `unwrap`), `End` (its sender is dropped). The caller goes from
`start` to `alone` (one chunk), or `Spawn`s, drops its own sender and receives
until a verdict is negative (`Receive`) or the channel is `Disconnected`. The
answer of one signature check is an input.

### How the standalone tree corresponds to the code

Nodes are those of `VerkleNodes`; `pruned_commitments` and the caches hold bound
contents, as commitments do throughout. `Standing` is the order in which
`get_node_commitment` looks a commitment up (recorded, cached, computed), and
`Visited` the nodes a computation puts into the cache. A proof is the siblings
collected on the way; `VerifyProof` asks whether leaf and siblings add up to the
root, as verification of the openings does.

### How rewards correspond to the code

Everything in `emission.rs` and `reward.rs` is a function, and translated as
one. Around them, `Rewards` puts the least chain that uses them: a miner builds a
block on the state it sees, consensus finds it blue or red, every node validates
the coinbase and applies the block, or finds it stale. Nothing in the crate calls
these functions with a score: `emission.rs` speaks of a "DAA score (blue score)",
`reward.rs` of a block height. The model takes the blue score, of which
`ghostdag.rs` makes two things that a chain of heights would not show: it adds the
size of a blue set, so that it passes over values (`Skip`), and blocks in parallel
have the same one (`Accept` with a score that does not move on). `unbacked`,
`lost`, `shared` and `skipped` are history variables: gas fees that were paid out
though no input paid them; coins that vanished (fees of red blocks, coinbases
overwritten by one with the same id); subsidies of blocks beside another with
their score; and subsidies of scores no block was rewarded for. "This is an
approximation since DAG structure is complex", says the comment of `total_emitted`
(`emission.rs:80`): `BooksBalance` says what it approximates and by how much it is
off. The cast of the number of halvings to `u32` (`emission.rs:36`) is modelled as
it is, modulo `U32`; from the score at which it wraps on (`HalvingsFit`, 2^32
halvings in the code) subsidy and tables part, and nothing is claimed there.

The tables of `emission.rs` are recursive functions on `0..128`, where the code
has a loop with a cap of 128. The two loops over the transactions of a block are
recursive functions of the number of transactions looked at: `AddFee` is one turn
of `calculate_accepted_fees`, over its clone of the set, and `ApplyOne` one turn
of `apply_block`, over the set itself. A `Result` that is an error is `Err`, and
the missing pool of an `Option` is `NoPool`.

### How contract runs correspond to the code

`meter` is the `GasMeter` of the host functions, `points` the remaining points of
the metering middleware, `work` a history variable of what has been done.
A run loads its module (a start function may run opcodes before the points are
set), executes opcodes and host calls in any order, and succeeds or fails
anywhere. `StateManager` uses the outcome: a run that returns keeps its writes, a
run that fails leaves the tree of `vm_snapshot`.

## 3. Runs

| Run | Question | Result |
|---|---|---|
| `verkle_tree` | Every sequence of inserts, state transitions, prunes, root requests, proofs, clones and reopenings | caches coherent, live leaves committed, reads match proofs, proofs verify, the tree implements the map |
| `state_manager` | Any block at any height, failing anywhere, with all three ways back, pruning, and contracts that destroy or overwrite the supply leaf | vectors aligned, snapshots replay, supply locked, coin maps agree, the ledger is implemented but for the supply and fees that `restore_from_snapshot` leaves |
| `state_manager_forward` | Validated blocks and pruning, no way back | every coin is bound by the root, no coin is overwritten, value is conserved |
| `ghostdag` | Every DAG of five blocks, added and processed in any order, one of them removed at any moment | links mirrored, acyclic, tips without children, ordering topological, stored parents, colours and scores current, the two virtual blocks agree, one pass settles |
| `ghostdag_reorganization` | "Check if reorganization would violate finality" | violated (finding 1) |
| `blockchain_state` | Any block of up to three transactions, refused anywhere, with reverts, pruning and snapshots between blocks | a refused block leaves no trace, its rollback does not fail, no payment creates value |
| `batch_verify` | Every batch of up to six signatures, every interleaving of the caller and three threads | `Verification` is implemented, fairness included; only threads of a rejected batch panic; every thread ends |
| `scheduler` | Every list of up to three of five transactions, planned and executed between blocks, failing anywhere | plans lose nothing and put a transaction off only past groups it conflicts with, only plans of one group run, a failed plan is undone but for the tree |
| `standalone_tree` | Every sequence of inserts, prunes, proofs, root requests and refills | the root binds what is stored, pruning never moves it, proofs verify exactly where no leaf was lost |
| `rewards` | Blocks built, blue or red, stale, refused or accepted, beside each other or past a score, over three halvings, the cap and the wrap of the halvings | all coins accounted for by `total_emitted` and its two exceptions, a miner's coinbase is accepted |
| `rewards_cap` | "the blockchain can NEVER issue more than 600,000,000 SLUG coins" | violated (finding 2) |
| `contract_gas` | Contract runs in every order of opcodes, calls, refunds and failures under four limits | the two gas books agree, nothing is overdrawn, runs are atomic |

**Bounds.** `KeySize` = 3 in the tree: a cleanup crosses two levels, stops at a
sibling at either level, and a path can be re-created above or below a mark.
Three keys, one ordinary and one burn value, and two supplies (one above the
cap) give every outcome of `apply_state_transition`. `KeySize` = 2 in the state
manager: the tree is checked by itself, and here it only has to hold four or
nine leaves. The forward instance has `KeySize` = 3: with two levels a revived
path cannot cut off a leaf, since that takes an internal node below another, and
the exception in `UtxoBacked` would go untested. That instance is also one of
`ForwardWorkload` (`MCStateManagerForward` states it as an assumption, which TLC
evaluates), the hypothesis of the theorems about it. `MaxHeight` bounds
`current_height` in the guard of the block actions: 2 lets a rollback skip a
height, 4 lets the forward instance spend, prune and create again. The blocks of each
instance are listed in `MCStateManager`; among them they contain a block that
fails at its first input, at its last transition (burn output), above the cap,
and inside a contract.

In `GhostDag`, five blocks with `K` = 1 (the code's minimum) are the least for a
red block, for two branches that recompute each other, and for two orderings;
the genesis has hash 2, so that ties are won by smaller and by larger hashes.
`MaxPending` = 2 lets a block arrive between the addition and the processing of
another, `MaxRemoved` = 1 one removal (and a return of the removed id); in the
configurations of claims nothing is removed and each block is processed as it
comes, so that the counterexamples need neither. `FinalityDepth` (read by
`ghostdag_reorganization` only) is 4 in the place of 100: scores grow by the size of the whole blue set, so that the gap of 4 after
three blocks is what the gap of 100 is after a longer chain.

`BlockchainState`: six transactions (a coinbase, a payment that splits its output,
one that joins the parts, one that names a part twice, one whose outputs
overflow, one that burns) and every block of up to three of them, so that
outputs are created, spent and restored within a block; `MaxValue` = 3 makes the
sums overflow at once.

`Scheduler`: a coinbase, the payment that spends it (whose id sorts first, so
that a plan applies it before the coinbase), two contracts with a slot in common
and a third that overlaps with both in another slot; lists of up to three, with
repetitions, give plans of one to three groups. `MaxHeight` = 1: plans run
before and after one block.

`BatchVerify`: chunks of two and at most six items stand for chunks of 10: no
item, one chunk verified by the caller, two or three threads, a short or a full
last chunk, and any items bad.

`StandaloneTree`: three-bit keys, two below the same bottom node and a third
next to it, so that a recorded commitment can stand above a live sibling, be
cleared by an insert next to it, and be recorded again.

`Rewards`: two scores per halving, base reward 3, floor 1 and cap 9: the end of
the tables, a third interval at the floor and the cap are reached by height 6.
`U32` = 3 lets the halvings wrap there, and `MaxHeight` = 7 goes beyond.
`MaxShared` and `MaxSkipped` = 1 allow one block beside another for the same score
(as soon as its subsidy is not 0) and one score passed over, at any height.
`MaxValue` = 5: the first reward and the fees of both transactions (3 + 3)
overflow together, so that the block cannot be built; later rewards fit.
A body is empty or a payment and a contract call.
Two blocks under way (`MaxPending`) are enough for a stale one. `ContractGas`:
the costs are small numbers, not in the order of those in the code (the properties
and theorems hold for any); the limits are too small for the intrinsic gas, for one
call, for a write of a new key, and enough for several.

No run bounds the length of behaviours; all state spaces are finite. Deadlock
is not checked: at `MaxHeight` with nothing to prune a forward instance stops,
a batch is over when it is verified, and the tree instances have no notion of
being stuck.

**Fairness.** Only `BatchVerify` assumes any: weak fairness of the caller and of
each thread, because the operating system runs every thread that can run. No
step waits for a lock, and `Receive` is enabled as long as a verdict is in the
channel, so weak fairness is enough for `ImplementsVerification` (the answer
comes) and `ThreadsEnd` (also after an early return nobody waits for ever).
Elsewhere every method runs to its end on the caller's thread, so progress
inside a call is not in question, and nothing in the code obliges anyone to
call a method.

## 4. Findings

Two disagreements between the code and its own words are runs of the project:

1. `consensus/ghostdag.rs:631` (`ghostdag_reorganization`). `can_reorganize`
   measures the distance from the target to the first tip, so every tip is at
   distance 0 and is accepted, also one whose chain lacks final blocks.
2. `consensus/reward.rs:76` (`rewards_cap`). The fees a coinbase pays out contain
   `gas_limit * max_fee_per_gas`, which no input pays. The cap holds for
   `total_emitted`, not for the coins that circulate. (With the real constants
   the subsidy alone does not reach the cap within any realistic height.)

Further configurations are kept beside the runs. Each checks one property that
a comment states and the code breaks; TLC shows the counterexample.

| Configuration | Property | Source | Counterexample |
|---|---|---|---|
| `MCVerkleTreeRevived.cfg` | `StoredLeavesCommitted` | `state/v_trie.rs:203` | the cleanup skips a child in `pruned_keys`, also when a later insert re-created it, because insert never clears a mark; pruning a sibling then deletes the parent of a live subtree |
| `MCStateManagerRollback.cfg` | `SupplyMatchesUtxo` | `state_manager.rs:402` | a rollback restores the supply but has no UTXO set to restore |
| `MCStateManagerRestore.cfg` | `RestoredEntire` | `state_manager.rs:503` | "Restore entire state dari specific snapshot" (the entire state, `state_manager.rs:490`): after one block, restoring the snapshot of height 0 brings back the empty tree and leaves the supply of the block, and its gas fees |
| `MCStateManagerRepeat.cfg` | `SupplyMatchesUtxo` | `state_manager.rs:267` | a transaction without inputs that occurs twice in a block is counted twice |
| `MCStateManagerPruned.cfg` | `OutputsFresh` | `consensus/ghostdag.rs:273` | the collision check takes the error of a pruned key for "free" |
| `MCStateManagerCut.cfg` | `CoinsCommitted` | `state/v_trie.rs:203` | the same cleanup in the state manager: a coin is created below a marked path, its sibling is pruned, and the coin is unspent and stored but no longer bound by the root |
| `MCGhostDagOrdering.cfg` | `OrderingAgreed` | `consensus/ghostdag.rs:563` | only the parents of a new block and their descendants are recomputed: with g, a(g), b(g), c(a), d(b), a node that receives c before d orders them so, one that receives d first the other way round |
| `MCGhostDagCluster.cfg` | `BlueSetIsKCluster` | `consensus/ghostdag.rs:354` | the bound k is checked for the candidate only; blocks coloured before exceed it afterwards |
| `MCGhostDagScore.cfg` | `ScoreStepsByOne` | `consensus/ghostdag.rs:398` | "Blue score dihitung sebagai blue score selected parent + 1" (that of the selected parent plus one, `docs/klomang-core-consensus.md:24`): the code adds the size of the blue set, which a block inherits from its selected parent, so that the scores on a chain grow by 1, 2, 3 and so on. The genesis has score 1 (`ghostdag.rs:557`), not 0 (`docs/klomang-core-consensus.md:23`) |
| `MCRewardsParallel.cfg` | `NeverAboveCap` | `consensus/emission.rs:80` | without any fee: two blocks with the same score are each rewarded for it, `total_emitted` counts one, and the cap of `capped_reward` (`emission.rs:140`) lets both pass |
| `MCRewardsHalving.cfg` | `RewardNeverRises` | `consensus/emission.rs:36` | "Reward berkurang setengah setiap interval" (the reward is halved every interval, `docs/klomang-core-ekonomi.md`): the number of halvings is cut to 32 bits, so that after 2^32 of them (3 in the instance) the base reward is paid again. Out of reach of any chain |
| `MCSchedulerTree.cfg` | `FailedPlanKeepsRoot` | `scheduler/parallel.rs:137` | a contract of a group that fails later has written to the tree, which no checkpoint holds |

What else the translation brought to light, without a run of its own:

* `scheduler/parallel.rs:148`: a group that leaves the root alone counts as
  failed, and payments write their outputs to the tree only at the end of a
  block; so a group of payments alone is always refused.
* `scheduler/parallel.rs:185`: two groups of a plan always conflict
  (`OneGroupRuns`, proved), so a plan with more than one group is never executed.
* `state/transaction.rs:192`: the read set is hashed from the transaction's own
  id and not from the outpoints it spends, so a payment and the payment it
  spends from do not conflict and share a group, in the order of their ids.
* `crypto/verkle/verkle_tree.rs:147`: after a prune the siblings of the bottom
  node are built from the storage, which has lost the leaf; the keys below that
  node cannot be proved although the root was preserved
  (`PrunedKeysProvable` of `StandaloneTree` states the wish).
* `crypto/verkle/verkle_tree.rs:683`: the key of a UTXO is made of address, index
  and the word VALUE, without the transaction id; two coins of an address at the
  same index share a leaf, and the root depends on the order of the set.
* `consensus/reward.rs:210`: the debug assertion that the node share is a fifth
  of the total rounded down fails where the miner's share rounds
  (`NodeShareAsserted` of `Rewards`).
* `consensus/reward.rs:258`: the id of a coinbase depends on its outputs and
  address only; equal coinbases overwrite each other (`lost` counts them).
* `scheduler/parallel.rs`: the plan is first fit in the order of the ids, which need
  not give the least number of groups (four transactions that conflict along a path
  a, b, c, d and are met as a, d, b, c make three).
* `vm/executor.rs:143`: a negative `key_len` makes the host function allocate a
  vector of that size as `usize` and panic, past the code that puts the tree back;
  the model has no such call.
* `vm/executor.rs:325`: the points are set after the module is instantiated, so
  what a start function used is forgotten; the read that tells a new key from an
  old one is free, and a refund is granted for a key that does not exist.

## 5. Proofs

All theorems hold for every value of the constants that satisfies the named
assumptions of the modules: key size at least 1, sentinels that are no values
(`NoneAssumption` of `StandaloneTree` says so of "nothing recorded" and the sets
of leaves), a supply key that is a key, well-formed transactions, costs and
limits that are natural numbers, chunks of at least one item. Nothing is assumed
about the alphabet, the number of keys or blocks, or `MaxHeight`. A theorem that
needs more has it as a visible hypothesis: only those about coins and supply do
(`ForwardWorkload`).

`VerkleTreeProofs`

* `TypeCorrect`: in particular the root node is never deleted.
* `CachesCoherent`. `CacheCoherent` alone is inductive once stated for every
  cached path (`Coherent`, `RootCoherent`): the central lemma `ComputeCorrect`
  says that the recursion with a coherent cache equals the one without, and
  `CommitmentLocal` that a commitment depends on the nodes below its path only.
* `LeafInvariant`, `LeavesCommitted`, `ReadsAgreeWithProofs`. Not inductive by
  themselves; the strengthening `LeafInv` says that (while nothing is revived)
  the storage is closed under prefixes and no stored path is marked.
  `PruneKeepsLeaves` is where the cleanup is shown to delete only what is empty.
* `EveryProofVerifies`: unconditional; by locating each leaf of the root either
  on the path of the key or below exactly one collected sibling.
* `TreeImplementsMap`: the refinement, from `LeafInv`.

`StateManagerProofs`

The inductive invariant `Inv` is the conjunction of `TypeOK`, `SnapshotsAligned`,
`SnapshotsReplayable`, `SupplyLocked`, `CoinsAgree` and two strengthenings:
`ClonesAgree` (the maps cloned at the start of a block agree with each other,
needed because `AbortBlock` copies them back) and `PruneListMarked` (every
outpoint still to prune is marked, needed to see that a pruning step changes the
mark of each coin it removes). From it follow `TypeCorrect`, `VectorsAligned`,
`SnapshotsReplay`, `SupplyAlwaysLocked`, `CoinMapsAgree`, and the refinement
`ManagerImplementsLedger`: each step inside a block maps to a stutter,
`CommitBlock` to `Commit`, a rollback to `Rollback`, a pruning step to `Prune`.
A call of `restore_from_snapshot` is the named exception `StaleRestore`: it goes
back to a checkpoint whose content it restores and keeps the supply and the fees of
the head (`RestoreIsStale`).

The coins and the supply are right only for what the code is meant to be fed, and
`ForwardWorkload` says what that is: validated blocks and pruning, no way back;
ids that identify a transaction and keys that identify an outpoint (both are
hashes); contracts that keep to keys of their own; a coinbase at most once in a
block, and never pruned. The code refuses none of the rest, and
`MCStateManagerRollback.cfg`, `MCStateManagerRepeat.cfg` and
`MCStateManagerPruned.cfg` show what happens without three of these parts.
Under it four theorems hold:

* `CoinsNeverReplaced` (`OutputsFresh`) and `CoinsStayBacked` (`UtxoBacked`), from
  `ForwardInv`. Its part `Sound` says of the tree, the updates a block has
  collected and the UTXO set that the leaf of every unspent output is stored or
  about to be (`LeavesHold`), that once an output was created the inputs of its
  transaction are spent for good, so that it is not created again (`NoComeback`),
  and that no output of a coinbase is pruned (`MintsKept`).
  The rest speaks of the block under way: what it has still to create is not there
  (`MintsFresh`, `BodyFresh`), and only outpoints that may be pruned are marked
  (`MarkedAreMarkable`). `CutsMarked` is the exception in `UtxoBacked` made
  inductive: where a node is missing above a stored one, a path between the two is
  marked pruned and stored again. The clones taken by `apply_block` satisfy the same, because an
  error copies them back.
* `ValueAlwaysConserved` (`ValueConserved`) and `SupplyMatchesUntilPruned` (without
  pruning the supply *is* the worth of the UTXO set). They add `SupplyInv`, and
  for it that the saturating subtraction never saturates: the supply is at least
  the worth of all coins, so at least that of one. What a sum over a function is
  when one entry changes is proved by induction over finite sets, written as a
  statement about *the set of* finite subsets for which the claim holds, which
  needs no operator as a parameter. `OutPoint` has to be finite for the sum to
  exist, a visible hypothesis too.

The scheduler's theorems follow in the same module. `PlanInv` says that the
members of a group do not conflict, that who was skipped conflicts with a member
of the present group, and that whatever is placed after a group, or still to
place, conflicts with a member of it (`Separated`), together with types and the
places where the lists are empty. `Consider` only moves a transaction between the
sets behind a group (`ConsiderMoves`), `CloseGroup` adds one group for which the
skipped ones wait. `PlansAlwaysSound` (`PlanSound`) adds that nothing is lost or
duplicated: sorting is a permutation of the list, and how often a transaction
occurs in the groups, the present group, the skipped and the remaining ones
together never changes while the plan is made. `OnlyOneGroupRuns`: the first
member of the second group had to wait for the first, so their merged sets
conflict (`TwoGroupsConflict`) and the plan is refused. `FailedPlansUndone` needs
a second invariant, `UndoInv`: the checkpoint of the group is the one of the plan
(because only one group runs), the height does not move while it executes, and the
fees only grow, so that truncating them restores them. As the fees come back from
snapshots and clones of the state manager, `UndoInv` follows them through all of
its steps (`ManagerChain`, `ManagerFees`).

`GhostDagProofs`

`DagInv`, the conjunction of the types of the DAG, `LinksMirrored`, `Acyclic` and
`TipsAreSinks`, is inductive. Acyclicity is stated as "every set of blocks has one
without a parent in the set", which needs no transitive closure: a new block is
nobody's parent, so a set that contains it has its minimal element among the
others or is the new block alone. For removals the links of both directions have
to agree, which is why the invariants are proved together. From it follow
`LinksAlwaysMirrored`, `AlwaysAcyclic` and `TipsAlwaysSinks`, for any number of
blocks, any `k` and any order of calls.

About the labels, the functions of the code are recursive functions on the natural
numbers (how far the sort, the colouring or the pass has come), and what they
compute is proved by induction over that number: the set of numbers up to which
the claim holds has no least one missing.

* `TopologicalOrder`: in any finite DAG whose links mirror each other,
  `topological_sort` returns each block it is given once, after its parents among
  them. `Sorting` relates the stack to what is sorted: the stack holds exactly
  the blocks that are `Ready`, once each, and as long as blocks are left one of
  them is (`SomeReady`, from acyclicity).
* `GhostInv` adds to `DagInv` that there are finitely many blocks (blue sets are
  counted), that a block is processed after its parents, and what every
  processed block's label keeps *although the DAG grows*: its score is above those
  of its parents (`LabelsAbove`), and while nothing was removed it is what would be
  computed today, over the present labels of the parents and from those blocks of
  the anticone of the selected parent it has coloured (`LabelsCount`). That a label
  names stored blocks only (`LabelsKnown`) is what it takes for a new block to leave
  that be: it enters anticones and takes nothing out of them (`AnticoneGrows`, from
  what a search along the links is at least and at most, `ReachClosed` and
  `ReachLeast`), and colouring looks at anticones within the blocks it has coloured
  (`ColourLocal`). What the block itself would change is not computed;
  `MCGhostDagOrdering.cfg` shows the consequence. `PassFacts` shows that a pass in
  topological order leaves every label it touches settled. From it `TypeCorrect`, `OrderingAlwaysTopological`,
  `LabelsAlwaysCurrent`, `VirtualBlocksAlwaysAgree` (the best block of the DAG is a
  tip, as every other has a child with a higher score, and the order by score and
  hash leaves one best) and `PassAlwaysSettles`.
* `DagAlwaysDetermined` and `NodesAgreeOnDag`: as long as no block was removed,
  children and tips follow from the parents of the stored blocks, so two nodes with
  the same blocks store the same DAG whatever the order in which the blocks came.
  The labels are not part of it: they do depend on that order.

`UtxoSetProofs`

Of `BlockchainState`: the inductive invariant adds `Retraces`: while a block is applied or undone, the
i-th change set leads from the i-th set of the trail to the next, spends what is
in the one and in the map of spent outputs, and creates nothing that was there
(`Undoable`). So every undo succeeds and leads one step back (`RevertWhole`),
and when no change set is left the set is the first of the trail:
`RejectedBlocksLeaveNoTrace`, `RollbackAlwaysSucceeds`.

`PaymentsNeverCreateValue` (`PaymentsCreateNoValue`): a payment whose inputs are
distinct, unspent and worth at least its outputs never adds to the value of the
UTXO set. What a sum over a finite set is, taken part by part, is proved by
induction over its subsets (`SubsetInduction`, `SumsAlong`, `SumsAdd`), and
`FoldsAre` reduces the folds the model is written with to that sum. The UTXO set is
finite because it holds outputs of transactions that were applied, and only them
(`SetsReal`, an invariant through rollbacks, snapshots and pruning), so nothing is
assumed about the number of outpoints. Without the check of `validate_tx` that
inputs are distinct and unspent, the sum of the inputs would not be a part of the
value of the set; the proof needs it exactly there (`PaymentKeeps`).

Of `Rewards`, by way of what a transaction does to the value of a set
(`ValueStep`: inputs go, outputs come, and those that were there already do not
count again):

* `SubsidiesAddUp`: below the score at which the halvings wrap, `total_emitted`, a
  closed formula with whole intervals, a remainder and a cap, grows at every score
  by what `capped_reward` pays for it. So it is exact for a chain with one block at
  every score, and only there. The tables are what their recursive definitions say (`Tables`), the
  reward stays at its floor (`Floor`), a full interval emits its reward once per
  block on both sides of the end of the table (`TablesAgree`), and the next score
  either stays in the interval or begins one (`DivisionStep`).
* `BooksAlwaysBalance` (`BooksBalance`). The inductive invariant `RewardsInv`
  adds that the UTXO set is real and what a block under way looks like
  (`Built`): a coinbase some miner could build, before a body of payments. For
  such a block `BlockBooks` follows the two loops side by side, the fees over the
  clone and the application over the set: the fees found are the fees the inputs
  leave and the gas, and the set gains what the coinbase pays, less those fees and
  what is overwritten. As validation makes the coinbase pay exactly
  `block_total_reward`, the subsidy is the only thing left (`AcceptBalances`), and
  `SubsidiesAddUp` accounts for it where the score moves on; the subsidy of a block
  beside another is in `shared`, that of a score passed over in `skipped`
  (`SkipBalances`).
* `ExcessIsBounded`: what the cap of `capped_reward` comes to. What circulates
  exceeds it by no more than `shared` and `unbacked`, up to the same score.
* `CoinbaseAlwaysAccepted` (`CoinbaseAccepted`). `Built` also says that the
  coinbase of a fresh block pays what its body is worth on the present state.
  The validator's loop skips the coinbase (`CoinbaseSkipped`), so it finds the same
  total, and the clone it works on is a part of the set that `apply_block` works
  on, which has the coinbase in it, so that what validates there validates here
  (`BlockApplies`).

They assume of the constants that the reward reaches its floor within the 128
halvings of the code (`TableAssumption`), that a miner's coinbases are
transactions (`CoinbaseAssumption`), and that only the coinbase of a block has no
inputs (`RewardAssumption`). TLC evaluates all three in `rewards`.

`StandaloneTreeProofs`

* `RootAlwaysBinds`, `PruningAlwaysKeepsRoot`, `ProofsVerifyUntilPruned`, the three
  properties of the run. `Kept` and `Bound` say without any cache what a path
  binds: the leaves stored below it and those that a recorded commitment stands for.
  `TreeInv` says that the storage is closed under prefixes (`Closed`), that what
  was pruned is gone (`PrunedGone`), that a recorded commitment is what its path
  binds (`RecordsHold`), that a leaf it keeps can be read or is pruned (`KeptKnown`), and that
  cached nodes and the cached root bind what is there now (`CacheHolds`,
  `RootHolds`). The recursion that stops at the first commitment standing in its way
  (`FirstStanding`) then returns `Bound` (`ComputeInner`); a prune, with the
  commitments it records and the parents it deletes, changes no `Bound`
  (`PruneKeepsBound`); and folding the siblings of a proof gives the root
  (`ProofFolds`). TLC confirms `TreeInv` on the instance of the run.

`BatchVerifyProofs`

The invariant says that every verdict is that of the items verified so far
(`VerdictsTrue`), that a negative one that was sent waits in the channel unless
the batch was rejected (`VerdictsKept`), and that no thread has still to send
when the caller accepts (`CallerKnows`). From it
`LosersOnly`, `AnswersRight` (the answer is the conjunction), and
`BatchImplements`, the safety part of the refinement to `Verification`.

`ContractGasProofs`

`GasAlwaysAccounted` and `RunsAlwaysAtomic`. The invariant `Books` follows the
two books from the payload on: what the meter has left and has charged is the
limit; once the module is instantiated so is what the run has done and has left
in points, which are never more than the meter has.

**Only model-checked.** `ImplementsVerification` and `ThreadsEnd` of
`BatchVerify` are liveness under fairness, which the installed provers cannot
reach (the safety half of the first is `BatchImplements`). Every other property of
a passing run is stated by a theorem for all values of the constants.

## 6. What is not modelled, and why

* Hashes, signatures, polynomial commitments and opening proofs
  (`crypto/hash.rs`, `crypto/verkle/polynomial_commitment.rs`): treated as
  collision-free and unforgeable. Serialization is modelled only where two
  readers could disagree (a value that parses as a burn output).
* WASM execution: any sequence of opcodes and host calls, of any success.
* Timestamps, difficulty, proof of work, ids and signatures in `validate_block`.
* `adjust_k` (`consensus/ghostdag.rs:62`): nothing in the crate calls it, and it
  reads the clock and a floating-point load; `k` is a constant here.
* `daa/`: a floating-point average over timestamps, without state or caller.
* `pow/`: a hash and a search loop without state.
* The optional full-node validator of `reward.rs` and `calculate_block_reward`,
  which have no caller.
* Reads that fail: `MemoryStorage` cannot fail.
* Configuration and error types.

## 7. Plan

Done: the tree, the state manager, the DAG and consensus, the blockchain state,
the scheduler, batch verification, the standalone tree, rewards, contract runs.
What could follow:

* A model of two nodes that add the same blocks in different orders, to say which
  labels they agree on; for links and tips `NodesAgreeOnDag` settles it.
