---------------------------- MODULE StateManager ----------------------------
(***************************************************************************)
(* The state manager of src/core/state_manager.rs: it applies blocks of    *)
(* transactions to a Verkle tree and a UTXO set, keeps one snapshot (and   *)
(* one copy of the storage) per height, rolls back to a height, and prunes *)
(* the outpoints marked for it.                                            *)
(*                                                                         *)
(* Grain.  Every method takes &mut self, so a call runs alone from its     *)
(* first step to its last; the steps of a call are the iterations of its   *)
(* loops (one input, one output, one pruned outpoint), and `phase' says    *)
(* where the call in progress stands.  A new call starts only in phase     *)
(* "idle".                                                                 *)
(*                                                                         *)
(* The tree is the node storage and the prune marks of VerkleNodes; the    *)
(* caches of the tree are left out, VerkleTree shows that they never       *)
(* change what get_root returns.  Output indexes start at 1.               *)
(***************************************************************************)
EXTENDS VerkleNodes

CONSTANTS
  Output,        \* the transaction outputs, a subset of Data
  OutPoint,      \* pairs <<transaction id, index>>
  Transactions,  \* records: id, inputs, outputs, contract
  KeyOf,         \* hash_with_index: the tree key of an outpoint
  ContractKeys,  \* what a contract may write or destroy in one run
  ContractData,
  Fees,          \* the gas fees a contract run may cost
  Epoch,
  Markable,      \* the outpoints the embedding program marks for pruning
  None,          \* an Option that is None
  Blocks,        \* the transaction lists of the blocks that arrive
  Calls,         \* the operations the embedding program calls
  MaxHeight      \* bound on current_height

AllCalls == {"apply_block", "validate_and_apply_block", "rollback_state", "rollback",
             "restore_from_snapshot", "prune"}

ASSUME TransactionAssumption ==
  /\ Output \subseteq Data
  /\ \A o \in Output : o.value \in Nat
  /\ KeyOf \in [OutPoint -> Key]
  /\ \A tx \in Transactions :
       /\ tx.inputs \in Seq(OutPoint)
       /\ tx.outputs \in Seq(Output)
       /\ tx.contract \in BOOLEAN
       /\ \A i \in 1..Len(tx.outputs) : <<tx.id, i>> \in OutPoint
  /\ \A b \in Blocks : b \in Seq(Transactions)
ASSUME ContractAssumption ==
  ContractKeys \subseteq Key /\ ContractData \subseteq Data /\ Fees \subseteq Nat
ASSUME BoundAssumption ==
  Calls \subseteq AllCalls /\ MaxHeight \in Nat /\ Epoch \subseteq Nat /\ Markable \subseteq OutPoint
ASSUME NoneAssumption ==
  None \notin Key /\ None \notin Output /\ None \notin Epoch /\ None \notin OutPoint

VARIABLES
  tree,                  \* [nodes, pruned_keys]
  current_height,
  snapshots,             \* snapshots[h + 1] is that of height h
  snapshot_storages,
  prune_markers,         \* the epoch each outpoint is marked with, or None
  outpoint_to_key,       \* the key of each known outpoint, or None
  current_total_supply,
  block_gas_fees,
  pending_updates,       \* the leaves to write at the end of the block, by key
  utxo,                  \* the output of each unspent outpoint, or None
  phase,
  queue,                 \* the transactions of the block still to apply
  cursor,                \* the input or output of Head(queue) to process
  saved,                 \* what apply_block cloned at its start
  vm_snapshot,           \* what apply_contract_transition cloned before the VM ran
  prune_list             \* keys_to_prune not yet processed

chain   == <<current_height, snapshots, snapshot_storages>>
tally   == <<current_total_supply, block_gas_fees, pending_updates>>
coins   == <<utxo, outpoint_to_key, prune_markers>>
manager == <<tree, chain, tally, coins>>
control == <<phase, queue, cursor, saved, vm_snapshot, prune_list>>
vars == <<manager, control>>

Phases == {"idle", "tx", "vm", "body", "failed", "pruning"}

\* The fields apply_block clones before it touches anything.
Saved == [tree |-> tree, current_height |-> current_height,
          current_total_supply |-> current_total_supply, block_gas_fees |-> block_gas_fees,
          pending_updates |-> pending_updates, prune_markers |-> prune_markers,
          outpoint_to_key |-> outpoint_to_key, utxo |-> utxo]

\* prune_key on a stored leaf.
PruneKey(t, k) ==
  [nodes       |-> PruneLeaf(t.nodes, t.pruned_keys, k),
   pruned_keys |-> t.pruned_keys \cup PrunedPaths(t.nodes, t.pruned_keys, k)]

NoUpdates == [k \in {} |-> None]

\* VerkleTree::new on a storage, and StateManager::new on an empty one.
NewTree(storage) == [nodes |-> EnsureRoot(storage), pruned_keys |-> {}]

Init ==
  /\ tree = NewTree(EmptyStorage)
  /\ current_height = 0
  /\ snapshots = <<[height |-> 0, root |-> RootOf(EmptyStorage), total_supply |-> 0,
                    gas_fees |-> <<>>]>>
  /\ snapshot_storages = <<EmptyStorage>>
  /\ prune_markers = [op \in OutPoint |-> None]
  /\ outpoint_to_key = [op \in OutPoint |-> None]
  /\ current_total_supply = 0
  /\ block_gas_fees = <<>>
  /\ pending_updates = NoUpdates
  /\ utxo = [op \in OutPoint |-> None]
  /\ phase = "idle" /\ queue = <<>> /\ cursor = 1 /\ saved = None
  /\ vm_snapshot = None /\ prune_list = {}

-----------------------------------------------------------------------------
(* apply_block *)

BeginBlock(txs) ==
  /\ phase = "idle"
  /\ current_height < MaxHeight
  /\ saved' = Saved
  /\ pending_updates' = NoUpdates
  /\ block_gas_fees' = <<>>
  /\ phase' = "tx" /\ queue' = txs
  /\ UNCHANGED <<tree, chain, current_total_supply, coins, cursor, vm_snapshot, prune_list>>

ApplyBlock(txs) == "apply_block" \in Calls /\ BeginBlock(txs)

ReadsValue(k) == Get(tree.nodes, tree.pruned_keys, k) = "value"

\* Faulty variant: output keys are not checked.
ValidatedInputs(txs) ==
  /\ \A t, u \in DOMAIN txs : \A i \in DOMAIN txs[t].inputs, j \in DOMAIN txs[u].inputs :
       txs[t].inputs[i] = txs[u].inputs[j] => t = u /\ i = j
  /\ \A t \in DOMAIN txs : \A i \in DOMAIN txs[t].inputs : ReadsValue(KeyOf[txs[t].inputs[i]])

\* What validate_block asks of the state: no outpoint is spent twice in the
\* block, every input can be read from the tree, no output key is in use there.
Validated(txs) ==
  /\ \A t, u \in DOMAIN txs : \A i \in DOMAIN txs[t].inputs, j \in DOMAIN txs[u].inputs :
       txs[t].inputs[i] = txs[u].inputs[j] => t = u /\ i = j
  /\ \A t \in DOMAIN txs :
       /\ \A i \in DOMAIN txs[t].inputs : ReadsValue(KeyOf[txs[t].inputs[i]])
       /\ \A i \in DOMAIN txs[t].outputs : ~ReadsValue(KeyOf[<<txs[t].id, i>>])

\* The second gate of validate_and_apply_block, can_reorganize on the id of the
\* block, is left out, as the DAG is: every block passes it here.  A block it
\* refuses changes nothing.
ValidateAndApplyBlock(txs) ==
  "validate_and_apply_block" \in Calls /\ Validated(txs) /\ BeginBlock(txs)

StartUtxoTransaction ==
  /\ phase = "tx" /\ queue # <<>> /\ ~Head(queue).contract
  /\ phase' = "body" /\ cursor' = 1
  /\ UNCHANGED <<manager, queue, saved, vm_snapshot, prune_list>>

\* apply_contract_transition: enough gas for the payload, the tree is cloned,
\* the VM runs.
StartContract ==
  /\ phase = "tx" /\ queue # <<>> /\ Head(queue).contract
  /\ vm_snapshot' = tree
  /\ phase' = "vm"
  /\ UNCHANGED <<manager, queue, cursor, saved, prune_list>>

\* Too little gas for the payload: refused before the VM runs.
RefuseContract ==
  /\ phase = "tx" /\ queue # <<>> /\ Head(queue).contract
  /\ phase' = "failed"
  /\ UNCHANGED <<manager, queue, cursor, saved, vm_snapshot, prune_list>>

\* klomang_state_write reads the key first, and fails if it reads as pruned.
HostWrite(k, v) ==
  /\ phase = "vm"
  /\ Get(tree.nodes, tree.pruned_keys, k) # "pruned"
  /\ tree' = [tree EXCEPT !.nodes = InsertLeaf(@, k, v)]
  /\ UNCHANGED <<chain, tally, coins, control>>

\* klomang_self_destruct ignores the error of prune_key on an absent leaf.
HostSelfDestruct(k) ==
  /\ phase = "vm"
  /\ NodeExists(tree.nodes, k)
  /\ tree' = PruneKey(tree, k)
  /\ UNCHANGED <<chain, tally, coins, control>>

\* The VM returned Ok: its writes stay, a witness of the fee is recorded, and
\* the inputs and outputs are applied as for any transaction.
ContractReturns(fee) ==
  /\ phase = "vm"
  /\ block_gas_fees' = Append(block_gas_fees, fee)
  /\ phase' = "body" /\ cursor' = 1 /\ vm_snapshot' = None
  /\ UNCHANGED <<tree, chain, current_total_supply, pending_updates, coins, queue, saved, prune_list>>

ContractFails ==
  /\ phase = "vm"
  /\ tree' = vm_snapshot
  /\ phase' = "failed" /\ vm_snapshot' = None
  /\ UNCHANGED <<chain, tally, coins, queue, cursor, saved, prune_list>>

\* Faulty variant: a plain subtraction.
PlainSub(a, b) == a - b

SaturatingSub(a, b) == IF a >= b THEN a - b ELSE 0

SpendInput ==
  /\ phase = "body"
  /\ cursor \in DOMAIN Head(queue).inputs
  /\ LET op == Head(queue).inputs[cursor] IN
       IF utxo[op] = None
       THEN /\ phase' = "failed"
            /\ UNCHANGED <<utxo, outpoint_to_key, prune_markers, current_total_supply, cursor>>
       ELSE /\ current_total_supply' = SaturatingSub(current_total_supply, utxo[op].value)
            /\ utxo' = [utxo EXCEPT ![op] = None]
            /\ outpoint_to_key' = [outpoint_to_key EXCEPT ![op] = None]
            /\ prune_markers' = [prune_markers EXCEPT ![op] = None]
            /\ cursor' = cursor + 1
            /\ UNCHANGED phase
  /\ UNCHANGED <<tree, chain, block_gas_fees, pending_updates, queue, saved, vm_snapshot, prune_list>>

WithUpdate(updates, k, v) ==
  [x \in DOMAIN updates \cup {k} |-> IF x = k THEN v ELSE updates[x]]

CreateOutput ==
  LET tx == Head(queue)
      i  == cursor - Len(tx.inputs)
      op == <<tx.id, i>>
  IN
  /\ phase = "body"
  /\ i \in DOMAIN tx.outputs
  /\ utxo' = [utxo EXCEPT ![op] = tx.outputs[i]]
  /\ pending_updates' = WithUpdate(pending_updates, KeyOf[op], tx.outputs[i])
  /\ outpoint_to_key' = [outpoint_to_key EXCEPT ![op] = KeyOf[op]]
  /\ current_total_supply' = current_total_supply + tx.outputs[i].value
  /\ cursor' = cursor + 1
  /\ UNCHANGED <<tree, chain, block_gas_fees, prune_markers, phase, queue, saved, vm_snapshot, prune_list>>

EndTransaction ==
  /\ phase = "body"
  /\ cursor > Len(Head(queue).inputs) + Len(Head(queue).outputs)
  /\ phase' = "tx" /\ queue' = Tail(queue) /\ cursor' = 1
  /\ UNCHANGED <<manager, saved, vm_snapshot, prune_list>>

\* apply_state_transition refuses a burn output before it writes, a supply
\* above the cap after it wrote.
RefuseBurn ==
  /\ phase = "tx" /\ queue = <<>> /\ SendsToBurn(pending_updates)
  /\ phase' = "failed"
  /\ UNCHANGED <<manager, queue, cursor, saved, vm_snapshot, prune_list>>

WriteTransition ==
  /\ phase = "tx" /\ queue = <<>> /\ ~SendsToBurn(pending_updates)
  /\ tree' = [tree EXCEPT !.nodes =
                InsertAll(@, WithSupply(pending_updates, current_total_supply))]

RefuseSupply ==
  /\ WriteTransition
  /\ current_total_supply > MaxSupply
  /\ phase' = "failed"
  /\ UNCHANGED <<chain, tally, coins, queue, cursor, saved, vm_snapshot, prune_list>>

\* Faulty variant: the storage is copied before the block is written to it.
CommitBlockEarlyCopy ==
  /\ WriteTransition
  /\ current_total_supply <= MaxSupply
  /\ current_height' = current_height + 1
  /\ snapshots' = Append(snapshots,
       [height |-> current_height + 1, root |-> RootOf(tree'.nodes),
        total_supply |-> current_total_supply, gas_fees |-> block_gas_fees])
  /\ snapshot_storages' = Append(snapshot_storages, tree.nodes)
  /\ phase' = "idle" /\ saved' = None
  /\ UNCHANGED <<tally, coins, queue, cursor, vm_snapshot, prune_list>>

\* Faulty variant: the supply cap is not enforced.
CommitBlockUncapped ==
  /\ WriteTransition
  /\ current_height' = current_height + 1
  /\ snapshots' = Append(snapshots,
       [height |-> current_height + 1, root |-> RootOf(tree'.nodes),
        total_supply |-> current_total_supply, gas_fees |-> block_gas_fees])
  /\ snapshot_storages' = Append(snapshot_storages, tree'.nodes)
  /\ phase' = "idle" /\ saved' = None
  /\ UNCHANGED <<tally, coins, queue, cursor, vm_snapshot, prune_list>>

CommitBlock ==
  /\ WriteTransition
  /\ current_total_supply <= MaxSupply
  /\ current_height' = current_height + 1
  /\ snapshots' = Append(snapshots,
       [height |-> current_height + 1, root |-> RootOf(tree'.nodes),
        total_supply |-> current_total_supply, gas_fees |-> block_gas_fees])
  /\ snapshot_storages' = Append(snapshot_storages, tree'.nodes)
  /\ phase' = "idle" /\ saved' = None
  /\ UNCHANGED <<tally, coins, queue, cursor, vm_snapshot, prune_list>>

RestoreManager ==
  /\ phase = "failed"
  /\ tree' = saved.tree
  /\ current_height' = saved.current_height
  /\ current_total_supply' = saved.current_total_supply
  /\ block_gas_fees' = saved.block_gas_fees
  /\ pending_updates' = saved.pending_updates
  /\ phase' = "idle" /\ queue' = <<>> /\ cursor' = 1 /\ saved' = None
  /\ UNCHANGED <<snapshots, snapshot_storages, vm_snapshot, prune_list>>

\* Faulty variants: one of the three maps is not put back.
AbortBlockKeepsMarkers ==
  /\ RestoreManager
  /\ prune_markers' = prune_markers
  /\ outpoint_to_key' = saved.outpoint_to_key
  /\ utxo' = saved.utxo
AbortBlockKeepsKeys ==
  /\ RestoreManager
  /\ prune_markers' = saved.prune_markers
  /\ outpoint_to_key' = outpoint_to_key
  /\ utxo' = saved.utxo
AbortBlockKeepsCoins ==
  /\ RestoreManager
  /\ prune_markers' = saved.prune_markers
  /\ outpoint_to_key' = saved.outpoint_to_key
  /\ utxo' = utxo

AbortBlock ==
  /\ RestoreManager
  /\ prune_markers' = saved.prune_markers
  /\ outpoint_to_key' = saved.outpoint_to_key
  /\ utxo' = saved.utxo

-----------------------------------------------------------------------------
(* Going back to an earlier height. *)

\* rollback_state up to its check of the root.  The UTXO set, the outpoint map,
\* the prune marks and the pending updates stay as they are.
TreeAt(height) == NewTree(snapshot_storages[height + 1])

\* Faulty variant: the vectors are truncated to one element less.
TruncateBelow(height) ==
  /\ snapshots' = SubSeq(snapshots, 1, height)
  /\ snapshot_storages' = SubSeq(snapshot_storages, 1, height)
  /\ current_height' = height
  /\ tree' = TreeAt(height)

TruncateTo(height) ==
  /\ snapshots' = SubSeq(snapshots, 1, height + 1)
  /\ snapshot_storages' = SubSeq(snapshot_storages, 1, height + 1)
  /\ current_height' = height
  /\ tree' = TreeAt(height)

RootMatches(height) ==
  RootOf(TreeAt(height).nodes) = snapshots[height + 1].root

RestoreLedger(height) ==
  /\ TruncateTo(height)
  /\ current_total_supply' = snapshots[height + 1].total_supply
  /\ block_gas_fees' = snapshots[height + 1].gas_fees

\* A root mismatch is reported after the fields were overwritten.
RollbackState(height) ==
  /\ "rollback_state" \in Calls /\ phase = "idle"
  /\ RestoreLedger(height)
  /\ UNCHANGED <<pending_updates, coins, control>>

\* rollback puts its backup back when rollback_state reports a mismatch.
Rollback(height) ==
  /\ "rollback" \in Calls /\ phase = "idle"
  /\ IF RootMatches(height) THEN RestoreLedger(height)
     ELSE UNCHANGED <<tree, current_height, snapshots, snapshot_storages,
                      current_total_supply, block_gas_fees>>
  /\ UNCHANGED <<pending_updates, coins, control>>

\* restore_from_snapshot finds the snapshot by height and root; it puts back
\* neither the supply nor the gas fees.
RestoreFromSnapshot(height) ==
  /\ "restore_from_snapshot" \in Calls /\ phase = "idle"
  /\ TruncateTo(height)
  /\ UNCHANGED <<tally, coins, control>>

-----------------------------------------------------------------------------
(* Pruning. *)

MarkOutpointForPruning(op, epoch) ==
  /\ "prune" \in Calls /\ phase = "idle"
  /\ prune_markers' = [prune_markers EXCEPT ![op] = epoch]
  /\ UNCHANGED <<tree, chain, tally, utxo, outpoint_to_key, control>>

\* execute_pruning_cycle collects the outpoints due...
BeginPruning(threshold) ==
  /\ "prune" \in Calls /\ phase = "idle"
  /\ prune_list' = {op \in OutPoint : prune_markers[op] # None /\ prune_markers[op] <= threshold}
  /\ prune_list' # {}
  /\ phase' = "pruning"
  /\ UNCHANGED <<manager, queue, cursor, saved, vm_snapshot>>

\* ...and prunes them in the order of the hash map.  An outpoint without a key
\* is skipped; a leaf that is not in the tree ends the cycle with an error.
PruneOutpoint(op) ==
  /\ outpoint_to_key[op] # None
  /\ NodeExists(tree.nodes, outpoint_to_key[op])
  /\ tree' = PruneKey(tree, outpoint_to_key[op])
  /\ outpoint_to_key' = [outpoint_to_key EXCEPT ![op] = None]
  /\ prune_markers' = [prune_markers EXCEPT ![op] = None]
  /\ prune_list' = prune_list \ {op}

\* Faulty variant: the output stays in the UTXO set.
ForgetCoinKeepsIt(op) == PruneOutpoint(op) /\ UNCHANGED utxo

ForgetCoin(op) == PruneOutpoint(op) /\ utxo' = [utxo EXCEPT ![op] = None]

SkipOutpoint(op) ==
  /\ outpoint_to_key[op] = None
  /\ prune_list' = prune_list \ {op}
  /\ UNCHANGED <<tree, coins>>

FailCycle(op) ==
  /\ outpoint_to_key[op] # None
  /\ ~NodeExists(tree.nodes, outpoint_to_key[op])
  /\ prune_list' = {}
  /\ UNCHANGED <<tree, coins>>

PruneNext(op) ==
  /\ phase = "pruning" /\ op \in prune_list
  /\ ForgetCoin(op) \/ SkipOutpoint(op) \/ FailCycle(op)
  /\ phase' = IF prune_list' = {} THEN "idle" ELSE "pruning"
  /\ UNCHANGED <<chain, tally, queue, cursor, saved, vm_snapshot>>

-----------------------------------------------------------------------------
BlockStep ==
  \/ StartUtxoTransaction \/ RefuseContract \/ StartContract
  \/ \E k \in ContractKeys, v \in ContractData : HostWrite(k, v)
  \/ \E k \in ContractKeys : HostSelfDestruct(k)
  \/ \E fee \in Fees : ContractReturns(fee)
  \/ ContractFails
  \/ SpendInput \/ CreateOutput \/ EndTransaction
  \/ RefuseBurn \/ RefuseSupply \/ CommitBlock \/ AbortBlock

Next ==
  \/ \E txs \in Blocks : ApplyBlock(txs) \/ ValidateAndApplyBlock(txs)
  \/ BlockStep
  \/ \E height \in 0..current_height :
       RollbackState(height) \/ Rollback(height) \/ RestoreFromSnapshot(height)
  \/ \E op \in Markable, epoch \in Epoch : MarkOutpointForPruning(op, epoch)
  \/ \E threshold \in Epoch : BeginPruning(threshold)
  \/ \E op \in OutPoint : PruneNext(op)

Spec == Init /\ [][Next]_vars
-----------------------------------------------------------------------------
(* Safety. *)

Leaves    == SUBSET (Key \X Value)
TreeType  == [nodes : Storage, pruned_keys : SUBSET Path]
Coins     == [OutPoint -> Output \cup {None}]
Markers   == [OutPoint -> Epoch \cup {None}]
KeyMap    == [OutPoint -> Key \cup {None}]
Updates   == UNION {[ks -> Data] : ks \in SUBSET Key}
SavedType == [tree : TreeType, current_height : Nat, current_total_supply : Nat,
              block_gas_fees : Seq(Nat), pending_updates : Updates,
              prune_markers : Markers, outpoint_to_key : KeyMap, utxo : Coins]

TypeOK ==
  /\ tree \in TreeType
  /\ current_height \in Nat
  /\ snapshots \in Seq([height : Nat, root : Leaves, total_supply : Nat, gas_fees : Seq(Nat)])
  /\ snapshot_storages \in Seq(Storage)
  /\ prune_markers \in Markers /\ outpoint_to_key \in KeyMap /\ utxo \in Coins
  /\ current_total_supply \in Nat
  /\ block_gas_fees \in Seq(Nat)
  /\ pending_updates \in Updates
  /\ phase \in Phases
  /\ queue \in Seq(Transactions) /\ cursor \in Nat \ {0}
  /\ (phase \in {"vm", "body"} => queue # <<>>)
  /\ IF phase \in {"tx", "vm", "body", "failed"} THEN saved \in SavedType ELSE saved = None
  /\ IF phase = "vm" THEN vm_snapshot \in TreeType ELSE vm_snapshot = None
  /\ prune_list \subseteq OutPoint

\* The index that apply_block, rollback_state and restore_from_snapshot take
\* into the two vectors is that of the height they mean, whatever blocks
\* failed and rollbacks happened before: validate_snapshots never objects.
SnapshotsAligned ==
  /\ Len(snapshots) = current_height + 1
  /\ Len(snapshot_storages) = current_height + 1
  /\ \A i \in DOMAIN snapshots : snapshots[i].height = i - 1

\* A tree rebuilt from a kept storage has the root of its snapshot, so the
\* root check of rollback_state never fails and rollback never needs its
\* backup.
SnapshotsReplayable ==
  \A i \in DOMAIN snapshots : snapshots[i].root = RootOf(NewTree(snapshot_storages[i]).nodes)

\* Every snapshot after the first binds its total supply at TOTAL_SUPPLY_KEY
\* and is within the cap, also when a contract destroyed or overwrote that key
\* and after restore_from_snapshot left a stale supply.
SupplyLocked ==
  \A i \in DOMAIN snapshots : i > 1 =>
    /\ snapshots[i].total_supply <= MaxSupply
    /\ <<TotalSupplyKey, SupplyBytes(snapshots[i].total_supply)>> \in snapshots[i].root

\* The UTXO set the caller owns and the map from outpoints to tree keys never
\* disagree on which outputs exist, in the middle of a block, after its
\* failure, and after every kind of return to an earlier height.
CoinsAgree ==
  \A op \in OutPoint :
    outpoint_to_key[op] = IF utxo[op] = None THEN None ELSE KeyOf[op]

\* The state manager implements the ledger: a block in progress is invisible,
\* what it did is kept when it commits and undone when it fails, and going back
\* restores a checkpoint, save for one known departure: restore_from_snapshot
\* leaves the supply and the fees of the head it replaces (RestoredEntire).
InBlock == phase \in {"tx", "vm", "body", "failed"}
Head0 == IF InBlock THEN saved ELSE Saved
LedgerHead ==
  [content |-> RootOf(Head0.tree.nodes), marks |-> Head0.tree.pruned_keys,
   supply  |-> Head0.current_total_supply, fees |-> Head0.block_gas_fees,
   coins   |-> Head0.utxo, markers |-> Head0.prune_markers]
LedgerHistory ==
  [i \in DOMAIN snapshots |->
     [content |-> snapshots[i].root, supply |-> snapshots[i].total_supply,
      fees |-> snapshots[i].gas_fees]]
TheLedger == INSTANCE Ledger WITH history <- LedgerHistory, head <- LedgerHead
StaleRestore ==
  \E height \in 0..current_height :
    /\ RestoreFromSnapshot(height)
    /\ TheLedger!Back(height + 1)
    /\ LedgerHead' = TheLedger!Restored(height + 1, current_total_supply, block_gas_fees)
ImplementsLedger ==
  TheLedger!Init /\ [][TheLedger!Next \/ StaleRestore]_<<LedgerHistory, LedgerHead>>

\* "Restore entire state dari specific snapshot" (the comment on
\* restore_from_snapshot, state_manager.rs:490): the supply and the fees are
\* those of the snapshot, as they are after rollback_state.  The code restores
\* the tree, the height and the two vectors.
RestoredEntire ==
  [][\A height \in 0..current_height : RestoreFromSnapshot(height) =>
       /\ current_total_supply' = snapshots[height + 1].total_supply
       /\ block_gas_fees' = snapshots[height + 1].gas_fees]_vars

-----------------------------------------------------------------------------
(* What holds for the workload of a node that only goes forward.           *)

\* The node validates its blocks and never goes back to an earlier height.  An
\* id is a hash over the transaction, a key one over the outpoint.  Contracts
\* keep to keys of their own.  A coinbase has no input that is spent with it:
\* it may neither occur twice in a block nor come back after its output was
\* pruned, and the code refuses neither.
ForwardWorkload ==
  /\ Calls \subseteq {"validate_and_apply_block", "prune"}
  /\ \A t, u \in Transactions : t.id = u.id => t = u
  /\ \A p, q \in OutPoint : KeyOf[p] = KeyOf[q] => p = q
  /\ \A op \in OutPoint : KeyOf[op] \notin ContractKeys \cup {TotalSupplyKey}
  /\ \A b \in Blocks : \A i, j \in DOMAIN b : b[i] = b[j] /\ b[i].inputs = <<>> => i = j
  /\ \A tx \in Transactions : tx.inputs = <<>> =>
       \A i \in DOMAIN tx.outputs : <<tx.id, i>> \notin Markable

Circulating ==
  SumFunction([op \in OutPoint |-> IF utxo[op] = None THEN 0 ELSE utxo[op].value])

\* cross_check_supply_consistency, its comparison with the UTXO set.
SupplyMatchesUtxo == phase = "idle" => current_total_supply = Circulating

\* No step creates or destroys value in one of the two places only; pruning,
\* which forgets coins the supply still counts, is the exception.  In
\* particular the saturating subtraction of a spent value never saturates.
ValueConserved ==
  [][phase # "pruning" =>
       current_total_supply' - current_total_supply = Circulating' - Circulating]_vars

\* validate_verkle_proof, "Ensure outputs do not collide with existing UTXO
\* keys": no block that passed validation is about to create an output that is
\* unspent, which would replace one coin by another and count both.
OutputsFresh ==
  phase = "body" =>
    LET tx == Head(queue)
        i  == cursor - Len(tx.inputs)
    IN  i \in DOMAIN tx.outputs => utxo[<<tx.id, i>>] = None

\* A path marked pruned on the way to the key is stored again.
Revived(k) == \E p \in tree.pruned_keys : IsPrefix(p, k) /\ NodeExists(tree.nodes, p)

\* Between blocks, and in the middle of a pruning cycle, every unspent output is
\* in the tree and can be read there, so that a block that spends it passes
\* validation; and the root binds it, so that a light client can be shown it,
\* unless a path on its way was marked pruned and written again.
UtxoBacked ==
  phase \in {"idle", "pruning"} =>
    \A op \in OutPoint : utxo[op] # None =>
      /\ ReadsValue(KeyOf[op]) /\ tree.nodes[KeyOf[op]] = utxo[op]
      /\ <<KeyOf[op], utxo[op]>> \in RootOf(tree.nodes) \/ Revived(KeyOf[op])

\* Without the exception it fails: the cleanup of a pruned output passes over
\* the revived path and deletes the nodes above a coin.
CoinsCommitted ==
  phase = "idle" =>
    \A op \in OutPoint : utxo[op] # None => <<KeyOf[op], utxo[op]>> \in RootOf(tree.nodes)
=============================================================================
