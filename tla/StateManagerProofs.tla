------------------------- MODULE StateManagerProofs -------------------------
(***************************************************************************)
(* The properties of StateManager, proved for every set of transactions,   *)
(* blocks and contracts, and every bound: those that hold for every        *)
(* workload, then those of a node that only goes forward.  Last those of   *)
(* Scheduler, which extends it: a plan loses nothing and separates what    *)
(* conflicts, only a plan of one group runs, and a plan that fails is      *)
(* undone.                                                                 *)
(***************************************************************************)
EXTENDS Scheduler, VerkleNodesProofs, FiniteSetTheorems, FunctionTheorems

-----------------------------------------------------------------------------
(* Type correctness. *)

\* The operations the state manager applies to its tree keep the type of the tree.
LEMMA TreeOps ==
  ASSUME NEW t \in TreeType, NEW k \in Key
  PROVE  /\ PruneKey(t, k) \in TreeType
         /\ \A v \in Value : [t EXCEPT !.nodes = InsertLeaf(@, k, v)] \in TreeType
PROOF
  <1>1. PruneKey(t, k) \in TreeType
    BY PruneLeafType, PrunedPathsType DEF PruneKey, TreeType
  <1>2. ASSUME NEW v \in Value PROVE [t EXCEPT !.nodes = InsertLeaf(@, k, v)] \in TreeType
    BY InsertLeafType DEF TreeType
  <1> QED BY <1>1, <1>2

\* A tree opened on a storage is a tree.
LEMMA NewTreeType ==
  ASSUME NEW storage \in Storage
  PROVE  NewTree(storage) \in TreeType
PROOF
  BY EnsureRootType DEF NewTree, TreeType

\* Adding a pending update keeps the pending updates typed.
LEMMA UpdatesType ==
  ASSUME NEW u \in Updates
  PROVE  /\ DOMAIN u \subseteq Key /\ \A k \in DOMAIN u : u[k] \in Data
         /\ \A k \in Key, v \in Data : WithUpdate(u, k, v) \in Updates
         /\ NoUpdates \in Updates
PROOF
  <1>1. PICK ks \in SUBSET Key : u \in [ks -> Data]
    BY DEF Updates
  <1>2. ASSUME NEW k \in Key, NEW v \in Data PROVE WithUpdate(u, k, v) \in Updates
    <2>1. WithUpdate(u, k, v) \in [ks \cup {k} -> Data]
      BY <1>1 DEF WithUpdate
    <2>2. ks \cup {k} \in SUBSET Key
      BY <1>1, <1>2
    <2> QED BY <2>1, <2>2 DEF Updates
  <1>3. NoUpdates \in [{} -> Data]
    BY DEF NoUpdates
  <1> QED BY <1>1, <1>2, <1>3 DEF Updates

\* The transaction a block step works on.
LEMMA HeadType ==
  ASSUME queue \in Seq(Transactions), queue # <<>>
  PROVE  /\ Head(queue) \in Transactions /\ Tail(queue) \in Seq(Transactions)
         /\ Head(queue).inputs \in Seq(OutPoint) /\ Head(queue).outputs \in Seq(Output)
         /\ \A i \in DOMAIN Head(queue).inputs : Head(queue).inputs[i] \in OutPoint
         /\ \A i \in DOMAIN Head(queue).outputs :
              /\ Head(queue).outputs[i] \in Output
              /\ <<Head(queue).id, i>> \in OutPoint
PROOF
  <1>1. Head(queue) \in Transactions /\ Tail(queue) \in Seq(Transactions)
    BY HeadTailProperties
  <1>2. Head(queue).inputs \in Seq(OutPoint) /\ Head(queue).outputs \in Seq(Output)
        /\ \A i \in 1..Len(Head(queue).outputs) : <<Head(queue).id, i>> \in OutPoint
    BY <1>1, TransactionAssumption
  <1>3. \A i \in DOMAIN Head(queue).inputs : Head(queue).inputs[i] \in OutPoint
    BY <1>2
  <1>4. \A i \in DOMAIN Head(queue).outputs : Head(queue).outputs[i] \in Output
    BY <1>2
  <1>5. DOMAIN Head(queue).outputs = 1..Len(Head(queue).outputs)
    BY <1>2
  <1> QED BY <1>1, <1>2, <1>3, <1>4, <1>5

\* The type of a snapshot.
SnapshotType == [height : Nat, root : Leaves, total_supply : Nat, gas_fees : Seq(Nat)]

\* A new state manager is well typed.
LEMMA InitType == Init => TypeOK
PROOF
  <1> SUFFICES ASSUME Init PROVE TypeOK
    OBVIOUS
  <1>1. tree \in TreeType /\ EmptyStorage \in Storage
    BY NewTreeType, EmptyStorageType DEF Init
  <1>2. RootOf(EmptyStorage) \in Leaves
    BY EmptyRoot DEF Leaves
  <1>3. snapshots \in Seq(SnapshotType)
    BY <1>2 DEF Init, SnapshotType
  <1>4. snapshot_storages \in Seq(Storage)
    BY <1>1 DEF Init
  <1>5. pending_updates \in Updates
    <2>1. NoUpdates \in [{} -> Data] /\ {} \in SUBSET Key
      BY DEF NoUpdates
    <2> QED BY <2>1 DEF Init, Updates
  <1>6. prune_markers \in Markers /\ outpoint_to_key \in KeyMap /\ utxo \in Coins
    BY DEF Init, Markers, KeyMap, Coins
  <1> QED BY <1>1, <1>3, <1>4, <1>5, <1>6 DEF Init, TypeOK, SnapshotType, Phases

\* What apply_block clones and clears at its start is well typed.
LEMMA BeginBlockType ==
  ASSUME TypeOK, NEW txs \in Blocks, BeginBlock(txs)
  PROVE  TypeOK'
PROOF
  <1>1. txs \in Seq(Transactions) /\ NoUpdates \in Updates
    BY TransactionAssumption, UpdatesType DEF TypeOK
  <1>2. saved' \in SavedType
    BY DEF BeginBlock, Saved, SavedType, TypeOK
  <1> QED BY <1>1, <1>2 DEF BeginBlock, TypeOK, Phases, chain, coins

\* The steps that only move the control keep the types.
LEMMA StartType ==
  ASSUME TypeOK, StartUtxoTransaction \/ StartContract \/ RefuseContract \/ RefuseBurn
  PROVE  TypeOK'
PROOF
  BY DEF StartUtxoTransaction, StartContract, RefuseContract, RefuseBurn, TypeOK, Phases,
         manager, chain, tally, coins

\* The host calls of a contract keep the types.
LEMMA HostType ==
  ASSUME TypeOK,
         (\E k \in ContractKeys, v \in ContractData : HostWrite(k, v))
           \/ (\E k \in ContractKeys : HostSelfDestruct(k))
  PROVE  TypeOK'
PROOF
  <1>0. tree \in TreeType /\ ContractKeys \subseteq Key /\ ContractData \subseteq Value
    BY ContractAssumption DEF TypeOK, Value
  <1>a. ASSUME NEW k \in ContractKeys, NEW v \in ContractData, HostWrite(k, v)
        PROVE  tree' \in TreeType
    <2>1. tree' = [tree EXCEPT !.nodes = InsertLeaf(@, k, v)] /\ k \in Key /\ v \in Value
      BY <1>0, <1>a DEF HostWrite
    <2> QED BY <1>0, <2>1, TreeOps
  <1>b. ASSUME NEW k \in ContractKeys, HostSelfDestruct(k) PROVE tree' \in TreeType
    <2>1. tree' = PruneKey(tree, k) /\ k \in Key
      BY <1>0, <1>b DEF HostSelfDestruct
    <2> QED BY <1>0, <2>1, TreeOps
  <1>1. tree' \in TreeType
    BY <1>a, <1>b
  <1> QED BY <1>1 DEF HostWrite, HostSelfDestruct, TypeOK, chain, tally, coins, control

\* The end of a contract, good or bad, keeps the types.
LEMMA ContractEndType ==
  ASSUME TypeOK, (\E fee \in Fees : ContractReturns(fee)) \/ ContractFails
  PROVE  TypeOK'
PROOF
  <1>1. CASE ContractFails
    BY <1>1 DEF ContractFails, TypeOK, Phases, chain, tally, coins
  <1>2. ASSUME NEW fee \in Fees, ContractReturns(fee) PROVE TypeOK'
    <2>1. block_gas_fees' \in Seq(Nat)
      BY <1>2, ContractAssumption DEF ContractReturns, TypeOK
    <2> QED BY <1>2, <2>1 DEF ContractReturns, TypeOK, Phases, chain, coins
  <1> QED BY <1>1, <1>2

\* Spending an input keeps the types; the supply stays a natural number.
LEMMA SpendInputType ==
  ASSUME TypeOK, SpendInput
  PROVE  TypeOK'
PROOF
  <1> DEFINE op == Head(queue).inputs[cursor]
  <1>1. op \in OutPoint
    BY HeadType DEF SpendInput, TypeOK
  <1>2. CASE utxo[op] = None
    BY <1>2 DEF SpendInput, TypeOK, Phases, chain
  <1>3. CASE utxo[op] # None
    <2>1. utxo[op].value \in Nat
      BY <1>1, <1>3, TransactionAssumption DEF TypeOK, Coins
    <2>2. /\ current_total_supply' = SaturatingSub(current_total_supply, utxo[op].value)
          /\ utxo' = [utxo EXCEPT ![op] = None]
          /\ outpoint_to_key' = [outpoint_to_key EXCEPT ![op] = None]
          /\ prune_markers' = [prune_markers EXCEPT ![op] = None]
          /\ cursor' = cursor + 1 /\ phase' = phase /\ phase = "body"
          /\ UNCHANGED <<tree, chain, block_gas_fees, pending_updates, queue, saved, vm_snapshot, prune_list>>
      BY <1>3 DEF SpendInput
    <2>3. current_total_supply' \in Nat
      BY <2>1, <2>2 DEF TypeOK, SaturatingSub
    <2>4. utxo' \in Coins /\ outpoint_to_key' \in KeyMap /\ prune_markers' \in Markers
      BY <2>2 DEF TypeOK, Coins, KeyMap, Markers
    <2> HIDE DEF op
    <2> QED BY <2>2, <2>3, <2>4 DEF TypeOK, Phases, chain
  <1> QED BY <1>2, <1>3

\* Creating an output keeps the types.
LEMMA CreateOutputType ==
  ASSUME TypeOK, CreateOutput
  PROVE  TypeOK'
PROOF
  <1> DEFINE tx == Head(queue)
             i  == cursor - Len(tx.inputs)
             op == <<tx.id, i>>
             o  == tx.outputs[i]
  <1>1. op \in OutPoint /\ o \in Output /\ KeyOf[op] \in Key /\ o.value \in Nat /\ o \in Data
    BY HeadType, TransactionAssumption DEF CreateOutput, TypeOK
  <1>2. /\ utxo' = [utxo EXCEPT ![op] = o]
        /\ pending_updates' = WithUpdate(pending_updates, KeyOf[op], o)
        /\ outpoint_to_key' = [outpoint_to_key EXCEPT ![op] = KeyOf[op]]
        /\ current_total_supply' = current_total_supply + o.value
        /\ cursor' = cursor + 1 /\ phase = "body"
        /\ UNCHANGED <<tree, chain, block_gas_fees, prune_markers, phase, queue, saved, vm_snapshot, prune_list>>
    BY DEF CreateOutput
  <1> HIDE DEF tx, i, op, o
  <1>3. utxo' \in Coins /\ outpoint_to_key' \in KeyMap
    BY <1>1, <1>2 DEF TypeOK, Coins, KeyMap
  <1>4. pending_updates' \in Updates
    BY <1>1, <1>2, UpdatesType DEF TypeOK
  <1>5. current_total_supply' \in Nat
    BY <1>1, <1>2 DEF TypeOK
  <1> QED BY <1>2, <1>3, <1>4, <1>5 DEF TypeOK, chain

\* Going on to the next transaction keeps the types.
LEMMA EndTransactionType ==
  ASSUME TypeOK, EndTransaction
  PROVE  TypeOK'
PROOF
  BY HeadType DEF EndTransaction, TypeOK, Phases, manager, chain, tally, coins

\* The tree written at the end of a block is a tree.
LEMMA WriteTransitionType ==
  ASSUME TypeOK, WriteTransition
  PROVE  /\ tree' \in TreeType /\ RootOf(tree'.nodes) \in Leaves
         /\ tree'.pruned_keys = tree.pruned_keys
         /\ <<TotalSupplyKey, SupplyBytes(current_total_supply)>> \in RootOf(tree'.nodes)
PROOF
  <1> DEFINE batch == WithSupply(pending_updates, current_total_supply)
  <1>1. /\ DOMAIN batch \subseteq Key /\ \A k \in DOMAIN batch : batch[k] \in Value
        /\ TotalSupplyKey \in DOMAIN batch
        /\ batch[TotalSupplyKey] = SupplyBytes(current_total_supply)
    BY UpdatesType, WithSupplyType DEF TypeOK
  <1>2. tree.nodes \in Storage /\ tree.pruned_keys \in SUBSET Path
    BY DEF TypeOK, TreeType
  <1>3. tree' = [tree EXCEPT !.nodes = InsertAll(tree.nodes, batch)]
    BY DEF WriteTransition
  <1> HIDE DEF batch
  <1>4. InsertAll(tree.nodes, batch) \in Storage
    BY <1>1, <1>2, InsertAllType
  <1>5. tree'.nodes = InsertAll(tree.nodes, batch) /\ tree'.pruned_keys = tree.pruned_keys
    BY <1>3 DEF TypeOK, TreeType
  <1>6. tree' \in TreeType
    BY <1>3, <1>4 DEF TypeOK, TreeType
  <1>7. <<TotalSupplyKey, batch[TotalSupplyKey]>> \in RootOf(InsertAll(tree.nodes, batch))
    BY <1>1, <1>2, InsertedCommitted
  <1>8. RootOf(tree'.nodes) \in Leaves
    BY <1>4, <1>5, RootOfType DEF Leaves
  <1> QED BY <1>1, <1>5, <1>6, <1>7, <1>8

\* A refused supply keeps the types.
LEMMA RefuseSupplyType ==
  ASSUME TypeOK, RefuseSupply
  PROVE  TypeOK'
PROOF
  BY WriteTransitionType DEF RefuseSupply, WriteTransition, TypeOK, Phases, chain, tally, coins

\* A committed block keeps the types.
LEMMA CommitBlockType ==
  ASSUME TypeOK, CommitBlock
  PROVE  TypeOK'
PROOF
  <1>1. tree' \in TreeType /\ RootOf(tree'.nodes) \in Leaves
    BY WriteTransitionType DEF CommitBlock
  <1>2. snapshots' \in Seq(SnapshotType)
    <2> DEFINE new == [height |-> current_height + 1, root |-> RootOf(tree'.nodes),
                       total_supply |-> current_total_supply, gas_fees |-> block_gas_fees]
    <2>1. new \in SnapshotType
      BY <1>1 DEF TypeOK, SnapshotType
    <2>2. snapshots \in Seq(SnapshotType) /\ snapshots' = Append(snapshots, new)
      BY DEF TypeOK, CommitBlock, SnapshotType
    <2> HIDE DEF new
    <2> QED BY <2>1, <2>2, AppendProperties
  <1>3. snapshot_storages' \in Seq(Storage)
    BY <1>1, AppendProperties DEF CommitBlock, TypeOK, TreeType
  <1> QED BY <1>1, <1>2, <1>3
      DEF CommitBlock, WriteTransition, TypeOK, Phases, tally, coins, SnapshotType

\* A failed block keeps the types: every field gets back what was cloned.
LEMMA AbortBlockType ==
  ASSUME TypeOK, AbortBlock
  PROVE  TypeOK'
PROOF
  <1>1. saved \in SavedType
    BY DEF AbortBlock, RestoreManager, TypeOK
  <1> QED BY <1>1 DEF AbortBlock, RestoreManager, TypeOK, Phases, SavedType

\* Going back leaves the vectors typed and as long as the height asks.
LEMMA TruncateType ==
  ASSUME TypeOK, SnapshotsAligned, NEW height \in 0..current_height, TruncateTo(height)
  PROVE  /\ snapshots' \in Seq(SnapshotType) /\ Len(snapshots') = height + 1
         /\ snapshot_storages' \in Seq(Storage) /\ Len(snapshot_storages') = height + 1
         /\ \A i \in 1..height + 1 : /\ snapshots'[i] = snapshots[i]
                                     /\ snapshot_storages'[i] = snapshot_storages[i]
         /\ current_height' = height /\ height \in Nat /\ height + 1 \in 1..Len(snapshots)
         /\ height + 1 \in 1..Len(snapshot_storages)
         /\ tree' = NewTree(snapshot_storages[height + 1]) /\ tree' \in TreeType
PROOF
  <1>1. /\ snapshots \in Seq(SnapshotType) /\ snapshot_storages \in Seq(Storage)
        /\ current_height \in Nat
    BY DEF TypeOK, SnapshotType
  <1>2. /\ Len(snapshots) = current_height + 1 /\ Len(snapshot_storages) = current_height + 1
        /\ height \in Nat /\ height + 1 \in 1..Len(snapshots)
        /\ height + 1 \in 1..Len(snapshot_storages)
    BY <1>1 DEF SnapshotsAligned
  <1>3. /\ snapshots' = SubSeq(snapshots, 1, height + 1)
        /\ snapshot_storages' = SubSeq(snapshot_storages, 1, height + 1)
        /\ current_height' = height /\ tree' = NewTree(snapshot_storages[height + 1])
    BY DEF TruncateTo, TreeAt
  <1>4. /\ snapshots' \in Seq(SnapshotType) /\ Len(snapshots') = height + 1
        /\ \A i \in 1..height + 1 : snapshots'[i] = snapshots[i]
    BY <1>1, <1>2, <1>3, SubSeqProperties
  <1>5. /\ snapshot_storages' \in Seq(Storage) /\ Len(snapshot_storages') = height + 1
        /\ \A i \in 1..height + 1 : snapshot_storages'[i] = snapshot_storages[i]
    BY <1>1, <1>2, <1>3, SubSeqProperties
  <1>6. tree' \in TreeType
    BY <1>1, <1>2, <1>3, NewTreeType
  <1> QED BY <1>2, <1>3, <1>4, <1>5, <1>6

\* Each of the three ways back to a height keeps the types.
LEMMA BackType ==
  ASSUME TypeOK, SnapshotsAligned, NEW height \in 0..current_height,
         RollbackState(height) \/ Rollback(height) \/ RestoreFromSnapshot(height)
  PROVE  TypeOK'
PROOF
  <1>1. ASSUME RestoreLedger(height), UNCHANGED <<pending_updates, coins, control>> PROVE TypeOK'
    <2>1. TruncateTo(height)
      BY <1>1 DEF RestoreLedger
    <2>2. snapshots[height + 1] \in SnapshotType
      <3>1. snapshots \in Seq(SnapshotType)
        BY DEF TypeOK, SnapshotType
      <3>2. height + 1 \in 1..Len(snapshots)
        BY <2>1, TruncateType
      <3> QED BY <3>1, <3>2
    <2>3. current_total_supply' \in Nat /\ block_gas_fees' \in Seq(Nat)
      BY <1>1, <2>2 DEF RestoreLedger, SnapshotType
    <2>4. /\ tree' \in TreeType /\ current_height' \in Nat
          /\ snapshots' \in Seq(SnapshotType) /\ snapshot_storages' \in Seq(Storage)
      BY <2>1, TruncateType
    <2> QED BY <1>1, <2>3, <2>4 DEF TypeOK, SnapshotType, coins, control
  <1>2. CASE RollbackState(height)
    BY <1>1, <1>2 DEF RollbackState
  <1>3. CASE Rollback(height)
    <2>1. CASE RootMatches(height)
      BY <1>1, <1>3, <2>1 DEF Rollback
    <2>2. CASE ~RootMatches(height)
      BY <1>3, <2>2 DEF Rollback, TypeOK, coins, control
    <2> QED BY <2>1, <2>2
  <1>4. CASE RestoreFromSnapshot(height)
    BY <1>4, TruncateType DEF RestoreFromSnapshot, TypeOK, SnapshotType, tally, coins, control
  <1> QED BY <1>2, <1>3, <1>4

\* Marking and pruning keep the types.
LEMMA PruneType ==
  ASSUME TypeOK,
         (\E op \in Markable, epoch \in Epoch : MarkOutpointForPruning(op, epoch))
           \/ (\E threshold \in Epoch : BeginPruning(threshold))
           \/ (\E op \in OutPoint : PruneNext(op))
  PROVE  TypeOK'
PROOF
  <1>1. ASSUME NEW op \in Markable, NEW epoch \in Epoch, MarkOutpointForPruning(op, epoch)
        PROVE  TypeOK'
    BY <1>1 DEF MarkOutpointForPruning, TypeOK, Markers, chain, tally, control
  <1>2. ASSUME NEW threshold \in Epoch, BeginPruning(threshold) PROVE TypeOK'
    BY <1>2 DEF BeginPruning, TypeOK, Phases, manager, chain, tally, coins
  <1>3. ASSUME NEW op \in OutPoint, PruneNext(op) PROVE TypeOK'
    <2>1. CASE ForgetCoin(op)
      <3>1. outpoint_to_key[op] \in Key
        BY <2>1 DEF ForgetCoin, PruneOutpoint, TypeOK, KeyMap
      <3>2. tree' \in TreeType
        BY <2>1, <3>1, TreeOps DEF ForgetCoin, PruneOutpoint, TypeOK
      <3> QED BY <1>3, <2>1, <3>2
          DEF PruneNext, ForgetCoin, PruneOutpoint, TypeOK, Phases, Coins, KeyMap, Markers, chain, tally
    <2>2. CASE SkipOutpoint(op) \/ FailCycle(op)
      BY <1>3, <2>2 DEF PruneNext, SkipOutpoint, FailCycle, TypeOK, Phases, chain, tally, coins
    <2> QED BY <1>3, <2>1, <2>2 DEF PruneNext
  <1> QED BY <1>1, <1>2, <1>3

\* Every step keeps the types; going back also needs the vectors aligned.
LEMMA StepType == TypeOK /\ SnapshotsAligned /\ [Next]_vars => TypeOK'
PROOF
  <1> SUFFICES ASSUME TypeOK, SnapshotsAligned, [Next]_vars PROVE TypeOK'
    OBVIOUS
  <1>1. ASSUME NEW txs \in Blocks, ApplyBlock(txs) \/ ValidateAndApplyBlock(txs) PROVE TypeOK'
    BY <1>1, BeginBlockType DEF ApplyBlock, ValidateAndApplyBlock
  <1>2. CASE BlockStep
    <2>1. CASE StartUtxoTransaction \/ StartContract \/ RefuseContract \/ RefuseBurn
      BY <2>1, StartType
    <2>2. CASE (\E k \in ContractKeys, v \in ContractData : HostWrite(k, v))
                 \/ (\E k \in ContractKeys : HostSelfDestruct(k))
      BY <2>2, HostType
    <2>3. CASE (\E fee \in Fees : ContractReturns(fee)) \/ ContractFails
      BY <2>3, ContractEndType
    <2>4. CASE SpendInput \/ CreateOutput \/ EndTransaction
      BY <2>4, SpendInputType, CreateOutputType, EndTransactionType
    <2>5. CASE RefuseSupply \/ CommitBlock \/ AbortBlock
      BY <2>5, RefuseSupplyType, CommitBlockType, AbortBlockType
    <2> QED BY <1>2, <2>1, <2>2, <2>3, <2>4, <2>5 DEF BlockStep
  <1>3. ASSUME NEW height \in 0..current_height,
               RollbackState(height) \/ Rollback(height) \/ RestoreFromSnapshot(height)
        PROVE  TypeOK'
    BY <1>3, BackType
  <1>4. CASE \/ \E op \in Markable, epoch \in Epoch : MarkOutpointForPruning(op, epoch)
             \/ \E threshold \in Epoch : BeginPruning(threshold)
             \/ \E op \in OutPoint : PruneNext(op)
    BY <1>4, PruneType
  <1>5. CASE UNCHANGED vars
    BY <1>5 DEF TypeOK, vars, manager, chain, tally, coins, control
  <1> QED BY <1>1, <1>2, <1>3, <1>4, <1>5 DEF Next

-----------------------------------------------------------------------------
(* The inductive invariant. *)

\* What the clones of apply_block and apply_contract_transition owe to the
\* state they were taken from: the height does not move under a block, the two
\* saved maps agreed when they were cloned, and no prune mark is taken back
\* before the block ends.
ClonesAgree ==
  /\ InBlock =>
       /\ saved.current_height = current_height
       /\ \A op \in OutPoint :
            saved.outpoint_to_key[op] = IF saved.utxo[op] = None THEN None ELSE KeyOf[op]
       /\ saved.tree.pruned_keys \subseteq tree.pruned_keys
  /\ phase = "vm" => saved.tree.pruned_keys \subseteq vm_snapshot.pruned_keys

\* keys_to_prune holds marked outpoints only, until each is processed.
PruneListMarked ==
  phase = "pruning" => \A op \in prune_list : prune_markers[op] # None

Inv ==
  /\ TypeOK
  /\ SnapshotsAligned /\ SnapshotsReplayable /\ SupplyLocked
  /\ CoinsAgree /\ ClonesAgree /\ PruneListMarked

\* The steps that touch the vectors of snapshots.
LEMMA ChainSteps ==
  ASSUME [Next]_vars
  PROVE  \/ UNCHANGED chain
         \/ CommitBlock
         \/ AbortBlock
         \/ \E height \in 0..current_height : TruncateTo(height)
PROOF
  <1>1. ASSUME NEW txs \in Blocks, ApplyBlock(txs) \/ ValidateAndApplyBlock(txs)
        PROVE  UNCHANGED chain
    BY <1>1 DEF ApplyBlock, ValidateAndApplyBlock, BeginBlock
  <1>2. ASSUME BlockStep PROVE UNCHANGED chain \/ CommitBlock \/ AbortBlock
    BY <1>2 DEF BlockStep, StartUtxoTransaction, RefuseContract, StartContract, HostWrite,
        HostSelfDestruct, ContractReturns, ContractFails, SpendInput, CreateOutput,
        EndTransaction, RefuseBurn, RefuseSupply, manager
  <1>3. ASSUME NEW height \in 0..current_height,
               RollbackState(height) \/ Rollback(height) \/ RestoreFromSnapshot(height)
        PROVE  UNCHANGED chain \/ TruncateTo(height)
    BY <1>3 DEF RollbackState, Rollback, RestoreFromSnapshot, RestoreLedger, chain
  <1>4. CASE \/ \E op \in Markable, epoch \in Epoch : MarkOutpointForPruning(op, epoch)
             \/ \E threshold \in Epoch : BeginPruning(threshold)
             \/ \E op \in OutPoint : PruneNext(op)
    BY <1>4 DEF MarkOutpointForPruning, BeginPruning, PruneNext, manager
  <1>5. CASE UNCHANGED vars
    BY <1>5 DEF vars, manager
  <1> QED BY <1>1, <1>2, <1>3, <1>4, <1>5 DEF Next

SnapshotInv == SnapshotsAligned /\ SnapshotsReplayable /\ SupplyLocked

\* Committing appends one snapshot and one storage that fit each other.
LEMMA CommitSnapshots ==
  ASSUME TypeOK, SnapshotInv, CommitBlock
  PROVE  SnapshotInv'
PROOF
  <1> DEFINE n == current_height + 1
             new == [height |-> n, root |-> RootOf(tree'.nodes),
                     total_supply |-> current_total_supply, gas_fees |-> block_gas_fees]
  <1>1. /\ tree' \in TreeType /\ tree'.nodes \in Storage
        /\ <<TotalSupplyKey, SupplyBytes(current_total_supply)>> \in RootOf(tree'.nodes)
    BY WriteTransitionType DEF CommitBlock, TreeType
  <1>2. /\ snapshots \in Seq(SnapshotType) /\ snapshot_storages \in Seq(Storage)
        /\ n \in Nat /\ Len(snapshots) = n /\ Len(snapshot_storages) = n
    BY DEF TypeOK, SnapshotType, SnapshotInv, SnapshotsAligned
  <1>3. /\ snapshots' = Append(snapshots, new)
        /\ snapshot_storages' = Append(snapshot_storages, tree'.nodes)
        /\ current_height' = n /\ current_total_supply <= MaxSupply
    BY DEF CommitBlock
  <1>4. /\ new.height = n /\ new.root = RootOf(tree'.nodes)
        /\ new.total_supply = current_total_supply
    OBVIOUS
  <1> HIDE DEF n, new
  <1>5. /\ DOMAIN snapshots' = 1..(n + 1) /\ Len(snapshots') = n + 1
        /\ Len(snapshot_storages') = n + 1
        /\ snapshots'[n + 1] = new /\ snapshot_storages'[n + 1] = tree'.nodes
        /\ \A i \in 1..n : /\ snapshots'[i] = snapshots[i]
                           /\ snapshot_storages'[i] = snapshot_storages[i]
        /\ DOMAIN snapshots = 1..n
    BY <1>2, <1>3
  <1>6. \A i \in 1..(n + 1) : i = n + 1 \/ i \in 1..n
    BY <1>2
  <1>7. SnapshotsAligned'
    BY <1>2, <1>3, <1>4, <1>5, <1>6 DEF SnapshotInv, SnapshotsAligned
  <1>8. SnapshotsReplayable'
    <2>1. NewTree(tree'.nodes).nodes = EnsureRoot(tree'.nodes)
      BY DEF NewTree
    <2>2. new.root = RootOf(NewTree(tree'.nodes).nodes)
      BY <1>1, <1>4, <2>1, EnsureRootSameRoot
    <2> QED BY <1>5, <1>6, <2>2 DEF SnapshotInv, SnapshotsReplayable
  <1>9. SupplyLocked'
    BY <1>1, <1>3, <1>4, <1>5, <1>6, ZenonT(30) DEF SnapshotInv, SupplyLocked
  <1> QED BY <1>7, <1>8, <1>9 DEF SnapshotInv

\* Going back keeps a prefix of both vectors, and a prefix of the same length.
LEMMA BackSnapshots ==
  ASSUME TypeOK, SnapshotInv, NEW height \in 0..current_height, TruncateTo(height)
  PROVE  SnapshotInv'
PROOF
  <1>1. /\ snapshots' \in Seq(SnapshotType) /\ Len(snapshots') = height + 1
        /\ Len(snapshot_storages') = height + 1 /\ current_height' = height
        /\ \A i \in 1..height + 1 : /\ snapshots'[i] = snapshots[i]
                                    /\ snapshot_storages'[i] = snapshot_storages[i]
        /\ height \in Nat /\ height + 1 \in 1..Len(snapshots)
    BY TruncateType DEF SnapshotInv
  <1>2. DOMAIN snapshots' = 1..height + 1 /\ 1..height + 1 \subseteq DOMAIN snapshots
    BY <1>1 DEF TypeOK
  <1>3. SnapshotsAligned'
    BY <1>1, <1>2 DEF SnapshotInv, SnapshotsAligned
  <1>4. SnapshotsReplayable'
    BY <1>1, <1>2 DEF SnapshotInv, SnapshotsReplayable
  <1>5. SupplyLocked'
    BY <1>1, <1>2 DEF SnapshotInv, SupplyLocked
  <1> QED BY <1>3, <1>4, <1>5 DEF SnapshotInv

\* Every step keeps the vectors aligned, replayable and the supply locked.
LEMMA SnapshotStep == Inv /\ [Next]_vars => SnapshotInv'
PROOF
  <1> SUFFICES ASSUME Inv, [Next]_vars PROVE SnapshotInv'
    OBVIOUS
  <1>0. TypeOK /\ SnapshotInv /\ ClonesAgree
    BY DEF Inv, SnapshotInv
  <1>1. CASE UNCHANGED chain
    BY <1>0, <1>1 DEF chain, SnapshotInv, SnapshotsAligned, SnapshotsReplayable, SupplyLocked
  <1>2. CASE CommitBlock
    BY <1>0, <1>2, CommitSnapshots
  <1>3. CASE AbortBlock
    <2>1. InBlock
      BY <1>3 DEF AbortBlock, RestoreManager, InBlock
    <2>2. UNCHANGED chain
      BY <1>0, <1>3, <2>1 DEF AbortBlock, RestoreManager, ClonesAgree, chain
    <2> QED BY <1>1, <2>2
  <1>4. ASSUME NEW height \in 0..current_height, TruncateTo(height) PROVE SnapshotInv'
    BY <1>0, <1>4, BackSnapshots
  <1> QED BY <1>1, <1>2, <1>3, <1>4, ChainSteps

\* The steps that touch the coins: the UTXO set and the outpoint map.
LEMMA CoinSteps ==
  ASSUME [Next]_vars
  PROVE  \/ UNCHANGED <<utxo, outpoint_to_key>>
         \/ SpendInput \/ CreateOutput \/ AbortBlock
         \/ \E op \in OutPoint : ForgetCoin(op)
PROOF
  <1>1. ASSUME NEW txs \in Blocks, ApplyBlock(txs) \/ ValidateAndApplyBlock(txs)
        PROVE  UNCHANGED coins
    BY <1>1 DEF ApplyBlock, ValidateAndApplyBlock, BeginBlock
  <1>2. ASSUME BlockStep
        PROVE  UNCHANGED coins \/ SpendInput \/ CreateOutput \/ AbortBlock
    BY <1>2 DEF BlockStep, StartUtxoTransaction, RefuseContract, StartContract, HostWrite,
        HostSelfDestruct, ContractReturns, ContractFails,
        EndTransaction, RefuseBurn, RefuseSupply, CommitBlock, manager
  <1>3. ASSUME NEW height \in 0..current_height,
               RollbackState(height) \/ Rollback(height) \/ RestoreFromSnapshot(height)
        PROVE  UNCHANGED coins
    BY <1>3 DEF RollbackState, Rollback, RestoreFromSnapshot
  <1>4. ASSUME \/ \E op \in Markable, epoch \in Epoch : MarkOutpointForPruning(op, epoch)
               \/ \E threshold \in Epoch : BeginPruning(threshold)
               \/ \E op \in OutPoint : PruneNext(op)
        PROVE  UNCHANGED <<utxo, outpoint_to_key>> \/ \E op \in OutPoint : ForgetCoin(op)
    BY <1>4 DEF MarkOutpointForPruning, BeginPruning, PruneNext, SkipOutpoint, FailCycle,
        manager, coins
  <1>5. ASSUME UNCHANGED vars PROVE UNCHANGED coins
    BY <1>5 DEF vars, manager
  <1> QED BY <1>1, <1>2, <1>3, <1>4, <1>5 DEF Next, coins

\* Every step keeps the UTXO set and the outpoint map in agreement.
LEMMA CoinStep == Inv /\ [Next]_vars => CoinsAgree'
PROOF
  <1> SUFFICES ASSUME Inv, [Next]_vars PROVE CoinsAgree'
    OBVIOUS
  <1>0. TypeOK /\ CoinsAgree /\ ClonesAgree /\ utxo \in Coins /\ outpoint_to_key \in KeyMap
    BY DEF Inv, TypeOK
  <1>1. CASE UNCHANGED <<utxo, outpoint_to_key>>
    BY <1>0, <1>1 DEF CoinsAgree
  <1>2. CASE SpendInput
    <2> DEFINE op == Head(queue).inputs[cursor]
    <2>1. CASE utxo[op] = None
      BY <1>1, <1>2, <2>1 DEF SpendInput
    <2>2. CASE utxo[op] # None
      <3>1. /\ utxo' = [utxo EXCEPT ![op] = None]
            /\ outpoint_to_key' = [outpoint_to_key EXCEPT ![op] = None]
        BY <1>2, <2>2 DEF SpendInput
      <3> HIDE DEF op
      <3> QED BY <1>0, <3>1 DEF CoinsAgree, Coins, KeyMap
    <2> QED BY <2>1, <2>2
  <1>3. CASE CreateOutput
    <2> DEFINE tx == Head(queue)
               i  == cursor - Len(tx.inputs)
               op == <<tx.id, i>>
               o  == tx.outputs[i]
    <2>1. o \in Output
      BY <1>0, <1>3, HeadType DEF CreateOutput, TypeOK
    <2>2. o # None
      BY <2>1, NoneAssumption
    <2>3. /\ utxo' = [utxo EXCEPT ![op] = o]
          /\ outpoint_to_key' = [outpoint_to_key EXCEPT ![op] = KeyOf[op]]
      BY <1>3 DEF CreateOutput
    <2> HIDE DEF tx, i, op, o
    <2> QED BY <1>0, <2>2, <2>3 DEF CoinsAgree, Coins, KeyMap
  <1>4. CASE AbortBlock
    <2>1. InBlock
      BY <1>4 DEF AbortBlock, RestoreManager, InBlock
    <2> QED BY <1>0, <1>4, <2>1 DEF AbortBlock, ClonesAgree, CoinsAgree
  <1>5. ASSUME NEW op \in OutPoint, ForgetCoin(op) PROVE CoinsAgree'
    BY <1>0, <1>5 DEF ForgetCoin, PruneOutpoint, CoinsAgree, Coins, KeyMap
  <1> QED BY <1>1, <1>2, <1>3, <1>4, <1>5, CoinSteps

\* A step in the middle of a block keeps what apply_block cloned, and every
\* prune mark the clone has.
LEMMA BlockMarks ==
  ASSUME Inv, BlockStep, InBlock'
  PROVE  /\ InBlock /\ UNCHANGED <<saved, chain>>
         /\ saved.tree.pruned_keys \subseteq tree'.pruned_keys
         /\ phase' = "vm" => saved.tree.pruned_keys \subseteq vm_snapshot'.pruned_keys
PROOF
  <1>0. TypeOK /\ ClonesAgree
    BY DEF Inv
  <1>1. CASE RefuseContract \/ StartUtxoTransaction \/ EndTransaction \/ RefuseBurn
    BY <1>0, <1>1 DEF RefuseContract, StartUtxoTransaction, EndTransaction, RefuseBurn,
        InBlock, ClonesAgree, manager, chain
  <1>2. CASE StartContract
    BY <1>0, <1>2 DEF StartContract, InBlock, ClonesAgree, manager, chain
  <1>3. CASE \E k \in ContractKeys, v \in ContractData : HostWrite(k, v)
    <2>1. phase = "vm" /\ UNCHANGED <<chain, control>>
      BY <1>3 DEF HostWrite
    <2>2. tree'.pruned_keys = tree.pruned_keys
      BY <1>0, <1>3 DEF HostWrite, TypeOK, TreeType
    <2> QED BY <1>0, <2>1, <2>2 DEF InBlock, ClonesAgree, chain, control
  <1>4. CASE \E k \in ContractKeys : HostSelfDestruct(k)
    <2>1. phase = "vm" /\ UNCHANGED <<chain, control>>
      BY <1>4 DEF HostSelfDestruct
    <2>2. tree.pruned_keys \subseteq tree'.pruned_keys
      BY <1>4 DEF HostSelfDestruct, PruneKey
    <2> QED BY <1>0, <2>1, <2>2 DEF InBlock, ClonesAgree, chain, control
  <1>5. CASE (\E fee \in Fees : ContractReturns(fee)) \/ SpendInput \/ CreateOutput
    BY <1>0, <1>5 DEF ContractReturns, SpendInput, CreateOutput, InBlock, ClonesAgree, chain
  <1>6. CASE ContractFails
    BY <1>0, <1>6 DEF ContractFails, InBlock, ClonesAgree, chain
  <1>7. CASE RefuseSupply
    <2>1. tree'.pruned_keys = tree.pruned_keys
      BY <1>0, <1>7, WriteTransitionType DEF RefuseSupply
    <2> QED BY <1>0, <1>7, <2>1 DEF RefuseSupply, WriteTransition, InBlock, ClonesAgree, chain
  <1>8. CASE CommitBlock \/ AbortBlock
    BY <1>8 DEF CommitBlock, AbortBlock, RestoreManager, InBlock
  <1> QED BY <1>1, <1>2, <1>3, <1>4, <1>5, <1>6, <1>7, <1>8 DEF BlockStep

\* Nothing but a block step runs while a block is in progress.
LEMMA OtherSteps ==
  ASSUME TypeOK, [Next]_vars
  PROVE  \/ BlockStep
         \/ \E txs \in Blocks : BeginBlock(txs)
         \/ ~InBlock /\ ~InBlock'
         \/ UNCHANGED vars
PROOF
  <1>1. ASSUME NEW height \in 0..current_height,
               RollbackState(height) \/ Rollback(height) \/ RestoreFromSnapshot(height)
        PROVE  ~InBlock /\ ~InBlock'
    BY <1>1 DEF RollbackState, Rollback, RestoreFromSnapshot, control, InBlock
  <1>2. ASSUME \/ \E op \in Markable, epoch \in Epoch : MarkOutpointForPruning(op, epoch)
               \/ \E threshold \in Epoch : BeginPruning(threshold)
               \/ \E op \in OutPoint : PruneNext(op)
        PROVE  ~InBlock /\ ~InBlock'
    BY <1>2 DEF MarkOutpointForPruning, BeginPruning, PruneNext, control, InBlock
  <1> QED BY <1>1, <1>2 DEF Next, ApplyBlock, ValidateAndApplyBlock

\* Every step keeps what apply_block cloned in agreement with itself.
LEMMA CloneStep == Inv /\ [Next]_vars => ClonesAgree'
PROOF
  <1> SUFFICES ASSUME Inv, [Next]_vars PROVE ClonesAgree'
    OBVIOUS
  <1>0. TypeOK /\ CoinsAgree /\ ClonesAgree
    BY DEF Inv
  <1>1. CASE BlockStep
    <2>1. CASE InBlock'
      BY <1>0, <1>1, <2>1, BlockMarks DEF ClonesAgree, chain
    <2>2. CASE ~InBlock'
      BY <2>2 DEF ClonesAgree, InBlock
    <2> QED BY <2>1, <2>2
  <1>2. ASSUME NEW txs \in Blocks, BeginBlock(txs) PROVE ClonesAgree'
    BY <1>0, <1>2 DEF BeginBlock, Saved, ClonesAgree, CoinsAgree, chain
  <1>3. CASE ~InBlock'
    BY <1>3 DEF ClonesAgree, InBlock
  <1>4. CASE UNCHANGED vars
    BY <1>0, <1>4 DEF ClonesAgree, InBlock, vars, manager, chain, control
  <1> QED BY <1>0, <1>1, <1>2, <1>3, <1>4, OtherSteps

\* Every step keeps the outpoints to prune marked.
LEMMA ListStep == Inv /\ [Next]_vars => PruneListMarked'
PROOF
  <1> SUFFICES ASSUME Inv, [Next]_vars PROVE PruneListMarked'
    OBVIOUS
  <1>0. TypeOK /\ PruneListMarked /\ prune_markers \in Markers
    BY DEF Inv, TypeOK
  <1>1. CASE BlockStep
    <2>1. phase' # "pruning"
      BY <1>1 DEF BlockStep, StartUtxoTransaction, RefuseContract, StartContract, HostWrite,
          HostSelfDestruct, ContractReturns, ContractFails, SpendInput, CreateOutput,
          EndTransaction, RefuseBurn, RefuseSupply, CommitBlock, AbortBlock, RestoreManager, control
    <2> QED BY <2>1 DEF PruneListMarked
  <1>2. ASSUME NEW txs \in Blocks, ApplyBlock(txs) \/ ValidateAndApplyBlock(txs)
        PROVE  PruneListMarked'
    BY <1>2 DEF ApplyBlock, ValidateAndApplyBlock, BeginBlock, PruneListMarked
  <1>3. ASSUME NEW height \in 0..current_height,
               RollbackState(height) \/ Rollback(height) \/ RestoreFromSnapshot(height)
        PROVE  PruneListMarked'
    BY <1>0, <1>3 DEF RollbackState, Rollback, RestoreFromSnapshot, coins, control, PruneListMarked
  <1>4. ASSUME NEW op \in Markable, NEW epoch \in Epoch, MarkOutpointForPruning(op, epoch)
        PROVE  PruneListMarked'
    BY <1>4 DEF MarkOutpointForPruning, control, PruneListMarked
  <1>5. ASSUME NEW threshold \in Epoch, BeginPruning(threshold) PROVE PruneListMarked'
    BY <1>5 DEF BeginPruning, manager, coins, PruneListMarked
  <1>6. ASSUME NEW op \in OutPoint, PruneNext(op) PROVE PruneListMarked'
    <2>1. CASE ForgetCoin(op)
      BY <1>0, <1>6, <2>1 DEF PruneNext, ForgetCoin, PruneOutpoint, PruneListMarked, Markers
    <2>2. CASE SkipOutpoint(op) \/ FailCycle(op)
      BY <1>0, <1>6, <2>2 DEF PruneNext, SkipOutpoint, FailCycle, PruneListMarked, coins
    <2> QED BY <1>6, <2>1, <2>2 DEF PruneNext
  <1>7. CASE UNCHANGED vars
    BY <1>0, <1>7 DEF vars, manager, coins, control, PruneListMarked
  <1> QED BY <1>1, <1>2, <1>3, <1>4, <1>5, <1>6, <1>7 DEF Next

\* A new state manager satisfies the invariant.
LEMMA InitInv == Init => Inv
PROOF
  <1> SUFFICES ASSUME Init PROVE Inv
    OBVIOUS
  <1>1. TypeOK
    BY InitType
  <1>2. SnapshotsAligned
    BY DEF Init, SnapshotsAligned
  <1>3. SnapshotsReplayable
    BY EnsureRootSameRoot, EmptyStorageType DEF Init, SnapshotsReplayable, NewTree
  <1>4. SupplyLocked
    BY DEF Init, SupplyLocked
  <1>5. CoinsAgree
    BY DEF Init, CoinsAgree
  <1>6. ClonesAgree
    BY DEF Init, ClonesAgree, InBlock
  <1>7. PruneListMarked
    BY DEF Init, PruneListMarked
  <1> QED BY <1>1, <1>2, <1>3, <1>4, <1>5, <1>6, <1>7 DEF Inv

\* The invariant is inductive.
LEMMA Invariant == Spec => []Inv
PROOF
  <1>1. Inv /\ [Next]_vars => Inv'
    <2> SUFFICES ASSUME Inv, [Next]_vars PROVE Inv'
      OBVIOUS
    <2>1. TypeOK'
      BY StepType DEF Inv
    <2>2. SnapshotInv'
      BY SnapshotStep
    <2>3. CoinsAgree' /\ ClonesAgree' /\ PruneListMarked'
      BY CoinStep, CloneStep, ListStep
    <2> QED BY <2>1, <2>2, <2>3 DEF Inv, SnapshotInv
  <1> QED BY InitInv, <1>1, PTL DEF Spec

\* Every field keeps the type its Rust declaration gives it; in particular the
\* supply never goes below zero.
THEOREM TypeCorrect == Spec => []TypeOK
PROOF
  <1>1. Inv => TypeOK
    BY DEF Inv
  <1> QED BY Invariant, <1>1, PTL

\* The index that rollback_state and restore_from_snapshot take into the two
\* vectors is that of the height they mean, after any history of blocks,
\* failures, rollbacks and prunings.
THEOREM VectorsAligned == Spec => []SnapshotsAligned
PROOF
  <1>1. Inv => SnapshotsAligned
    BY DEF Inv
  <1> QED BY Invariant, <1>1, PTL

\* A kept storage rebuilds the root of its snapshot: the "Root mismatch during
\* rollback" of rollback_state is unreachable.
THEOREM SnapshotsReplay == Spec => []SnapshotsReplayable
PROOF
  <1>1. Inv => SnapshotsReplayable
    BY DEF Inv
  <1> QED BY Invariant, <1>1, PTL

\* Every committed snapshot binds its total supply, and is within the cap,
\* whatever contracts wrote or destroyed.
THEOREM SupplyAlwaysLocked == Spec => []SupplyLocked
PROOF
  <1>1. Inv => SupplyLocked
    BY DEF Inv
  <1> QED BY Invariant, <1>1, PTL

\* The UTXO set and outpoint_to_key know the same coins, at every step of a
\* block and after every failure.
THEOREM CoinMapsAgree == Spec => []CoinsAgree
PROOF
  <1>1. Inv => CoinsAgree
    BY DEF Inv
  <1> QED BY Invariant, <1>1, PTL

-----------------------------------------------------------------------------
(* The state manager implements the ledger. *)

CheckpointType == [content : Leaves, supply : Nat, fees : Seq(Nat)]

\* LedgerHistory is snapshots without the heights.
LEMMA HistoryType ==
  ASSUME TypeOK
  PROVE  /\ LedgerHistory \in Seq(CheckpointType)
         /\ Len(LedgerHistory) = Len(snapshots)
         /\ \A i \in 1..Len(snapshots) :
              LedgerHistory[i] = [content |-> snapshots[i].root, supply |-> snapshots[i].total_supply,
                                  fees |-> snapshots[i].gas_fees]
PROOF
  <1>1. snapshots \in Seq(SnapshotType) /\ DOMAIN snapshots = 1..Len(snapshots)
        /\ Len(snapshots) \in Nat
    BY DEF TypeOK, SnapshotType
  <1>2. \A i \in 1..Len(snapshots) :
          [content |-> snapshots[i].root, supply |-> snapshots[i].total_supply,
           fees |-> snapshots[i].gas_fees] \in CheckpointType
    <2>1. \A i \in 1..Len(snapshots) : snapshots[i] \in SnapshotType
      BY <1>1
    <2> QED BY <2>1 DEF SnapshotType, CheckpointType
  <1>3. LedgerHistory \in [1..Len(snapshots) -> CheckpointType]
    BY <1>1, <1>2 DEF LedgerHistory
  <1> QED BY <1>1, <1>3 DEF LedgerHistory

\* Outside a block the head is the state itself.
LEMMA HeadOutsideBlock ==
  ASSUME ~InBlock
  PROVE  LedgerHead = [content |-> RootOf(tree.nodes), marks |-> tree.pruned_keys,
                       supply |-> current_total_supply, fees |-> block_gas_fees,
                       coins |-> utxo, markers |-> prune_markers]
PROOF
  BY DEF LedgerHead, Head0, Saved

\* A new state manager maps to a new ledger.
LEMMA InitLedger == Init => TheLedger!Init
PROOF
  <1> SUFFICES ASSUME Init PROVE TheLedger!Init
    OBVIOUS
  <1>1. TypeOK /\ ~InBlock
    BY InitType DEF Init, InBlock
  <1>2. RootOf(tree.nodes) = {} /\ tree.pruned_keys = {}
    BY EnsureRootSameRoot, EmptyStorageType, EmptyRoot DEF Init, NewTree
  <1>3. LedgerHead.content = {} /\ LedgerHead.marks = {} /\ LedgerHead.supply = 0
        /\ LedgerHead.fees = <<>>
    BY <1>1, <1>2, HeadOutsideBlock DEF Init
  <1> DEFINE first == [content |-> {}, supply |-> 0, fees |-> <<>>]
  <1>4. Len(snapshots) = 1 /\ snapshots[1].root = {} /\ snapshots[1].total_supply = 0
        /\ snapshots[1].gas_fees = <<>>
    BY EmptyRoot DEF Init
  <1>5. LedgerHistory \in Seq(CheckpointType) /\ Len(LedgerHistory) = 1
        /\ LedgerHistory[1] = first
    BY <1>1, <1>4, HistoryType
  <1>6. first \in CheckpointType
    BY DEF CheckpointType, Leaves
  <1>7. <<first>> \in Seq(CheckpointType) /\ Len(<<first>>) = 1 /\ <<first>>[1] = first
    BY <1>6
  <1> HIDE DEF first
  <1>8. LedgerHistory = <<first>>
    BY <1>5, <1>7, SeqEqual
  <1> QED BY <1>3, <1>8 DEF TheLedger!Init, TheLedger!Checkpoint, first

LedgerStutters == UNCHANGED <<LedgerHistory, LedgerHead>>

\* A block in progress is invisible.
LEMMA BlockIsInvisible ==
  ASSUME Inv, (BlockStep /\ InBlock') \/ (\E txs \in Blocks : BeginBlock(txs))
  PROVE  LedgerStutters
PROOF
  <1>1. CASE BlockStep /\ InBlock'
    BY <1>1, BlockMarks DEF LedgerStutters, LedgerHistory, LedgerHead, Head0, chain
  <1>2. ASSUME NEW txs \in Blocks, BeginBlock(txs) PROVE LedgerStutters
    BY <1>2 DEF BeginBlock, InBlock, LedgerStutters, LedgerHistory, LedgerHead, Head0, chain
  <1> QED BY <1>1, <1>2

\* A failed block leaves no trace.
LEMMA AbortIsInvisible ==
  ASSUME Inv, AbortBlock
  PROVE  LedgerStutters
PROOF
  <1>1. InBlock /\ ~InBlock'
    BY DEF AbortBlock, RestoreManager, InBlock
  <1>2. Head0' = Saved' /\ Head0 = saved
    BY <1>1 DEF Head0
  <1>3. /\ tree' = saved.tree /\ current_total_supply' = saved.current_total_supply
        /\ block_gas_fees' = saved.block_gas_fees /\ utxo' = saved.utxo
        /\ prune_markers' = saved.prune_markers /\ UNCHANGED snapshots
    BY DEF AbortBlock, RestoreManager
  <1>4. LedgerHead' = LedgerHead
    BY <1>2, <1>3 DEF LedgerHead, Saved
  <1> QED BY <1>3, <1>4 DEF LedgerStutters, LedgerHistory

\* CommitBlock is a Commit of the ledger.
LEMMA CommitCommits ==
  ASSUME Inv, CommitBlock, TypeOK'
  PROVE  TheLedger!Commit
PROOF
  <1>0. TypeOK /\ ClonesAgree
    BY DEF Inv
  <1>1. /\ tree'.pruned_keys = tree.pruned_keys
        /\ <<TotalSupplyKey, SupplyBytes(current_total_supply)>> \in RootOf(tree'.nodes)
    BY <1>0, WriteTransitionType DEF CommitBlock
  <1>2. InBlock /\ ~InBlock'
    BY DEF CommitBlock, WriteTransition, InBlock
  <1> DEFINE new == [height |-> current_height + 1, root |-> RootOf(tree'.nodes),
                     total_supply |-> current_total_supply, gas_fees |-> block_gas_fees]
             cp  == [content |-> RootOf(tree'.nodes), supply |-> current_total_supply,
                     fees |-> block_gas_fees]
  <1>3. /\ current_total_supply <= MaxSupply
        /\ snapshots' = Append(snapshots, new)
        /\ UNCHANGED <<tally, coins>>
    BY DEF CommitBlock
  <1>4. LedgerHead' = [content |-> RootOf(tree'.nodes), marks |-> tree.pruned_keys,
                       supply |-> current_total_supply, fees |-> block_gas_fees,
                       coins |-> utxo, markers |-> prune_markers]
    BY <1>1, <1>2, <1>3, HeadOutsideBlock DEF LedgerHead, Head0, Saved, tally, coins
  <1>5. LedgerHead.marks \subseteq tree.pruned_keys
    BY <1>0, <1>2 DEF LedgerHead, Head0, ClonesAgree
  <1>6. LedgerHistory' = Append(LedgerHistory, cp)
    <2>1. /\ LedgerHistory \in Seq(CheckpointType) /\ Len(LedgerHistory) = Len(snapshots)
          /\ \A i \in 1..Len(snapshots) :
               LedgerHistory[i] = [content |-> snapshots[i].root, supply |-> snapshots[i].total_supply,
                                   fees |-> snapshots[i].gas_fees]
      BY <1>0, HistoryType
    <2>2. /\ LedgerHistory' \in Seq(CheckpointType) /\ Len(LedgerHistory') = Len(snapshots')
          /\ \A i \in 1..Len(snapshots') :
               LedgerHistory'[i] = [content |-> snapshots'[i].root, supply |-> snapshots'[i].total_supply,
                                    fees |-> snapshots'[i].gas_fees]
      <3>1. (TypeOK => /\ LedgerHistory \in Seq(CheckpointType) /\ Len(LedgerHistory) = Len(snapshots)
                       /\ \A i \in 1..Len(snapshots) :
                            LedgerHistory[i] = [content |-> snapshots[i].root,
                                                supply |-> snapshots[i].total_supply,
                                                fees |-> snapshots[i].gas_fees])'
        BY HistoryType, PTL
      <3> QED BY <3>1
    <2>3. snapshots \in Seq(SnapshotType) /\ Len(snapshots) \in Nat
      BY <1>0 DEF TypeOK, SnapshotType
    <2>4. new.root = cp.content /\ new.total_supply = cp.supply /\ new.gas_fees = cp.fees
          /\ cp = [content |-> new.root, supply |-> new.total_supply, fees |-> new.gas_fees]
      OBVIOUS
    <2> HIDE DEF new, cp
    <2>5. /\ Len(snapshots') = Len(snapshots) + 1
          /\ snapshots'[Len(snapshots) + 1] = new
          /\ \A i \in 1..Len(snapshots) : snapshots'[i] = snapshots[i]
      BY <1>3, <2>3
    <2>6. LedgerHistory'[Len(snapshots) + 1] = cp
          /\ \A i \in 1..Len(snapshots) : LedgerHistory'[i] = LedgerHistory[i]
      BY <2>1, <2>2, <2>3, <2>4, <2>5
    <2>7. cp \in CheckpointType
      BY <2>2, <2>3, <2>5, <2>6
    <2>8. /\ Append(LedgerHistory, cp) \in Seq(CheckpointType)
          /\ Len(Append(LedgerHistory, cp)) = Len(snapshots) + 1
          /\ \A i \in 1..Len(snapshots) : Append(LedgerHistory, cp)[i] = LedgerHistory[i]
          /\ Append(LedgerHistory, cp)[Len(snapshots) + 1] = cp
      BY <2>1, <2>7, AppendProperties
    <2>9. \A i \in 1..Len(snapshots) + 1 : LedgerHistory'[i] = Append(LedgerHistory, cp)[i]
      BY <2>3, <2>6, <2>8
    <2>10. Len(LedgerHistory') = Len(snapshots) + 1
      BY <2>2, <2>5
    <2> DEFINE longer == Append(LedgerHistory, cp)
               later  == LedgerHistory'
    <2>11. /\ longer \in Seq(CheckpointType) /\ later \in Seq(CheckpointType)
           /\ Len(later) = Len(longer) /\ \A i \in 1..Len(later) : later[i] = longer[i]
      BY <2>2, <2>8, <2>9, <2>10
    <2> QED BY <2>11, SeqEqual
  <1>7. TheLedger!Checkpoint(LedgerHead') = cp
    BY <1>4 DEF TheLedger!Checkpoint
  <1>8. TheLedger!SupplyLeaf(current_total_supply) \in RootOf(tree'.nodes)
    BY <1>1 DEF TheLedger!SupplyLeaf, SupplyBytes
  <1> HIDE DEF new, cp
  <1> QED BY <1>3, <1>4, <1>5, <1>6, <1>7, <1>8 DEF TheLedger!Commit

\* Going back drops the checkpoints above the height.
LEMMA BackDrops ==
  ASSUME Inv, TypeOK', NEW height \in 0..current_height, TruncateTo(height)
  PROVE  /\ TheLedger!Back(height + 1) /\ height + 1 \in 1..Len(LedgerHistory)
         /\ RootOf(tree'.nodes) = LedgerHistory[height + 1].content
         /\ snapshots[height + 1].total_supply = LedgerHistory[height + 1].supply
         /\ snapshots[height + 1].gas_fees = LedgerHistory[height + 1].fees
         /\ tree'.pruned_keys = {}
PROOF
  <1>0. TypeOK /\ SnapshotsAligned /\ SnapshotsReplayable
    BY DEF Inv
  <1>1. /\ Len(snapshots') = height + 1
        /\ \A i \in 1..height + 1 : snapshots'[i] = snapshots[i]
        /\ height \in Nat /\ height + 1 \in 1..Len(snapshots)
        /\ height + 1 \in 1..Len(snapshot_storages)
        /\ tree' = NewTree(snapshot_storages[height + 1])
    BY <1>0, TruncateType
  <1>2. /\ LedgerHistory \in Seq(CheckpointType) /\ Len(LedgerHistory) = Len(snapshots)
        /\ \A i \in 1..Len(snapshots) :
             LedgerHistory[i] = [content |-> snapshots[i].root, supply |-> snapshots[i].total_supply,
                                 fees |-> snapshots[i].gas_fees]
    BY <1>0, HistoryType
  <1>3. /\ LedgerHistory' \in Seq(CheckpointType) /\ Len(LedgerHistory') = Len(snapshots')
        /\ \A i \in 1..Len(snapshots') :
             LedgerHistory'[i] = [content |-> snapshots'[i].root, supply |-> snapshots'[i].total_supply,
                                  fees |-> snapshots'[i].gas_fees]
    <2>1. (TypeOK => /\ LedgerHistory \in Seq(CheckpointType) /\ Len(LedgerHistory) = Len(snapshots)
                     /\ \A i \in 1..Len(snapshots) :
                          LedgerHistory[i] = [content |-> snapshots[i].root,
                                              supply |-> snapshots[i].total_supply,
                                              fees |-> snapshots[i].gas_fees])'
      BY HistoryType, PTL
    <2> QED BY <2>1
  <1> DEFINE n       == height + 1
             shorter == SubSeq(LedgerHistory, 1, n)
             later   == LedgerHistory'
  <1>4. n \in Nat /\ n >= 1 /\ n \in 1..Len(LedgerHistory) /\ Len(later) = n
    BY <1>1, <1>2, <1>3
  <1>5. \A i \in 1..n : i \in 1..Len(snapshots) /\ i \in 1..Len(snapshots')
    BY <1>1, <1>4
  <1>6. \A i \in 1..n : later[i] = LedgerHistory[i]
    BY <1>1, <1>2, <1>3, <1>5
  <1>7. \A i \in 1..n : LedgerHistory[i] \in CheckpointType
    BY <1>2, <1>5
  <1>8. /\ shorter \in Seq(CheckpointType) /\ Len(shorter) = n
        /\ \A i \in 1..n : shorter[i] = LedgerHistory[i]
    BY <1>4, <1>7, SubSeqProperties
  <1>9. later = shorter
    <2>1. later \in Seq(CheckpointType) /\ Len(later) = Len(shorter)
          /\ \A i \in 1..Len(later) : later[i] = shorter[i]
      BY <1>3, <1>4, <1>6, <1>8
    <2> HIDE DEF later, shorter
    <2> QED BY <1>8, <2>1, SeqEqual
  <1>10. RootOf(tree'.nodes) = snapshots[n].root
    <2>1. n \in DOMAIN snapshots
      <3>1. snapshots \in Seq(SnapshotType)
        BY <1>0 DEF TypeOK, SnapshotType
      <3>2. DOMAIN snapshots = 1..Len(snapshots)
        BY <3>1
      <3> QED BY <1>1, <3>2
    <2>2. tree' = NewTree(snapshot_storages[n])
      BY <1>1
    <2> HIDE DEF n
    <2>3. snapshots[n].root = RootOf(NewTree(snapshot_storages[n]).nodes)
      BY <1>0, <2>1 DEF SnapshotsReplayable
    <2> QED BY <2>2, <2>3
  <1>11. tree'.pruned_keys = {}
    BY <1>1 DEF NewTree
  <1>12. TheLedger!Back(n)
    BY <1>9 DEF TheLedger!Back
  <1>13. LedgerHistory[n] = [content |-> snapshots[n].root, supply |-> snapshots[n].total_supply,
                             fees |-> snapshots[n].gas_fees]
    BY <1>2, <1>4
  <1>14. /\ snapshots[n].root = LedgerHistory[n].content
         /\ snapshots[n].total_supply = LedgerHistory[n].supply
         /\ snapshots[n].gas_fees = LedgerHistory[n].fees
    BY <1>13
  <1> HIDE DEF shorter, later
  <1> QED BY <1>4, <1>10, <1>11, <1>12, <1>14

\* rollback and rollback_state restore the checkpoint but not the coins.
LEMMA RollbackRollsBack ==
  ASSUME Inv, TypeOK', NEW height \in 0..current_height,
         RestoreLedger(height), UNCHANGED <<pending_updates, coins, control>>, ~InBlock
  PROVE  TheLedger!Rollback
PROOF
  <1>1. /\ TheLedger!Back(height + 1) /\ height + 1 \in 1..Len(LedgerHistory)
        /\ RootOf(tree'.nodes) = LedgerHistory[height + 1].content
        /\ current_total_supply' = LedgerHistory[height + 1].supply
        /\ block_gas_fees' = LedgerHistory[height + 1].fees
        /\ tree'.pruned_keys = {}
    BY BackDrops DEF RestoreLedger
  <1>2. ~InBlock' /\ UNCHANGED <<utxo, prune_markers>>
    BY DEF InBlock, control, coins
  <1>3. LedgerHead' = [content |-> RootOf(tree'.nodes), marks |-> tree'.pruned_keys,
                       supply |-> current_total_supply', fees |-> block_gas_fees',
                       coins |-> utxo', markers |-> prune_markers']
    BY <1>2 DEF LedgerHead, Head0, Saved
  <1>4. LedgerHead = [content |-> RootOf(tree.nodes), marks |-> tree.pruned_keys,
                      supply |-> current_total_supply, fees |-> block_gas_fees,
                      coins |-> utxo, markers |-> prune_markers]
    BY HeadOutsideBlock
  <1> DEFINE n == height + 1
             c == LedgerHistory[n].content
             t == LedgerHistory[n].supply
             f == LedgerHistory[n].fees
  <1>5. LedgerHead' = [content |-> c, marks |-> {}, supply |-> t, fees |-> f,
                       coins |-> utxo, markers |-> prune_markers]
    BY <1>1, <1>2, <1>3
  <1>6. LedgerHead.coins = utxo /\ LedgerHead.markers = prune_markers
    BY <1>4
  <1> QED BY <1>1, <1>5, <1>6 DEF TheLedger!Rollback, TheLedger!Restored

\* restore_from_snapshot restores the content and leaves the supply and the fees.
LEMMA RestoreIsStale ==
  ASSUME Inv, TypeOK', NEW height \in 0..current_height, RestoreFromSnapshot(height), ~InBlock
  PROVE  StaleRestore
PROOF
  <1>1. /\ TheLedger!Back(height + 1) /\ height + 1 \in 1..Len(LedgerHistory)
        /\ RootOf(tree'.nodes) = LedgerHistory[height + 1].content
        /\ tree'.pruned_keys = {}
    BY BackDrops DEF RestoreFromSnapshot
  <1>2. ~InBlock' /\ UNCHANGED <<utxo, prune_markers, current_total_supply, block_gas_fees>>
    BY DEF RestoreFromSnapshot, InBlock, control, coins, tally
  <1>3. LedgerHead' = [content |-> RootOf(tree'.nodes), marks |-> tree'.pruned_keys,
                       supply |-> current_total_supply', fees |-> block_gas_fees',
                       coins |-> utxo', markers |-> prune_markers']
    BY <1>2 DEF LedgerHead, Head0, Saved
  <1>4. LedgerHead = [content |-> RootOf(tree.nodes), marks |-> tree.pruned_keys,
                      supply |-> current_total_supply, fees |-> block_gas_fees,
                      coins |-> utxo, markers |-> prune_markers]
    BY HeadOutsideBlock
  <1> DEFINE n == height + 1
             c == LedgerHistory[n].content
  <1>5. LedgerHead' = [content |-> c, marks |-> {}, supply |-> current_total_supply,
                       fees |-> block_gas_fees, coins |-> utxo, markers |-> prune_markers]
    BY <1>1, <1>2, <1>3
  <1>6. LedgerHead.coins = utxo /\ LedgerHead.markers = prune_markers
    BY <1>4
  <1> QED BY <1>1, <1>5, <1>6 DEF StaleRestore, TheLedger!Restored

\* Marking and pruning act on the head alone.
LEMMA MarkMarks ==
  ASSUME Inv, NEW op \in Markable, NEW epoch \in Epoch, MarkOutpointForPruning(op, epoch)
  PROVE  TheLedger!Mark
PROOF
  <1>1. /\ prune_markers' = [prune_markers EXCEPT ![op] = epoch]
        /\ UNCHANGED <<tree, snapshots, utxo, current_total_supply, block_gas_fees>>
        /\ ~InBlock /\ ~InBlock' /\ prune_markers \in [OutPoint -> Epoch \cup {None}]
        /\ op \in OutPoint
    BY BoundAssumption DEF Inv, TypeOK, Markers, MarkOutpointForPruning, chain, tally, control, InBlock
  <1>2. LedgerHead = [content |-> RootOf(tree.nodes), marks |-> tree.pruned_keys,
                      supply |-> current_total_supply, fees |-> block_gas_fees,
                      coins |-> utxo, markers |-> prune_markers]
    BY <1>1, HeadOutsideBlock
  <1>3. LedgerHead' = [content |-> RootOf(tree.nodes), marks |-> tree.pruned_keys,
                       supply |-> current_total_supply, fees |-> block_gas_fees,
                       coins |-> utxo, markers |-> prune_markers']
    BY <1>1 DEF LedgerHead, Head0, Saved
  <1>4. LedgerHead.markers = prune_markers /\ DOMAIN LedgerHead.markers = OutPoint
    BY <1>1, <1>2
  <1>5. LedgerHead' = [LedgerHead EXCEPT !.markers = [prune_markers EXCEPT ![op] = epoch]]
    BY <1>1, <1>2, <1>3
  <1>6. LedgerHead' = [LedgerHead EXCEPT !.markers[op] = epoch]
    BY <1>4, <1>5
  <1>7. LedgerHistory' = LedgerHistory
    BY <1>1 DEF LedgerHistory
  <1> QED BY <1>1, <1>4, <1>6, <1>7 DEF TheLedger!Mark

\* A step of a pruning cycle is a Prune of the ledger or invisible.
LEMMA PruneForgets ==
  ASSUME Inv, NEW op \in OutPoint, PruneNext(op), ForgetCoin(op)
  PROVE  TheLedger!Prune
PROOF
  <1>0. TypeOK /\ CoinsAgree /\ PruneListMarked
    BY DEF Inv
  <1>1. /\ phase = "pruning" /\ op \in prune_list /\ ~InBlock /\ ~InBlock'
        /\ UNCHANGED <<snapshots, current_total_supply, block_gas_fees>>
    BY DEF PruneNext, InBlock, chain, tally
  <1>2. /\ outpoint_to_key[op] \in Key /\ utxo[op] # None
        /\ tree' = PruneKey(tree, outpoint_to_key[op])
        /\ prune_markers' = [prune_markers EXCEPT ![op] = None]
        /\ utxo' = [utxo EXCEPT ![op] = None]
    BY <1>0 DEF ForgetCoin, PruneOutpoint, CoinsAgree, TypeOK, KeyMap
  <1>3. /\ tree'.nodes = PruneLeaf(tree.nodes, tree.pruned_keys, outpoint_to_key[op])
        /\ tree.pruned_keys \subseteq tree'.pruned_keys
    BY <1>2 DEF PruneKey
  <1>4. RootOf(tree'.nodes) \subseteq RootOf(tree.nodes)
    <2>1. tree.nodes \in Storage
      BY <1>0 DEF TypeOK, TreeType
    <2> QED BY <1>2, <1>3, <2>1, PruneShrinksRoot
  <1>5. prune_markers[op] # None
    BY <1>0, <1>1 DEF PruneListMarked
  <1>6. /\ DOMAIN utxo = OutPoint /\ utxo' # utxo
        /\ \A o \in OutPoint : utxo'[o] # utxo[o] => prune_markers'[o] # prune_markers[o]
    BY <1>0, <1>2, <1>5 DEF TypeOK, Coins, Markers
  <1>7. LedgerHead = [content |-> RootOf(tree.nodes), marks |-> tree.pruned_keys,
                      supply |-> current_total_supply, fees |-> block_gas_fees,
                      coins |-> utxo, markers |-> prune_markers]
    BY <1>1, HeadOutsideBlock
  <1>8. LedgerHead' = [content |-> RootOf(tree'.nodes), marks |-> tree'.pruned_keys,
                       supply |-> current_total_supply, fees |-> block_gas_fees,
                       coins |-> utxo', markers |-> prune_markers']
    BY <1>1 DEF LedgerHead, Head0, Saved
  <1>9. LedgerHistory' = LedgerHistory
    BY <1>1 DEF LedgerHistory
  <1> QED BY <1>3, <1>4, <1>6, <1>7, <1>8, <1>9 DEF TheLedger!Prune

\* Every step of the state manager maps to a step or a stutter of the ledger, or
\* is a stale restore.
LEMMA StepLedger ==
  Inv /\ Inv' /\ [Next]_vars => [TheLedger!Next \/ StaleRestore]_<<LedgerHistory, LedgerHead>>
PROOF
  <1> SUFFICES ASSUME Inv, Inv', [Next]_vars
               PROVE  TheLedger!Next \/ StaleRestore \/ LedgerStutters
    BY DEF LedgerStutters
  <1>0. TypeOK /\ TypeOK'
    BY DEF Inv
  <1>1. ASSUME NEW txs \in Blocks, ApplyBlock(txs) \/ ValidateAndApplyBlock(txs)
        PROVE  LedgerStutters
    BY <1>1, BlockIsInvisible DEF ApplyBlock, ValidateAndApplyBlock
  <1>2. CASE BlockStep
    <2>1. CASE InBlock'
      BY <1>2, <2>1, BlockIsInvisible
    <2>2. CASE CommitBlock
      BY <1>0, <2>2, CommitCommits DEF TheLedger!Next
    <2>3. CASE AbortBlock
      BY <2>3, AbortIsInvisible
    <2>4. CASE ~InBlock' /\ ~CommitBlock /\ ~AbortBlock
      BY <1>2, <2>4 DEF BlockStep, StartUtxoTransaction, RefuseContract, StartContract,
          HostWrite, HostSelfDestruct, ContractReturns, ContractFails, SpendInput, CreateOutput,
          EndTransaction, RefuseBurn, RefuseSupply, control, InBlock
    <2> QED BY <2>1, <2>2, <2>3, <2>4
  <1>3. ASSUME NEW height \in 0..current_height, RollbackState(height) \/ Rollback(height)
        PROVE  TheLedger!Next \/ LedgerStutters
    <2>1. ~InBlock /\ UNCHANGED <<pending_updates, coins, control>>
      BY <1>3 DEF RollbackState, Rollback, InBlock
    <2>2. CASE RestoreLedger(height)
      BY <1>0, <2>1, <2>2, RollbackRollsBack DEF TheLedger!Next
    <2>3. CASE ~RestoreLedger(height)
      <3>1. UNCHANGED <<tree, current_height, snapshots, snapshot_storages,
                        current_total_supply, block_gas_fees>>
        BY <1>3, <2>3 DEF RollbackState, Rollback
      <3> QED BY <2>1, <3>1 DEF LedgerStutters, LedgerHistory, LedgerHead, Head0, Saved,
                                InBlock, coins, control
    <2> QED BY <2>2, <2>3
  <1>4. ASSUME NEW height \in 0..current_height, RestoreFromSnapshot(height)
        PROVE  StaleRestore
    <2>1. ~InBlock
      BY <1>4 DEF RestoreFromSnapshot, InBlock
    <2> QED BY <1>0, <1>4, <2>1, RestoreIsStale
  <1>5. ASSUME NEW op \in Markable, NEW epoch \in Epoch, MarkOutpointForPruning(op, epoch)
        PROVE  TheLedger!Next
    BY <1>5, MarkMarks DEF TheLedger!Next
  <1>6. ASSUME NEW threshold \in Epoch, BeginPruning(threshold) PROVE LedgerStutters
    BY <1>6 DEF BeginPruning, InBlock, manager, chain, tally, coins, LedgerStutters,
        LedgerHistory, LedgerHead, Head0, Saved
  <1>7. ASSUME NEW op \in OutPoint, PruneNext(op) PROVE TheLedger!Next \/ LedgerStutters
    <2>1. CASE ForgetCoin(op)
      BY <1>7, <2>1, PruneForgets DEF TheLedger!Next
    <2>2. CASE SkipOutpoint(op) \/ FailCycle(op)
      BY <1>7, <2>2 DEF PruneNext, SkipOutpoint, FailCycle, InBlock, chain, tally, coins,
          LedgerStutters, LedgerHistory, LedgerHead, Head0, Saved
    <2> QED BY <1>7, <2>1, <2>2 DEF PruneNext
  <1>8. CASE UNCHANGED vars
    BY <1>8 DEF vars, manager, chain, tally, coins, control, LedgerStutters, LedgerHistory,
        LedgerHead, Head0, Saved, InBlock
  <1> QED BY <1>1, <1>2, <1>3, <1>4, <1>5, <1>6, <1>7, <1>8 DEF Next

\* The state manager implements the ledger: a block is atomic, a checkpoint is
\* immutable until it is dropped, a rollback restores its checkpoint entirely, and
\* a restore_from_snapshot all of it but the supply and the fees.
THEOREM ManagerImplementsLedger == Spec => ImplementsLedger
PROOF
  BY InitLedger, StepLedger, Invariant, PTL DEF Spec, ImplementsLedger

-----------------------------------------------------------------------------
(* The forward workload: coins, their leaves in the tree, and the ids that  *)
(* were used up.                                                           *)

\* What the leaf of a key will be when the pending updates are written.
Leaf(t, pending, k) == IF k \in DOMAIN pending THEN pending[k] ELSE t.nodes[k]

\* An outpoint was created before: its key is pruned, stored or pending.
Used(t, pending, op) ==
  \/ KeyOf[op] \in t.pruned_keys
  \/ KeyOf[op] \in DOMAIN pending
  \/ HasValue(t.nodes, KeyOf[op])

\* An unspent output can be read and is what its leaf says.
LeavesHold(t, pending, u) ==
  \A op \in OutPoint : u[op] # None =>
    KeyOf[op] \notin t.pruned_keys /\ Leaf(t, pending, KeyOf[op]) = u[op]

\* No output of a coinbase is ever pruned.
MintsKept(t) ==
  \A tx \in Transactions : tx.inputs = <<>> =>
    \A i \in DOMAIN tx.outputs : KeyOf[<<tx.id, i>>] \notin t.pruned_keys

\* When an output of a transaction was created before, its inputs are spent for
\* good: their outpoints were created before too, and are not unspent.
NoComeback(t, pending, u) ==
  \A tx \in Transactions : \A i \in DOMAIN tx.outputs, j \in DOMAIN tx.inputs :
    Used(t, pending, <<tx.id, i>>) => u[tx.inputs[j]] = None /\ Used(t, pending, tx.inputs[j])

Sound(t, pending, u) == LeavesHold(t, pending, u) /\ MintsKept(t) /\ NoComeback(t, pending, u)

MarkedAreMarkable(markers) == \A op \in OutPoint : markers[op] # None => op \in Markable

Running == phase \in {"tx", "vm", "body"}
BlockUpdates == IF Running THEN pending_updates ELSE NoUpdates

\* The coinbases still to apply occur once and their outputs are new.
MintsFresh ==
  Running => \A n \in DOMAIN queue : queue[n].inputs = <<>> =>
    /\ \A m \in DOMAIN queue : queue[m] = queue[n] => m = n
    /\ \A i \in DOMAIN queue[n].outputs :
         (n = 1 /\ phase = "body" => i >= cursor)
           => ~Used(tree, pending_updates, <<queue[n].id, i>>)

\* Once an input of the transaction in progress is spent, its remaining
\* outputs are new.
BodyFresh ==
  phase = "body" =>
    LET tx == Head(queue) IN
    /\ \A j \in DOMAIN tx.inputs : j < cursor =>
         utxo[tx.inputs[j]] = None /\ Used(tree, pending_updates, tx.inputs[j])
    /\ tx.inputs # <<>> /\ cursor > 1 =>
         \A i \in DOMAIN tx.outputs : i >= cursor - Len(tx.inputs)
           => ~Used(tree, pending_updates, <<tx.id, i>>)

ForwardInv ==
  /\ phase # "failed" => /\ Sound(tree, BlockUpdates, utxo)
                         /\ CutsMarked(tree.nodes, tree.pruned_keys)
  /\ InBlock => /\ Sound(saved.tree, NoUpdates, saved.utxo)
                /\ CutsMarked(saved.tree.nodes, saved.tree.pruned_keys)
                /\ MarkedAreMarkable(saved.prune_markers)
  /\ MarkedAreMarkable(prune_markers)
  /\ MintsFresh /\ BodyFresh

\* The parts of a transaction.
LEMMA TransactionFacts ==
  ASSUME NEW tx \in Transactions
  PROVE  /\ Len(tx.inputs) \in Nat /\ DOMAIN tx.inputs = 1..Len(tx.inputs)
         /\ tx.inputs = <<>> <=> Len(tx.inputs) = 0
         /\ \A j \in DOMAIN tx.inputs : tx.inputs[j] \in OutPoint /\ j \in Nat
         /\ \A i \in DOMAIN tx.outputs :
              /\ i \in Nat \ {0} /\ <<tx.id, i>> \in OutPoint /\ KeyOf[<<tx.id, i>>] \in Key
              /\ tx.outputs[i] \in Output
PROOF
  <1>1. /\ tx.inputs \in Seq(OutPoint) /\ tx.outputs \in Seq(Output)
        /\ KeyOf \in [OutPoint -> Key]
        /\ \A i \in 1..Len(tx.outputs) : <<tx.id, i>> \in OutPoint
    BY TransactionAssumption
  <1>2. Len(tx.inputs) \in Nat /\ DOMAIN tx.inputs = 1..Len(tx.inputs)
    BY <1>1
  <1>3. tx.inputs = <<>> <=> Len(tx.inputs) = 0
    BY <1>1, EmptySeq
  <1>4. \A j \in DOMAIN tx.inputs : tx.inputs[j] \in OutPoint
    BY <1>1
  <1>5. DOMAIN tx.outputs = 1..Len(tx.outputs) /\ Len(tx.outputs) \in Nat
    BY <1>1
  <1>6. \A i \in DOMAIN tx.outputs : tx.outputs[i] \in Output
    BY <1>1
  <1> QED BY <1>1, <1>2, <1>3, <1>4, <1>5, <1>6

\* An output is a value of a leaf, and is not None.
LEMMA OutputFacts ==
  ASSUME NEW o \in Output
  PROVE  o \in Data /\ o \in Value /\ o # None /\ o # NoValue /\ o # Absent /\ o.value \in Nat
PROOF
  BY TransactionAssumption, NoneAssumption, SentinelAssumption DEF Value

\* An unspent outpoint was created before.
LEMMA UnspentIsUsed ==
  ASSUME NEW t, NEW pending, NEW u \in Coins, LeavesHold(t, pending, u),
         NEW op \in OutPoint, u[op] # None
  PROVE  Used(t, pending, op)
PROOF
  <1>1. u[op] \in Output
    BY DEF Coins
  <1>2. Leaf(t, pending, KeyOf[op]) = u[op]
    BY DEF LeavesHold
  <1> QED BY <1>1, <1>2, OutputFacts DEF Leaf, Used, HasValue

\* Two trees that agree on the leaves of the outpoints.
SameCoinLeaves(t, t2) ==
  \A op \in OutPoint :
    /\ KeyOf[op] \in t.pruned_keys <=> KeyOf[op] \in t2.pruned_keys
    /\ t.nodes[KeyOf[op]] = t2.nodes[KeyOf[op]]

\* ... are equally sound.
LEMMA SameIsSound ==
  ASSUME NEW t, NEW t2, NEW pending, NEW u, SameCoinLeaves(t, t2), Sound(t, pending, u)
  PROVE  /\ Sound(t2, pending, u)
         /\ \A op \in OutPoint : Used(t2, pending, op) <=> Used(t, pending, op)
PROOF
  <1>1. \A op \in OutPoint : Used(t2, pending, op) <=> Used(t, pending, op)
    BY DEF SameCoinLeaves, Used, HasValue
  <1>2. LeavesHold(t2, pending, u)
    BY DEF Sound, LeavesHold, Leaf, SameCoinLeaves
  <1>3. MintsKept(t2)
    BY TransactionFacts DEF Sound, MintsKept, SameCoinLeaves
  <1>4. NoComeback(t2, pending, u)
    BY <1>1, TransactionFacts DEF Sound, NoComeback
  <1> QED BY <1>1, <1>2, <1>3, <1>4 DEF Sound

\* Spending a coin: none of the outputs of the spender was created before.
LEMMA SpendIsSound ==
  ASSUME NEW t, NEW pending, NEW u \in Coins, Sound(t, pending, u),
         NEW op \in OutPoint, u[op] # None
  PROVE  /\ Sound(t, pending, [u EXCEPT ![op] = None])
         /\ Used(t, pending, op)
         /\ \A tx \in Transactions : \A j \in DOMAIN tx.inputs, i \in DOMAIN tx.outputs :
              tx.inputs[j] = op => ~Used(t, pending, <<tx.id, i>>)
PROOF
  <1> DEFINE after == [u EXCEPT ![op] = None]
  <1>1. \A x \in OutPoint : after[x] = IF x = op THEN None ELSE u[x]
    BY DEF Coins
  <1> HIDE DEF after
  <1>2. LeavesHold(t, pending, after)
    BY <1>1 DEF Sound, LeavesHold
  <1>3. NoComeback(t, pending, after)
    BY <1>1, TransactionFacts DEF Sound, NoComeback
  <1>4. Used(t, pending, op)
    BY UnspentIsUsed DEF Sound
  <1>5. \A tx \in Transactions : \A j \in DOMAIN tx.inputs, i \in DOMAIN tx.outputs :
          tx.inputs[j] = op => ~Used(t, pending, <<tx.id, i>>)
    BY DEF Sound, NoComeback
  <1>6. Sound(t, pending, after)
    BY <1>2, <1>3 DEF Sound
  <1> QED BY <1>4, <1>5, <1>6 DEF after

\* Creating an output that was not created before, when the inputs are spent.
LEMMA CreateIsSound ==
  ASSUME ForwardWorkload, NEW t, NEW pending, NEW u \in Coins, Sound(t, pending, u),
         NEW tx \in Transactions, NEW i \in DOMAIN tx.outputs,
         ~Used(t, pending, <<tx.id, i>>),
         \A j \in DOMAIN tx.inputs : u[tx.inputs[j]] = None /\ Used(t, pending, tx.inputs[j])
  PROVE  LET op == <<tx.id, i>>
             later == WithUpdate(pending, KeyOf[op], tx.outputs[i])
         IN  /\ Sound(t, later, [u EXCEPT ![op] = tx.outputs[i]])
             /\ \A x \in OutPoint : Used(t, later, x) <=> x = op \/ Used(t, pending, x)
PROOF
  <1> DEFINE op == <<tx.id, i>>
             later == WithUpdate(pending, KeyOf[op], tx.outputs[i])
             after == [u EXCEPT ![op] = tx.outputs[i]]
  <1>0. /\ op \in OutPoint /\ KeyOf[op] \in Key /\ ~Used(t, pending, op)
        /\ \A p, q \in OutPoint : KeyOf[p] = KeyOf[q] => p = q
    BY TransactionFacts DEF ForwardWorkload
  <1>1. \A x \in OutPoint : after[x] = IF x = op THEN tx.outputs[i] ELSE u[x]
    BY <1>0 DEF Coins
  <1>2. /\ DOMAIN later = DOMAIN pending \cup {KeyOf[op]}
        /\ \A k \in DOMAIN later : later[k] = IF k = KeyOf[op] THEN tx.outputs[i] ELSE pending[k]
    BY DEF WithUpdate
  <1>3. \A y \in Transactions, m \in DOMAIN tx.outputs : <<y.id, m>> = op => y = tx
    BY DEF ForwardWorkload
  <1>4. \A y \in Transactions : \A m \in DOMAIN y.outputs : <<y.id, m>> = op => y = tx
    BY DEF ForwardWorkload
  <1> HIDE DEF op, later, after
  <1>5. \A x \in OutPoint : Used(t, later, x) <=> x = op \/ Used(t, pending, x)
    BY <1>0, <1>2 DEF Used
  <1>6. LeavesHold(t, later, after)
    <2>1. ASSUME NEW x \in OutPoint, after[x] # None
          PROVE  KeyOf[x] \notin t.pruned_keys /\ Leaf(t, later, KeyOf[x]) = after[x]
      <3>1. CASE x = op
        BY <1>0, <1>1, <1>2, <3>1 DEF Used, Leaf
      <3>2. CASE x # op
        <4>1. KeyOf[x] # KeyOf[op] /\ after[x] = u[x]
          BY <1>0, <1>1, <3>2
        <4>2. Leaf(t, later, KeyOf[x]) = Leaf(t, pending, KeyOf[x])
          BY <1>2, <4>1 DEF Leaf
        <4> QED BY <2>1, <4>1, <4>2 DEF Sound, LeavesHold
      <3> QED BY <3>1, <3>2
    <2> QED BY <2>1 DEF LeavesHold
  <1>7. NoComeback(t, later, after)
    <2>1. ASSUME NEW y \in Transactions, NEW m \in DOMAIN y.outputs, NEW j \in DOMAIN y.inputs,
                 Used(t, later, <<y.id, m>>)
          PROVE  after[y.inputs[j]] = None /\ Used(t, later, y.inputs[j])
      <3>0. <<y.id, m>> \in OutPoint /\ y.inputs[j] \in OutPoint
        BY TransactionFacts
      <3>1. u[y.inputs[j]] = None /\ Used(t, pending, y.inputs[j])
        <4>1. CASE <<y.id, m>> = op
          BY <1>4, <4>1
        <4>2. CASE Used(t, pending, <<y.id, m>>)
          BY <4>2 DEF Sound, NoComeback
        <4> QED BY <1>5, <2>1, <3>0, <4>1, <4>2
      <3>2. y.inputs[j] # op
        BY <1>0, <3>1
      <3> QED BY <1>1, <1>5, <3>0, <3>1, <3>2
    <2> QED BY <2>1 DEF NoComeback
  <1>8. Sound(t, later, after)
    BY <1>6, <1>7 DEF Sound
  <1> QED BY <1>5, <1>8 DEF op, later, after

\* Writing the pending updates at the end of a block changes no leaf to come.
LEMMA CommitIsSound ==
  ASSUME ForwardWorkload, NEW t \in TreeType, NEW pending \in Updates, NEW u, NEW n \in Nat,
         Sound(t, pending, u)
  PROVE  Sound([t EXCEPT !.nodes = InsertAll(@, WithSupply(pending, n))], NoUpdates, u)
PROOF
  <1> DEFINE batch == WithSupply(pending, n)
             t2 == [t EXCEPT !.nodes = InsertAll(@, batch)]
  <1>1. /\ DOMAIN pending \subseteq Key /\ \A k \in DOMAIN pending : pending[k] \in Data
        /\ DOMAIN batch = DOMAIN pending \cup {TotalSupplyKey} /\ DOMAIN batch \subseteq Key
    BY UpdatesType, WithSupplyType
  <1>2. \A k \in Key \ {TotalSupplyKey} : k \in DOMAIN pending => batch[k] = pending[k]
    BY DEF WithSupply
  <1>3. t2.pruned_keys = t.pruned_keys /\ t2.nodes = InsertAll(t.nodes, batch) /\ t.nodes \in Storage
    BY DEF TreeType
  <1> HIDE DEF batch, t2
  <1>4. \A k \in Key : t2.nodes[k] = IF k \in DOMAIN batch THEN batch[k] ELSE t.nodes[k]
    BY <1>1, <1>3, LeafAfterWrite
  <1>5. \A op \in OutPoint : KeyOf[op] \in Key \ {TotalSupplyKey}
    BY TransactionAssumption DEF ForwardWorkload
  <1>6. \A op \in OutPoint : t2.nodes[KeyOf[op]] = Leaf(t, pending, KeyOf[op])
    BY <1>1, <1>2, <1>4, <1>5 DEF Leaf
  <1>7. \A op \in OutPoint : Used(t2, NoUpdates, op) <=> Used(t, pending, op)
    <2> TAKE op \in OutPoint
    <2>1. CASE KeyOf[op] \in DOMAIN pending
      <3>1. pending[KeyOf[op]] \in Value
        BY <1>1, <2>1 DEF Value
      <3>2. HasValue(t2.nodes, KeyOf[op])
        BY <1>6, <2>1, <3>1, SentinelAssumption DEF Leaf, HasValue
      <3> QED BY <2>1, <3>2 DEF Used
    <2>2. CASE KeyOf[op] \notin DOMAIN pending
      BY <1>3, <1>6, <2>2 DEF Leaf, HasValue, Used, NoUpdates
    <2> QED BY <2>1, <2>2
  <1>8. LeavesHold(t2, NoUpdates, u)
    BY <1>3, <1>6 DEF Sound, LeavesHold, NoUpdates, Leaf
  <1>9. MintsKept(t2)
    BY <1>3 DEF Sound, MintsKept
  <1>10. NoComeback(t2, NoUpdates, u)
    BY <1>7, TransactionFacts DEF Sound, NoComeback
  <1> QED BY <1>8, <1>9, <1>10 DEF Sound, t2, batch

\* Pruning a coin that may be marked.
LEMMA PruneIsSound ==
  ASSUME ForwardWorkload, NEW t \in TreeType, NEW u \in Coins, Sound(t, NoUpdates, u),
         NEW op \in OutPoint, u[op] # None, op \in Markable
  PROVE  Sound(PruneKey(t, KeyOf[op]), NoUpdates, [u EXCEPT ![op] = None])
PROOF
  <1> DEFINE k == KeyOf[op]
             cut == PrunedPaths(t.nodes, t.pruned_keys, k)
             t2 == PruneKey(t, k)
             after == [u EXCEPT ![op] = None]
  <1>0. /\ k \in Key /\ t.nodes \in Storage /\ \A x \in OutPoint : KeyOf[x] \in Key
        /\ \A p, q \in OutPoint : KeyOf[p] = KeyOf[q] => p = q
    BY TransactionAssumption DEF ForwardWorkload, TreeType
  <1>1. t2.pruned_keys = t.pruned_keys \cup cut /\ t2.nodes = PruneLeaf(t.nodes, t.pruned_keys, k)
    BY DEF PruneKey
  <1>2. k \in cut
    BY DEF PrunedPaths
  <1>3. \A x \in OutPoint : after[x] = IF x = op THEN None ELSE u[x]
    BY DEF Coins
  <1> HIDE DEF cut, t2, after
  <1>4. \A x \in OutPoint \ {op} : /\ KeyOf[x] \in t2.pruned_keys <=> KeyOf[x] \in t.pruned_keys
                                   /\ t2.nodes[KeyOf[x]] = t.nodes[KeyOf[x]]
    <2> TAKE x \in OutPoint \ {op}
    <2>1. KeyOf[x] \in Key /\ KeyOf[x] # k
      BY <1>0
    <2> HIDE DEF k
    <2> QED BY <1>0, <1>1, <2>1, LeafAfterPrune DEF cut
  <1>5. Used(t, NoUpdates, op) /\ Used(t2, NoUpdates, op)
    BY <1>1, <1>2, UnspentIsUsed DEF Sound, Used
  <1>6. \A x \in OutPoint : Used(t2, NoUpdates, x) <=> Used(t, NoUpdates, x)
    BY <1>4, <1>5 DEF Used, HasValue
  <1>7. LeavesHold(t2, NoUpdates, after)
    BY <1>3, <1>4 DEF Sound, LeavesHold, Leaf, NoUpdates
  <1>8. MintsKept(t2)
    <2>1. ASSUME NEW tx \in Transactions, tx.inputs = <<>>, NEW i \in DOMAIN tx.outputs
          PROVE  KeyOf[<<tx.id, i>>] \notin t2.pruned_keys
      <3>1. <<tx.id, i>> \in OutPoint /\ <<tx.id, i>> # op
        BY <2>1, TransactionFacts DEF ForwardWorkload
      <3>2. KeyOf[<<tx.id, i>>] \notin t.pruned_keys
        BY <2>1 DEF Sound, MintsKept
      <3> QED BY <1>4, <3>1, <3>2
    <2> QED BY <2>1 DEF MintsKept
  <1>9. NoComeback(t2, NoUpdates, after)
    BY <1>3, <1>6, TransactionFacts DEF Sound, NoComeback
  <1>10. Sound(t2, NoUpdates, after)
    BY <1>7, <1>8, <1>9 DEF Sound
  <1> QED BY <1>10 DEF t2, k, after

\* A contract touches no leaf of an outpoint.
LEMMA ContractKeepsCoins ==
  ASSUME ForwardWorkload, NEW t \in TreeType, NEW k \in ContractKeys
  PROVE  /\ SameCoinLeaves(t, PruneKey(t, k))
         /\ \A v \in Data : SameCoinLeaves(t, [t EXCEPT !.nodes = InsertLeaf(@, k, v)])
PROOF
  <1>0. /\ k \in Key /\ t.nodes \in Storage
        /\ \A op \in OutPoint : KeyOf[op] \in Key /\ KeyOf[op] # k
    BY TransactionAssumption, ContractAssumption DEF ForwardWorkload, TreeType
  <1>1. SameCoinLeaves(t, PruneKey(t, k))
    BY <1>0, LeafAfterPrune DEF SameCoinLeaves, PruneKey
  <1>2. ASSUME NEW v \in Data PROVE SameCoinLeaves(t, [t EXCEPT !.nodes = InsertLeaf(@, k, v)])
    <2> DEFINE u == [x \in {k} |-> v]
               t2 == [t EXCEPT !.nodes = InsertLeaf(@, k, v)]
    <2>1. t2.pruned_keys = t.pruned_keys /\ t2.nodes = InsertAll(t.nodes, u)
          /\ DOMAIN u \subseteq Key /\ \A op \in OutPoint : KeyOf[op] \notin DOMAIN u
      BY <1>0 DEF TreeType, InsertLeaf
    <2> HIDE DEF u, t2
    <2>2. SameCoinLeaves(t, t2)
      BY <1>0, <2>1, LeafAfterWrite DEF SameCoinLeaves
    <2> QED BY <2>2 DEF t2
  <1> QED BY <1>1, <1>2

\* The operations on the tree cut off no node without a mark.
LEMMA TreeCuts ==
  ASSUME NEW t \in TreeType, CutsMarked(t.nodes, t.pruned_keys), NEW k \in Key
  PROVE  /\ CutsMarked(PruneKey(t, k).nodes, PruneKey(t, k).pruned_keys)
         /\ \A v \in Value :
              LET t2 == [t EXCEPT !.nodes = InsertLeaf(@, k, v)]
              IN  CutsMarked(t2.nodes, t2.pruned_keys)
PROOF
  <1>0. t.nodes \in Storage /\ t.pruned_keys \subseteq Path
    BY DEF TreeType
  <1>1. CutsMarked(PruneKey(t, k).nodes, PruneKey(t, k).pruned_keys)
    BY <1>0, PruneKeepsCuts DEF PruneKey
  <1>2. ASSUME NEW v \in Value
        PROVE  LET t2 == [t EXCEPT !.nodes = InsertLeaf(@, k, v)]
               IN  CutsMarked(t2.nodes, t2.pruned_keys)
    <2> DEFINE u == [x \in {k} |-> v]
               t2 == [t EXCEPT !.nodes = InsertLeaf(@, k, v)]
    <2>1. t2.pruned_keys = t.pruned_keys /\ t2.nodes = InsertAll(t.nodes, u)
          /\ DOMAIN u \subseteq Key /\ \A x \in DOMAIN u : u[x] \in Value
      BY DEF TreeType, InsertLeaf
    <2> HIDE DEF u, t2
    <2>2. CutsMarked(t2.nodes, t2.pruned_keys)
      BY <1>0, <2>1, WriteKeepsCuts
    <2> QED BY <2>2 DEF t2
  <1> QED BY <1>1, <1>2

\* A new state manager satisfies the invariant.
LEMMA InitForward == Init => ForwardInv
PROOF
  <1> SUFFICES ASSUME Init PROVE ForwardInv
    OBVIOUS
  <1>1. tree.pruned_keys = {} /\ tree.nodes = EmptyStorage
    BY DEF Init, NewTree, EnsureRoot, EmptyStorage, NodeExists
  <1>2. /\ phase = "idle" /\ utxo = [op \in OutPoint |-> None]
        /\ prune_markers = [op \in OutPoint |-> None]
    BY DEF Init
  <1>3. \A op \in OutPoint : ~Used(tree, NoUpdates, op)
    <2> TAKE op \in OutPoint
    <2>1. KeyOf[op] \in Path /\ KeyOf[op] # <<>>
      BY TransactionAssumption, PathFacts, KeySizeAssumption
    <2> QED BY <1>1, <2>1 DEF Used, NoUpdates, HasValue, EmptyStorage
  <1>4. Sound(tree, NoUpdates, utxo)
    <2>1. LeavesHold(tree, NoUpdates, utxo) /\ MintsKept(tree)
      BY <1>1, <1>2 DEF LeavesHold, MintsKept
    <2>2. NoComeback(tree, NoUpdates, utxo)
      BY <1>3, TransactionFacts DEF NoComeback
    <2> QED BY <2>1, <2>2 DEF Sound
  <1>5. CutsMarked(tree.nodes, tree.pruned_keys)
    BY <1>1, EmptyCuts
  <1> QED BY <1>2, <1>4, <1>5
      DEF ForwardInv, BlockUpdates, Running, InBlock, MarkedAreMarkable, MintsFresh, BodyFresh

\* A block that passed validation starts on a sound state, and its coinbases
\* create nothing that was created before.
LEMMA BeginForward ==
  ASSUME ForwardWorkload, TypeOK, ForwardInv, NEW txs \in Blocks, Validated(txs), BeginBlock(txs)
  PROVE  ForwardInv'
PROOF
  <1>0. /\ phase = "idle" /\ phase' = "tx" /\ queue' = txs /\ saved' = Saved
        /\ pending_updates' = NoUpdates
        /\ UNCHANGED <<tree, utxo, prune_markers>>
    BY DEF BeginBlock, coins
  <1>1. /\ Sound(tree, NoUpdates, utxo) /\ CutsMarked(tree.nodes, tree.pruned_keys)
        /\ MarkedAreMarkable(prune_markers)
    BY <1>0 DEF ForwardInv, BlockUpdates, Running
  <1>2. /\ saved'.tree = tree /\ saved'.utxo = utxo /\ saved'.prune_markers = prune_markers
    BY <1>0 DEF Saved
  <1>3. MintsFresh'
    <2>1. txs \in Seq(Transactions)
      BY TransactionAssumption
    <2>2. ASSUME NEW n \in DOMAIN txs, txs[n].inputs = <<>>, NEW i \in DOMAIN txs[n].outputs
          PROVE  ~Used(tree, NoUpdates, <<txs[n].id, i>>)
      <3>1. txs[n] \in Transactions
        BY <2>1
      <3>2. KeyOf[<<txs[n].id, i>>] \notin tree.pruned_keys
        BY <1>1, <2>2, <3>1 DEF Sound, MintsKept
      <3>3. ~ReadsValue(KeyOf[<<txs[n].id, i>>])
        BY DEF Validated
      <3> QED BY <3>2, <3>3 DEF ReadsValue, Get, Used, NoUpdates
    <2>3. \A m, n \in DOMAIN txs : txs[n].inputs = <<>> /\ txs[m] = txs[n] => m = n
      BY DEF ForwardWorkload
    <2> QED BY <1>0, <2>2, <2>3 DEF MintsFresh
  <1>4. BodyFresh'
    BY <1>0 DEF BodyFresh
  <1>5. BlockUpdates' = NoUpdates /\ MarkedAreMarkable(prune_markers)'
    BY <1>0, <1>1 DEF BlockUpdates, MarkedAreMarkable
  <1> QED BY <1>0, <1>1, <1>2, <1>3, <1>4, <1>5 DEF ForwardInv, MarkedAreMarkable

\* The steps after which the block is known to fail.
LEMMA FailForward ==
  ASSUME ForwardInv, InBlock, phase' = "failed", UNCHANGED <<saved, prune_markers>>
  PROVE  ForwardInv'
PROOF
  BY DEF ForwardInv, InBlock, MintsFresh, BodyFresh, Running, MarkedAreMarkable

\* The steps in the middle of a block that touch neither the coins nor a leaf
\* of an outpoint.
LEMMA QuietForward ==
  ASSUME TypeOK, ForwardInv, phase \in {"tx", "vm"}, phase' \in {"tx", "vm", "body"},
         phase' = "body" => cursor' = 1 /\ queue # <<>>,
         SameCoinLeaves(tree, tree'), CutsMarked(tree'.nodes, tree'.pruned_keys),
         UNCHANGED <<queue, saved, prune_markers, utxo, pending_updates>>
  PROVE  ForwardInv'
PROOF
  <1>1. /\ BlockUpdates = pending_updates /\ BlockUpdates' = pending_updates
        /\ InBlock /\ InBlock' /\ Running /\ Running' /\ phase' # "failed" /\ phase # "failed"
    BY DEF BlockUpdates, Running, InBlock
  <1>2. /\ Sound(tree', pending_updates, utxo)
        /\ \A op \in OutPoint : Used(tree', pending_updates, op) <=> Used(tree, pending_updates, op)
    BY <1>1, SameIsSound DEF ForwardInv
  <1>3. MintsFresh'
    <2>1. MintsFresh /\ queue' = queue /\ pending_updates' = pending_updates
      BY DEF ForwardInv
    <2>2. ASSUME NEW n \in DOMAIN queue, queue[n].inputs = <<>>, NEW i \in DOMAIN queue[n].outputs
          PROVE  ~Used(tree', pending_updates, <<queue[n].id, i>>)
      <3>1. ~Used(tree, pending_updates, <<queue[n].id, i>>)
        BY <1>1, <2>1, <2>2 DEF MintsFresh
      <3>2. queue[n] \in Transactions
        BY DEF TypeOK
      <3>3. <<queue[n].id, i>> \in OutPoint
        BY <3>2, TransactionFacts
      <3> QED BY <1>2, <3>1, <3>3
    <2> QED BY <1>1, <2>1, <2>2 DEF MintsFresh
  <1>4. BodyFresh'
    <2>1. SUFFICES ASSUME phase' = "body" PROVE BodyFresh'
      BY DEF BodyFresh
    <2>2. cursor' = 1 /\ Head(queue) \in Transactions
      BY <2>1, HeadType DEF TypeOK
    <2>3. \A j \in DOMAIN Head(queue).inputs : ~(j < 1)
      BY <2>2, TransactionFacts
    <2> QED BY <2>2, <2>3 DEF BodyFresh
  <1> QED BY <1>1, <1>2, <1>3, <1>4 DEF ForwardInv, MarkedAreMarkable

\* Spending an input.
LEMMA SpendForward ==
  ASSUME TypeOK, ForwardInv, SpendInput
  PROVE  ForwardInv'
PROOF
  <1> DEFINE tx == Head(queue)
             op == tx.inputs[cursor]
  <1>0. /\ phase = "body" /\ cursor \in DOMAIN tx.inputs /\ queue # <<>> /\ tx \in Transactions
        /\ op \in OutPoint /\ utxo \in Coins /\ prune_markers \in Markers /\ cursor \in Nat \ {0}
        /\ queue \in Seq(Transactions) /\ queue[1] = tx
        /\ UNCHANGED <<tree, pending_updates, queue, saved>>
    BY HeadType DEF SpendInput, TypeOK
  <1>1. CASE utxo[op] = None
    BY <1>0, <1>1, FailForward DEF SpendInput, InBlock
  <1>2. CASE utxo[op] # None
    <2>1. /\ utxo' = [utxo EXCEPT ![op] = None]
          /\ prune_markers' = [prune_markers EXCEPT ![op] = None]
          /\ cursor' = cursor + 1 /\ phase' = "body"
      BY <1>0, <1>2 DEF SpendInput
    <2>2. Sound(tree, pending_updates, utxo) /\ MintsFresh /\ BodyFresh
      BY <1>0 DEF ForwardInv, BlockUpdates, Running
    <2>3. /\ Len(tx.inputs) \in Nat /\ cursor \in 1..Len(tx.inputs) /\ tx.inputs # <<>>
          /\ DOMAIN tx.inputs = 1..Len(tx.inputs)
          /\ \A i \in DOMAIN tx.outputs : i \in Nat \ {0}
          /\ \A j \in DOMAIN tx.inputs : tx.inputs[j] \in OutPoint
      <3>1. /\ Len(tx.inputs) \in Nat /\ DOMAIN tx.inputs = 1..Len(tx.inputs)
            /\ tx.inputs = <<>> <=> Len(tx.inputs) = 0
            /\ \A i \in DOMAIN tx.outputs : i \in Nat \ {0}
            /\ \A j \in DOMAIN tx.inputs : tx.inputs[j] \in OutPoint
        BY <1>0, TransactionFacts
      <3> HIDE DEF tx
      <3> QED BY <1>0, <3>1
    <2>4. /\ Sound(tree, pending_updates, utxo')
          /\ Used(tree, pending_updates, op)
          /\ \A i \in DOMAIN tx.outputs : ~Used(tree, pending_updates, <<tx.id, i>>)
      <3>1. /\ Sound(tree, pending_updates, utxo')
            /\ Used(tree, pending_updates, op)
            /\ \A y \in Transactions : \A j \in DOMAIN y.inputs, i \in DOMAIN y.outputs :
                 y.inputs[j] = op => ~Used(tree, pending_updates, <<y.id, i>>)
        BY <1>0, <1>2, <2>1, <2>2, SpendIsSound
      <3> QED BY <1>0, <3>1
    <2>5. MintsFresh'
      <3>1. ASSUME NEW n \in DOMAIN queue, queue[n].inputs = <<>>
            PROVE  n # 1
        BY <1>0, <2>3, <3>1
      <3> QED BY <1>0, <2>1, <2>2, <3>1 DEF MintsFresh, Running
    <2>6. BodyFresh'
      <3>1. ASSUME NEW j \in DOMAIN tx.inputs, j < cursor + 1
            PROVE  utxo'[tx.inputs[j]] = None /\ Used(tree, pending_updates, tx.inputs[j])
        <4>1. CASE j = cursor
          BY <1>0, <2>1, <2>4, <4>1 DEF Coins
        <4>2. CASE j # cursor
          <5>1. j < cursor /\ tx.inputs[j] \in OutPoint
            BY <2>3, <3>1, <4>2
          <5>2. utxo[tx.inputs[j]] = None /\ Used(tree, pending_updates, tx.inputs[j])
            BY <1>0, <2>2, <5>1 DEF BodyFresh
          <5> HIDE DEF op, tx
          <5> QED BY <1>0, <2>1, <5>1, <5>2 DEF Coins
        <4> QED BY <4>1, <4>2
      <3> QED BY <1>0, <2>1, <2>4, <3>1 DEF BodyFresh
    <2>7. MarkedAreMarkable(prune_markers')
      <3> HIDE DEF op
      <3> QED BY <1>0, <2>1 DEF ForwardInv, MarkedAreMarkable, Markers
    <2>8. BlockUpdates' = pending_updates /\ phase' # "failed" /\ InBlock
      BY <1>0, <2>1 DEF BlockUpdates, Running, InBlock
    <2> HIDE DEF op, tx
    <2> QED BY <1>0, <2>4, <2>5, <2>6, <2>7, <2>8 DEF ForwardInv, MarkedAreMarkable
  <1> QED BY <1>1, <1>2

\* The output about to be created was not created before.
LEMMA NextOutputFresh ==
  ASSUME TypeOK, ForwardInv, phase = "body"
  PROVE  LET tx == Head(queue)
             i  == cursor - Len(tx.inputs)
         IN  i \in DOMAIN tx.outputs =>
               /\ ~Used(tree, pending_updates, <<tx.id, i>>)
               /\ \A j \in DOMAIN tx.inputs :
                    utxo[tx.inputs[j]] = None /\ Used(tree, pending_updates, tx.inputs[j])
PROOF
  <1> DEFINE tx == Head(queue)
             i  == cursor - Len(tx.inputs)
  <1> SUFFICES ASSUME i \in DOMAIN tx.outputs
               PROVE  /\ ~Used(tree, pending_updates, <<tx.id, i>>)
                      /\ \A j \in DOMAIN tx.inputs :
                           utxo[tx.inputs[j]] = None /\ Used(tree, pending_updates, tx.inputs[j])
    OBVIOUS
  <1>1. /\ queue \in Seq(Transactions) /\ queue # <<>> /\ tx \in Transactions /\ queue[1] = tx
        /\ 1 \in DOMAIN queue /\ cursor \in Nat \ {0} /\ MintsFresh /\ BodyFresh /\ Running
    BY HeadType DEF TypeOK, ForwardInv, Running
  <1>2. /\ Len(tx.inputs) \in Nat /\ DOMAIN tx.inputs = 1..Len(tx.inputs)
        /\ tx.inputs = <<>> <=> Len(tx.inputs) = 0
        /\ i \in Nat \ {0}
    BY <1>1, TransactionFacts
  <1>3. i + Len(tx.inputs) = cursor
    BY <1>1, <1>2
  <1> HIDE DEF i
  <1>4. ~Used(tree, pending_updates, <<tx.id, i>>)
    <2>1. CASE tx.inputs = <<>>
      <3>1. i >= cursor
        BY <1>1, <1>2, <1>3, <2>1
      <3> QED BY <1>1, <2>1, <3>1 DEF MintsFresh
    <2>2. CASE tx.inputs # <<>>
      <3>1. cursor > 1 /\ i >= cursor - Len(tx.inputs)
        BY <1>1, <1>2, <1>3, <2>2
      <3> QED BY <1>1, <2>2, <3>1 DEF BodyFresh
    <2> QED BY <2>1, <2>2
  <1>5. \A j \in DOMAIN tx.inputs : j < cursor
    BY <1>1, <1>2, <1>3
  <1>6. \A j \in DOMAIN tx.inputs :
          utxo[tx.inputs[j]] = None /\ Used(tree, pending_updates, tx.inputs[j])
    BY <1>1, <1>5 DEF BodyFresh
  <1> QED BY <1>4, <1>6

\* Creating an output.
LEMMA CreateForward ==
  ASSUME ForwardWorkload, TypeOK, ForwardInv, CreateOutput
  PROVE  ForwardInv'
PROOF
  <1> DEFINE tx == Head(queue)
             i  == cursor - Len(tx.inputs)
             op == <<tx.id, i>>
  <1>0. /\ phase = "body" /\ i \in DOMAIN tx.outputs /\ queue # <<>> /\ tx \in Transactions
        /\ utxo \in Coins /\ cursor \in Nat \ {0}
        /\ queue \in Seq(Transactions) /\ queue[1] = tx /\ 1 \in DOMAIN queue
    BY HeadType DEF CreateOutput, TypeOK
  <1>1. /\ utxo' = [utxo EXCEPT ![op] = tx.outputs[i]]
        /\ pending_updates' = WithUpdate(pending_updates, KeyOf[op], tx.outputs[i])
        /\ cursor' = cursor + 1 /\ phase' = "body"
        /\ UNCHANGED <<tree, queue, saved, prune_markers>>
    BY <1>0 DEF CreateOutput
  <1>2. Sound(tree, pending_updates, utxo) /\ MintsFresh /\ BodyFresh
    BY <1>0 DEF ForwardInv, BlockUpdates, Running
  <1>3. /\ Len(tx.inputs) \in Nat /\ DOMAIN tx.inputs = 1..Len(tx.inputs)
        /\ tx.inputs = <<>> <=> Len(tx.inputs) = 0
        /\ \A n \in DOMAIN tx.outputs : n \in Nat \ {0}
        /\ \A j \in DOMAIN tx.inputs : tx.inputs[j] \in OutPoint
        /\ op \in OutPoint /\ i + Len(tx.inputs) = cursor
    <2>1. /\ Len(tx.inputs) \in Nat /\ DOMAIN tx.inputs = 1..Len(tx.inputs)
          /\ tx.inputs = <<>> <=> Len(tx.inputs) = 0
          /\ \A n \in DOMAIN tx.outputs : n \in Nat \ {0} /\ <<tx.id, n>> \in OutPoint
          /\ \A j \in DOMAIN tx.inputs : tx.inputs[j] \in OutPoint
      BY <1>0, TransactionFacts
    <2>2. i + Len(tx.inputs) = cursor
      BY <1>0, <2>1
    <2> HIDE DEF tx, i
    <2> QED BY <1>0, <2>1, <2>2
  <1>4. /\ ~Used(tree, pending_updates, op)
        /\ \A j \in DOMAIN tx.inputs :
             utxo[tx.inputs[j]] = None /\ Used(tree, pending_updates, tx.inputs[j])
    BY <1>0, NextOutputFresh
  <1>5. /\ Sound(tree, pending_updates', utxo')
        /\ \A x \in OutPoint : Used(tree, pending_updates', x)
                                 <=> x = op \/ Used(tree, pending_updates, x)
    BY <1>0, <1>1, <1>2, <1>4, CreateIsSound
  <1>6. \A y \in Transactions : \A n \in DOMAIN y.outputs : <<y.id, n>> = op => y = tx /\ n = i
    BY <1>0 DEF ForwardWorkload
  <1>7. MintsFresh'
    <2>1. ASSUME NEW n \in DOMAIN queue, queue[n].inputs = <<>>, NEW m \in DOMAIN queue[n].outputs,
                 n = 1 => m >= cursor + 1
          PROVE  ~Used(tree, pending_updates', <<queue[n].id, m>>)
      <3>1. queue[n] \in Transactions
        BY <1>0
      <3>2. <<queue[n].id, m>> \in OutPoint /\ m \in Nat
        BY <3>1, TransactionFacts
      <3>3. ~Used(tree, pending_updates, <<queue[n].id, m>>)
        <4>1. n = 1 => m >= cursor
          BY <1>0, <2>1, <3>2
        <4> QED BY <1>0, <1>2, <2>1, <4>1 DEF MintsFresh, Running
      <3>4. <<queue[n].id, m>> # op
        <4>1. SUFFICES ASSUME <<queue[n].id, m>> = op PROVE FALSE
          OBVIOUS
        <4>2. queue[n] = queue[1] /\ m = i
          BY <1>0, <1>6, <3>1, <4>1
        <4>3. n = 1
          BY <1>0, <1>2, <2>1, <4>2 DEF MintsFresh, Running
        <4>4. Len(tx.inputs) = 0
          BY <1>0, <1>3, <2>1, <4>2
        <4>5. i \in Nat /\ i >= cursor + 1 /\ i + 0 = cursor
          BY <1>0, <1>3, <2>1, <4>2, <4>3, <4>4
        <4> HIDE DEF i
        <4> QED BY <1>0, <4>5
      <3> QED BY <1>5, <3>2, <3>3, <3>4
    <2>2. \A m, n \in DOMAIN queue : queue[n].inputs = <<>> /\ queue[m] = queue[n] => m = n
      BY <1>0, <1>2 DEF MintsFresh, Running
    <2> HIDE DEF tx, i, op
    <2> QED BY <1>1, <2>1, <2>2 DEF MintsFresh
  <1>8. BodyFresh'
    <2>1. ASSUME NEW j \in DOMAIN tx.inputs
          PROVE  utxo'[tx.inputs[j]] = None /\ Used(tree, pending_updates', tx.inputs[j])
      <3>1. tx.inputs[j] \in OutPoint /\ tx.inputs[j] # op
        BY <1>3, <1>4
      <3>2. utxo[tx.inputs[j]] = None /\ Used(tree, pending_updates, tx.inputs[j])
        BY <1>4
      <3>3. Used(tree, pending_updates', tx.inputs[j])
        BY <1>5, <3>1, <3>2
      <3> HIDE DEF tx, op
      <3> QED BY <1>0, <1>1, <3>1, <3>2, <3>3 DEF Coins
    <2>2. ASSUME NEW m \in DOMAIN tx.outputs, m >= cursor + 1 - Len(tx.inputs), tx.inputs # <<>>
          PROVE  ~Used(tree, pending_updates', <<tx.id, m>>)
      <3>1. <<tx.id, m>> \in OutPoint /\ m \in Nat
        BY <1>0, TransactionFacts
      <3>2. m # i /\ m >= cursor - Len(tx.inputs) /\ cursor > 1
        BY <1>0, <1>3, <2>2, <3>1
      <3>3. ~Used(tree, pending_updates, <<tx.id, m>>)
        BY <1>0, <1>2, <2>2, <3>2 DEF BodyFresh
      <3> QED BY <1>5, <3>1, <3>2, <3>3
    <2>3. cursor' - Len(tx.inputs) = cursor + 1 - Len(tx.inputs)
      BY <1>0, <1>1, <1>3
    <2> HIDE DEF i, op
    <2> QED BY <1>1, <2>1, <2>2, <2>3 DEF BodyFresh
  <1>9. BlockUpdates' = pending_updates' /\ phase' # "failed" /\ InBlock
    BY <1>0, <1>1 DEF BlockUpdates, Running, InBlock
  <1>10. Sound(tree', BlockUpdates', utxo')
    BY <1>1, <1>5, <1>9
  <1> HIDE DEF tx, i, op
  <1> QED BY <1>0, <1>1, <1>7, <1>8, <1>9, <1>10 DEF ForwardInv, MarkedAreMarkable, InBlock

\* Going on to the next transaction.
LEMMA EndForward ==
  ASSUME TypeOK, ForwardInv, EndTransaction
  PROVE  ForwardInv'
PROOF
  <1>0. /\ phase = "body" /\ phase' = "tx" /\ queue' = Tail(queue) /\ queue # <<>>
        /\ queue \in Seq(Transactions) /\ MintsFresh
        /\ UNCHANGED <<tree, pending_updates, utxo, prune_markers, saved>>
    BY DEF EndTransaction, TypeOK, ForwardInv, manager, tally, coins
  <1>1. /\ Tail(queue) \in Seq(Transactions) /\ Len(Tail(queue)) = Len(queue) - 1
        /\ \A n \in 1..Len(Tail(queue)) : Tail(queue)[n] = queue[n + 1]
    BY <1>0, HeadTailProperties
  <1>2. ASSUME NEW n \in DOMAIN queue'
        PROVE  n \in Nat /\ n + 1 # 1 /\ n + 1 \in DOMAIN queue /\ queue'[n] = queue[n + 1]
    <2>1. n \in 1..Len(Tail(queue)) /\ Len(queue) \in Nat /\ DOMAIN queue = 1..Len(queue)
      BY <1>0, <1>1, <1>2
    <2> QED BY <1>0, <1>1, <2>1
  <1>3. MintsFresh'
    <2>1. ASSUME NEW n \in DOMAIN queue', queue'[n].inputs = <<>>, NEW m \in DOMAIN queue',
                 queue'[m] = queue'[n]
          PROVE  m = n
      <3>1. m + 1 = n + 1
        BY <1>0, <1>2, <2>1 DEF MintsFresh, Running
      <3> QED BY <1>2, <3>1
    <2>2. ASSUME NEW n \in DOMAIN queue', queue'[n].inputs = <<>>, NEW i \in DOMAIN queue'[n].outputs
          PROVE  ~Used(tree, pending_updates, <<queue'[n].id, i>>)
      <3>1. /\ n + 1 \in DOMAIN queue /\ queue[n + 1].inputs = <<>> /\ n + 1 # 1
            /\ i \in DOMAIN queue[n + 1].outputs /\ queue'[n] = queue[n + 1]
        BY <1>2, <2>2
      <3> QED BY <1>0, <3>1 DEF MintsFresh, Running
    <2> QED BY <1>0, <2>1, <2>2 DEF MintsFresh
  <1>4. BodyFresh' /\ BlockUpdates' = pending_updates /\ BlockUpdates = pending_updates
        /\ InBlock /\ InBlock' /\ phase # "failed" /\ phase' # "failed"
    BY <1>0 DEF BodyFresh, BlockUpdates, Running, InBlock
  <1> QED BY <1>0, <1>3, <1>4 DEF ForwardInv, MarkedAreMarkable

\* A committed block leaves a sound state with nothing pending.
LEMMA CommitForward ==
  ASSUME ForwardWorkload, TypeOK, ForwardInv, CommitBlock
  PROVE  ForwardInv'
PROOF
  <1> DEFINE batch == WithSupply(pending_updates, current_total_supply)
  <1>0. /\ phase = "tx" /\ phase' = "idle"
        /\ tree' = [tree EXCEPT !.nodes = InsertAll(@, batch)]
        /\ UNCHANGED <<utxo, prune_markers>>
    BY DEF CommitBlock, WriteTransition, coins
  <1>1. /\ Sound(tree, pending_updates, utxo) /\ CutsMarked(tree.nodes, tree.pruned_keys)
        /\ tree \in TreeType /\ pending_updates \in Updates /\ current_total_supply \in Nat
    BY <1>0 DEF ForwardInv, BlockUpdates, Running, TypeOK
  <1>2. Sound(tree', NoUpdates, utxo)
    BY <1>0, <1>1, CommitIsSound
  <1>3. CutsMarked(tree'.nodes, tree'.pruned_keys)
    <2>1. /\ DOMAIN batch \subseteq Key /\ \A k \in DOMAIN batch : batch[k] \in Value
      BY <1>1, UpdatesType, WithSupplyType
    <2>2. /\ tree'.pruned_keys = tree.pruned_keys /\ tree'.nodes = InsertAll(tree.nodes, batch)
          /\ tree.nodes \in Storage /\ tree.pruned_keys \subseteq Path
      BY <1>0, <1>1 DEF TreeType
    <2> HIDE DEF batch
    <2> QED BY <1>1, <2>1, <2>2, WriteKeepsCuts
  <1> QED BY <1>0, <1>2, <1>3
      DEF ForwardInv, BlockUpdates, Running, InBlock, MintsFresh, BodyFresh, MarkedAreMarkable

\* A failed block leaves the state that was sound when it began.
LEMMA AbortForward ==
  ASSUME ForwardInv, AbortBlock
  PROVE  ForwardInv'
PROOF
  BY DEF AbortBlock, RestoreManager, ForwardInv, InBlock, BlockUpdates, Running, MintsFresh,
         BodyFresh, MarkedAreMarkable

\* Between blocks: marking, and the steps of a pruning cycle.
LEMMA PruneForward ==
  ASSUME ForwardWorkload, Inv, ForwardInv,
         \/ \E op \in Markable, epoch \in Epoch : MarkOutpointForPruning(op, epoch)
         \/ \E threshold \in Epoch : BeginPruning(threshold)
         \/ \E op \in OutPoint : PruneNext(op)
  PROVE  ForwardInv'
PROOF
  <1>0. /\ phase \in {"idle", "pruning"} /\ phase' \in {"idle", "pruning"}
        /\ TypeOK /\ CoinsAgree /\ PruneListMarked
        /\ utxo \in Coins /\ prune_markers \in Markers /\ tree \in TreeType
    BY DEF MarkOutpointForPruning, BeginPruning, PruneNext, control, Inv, TypeOK
  <1>1. /\ Sound(tree, NoUpdates, utxo) /\ CutsMarked(tree.nodes, tree.pruned_keys)
        /\ MarkedAreMarkable(prune_markers)
    BY <1>0 DEF ForwardInv, BlockUpdates, Running
  <1>2. SUFFICES /\ Sound(tree', NoUpdates, utxo') /\ CutsMarked(tree'.nodes, tree'.pruned_keys)
                 /\ MarkedAreMarkable(prune_markers')
    BY <1>0 DEF ForwardInv, BlockUpdates, Running, InBlock, MintsFresh, BodyFresh, MarkedAreMarkable
  <1>3. ASSUME NEW op \in Markable, NEW epoch \in Epoch, MarkOutpointForPruning(op, epoch)
        PROVE  /\ Sound(tree', NoUpdates, utxo') /\ CutsMarked(tree'.nodes, tree'.pruned_keys)
               /\ MarkedAreMarkable(prune_markers')
    BY <1>0, <1>1, <1>3 DEF MarkOutpointForPruning, MarkedAreMarkable, Markers
  <1>4. ASSUME UNCHANGED <<tree, utxo, prune_markers>>
        PROVE  /\ Sound(tree', NoUpdates, utxo') /\ CutsMarked(tree'.nodes, tree'.pruned_keys)
               /\ MarkedAreMarkable(prune_markers')
    BY <1>1, <1>4
  <1>5. ASSUME NEW op \in OutPoint, PruneNext(op), ForgetCoin(op)
        PROVE  /\ Sound(tree', NoUpdates, utxo') /\ CutsMarked(tree'.nodes, tree'.pruned_keys)
               /\ MarkedAreMarkable(prune_markers')
    <2>1. /\ outpoint_to_key[op] = KeyOf[op] /\ utxo[op] # None
          /\ tree' = PruneKey(tree, KeyOf[op])
          /\ prune_markers' = [prune_markers EXCEPT ![op] = None]
          /\ utxo' = [utxo EXCEPT ![op] = None]
      BY <1>0, <1>5 DEF ForgetCoin, PruneOutpoint, CoinsAgree
    <2>2. op \in Markable
      BY <1>0, <1>1, <1>5 DEF PruneNext, PruneListMarked, MarkedAreMarkable
    <2>3. Sound(tree', NoUpdates, utxo')
      BY <1>0, <1>1, <2>1, <2>2, PruneIsSound
    <2>4. CutsMarked(tree'.nodes, tree'.pruned_keys)
      BY <1>0, <1>1, <2>1, TreeCuts, TransactionAssumption
    <2>5. MarkedAreMarkable(prune_markers')
      BY <1>0, <1>1, <2>1 DEF MarkedAreMarkable, Markers
    <2> QED BY <2>3, <2>4, <2>5
  <1>6. ASSUME NEW threshold \in Epoch, BeginPruning(threshold)
        PROVE  UNCHANGED <<tree, utxo, prune_markers>>
    BY <1>6 DEF BeginPruning, manager, coins
  <1>7. ASSUME NEW op \in OutPoint, PruneNext(op), ~ForgetCoin(op)
        PROVE  UNCHANGED <<tree, utxo, prune_markers>>
    BY <1>7 DEF PruneNext, SkipOutpoint, FailCycle, coins
  <1> QED BY <1>3, <1>4, <1>5, <1>6, <1>7

\* Every step keeps the invariant.
LEMMA StepForward ==
  ASSUME ForwardWorkload, Inv, ForwardInv, [Next]_vars
  PROVE  ForwardInv'
PROOF
  <1>0. TypeOK /\ Calls \subseteq {"validate_and_apply_block", "prune"}
    BY DEF Inv, ForwardWorkload
  <1>1. ASSUME NEW txs \in Blocks, ApplyBlock(txs) \/ ValidateAndApplyBlock(txs)
        PROVE  ForwardInv'
    <2>1. Validated(txs) /\ BeginBlock(txs)
      BY <1>0, <1>1 DEF ApplyBlock, ValidateAndApplyBlock
    <2> QED BY <1>0, <2>1, BeginForward
  <1>2. CASE BlockStep
    <2>0. ASSUME phase \in {"tx", "vm"}, UNCHANGED tree
          PROVE  SameCoinLeaves(tree, tree') /\ CutsMarked(tree'.nodes, tree'.pruned_keys)
      BY <2>0 DEF ForwardInv, SameCoinLeaves
    <2>1. CASE StartUtxoTransaction
      BY <1>0, <2>0, <2>1, QuietForward DEF StartUtxoTransaction, manager, coins, tally
    <2>2. CASE StartContract
      BY <1>0, <2>0, <2>2, QuietForward DEF StartContract, manager, coins, tally
    <2>3. CASE \E fee \in Fees : ContractReturns(fee)
      BY <1>0, <2>0, <2>3, QuietForward DEF ContractReturns, coins, TypeOK
    <2>4. ASSUME NEW k \in ContractKeys, NEW v \in ContractData, HostWrite(k, v)
          PROVE  ForwardInv'
      <3>1. /\ tree' = [tree EXCEPT !.nodes = InsertLeaf(@, k, v)] /\ phase = "vm"
            /\ tree \in TreeType /\ k \in Key /\ v \in Data /\ v \in Value
            /\ UNCHANGED <<phase, queue, saved, prune_markers, utxo, pending_updates>>
        BY <1>0, <2>4, ContractAssumption DEF HostWrite, TypeOK, Value, coins, tally, control
      <3>2. SameCoinLeaves(tree, tree')
        BY <3>1, ContractKeepsCoins
      <3>3. CutsMarked(tree'.nodes, tree'.pruned_keys)
        BY <3>1, TreeCuts DEF ForwardInv
      <3> QED BY <1>0, <3>1, <3>2, <3>3, QuietForward
    <2>5. ASSUME NEW k \in ContractKeys, HostSelfDestruct(k)
          PROVE  ForwardInv'
      <3>1. /\ tree' = PruneKey(tree, k) /\ phase = "vm"
            /\ tree \in TreeType /\ k \in Key
            /\ UNCHANGED <<phase, queue, saved, prune_markers, utxo, pending_updates>>
        BY <1>0, <2>5, ContractAssumption DEF HostSelfDestruct, TypeOK, coins, tally, control
      <3>2. SameCoinLeaves(tree, tree')
        BY <3>1, ContractKeepsCoins
      <3>3. CutsMarked(tree'.nodes, tree'.pruned_keys)
        BY <3>1, TreeCuts DEF ForwardInv
      <3> QED BY <1>0, <3>1, <3>2, <3>3, QuietForward
    <2>6. CASE RefuseContract \/ ContractFails \/ RefuseBurn \/ RefuseSupply
      BY <2>6, FailForward DEF RefuseContract, ContractFails, RefuseBurn, RefuseSupply,
          WriteTransition, InBlock, manager, coins
    <2>7. CASE SpendInput
      BY <1>0, <2>7, SpendForward
    <2>8. CASE CreateOutput
      BY <1>0, <2>8, CreateForward
    <2>9. CASE EndTransaction
      BY <1>0, <2>9, EndForward
    <2>10. CASE CommitBlock
      BY <1>0, <2>10, CommitForward
    <2>11. CASE AbortBlock
      BY <2>11, AbortForward
    <2> QED BY <1>2, <2>1, <2>2, <2>3, <2>4, <2>5, <2>6, <2>7, <2>8, <2>9, <2>10, <2>11
        DEF BlockStep
  <1>3. ASSUME NEW height \in 0..current_height,
               RollbackState(height) \/ Rollback(height) \/ RestoreFromSnapshot(height)
        PROVE  ForwardInv'
    BY <1>0, <1>3 DEF RollbackState, Rollback, RestoreFromSnapshot
  <1>4. CASE \/ \E op \in Markable, epoch \in Epoch : MarkOutpointForPruning(op, epoch)
             \/ \E threshold \in Epoch : BeginPruning(threshold)
             \/ \E op \in OutPoint : PruneNext(op)
    BY <1>4, PruneForward
  <1>5. CASE UNCHANGED vars
    BY <1>5 DEF vars, manager, tally, coins, control, ForwardInv, InBlock, BlockUpdates, Running,
        MintsFresh, BodyFresh, MarkedAreMarkable
  <1> QED BY <1>1, <1>2, <1>3, <1>4, <1>5 DEF Next

\* No block that passed validation replaces a coin by another.
LEMMA FreshFromForward == TypeOK /\ ForwardInv => OutputsFresh
PROOF
  <1> DEFINE tx == Head(queue)
             i  == cursor - Len(tx.inputs)
  <1> SUFFICES ASSUME TypeOK, ForwardInv, phase = "body", i \in DOMAIN tx.outputs
               PROVE  utxo[<<tx.id, i>>] = None
    BY DEF OutputsFresh
  <1>1. ~Used(tree, pending_updates, <<tx.id, i>>)
    BY NextOutputFresh
  <1>2. /\ LeavesHold(tree, pending_updates, utxo) /\ utxo \in Coins
        /\ <<tx.id, i>> \in OutPoint
    BY HeadType DEF ForwardInv, BlockUpdates, Running, Sound, TypeOK
  <1> QED BY <1>1, <1>2, UnspentIsUsed

\* Between blocks the leaf of every coin is readable and, revived paths apart, bound.
LEMMA BackedFromForward == TypeOK /\ ForwardInv => UtxoBacked
PROOF
  <1> SUFFICES ASSUME TypeOK, ForwardInv, phase \in {"idle", "pruning"},
                      NEW op \in OutPoint, utxo[op] # None
               PROVE  /\ ReadsValue(KeyOf[op]) /\ tree.nodes[KeyOf[op]] = utxo[op]
                      /\ <<KeyOf[op], utxo[op]>> \in RootOf(tree.nodes) \/ Revived(KeyOf[op])
    BY DEF UtxoBacked
  <1>1. /\ LeavesHold(tree, NoUpdates, utxo) /\ CutsMarked(tree.nodes, tree.pruned_keys)
        /\ KeyOf[op] \in Key /\ tree.nodes \in Storage /\ utxo[op] \in Output
    BY TransactionAssumption DEF ForwardInv, BlockUpdates, Running, Sound, TypeOK, TreeType, Coins
  <1>2. KeyOf[op] \notin tree.pruned_keys /\ tree.nodes[KeyOf[op]] = utxo[op]
    BY <1>1 DEF LeavesHold, Leaf, NoUpdates
  <1>3. HasValue(tree.nodes, KeyOf[op])
    BY <1>1, <1>2, OutputFacts DEF HasValue
  <1>4. ReadsValue(KeyOf[op])
    BY <1>2, <1>3 DEF ReadsValue, Get
  <1>5. CASE ~Revived(KeyOf[op])
    <2>1. \A r \in tree.pruned_keys : ~(IsPrefix(r, KeyOf[op]) /\ NodeExists(tree.nodes, r))
      BY <1>5 DEF Revived
    <2>2. <<KeyOf[op], tree.nodes[KeyOf[op]]>> \in RootOf(tree.nodes)
      BY <1>1, <1>3, <2>1, BoundUnlessRevived
    <2> QED BY <1>2, <1>4, <2>2
  <1> QED BY <1>2, <1>4, <1>5

\* The invariant of the forward workload.
LEMMA ForwardInvariant ==
  ASSUME ForwardWorkload
  PROVE  Spec => [](TypeOK /\ ForwardInv)
PROOF
  <1>1. Inv /\ ForwardInv /\ [Next]_vars => ForwardInv'
    BY StepForward
  <1>2. Inv => TypeOK
    BY DEF Inv
  <1> QED BY InitForward, Invariant, <1>1, <1>2, PTL DEF Spec

\* For every forward workload, no block that passed validation creates an
\* output that is unspent: validation needs to look at the tree only.
THEOREM CoinsNeverReplaced ==
  ASSUME ForwardWorkload
  PROVE  Spec => []OutputsFresh
PROOF
  BY ForwardInvariant, FreshFromForward, PTL

\* For every forward workload, every coin stays spendable: what the UTXO set
\* holds can be read from the tree, whatever was pruned around it.
THEOREM CoinsStayBacked ==
  ASSUME ForwardWorkload
  PROVE  Spec => []UtxoBacked
PROOF
  BY ForwardInvariant, BackedFromForward, PTL

-----------------------------------------------------------------------------
(* Sums over a finite set. *)

\* The element that a fold takes out of a set.
Chosen(s) == CHOOSE x \in s : TRUE

\* The equation that defines the recursive function of MapThenFoldSet for a sum.
SumSolves(g, f, S) ==
  g = [s \in SUBSET S |-> IF s = {} THEN 0 ELSE f[Chosen(s)] + g[s \ {Chosen(s)}]]

\* A sum is the value of that function at the whole domain.
LEMMA SumIs ==
  ASSUME NEW S, NEW f, DOMAIN f = S
  PROVE  SumFunction(f) = (CHOOSE g : SumSolves(g, f, S))[S]
PROOF
  BY Zenon DEF SumFunction, SumFunctionOnSet, FoldFunctionOnSet, MapThenFoldSet, SumSolves, Chosen

\* Taking the chosen element out makes a finite set smaller.
LEMMA ChosenFacts ==
  ASSUME NEW S, IsFiniteSet(S), NEW s \in SUBSET S
  PROVE  /\ IsFiniteSet(s) /\ Cardinality(s) \in Nat
         /\ s # {} => /\ Chosen(s) \in s /\ s \ {Chosen(s)} \in SUBSET S
                      /\ Cardinality(s \ {Chosen(s)}) = Cardinality(s) - 1
                      /\ Cardinality(s) # 0
         /\ Cardinality(s) <= Cardinality(S) /\ Cardinality(S) \in Nat
PROOF
  <1>1. IsFiniteSet(s) /\ Cardinality(s) \in Nat /\ Cardinality(s) <= Cardinality(S)
        /\ Cardinality(S) \in Nat
    BY FS_Subset, FS_CardinalityType
  <1>2. ASSUME s # {} PROVE Chosen(s) \in s
    BY <1>2 DEF Chosen
  <1>3. ASSUME s # {} PROVE Cardinality(s \ {Chosen(s)}) = Cardinality(s) - 1
    BY <1>1, <1>2, <1>3, FS_RemoveElement
  <1>4. ASSUME s # {} PROVE Cardinality(s) # 0
    BY <1>1, <1>4, FS_EmptySet
  <1> QED BY <1>1, <1>2, <1>3, <1>4

\* Induction over the subsets of a finite set.
LEMMA SubsetInduction ==
  ASSUME NEW S, IsFiniteSet(S), NEW T \in SUBSET SUBSET S, {} \in T,
         \A s \in SUBSET S : s # {} /\ s \ {Chosen(s)} \in T => s \in T
  PROVE  T = SUBSET S
PROOF
  <1> DEFINE sizes == {n \in Nat : \E s \in (SUBSET S) \ T : Cardinality(s) = n}
  <1>1. SUFFICES ASSUME (SUBSET S) \ T # {} PROVE FALSE
    OBVIOUS
  <1>2. sizes # {} /\ sizes \in SUBSET Nat
    <2>1. PICK s \in SUBSET S : s \notin T
      BY <1>1
    <2>2. Cardinality(s) \in Nat
      BY ChosenFacts
    <2> QED BY <2>1, <2>2
  <1>3. PICK n \in sizes : \A m \in sizes : n <= m
    BY <1>2, LeastNat
  <1>4. PICK s \in (SUBSET S) \ T : Cardinality(s) = n
    BY <1>3
  <1>5. /\ s # {} /\ s \ {Chosen(s)} \in (SUBSET S) \ T
        /\ Cardinality(s \ {Chosen(s)}) = n - 1 /\ n \in Nat /\ n # 0
    <2>1. s \in SUBSET S /\ s \notin T /\ s # {}
      BY <1>4
    <2>2. /\ s \ {Chosen(s)} \in SUBSET S /\ Cardinality(s \ {Chosen(s)}) = Cardinality(s) - 1
          /\ Cardinality(s) # 0 /\ Cardinality(s) \in Nat
      BY <2>1, ChosenFacts
    <2> QED BY <1>4, <2>1, <2>2
  <1>6. n - 1 \in sizes
    BY <1>5
  <1> HIDE DEF sizes
  <1> QED BY <1>3, <1>5, <1>6

\* The sum of a function over the subsets of its domain.
LEMMA SumExists ==
  ASSUME NEW S, IsFiniteSet(S), NEW f \in [S -> Nat]
  PROVE  \E g : SumSolves(g, f, S)
PROOF
  <1> DEFINE X == [SUBSET S -> Nat]
             Right(h, s) == IF s = {} THEN 0 ELSE f[Chosen(s)] + h[s \ {Chosen(s)}]
             Upto(h, n) == \A s \in SUBSET S : Cardinality(s) <= n => h[s] = Right(h, s)
             bad == {n \in Nat : ~\E h \in X : Upto(h, n)}
  <1>1. ASSUME NEW h \in X, NEW s \in SUBSET S PROVE Right(h, s) \in Nat
    <2>1. CASE s = {}
      BY <2>1
    <2>2. CASE s # {}
      <3>1. f[Chosen(s)] \in Nat /\ h[s \ {Chosen(s)}] \in Nat
        BY <2>2, ChosenFacts
      <3> QED BY <2>2, <3>1
    <2> QED BY <2>1, <2>2
  <1>2. 0 \notin bad
    <2> DEFINE h == [s \in SUBSET S |-> 0]
    <2>1. h \in X
      OBVIOUS
    <2>2. ASSUME NEW s \in SUBSET S, Cardinality(s) <= 0 PROVE s = {}
      <3>1. IsFiniteSet(s) /\ Cardinality(s) \in Nat
        BY ChosenFacts
      <3>2. Cardinality(s) = 0
        BY <2>2, <3>1
      <3> QED BY <3>1, <3>2, FS_EmptySet
    <2>3. Upto(h, 0)
      BY <2>2
    <2> QED BY <2>1, <2>3
  <1>3. ASSUME NEW n \in Nat, n \notin bad PROVE n + 1 \notin bad
    <2>1. PICK h \in X : Upto(h, n)
      BY <1>3
    <2> DEFINE next == [s \in SUBSET S |-> Right(h, s)]
    <2>2. next \in X
      BY <1>1
    <2>3. ASSUME NEW s \in SUBSET S, Cardinality(s) <= n PROVE next[s] = h[s]
      BY <2>1, <2>3
    <2>4. ASSUME NEW s \in SUBSET S, Cardinality(s) <= n + 1 PROVE next[s] = Right(next, s)
      <3>1. CASE s = {}
        BY <3>1
      <3>2. CASE s # {}
        <4>1. s \ {Chosen(s)} \in SUBSET S /\ Cardinality(s \ {Chosen(s)}) <= n
          BY <2>4, <3>2, ChosenFacts
        <4>2. next[s \ {Chosen(s)}] = h[s \ {Chosen(s)}]
          BY <2>3, <4>1
        <4> QED BY <3>2, <4>2
      <3> QED BY <3>1, <3>2
    <2> HIDE DEF next, Right
    <2> QED BY <2>2, <2>4
  <1>4. bad = {}
    <2>1. SUFFICES ASSUME bad # {} PROVE FALSE
      OBVIOUS
    <2>2. bad \in SUBSET Nat
      OBVIOUS
    <2> HIDE DEF bad
    <2>3. PICK n \in bad : \A m \in bad : n <= m
      BY <2>1, <2>2, LeastNat
    <2>4. n \in Nat /\ n # 0
      BY <1>2, <2>2, <2>3
    <2>5. n - 1 \in Nat /\ n - 1 \notin bad /\ (n - 1) + 1 = n
      BY <2>3, <2>4
    <2> QED BY <1>3, <2>3, <2>5
  <1>5. PICK h \in X : Upto(h, Cardinality(S))
    <2>1. Cardinality(S) \in Nat
      BY FS_CardinalityType
    <2> QED BY <1>4, <2>1
  <1>6. \A s \in SUBSET S : h[s] = Right(h, s)
    BY <1>5, ChosenFacts
  <1>7. SumSolves(h, f, S)
    <2>1. h = [s \in SUBSET S |-> h[s]]
      OBVIOUS
    <2> QED BY <1>6, <2>1, Zenon DEF SumSolves
  <1> QED BY <1>7

\* A sum is a natural number, at least each of its terms, and changes by as much
\* as one of its terms does when the others stay.
LEMMA SumChange ==
  ASSUME NEW S, IsFiniteSet(S), NEW f \in [S -> Nat], NEW g \in [S -> Nat],
         NEW a \in S, \A x \in S \ {a} : g[x] = f[x]
  PROVE  /\ SumFunction(f) \in Nat /\ SumFunction(g) \in Nat
         /\ SumFunction(g) - SumFunction(f) = g[a] - f[a]
         /\ SumFunction(f) >= f[a]
PROOF
  <1> DEFINE F == CHOOSE h : SumSolves(h, f, S)
             G == CHOOSE h : SumSolves(h, g, S)
             T == {s \in SUBSET S : /\ F[s] \in Nat /\ G[s] \in Nat
                                    /\ G[s] - F[s] = IF a \in s THEN g[a] - f[a] ELSE 0
                                    /\ a \in s => F[s] >= f[a]}
  <1>1. SumSolves(F, f, S) /\ SumSolves(G, g, S)
    BY SumExists
  <1>2. SumFunction(f) = F[S] /\ SumFunction(g) = G[S]
    BY SumIs
  <1> HIDE DEF F, G
  <1>3. F[{}] = 0 /\ G[{}] = 0
    BY <1>1 DEF SumSolves
  <1>4. \A s \in SUBSET S : s # {} => /\ F[s] = f[Chosen(s)] + F[s \ {Chosen(s)}]
                                      /\ G[s] = g[Chosen(s)] + G[s \ {Chosen(s)}]
    BY <1>1 DEF SumSolves
  <1>5. {} \in T
    BY <1>3
  <1>6. ASSUME NEW s \in SUBSET S, s # {}, s \ {Chosen(s)} \in T PROVE s \in T
    <2> DEFINE x == Chosen(s)
               r == s \ {x}
    <2>1. /\ x \in s /\ x \in S /\ F[s] = f[x] + F[r] /\ G[s] = g[x] + G[r]
          /\ f[x] \in Nat /\ g[x] \in Nat /\ f[a] \in Nat /\ g[a] \in Nat
      BY <1>4, <1>6, ChosenFacts
    <2>2. /\ F[r] \in Nat /\ G[r] \in Nat
          /\ G[r] - F[r] = IF a \in r THEN g[a] - f[a] ELSE 0
          /\ a \in r => F[r] >= f[a]
      BY <1>6
    <2>3. a \in r <=> a \in s /\ a # x
      OBVIOUS
    <2>4. a # x => g[x] = f[x]
      BY <2>1
    <2> HIDE DEF x, r
    <2>5. CASE a = x
      BY <2>1, <2>2, <2>3, <2>5
    <2>6. CASE a # x
      BY <2>1, <2>2, <2>3, <2>4, <2>6
    <2> QED BY <2>5, <2>6
  <1>7. S \in T
    <2>1. T \in SUBSET SUBSET S
      OBVIOUS
    <2> HIDE DEF T
    <2>2. T = SUBSET S
      BY <1>5, <1>6, <2>1, SubsetInduction
    <2> QED BY <2>2
  <1> QED BY <1>2, <1>7

\* A sum of zeros is zero.
LEMMA SumOfZeros ==
  ASSUME NEW S, IsFiniteSet(S), NEW f \in [S -> Nat], \A x \in S : f[x] = 0
  PROVE  SumFunction(f) = 0
PROOF
  <1> DEFINE F == CHOOSE h : SumSolves(h, f, S)
             T == {s \in SUBSET S : F[s] = 0}
  <1>1. SumSolves(F, f, S)
    BY SumExists
  <1>2. SumFunction(f) = F[S]
    BY SumIs
  <1> HIDE DEF F
  <1>3. F[{}] = 0
    BY <1>1 DEF SumSolves
  <1>4. \A s \in SUBSET S : s # {} => F[s] = f[Chosen(s)] + F[s \ {Chosen(s)}]
    BY <1>1 DEF SumSolves
  <1>5. ASSUME NEW s \in SUBSET S, s # {}, s \ {Chosen(s)} \in T PROVE s \in T
    <2>1. Chosen(s) \in S
      BY <1>5, ChosenFacts
    <2>2. F[s] = 0 + 0
      BY <1>4, <1>5, <2>1
    <2> QED BY <2>2
  <1>6. T \in SUBSET SUBSET S /\ {} \in T
    BY <1>3
  <1> HIDE DEF T
  <1>7. T = SUBSET S
    BY <1>5, <1>6, SubsetInduction
  <1> QED BY <1>2, <1>7 DEF T

-----------------------------------------------------------------------------
(* The forward workload: the supply and the coins.                         *)

\* The value of an Option of an output, and of a UTXO set.
Worth(o) == IF o = None THEN 0 ELSE o.value
TotalWorth(u) == SumFunction([op \in OutPoint |-> Worth(u[op])])

\* The supply counts every coin and, after a prune, coins that are gone; a block
\* in progress has not changed the difference.
SupplyInv ==
  /\ current_total_supply >= TotalWorth(utxo)
  /\ "prune" \notin Calls => current_total_supply = TotalWorth(utxo)
  /\ phase = "pruning" => "prune" \in Calls
  /\ InBlock => saved.current_total_supply - TotalWorth(saved.utxo)
                  = current_total_supply - TotalWorth(utxo)

\* The sum the properties speak of.
LEMMA CirculatingIs == Circulating = TotalWorth(utxo)
PROOF
  BY DEF Circulating, TotalWorth, Worth

\* The worth of a UTXO set, and what putting one entry in place does to it.
LEMMA WorthChange ==
  ASSUME IsFiniteSet(OutPoint), NEW u \in Coins, NEW op \in OutPoint,
         NEW o \in Output \cup {None}
  PROVE  /\ TotalWorth(u) \in Nat /\ TotalWorth([u EXCEPT ![op] = o]) \in Nat
         /\ TotalWorth([u EXCEPT ![op] = o]) - TotalWorth(u) = Worth(o) - Worth(u[op])
         /\ TotalWorth(u) >= Worth(u[op])
         /\ Worth(o) \in Nat /\ Worth(u[op]) \in Nat
PROOF
  <1> DEFINE v == [u EXCEPT ![op] = o]
             f == [x \in OutPoint |-> Worth(u[x])]
             g == [x \in OutPoint |-> Worth(v[x])]
  <1>1. \A c \in Output \cup {None} : Worth(c) \in Nat
    BY OutputFacts DEF Worth
  <1>2. /\ \A x \in OutPoint : u[x] \in Output \cup {None} /\ v[x] \in Output \cup {None}
        /\ v[op] = o /\ \A x \in OutPoint \ {op} : v[x] = u[x]
    BY DEF Coins
  <1> HIDE DEF v
  <1>3. f \in [OutPoint -> Nat] /\ g \in [OutPoint -> Nat]
    BY <1>1, <1>2
  <1>4. \A x \in OutPoint \ {op} : g[x] = f[x]
    BY <1>2
  <1>5. f[op] = Worth(u[op]) /\ g[op] = Worth(o)
    BY <1>2
  <1>6. TotalWorth(u) = SumFunction(f) /\ TotalWorth(v) = SumFunction(g)
    BY DEF TotalWorth
  <1> HIDE DEF f, g
  <1>7. /\ SumFunction(f) \in Nat /\ SumFunction(g) \in Nat
        /\ SumFunction(g) - SumFunction(f) = g[op] - f[op]
        /\ SumFunction(f) >= f[op]
    BY <1>3, <1>4, SumChange
  <1>8. TotalWorth(v) \in Nat /\ TotalWorth(v) - TotalWorth(u) = Worth(o) - Worth(u[op])
    BY <1>5, <1>6, <1>7
  <1> QED BY <1>1, <1>2, <1>5, <1>6, <1>7, <1>8 DEF v

\* The worth of any UTXO set is a natural number.
LEMMA WorthType ==
  ASSUME IsFiniteSet(OutPoint), NEW u \in Coins
  PROVE  TotalWorth(u) \in Nat
PROOF
  <1>1. CASE OutPoint = {}
    <2> DEFINE f == [op \in OutPoint |-> Worth(u[op])]
    <2>1. f \in [OutPoint -> Nat] /\ TotalWorth(u) = SumFunction(f)
      BY <1>1 DEF TotalWorth
    <2> HIDE DEF f
    <2>2. SumFunction(f) = 0
      BY <1>1, <2>1, SumOfZeros
    <2> QED BY <2>1, <2>2
  <1>2. CASE OutPoint # {}
    <2>1. PICK op \in OutPoint : TRUE
      BY <1>2
    <2> QED BY <2>1, WorthChange
  <1> QED BY <1>1, <1>2

\* The steps of a forward workload that touch the supply or the coins.
LEMMA SupplySteps ==
  ASSUME ForwardWorkload, [Next]_vars
  PROVE  \/ UNCHANGED <<current_total_supply, utxo>>
         \/ SpendInput \/ CreateOutput \/ AbortBlock
         \/ \E op \in OutPoint : PruneNext(op) /\ ForgetCoin(op)
PROOF
  <1>1. ASSUME NEW txs \in Blocks, ApplyBlock(txs) \/ ValidateAndApplyBlock(txs)
        PROVE  UNCHANGED <<current_total_supply, utxo>>
    BY <1>1 DEF ApplyBlock, ValidateAndApplyBlock, BeginBlock, coins
  <1>2. ASSUME BlockStep
        PROVE  UNCHANGED <<current_total_supply, utxo>> \/ SpendInput \/ CreateOutput \/ AbortBlock
    BY <1>2 DEF BlockStep, StartUtxoTransaction, RefuseContract, StartContract, HostWrite,
        HostSelfDestruct, ContractReturns, ContractFails,
        EndTransaction, RefuseBurn, RefuseSupply, CommitBlock, manager, coins, tally
  <1>3. ASSUME NEW height \in 0..current_height,
               RollbackState(height) \/ Rollback(height) \/ RestoreFromSnapshot(height)
        PROVE  FALSE
    BY <1>3 DEF ForwardWorkload, RollbackState, Rollback, RestoreFromSnapshot
  <1>4. ASSUME \/ \E op \in Markable, epoch \in Epoch : MarkOutpointForPruning(op, epoch)
               \/ \E threshold \in Epoch : BeginPruning(threshold)
        PROVE  UNCHANGED <<current_total_supply, utxo>>
    BY <1>4 DEF MarkOutpointForPruning, BeginPruning, manager, coins, tally
  <1>5. ASSUME NEW op \in OutPoint, PruneNext(op), ~ForgetCoin(op)
        PROVE  UNCHANGED <<current_total_supply, utxo>>
    BY <1>5 DEF PruneNext, SkipOutpoint, FailCycle, coins, tally
  <1>6. ASSUME UNCHANGED vars PROVE UNCHANGED <<current_total_supply, utxo>>
    BY <1>6 DEF vars, manager, coins, tally
  <1> QED BY <1>1, <1>2, <1>3, <1>4, <1>5, <1>6 DEF Next

\* Supply and coins move together, except that a pruning cycle forgets coins.
SupplyMoves ==
  IF phase = "pruning"
  THEN current_total_supply' = current_total_supply /\ TotalWorth(utxo') <= TotalWorth(utxo)
  ELSE current_total_supply' - current_total_supply = TotalWorth(utxo') - TotalWorth(utxo)

\* Every step of a forward workload moves them so.
LEMMA SupplyStep ==
  ASSUME ForwardWorkload, IsFiniteSet(OutPoint), Inv, ForwardInv, SupplyInv, [Next]_vars
  PROVE  SupplyMoves
PROOF
  <1>0. /\ TypeOK /\ utxo \in Coins /\ current_total_supply \in Nat
        /\ TotalWorth(utxo) \in Nat
    BY WorthType DEF Inv, TypeOK
  <1>1. CASE UNCHANGED <<current_total_supply, utxo>>
    BY <1>0, <1>1 DEF SupplyMoves
  <1>2. CASE SpendInput
    <2> DEFINE op == Head(queue).inputs[cursor]
               v == utxo[op].value
    <2>1. op \in OutPoint /\ phase = "body"
      BY <1>0, <1>2, HeadType DEF SpendInput, TypeOK
    <2>2. CASE utxo[op] = None
      BY <1>1, <1>2, <2>2 DEF SpendInput
    <2>3. CASE utxo[op] # None
      <3>1. /\ current_total_supply' = SaturatingSub(current_total_supply, v)
            /\ utxo' = [utxo EXCEPT ![op] = None]
        BY <1>2, <2>3 DEF SpendInput
      <3>2. Worth(utxo[op]) = v /\ Worth(None) = 0
        BY <2>3 DEF Worth
      <3>3. /\ TotalWorth(utxo') \in Nat
            /\ TotalWorth(utxo') - TotalWorth(utxo) = Worth(None) - Worth(utxo[op])
            /\ TotalWorth(utxo) >= Worth(utxo[op]) /\ Worth(utxo[op]) \in Nat
        <4> HIDE DEF op
        <4> QED BY <1>0, <2>1, <3>1, WorthChange
      <3>4. /\ TotalWorth(utxo') \in Nat
            /\ TotalWorth(utxo') - TotalWorth(utxo) = 0 - v
            /\ TotalWorth(utxo) >= v /\ v \in Nat
        BY <3>2, <3>3
      <3>5. current_total_supply >= TotalWorth(utxo)
        BY DEF SupplyInv
      <3> HIDE DEF v, op
      <3>6. current_total_supply' = current_total_supply - v
        BY <1>0, <3>1, <3>4, <3>5 DEF SaturatingSub
      <3> QED BY <1>0, <2>1, <3>4, <3>6 DEF SupplyMoves
    <2> QED BY <2>2, <2>3
  <1>3. CASE CreateOutput
    <2> DEFINE tx == Head(queue)
               i  == cursor - Len(tx.inputs)
               op == <<tx.id, i>>
               o  == tx.outputs[i]
    <2>1. /\ phase = "body" /\ i \in DOMAIN tx.outputs /\ tx \in Transactions
          /\ utxo' = [utxo EXCEPT ![op] = o]
          /\ current_total_supply' = current_total_supply + o.value
      BY <1>0, <1>3, HeadType DEF CreateOutput, TypeOK
    <2>2. op \in OutPoint /\ o \in Output /\ o # None
      BY <2>1, TransactionFacts, OutputFacts
    <2>3. ~Used(tree, pending_updates, op)
      BY <1>0, <2>1, NextOutputFresh
    <2>4. LeavesHold(tree, pending_updates, utxo)
      BY <2>1 DEF ForwardInv, BlockUpdates, Running, Sound
    <2> HIDE DEF tx, i, op, o
    <2>5. utxo[op] = None
      BY <1>0, <2>2, <2>3, <2>4, UnspentIsUsed
    <2>6. Worth(utxo[op]) = 0 /\ Worth(o) = o.value
      BY <2>2, <2>5 DEF Worth
    <2>7. /\ TotalWorth(utxo') \in Nat /\ Worth(o) \in Nat
          /\ TotalWorth(utxo') - TotalWorth(utxo) = Worth(o) - Worth(utxo[op])
      BY <1>0, <2>1, <2>2, WorthChange
    <2> QED BY <1>0, <2>1, <2>6, <2>7 DEF SupplyMoves
  <1>4. CASE AbortBlock
    <2>1. /\ phase = "failed" /\ InBlock /\ saved \in SavedType
          /\ utxo' = saved.utxo /\ current_total_supply' = saved.current_total_supply
      BY <1>0, <1>4 DEF AbortBlock, RestoreManager, InBlock, TypeOK
    <2>2. /\ saved.utxo \in Coins /\ saved.current_total_supply \in Nat
      BY <2>1 DEF SavedType
    <2>3. TotalWorth(saved.utxo) \in Nat
      BY <2>2, WorthType
    <2>4. saved.current_total_supply - TotalWorth(saved.utxo)
            = current_total_supply - TotalWorth(utxo)
      BY <2>1 DEF SupplyInv
    <2>5. saved.current_total_supply - current_total_supply
            = TotalWorth(saved.utxo) - TotalWorth(utxo)
      BY <1>0, <2>2, <2>3, <2>4
    <2> QED BY <2>1, <2>5 DEF SupplyMoves
  <1>5. ASSUME NEW op \in OutPoint, PruneNext(op), ForgetCoin(op) PROVE SupplyMoves
    <2>1. /\ phase = "pruning" /\ current_total_supply' = current_total_supply
          /\ utxo' = [utxo EXCEPT ![op] = None]
      BY <1>5 DEF PruneNext, ForgetCoin, tally
    <2>2. Worth(None) = 0
      BY DEF Worth
    <2>3. /\ TotalWorth(utxo') \in Nat /\ Worth(utxo[op]) \in Nat
          /\ TotalWorth(utxo') - TotalWorth(utxo) = Worth(None) - Worth(utxo[op])
      BY <1>0, <2>1, WorthChange
    <2> QED BY <1>0, <2>1, <2>2, <2>3 DEF SupplyMoves
  <1> QED BY <1>1, <1>2, <1>3, <1>4, <1>5, SupplySteps

\* A new state manager has neither supply nor coins.
LEMMA InitSupply ==
  ASSUME IsFiniteSet(OutPoint)
  PROVE  Init => SupplyInv
PROOF
  <1> SUFFICES ASSUME Init PROVE SupplyInv
    OBVIOUS
  <1>1. /\ phase = "idle" /\ current_total_supply = 0 /\ utxo = [op \in OutPoint |-> None]
    BY DEF Init
  <1> DEFINE f == [op \in OutPoint |-> Worth(utxo[op])]
  <1>2. f \in [OutPoint -> Nat] /\ \A op \in OutPoint : f[op] = 0
    BY <1>1 DEF Worth
  <1>3. TotalWorth(utxo) = SumFunction(f)
    BY DEF TotalWorth
  <1> HIDE DEF f
  <1>4. SumFunction(f) = 0
    BY <1>2, SumOfZeros
  <1> QED BY <1>1, <1>3, <1>4 DEF SupplyInv, InBlock

\* Every step keeps the supply above the coins.
LEMMA SupplyInvStep ==
  ASSUME ForwardWorkload, IsFiniteSet(OutPoint), Inv, ForwardInv, SupplyInv, [Next]_vars, TypeOK'
  PROVE  SupplyInv'
PROOF
  <1>0. /\ TypeOK /\ SupplyMoves
        /\ utxo \in Coins /\ current_total_supply \in Nat /\ TotalWorth(utxo) \in Nat
        /\ utxo' \in Coins /\ current_total_supply' \in Nat /\ TotalWorth(utxo') \in Nat
    <2>1. TypeOK /\ utxo \in Coins /\ utxo' \in Coins
          /\ current_total_supply \in Nat /\ current_total_supply' \in Nat
      BY DEF Inv, TypeOK
    <2> QED BY <2>1, SupplyStep, WorthType
  <1>1. current_total_supply' >= TotalWorth(utxo')
    BY <1>0 DEF SupplyMoves, SupplyInv
  <1>2. "prune" \notin Calls => current_total_supply' = TotalWorth(utxo')
    BY <1>0 DEF SupplyMoves, SupplyInv
  <1>3. phase' = "pruning" => "prune" \in Calls
    <2>1. CASE BlockStep
      BY <2>1 DEF BlockStep, StartUtxoTransaction, RefuseContract, StartContract, HostWrite,
          HostSelfDestruct, ContractReturns, ContractFails, SpendInput, CreateOutput,
          EndTransaction, RefuseBurn, RefuseSupply, CommitBlock, AbortBlock, RestoreManager,
          SupplyInv, control
    <2>2. CASE ~BlockStep
      BY <2>2 DEF Next, ApplyBlock, ValidateAndApplyBlock, BeginBlock, RollbackState, Rollback,
          RestoreFromSnapshot, MarkOutpointForPruning, BeginPruning, PruneNext, SupplyInv, control,
          vars
    <2> QED BY <2>1, <2>2
  <1>4. ASSUME InBlock'
        PROVE  saved'.current_total_supply - TotalWorth(saved'.utxo)
                 = current_total_supply' - TotalWorth(utxo')
    <2>1. CASE BlockStep
      <3>1. InBlock /\ saved' = saved /\ phase # "pruning" /\ saved \in SavedType
        BY <1>0, <1>4, <2>1, BlockMarks DEF InBlock, TypeOK
      <3> DEFINE a == saved.current_total_supply
                 b == TotalWorth(saved.utxo)
      <3>2. /\ a - b = current_total_supply - TotalWorth(utxo)
            /\ current_total_supply' - current_total_supply = TotalWorth(utxo') - TotalWorth(utxo)
            /\ a \in Nat /\ b \in Nat
        BY <1>0, <3>1, WorthType DEF SupplyInv, SupplyMoves, SavedType
      <3> HIDE DEF a, b
      <3>3. a - b = current_total_supply' - TotalWorth(utxo')
        BY <1>0, <3>2
      <3> QED BY <3>1, <3>3 DEF a, b
    <2>2. ASSUME NEW txs \in Blocks, BeginBlock(txs)
          PROVE  saved'.current_total_supply - TotalWorth(saved'.utxo)
                   = current_total_supply' - TotalWorth(utxo')
      BY <2>2 DEF BeginBlock, Saved, coins
    <2>3. CASE UNCHANGED vars
      BY <1>4, <2>3 DEF vars, manager, tally, coins, control, SupplyInv, InBlock
    <2> QED BY <1>0, <1>4, <2>1, <2>2, <2>3, OtherSteps
  <1> QED BY <1>1, <1>2, <1>3, <1>4 DEF SupplyInv

\* The invariant of the supply.
LEMMA SupplyInvariant ==
  ASSUME ForwardWorkload, IsFiniteSet(OutPoint)
  PROVE  Spec => [](Inv /\ ForwardInv /\ SupplyInv)
PROOF
  <1>1. Init => SupplyInv
    BY InitSupply
  <1>2. Inv /\ Inv' /\ ForwardInv /\ SupplyInv /\ [Next]_vars => SupplyInv'
    <2>1. Inv' => TypeOK'
      BY DEF Inv
    <2> QED BY <2>1, SupplyInvStep
  <1>3. Inv /\ ForwardInv /\ [Next]_vars => ForwardInv'
    BY StepForward
  <1> QED BY InitForward, Invariant, <1>1, <1>2, <1>3, PTL DEF Spec

\* For every forward workload, no step creates or destroys value in only one of
\* the supply counter and the UTXO set, pruning apart: the saturating
\* subtraction never saturates and no coin is counted twice or lost on abort.
THEOREM ValueAlwaysConserved ==
  ASSUME ForwardWorkload, IsFiniteSet(OutPoint)
  PROVE  Spec => ValueConserved
PROOF
  <1>1. Inv /\ ForwardInv /\ SupplyInv /\ [Next]_vars
          => [phase # "pruning" => current_total_supply' - current_total_supply
                                     = Circulating' - Circulating]_vars
    <2> SUFFICES ASSUME Inv, ForwardInv, SupplyInv, [Next]_vars, phase # "pruning"
                 PROVE  current_total_supply' - current_total_supply = Circulating' - Circulating
      OBVIOUS
    <2>1. Circulating = TotalWorth(utxo) /\ Circulating' = TotalWorth(utxo')
      BY DEF Circulating, TotalWorth, Worth
    <2> QED BY <2>1, SupplyStep DEF SupplyMoves
  <1> QED BY <1>1, SupplyInvariant, PTL DEF Spec, ValueConserved

\* As long as nothing is pruned, the comparison of cross_check_supply_consistency
\* with the UTXO set is right about every state between blocks.
THEOREM SupplyMatchesUntilPruned ==
  ASSUME ForwardWorkload, IsFiniteSet(OutPoint), "prune" \notin Calls
  PROVE  Spec => []SupplyMatchesUtxo
PROOF
  <1>1. SupplyInv => SupplyMatchesUtxo
    BY CirculatingIs DEF SupplyInv, SupplyMatchesUtxo
  <1> QED BY <1>1, SupplyInvariant, PTL

-----------------------------------------------------------------------------
(* The scheduler: its pool and the sequences it is split into. *)

\* What a sorted pool may hold.
U == UNION {{SortedById(p)[i] : i \in DOMAIN p} : p \in Pools}

\* Sorting a pool gives a sequence.
LEMMA SortedSeq ==
  ASSUME NEW p \in Pools
  PROVE  SortedById(p) \in Seq(U)
<1>1. p \in Seq(Transactions)
  BY PoolAssumption
<1>2. DOMAIN p = 1..Len(p) /\ Len(p) \in Nat
  BY <1>1
<1>3. SortedById(p) = [i \in DOMAIN p |-> SortedById(p)[i]]
  BY DEF SortedById
<1>4. \A i \in DOMAIN p : SortedById(p)[i] \in U
  BY DEF U
<1> HIDE DEF U
<1> QED BY <1>2, <1>3, <1>4

-----------------------------------------------------------------------------
(* Sequences and the sets of their members. *)

\* Appending adds one member.
LEMMA SetOfAppend ==
  ASSUME NEW S, NEW s \in Seq(S), NEW x \in S
  PROVE  /\ Append(s, x) \in Seq(S)
         /\ ToSet(Append(s, x)) = ToSet(s) \cup {x}
<1>1. Append(s, x) \in Seq(S) /\ DOMAIN Append(s, x) = 1..Len(s) + 1 /\ Len(s) \in Nat
  OBVIOUS
<1>2. Append(s, x)[Len(s) + 1] = x /\ \A i \in 1..Len(s) : Append(s, x)[i] = s[i]
  OBVIOUS
<1>3. DOMAIN s = 1..Len(s)
  OBVIOUS
<1> QED BY <1>1, <1>2, <1>3 DEF ToSet

\* A sequence that is not empty consists of its head and its tail.
LEMMA SetOfTail ==
  ASSUME NEW S, NEW s \in Seq(S), s # <<>>
  PROVE  /\ Tail(s) \in Seq(S) /\ Head(s) \in ToSet(s) /\ Head(s) \in S
         /\ ToSet(Tail(s)) \subseteq ToSet(s)
<1>1. /\ Tail(s) \in Seq(S) /\ Head(s) = s[1] /\ Len(s) \in Nat /\ Len(s) >= 1
      /\ DOMAIN s = 1..Len(s) /\ DOMAIN Tail(s) = 1..Len(s) - 1
  OBVIOUS
<1>2. \A i \in 1..Len(s) - 1 : Tail(s)[i] = s[i + 1] /\ i + 1 \in 1..Len(s)
  BY <1>1
<1>3. 1 \in DOMAIN s /\ s[1] \in S
  BY <1>1
<1> QED BY <1>1, <1>2, <1>3 DEF ToSet

\* An empty sequence has no members.
LEMMA SetOfEmpty == ToSet(<<>>) = {}
BY DEF ToSet

\* Who waits for a group still does when the group grows.
LEMMA WaitsMore ==
  ASSUME NEW S, NEW s \in Seq(S), NEW x \in S, NEW tx, Waits(tx, s)
  PROVE  Waits(tx, Append(s, x))
<1>1. PICK i \in DOMAIN s : Conflict(s[i], tx)
  BY DEF Waits
<1>2. i \in DOMAIN Append(s, x) /\ Append(s, x)[i] = s[i]
  OBVIOUS
<1> QED BY <1>1, <1>2 DEF Waits

\* A candidate that does not conflict can join the group.
LEMMA GroupGrows ==
  ASSUME NEW S, NEW s \in Seq(S), NEW x \in S, Compatible(s),
         \A i \in DOMAIN s : ~Conflict(s[i], x)
  PROVE  Compatible(Append(s, x))
<1> DEFINE t == Append(s, x)
<1>1. /\ Len(s) \in Nat /\ DOMAIN s = 1..Len(s) /\ DOMAIN t = 1..Len(s) + 1
      /\ t[Len(s) + 1] = x /\ \A i \in 1..Len(s) : t[i] = s[i]
  OBVIOUS
<1> SUFFICES ASSUME NEW i \in DOMAIN t, NEW j \in DOMAIN t, i < j
             PROVE  ~Conflict(t[i], t[j])
  BY DEF Compatible
<1>2. i \in DOMAIN s /\ t[i] = s[i]
  BY <1>1
<1>3. CASE j \in DOMAIN s
  BY <1>1, <1>2, <1>3 DEF Compatible
<1>4. CASE j = Len(s) + 1
  BY <1>1, <1>2, <1>4
<1> HIDE DEF t
<1> QED BY <1>1, <1>3, <1>4

-----------------------------------------------------------------------------
(* Planning. *)

\* Where the scheduler can stand, and of what its lists consist.
PlanTypes ==
  /\ step \in {"idle", "scan", "planned", "between", "execute"}
  /\ remaining \in Seq(U) /\ skipped \in Seq(U) /\ current \in Seq(U)
  /\ groups \in Seq(Seq(U))

\* Transactions are still to be placed during a scan only.
NothingLeft ==
  /\ step # "scan" => remaining = <<>> /\ skipped = <<>> /\ current = <<>>
  /\ step = "idle" => groups = <<>>

NoEmptyGroup == \A g \in DOMAIN groups : groups[g] # <<>>

\* A group stays in the list until it has been executed.
GroupAtHand == step = "execute" => groups # <<>>

PlanInv ==
  PlanTypes /\ NothingLeft /\ NoEmptyGroup /\ GroupAtHand /\ Separated /\ OneGroupRuns

\* It holds at the start.
LEMMA InitPlanInv == SchedulerInit => PlanInv
<1> SUFFICES ASSUME SchedulerInit PROVE PlanInv
  OBVIOUS
<1> USE DEF SchedulerInit
<1>1. PlanTypes
  BY DEF PlanTypes
<1>2. NothingLeft /\ NoEmptyGroup /\ GroupAtHand /\ OneGroupRuns
  BY DEF NothingLeft, NoEmptyGroup, GroupAtHand, OneGroupRuns
<1>3. Separated
  BY DEF Separated, Compatible
<1> QED BY <1>1, <1>2, <1>3 DEF PlanInv

\* The sort is where the values of the plan come from.
LEMMA SchedulePreserves ==
  ASSUME PlanInv, NEW txs \in Pools, Schedule(txs)
  PROVE  PlanInv'
<1> USE DEF Schedule
<1>1. PlanTypes'
  BY SortedSeq DEF PlanInv, PlanTypes
<1>2. groups' = <<>> /\ skipped' = <<>> /\ current' = <<>>
  BY DEF PlanInv, NothingLeft
<1>3. NothingLeft' /\ NoEmptyGroup' /\ GroupAtHand' /\ OneGroupRuns'
  BY <1>2 DEF NothingLeft, NoEmptyGroup, GroupAtHand, OneGroupRuns
<1>4. Separated'
  BY <1>2 DEF Separated, Compatible
<1> QED BY <1>1, <1>3, <1>4 DEF PlanInv

\* What is placed or waiting after a group was so before the candidate was
\* considered: it moves from the remaining ones to the others.
LEMMA ConsiderMoves ==
  ASSUME PlanTypes, Consider, NEW g
  PROVE  After(g)' \subseteq After(g)
<1> USE DEF Consider, PlanTypes
<1>1. /\ Head(remaining) \in U /\ Head(remaining) \in ToSet(remaining)
      /\ ToSet(remaining') \subseteq ToSet(remaining)
  BY SetOfTail
<1>2. /\ ToSet(skipped') \subseteq ToSet(skipped) \cup ToSet(remaining)
      /\ ToSet(current') \subseteq ToSet(current) \cup ToSet(remaining)
  <2>1. \/ skipped' = Append(skipped, Head(remaining)) /\ current' = current
        \/ current' = Append(current, Head(remaining)) /\ skipped' = skipped
    OBVIOUS
  <2>2. /\ ToSet(Append(skipped, Head(remaining))) = ToSet(skipped) \cup {Head(remaining)}
        /\ ToSet(Append(current, Head(remaining))) = ToSet(current) \cup {Head(remaining)}
    BY <1>1, SetOfAppend
  <2> QED BY <1>1, <2>1, <2>2
<1>3. groups' = groups
  OBVIOUS
<1> QED BY <1>1, <1>2, <1>3 DEF After

\* One candidate more is placed or left for later.
LEMMA ConsiderPreserves ==
  ASSUME PlanInv, Consider
  PROVE  PlanInv'
<1> DEFINE x == Head(remaining)
<1>1. PlanTypes /\ Separated
  BY DEF PlanInv
<1>2. x \in U /\ Tail(remaining) \in Seq(U)
  <2>1. remaining \in Seq(U) /\ remaining # <<>>
    BY <1>1 DEF PlanTypes, Consider
  <2> QED BY <2>1, SetOfTail
<1>3. PlanTypes'
  <2>1. \/ skipped' = Append(skipped, x) /\ current' = current
        \/ current' = Append(current, x) /\ skipped' = skipped
    BY DEF Consider
  <2>2. skipped \in Seq(U) /\ current \in Seq(U)
    BY <1>1 DEF PlanTypes
  <2>3. Append(skipped, x) \in Seq(U) /\ Append(current, x) \in Seq(U)
    BY <1>2, <2>2, SetOfAppend
  <2>4. remaining' = Tail(remaining) /\ step' = step /\ groups' = groups
    BY DEF Consider
  <2> QED BY <1>1, <1>2, <2>1, <2>2, <2>3, <2>4 DEF PlanTypes
<1>4. NothingLeft' /\ NoEmptyGroup' /\ GroupAtHand' /\ OneGroupRuns'
  BY DEF Consider, PlanInv, NothingLeft, NoEmptyGroup, GroupAtHand, OneGroupRuns
<1>5. groups' = groups
  BY DEF Consider
<1>6. Compatible(current)' /\ \A i \in DOMAIN skipped' : Waits(skipped'[i], current')
  <2>1. CASE \E i \in DOMAIN current : Conflict(current[i], x)
    <3>1. skipped' = Append(skipped, x) /\ current' = current
      BY <2>1 DEF Consider
    <3>2. \A i \in DOMAIN skipped' :
             (i \in DOMAIN skipped /\ skipped'[i] = skipped[i]) \/ skipped'[i] = x
      BY <1>1, <1>2, <3>1 DEF PlanTypes
    <3>3. Waits(x, current)
      BY <2>1 DEF Waits
    <3>4. \A i \in DOMAIN skipped : Waits(skipped[i], current)
      BY <1>1 DEF Separated
    <3>5. Compatible(current)
      BY <1>1 DEF Separated
    <3> QED BY <3>1, <3>2, <3>3, <3>4, <3>5
  <2>2. CASE ~\E i \in DOMAIN current : Conflict(current[i], x)
    <3>1. skipped' = skipped /\ current' = Append(current, x)
      BY <2>2 DEF Consider
    <3>2. Compatible(current')
      BY <1>1, <1>2, <2>2, <3>1, GroupGrows DEF PlanTypes, Separated
    <3>3. \A i \in DOMAIN skipped : Waits(skipped[i], current')
      BY <1>1, <1>2, <3>1, WaitsMore DEF PlanTypes, Separated
    <3> QED BY <3>1, <3>2, <3>3
  <2> QED BY <2>1, <2>2
<1>7. Separated'
  <2>1. \A g : After(g)' \subseteq After(g)
    BY <1>1, ConsiderMoves
  <2>2. \A g \in DOMAIN groups : Compatible(groups[g])
    BY <1>1 DEF Separated
  <2>3. \A g \in DOMAIN groups : \A tx \in After(g)' : Waits(tx, groups[g])
    BY <1>1, <2>1 DEF Separated
  <2> QED BY <1>5, <1>6, <2>2, <2>3 DEF Separated
<1> QED BY <1>3, <1>4, <1>7 DEF PlanInv

\* The group is closed; those that waited for it are scanned again.
LEMMA CloseGroupPreserves ==
  ASSUME PlanInv, CloseGroup
  PROVE  PlanInv'
<1> DEFINE n == Len(groups) + 1
<1>1. PlanTypes /\ Separated /\ NoEmptyGroup
  BY DEF PlanInv
<1>2. /\ step' = "scan" /\ remaining = <<>> /\ current # <<>>
      /\ groups' = Append(groups, current)
      /\ remaining' = skipped /\ skipped' = <<>> /\ current' = <<>>
  BY DEF CloseGroup
<1>3. groups \in Seq(Seq(U)) /\ current \in Seq(U) /\ skipped \in Seq(U)
  BY <1>1 DEF PlanTypes
<1>4. /\ Len(groups) \in Nat /\ Len(groups') = n
      /\ DOMAIN groups = 1..Len(groups) /\ DOMAIN groups' = 1..n
      /\ groups'[n] = current /\ \A g \in 1..Len(groups) : groups'[g] = groups[g]
  BY <1>2, <1>3
<1>5. PlanTypes'
  BY <1>2, <1>3 DEF PlanTypes
<1>6. NothingLeft' /\ GroupAtHand' /\ OneGroupRuns'
  BY <1>2 DEF NothingLeft, GroupAtHand, OneGroupRuns
<1>7. NoEmptyGroup'
  BY <1>1, <1>2, <1>4 DEF NoEmptyGroup
<1>8. Separated'
  <2>1. Compatible(current)' /\ \A i \in DOMAIN skipped' : Waits(skipped[i], current)'
    BY <1>2 DEF Compatible
  <2>2. \A g \in 1..n : Compatible(groups'[g])
    BY <1>1, <1>4 DEF Separated
  <2>3. ASSUME NEW g \in 1..n, NEW tx \in After(g)'
        PROVE  Waits(tx, groups'[g])
    <3>1. CASE g = n
      <4>1. After(g)' = ToSet(skipped)
        BY <3>1, <1>2, <1>4, SetOfEmpty DEF After
      <4>2. \A i \in DOMAIN skipped : Waits(skipped[i], current)
        BY <1>1 DEF Separated
      <4> QED BY <3>1, <2>3, <4>1, <4>2, <1>4 DEF ToSet
    <3>2. CASE g # n
      <4>1. g \in DOMAIN groups /\ groups'[g] = groups[g]
        BY <3>2, <1>4
      <4>2. tx \in ToSet(skipped) \/ \E h \in g + 1..n : tx \in ToSet(groups'[h])
        BY <2>3, <1>2, <1>4, SetOfEmpty DEF After
      <4>3. ASSUME NEW h \in g + 1..n, tx \in ToSet(groups'[h])
            PROVE  tx \in After(g)
        <5>1. CASE h = n
          BY <4>3, <5>1, <1>4 DEF After
        <5>2. CASE h # n
          <6>1. h \in g + 1..Len(groups) /\ groups'[h] = groups[h]
            BY <5>2, <1>4
          <6> QED BY <4>3, <6>1 DEF After
        <5> QED BY <5>1, <5>2
      <4>4. tx \in After(g)
        BY <4>2, <4>3 DEF After
      <4> QED BY <1>1, <4>1, <4>4 DEF Separated
    <3> QED BY <3>1, <3>2
  <2> QED BY <2>1, <2>2, <2>3, <1>4 DEF Separated
<1> QED BY <1>5, <1>6, <1>7, <1>8 DEF PlanInv

\* Nothing is left to place: whoever waited would wait for an empty group.
LEMMA ScheduledPreserves ==
  ASSUME PlanInv, Scheduled
  PROVE  PlanInv'
<1>1. PlanTypes /\ Separated /\ NoEmptyGroup
  BY DEF PlanInv
<1>2. /\ remaining = <<>> /\ current = <<>> /\ step' = "planned"
      /\ remaining' = remaining /\ skipped' = skipped /\ current' = current
      /\ groups' = groups
  BY DEF Scheduled, plan
<1>3. skipped = <<>>
  <2>1. \A i \in DOMAIN skipped : Waits(skipped[i], <<>>)
    BY <1>1, <1>2 DEF Separated
  <2>2. \A tx : ~Waits(tx, <<>>)
    BY DEF Waits
  <2>3. skipped \in Seq(U)
    BY <1>1 DEF PlanTypes
  <2>4. skipped # <<>> => 1 \in DOMAIN skipped
    BY <2>3
  <2> QED BY <2>1, <2>2, <2>4
<1>4. PlanTypes' /\ NothingLeft' /\ NoEmptyGroup' /\ GroupAtHand' /\ OneGroupRuns'
  BY <1>1, <1>2, <1>3 DEF PlanTypes, NothingLeft, NoEmptyGroup, GroupAtHand, OneGroupRuns
<1>5. Separated'
  BY <1>1, <1>2 DEF Separated, After
<1> QED BY <1>4, <1>5 DEF PlanInv

\* Two groups of a plan conflict: the second has a member, and it had to wait.
LEMMA TwoGroupsConflict ==
  ASSUME PlanInv, ~GroupsConflict
  PROVE  Len(groups) <= 1
<1> SUFFICES ASSUME Len(groups) > 1 PROVE FALSE
  BY DEF PlanInv, PlanTypes
<1> DEFINE tx == groups[2][1]
<1>1. /\ groups \in Seq(Seq(U)) /\ Len(groups) \in Nat
      /\ 1 \in DOMAIN groups /\ 2 \in DOMAIN groups /\ 2 \in 1 + 1..Len(groups)
  BY DEF PlanInv, PlanTypes
<1>2. groups[2] \in Seq(U) /\ groups[2] # <<>>
  BY <1>1 DEF PlanInv, NoEmptyGroup
<1>3. 1 \in DOMAIN groups[2]
  BY <1>2
<1>4. tx \in After(1)
  <2>1. tx \in ToSet(groups[2])
    BY <1>3 DEF ToSet
  <2> HIDE DEF tx
  <2> QED BY <1>1, <2>1 DEF After
<1>5. Waits(tx, groups[1])
  BY <1>1, <1>4 DEF PlanInv, Separated
<1>6. PICK i \in DOMAIN groups[1] : HasConflict(AccessSet(groups[1][i]), AccessSet(tx))
  BY <1>5 DEF Waits, Conflict
<1>7. /\ AccessSet(groups[1][i]).read_set \subseteq Merged(groups[1]).read_set
      /\ AccessSet(groups[1][i]).write_set \subseteq Merged(groups[1]).write_set
  BY <1>6 DEF Merged
<1>8. /\ AccessSet(tx).read_set \subseteq Merged(groups[2]).read_set
      /\ AccessSet(tx).write_set \subseteq Merged(groups[2]).write_set
  BY <1>3 DEF Merged
<1>9. HasConflict(Merged(groups[1]), Merged(groups[2]))
  BY <1>6, <1>7, <1>8 DEF HasConflict
<1> QED BY <1>1, <1>9 DEF GroupsConflict

\* The steps that leave the plan as it is, or forget it.
LEMMA OtherStepsPreserve ==
  ASSUME PlanInv,
         \/ ManagerStep \/ RefusePlan \/ AcceptPlan \/ BeginGroup \/ ExecuteStep
         \/ EndGroup \/ FailGroup \/ EndPlan
  PROVE  PlanInv'
<1>1. PlanTypes /\ NothingLeft /\ NoEmptyGroup /\ GroupAtHand /\ Separated /\ OneGroupRuns
  BY DEF PlanInv
<1>2. CASE UNCHANGED <<step, remaining, skipped, current, groups>>
  BY <1>1, <1>2 DEF PlanInv, PlanTypes, NothingLeft, NoEmptyGroup, GroupAtHand, Separated, OneGroupRuns, After
<1>3. ASSUME step' = "idle", groups' = <<>>, step # "scan",
             UNCHANGED <<remaining, skipped, current>>
      PROVE  PlanInv'
  <2>1. remaining' = <<>> /\ skipped' = <<>> /\ current' = <<>>
    BY <1>1, <1>3 DEF NothingLeft
  <2>2. Separated'
    BY <1>3, <2>1 DEF Separated, Compatible
  <2> QED BY <1>3, <2>1, <2>2 DEF PlanInv, PlanTypes, NothingLeft, NoEmptyGroup, GroupAtHand, OneGroupRuns
<1>4. ASSUME step' \in {"between", "execute"}, step' = "execute" => groups # <<>>,
             groups' = groups, Len(groups) <= 1,
             step # "scan", UNCHANGED <<remaining, skipped, current>>
      PROVE  PlanInv'
  <2>1. Separated'
    BY <1>1, <1>4 DEF Separated, After
  <2> QED BY <1>1, <1>4, <2>1 DEF PlanInv, PlanTypes, NothingLeft, NoEmptyGroup, GroupAtHand, OneGroupRuns
<1>5. ManagerStep \/ ExecuteStep => UNCHANGED <<step, remaining, skipped, current, groups>>
  BY DEF ManagerStep, ExecuteStep, sched, plan
<1>6. CASE RefusePlan
  BY <1>3, <1>6 DEF RefusePlan, Forget
<1>7. CASE AcceptPlan
  BY <1>4, <1>7, TwoGroupsConflict DEF AcceptPlan, plan
<1>8. CASE BeginGroup
  BY <1>1, <1>4, <1>8 DEF BeginGroup, plan, OneGroupRuns
<1>9. CASE EndGroup
  <2>1. /\ step = "execute" /\ step' = "between" /\ groups' = Tail(groups)
        /\ UNCHANGED <<remaining, skipped, current>>
    BY <1>9 DEF EndGroup, GroupDone
  <2>2. groups \in Seq(Seq(U)) /\ Len(groups) <= 1 /\ groups # <<>>
    BY <1>1, <2>1 DEF PlanTypes, OneGroupRuns, GroupAtHand
  <2>3. groups' = <<>>
    BY <2>1, <2>2
  <2>4. remaining' = <<>> /\ skipped' = <<>> /\ current' = <<>>
    BY <1>1, <2>1 DEF NothingLeft
  <2>5. Separated'
    BY <2>3, <2>4 DEF Separated, Compatible
  <2> QED BY <2>1, <2>3, <2>4, <2>5 DEF PlanInv, PlanTypes, NothingLeft, NoEmptyGroup, GroupAtHand, OneGroupRuns
<1>10. CASE FailGroup
  BY <1>3, <1>10 DEF FailGroup, Forget
<1>11. CASE EndPlan
  BY <1>3, <1>11 DEF EndPlan, Forget
<1> QED BY <1>2, <1>5, <1>6, <1>7, <1>8, <1>9, <1>10, <1>11

\* Every step keeps the invariant.
LEMMA StepPlanInv == PlanInv /\ [SchedulerNext]_all => PlanInv'
<1> SUFFICES ASSUME PlanInv, [SchedulerNext]_all PROVE PlanInv'
  OBVIOUS
<1>1. CASE ManagerStep
  BY <1>1, OtherStepsPreserve
<1>2. CASE \E txs \in Pools : Schedule(txs)
  BY <1>2, SchedulePreserves
<1>3. CASE Consider
  BY <1>3, ConsiderPreserves
<1>4. CASE CloseGroup
  BY <1>4, CloseGroupPreserves
<1>5. CASE Scheduled
  BY <1>5, ScheduledPreserves
<1>6. CASE RefusePlan \/ AcceptPlan \/ BeginGroup \/ ExecuteStep \/ EndGroup \/ FailGroup \/ EndPlan
  BY <1>6, OtherStepsPreserve
<1>7. CASE UNCHANGED all
  BY <1>7 DEF all, sched, plan, PlanInv, PlanTypes, NothingLeft, NoEmptyGroup, GroupAtHand,
              Separated, OneGroupRuns, After
<1> QED BY <1>1, <1>2, <1>3, <1>4, <1>5, <1>6, <1>7 DEF SchedulerNext

\* The invariant holds in every state.
LEMMA PlanInvariant == SchedulerSpec => []PlanInv
<1> QED BY InitPlanInv, StepPlanInv, PTL DEF SchedulerSpec

\* A plan never puts two transactions that conflict into one group, and puts
\* into a later group only what conflicts with a member of every earlier one,
\* whatever the transactions, their access sets and the order of their ids.
THEOREM PlansSeparate == SchedulerSpec => []Separated
<1>1. PlanInv => Separated
  BY DEF PlanInv
<1> QED BY <1>1, PlanInvariant, PTL

\* A plan of several groups is always refused: the check that no two groups
\* conflict contradicts the way the groups are formed.
THEOREM OnlyOneGroupRuns == SchedulerSpec => []OneGroupRuns
<1>1. PlanInv => OneGroupRuns
  BY DEF PlanInv
<1> QED BY <1>1, PlanInvariant, PTL

-----------------------------------------------------------------------------
(* What a failed plan leaves behind.  It goes back to the checkpoint by      *)
(* truncating the fees, so the invariant follows the fees wherever the state *)
(* manager keeps them.                                                       *)

Open == phase \in {"tx", "vm", "body", "failed"}

ChainTyped ==
  /\ current_height \in Nat /\ Len(snapshots) = current_height + 1
  /\ \E S : snapshots \in Seq(S)
  /\ \A i \in 1..current_height + 1 : snapshots[i].gas_fees \in Seq(Nat)

FeesTyped ==
  /\ block_gas_fees \in Seq(Nat)
  /\ step = "idle" /\ Open =>
       saved.block_gas_fees \in Seq(Nat) /\ saved.current_height = current_height

\* Only a group that executes is in the middle of a transaction.
AtRest == step \in {"scan", "planned", "between"} => phase = "idle"

IsCheckpoint(c) ==
  c = [height |-> c.height, total_supply |-> c.total_supply, gas_fees |-> c.gas_fees,
       pending_updates |-> c.pending_updates, utxo_snapshot |-> c.utxo_snapshot,
       tree_root_hash |-> c.tree_root_hash]

\* Nothing happens between the two checkpoints, and the fees only grow after.
Undoable ==
  /\ step = "between" /\ groups # <<>> => block_checkpoint = Checkpoint
  /\ step = "execute" =>
       /\ checkpoint = block_checkpoint /\ IsCheckpoint(checkpoint)
       /\ checkpoint.height = current_height
       /\ checkpoint.gas_fees \in Seq(Nat)
       /\ Len(checkpoint.gas_fees) <= Len(block_gas_fees)
       /\ SubSeq(block_gas_fees, 1, Len(checkpoint.gas_fees)) = checkpoint.gas_fees

UndoInv == ChainTyped /\ FeesTyped /\ AtRest /\ Undoable

\* It holds at the start.
LEMMA InitUndoInv == SchedulerInit => UndoInv
<1> SUFFICES ASSUME SchedulerInit PROVE UndoInv
  OBVIOUS
<1> DEFINE s == [height |-> 0, root |-> RootOf(EmptyStorage), total_supply |-> 0, gas_fees |-> <<>>]
<1>1. snapshots = <<s>> /\ current_height = 0 /\ block_gas_fees = <<>> /\ phase = "idle" /\ step = "idle"
  BY DEF SchedulerInit, Init
<1>2. s.gas_fees \in Seq(Nat)
  OBVIOUS
<1>3. ChainTyped
  <2> HIDE DEF s
  <2>1. <<s>> \in Seq({s}) /\ Len(<<s>>) = 1 /\ <<s>>[1] = s
    OBVIOUS
  <2>2. \E S : snapshots \in Seq(S)
    BY <1>1, <2>1
  <2>3. \A i \in 1..current_height + 1 : snapshots[i] = s
    BY <1>1, <2>1
  <2>4. current_height \in Nat /\ Len(snapshots) = current_height + 1
    BY <1>1, <2>1
  <2> QED BY <1>2, <2>2, <2>3, <2>4 DEF ChainTyped
<1> QED BY <1>1, <1>3 DEF UndoInv, FeesTyped, AtRest, Undoable, Open

\* A sequence of anything stays one when anything is appended.
LEMMA AppendAny ==
  ASSUME NEW S, NEW s \in Seq(S), NEW x
  PROVE  /\ Append(s, x) \in Seq(S \cup {x}) /\ Len(Append(s, x)) = Len(s) + 1
         /\ Append(s, x)[Len(s) + 1] = x
         /\ \A i \in 1..Len(s) : Append(s, x)[i] = s[i]
<1>1. s \in Seq(S \cup {x}) /\ x \in S \cup {x}
  OBVIOUS
<1> QED BY <1>1

\* Which steps of the state manager touch the chain.
LEMMA ChainCases ==
  ASSUME Next
  PROVE  \/ UNCHANGED chain
         \/ CommitBlock
         \/ AbortBlock
         \/ \E height \in 0..current_height : TruncateTo(height)
<1>1. ASSUME NEW txs \in Blocks, ApplyBlock(txs) \/ ValidateAndApplyBlock(txs)
      PROVE  UNCHANGED chain
  BY <1>1 DEF ApplyBlock, ValidateAndApplyBlock, BeginBlock
<1>2. CASE TransactionStep
  BY <1>2 DEF TransactionStep, StartUtxoTransaction, RefuseContract, StartContract, HostWrite,
      HostSelfDestruct, ContractReturns, ContractFails, SpendInput, CreateOutput,
      EndTransaction, manager
<1>3. CASE RefuseBurn \/ RefuseSupply
  BY <1>3 DEF RefuseBurn, RefuseSupply, manager
<1>4. ASSUME NEW height \in 0..current_height,
             RollbackState(height) \/ Rollback(height) \/ RestoreFromSnapshot(height)
      PROVE  UNCHANGED chain \/ TruncateTo(height)
  BY <1>4 DEF RollbackState, Rollback, RestoreFromSnapshot, RestoreLedger, chain
<1>5. CASE \/ \E op \in Markable, epoch \in Epoch : MarkOutpointForPruning(op, epoch)
           \/ \E threshold \in Epoch : BeginPruning(threshold)
           \/ \E op \in OutPoint : PruneNext(op)
  BY <1>5 DEF MarkOutpointForPruning, BeginPruning, PruneNext, manager
<1> QED BY <1>1, <1>2, <1>3, <1>4, <1>5 DEF Next, BlockStep, TransactionStep

\* A committed block adds its fees; a block put back leaves the chain alone; a
\* rollback keeps a prefix.
LEMMA ManagerChain ==
  ASSUME ChainTyped, FeesTyped, ManagerStep
  PROVE  ChainTyped'
<1> USE DEF ChainTyped
<1>1. step = "idle" /\ Next
  BY DEF ManagerStep
<1>2. CASE UNCHANGED chain
  BY <1>2 DEF chain
<1>3. CASE CommitBlock
  <2> DEFINE s == [height |-> current_height + 1, root |-> RootOf(tree'.nodes),
                   total_supply |-> current_total_supply, gas_fees |-> block_gas_fees]
  <2>1. snapshots' = Append(snapshots, s) /\ current_height' = current_height + 1
    BY <1>3 DEF CommitBlock
  <2>2. s.gas_fees \in Seq(Nat)
    BY DEF FeesTyped
  <2> HIDE DEF s
  <2>3. PICK S : snapshots \in Seq(S)
    OBVIOUS
  <2>4. /\ snapshots' \in Seq(S \cup {s}) /\ Len(snapshots') = Len(snapshots) + 1
        /\ snapshots'[Len(snapshots) + 1] = s
        /\ \A i \in 1..Len(snapshots) : snapshots'[i] = snapshots[i]
    BY <2>1, <2>3, AppendAny
  <2>5. \A i \in 1..current_height' + 1 : snapshots'[i].gas_fees \in Seq(Nat)
    BY <2>1, <2>2, <2>4
  <2> QED BY <2>1, <2>4, <2>5
<1>4. CASE AbortBlock
  <2>1. /\ phase = "failed" /\ current_height' = saved.current_height /\ snapshots' = snapshots
    BY <1>4 DEF AbortBlock, RestoreManager
  <2>2. current_height' = current_height
    BY <1>1, <2>1 DEF FeesTyped, Open
  <2> QED BY <2>1, <2>2
<1>5. CASE \E height \in 0..current_height : TruncateTo(height)
  <2>1. PICK height \in 0..current_height : TruncateTo(height)
    BY <1>5
  <2>2. snapshots' = SubSeq(snapshots, 1, height + 1) /\ current_height' = height
    BY <2>1 DEF TruncateTo
  <2>3. PICK S : snapshots \in Seq(S)
    OBVIOUS
  <2>4. /\ snapshots' \in Seq(S) /\ Len(snapshots') = height + 1
        /\ \A i \in 1..height + 1 : snapshots'[i] = snapshots[i]
    BY <2>2, <2>3
  <2>5. \E T : snapshots' \in Seq(T)
    BY <2>4
  <2>6. current_height' \in Nat /\ Len(snapshots') = current_height' + 1
    BY <2>2, <2>4
  <2>7. \A i \in 1..current_height' + 1 : snapshots'[i].gas_fees \in Seq(Nat)
    BY <2>2, <2>4
  <2> QED BY <2>5, <2>6, <2>7
<1> QED BY <1>1, <1>2, <1>3, <1>4, <1>5, ChainCases

\* A step of a transaction stays inside the block and only adds fees.
LEMMA TransactionFees ==
  ASSUME TransactionStep
  PROVE  /\ Open /\ Open' /\ saved' = saved /\ UNCHANGED chain
         /\ block_gas_fees' = block_gas_fees \/ \E fee \in Fees : block_gas_fees' = Append(block_gas_fees, fee)
<1> USE DEF Open, chain, tally, manager, control
<1>1. CASE StartUtxoTransaction \/ RefuseContract \/ StartContract
  BY <1>1 DEF StartUtxoTransaction, RefuseContract, StartContract
<1>2. CASE \E k \in ContractKeys, v \in ContractData : HostWrite(k, v)
  BY <1>2 DEF HostWrite
<1>3. CASE \E k \in ContractKeys : HostSelfDestruct(k)
  BY <1>3 DEF HostSelfDestruct
<1>4. CASE \E fee \in Fees : ContractReturns(fee)
  BY <1>4 DEF ContractReturns
<1>5. CASE ContractFails
  BY <1>5 DEF ContractFails
<1>6. CASE SpendInput
  <2>1. /\ phase = "body" /\ saved' = saved /\ UNCHANGED chain /\ block_gas_fees' = block_gas_fees
    BY <1>6 DEF SpendInput
  <2>2. phase' = "failed" \/ phase' = phase
    BY <1>6, Zenon DEF SpendInput
  <2> QED BY <2>1, <2>2
<1>7. CASE CreateOutput
  <2>1. /\ phase = "body" /\ phase' = phase /\ saved' = saved /\ UNCHANGED chain
        /\ block_gas_fees' = block_gas_fees
    BY <1>7, Zenon DEF CreateOutput
  <2> QED BY <2>1
<1>8. CASE EndTransaction
  BY <1>8 DEF EndTransaction
<1> QED BY <1>1, <1>2, <1>3, <1>4, <1>5, <1>6, <1>7, <1>8 DEF TransactionStep

\* The fees stay numbers whatever the state manager does with them.
LEMMA ManagerFees ==
  ASSUME ChainTyped, FeesTyped, ManagerStep
  PROVE  FeesTyped'
<1>1. step = "idle" /\ step' = "idle" /\ Next /\ block_gas_fees \in Seq(Nat)
  BY DEF ManagerStep, sched, FeesTyped
<1>2. ASSUME NEW txs \in Blocks, ApplyBlock(txs) \/ ValidateAndApplyBlock(txs)
      PROVE  FeesTyped'
  <2>1. /\ block_gas_fees' = <<>> /\ saved' = Saved /\ current_height' = current_height
    BY <1>2 DEF ApplyBlock, ValidateAndApplyBlock, BeginBlock, chain
  <2>2. saved'.block_gas_fees = block_gas_fees /\ saved'.current_height = current_height
    BY <2>1 DEF Saved
  <2> QED BY <1>1, <2>1, <2>2 DEF FeesTyped
<1>3. CASE TransactionStep
  <2>1. saved.block_gas_fees \in Seq(Nat) /\ saved.current_height = current_height
    BY <1>1, <1>3, TransactionFees DEF FeesTyped
  <2>2. saved' = saved /\ current_height' = current_height
    BY <1>3, TransactionFees DEF chain
  <2>3. block_gas_fees' \in Seq(Nat)
    <3>1. block_gas_fees' = block_gas_fees \/ \E fee \in Fees : block_gas_fees' = Append(block_gas_fees, fee)
      BY <1>3, TransactionFees
    <3>2. Fees \subseteq Nat
      BY ContractAssumption
    <3> QED BY <1>1, <3>1, <3>2
  <2> QED BY <2>1, <2>2, <2>3 DEF FeesTyped
<1>4. CASE RefuseBurn \/ RefuseSupply
  BY <1>1, <1>4 DEF RefuseBurn, RefuseSupply, WriteTransition, FeesTyped, Open, manager, tally, chain
<1>5. CASE CommitBlock
  BY <1>1, <1>5 DEF CommitBlock, FeesTyped, Open, tally
<1>6. CASE AbortBlock
  BY <1>1, <1>6 DEF AbortBlock, RestoreManager, FeesTyped, Open
<1>7. ASSUME NEW height \in 0..current_height,
             RollbackState(height) \/ Rollback(height) \/ RestoreFromSnapshot(height)
      PROVE  FeesTyped'
  <2>1. phase = "idle" /\ phase' = "idle"
    BY <1>7 DEF RollbackState, Rollback, RestoreFromSnapshot, control
  <2>2. block_gas_fees' = block_gas_fees \/ block_gas_fees' = snapshots[height + 1].gas_fees
    BY <1>7 DEF RollbackState, Rollback, RestoreFromSnapshot, RestoreLedger, tally
  <2>3. snapshots[height + 1].gas_fees \in Seq(Nat)
    BY DEF ChainTyped
  <2> QED BY <1>1, <2>1, <2>2, <2>3 DEF FeesTyped, Open
<1>8. ASSUME \/ \E op \in Markable, epoch \in Epoch : MarkOutpointForPruning(op, epoch)
             \/ \E threshold \in Epoch : BeginPruning(threshold)
             \/ \E op \in OutPoint : PruneNext(op)
      PROVE  FeesTyped'
  <2>1. block_gas_fees' = block_gas_fees
    BY <1>8 DEF MarkOutpointForPruning, BeginPruning, PruneNext, manager, tally
  <2>2. phase' = "idle" \/ phase' = "pruning"
    BY <1>8 DEF MarkOutpointForPruning, BeginPruning, PruneNext, control
  <2> QED BY <1>1, <2>1, <2>2 DEF FeesTyped, Open
<1> QED BY <1>1, <1>2, <1>3, <1>4, <1>5, <1>6, <1>7, <1>8 DEF Next, BlockStep, TransactionStep

\* A longer list of fees is cut back to the shorter one.
LEMMA FeesExtended ==
  ASSUME NEW s \in Seq(Nat), NEW t \in Seq(Nat), NEW x \in Nat,
         Len(s) <= Len(t), SubSeq(t, 1, Len(s)) = s
  PROVE  /\ Len(s) <= Len(Append(t, x))
         /\ SubSeq(Append(t, x), 1, Len(s)) = s
<1>1. /\ Len(Append(t, x)) = Len(t) + 1
      /\ \A i \in 1..Len(t) : Append(t, x)[i] = t[i]
  OBVIOUS
<1>2. SubSeq(Append(t, x), 1, Len(s)) = SubSeq(t, 1, Len(s))
  <2>1. \A i \in 1..Len(s) : Append(t, x)[i] = t[i]
    BY <1>1
  <2> QED BY <1>1, <2>1
<1> QED BY <1>1, <1>2

\* What a group leaves where it found it, and how it changes the fees.
LEMMA ExecuteUndo ==
  ASSUME UndoInv, ExecuteStep
  PROVE  UndoInv'
<1>1. /\ step = "execute" /\ step' = "execute" /\ groups' = groups
      /\ checkpoint' = checkpoint /\ block_checkpoint' = block_checkpoint
  BY DEF ExecuteStep, sched, plan
<1>2. /\ current_height' = current_height /\ snapshots' = snapshots
      /\ block_gas_fees' = block_gas_fees \/ \E fee \in Fees : block_gas_fees' = Append(block_gas_fees, fee)
  BY TransactionFees DEF ExecuteStep, chain
<1>3. ChainTyped'
  BY <1>2 DEF UndoInv, ChainTyped
<1>4. block_gas_fees \in Seq(Nat) /\ Fees \subseteq Nat
  BY ContractAssumption DEF UndoInv, FeesTyped
<1>5. FeesTyped' /\ AtRest'
  BY <1>1, <1>2, <1>4 DEF FeesTyped, AtRest
<1>6. /\ checkpoint = block_checkpoint /\ IsCheckpoint(checkpoint)
      /\ checkpoint.height = current_height
      /\ checkpoint.gas_fees \in Seq(Nat)
      /\ Len(checkpoint.gas_fees) <= Len(block_gas_fees)
      /\ SubSeq(block_gas_fees, 1, Len(checkpoint.gas_fees)) = checkpoint.gas_fees
  BY <1>1 DEF UndoInv, Undoable
<1>7. /\ Len(checkpoint.gas_fees) <= Len(block_gas_fees')
      /\ SubSeq(block_gas_fees', 1, Len(checkpoint.gas_fees)) = checkpoint.gas_fees
  <2>1. CASE block_gas_fees' = block_gas_fees
    BY <1>6, <2>1
  <2>2. ASSUME NEW fee \in Fees, block_gas_fees' = Append(block_gas_fees, fee)
        PROVE  /\ Len(checkpoint.gas_fees) <= Len(block_gas_fees')
               /\ SubSeq(block_gas_fees', 1, Len(checkpoint.gas_fees)) = checkpoint.gas_fees
    <3>1. fee \in Nat
      BY <1>4
    <3> QED BY <1>4, <1>6, <2>2, <3>1, FeesExtended
  <2> QED BY <1>2, <2>1, <2>2
<1>8. IsCheckpoint(checkpoint')
  BY <1>1, <1>6
<1>9. Undoable'
  BY <1>1, <1>2, <1>6, <1>7, <1>8 DEF Undoable
<1> QED BY <1>3, <1>5, <1>9 DEF UndoInv

\* The steps that plan, or pass from one group to the next.
LEMMA PlanUndo ==
  ASSUME PlanInv, UndoInv,
         \/ \E txs \in Pools : Schedule(txs)
         \/ Consider \/ CloseGroup \/ Scheduled \/ RefusePlan \/ AcceptPlan \/ EndPlan
  PROVE  UndoInv'
<1>1. UNCHANGED vars
  BY DEF Schedule, Consider, CloseGroup, Scheduled, RefusePlan, AcceptPlan, EndPlan
<1>2. /\ UNCHANGED <<current_height, snapshots, block_gas_fees, phase, saved>>
      /\ Checkpoint' = Checkpoint
  BY <1>1 DEF vars, manager, chain, tally, coins, control, Checkpoint
<1>3. ChainTyped'
  BY <1>2 DEF UndoInv, ChainTyped
<1>4. phase = "idle"
  BY DEF UndoInv, AtRest, Schedule, Consider, CloseGroup, Scheduled, RefusePlan, AcceptPlan, EndPlan
<1>5. FeesTyped' /\ AtRest'
  BY <1>2, <1>4 DEF UndoInv, FeesTyped, AtRest, Open
<1>6. step' \in {"scan", "planned", "idle"} \/ (step' = "between" /\ block_checkpoint' = Checkpoint)
  BY DEF Schedule, Consider, CloseGroup, Scheduled, RefusePlan, AcceptPlan, EndPlan
<1>7. Undoable'
  BY <1>2, <1>6 DEF Undoable
<1> QED BY <1>3, <1>5, <1>7 DEF UndoInv

\* A group begins where the plan began.
LEMMA BeginUndo ==
  ASSUME UndoInv, BeginGroup
  PROVE  UndoInv'
<1>1. /\ step = "between" /\ step' = "execute" /\ block_checkpoint = Checkpoint
      /\ checkpoint' = Checkpoint /\ block_checkpoint' = block_checkpoint
      /\ UNCHANGED <<current_height, snapshots, block_gas_fees>>
  BY DEF UndoInv, Undoable, BeginGroup, manager, chain, tally
<1>2. ChainTyped' /\ FeesTyped' /\ AtRest'
  BY <1>1 DEF UndoInv, ChainTyped, FeesTyped, AtRest
<1>3. IsCheckpoint(Checkpoint) /\ Checkpoint.height = current_height /\ Checkpoint.gas_fees = block_gas_fees
  BY DEF IsCheckpoint, Checkpoint
<1>4. IsCheckpoint(checkpoint')
  BY <1>1, <1>3
<1>5. block_gas_fees \in Seq(Nat)
  BY DEF UndoInv, FeesTyped
<1>6. SubSeq(block_gas_fees, 1, Len(block_gas_fees)) = block_gas_fees
  BY <1>5
<1>7. Undoable'
  <2>1. checkpoint' = block_checkpoint' /\ checkpoint'.height = current_height'
    BY <1>1, <1>3
  <2>2. checkpoint'.gas_fees = block_gas_fees'
    BY <1>1, <1>3
  <2>3. block_gas_fees' \in Seq(Nat) /\ SubSeq(block_gas_fees', 1, Len(block_gas_fees')) = block_gas_fees'
    BY <1>1, <1>5, <1>6
  <2> QED BY <1>1, <1>4, <2>1, <2>2, <2>3 DEF Undoable
<1> QED BY <1>2, <1>7 DEF UndoInv

\* The group was the only one, so no checkpoint is used after it.
LEMMA EndUndo ==
  ASSUME PlanInv, UndoInv, EndGroup
  PROVE  UndoInv'
<1>1. /\ step = "execute" /\ step' = "between" /\ phase' = "idle" /\ groups' = Tail(groups)
      /\ UNCHANGED <<current_height, snapshots, block_gas_fees>>
  BY DEF EndGroup, GroupDone, manager, chain, tally
<1>2. groups' = <<>>
  <2>1. groups \in Seq(Seq(U)) /\ Len(groups) <= 1 /\ groups # <<>>
    BY <1>1 DEF PlanInv, PlanTypes, OneGroupRuns, GroupAtHand
  <2> QED BY <1>1, <2>1
<1> QED BY <1>1, <1>2 DEF UndoInv, ChainTyped, FeesTyped, AtRest, Undoable

\* The fees are cut back to those of the checkpoint, which is that of the plan.
LEMMA FailUndoes ==
  ASSUME UndoInv, FailGroup
  PROVE  /\ [Checkpoint EXCEPT !.tree_root_hash = None]'
               = [block_checkpoint EXCEPT !.tree_root_hash = None]
         /\ UndoInv'
<1>1. step = "execute" /\ step' = "idle" /\ phase' = "idle" /\ snapshots' = snapshots
  BY DEF FailGroup, RestoreFromCheckpoint
<1>2. /\ checkpoint = block_checkpoint /\ IsCheckpoint(checkpoint)
      /\ checkpoint.height = current_height
      /\ checkpoint.gas_fees \in Seq(Nat)
      /\ SubSeq(block_gas_fees, 1, Len(checkpoint.gas_fees)) = checkpoint.gas_fees
  BY <1>1 DEF UndoInv, Undoable
<1>3. /\ current_height' = checkpoint.height /\ current_total_supply' = checkpoint.total_supply
      /\ block_gas_fees' = checkpoint.gas_fees /\ pending_updates' = checkpoint.pending_updates
      /\ utxo' = checkpoint.utxo_snapshot
  BY <1>2 DEF FailGroup, RestoreFromCheckpoint
<1>4. [Checkpoint EXCEPT !.tree_root_hash = None]' = [block_checkpoint EXCEPT !.tree_root_hash = None]
  <2> DEFINE c == block_checkpoint
  <2>1. Checkpoint' = [height |-> c.height, total_supply |-> c.total_supply, gas_fees |-> c.gas_fees,
                       pending_updates |-> c.pending_updates, utxo_snapshot |-> c.utxo_snapshot,
                       tree_root_hash |-> RootOf(tree'.nodes)]
    BY <1>2, <1>3 DEF Checkpoint
  <2>2. c = [height |-> c.height, total_supply |-> c.total_supply, gas_fees |-> c.gas_fees,
             pending_updates |-> c.pending_updates, utxo_snapshot |-> c.utxo_snapshot,
             tree_root_hash |-> c.tree_root_hash]
    BY <1>2 DEF IsCheckpoint
  <2>3. [c EXCEPT !.tree_root_hash = None]
          = [height |-> c.height, total_supply |-> c.total_supply, gas_fees |-> c.gas_fees,
             pending_updates |-> c.pending_updates, utxo_snapshot |-> c.utxo_snapshot,
             tree_root_hash |-> None]
    BY <2>2
  <2>4. [Checkpoint' EXCEPT !.tree_root_hash = None]
          = [height |-> c.height, total_supply |-> c.total_supply, gas_fees |-> c.gas_fees,
             pending_updates |-> c.pending_updates, utxo_snapshot |-> c.utxo_snapshot,
             tree_root_hash |-> None]
    BY <2>1
  <2> QED BY <2>3, <2>4
<1>5. UndoInv'
  <2>1. current_height' = current_height /\ block_gas_fees' \in Seq(Nat)
    BY <1>2, <1>3
  <2> QED BY <1>1, <2>1 DEF UndoInv, ChainTyped, FeesTyped, AtRest, Undoable, Open
<1> QED BY <1>4, <1>5

\* Every step keeps the invariant.
LEMMA StepUndoInv == PlanInv /\ UndoInv /\ [SchedulerNext]_all => UndoInv'
<1> SUFFICES ASSUME PlanInv, UndoInv, [SchedulerNext]_all PROVE UndoInv'
  OBVIOUS
<1>1. CASE ManagerStep
  <2>1. step = "idle" /\ step' = "idle"
    BY <1>1 DEF ManagerStep, sched
  <2>2. ChainTyped' /\ FeesTyped'
    BY <1>1, ManagerChain, ManagerFees DEF UndoInv
  <2>3. AtRest' /\ Undoable'
    BY <2>1 DEF AtRest, Undoable
  <2> QED BY <2>2, <2>3 DEF UndoInv
<1>2. CASE \/ \E txs \in Pools : Schedule(txs)
           \/ Consider \/ CloseGroup \/ Scheduled \/ RefusePlan \/ AcceptPlan \/ EndPlan
  BY <1>2, PlanUndo
<1>3. CASE ExecuteStep
  BY <1>3, ExecuteUndo
<1>4. CASE BeginGroup
  BY <1>4, BeginUndo
<1>5. CASE EndGroup
  BY <1>5, EndUndo
<1>6. CASE FailGroup
  BY <1>6, FailUndoes
<1>7. CASE UNCHANGED all
  <2>1. /\ UNCHANGED <<step, groups, checkpoint, block_checkpoint, current_height, snapshots,
                       block_gas_fees, phase, saved>>
        /\ Checkpoint' = Checkpoint
    BY <1>7 DEF all, sched, plan, vars, manager, chain, tally, coins, control, Checkpoint
  <2>2. ChainTyped' /\ FeesTyped' /\ AtRest'
    BY <2>1 DEF UndoInv, ChainTyped, FeesTyped, AtRest, Open
  <2>3. IsCheckpoint(checkpoint) => IsCheckpoint(checkpoint')
    BY <2>1
  <2>4. Undoable'
    BY <2>1, <2>3 DEF UndoInv, Undoable
  <2> QED BY <2>2, <2>4 DEF UndoInv
<1> QED BY <1>1, <1>2, <1>3, <1>4, <1>5, <1>6, <1>7 DEF SchedulerNext

\* The only step from a group back to idle is its failure.
LEMMA OnlyFailureStops ==
  ASSUME [SchedulerNext]_all, step = "execute", step' = "idle"
  PROVE  FailGroup
BY DEF SchedulerNext, ManagerStep, Schedule, Consider, CloseGroup, Scheduled, RefusePlan,
    AcceptPlan, BeginGroup, ExecuteStep, EndGroup, EndPlan, all, sched, plan

\* A plan that fails leaves the height, the supply, the fees, the pending
\* updates and the UTXO set as the call of execute_groups found them, for any
\* transactions, wherever it fails and whatever happened before.
THEOREM FailedPlansUndone == SchedulerSpec => FailedPlanUndone
<1>1. PlanInv /\ UndoInv /\ [SchedulerNext]_all =>
        [(step = "execute" /\ step' = "idle") =>
           [Checkpoint EXCEPT !.tree_root_hash = None]'
             = [block_checkpoint EXCEPT !.tree_root_hash = None]]_all
  BY OnlyFailureStops, FailUndoes
<1>2. SchedulerSpec => []UndoInv
  BY InitUndoInv, PlanInvariant, StepUndoInv, PTL DEF SchedulerSpec
<1> QED BY <1>1, <1>2, PlanInvariant, PTL DEF SchedulerSpec, FailedPlanUndone

-----------------------------------------------------------------------------
(* A plan is a permutation of what it was given. *)

\* A numbering without repetitions is undone by the choice of who has a number.
LEMMA NumberingInverts ==
  ASSUME NEW D, IsFiniteSet(D), NEW r \in [D -> D], \A i, j \in D : r[i] = r[j] => i = j
  PROVE  \E c \in Bijection(D, D) : \A n \in D : r[c[n]] = n
<1> DEFINE c == [n \in D |-> CHOOSE i \in D : r[i] = n]
<1>1. \A n \in D : \E i \in D : r[i] = n
  <2>1. r \in Injection(D, D)
    BY Fun_IsInj
  <2>2. r \in Surjection(D, D)
    BY <2>1, FS_Injection
  <2> QED BY <2>2, Fun_SurjectionProperties
<1>2. \A n \in D : c[n] \in D /\ r[c[n]] = n
  BY <1>1
<1>3. c \in [D -> D]
  BY <1>2
<1> HIDE DEF c
<1>4. \A m, n \in D : c[m] = c[n] => m = n
  BY <1>2
<1>5. \A i \in D : \E n \in D : c[n] = i
  BY <1>2, <1>3
<1>6. c \in Bijection(D, D)
  BY <1>3, <1>4, <1>5, Fun_IsBij
<1> QED BY <1>2, <1>6

\* Who goes before whom: an order of all places.
LEMMA OrderOfIds ==
  ASSUME NEW p \in Pools
  PROVE  /\ DOMAIN p = 1..Len(p) /\ Len(p) \in Nat
         /\ \A i, j \in DOMAIN p : i # j => Precedes(p, i, j) \/ Precedes(p, j, i)
         /\ \A i, j, k \in DOMAIN p : Precedes(p, i, j) /\ Precedes(p, j, k) => Precedes(p, i, k)
         /\ \A i \in DOMAIN p : ~Precedes(p, i, i)
<1>1. p \in Seq(Transactions) /\ DOMAIN p = 1..Len(p) /\ Len(p) \in Nat
  BY PoolAssumption
<1>2. \A i \in DOMAIN p : IdOrder[p[i].id] \in Nat /\ i \in Nat
  BY <1>1, PoolAssumption
<1> QED BY <1>1, <1>2 DEF Precedes

\* Who is placed before i.
Before(p, i) == {j \in DOMAIN p : Precedes(p, j, i)}

\* No two places have the same number of places before them.
LEMMA RanksDiffer ==
  ASSUME NEW p \in Pools
  PROVE  /\ \A i \in DOMAIN p : Cardinality(Before(p, i)) + 1 \in DOMAIN p
         /\ \A i, j \in DOMAIN p : Cardinality(Before(p, i)) = Cardinality(Before(p, j)) => i = j
<1> DEFINE D == DOMAIN p
<1>1. /\ D = 1..Len(p) /\ Len(p) \in Nat
      /\ \A i, j \in D : i # j => Precedes(p, i, j) \/ Precedes(p, j, i)
      /\ \A i, j, k \in D : Precedes(p, i, j) /\ Precedes(p, j, k) => Precedes(p, i, k)
      /\ \A i \in D : ~Precedes(p, i, i)
  BY OrderOfIds
<1>2. IsFiniteSet(D) /\ Cardinality(D) = Len(p)
  BY <1>1, FS_Interval
<1>3. ASSUME NEW i \in D
      PROVE  IsFiniteSet(Before(p, i)) /\ Cardinality(Before(p, i)) \in Nat
  <2>1. Before(p, i) \in SUBSET D
    BY DEF Before
  <2> QED BY <1>2, <2>1, FS_Subset, FS_CardinalityType
<1>4. ASSUME NEW i \in D
      PROVE  Cardinality(Before(p, i)) + 1 \in D
  <2>1. Before(p, i) \in SUBSET D /\ Before(p, i) # D
    BY <1>1 DEF Before
  <2>2. Cardinality(Before(p, i)) <= Cardinality(D) /\ Cardinality(Before(p, i)) # Cardinality(D)
    BY <1>2, <2>1, FS_Subset
  <2>3. Cardinality(Before(p, i)) \in Nat
    BY <1>3
  <2> HIDE DEF D
  <2> QED BY <1>1, <1>2, <2>2, <2>3
<1>5. ASSUME NEW i \in D, NEW j \in D, Precedes(p, i, j)
      PROVE  Cardinality(Before(p, i)) # Cardinality(Before(p, j))
  <2>1. Before(p, i) \in SUBSET Before(p, j) /\ i \in Before(p, j) /\ i \notin Before(p, i)
    BY <1>1, <1>5 DEF Before
  <2>2. IsFiniteSet(Before(p, j))
    BY <1>3
  <2> QED BY <2>1, <2>2, FS_Subset
<1> QED BY <1>1, <1>4, <1>5

\* Sorting a pool puts each of its places somewhere, and none twice.
LEMMA SortIsPermutation ==
  ASSUME NEW p \in Pools
  PROVE  \E c \in Bijection(DOMAIN p, DOMAIN p) : \A n \in DOMAIN p : SortedById(p)[n] = p[c[n]]
<1> DEFINE D == DOMAIN p
           r == [i \in D |-> Cardinality(Before(p, i)) + 1]
<1>1. D = 1..Len(p) /\ Len(p) \in Nat
  BY OrderOfIds
<1>2. IsFiniteSet(D)
  BY <1>1, FS_Interval
<1>3. \A i \in D : Cardinality(Before(p, i)) \in Nat
  <2> TAKE i \in D
  <2>1. Before(p, i) \in SUBSET D
    BY DEF Before
  <2> QED BY <1>2, <2>1, FS_Subset, FS_CardinalityType
<1>4. r \in [D -> D] /\ \A i, j \in D : r[i] = r[j] => i = j
  <2>1. r \in [D -> D]
    BY RanksDiffer
  <2>2. ASSUME NEW i \in D, NEW j \in D, r[i] = r[j]
        PROVE  i = j
    <3>1. Cardinality(Before(p, i)) + 1 = Cardinality(Before(p, j)) + 1
      BY <2>2
    <3>2. Cardinality(Before(p, i)) \in Nat /\ Cardinality(Before(p, j)) \in Nat
      BY <1>3
    <3>3. Cardinality(Before(p, i)) = Cardinality(Before(p, j))
      BY <3>1, <3>2
    <3> QED BY <3>3, RanksDiffer
  <2> QED BY <2>1, <2>2
<1>5. \E c \in Bijection(D, D) : \A n \in D : r[c[n]] = n
  <2> HIDE DEF r, D
  <2> QED BY <1>2, <1>4, NumberingInverts
<1>6. PICK c \in Bijection(D, D) : \A n \in D : r[c[n]] = n
  BY <1>5
<1>7. ASSUME NEW n \in D
      PROVE  SortedById(p)[n] = p[c[n]]
  <2>1. c[n] \in D /\ r[c[n]] = n
    BY <1>6, Fun_BijectionProperties
  <2>2. n \in Nat
    BY <1>1
  <2>3. \A i \in D : Cardinality(Before(p, i)) = n - 1 <=> r[i] = n
    BY <1>3, <2>2
  <2>4. \A i \in D : Cardinality(Before(p, i)) = n - 1 <=> i = c[n]
    BY <1>4, <2>1, <2>3
  <2>5. c[n] = CHOOSE i \in D : Cardinality(Before(p, i)) = n - 1
    <3> HIDE DEF r, D
    <3> QED BY <2>1, <2>4
  <2> QED BY <2>5 DEF SortedById, Before
<1> QED BY <1>6, <1>7

\* Sorting changes how often a transaction occurs in no way.
LEMMA SortKeepsCounts ==
  ASSUME NEW p \in Pools, NEW tx
  PROVE  Cardinality(Holds(SortedById(p), tx)) = Cardinality(Holds(p, tx))
<1>1. PICK c \in Bijection(DOMAIN p, DOMAIN p) : \A n \in DOMAIN p : SortedById(p)[n] = p[c[n]]
  BY SortIsPermutation
<1> DEFINE S == Holds(SortedById(p), tx)
           T == Holds(p, tx)
           h == [n \in S |-> c[n]]
<1>2. DOMAIN SortedById(p) = DOMAIN p
  BY DEF SortedById
<1>3. /\ c \in [DOMAIN p -> DOMAIN p] /\ \A m, n \in DOMAIN p : c[m] = c[n] => m = n
      /\ \A i \in DOMAIN p : \E n \in DOMAIN p : c[n] = i
  BY <1>1, Fun_BijectionProperties, Fun_InjectionProperties, Fun_SurjectionProperties
<1>4. S = {n \in DOMAIN p : p[c[n]] = tx} /\ T = {i \in DOMAIN p : p[i] = tx}
  BY <1>1, <1>2 DEF Holds
<1> HIDE DEF S, T
<1>5. h \in [S -> T]
  BY <1>3, <1>4
<1>6. (\A m, n \in S : h[m] = h[n] => m = n) /\ (\A i \in T : \E n \in S : h[n] = i)
  <2>1. \A m, n \in S : h[m] = h[n] => m = n
    BY <1>3, <1>4
  <2>2. \A i \in T : \E n \in S : c[n] = i
    BY <1>3, <1>4
  <2> QED BY <2>1, <2>2
<1>7. h \in Bijection(S, T)
  <2> HIDE DEF h
  <2> QED BY <1>5, <1>6, Fun_IsBij
<1>8. IsFiniteSet(S)
  <2>1. DOMAIN p = 1..Len(p) /\ Len(p) \in Nat
    BY PoolAssumption
  <2>2. IsFiniteSet(DOMAIN p)
    BY <2>1, FS_Interval
  <2>3. S \in SUBSET DOMAIN p
    BY <1>4
  <2> QED BY <2>2, <2>3, FS_Subset
<1>9. ExistsBijection(S, T)
  <2> HIDE DEF h
  <2> QED BY <1>7 DEF ExistsBijection
<1> QED BY <1>8, <1>9, FS_Bijection DEF S, T

\* A list holds a transaction at finitely many places.
LEMMA HoldsFinite ==
  ASSUME NEW S, NEW s \in Seq(S), NEW tx
  PROVE  IsFiniteSet(Holds(s, tx)) /\ Cardinality(Holds(s, tx)) \in Nat
<1>1. IsFiniteSet(DOMAIN s)
  <2>1. DOMAIN s = 1..Len(s) /\ Len(s) \in Nat
    OBVIOUS
  <2> QED BY <2>1, FS_Interval
<1>2. Holds(s, tx) \in SUBSET DOMAIN s
  BY DEF Holds
<1> QED BY <1>1, <1>2, FS_Subset, FS_CardinalityType

\* How often a transaction occurs grows by one when it is appended.
LEMMA HoldsAppended ==
  ASSUME NEW S, NEW s \in Seq(S), NEW x \in S, NEW tx
  PROVE  Cardinality(Holds(Append(s, x), tx))
           = Cardinality(Holds(s, tx)) + (IF tx = x THEN 1 ELSE 0)
<1> DEFINE n == Len(s) + 1
<1>1. /\ Len(s) \in Nat /\ DOMAIN s = 1..Len(s) /\ DOMAIN Append(s, x) = 1..n
      /\ Append(s, x)[n] = x /\ \A i \in 1..Len(s) : Append(s, x)[i] = s[i]
  OBVIOUS
<1>2. n \notin Holds(s, tx)
  BY <1>1 DEF Holds
<1>3. IsFiniteSet(Holds(s, tx)) /\ Cardinality(Holds(s, tx)) \in Nat
  BY HoldsFinite
<1>4. CASE tx = x
  <2>1. Holds(Append(s, x), tx) = Holds(s, tx) \cup {n}
    BY <1>1, <1>4 DEF Holds
  <2> HIDE DEF n
  <2>2. Cardinality(Holds(s, tx) \cup {n}) = Cardinality(Holds(s, tx)) + 1
    BY <1>2, <1>3, FS_AddElement
  <2> QED BY <1>4, <2>1, <2>2
<1>5. CASE tx # x
  <2>1. Holds(Append(s, x), tx) = Holds(s, tx)
    BY <1>1, <1>5 DEF Holds
  <2> QED BY <1>3, <1>5, <2>1
<1> QED BY <1>4, <1>5

\* It is what the tail holds, and the head.
LEMMA HoldsTail ==
  ASSUME NEW S, NEW s \in Seq(S), s # <<>>, NEW tx
  PROVE  Cardinality(Holds(s, tx))
           = Cardinality(Holds(Tail(s), tx)) + (IF tx = Head(s) THEN 1 ELSE 0)
<1> DEFINE A == Holds(Tail(s), tx)
           B == Holds(s, tx) \ {1}
           h == [i \in A |-> i + 1]
<1>1. /\ Tail(s) \in Seq(S) /\ Head(s) = s[1] /\ Len(s) \in Nat /\ Len(s) >= 1
      /\ DOMAIN s = 1..Len(s) /\ DOMAIN Tail(s) = 1..Len(s) - 1
  OBVIOUS
<1>2. \A i \in 1..Len(s) - 1 : Tail(s)[i] = s[i + 1] /\ i + 1 \in 1..Len(s) /\ i + 1 # 1
  BY <1>1
<1>3. A = {i \in 1..Len(s) - 1 : s[i + 1] = tx} /\ B = {i \in 2..Len(s) : s[i] = tx}
  BY <1>1, <1>2 DEF Holds
<1>4. Cardinality(B) = Cardinality(A) /\ IsFiniteSet(A)
  <2> HIDE DEF A, B
  <2>1. h \in [A -> B]
    BY <1>1, <1>3
  <2>2. (\A i, j \in A : h[i] = h[j] => i = j) /\ (\A j \in B : \E i \in A : h[i] = j)
    <3>1. \A i, j \in A : h[i] = h[j] => i = j
      BY <1>1, <1>3
    <3>2. ASSUME NEW j \in B PROVE \E i \in A : h[i] = j
      <4>1. j - 1 \in A /\ (j - 1) + 1 = j
        BY <1>1, <1>3
      <4> QED BY <4>1
    <3> QED BY <3>1, <3>2
  <2>3. h \in Bijection(A, B)
    <3> HIDE DEF h
    <3> QED BY <2>1, <2>2, Fun_IsBij
  <2>4. IsFiniteSet(A)
    BY <1>1, HoldsFinite DEF A
  <2>5. ExistsBijection(A, B)
    BY <2>3, Zenon DEF ExistsBijection
  <2> QED BY <2>4, <2>5, FS_Bijection
<1>5. /\ IsFiniteSet(Holds(s, tx)) /\ Cardinality(Holds(s, tx)) \in Nat
      /\ Cardinality(A) \in Nat
  BY <1>1, HoldsFinite
<1>6. 1 \in Holds(s, tx) <=> tx = Head(s)
  BY <1>1 DEF Holds
<1>7. Cardinality(B) = IF 1 \in Holds(s, tx) THEN Cardinality(Holds(s, tx)) - 1 ELSE Cardinality(Holds(s, tx))
  BY <1>5, FS_RemoveElement
<1> HIDE DEF A, B
<1> QED BY <1>4, <1>5, <1>6, <1>7 DEF A

\* An empty list holds nothing.
LEMMA HoldsNothing ==
  ASSUME NEW tx
  PROVE  Cardinality(Holds(<<>>, tx)) = 0
BY FS_EmptySet DEF Holds

\* So do the groups.
LEMMA GroupedFinite ==
  ASSUME NEW S, NEW gs \in Seq(Seq(S)), NEW tx
  PROVE  IsFiniteSet(Grouped(gs, tx)) /\ Cardinality(Grouped(gs, tx)) \in Nat
<1> DEFINE Part(g) == {g} \X Holds(gs[g], tx)
<1>1. DOMAIN gs = 1..Len(gs) /\ Len(gs) \in Nat
  OBVIOUS
<1>2. IsFiniteSet({Part(g) : g \in DOMAIN gs})
  <2>1. IsFiniteSet(DOMAIN gs)
    BY <1>1, FS_Interval
  <2> DEFINE T == {Part(g) : g \in DOMAIN gs}
             f == [g \in DOMAIN gs |-> Part(g)]
  <2> HIDE DEF Part
  <2>2. f \in [DOMAIN gs -> T] /\ \A P \in T : \E g \in DOMAIN gs : f[g] = P
    OBVIOUS
  <2> HIDE DEF f, T
  <2>3. f \in Surjection(DOMAIN gs, T)
    BY <2>2, Fun_IsSurj
  <2>4. IsFiniteSet(T)
    BY <2>1, <2>3, FS_Surjection
  <2> QED BY <2>4 DEF T
<1>3. \A T \in {Part(g) : g \in DOMAIN gs} : IsFiniteSet(T)
  <2> SUFFICES ASSUME NEW g \in DOMAIN gs PROVE IsFiniteSet(Part(g))
    OBVIOUS
  <2>1. IsFiniteSet({g})
    BY FS_Singleton
  <2>2. gs[g] \in Seq(S)
    OBVIOUS
  <2>3. IsFiniteSet(Holds(gs[g], tx))
    BY <2>2, HoldsFinite
  <2> QED BY <2>1, <2>3, FS_Product
<1>4. IsFiniteSet(UNION {Part(g) : g \in DOMAIN gs})
  <2> HIDE DEF Part
  <2> QED BY <1>2, <1>3, FS_UNION
<1> QED BY <1>4, FS_CardinalityType DEF Grouped

\* A new group adds what it holds.
LEMMA GroupedAppended ==
  ASSUME NEW S, NEW gs \in Seq(Seq(S)), NEW s \in Seq(S), NEW tx
  PROVE  Cardinality(Grouped(Append(gs, s), tx))
           = Cardinality(Grouped(gs, tx)) + Cardinality(Holds(s, tx))
<1> DEFINE n == Len(gs) + 1
           A == Grouped(gs, tx)
           B == {n} \X Holds(s, tx)
<1>1. /\ Len(gs) \in Nat /\ DOMAIN gs = 1..Len(gs) /\ DOMAIN Append(gs, s) = 1..n
      /\ Append(gs, s)[n] = s /\ \A g \in 1..Len(gs) : Append(gs, s)[g] = gs[g]
  OBVIOUS
<1>2. Grouped(Append(gs, s), tx) = A \cup B
  <2>1. 1..n = 1..Len(gs) \cup {n}
    BY <1>1
  <2> HIDE DEF n
  <2> QED BY <1>1, <2>1 DEF Grouped
<1>3. A \cap B = {}
  BY <1>1 DEF Grouped
<1>4. IsFiniteSet(A) /\ Cardinality(A) \in Nat
  BY GroupedFinite
<1>5. IsFiniteSet({n}) /\ Cardinality({n}) = 1
  BY FS_Singleton
<1>6. IsFiniteSet(Holds(s, tx)) /\ Cardinality(Holds(s, tx)) \in Nat
  BY HoldsFinite
<1>7. IsFiniteSet(B) /\ Cardinality(B) = Cardinality(Holds(s, tx))
  <2>1. IsFiniteSet(B) /\ Cardinality(B) = Cardinality({n}) * Cardinality(Holds(s, tx))
    <3> HIDE DEF n
    <3> QED BY <1>5, <1>6, FS_Product
  <2> HIDE DEF n, B
  <2> QED BY <1>5, <1>6, <2>1
<1>8. Cardinality(A \cup B) = Cardinality(A) + Cardinality(B) - Cardinality(A \cap B)
  <2> HIDE DEF A, B
  <2> QED BY <1>4, <1>7, FS_Union
<1>9. Cardinality(A \cap B) = 0
  <2> HIDE DEF A, B
  <2> QED BY <1>3, FS_EmptySet
<1> HIDE DEF A, B
<1> QED BY <1>2, <1>4, <1>6, <1>7, <1>8, <1>9 DEF A

\* No groups hold nothing.
LEMMA GroupedNothing ==
  ASSUME NEW tx
  PROVE  Cardinality(Grouped(<<>>, tx)) = 0
<1>1. Grouped(<<>>, tx) = {}
  BY DEF Grouped
<1> QED BY <1>1, FS_EmptySet

\* While a plan is made nothing is lost.
Counted == step \in {"scan", "planned"} => NothingLost

\* The sort hands over as many of each transaction as it was given.
LEMMA ScheduleCounts ==
  ASSUME PlanInv, NEW txs \in Pools, Schedule(txs)
  PROVE  NothingLost'
<1>1. /\ pool' = txs /\ remaining' = SortedById(txs)
      /\ groups' = <<>> /\ skipped' = <<>> /\ current' = <<>>
  BY DEF Schedule, PlanInv, NothingLeft
<1> SUFFICES ASSUME NEW tx \in Transactions
             PROVE  Cardinality(Grouped(<<>>, tx)) + Cardinality(Holds(<<>>, tx))
                      + Cardinality(Holds(<<>>, tx)) + Cardinality(Holds(SortedById(txs), tx))
                    = Cardinality(Holds(txs, tx))
  BY <1>1 DEF NothingLost
<1>2. Cardinality(Holds(txs, tx)) \in Nat
  <2>1. txs \in Seq(Transactions)
    BY PoolAssumption
  <2> QED BY <2>1, HoldsFinite
<1> QED BY <1>2, SortKeepsCounts, HoldsNothing, GroupedNothing

\* A candidate goes from one list to the end of another.
LEMMA ConsiderCounts ==
  ASSUME PlanInv, NothingLost, Consider
  PROVE  NothingLost'
<1> DEFINE x == Head(remaining)
<1>1. remaining \in Seq(U) /\ skipped \in Seq(U) /\ current \in Seq(U) /\ groups \in Seq(Seq(U))
  BY DEF PlanInv, PlanTypes
<1>2. /\ remaining # <<>> /\ remaining' = Tail(remaining) /\ pool' = pool /\ groups' = groups
      /\ \/ skipped' = Append(skipped, x) /\ current' = current
         \/ current' = Append(current, x) /\ skipped' = skipped
  BY DEF Consider
<1>3. x \in U /\ Tail(remaining) \in Seq(U)
  BY <1>1, <1>2, SetOfTail
<1> SUFFICES ASSUME NEW tx \in Transactions
             PROVE  Cardinality(Grouped(groups, tx)) + Cardinality(Holds(current', tx)) + Cardinality(Holds(skipped', tx))
                      + Cardinality(Holds(Tail(remaining), tx)) = Cardinality(Holds(pool, tx))
  BY <1>2 DEF NothingLost
<1>4. Cardinality(Grouped(groups, tx)) + Cardinality(Holds(current, tx)) + Cardinality(Holds(skipped, tx))
        + Cardinality(Holds(remaining, tx)) = Cardinality(Holds(pool, tx))
  BY DEF NothingLost
<1> DEFINE one == IF tx = x THEN 1 ELSE 0
<1> HIDE DEF x
<1>5. /\ Cardinality(Holds(remaining, tx)) = Cardinality(Holds(Tail(remaining), tx)) + one
      /\ Cardinality(Holds(Append(skipped, x), tx)) = Cardinality(Holds(skipped, tx)) + one
      /\ Cardinality(Holds(Append(current, x), tx)) = Cardinality(Holds(current, tx)) + one
  BY <1>1, <1>2, <1>3, HoldsTail, HoldsAppended DEF x
<1>6. /\ Cardinality(Holds(Tail(remaining), tx)) \in Nat /\ Cardinality(Holds(skipped, tx)) \in Nat
      /\ Cardinality(Holds(current, tx)) \in Nat /\ Cardinality(Grouped(groups, tx)) \in Nat /\ one \in Nat
  BY <1>1, <1>3, HoldsFinite, GroupedFinite
<1> HIDE DEF one
<1>7. CASE skipped' = Append(skipped, x) /\ current' = current
  BY <1>4, <1>5, <1>6, <1>7
<1>8. CASE current' = Append(current, x) /\ skipped' = skipped
  BY <1>4, <1>5, <1>6, <1>8
<1> QED BY <1>2, <1>7, <1>8

\* What the group held before it was closed it holds among the groups.
LEMMA CloseGroupCounts ==
  ASSUME PlanInv, NothingLost, CloseGroup
  PROVE  NothingLost'
<1>1. skipped \in Seq(U) /\ current \in Seq(U) /\ groups \in Seq(Seq(U))
  BY DEF PlanInv, PlanTypes
<1>2. /\ remaining = <<>> /\ groups' = Append(groups, current) /\ pool' = pool
      /\ remaining' = skipped /\ skipped' = <<>> /\ current' = <<>>
  BY DEF CloseGroup
<1> SUFFICES ASSUME NEW tx \in Transactions
             PROVE  Cardinality(Grouped(Append(groups, current), tx)) + Cardinality(Holds(<<>>, tx))
                      + Cardinality(Holds(<<>>, tx)) + Cardinality(Holds(skipped, tx))
                    = Cardinality(Holds(pool, tx))
  BY <1>2 DEF NothingLost
<1>3. Cardinality(Grouped(groups, tx)) + Cardinality(Holds(current, tx)) + Cardinality(Holds(skipped, tx))
        + Cardinality(Holds(<<>>, tx)) = Cardinality(Holds(pool, tx))
  BY <1>2 DEF NothingLost
<1>4. Cardinality(Grouped(Append(groups, current), tx))
        = Cardinality(Grouped(groups, tx)) + Cardinality(Holds(current, tx))
  BY <1>1, GroupedAppended
<1>5. /\ Cardinality(Grouped(groups, tx)) \in Nat /\ Cardinality(Holds(current, tx)) \in Nat
      /\ Cardinality(Holds(skipped, tx)) \in Nat
  BY <1>1, HoldsFinite, GroupedFinite
<1> QED BY <1>3, <1>4, <1>5, HoldsNothing

\* Every step keeps count.
LEMMA StepCounted == PlanInv /\ Counted /\ [SchedulerNext]_all => Counted'
<1> SUFFICES ASSUME PlanInv, Counted, [SchedulerNext]_all, step' \in {"scan", "planned"}
             PROVE  NothingLost'
  BY DEF Counted
<1>1. CASE \E txs \in Pools : Schedule(txs)
  BY <1>1, ScheduleCounts
<1>2. CASE Consider
  <2>1. NothingLost
    BY <1>2 DEF Consider, Counted
  <2> QED BY <1>2, <2>1, ConsiderCounts
<1>3. CASE CloseGroup
  <2>1. NothingLost
    BY <1>3 DEF CloseGroup, Counted
  <2> QED BY <1>3, <2>1, CloseGroupCounts
<1>4. CASE step \in {"scan", "planned"} /\ UNCHANGED plan
  BY <1>4 DEF plan, Counted, NothingLost
<1>5. CASE UNCHANGED all
  BY <1>4, <1>5 DEF all, sched
<1>6. CASE ManagerStep \/ ExecuteStep \/ Scheduled
  BY <1>4, <1>6 DEF ManagerStep, ExecuteStep, Scheduled, sched
<1>7. CASE RefusePlan \/ AcceptPlan \/ BeginGroup \/ EndGroup \/ FailGroup \/ EndPlan
  BY <1>7 DEF RefusePlan, AcceptPlan, BeginGroup, EndGroup, FailGroup, EndPlan
<1> QED BY <1>1, <1>2, <1>3, <1>5, <1>6, <1>7 DEF SchedulerNext

\* A plan holds every transaction it was given, as often as it was given, and
\* separates what conflicts without a needless group, for any transactions.
THEOREM PlansAlwaysSound == SchedulerSpec => []PlanSound
<1>1. SchedulerInit => Counted
  BY DEF SchedulerInit, Counted
<1>2. PlanInv /\ Counted => PlanSound
  BY DEF PlanInv, Counted, PlanSound
<1> QED BY <1>1, <1>2, PlanInvariant, StepCounted, PTL DEF SchedulerSpec
=============================================================================
