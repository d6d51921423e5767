------------------------------ MODULE Scheduler ------------------------------
(***************************************************************************)
(* The scheduler of src/core/scheduler/parallel.rs over the state manager: *)
(* schedule_transactions cuts a list of transactions into groups without   *)
(* conflicting access sets, execute_groups applies the groups one after    *)
(* the other, without apply_block around them, and goes back to a          *)
(* checkpoint of its own when a group fails.                               *)
(*                                                                         *)
(* The steps of a transaction are those of StateManager; `step' says where *)
(* the scheduler stands, and the methods of the state manager can be       *)
(* called between two plans.                                               *)
(***************************************************************************)
EXTENDS StateManager

CONSTANTS
  Pools,    \* the transaction lists given to schedule_transactions
  Slots,    \* for each transaction: the storage slots its payload may contain
  WriteOnly, \* its contract, and the hash of a payload without slots
  IdOrder   \* the order of the ids, which are hashes

ASSUME PoolAssumption ==
  /\ \A p \in Pools : p \in Seq(Transactions)
  /\ DOMAIN Slots = Transactions /\ DOMAIN WriteOnly = Transactions
  /\ \A tx \in Transactions : IdOrder[tx.id] \in Nat

VARIABLES
  step,
  pool,        \* history: the transactions being scheduled
  remaining,   \* those the current scan has still to look at
  skipped,     \* those it left for a later group
  current,     \* the group it forms
  groups,      \* the groups formed, or still to execute
  checkpoint,  \* of the group being executed
  block_checkpoint  \* taken before the first group; nothing goes back to it

plan  == <<pool, remaining, skipped, current, groups>>
sched == <<step, plan, checkpoint, block_checkpoint>>
all   == <<vars, sched>>

-----------------------------------------------------------------------------
(* Access sets. *)

\* generate_access_set.  The keys of the inputs are hashed from the id of the
\* transaction itself, not from the outpoints they name.
AccessSet(tx) ==
  [read_set  |-> {<<tx.id, i>> : i \in DOMAIN tx.inputs} \cup Slots[tx],
   write_set |-> {<<tx.id, i>> : i \in DOMAIN tx.outputs} \cup Slots[tx] \cup WriteOnly[tx]]

HasConflict(a, b) ==
  \/ a.write_set \cap b.read_set # {}
  \/ a.write_set \cap b.write_set # {}
  \/ b.write_set \cap a.read_set # {}

Conflict(tx, other) == HasConflict(AccessSet(tx), AccessSet(other))

\* Faulty variant: the access set of the last transaction replaces the others.
MergedLast(group) == AccessSet(Last(group))

\* merge, over the transactions of a group.
Merged(group) ==
  [read_set  |-> UNION {AccessSet(group[i]).read_set : i \in DOMAIN group},
   write_set |-> UNION {AccessSet(group[i]).write_set : i \in DOMAIN group}]

GroupsConflict ==
  \E i, j \in DOMAIN groups : i < j /\ HasConflict(Merged(groups[i]), Merged(groups[j]))

-----------------------------------------------------------------------------
(* schedule_transactions *)

\* A stable sort: i goes before j if its id does, or if it did already.
Precedes(txs, i, j) ==
  \/ IdOrder[txs[i].id] < IdOrder[txs[j].id]
  \/ IdOrder[txs[i].id] = IdOrder[txs[j].id] /\ i < j

SortedById(txs) ==
  [n \in DOMAIN txs |->
     txs[CHOOSE i \in DOMAIN txs : Cardinality({j \in DOMAIN txs : Precedes(txs, j, i)}) = n - 1]]

Schedule(txs) ==
  /\ step = "idle" /\ phase = "idle"
  /\ pool' = txs /\ remaining' = SortedById(txs)
  /\ step' = "scan"
  /\ UNCHANGED <<vars, skipped, current, groups, checkpoint, block_checkpoint>>

\* Faulty variant: a candidate is compared with the last of the group only.
ConsiderLast ==
  /\ step = "scan" /\ remaining # <<>>
  /\ IF current # <<>> /\ Conflict(Last(current), Head(remaining))
     THEN skipped' = Append(skipped, Head(remaining)) /\ UNCHANGED current
     ELSE current' = Append(current, Head(remaining)) /\ UNCHANGED skipped
  /\ remaining' = Tail(remaining)
  /\ UNCHANGED <<vars, step, pool, groups, checkpoint, block_checkpoint>>

\* One candidate of the scan.  The first one always fits the empty group, so
\* the branch for a group that stays empty is never taken.
Consider ==
  /\ step = "scan" /\ remaining # <<>>
  /\ IF \E i \in DOMAIN current : Conflict(current[i], Head(remaining))
     THEN skipped' = Append(skipped, Head(remaining)) /\ UNCHANGED current
     ELSE current' = Append(current, Head(remaining)) /\ UNCHANGED skipped
  /\ remaining' = Tail(remaining)
  /\ UNCHANGED <<vars, step, pool, groups, checkpoint, block_checkpoint>>

CloseGroup ==
  /\ step = "scan" /\ remaining = <<>> /\ current # <<>>
  /\ groups' = Append(groups, current)
  /\ remaining' = skipped /\ skipped' = <<>> /\ current' = <<>>
  /\ UNCHANGED <<vars, step, pool, checkpoint, block_checkpoint>>

Scheduled ==
  /\ step = "scan" /\ remaining = <<>> /\ current = <<>>
  /\ step' = "planned"
  /\ UNCHANGED <<vars, plan, checkpoint, block_checkpoint>>

-----------------------------------------------------------------------------
(* execute_groups *)

Forget == groups' = <<>> /\ pool' = <<>> /\ UNCHANGED <<remaining, skipped, current>>

\* detect_group_conflicts: the plan is refused as a whole.
RefusePlan ==
  /\ step = "planned" /\ GroupsConflict
  /\ step' = "idle" /\ Forget
  /\ UNCHANGED <<vars, checkpoint, block_checkpoint>>

\* ExecutionCheckpoint: neither the tree nor the outpoint map nor the marks.
\* Of the fees and the pending updates the code keeps the lengths; both only
\* grow until they are truncated to them.
Checkpoint ==
  [height |-> current_height, total_supply |-> current_total_supply,
   gas_fees |-> block_gas_fees, pending_updates |-> pending_updates,
   utxo_snapshot |-> utxo, tree_root_hash |-> RootOf(tree.nodes)]

AcceptPlan ==
  /\ step = "planned" /\ ~GroupsConflict
  /\ step' = "between"
  /\ block_checkpoint' = Checkpoint
  /\ UNCHANGED <<vars, plan, checkpoint>>

BeginGroup ==
  /\ step = "between" /\ groups # <<>>
  /\ checkpoint' = Checkpoint
  /\ step' = "execute" /\ phase' = "tx" /\ queue' = Head(groups)
  /\ UNCHANGED <<manager, cursor, saved, vm_snapshot, prune_list, plan, block_checkpoint>>

\* apply_transaction, for each transaction of the group.
TransactionStep ==
  \/ StartUtxoTransaction \/ RefuseContract \/ StartContract
  \/ \E k \in ContractKeys, v \in ContractData : HostWrite(k, v)
  \/ \E k \in ContractKeys : HostSelfDestruct(k)
  \/ \E fee \in Fees : ContractReturns(fee)
  \/ ContractFails
  \/ SpendInput \/ CreateOutput \/ EndTransaction

ExecuteStep == step = "execute" /\ TransactionStep /\ UNCHANGED sched

GroupDone == step = "execute" /\ phase = "tx" /\ queue = <<>>
RootChanged == RootOf(tree.nodes) # checkpoint.tree_root_hash

EndGroup ==
  /\ GroupDone /\ RootChanged
  /\ phase' = "idle" /\ step' = "between"
  /\ groups' = Tail(groups) /\ checkpoint' = None
  /\ UNCHANGED <<manager, queue, cursor, saved, vm_snapshot, prune_list,
                 pool, remaining, skipped, current, block_checkpoint>>

\* Faulty variant: the UTXO set stays as the group left it.
RestoreScalars ==
  /\ current_height' = checkpoint.height
  /\ current_total_supply' = checkpoint.total_supply
  /\ block_gas_fees' = SubSeq(block_gas_fees, 1, Len(checkpoint.gas_fees))
  /\ pending_updates' = checkpoint.pending_updates
  /\ UNCHANGED <<tree, snapshots, snapshot_storages, outpoint_to_key, prune_markers, utxo>>

RestoreFromCheckpoint ==
  /\ current_height' = checkpoint.height
  /\ current_total_supply' = checkpoint.total_supply
  /\ block_gas_fees' = SubSeq(block_gas_fees, 1, Len(checkpoint.gas_fees))
  /\ pending_updates' = checkpoint.pending_updates
  /\ utxo' = checkpoint.utxo_snapshot
  /\ UNCHANGED <<tree, snapshots, snapshot_storages, outpoint_to_key, prune_markers>>

\* A transaction failed, or the group changed nothing in the tree.  Payments
\* alone do not: their outputs wait in pending_updates.
FailGroup ==
  /\ step = "execute"
  /\ phase = "failed" \/ (GroupDone /\ ~RootChanged)
  /\ RestoreFromCheckpoint
  /\ phase' = "idle" /\ queue' = <<>> /\ cursor' = 1
  /\ step' = "idle" /\ checkpoint' = None /\ block_checkpoint' = None /\ Forget
  /\ UNCHANGED <<saved, vm_snapshot, prune_list>>

EndPlan ==
  /\ step = "between" /\ groups = <<>>
  /\ step' = "idle" /\ block_checkpoint' = None /\ Forget
  /\ UNCHANGED <<vars, checkpoint>>

-----------------------------------------------------------------------------
SchedulerInit ==
  /\ Init
  /\ step = "idle" /\ pool = <<>> /\ remaining = <<>> /\ skipped = <<>>
  /\ current = <<>> /\ groups = <<>>
  /\ checkpoint = None /\ block_checkpoint = None

ManagerStep == step = "idle" /\ Next /\ UNCHANGED sched

SchedulerNext ==
  \/ ManagerStep
  \/ \E txs \in Pools : Schedule(txs)
  \/ Consider \/ CloseGroup \/ Scheduled
  \/ RefusePlan \/ AcceptPlan \/ BeginGroup \/ ExecuteStep
  \/ EndGroup \/ FailGroup \/ EndPlan

SchedulerSpec == SchedulerInit /\ [][SchedulerNext]_all

-----------------------------------------------------------------------------
(* Safety. *)

Compatible(group) ==
  \A i, j \in DOMAIN group : i < j => ~Conflict(group[i], group[j])

\* tx had to wait: some member of the group is in its way.
Waits(tx, group) == \E i \in DOMAIN group : Conflict(group[i], tx)

\* What is placed after group g, or still to place.
After(g) ==
  ToSet(remaining) \cup ToSet(skipped) \cup ToSet(current)
    \cup UNION {ToSet(groups[h]) : h \in g + 1..Len(groups)}

\* The members of a group do not conflict, and whatever is in a later group, or
\* still to place, conflicts with a member of every group before.
Separated ==
  /\ Compatible(current) /\ \A g \in DOMAIN groups : Compatible(groups[g])
  /\ \A i \in DOMAIN skipped : Waits(skipped[i], current)
  /\ \A g \in DOMAIN groups : \A tx \in After(g) : Waits(tx, groups[g])

\* Where a list holds tx, and where the groups gs do: <<group, place>>.
Holds(txs, tx) == {i \in DOMAIN txs : txs[i] = tx}
Grouped(gs, tx) == UNION {{g} \X Holds(gs[g], tx) : g \in DOMAIN gs}

\* Every transaction is placed, or waits, as often as it was handed over.
NothingLost ==
  \A tx \in Transactions :
    Cardinality(Grouped(groups, tx)) + Cardinality(Holds(current, tx)) + Cardinality(Holds(skipped, tx))
      + Cardinality(Holds(remaining, tx)) = Cardinality(Holds(pool, tx))

\* While a plan is made, and when it is ready: no transaction of the pool is
\* lost or doubled, no two transactions of a group conflict, and a transaction is
\* put off only past groups that hold one it conflicts with.  That is first fit in
\* the order of the ids, not the least number of groups: of four transactions that
\* conflict along a path a, b, c, d and are met in the order a, d, b, c it makes
\* three groups where two would do.
PlanSound == step \in {"scan", "planned"} => NothingLost /\ Separated

\* What schedule_transactions and detect_group_conflicts amount to together: a
\* plan is executed only if it has a single group, because two groups of a
\* plan always conflict.  So there never is a group to keep when a later one
\* fails, and a failed plan is undone by one checkpoint.
OneGroupRuns == step \in {"between", "execute"} => Len(groups) <= 1

\* execute_groups, "Ensures atomic state transitions": when it refuses or fails,
\* at whichever transaction, the height, the supply, the fees, the pending
\* updates and the UTXO set are those the call began with, though it goes back
\* only to the checkpoint of the group that failed.
FailedPlanUndone ==
  [][(step = "execute" /\ step' = "idle") =>
       [Checkpoint EXCEPT !.tree_root_hash = None]'
         = [block_checkpoint EXCEPT !.tree_root_hash = None]]_all

\* The same of the tree: "state rolled back" (parallel.rs:137).
FailedPlanKeepsRoot ==
  [][(step = "execute" /\ step' = "idle") =>
       RootOf(tree'.nodes) = block_checkpoint.tree_root_hash]_all
=============================================================================
