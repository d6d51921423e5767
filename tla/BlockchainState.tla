--------------------------- MODULE BlockchainState ---------------------------
(***************************************************************************)
(* BlockchainState of src/core/state/mod.rs: blocks of transactions over a *)
(* UTXO set, applied one by one and undone when one of them is refused;    *)
(* prune marks; snapshots.                                                 *)
(*                                                                         *)
(* A method runs alone from its first step to its last; apply_block takes  *)
(* one step per transaction applied and one per transaction undone.  The   *)
(* setters of finalizing_block, virtual_score and pruned touch nothing     *)
(* else and are left out.                                                  *)
(***************************************************************************)
EXTENDS UtxoSet

CONSTANTS
  Blocks,      \* the transaction lists of the blocks that arrive
  Epoch,
  Markable,    \* the outpoints the embedding program marks for pruning
  None         \* an Option that is None

ASSUME BlockAssumption ==
  /\ \A b \in Blocks : b \in Seq(Transactions)
  /\ Epoch \subseteq Nat /\ Markable \subseteq OutPoint /\ None \notin Nat

VARIABLES
  utxos,
  prune_markers,   \* the epoch each outpoint is marked with, or None
  snapshot,        \* the state the embedding program has cloned, or None
  phase,           \* where the call in progress stands
  queue,           \* the transactions of the block still to apply
  changesets,
  spent_outputs,
  trail,           \* history: the UTXO sets the call in progress has gone through
  overwritten,     \* history: the last block created an output that was unspent
  broken           \* history: the last rollback gave up

state   == <<utxos, prune_markers>>
call    == <<phase, queue, changesets, spent_outputs, trail>>
history == <<overwritten, broken>>
vars    == <<state, snapshot, call, history>>

Init ==
  /\ utxos = {} /\ prune_markers = [op \in OutPoint |-> None] /\ snapshot = None
  /\ phase = "idle" /\ queue = <<>> /\ changesets = <<>> /\ spent_outputs = {}
  /\ trail = <<>> /\ overwritten = FALSE /\ broken = FALSE

-----------------------------------------------------------------------------
(* apply_block *)

BeginBlock(txs) ==
  /\ phase = "idle"
  /\ phase' = "apply" /\ queue' = txs /\ changesets' = <<>> /\ spent_outputs' = {}
  /\ trail' = <<utxos>> /\ overwritten' = FALSE /\ broken' = FALSE
  /\ UNCHANGED <<state, snapshot>>

\* Faulty variant: what a transaction spends is read after it was applied.
SaveSpentAfter(tx) == spent_outputs' = spent_outputs \cup (Inputs(tx) \cap utxos')

SaveSpent(tx) == spent_outputs' = spent_outputs \cup (Inputs(tx) \cap utxos)

ApplyNext ==
  /\ phase = "apply" /\ queue # <<>>
  /\ LET tx == Head(queue)
         result == ApplyTx(utxos, tx)
     IN  /\ result.ok
         /\ utxos' = result.utxos
         /\ SaveSpent(tx)
         /\ changesets' = Append(changesets, ChangeSet(tx))
         /\ trail' = Append(trail, result.utxos)
         /\ overwritten' = (overwritten \/ Outputs(tx) \cap utxos # {})
  /\ queue' = Tail(queue)
  /\ UNCHANGED <<prune_markers, snapshot, phase, broken>>

RejectNext ==
  /\ phase = "apply" /\ queue # <<>>
  /\ LET tx == Head(queue)
         result == ApplyTx(utxos, tx)
     IN  /\ ~result.ok
         /\ utxos' = result.utxos
         /\ SaveSpent(tx)
  /\ phase' = "rollback"
  /\ UNCHANGED <<prune_markers, snapshot, queue, changesets, trail, history>>

UndoLast ==
  /\ phase = "rollback" /\ changesets # <<>>
  /\ LET result == RevertTx(utxos, Last(changesets), spent_outputs) IN
       /\ result.ok
       /\ utxos' = result.utxos
  /\ changesets' = Front(changesets)
  /\ trail' = Front(trail)
  /\ UNCHANGED <<prune_markers, snapshot, phase, queue, spent_outputs, history>>

Return(outcome) ==
  /\ phase' = "idle" /\ queue' = <<>> /\ changesets' = <<>> /\ spent_outputs' = {} /\ trail' = <<>>
  /\ broken' = outcome
  /\ UNCHANGED <<prune_markers, snapshot, overwritten>>

\* "Transaction apply failed and revert failed": what is left to undo stays.
GiveUp ==
  /\ phase = "rollback" /\ changesets # <<>>
  /\ LET result == RevertTx(utxos, Last(changesets), spent_outputs) IN
       /\ ~result.ok
       /\ utxos' = result.utxos
  /\ Return(TRUE)

EndRollback ==
  /\ phase = "rollback" /\ changesets = <<>>
  /\ Return(FALSE)
  /\ UNCHANGED utxos

EndBlock ==
  /\ phase = "apply" /\ queue = <<>>
  /\ Return(FALSE)
  /\ UNCHANGED utxos

-----------------------------------------------------------------------------
(* The other methods. *)

\* revert_block removes the outputs; it does not restore the inputs.
RevertBlock(txs) ==
  /\ phase = "idle"
  /\ utxos' = utxos \ UNION {Outputs(txs[t]) : t \in DOMAIN txs}
  /\ UNCHANGED <<prune_markers, snapshot, call, history>>

MarkLeafForPruning(op, epoch) ==
  /\ phase = "idle"
  /\ prune_markers' = [prune_markers EXCEPT ![op] = epoch]
  /\ UNCHANGED <<utxos, snapshot, call, history>>

\* prune_leaf on each outpoint; the batch and the single call.
Prune(ops) ==
  /\ phase = "idle"
  /\ utxos' = utxos \ ops
  /\ prune_markers' = [op \in OutPoint |-> IF op \in ops THEN None ELSE prune_markers[op]]
  /\ UNCHANGED <<snapshot, call, history>>

PruneOlderThan(threshold) ==
  Prune({op \in OutPoint : prune_markers[op] # None /\ prune_markers[op] <= threshold})

Snapshot ==
  /\ phase = "idle"
  /\ snapshot' = [utxos |-> utxos, prune_markers |-> prune_markers]
  /\ UNCHANGED <<state, call, history>>

Restore ==
  /\ phase = "idle" /\ snapshot # None
  /\ utxos' = snapshot.utxos
  /\ prune_markers' = snapshot.prune_markers
  /\ UNCHANGED <<snapshot, call, history>>

Next ==
  \/ \E txs \in Blocks : BeginBlock(txs) \/ RevertBlock(txs)
  \/ ApplyNext \/ RejectNext \/ UndoLast \/ GiveUp \/ EndRollback \/ EndBlock
  \/ \E op \in Markable : Prune({op}) \/ \E epoch \in Epoch : MarkLeafForPruning(op, epoch)
  \/ \E threshold \in Epoch : PruneOlderThan(threshold)
  \/ Snapshot \/ Restore

Spec == Init /\ [][Next]_vars

-----------------------------------------------------------------------------
(* Safety. *)

ChangeSets == [spent : Seq(OutPoint), created : Seq(OutPoint)]
Markers == [OutPoint -> Epoch \cup {None}]

TypeOK ==
  /\ utxos \subseteq OutPoint
  /\ prune_markers \in Markers
  /\ snapshot # None => snapshot.utxos \subseteq OutPoint /\ snapshot.prune_markers \in Markers
  /\ phase \in {"idle", "apply", "rollback"}
  /\ queue \in Seq(Transactions)
  /\ changesets \in Seq(ChangeSets)
  /\ spent_outputs \subseteq OutPoint
  /\ trail \in Seq(SUBSET OutPoint)
  /\ overwritten \in BOOLEAN /\ broken \in BOOLEAN

\* A refused block leaves the UTXO set as it was, whatever its transactions
\* spent of the set and of each other, unless one of them created an output
\* that was already there.
RejectedBlockLeavesNoTrace ==
  [][phase = "rollback" /\ phase' = "idle" /\ ~overwritten => utxos' = Head(trail)]_vars

\* Undoing finds every output it has to remove and every spent output it has to
\* restore: the error inside the error path does not happen.
RollbackSucceeds == broken => overwritten

\* A transaction with inputs never adds value: not by an overflow of a sum, not
\* by an input that counts twice.
PaymentsCreateNoValue ==
  [][phase = "apply" /\ phase' = "apply" /\ ~IsCoinbase(Head(queue)) =>
       SetValue(utxos') <= SetValue(utxos)]_vars
=============================================================================
