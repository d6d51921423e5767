---------------------------- MODULE UtxoSetProofs ----------------------------
(***************************************************************************)
(* Theorems of the two specifications over the UTXO set, which have no     *)
(* variable in common and share the lemmas about value.  BlockchainState:  *)
(* a refused block leaves no trace, and a payment creates no value, for    *)
(* any transactions and blocks.  Rewards: the subsidies of all blocks add  *)
(* up to what total_emitted says, every coin is accounted for, and a fresh *)
(* block validates, for any schedule, cap, transactions and blocks.        *)
(***************************************************************************)
EXTENDS BlockchainState, Rewards, FiniteSetTheorems, WellFoundedInduction, TLAPS

\* A change set leads from one set to the next, and the map has what it spent.
Undoable(changes, before, after, spent) ==
  /\ Distinct(changes.spent) /\ Distinct(changes.created)
  /\ ToSet(changes.spent) \subseteq before /\ ToSet(changes.spent) \subseteq spent
  /\ ToSet(changes.created) \cap before = {}
  /\ after = (before \ ToSet(changes.spent)) \cup ToSet(changes.created)

StepMade(i) == Undoable(changesets[i], trail[i], trail[i + 1], spent_outputs)

\* The trail leads from the set the block found to the present one.
Retraces ==
  phase # "idle" /\ ~overwritten =>
    /\ Len(trail) = Len(changesets) + 1
    /\ utxos = trail[Len(trail)]
    /\ \A i \in DOMAIN changesets : StepMade(i)

Inv == TypeOK /\ Retraces /\ RollbackSucceeds

-----------------------------------------------------------------------------
\* All of a sequence of distinct elements of a set is removed or restored.
LEMMA LeadingAll ==
  ASSUME NEW S, NEW seq \in Seq(S), NEW set, ToSet(seq) \subseteq set, Distinct(seq)
  PROVE  Leading(seq, set) = ToSet(seq)
<1>1. \A j \in DOMAIN seq : \A k \in 1..j : k \in DOMAIN seq /\ seq[k] \in set
  BY DEF ToSet
<1>2. \A j \in DOMAIN seq : \A k \in 1..j : \A i \in 1..k - 1 : i \in DOMAIN seq /\ i # k
  OBVIOUS
<1>3. \A j \in DOMAIN seq : \A k \in 1..j : \A i \in 1..k - 1 : seq[i] # seq[k]
  BY <1>1, <1>2 DEF Distinct
<1> QED BY <1>1, <1>3 DEF Leading, ToSet

\* What is removed or restored of a sequence comes from the set.
LEMMA LeadingPart ==
  ASSUME NEW S, NEW seq \in Seq(S), NEW set
  PROVE  Leading(seq, set) \subseteq set
<1>1. \A j \in DOMAIN seq : j \in 1..j
  OBVIOUS
<1> QED BY <1>1 DEF Leading

\* The created outpoints are distinct outpoints.
LEMMA CreatedFacts ==
  ASSUME NEW tx \in Transactions
  PROVE  /\ Created(tx) \in Seq(OutPoint) /\ Distinct(Created(tx))
         /\ ToSet(Created(tx)) = Outputs(tx)
         /\ Outputs(tx) \subseteq OutPoint
         /\ tx.inputs \in Seq(OutPoint) /\ ToSet(tx.inputs) = Inputs(tx)
         /\ Inputs(tx) \subseteq OutPoint
<1>1. tx.inputs \in Seq(OutPoint) /\ tx.outputs \in Seq([value : 0..MaxValue, burn : BOOLEAN])
  BY TransactionAssumption
<1>2. \A i \in DOMAIN tx.outputs : <<tx.id, i>> \in OutPoint
  BY TransactionAssumption
<1>3. DOMAIN tx.outputs = 1..Len(tx.outputs) /\ Len(tx.outputs) \in Nat
  BY <1>1
<1>4. Created(tx) \in Seq(OutPoint)
  BY <1>2, <1>3 DEF Created
<1>5. DOMAIN Created(tx) = DOMAIN tx.outputs
  BY DEF Created
<1>6. Distinct(Created(tx))
  BY <1>5 DEF Created, Distinct
<1>7. ToSet(Created(tx)) = Outputs(tx)
  BY <1>5 DEF Created, Outputs, ToSet
<1>8. Outputs(tx) \subseteq OutPoint
  BY <1>2 DEF Outputs
<1>9. ToSet(tx.inputs) = Inputs(tx) /\ Inputs(tx) \subseteq OutPoint
  BY <1>1 DEF ToSet, Inputs
<1> QED BY <1>1, <1>4, <1>6, <1>7, <1>8, <1>9

\* apply_tx changes the set as a whole or not at all.
LEMMA ApplyWhole ==
  ASSUME NEW tx \in Transactions, NEW u
  PROVE  IF ApplyTx(u, tx).ok
         THEN /\ Inputs(tx) \subseteq u /\ Distinct(tx.inputs)
              /\ ApplyTx(u, tx).utxos = (u \ Inputs(tx)) \cup Outputs(tx)
         ELSE ApplyTx(u, tx).utxos = u
<1>1. Valid(u, tx) => Inputs(tx) \subseteq u /\ Distinct(tx.inputs)
  <2>1. CASE IsCoinbase(tx)
    <3>1. DOMAIN tx.inputs = {}
      BY <2>1 DEF IsCoinbase
    <3> QED BY <3>1 DEF Inputs, Distinct
  <2>2. CASE ~IsCoinbase(tx)
    BY <2>2 DEF Valid
  <2> QED BY <2>1, <2>2
<1> QED BY <1>1 DEF ApplyTx

\* revert_tx undoes a step that can be undone, and leaves the outpoints it may.
LEMMA RevertWhole ==
  ASSUME NEW changes \in ChangeSets, NEW before, NEW u, NEW spent,
         Undoable(changes, before, u, spent)
  PROVE  RevertTx(u, changes, spent).ok /\ RevertTx(u, changes, spent).utxos = before
<1>1. changes.spent \in Seq(OutPoint) /\ changes.created \in Seq(OutPoint)
  BY DEF ChangeSets
<1>2. ToSet(changes.created) \subseteq u
  BY DEF Undoable
<1>3. Leading(changes.created, u) = ToSet(changes.created)
  BY <1>1, <1>2, LeadingAll DEF Undoable
<1>4. Leading(changes.spent, spent) = ToSet(changes.spent)
  BY <1>1, LeadingAll DEF Undoable
<1>5. (u \ ToSet(changes.created)) \cup ToSet(changes.spent) = before
  BY DEF Undoable
<1>6. ToSet(changes.spent) \subseteq spent
  BY DEF Undoable
<1> QED BY <1>2, <1>3, <1>4, <1>5, <1>6 DEF RevertTx

-----------------------------------------------------------------------------
\* Where nothing of the call in progress changes, nor the set, the trail still leads there.
LEMMA IdleKeeps ==
  ASSUME phase = "idle", UNCHANGED <<call, history>>, RollbackSucceeds
  PROVE  Retraces' /\ RollbackSucceeds'
BY DEF call, history, Retraces, RollbackSucceeds

\* The type of what a transaction leaves behind.
LEMMA ApplyTypes ==
  ASSUME NEW tx \in Transactions, NEW u \in SUBSET OutPoint
  PROVE  /\ ApplyTx(u, tx).utxos \in SUBSET OutPoint
         /\ ChangeSet(tx) \in ChangeSets
<1>1. ApplyTx(u, tx).utxos \subseteq OutPoint
  BY ApplyWhole, CreatedFacts
<1>2. tx.inputs \in Seq(OutPoint) /\ Created(tx) \in Seq(OutPoint)
  BY CreatedFacts
<1> QED BY <1>1, <1>2 DEF ChangeSet, ChangeSets

\* The type of what undoing a transaction leaves behind.
LEMMA RevertTypes ==
  ASSUME NEW changes \in ChangeSets, NEW u \in SUBSET OutPoint, NEW spent \in SUBSET OutPoint
  PROVE  RevertTx(u, changes, spent).utxos \in SUBSET OutPoint
<1>1. changes.spent \in Seq(OutPoint)
  BY DEF ChangeSets
<1>2. Leading(changes.spent, spent) \subseteq spent
  BY <1>1, LeadingPart
<1> QED BY <1>2 DEF RevertTx

\* All initial states satisfy the invariant.
LEMMA InitInv == Init => Inv
<1> SUFFICES ASSUME Init PROVE Inv
  OBVIOUS
<1>1. <<>> \in Seq(Transactions) /\ <<>> \in Seq(ChangeSets) /\ <<>> \in Seq(SUBSET OutPoint)
  OBVIOUS
<1>2. prune_markers \in Markers
  BY DEF Init, Markers
<1> QED BY <1>1, <1>2 DEF Init, Inv, TypeOK, Retraces, RollbackSucceeds

\* A transaction that is applied extends the trail by a step that can be undone.
LEMMA ApplyNextInv == Inv /\ ApplyNext => Inv'
<1> SUFFICES ASSUME Inv, ApplyNext PROVE Inv'
  OBVIOUS
<1> DEFINE tx == Head(queue)
           result == ApplyTx(utxos, tx)
<1>0. /\ phase = "apply" /\ queue # <<>> /\ result.ok /\ utxos' = result.utxos
      /\ spent_outputs' = spent_outputs \cup (Inputs(tx) \cap utxos)
      /\ changesets' = Append(changesets, ChangeSet(tx))
      /\ trail' = Append(trail, result.utxos)
      /\ overwritten' = (overwritten \/ Outputs(tx) \cap utxos # {})
      /\ queue' = Tail(queue)
      /\ UNCHANGED <<prune_markers, snapshot, phase, broken>>
  BY DEF ApplyNext, SaveSpent
<1>1. TypeOK /\ Retraces /\ RollbackSucceeds
  BY DEF Inv
<1>2. tx \in Transactions /\ Tail(queue) \in Seq(Transactions)
  BY <1>0, <1>1 DEF TypeOK
<1>3. result.utxos \in SUBSET OutPoint /\ ChangeSet(tx) \in ChangeSets
  BY <1>1, <1>2, ApplyTypes DEF TypeOK
<1>4. /\ Inputs(tx) \subseteq utxos /\ Distinct(tx.inputs)
      /\ result.utxos = (utxos \ Inputs(tx)) \cup Outputs(tx)
  BY <1>0, <1>2, ApplyWhole
<1>5. /\ Distinct(Created(tx)) /\ ToSet(Created(tx)) = Outputs(tx)
      /\ ToSet(tx.inputs) = Inputs(tx) /\ Inputs(tx) \subseteq OutPoint
  BY <1>2, CreatedFacts
<1> HIDE DEF tx, result
<1>6. TypeOK'
  <2>1. changesets' \in Seq(ChangeSets) /\ trail' \in Seq(SUBSET OutPoint)
    BY <1>0, <1>1, <1>3 DEF TypeOK
  <2>2. utxos' \subseteq OutPoint /\ spent_outputs' \subseteq OutPoint /\ overwritten' \in BOOLEAN
    BY <1>0, <1>1, <1>3, <1>5 DEF TypeOK
  <2> QED BY <1>0, <1>1, <1>2, <2>1, <2>2 DEF TypeOK, Markers
<1>7. Retraces'
  <2> SUFFICES ASSUME ~overwritten'
               PROVE  /\ Len(trail') = Len(changesets') + 1
                      /\ utxos' = trail'[Len(trail')]
                      /\ \A i \in DOMAIN changesets' : StepMade(i)'
    BY DEF Retraces
  <2>1. /\ Len(trail) = Len(changesets) + 1 /\ utxos = trail[Len(trail)]
        /\ \A i \in DOMAIN changesets : StepMade(i)
    BY <1>0, <1>1 DEF Retraces
  <2>2. changesets \in Seq(ChangeSets) /\ trail \in Seq(SUBSET OutPoint)
    BY <1>1 DEF TypeOK
  <2>3. PICK n \in Nat : n = Len(changesets)
    BY <2>2
  <2>4. /\ DOMAIN changesets' = 1..n + 1 /\ Len(changesets') = n + 1
        /\ changesets'[n + 1] = ChangeSet(tx)
        /\ \A i \in 1..n : changesets'[i] = changesets[i]
    BY <1>0, <2>2, <2>3, <1>3
  <2>5. /\ Len(trail') = n + 1 + 1 /\ trail'[n + 1] = utxos /\ trail'[n + 1 + 1] = result.utxos
        /\ \A i \in 1..n + 1 : trail'[i] = trail[i]
    BY <1>0, <2>1, <2>2, <2>3, <1>3
  <2>6. ASSUME NEW i \in 1..n PROVE StepMade(i)'
    <3>1. StepMade(i) /\ changesets'[i] = changesets[i] /\ trail'[i] = trail[i] /\ trail'[i + 1] = trail[i + 1]
      BY <2>1, <2>2, <2>3, <2>4, <2>5
    <3>2. spent_outputs \subseteq spent_outputs'
      BY <1>0
    <3> QED BY <3>1, <3>2 DEF StepMade, Undoable
  <2>7. StepMade(n + 1)'
    <3>1. ChangeSet(tx).spent = tx.inputs /\ ChangeSet(tx).created = Created(tx)
      BY DEF ChangeSet
    <3>2. Inputs(tx) \subseteq spent_outputs' /\ Outputs(tx) \cap utxos = {}
      BY <1>0, <1>4
    <3>3. Undoable(ChangeSet(tx), utxos, result.utxos, spent_outputs')
      BY <3>1, <3>2, <1>4, <1>5 DEF Undoable
    <3> QED BY <3>3, <2>4, <2>5 DEF StepMade
  <2>8. \A i \in DOMAIN changesets' : StepMade(i)'
    <3>1. \A i \in 1..n + 1 : i \in 1..n \/ i = n + 1
      OBVIOUS
    <3> QED BY <3>1, <2>4, <2>6, <2>7
  <2> QED BY <2>4, <2>5, <2>8, <1>0
<1>8. RollbackSucceeds'
  BY <1>0, <1>1 DEF RollbackSucceeds
<1> QED BY <1>6, <1>7, <1>8 DEF Inv

\* A transaction that is refused changes nothing of the set.
LEMMA RejectNextInv == Inv /\ RejectNext => Inv'
<1> SUFFICES ASSUME Inv, RejectNext PROVE Inv'
  OBVIOUS
<1> DEFINE tx == Head(queue)
<1>0. /\ phase = "apply" /\ queue # <<>> /\ ~ApplyTx(utxos, tx).ok /\ utxos' = ApplyTx(utxos, tx).utxos
      /\ spent_outputs' = spent_outputs \cup (Inputs(tx) \cap utxos)
      /\ phase' = "rollback"
      /\ UNCHANGED <<prune_markers, snapshot, queue, changesets, trail, history>>
  BY DEF RejectNext, SaveSpent
<1>1. TypeOK /\ Retraces /\ RollbackSucceeds
  BY DEF Inv
<1>2. tx \in Transactions
  BY <1>0, <1>1 DEF TypeOK
<1>3. utxos' = utxos
  BY <1>0, <1>2, ApplyWhole
<1> HIDE DEF tx
<1>4. spent_outputs' \subseteq OutPoint /\ spent_outputs \subseteq spent_outputs'
  BY <1>0, <1>1 DEF TypeOK
<1>5. TypeOK'
  BY <1>0, <1>1, <1>3, <1>4 DEF TypeOK, Markers, history
<1>6. Retraces'
  BY <1>0, <1>1, <1>3, <1>4 DEF Retraces, StepMade, Undoable, history
<1> QED BY <1>0, <1>1, <1>5, <1>6 DEF Inv, RollbackSucceeds, history

\* While the trail is known, undoing the last transaction succeeds and leads one step back.
LEMMA UndoRetraces ==
  ASSUME Inv, phase = "rollback", changesets # <<>>, ~overwritten
  PROVE  /\ RevertTx(utxos, Last(changesets), spent_outputs).ok
         /\ RevertTx(utxos, Last(changesets), spent_outputs).utxos = trail[Len(changesets)]
<1>1. TypeOK /\ Retraces
  BY DEF Inv
<1>2. changesets \in Seq(ChangeSets) /\ Len(changesets) \in DOMAIN changesets
  BY <1>1 DEF TypeOK
<1>3. /\ Len(trail) = Len(changesets) + 1 /\ utxos = trail[Len(trail)]
      /\ StepMade(Len(changesets))
  BY <1>1, <1>2 DEF Retraces
<1>4. Undoable(Last(changesets), trail[Len(changesets)], utxos, spent_outputs)
  BY <1>3 DEF StepMade, Last
<1>5. Last(changesets) \in ChangeSets
  BY <1>2 DEF Last
<1> QED BY <1>4, <1>5, RevertWhole

\* Undoing a transaction shortens the trail by one.
LEMMA UndoLastInv == Inv /\ UndoLast => Inv'
<1> SUFFICES ASSUME Inv, UndoLast PROVE Inv'
  OBVIOUS
<1> DEFINE result == RevertTx(utxos, Last(changesets), spent_outputs)
<1>0. /\ phase = "rollback" /\ changesets # <<>> /\ utxos' = result.utxos
      /\ changesets' = Front(changesets) /\ trail' = Front(trail)
      /\ UNCHANGED <<prune_markers, snapshot, phase, queue, spent_outputs, history>>
  BY DEF UndoLast
<1>1. TypeOK /\ Retraces /\ RollbackSucceeds
  BY DEF Inv
<1>2. changesets \in Seq(ChangeSets) /\ trail \in Seq(SUBSET OutPoint)
  BY <1>1 DEF TypeOK
<1>3. Last(changesets) \in ChangeSets
  BY <1>0, <1>2 DEF Last
<1>4. result.utxos \in SUBSET OutPoint
  BY <1>1, <1>3, RevertTypes DEF TypeOK
<1>5. PICK n \in Nat : Len(changesets) = n + 1
  BY <1>0, <1>2
<1>6. /\ changesets' \in Seq(ChangeSets) /\ Len(changesets') = n /\ DOMAIN changesets' = 1..n
      /\ \A i \in 1..n : changesets'[i] = changesets[i]
  BY <1>0, <1>2, <1>5 DEF Front
<1> HIDE DEF result
<1>7. Retraces'
  <2> SUFFICES ASSUME ~overwritten'
               PROVE  /\ Len(trail') = Len(changesets') + 1
                      /\ utxos' = trail'[Len(trail')]
                      /\ \A i \in DOMAIN changesets' : StepMade(i)'
    BY DEF Retraces
  <2>1. ~overwritten
    BY <1>0 DEF history
  <2>2. /\ Len(trail) = n + 1 + 1 /\ \A i \in DOMAIN changesets : StepMade(i)
    BY <1>0, <1>1, <1>5, <2>1 DEF Retraces
  <2>3. result.utxos = trail[n + 1]
    BY <1>0, <1>5, <2>1, UndoRetraces DEF result
  <2>4. Len(trail') = n + 1 /\ \A i \in 1..n + 1 : trail'[i] = trail[i]
    BY <1>0, <1>2, <2>2 DEF Front
  <2>5. ASSUME NEW i \in 1..n PROVE StepMade(i)'
    <3>1. StepMade(i) /\ changesets'[i] = changesets[i] /\ trail'[i] = trail[i] /\ trail'[i + 1] = trail[i + 1]
      BY <1>2, <1>5, <1>6, <2>2, <2>4
    <3> QED BY <3>1, <1>0 DEF StepMade
  <2> QED BY <1>0, <1>6, <2>3, <2>4, <2>5
<1>8. trail' \in Seq(SUBSET OutPoint)
  <2>1. CASE trail = <<>>
    BY <1>0, <1>2, <2>1 DEF Front
  <2>2. CASE trail # <<>>
    BY <1>0, <1>2, <2>2 DEF Front
  <2> QED BY <2>1, <2>2
<1>9. TypeOK'
  BY <1>0, <1>1, <1>4, <1>6, <1>8 DEF TypeOK, Markers, history
<1> QED BY <1>0, <1>1, <1>7, <1>9 DEF Inv, RollbackSucceeds, history

\* What a call leaves of its own state when it returns is well typed.
LEMMA ReturnTypes ==
  ASSUME TypeOK, NEW outcome \in BOOLEAN, Return(outcome), utxos' \in SUBSET OutPoint
  PROVE  TypeOK'
<1>1. <<>> \in Seq(Transactions) /\ <<>> \in Seq(ChangeSets) /\ <<>> \in Seq(SUBSET OutPoint)
  OBVIOUS
<1>2. /\ phase' = "idle" /\ queue' = <<>> /\ changesets' = <<>> /\ spent_outputs' = {} /\ trail' = <<>>
      /\ broken' = outcome /\ UNCHANGED <<prune_markers, snapshot, overwritten>>
  BY DEF Return
<1> QED BY <1>1, <1>2 DEF TypeOK, Markers

\* A rollback gives up only where an output was overwritten.
LEMMA GiveUpInv == Inv /\ GiveUp => Inv' /\ overwritten
<1> SUFFICES ASSUME Inv, GiveUp PROVE Inv' /\ overwritten
  OBVIOUS
<1> DEFINE result == RevertTx(utxos, Last(changesets), spent_outputs)
<1>0. /\ phase = "rollback" /\ changesets # <<>> /\ ~result.ok /\ utxos' = result.utxos
      /\ Return(TRUE)
  BY DEF GiveUp
<1>1. TypeOK /\ Retraces /\ RollbackSucceeds
  BY DEF Inv
<1>2. overwritten
  BY <1>0, <1>1, UndoRetraces DEF TypeOK
<1>3. changesets \in Seq(ChangeSets)
  BY <1>1 DEF TypeOK
<1>4. Last(changesets) \in ChangeSets
  BY <1>0, <1>3 DEF Last
<1>5. result.utxos \in SUBSET OutPoint
  BY <1>1, <1>4, RevertTypes DEF TypeOK
<1> HIDE DEF result
<1>6. TypeOK'
  BY <1>0, <1>1, <1>5, ReturnTypes
<1> QED BY <1>0, <1>2, <1>6 DEF Inv, Return, Retraces, RollbackSucceeds

\* A call that returns otherwise leaves the set alone.
LEMMA EndInv == Inv /\ (EndRollback \/ EndBlock) => Inv'
<1> SUFFICES ASSUME Inv, EndRollback \/ EndBlock PROVE Inv'
  OBVIOUS
<1>1. Return(FALSE) /\ UNCHANGED utxos
  BY DEF EndRollback, EndBlock
<1>2. TypeOK'
  <2>1. TypeOK /\ utxos' \in SUBSET OutPoint
    BY <1>1 DEF Inv, TypeOK
  <2> QED BY <1>1, <2>1, ReturnTypes
<1> QED BY <1>1, <1>2 DEF Inv, Return, Retraces, RollbackSucceeds

\* A block starts with a trail of one set.
LEMMA BeginBlockInv == ASSUME NEW txs \in Blocks PROVE Inv /\ BeginBlock(txs) => Inv'
<1> SUFFICES ASSUME Inv, BeginBlock(txs) PROVE Inv'
  OBVIOUS
<1>1. /\ phase' = "apply" /\ queue' = txs /\ changesets' = <<>> /\ spent_outputs' = {}
      /\ trail' = <<utxos>> /\ overwritten' = FALSE /\ broken' = FALSE
      /\ UNCHANGED <<utxos, prune_markers, snapshot>>
  BY DEF BeginBlock, state
<1>2. TypeOK
  BY DEF Inv
<1>3. txs \in Seq(Transactions) /\ <<utxos>> \in Seq(SUBSET OutPoint) /\ <<>> \in Seq(ChangeSets)
  BY <1>2, BlockAssumption DEF TypeOK
<1>4. TypeOK'
  BY <1>1, <1>2, <1>3 DEF TypeOK, Markers
<1>5. Retraces'
  BY <1>1 DEF Retraces
<1> QED BY <1>1, <1>4, <1>5 DEF Inv, RollbackSucceeds

\* The methods called between blocks do not disturb it.
LEMMA BetweenBlocksInv ==
  ASSUME Inv,
         \/ \E txs \in Blocks : RevertBlock(txs)
         \/ \E op \in Markable : Prune({op}) \/ \E epoch \in Epoch : MarkLeafForPruning(op, epoch)
         \/ \E threshold \in Epoch : PruneOlderThan(threshold)
         \/ Snapshot \/ Restore
  PROVE  Inv'
<1>1. TypeOK /\ Retraces /\ RollbackSucceeds
  BY DEF Inv
<1>2. phase = "idle" /\ UNCHANGED <<call, history>>
  BY DEF RevertBlock, Prune, MarkLeafForPruning, PruneOlderThan, Snapshot, Restore
<1> DEFINE Typed ==
      /\ utxos' \subseteq OutPoint /\ prune_markers' \in Markers
      /\ snapshot' # None => snapshot'.utxos \subseteq OutPoint /\ snapshot'.prune_markers \in Markers
<1>3. Typed
  <2>1. CASE \E txs \in Blocks : RevertBlock(txs)
    BY <1>1, <2>1 DEF RevertBlock, TypeOK, Markers
  <2>2. ASSUME NEW ops, Prune(ops) PROVE Typed
    BY <1>1, <2>2 DEF Prune, TypeOK, Markers
  <2>3. ASSUME NEW op \in Markable, NEW epoch \in Epoch, MarkLeafForPruning(op, epoch) PROVE Typed
    <3>1. op \in OutPoint /\ prune_markers' = [prune_markers EXCEPT ![op] = epoch]
          /\ UNCHANGED <<utxos, snapshot>>
      BY <2>3, BlockAssumption DEF MarkLeafForPruning
    <3> QED BY <1>1, <3>1 DEF TypeOK, Markers
  <2>4. CASE Snapshot
    BY <1>1, <2>4 DEF Snapshot, TypeOK, Markers, state
  <2>5. CASE Restore
    BY <1>1, <2>5 DEF Restore, TypeOK, Markers
  <2> QED BY <2>1, <2>2, <2>3, <2>4, <2>5 DEF PruneOlderThan
<1>4. TypeOK'
  BY <1>1, <1>2, <1>3 DEF TypeOK, call, history
<1> QED BY <1>1, <1>2, <1>4, IdleKeeps DEF Inv

-----------------------------------------------------------------------------
\* The invariant holds in every reachable state.
THEOREM InvHolds == Spec => []Inv
<1>1. Init => Inv
  BY InitInv
<1>2. Inv /\ [Next]_vars => Inv'
  <2> SUFFICES ASSUME Inv, [Next]_vars PROVE Inv'
    OBVIOUS
  <2>1. ASSUME NEW txs \in Blocks, BeginBlock(txs) PROVE Inv'
    BY <2>1, BeginBlockInv
  <2>2. CASE ApplyNext
    BY <2>2, ApplyNextInv
  <2>3. CASE RejectNext
    BY <2>3, RejectNextInv
  <2>4. CASE UndoLast
    BY <2>4, UndoLastInv
  <2>5. CASE GiveUp
    BY <2>5, GiveUpInv
  <2>6. CASE EndRollback \/ EndBlock
    BY <2>6, EndInv
  <2>7. CASE \/ \E txs \in Blocks : RevertBlock(txs)
             \/ \E op \in Markable : Prune({op}) \/ \E epoch \in Epoch : MarkLeafForPruning(op, epoch)
             \/ \E threshold \in Epoch : PruneOlderThan(threshold)
             \/ Snapshot \/ Restore
    BY <2>7, BetweenBlocksInv
  <2>8. CASE UNCHANGED vars
    BY <2>8 DEF vars, state, call, history, Inv, TypeOK, Markers, Retraces, StepMade,
                RollbackSucceeds
  <2> QED BY <2>1, <2>2, <2>3, <2>4, <2>5, <2>6, <2>7, <2>8 DEF Next
<1> QED BY <1>1, <1>2, PTL DEF Spec

\* Types, for any transactions, blocks and markable outpoints.
THEOREM TypeCorrect == Spec => []TypeOK
<1>1. Inv => TypeOK
  BY DEF Inv
<1> QED BY <1>1, InvHolds, PTL

\* The error path of apply_block fails only where the block has overwritten an output.
THEOREM RollbackAlwaysSucceeds == Spec => []RollbackSucceeds
<1>1. Inv => RollbackSucceeds
  BY DEF Inv
<1> QED BY <1>1, InvHolds, PTL

\* A refused block leaves the UTXO set as it found it.
THEOREM RejectedBlocksLeaveNoTrace == Spec => RejectedBlockLeavesNoTrace
<1>1. ASSUME Inv, [Next]_vars, phase = "rollback", phase' = "idle", ~overwritten
      PROVE  utxos' = Head(trail)
  <2>1. TypeOK /\ Retraces
    BY <1>1 DEF Inv
  <2>2. CASE GiveUp
    BY <1>1, <2>2, GiveUpInv
  <2>3. CASE EndRollback
    <3>1. changesets = <<>> /\ utxos' = utxos
      BY <2>3 DEF EndRollback
    <3>2. Len(changesets) = 0
      BY <3>1
    <3>3. Len(trail) = Len(changesets) + 1 /\ utxos = trail[Len(trail)]
      BY <1>1, <2>1 DEF Retraces
    <3> QED BY <3>1, <3>2, <3>3, <2>1 DEF TypeOK
  <2>4. GiveUp \/ EndRollback
    BY <1>1 DEF Next, vars, call, BeginBlock, RevertBlock, ApplyNext, RejectNext, UndoLast, EndBlock,
                Prune, PruneOlderThan, MarkLeafForPruning, Snapshot, Restore
  <2> QED BY <2>2, <2>3, <2>4
<1>2. Inv /\ [Next]_vars =>
        [phase = "rollback" /\ phase' = "idle" /\ ~overwritten => utxos' = Head(trail)]_vars
  BY <1>1
<1> QED BY <1>2, InvHolds, PTL DEF Spec, RejectedBlockLeavesNoTrace

-----------------------------------------------------------------------------
(* Sums over the subsets of a finite set. *)

\* A nonempty set of naturals has a least element.
LEMMA LeastOf ==
  ASSUME NEW T \in SUBSET Nat, T # {}
  PROVE  \E x \in T : \A y \in T : x <= y
<1> DEFINE R == {ss \in Nat \X Nat : ss[1] < ss[2]}
<1>1. IsWellFoundedOn(R, Nat)
  BY NatLessThanWellFounded DEF OpToRel
<1>2. PICK x \in T : \A y \in T : ~ (<<y, x>> \in R)
  <2> HIDE DEF R
  <2> QED BY <1>1, WFMin
<1>3. ASSUME NEW y \in T, y < x PROVE FALSE
  <2>1. <<y, x>> \in R
    BY <1>3
  <2> QED BY <1>2, <2>1
<1> QED BY <1>3

\* Induction over the subsets of a finite set.
LEMMA SubsetInduction ==
  ASSUME NEW S, IsFiniteSet(S), NEW T,
         \A s \in SUBSET S : (\A x \in s : s \ {x} \in T) => s \in T
  PROVE  \A s \in SUBSET S : s \in T
<1> DEFINE sizes == {Cardinality(s) : s \in {r \in SUBSET S : r \notin T}}
<1>0. \A s \in SUBSET S : IsFiniteSet(s) /\ Cardinality(s) \in Nat
  BY FS_Subset, FS_CardinalityType
<1>1. SUFFICES ASSUME sizes # {} PROVE FALSE
  OBVIOUS
<1>2. sizes \in SUBSET Nat
  BY <1>0
<1>3. PICK n \in sizes : \A m \in sizes : n <= m
  <2> HIDE DEF sizes
  <2> QED BY <1>1, <1>2, LeastOf
<1>4. PICK s \in SUBSET S : s \notin T /\ Cardinality(s) = n
  OBVIOUS
<1>5. PICK x \in s : s \ {x} \notin T
  BY <1>4
<1>6. Cardinality(s \ {x}) = n - 1 /\ n \in Nat
  BY <1>0, <1>4, FS_RemoveElement
<1>7. n - 1 \in sizes
  BY <1>5, <1>6
<1> HIDE DEF sizes
<1> QED BY <1>3, <1>6, <1>7

\* g gives the sum of f over each subset of S.
Sums(g, f, S) ==
  /\ g \in [SUBSET S -> Nat] /\ g[{}] = 0
  /\ \A s \in SUBSET S : \A x \in s : g[s] = f[x] + g[s \ {x}]

\* The element that a fold over a set takes out of it.
Chosen(s) == CHOOSE x \in s : TRUE

\* The sums exist.
LEMMA SumsExist ==
  ASSUME NEW S, IsFiniteSet(S), NEW f \in [S -> Nat]
  PROVE  \E g : Sums(g, f, S)
<1> DEFINE X == [SUBSET S -> Nat]
           Right(h, s) == IF s = {} THEN 0 ELSE f[Chosen(s)] + h[s \ {Chosen(s)}]
           Upto(h, n) == \A s \in SUBSET S : Cardinality(s) <= n => h[s] = Right(h, s)
           bad == {n \in Nat : ~\E h \in X : Upto(h, n)}
<1>0. \A s \in SUBSET S : /\ IsFiniteSet(s) /\ Cardinality(s) \in Nat
                          /\ Cardinality(s) <= Cardinality(S)
                          /\ s # {} => /\ Chosen(s) \in s /\ Cardinality(s) # 0
                                       /\ Cardinality(s \ {Chosen(s)}) = Cardinality(s) - 1
  BY FS_Subset, FS_CardinalityType, FS_EmptySet, FS_RemoveElement DEF Chosen
<1>1. \A h \in X : \A s \in SUBSET S : Right(h, s) \in Nat
  BY <1>0
<1>2. 0 \notin bad
  <2> DEFINE h == [s \in SUBSET S |-> 0]
  <2>1. h \in X
    OBVIOUS
  <2>2. ASSUME NEW s \in SUBSET S, Cardinality(s) <= 0 PROVE s = {}
    <3>1. Cardinality(s) \in Nat /\ (s # {} => Cardinality(s) # 0)
      BY <1>0
    <3> QED BY <2>2, <3>1
  <2>3. Upto(h, 0)
    BY <2>2
  <2> QED BY <2>1, <2>3
<1>3. ASSUME NEW n \in Nat, n \notin bad PROVE n + 1 \notin bad
  <2>1. PICK h \in X : Upto(h, n)
    BY <1>3
  <2> DEFINE next == [s \in SUBSET S |-> Right(h, s)]
  <2>2. next \in X
    BY <1>1
  <2>3. \A s \in SUBSET S : Cardinality(s) <= n => next[s] = h[s]
    BY <2>1
  <2>4. ASSUME NEW s \in SUBSET S, Cardinality(s) <= n + 1 PROVE next[s] = Right(next, s)
    <3>1. CASE s = {}
      BY <3>1
    <3>2. CASE s # {}
      <4>1. s \ {Chosen(s)} \in SUBSET S /\ Cardinality(s \ {Chosen(s)}) <= n
        BY <1>0, <2>4, <3>2
      <4>2. next[s \ {Chosen(s)}] = h[s \ {Chosen(s)}]
        BY <2>3, <4>1
      <4> QED BY <3>2, <4>2
    <3> QED BY <3>1, <3>2
  <2> HIDE DEF next, Right
  <2> QED BY <2>2, <2>4
<1>4. bad = {}
  <2>1. SUFFICES ASSUME bad # {} PROVE FALSE
    OBVIOUS
  <2>2. bad \in SUBSET Nat
    OBVIOUS
  <2> HIDE DEF bad
  <2>3. PICK n \in bad : \A m \in bad : n <= m
    BY <2>1, <2>2, LeastOf
  <2>4. n \in Nat /\ n # 0
    BY <1>2, <2>2, <2>3
  <2>5. n - 1 \in Nat /\ n - 1 \notin bad /\ (n - 1) + 1 = n
    BY <2>3, <2>4
  <2> QED BY <1>3, <2>3, <2>5
<1>5. PICK h \in X : \A s \in SUBSET S : h[s] = Right(h, s)
  <2>1. PICK h \in X : Upto(h, Cardinality(S))
    BY <1>0, <1>4
  <2> QED BY <1>0, <2>1
<1>6. \A s \in SUBSET S : \A x \in s : h[s] = f[x] + h[s \ {x}]
  <2> DEFINE T == {s \in SUBSET S : \A x \in s : h[s] = f[x] + h[s \ {x}]}
  <2>1. ASSUME NEW s \in SUBSET S, \A x \in s : s \ {x} \in T, NEW x \in s
        PROVE  h[s] = f[x] + h[s \ {x}]
    <3> DEFINE c == Chosen(s)
    <3>1. c \in s /\ h[s] = f[c] + h[s \ {c}]
      BY <1>0, <1>5, <2>1
    <3> HIDE DEF c
    <3>2. CASE x = c
      BY <3>1, <3>2
    <3>3. CASE x # c
      <4>1. h[s \ {c}] = f[x] + h[(s \ {c}) \ {x}]
        BY <2>1, <3>1, <3>3
      <4>2. h[s \ {x}] = f[c] + h[(s \ {x}) \ {c}]
        BY <2>1, <3>1, <3>3
      <4>3. (s \ {x}) \ {c} = (s \ {c}) \ {x}
        OBVIOUS
      <4>4. f[x] \in Nat /\ f[c] \in Nat /\ h[(s \ {x}) \ {c}] \in Nat
        BY <2>1, <3>1
      <4>5. h[s] = f[c] + (f[x] + h[(s \ {x}) \ {c}])
        BY <3>1, <4>1, <4>3
      <4> QED BY <4>2, <4>4, <4>5
    <3> QED BY <3>2, <3>3
  <2>2. \A s \in SUBSET S : (\A x \in s : s \ {x} \in T) => s \in T
    BY <2>1
  <2> HIDE DEF T
  <2>3. \A s \in SUBSET S : s \in T
    BY <2>2, SubsetInduction
  <2> QED BY <2>3 DEF T
<1>7. h[{}] = 0
  BY <1>5
<1> QED BY <1>5, <1>6, <1>7 DEF Sums

\* j puts the terms of f one to one among those of e.
Carries(j, S, f, R, e) ==
  /\ j \in [S -> R] /\ \A x, y \in S : j[x] = j[y] => x = y
  /\ \A x \in S : f[x] = e[j[x]]
ImageOf(j, s) == {j[x] : x \in s}

\* An injection that keeps the terms keeps the sums.
LEMMA SumsAlong ==
  ASSUME NEW S, IsFiniteSet(S), NEW R, NEW f, NEW e, NEW g, Sums(g, f, S), NEW h, Sums(h, e, R),
         NEW j, Carries(j, S, f, R, e)
  PROVE  g[S] = h[ImageOf(j, S)]
<1> DEFINE over(s) == ImageOf(j, s)
           T == {s \in SUBSET S : g[s] = h[over(s)]}
<1>0. j \in [S -> R] /\ (\A x, y \in S : j[x] = j[y] => x = y) /\ \A x \in S : f[x] = e[j[x]]
  BY DEF Carries
<1>1. ASSUME NEW s \in SUBSET S, \A x \in s : s \ {x} \in T PROVE g[s] = h[over(s)]
  <2>1. CASE s = {}
    <3>1. over(s) = {}
      BY <2>1 DEF ImageOf
    <3> HIDE DEF over
    <3> QED BY <2>1, <3>1 DEF Sums
  <2>2. ASSUME NEW x \in s PROVE g[s] = h[over(s)]
    <3>1. g[s] = f[x] + g[s \ {x}] /\ g[s \ {x}] = h[over(s \ {x})]
      BY <1>1 DEF Sums
    <3>2. j[x] \in over(s) /\ over(s) \in SUBSET R
      BY <1>0 DEF ImageOf
    <3>3. h[over(s)] = e[j[x]] + h[over(s) \ {j[x]}]
      <4> HIDE DEF over
      <4> QED BY <3>2 DEF Sums
    <3>4. over(s) \ {j[x]} = over(s \ {x})
      BY <1>0 DEF ImageOf
    <3>5. f[x] = e[j[x]]
      BY <1>0
    <3> HIDE DEF over
    <3> QED BY <3>1, <3>3, <3>4, <3>5
  <2> QED BY <2>1, <2>2
<1>2. \A s \in SUBSET S : (\A x \in s : s \ {x} \in T) => s \in T
  BY <1>1
<1> HIDE DEF T
<1>3. \A s \in SUBSET S : s \in T
  BY <1>2, SubsetInduction
<1>4. S \in T
  BY <1>3
<1> QED BY <1>4 DEF T

\* The sums over disjoint sets add up, and a larger set has a larger sum.
LEMMA SumsAdd ==
  ASSUME NEW S, IsFiniteSet(S), NEW f \in [S -> Nat], NEW g, Sums(g, f, S),
         NEW a \in SUBSET S
  PROVE  /\ \A b \in SUBSET S : a \cap b = {} => g[a \cup b] = g[a] + g[b]
         /\ \A b \in SUBSET S : a \subseteq b => g[a] <= g[b]
<1> DEFINE T == {b \in SUBSET S : a \cap b = {} => g[a \cup b] = g[a] + g[b]}
<1>0. \A s \in SUBSET S : g[s] \in Nat
  BY DEF Sums
<1>1. ASSUME NEW b \in SUBSET S, \A x \in b : b \ {x} \in T, a \cap b = {}
      PROVE  g[a \cup b] = g[a] + g[b]
  <2>1. CASE b = {}
    <3>1. g[b] = 0 /\ a \cup b = a
      BY <2>1 DEF Sums
    <3>2. g[a] \in Nat /\ g[a \cup b] = g[a]
      BY <1>0, <3>1
    <3> QED BY <3>1, <3>2
  <2>2. ASSUME NEW x \in b PROVE g[a \cup b] = g[a] + g[b]
    <3>1. g[b] = f[x] + g[b \ {x}]
      BY DEF Sums
    <3>2. g[a \cup b] = f[x] + g[(a \cup b) \ {x}]
      <4>1. a \cup b \in SUBSET S /\ x \in a \cup b
        OBVIOUS
      <4> QED BY <4>1 DEF Sums
    <3>3. (a \cup b) \ {x} = a \cup (b \ {x}) /\ a \cap (b \ {x}) = {}
      BY <1>1
    <3>4. g[a \cup (b \ {x})] = g[a] + g[b \ {x}]
      BY <1>1, <3>3
    <3>5. f[x] \in Nat /\ g[a] \in Nat /\ g[b \ {x}] \in Nat
      BY <1>0
    <3>6. g[a \cup b] = f[x] + (g[a] + g[b \ {x}])
      BY <3>2, <3>3, <3>4
    <3> QED BY <3>1, <3>5, <3>6
  <2> QED BY <2>1, <2>2
<1>2. \A b \in SUBSET S : (\A x \in b : b \ {x} \in T) => b \in T
  BY <1>1
<1>3. \A b \in SUBSET S : b \in T
  <2> HIDE DEF T
  <2> QED BY <1>2, SubsetInduction
<1>4. ASSUME NEW b \in SUBSET S, a \subseteq b PROVE g[a] <= g[b]
  <2>1. a \cup (b \ a) = b /\ a \cap (b \ a) = {} /\ b \ a \in SUBSET S
    BY <1>4
  <2>2. g[b] = g[a] + g[b \ a]
    BY <1>3, <2>1
  <2>3. g[a] \in Nat /\ g[b \ a] \in Nat
    BY <1>0, <2>1
  <2> QED BY <2>2, <2>3
<1> QED BY <1>3, <1>4


-----------------------------------------------------------------------------
(* The sums of the model: of a UTXO set, of the inputs and of the outputs.  *)

\* The equations that define the recursive functions of these folds.
SetSolves(g, S) ==
  g = [s \in SUBSET S |-> IF s = {} THEN 0 ELSE Value(Chosen(s)) + g[s \ {Chosen(s)}]]
InputSolves(g, tx) ==
  g = [s \in SUBSET DOMAIN tx.inputs |->
         IF s = {} THEN 0 ELSE g[s \ {Max(s)}] + Value(tx.inputs[Max(s)])]
OutputSolves(g, tx) ==
  g = [s \in SUBSET DOMAIN tx.outputs |->
         IF s = {} THEN 0 ELSE g[s \ {Max(s)}] + tx.outputs[Max(s)].value]

\* The folds are the values of these functions at the whole set or sequence.
LEMMA FoldsAre ==
  /\ \A S : SetValue(S) = (CHOOSE g : SetSolves(g, S))[S]
  /\ \A tx : InputTotal(tx) = (CHOOSE g : InputSolves(g, tx))[DOMAIN tx.inputs]
  /\ \A tx : OutputTotal(tx) = (CHOOSE g : OutputSolves(g, tx))[DOMAIN tx.outputs]
<1>1. \A S : SetValue(S) = (CHOOSE g : SetSolves(g, S))[S]
  BY Zenon DEF SetValue, MapThenSumSet, MapThenFoldSet, SetSolves, Chosen
<1>2. \A tx : InputTotal(tx) = (CHOOSE g : InputSolves(g, tx))[DOMAIN tx.inputs]
  BY Zenon DEF InputTotal, FoldLeft, MapThenFoldSet, InputSolves
<1>3. \A tx : OutputTotal(tx) = (CHOOSE g : OutputSolves(g, tx))[DOMAIN tx.outputs]
  BY Zenon DEF OutputTotal, FoldLeft, MapThenFoldSet, OutputSolves
<1> QED BY <1>1, <1>2, <1>3

\* The last index of a set of indexes is one of them.
LEMMA MaxIn ==
  ASSUME NEW n \in Nat, NEW s \in SUBSET (1..n), s # {}
  PROVE  Max(s) \in s
<1> DEFINE below == {n - x : x \in s}
<1>0. \A x \in s : x \in Nat /\ x <= n /\ n - x \in Nat
  OBVIOUS
<1>1. below \in SUBSET Nat /\ below # {}
  BY <1>0
<1>2. PICK m \in below : \A k \in below : m <= k
  <2> HIDE DEF below
  <2> QED BY <1>1, LeastOf
<1>3. PICK x \in s : m = n - x
  OBVIOUS
<1>4. \A y \in s : x >= y
  <2> TAKE y \in s
  <2>1. n - y \in below
    OBVIOUS
  <2> HIDE DEF below
  <2>2. n - x <= n - y
    BY <1>2, <1>3, <2>1
  <2> QED BY <1>0, <2>2
<1> QED BY <1>4 DEF Max

\* h adds up the elements of a set in the order in which pick takes them.
AddsUp(h, f, pick, S) ==
  \A s \in SUBSET S : /\ s # {} => pick[s] \in s
                      /\ h[s] = IF s = {} THEN 0 ELSE f[pick[s]] + h[s \ {pick[s]}]

\* In whatever order they are taken, the sum is the same.
LEMMA SumsFound ==
  ASSUME NEW S, IsFiniteSet(S), NEW f \in [S -> Nat], NEW g, Sums(g, f, S), NEW h,
         NEW pick, AddsUp(h, f, pick, S)
  PROVE  h[S] = g[S]
<1> DEFINE T == {s \in SUBSET S : h[s] = g[s]}
<1>1. ASSUME NEW s \in SUBSET S, \A x \in s : s \ {x} \in T PROVE h[s] = g[s]
  <2>1. CASE s = {}
    BY <2>1 DEF Sums, AddsUp
  <2>2. CASE s # {}
    <3> DEFINE x == pick[s]
    <3>1. x \in s /\ h[s] = f[x] + h[s \ {x}]
      BY <2>2 DEF AddsUp
    <3>2. h[s \ {x}] = g[s \ {x}]
      BY <1>1, <3>1
    <3>3. g[s] = f[x] + g[s \ {x}]
      BY <3>1 DEF Sums
    <3> QED BY <3>1, <3>2, <3>3
  <2> QED BY <2>1, <2>2
<1>2. \A s \in SUBSET S : (\A x \in s : s \ {x} \in T) => s \in T
  BY <1>1
<1> HIDE DEF T
<1>3. S \in T
  BY <1>2, SubsetInduction
<1> QED BY <1>3 DEF T

\* The value of a finite UTXO set is a sum.
LEMMA SetSum ==
  ASSUME NEW S, IsFiniteSet(S), \A op \in S : Value(op) \in Nat,
         NEW g, Sums(g, [op \in S |-> Value(op)], S)
  PROVE  SetValue(S) = g[S]
<1> DEFINE f == [op \in S |-> Value(op)]
           h == CHOOSE k : SetSolves(k, S)
           pick == [s \in SUBSET S |-> Chosen(s)]
<1>1. f \in [S -> Nat] /\ Sums(g, f, S)
  OBVIOUS
<1>2. \A s \in SUBSET S : s # {} => Chosen(s) \in s
  BY DEF Chosen
<1>3. SetSolves(g, S)
  <2>1. g = [s \in SUBSET S |-> g[s]]
    BY DEF Sums
  <2>2. \A s \in SUBSET S : g[s] = IF s = {} THEN 0 ELSE Value(Chosen(s)) + g[s \ {Chosen(s)}]
    BY <1>2 DEF Sums
  <2> QED BY <2>1, <2>2, Zenon DEF SetSolves
<1>4. SetSolves(h, S)
  BY <1>3
<1> HIDE DEF h
<1>5. \A s \in SUBSET S : h[s] = IF s = {} THEN 0 ELSE Value(Chosen(s)) + h[s \ {Chosen(s)}]
  BY <1>4 DEF SetSolves
<1>6. AddsUp(h, f, pick, S)
  BY <1>2, <1>5 DEF AddsUp
<1> HIDE DEF f, pick
<1>7. h[S] = g[S]
  BY <1>1, <1>6, SumsFound
<1> QED BY <1>7, FoldsAre DEF h

\* f gives the values of the n inputs, or outputs, of a transaction.
InputTerms(tx, n, f)  == DOMAIN tx.inputs = 1..n /\ \A i \in 1..n : f[i] = Value(tx.inputs[i])
OutputTerms(tx, n, f) == DOMAIN tx.outputs = 1..n /\ \A i \in 1..n : f[i] = tx.outputs[i].value

\* The total of the inputs, and of the outputs, is the sum over their indexes.
LEMMA SeqSum ==
  ASSUME NEW tx, NEW n \in Nat, NEW f \in [1..n -> Nat], NEW g, Sums(g, f, 1..n)
  PROVE  /\ InputTerms(tx, n, f) => InputTotal(tx) = g[1..n]
         /\ OutputTerms(tx, n, f) => OutputTotal(tx) = g[1..n]
<1> DEFINE D == 1..n
           pick == [s \in SUBSET D |-> Max(s)]
           Solves(k) == k = [s \in SUBSET D |-> IF s = {} THEN 0 ELSE k[s \ {Max(s)}] + f[Max(s)]]
<1>1. IsFiniteSet(D)
  BY FS_Interval
<1>2. \A s \in SUBSET D : s # {} => Max(s) \in s
  BY MaxIn
<1>3. Solves(g)
  <2>1. g = [s \in SUBSET D |-> g[s]]
    BY DEF Sums
  <2>2. ASSUME NEW s \in SUBSET D
        PROVE  g[s] = IF s = {} THEN 0 ELSE g[s \ {Max(s)}] + f[Max(s)]
    <3>1. CASE s = {}
      BY <3>1 DEF Sums
    <3>2. CASE s # {}
      <4>1. Max(s) \in s /\ s \ {Max(s)} \in SUBSET D
        BY <1>2, <3>2
      <4>2. g[s] = f[Max(s)] + g[s \ {Max(s)}] /\ f[Max(s)] \in Nat /\ g[s \ {Max(s)}] \in Nat
        BY <4>1 DEF Sums
      <4>3. g[s] = g[s \ {Max(s)}] + f[Max(s)]
        BY <4>2
      <4> QED BY <3>2, <4>3
    <3> QED BY <3>1, <3>2
  <2> QED BY <2>1, <2>2, Zenon
<1> DEFINE h == CHOOSE k : Solves(k)
<1>4. Solves(h)
  BY <1>3
<1>5. h[D] = g[D]
  <2> HIDE DEF h
  <2> DEFINE T == {s \in SUBSET D : h[s] = g[s]}
  <2>1. ASSUME NEW s \in SUBSET D, \A x \in s : s \ {x} \in T PROVE h[s] = g[s]
    <3>1. /\ h[s] = IF s = {} THEN 0 ELSE h[s \ {Max(s)}] + f[Max(s)]
          /\ g[s] = IF s = {} THEN 0 ELSE g[s \ {Max(s)}] + f[Max(s)]
      BY <1>3, <1>4
    <3>2. s # {} => h[s \ {Max(s)}] = g[s \ {Max(s)}]
      BY <1>2, <2>1
    <3> QED BY <3>1, <3>2
  <2>2. \A s \in SUBSET D : (\A x \in s : s \ {x} \in T) => s \in T
    BY <2>1
  <2> HIDE DEF T, D
  <2>3. \A s \in SUBSET D : s \in T
    BY <1>1, <2>2, SubsetInduction
  <2>4. D \in SUBSET D
    OBVIOUS
  <2> QED BY <2>3, <2>4 DEF T
<1>6. ASSUME DOMAIN tx.inputs = D, \A i \in D : f[i] = Value(tx.inputs[i])
      PROVE  InputTotal(tx) = g[D]
  <2>1. \A k : InputSolves(k, tx) <=> Solves(k)
    <3> TAKE k
    <3>1. [s \in SUBSET D |-> IF s = {} THEN 0 ELSE k[s \ {Max(s)}] + Value(tx.inputs[Max(s)])]
            = [s \in SUBSET D |-> IF s = {} THEN 0 ELSE k[s \ {Max(s)}] + f[Max(s)]]
      <4>1. \A s \in SUBSET D : s # {} => f[Max(s)] = Value(tx.inputs[Max(s)])
        BY <1>2, <1>6
      <4> QED BY <4>1
    <3> QED BY <1>6, <3>1, Zenon DEF InputSolves
  <2> HIDE DEF Solves
  <2>2. (CHOOSE k : InputSolves(k, tx)) = h
    BY <2>1, Zenon
  <2> QED BY <1>5, <1>6, <2>2, FoldsAre
<1>7. ASSUME DOMAIN tx.outputs = D, \A i \in D : f[i] = tx.outputs[i].value
      PROVE  OutputTotal(tx) = g[D]
  <2>1. \A k : OutputSolves(k, tx) <=> Solves(k)
    <3> TAKE k
    <3>1. [s \in SUBSET D |-> IF s = {} THEN 0 ELSE k[s \ {Max(s)}] + tx.outputs[Max(s)].value]
            = [s \in SUBSET D |-> IF s = {} THEN 0 ELSE k[s \ {Max(s)}] + f[Max(s)]]
      <4>1. \A s \in SUBSET D : s # {} => f[Max(s)] = tx.outputs[Max(s)].value
        BY <1>2, <1>7
      <4> QED BY <4>1
    <3> QED BY <1>7, <3>1, Zenon DEF OutputSolves
  <2> HIDE DEF Solves
  <2>2. (CHOOSE k : OutputSolves(k, tx)) = h
    BY <2>1, Zenon
  <2> QED BY <1>5, <1>7, <2>2, FoldsAre
<1> QED BY <1>6, <1>7 DEF InputTerms, OutputTerms

-----------------------------------------------------------------------------
(* Value. *)

\* The outputs of the transactions there are, and finite sets of them.
Coins == UNION {Outputs(tx) : tx \in Transactions}
Real(S) == IsFiniteSet(S) /\ S \subseteq Coins

\* The UTXO set only ever holds, and undoing only ever restores, such outputs.
SetsReal ==
  /\ Real(utxos) /\ Real(spent_outputs)
  /\ snapshot # None => Real(snapshot.utxos)

\* Real sets are closed under parts and unions; outputs are real.
LEMMA RealFacts ==
  /\ Real({})
  /\ \A S, T : Real(S) /\ T \subseteq S => Real(T)
  /\ \A S, T : Real(S) /\ Real(T) => Real(S \cup T)
  /\ \A tx \in Transactions : Real(Outputs(tx))
<1>1. Real({})
  BY FS_EmptySet DEF Real
<1>2. \A S, T : Real(S) /\ T \subseteq S => Real(T)
  BY FS_Subset DEF Real
<1>3. \A S, T : Real(S) /\ Real(T) => Real(S \cup T)
  BY FS_Union DEF Real
<1>4. ASSUME NEW tx \in Transactions PROVE Real(Outputs(tx))
  <2> DEFINE D == DOMAIN tx.outputs
             f == [i \in D |-> <<tx.id, i>>]
  <2>1. D = 1..Len(tx.outputs) /\ Len(tx.outputs) \in Nat
    BY TransactionAssumption
  <2>2. IsFiniteSet(D)
    BY <2>1, FS_Interval
  <2>3. f \in Surjection(D, Outputs(tx))
    <3>1. f \in [D -> Outputs(tx)] /\ \A op \in Outputs(tx) : \E i \in D : f[i] = op
      BY DEF Outputs
    <3> HIDE DEF f, D
    <3> QED BY <3>1 DEF Surjection
  <2> HIDE DEF f, D
  <2>4. IsFiniteSet(Outputs(tx))
    BY <2>2, <2>3, FS_Surjection
  <2> QED BY <2>4 DEF Real, Coins
<1> QED BY <1>1, <1>2, <1>3, <1>4

\* Every step keeps the sets real.
LEMMA SetsRealInv == Spec => []SetsReal
<1>1. Init => SetsReal
  BY RealFacts DEF Init, SetsReal
<1>2. SetsReal /\ Inv /\ [Next]_vars => SetsReal'
  <2> SUFFICES ASSUME SetsReal, Inv, [Next]_vars PROVE SetsReal'
    OBVIOUS
  <2>0. TypeOK /\ Real(utxos) /\ Real(spent_outputs) /\ (snapshot # None => Real(snapshot.utxos))
    BY DEF Inv, SetsReal
  <2>1. \A c \in ChangeSets : Real(RevertTx(utxos, c, spent_outputs).utxos)
    <3> TAKE c \in ChangeSets
    <3>1. Leading(c.spent, spent_outputs) \subseteq spent_outputs
      BY LeadingPart DEF ChangeSets
    <3>2. RevertTx(utxos, c, spent_outputs).utxos \subseteq utxos \cup spent_outputs
      BY <3>1 DEF RevertTx
    <3> QED BY <2>0, <3>2, RealFacts
  <2>2. \A S : Real(spent_outputs \cup (S \cap utxos))
    BY <2>0, RealFacts
  <2>3. ASSUME NEW txs \in Blocks, BeginBlock(txs) PROVE SetsReal'
    BY <2>0, <2>3, RealFacts DEF BeginBlock, state, SetsReal
  <2>4. CASE ApplyNext
    <3> DEFINE tx == Head(queue)
    <3>1. /\ queue # <<>> /\ ApplyTx(utxos, tx).ok /\ utxos' = ApplyTx(utxos, tx).utxos
          /\ spent_outputs' = spent_outputs \cup (Inputs(tx) \cap utxos) /\ snapshot' = snapshot
      BY <2>4 DEF ApplyNext, SaveSpent
    <3>2. tx \in Transactions
      BY <2>0, <3>1 DEF TypeOK
    <3> HIDE DEF tx
    <3>3. utxos' \subseteq utxos \cup Outputs(tx)
      BY <3>1, <3>2, ApplyWhole
    <3>4. Real(utxos')
      BY <2>0, <3>2, <3>3, RealFacts
    <3> QED BY <2>0, <2>2, <3>1, <3>4 DEF SetsReal
  <2>5. CASE RejectNext
    <3> DEFINE tx == Head(queue)
    <3>1. /\ queue # <<>> /\ ~ApplyTx(utxos, tx).ok /\ utxos' = ApplyTx(utxos, tx).utxos
          /\ spent_outputs' = spent_outputs \cup (Inputs(tx) \cap utxos) /\ snapshot' = snapshot
      BY <2>5 DEF RejectNext, SaveSpent
    <3>2. tx \in Transactions
      BY <2>0, <3>1 DEF TypeOK
    <3> HIDE DEF tx
    <3>3. utxos' = utxos
      BY <3>1, <3>2, ApplyWhole
    <3> QED BY <2>0, <2>2, <3>1, <3>3 DEF SetsReal
  <2>6. CASE UndoLast \/ GiveUp
    <3>1. changesets # <<>> /\ utxos' = RevertTx(utxos, Last(changesets), spent_outputs).utxos
      BY <2>6 DEF UndoLast, GiveUp
    <3>2. Last(changesets) \in ChangeSets
      <4>1. changesets \in Seq(ChangeSets)
        BY <2>0 DEF TypeOK
      <4> QED BY <3>1, <4>1 DEF Last
    <3>3. Real(utxos')
      BY <2>1, <3>1, <3>2
    <3>4. snapshot' = snapshot /\ (spent_outputs' = spent_outputs \/ spent_outputs' = {})
      BY <2>6 DEF UndoLast, GiveUp, Return
    <3> QED BY <2>0, <3>3, <3>4, RealFacts DEF SetsReal
  <2>7. CASE EndRollback \/ EndBlock
    BY <2>0, <2>7, RealFacts DEF EndRollback, EndBlock, Return, SetsReal
  <2>8. ASSUME NEW txs \in Blocks, RevertBlock(txs) PROVE SetsReal'
    BY <2>0, <2>8, RealFacts DEF RevertBlock, call, SetsReal
  <2>9. ASSUME NEW ops, Prune(ops) PROVE SetsReal'
    BY <2>0, <2>9, RealFacts DEF Prune, call, SetsReal
  <2>10. ASSUME NEW op \in Markable, NEW epoch \in Epoch, MarkLeafForPruning(op, epoch) PROVE SetsReal'
    BY <2>0, <2>10 DEF MarkLeafForPruning, call, SetsReal
  <2>11. CASE Snapshot
    BY <2>0, <2>11 DEF Snapshot, state, call, SetsReal
  <2>12. CASE Restore
    BY <2>0, <2>12 DEF Restore, call, SetsReal
  <2>13. CASE UNCHANGED vars
    BY <2>0, <2>13 DEF vars, state, call, SetsReal
  <2> QED BY <2>3, <2>4, <2>5, <2>6, <2>7, <2>8, <2>9, <2>10, <2>11, <2>12, <2>13 DEF Next, PruneOlderThan
<1> QED BY <1>1, <1>2, InvHolds, PTL DEF Spec

\* An outpoint is worth what its output says.
LEMMA ValueIs ==
  /\ \A tx \in Transactions : \A i \in DOMAIN tx.outputs :
       Value(<<tx.id, i>>) = tx.outputs[i].value /\ tx.outputs[i].value \in Nat
  /\ \A op \in Coins : Value(op) \in Nat
<1>1. ASSUME NEW tx \in Transactions, NEW i \in DOMAIN tx.outputs
      PROVE  Value(<<tx.id, i>>) = tx.outputs[i].value /\ tx.outputs[i].value \in Nat
  <2> DEFINE t == CHOOSE u \in Transactions : u.id = tx.id
  <2>1. t \in Transactions /\ t.id = tx.id
    OBVIOUS
  <2> HIDE DEF t
  <2>2. t.outputs = tx.outputs
    BY <2>1, TransactionAssumption
  <2>3. Value(<<tx.id, i>>) = tx.outputs[i].value
    BY <2>2 DEF Value, t
  <2>4. tx.outputs \in Seq([value : 0..MaxValue, burn : BOOLEAN]) /\ MaxValue \in Nat
    BY TransactionAssumption
  <2>5. tx.outputs[i] \in [value : 0..MaxValue, burn : BOOLEAN]
    <3> DEFINE outs == tx.outputs
               kind == [value : 0..MaxValue, burn : BOOLEAN]
    <3>1. outs \in Seq(kind) /\ i \in DOMAIN outs
      BY <2>4
    <3> HIDE DEF outs, kind
    <3>2. outs[i] \in kind
      BY <3>1
    <3> QED BY <3>2 DEF outs, kind
  <2> QED BY <2>3, <2>4, <2>5
<1>2. \A op \in Coins : Value(op) \in Nat
  BY <1>1 DEF Coins, Outputs
<1> QED BY <1>1, <1>2

\* The total of the outputs of a transaction is the value of the set of them, and
\* so is the total of its inputs if none of them occurs twice.
LEMMA TotalsAre ==
  ASSUME NEW tx \in Transactions, NEW W, Real(W), NEW g, Sums(g, [op \in W |-> Value(op)], W)
  PROVE  /\ Outputs(tx) \subseteq W => OutputTotal(tx) = g[Outputs(tx)]
         /\ Inputs(tx) \subseteq W /\ Distinct(tx.inputs) => InputTotal(tx) = g[Inputs(tx)]
<1> DEFINE e == [op \in W |-> Value(op)]
<1>0. e \in [W -> Nat] /\ Sums(g, e, W)
  BY ValueIs DEF Real
<1>1. ASSUME Outputs(tx) \subseteq W PROVE OutputTotal(tx) = g[Outputs(tx)]
  <2>1. PICK n \in Nat : DOMAIN tx.outputs = 1..n
    BY TransactionAssumption
  <2> DEFINE f == [i \in 1..n |-> tx.outputs[i].value]
             j == [i \in 1..n |-> <<tx.id, i>>]
  <2>2. f \in [1..n -> Nat] /\ IsFiniteSet(1..n)
    <3>1. \A i \in 1..n : tx.outputs[i].value \in Nat
      BY <2>1, ValueIs
    <3>2. f \in [1..n -> Nat]
      BY <3>1
    <3>3. IsFiniteSet(1..n)
      <4>1. 1 \in Int /\ n \in Int
        OBVIOUS
      <4> QED BY <4>1, FS_Interval
    <3> QED BY <3>2, <3>3
  <2>3. j \in [1..n -> W] /\ \A x, y \in 1..n : j[x] = j[y] => x = y
    BY <1>1, <2>1 DEF Outputs
  <2>4. Carries(j, 1..n, f, W, e)
    BY <2>1, <2>3, ValueIs DEF Carries
  <2>5. ImageOf(j, 1..n) = Outputs(tx)
    BY <2>1 DEF Outputs, ImageOf
  <2>6. PICK h : Sums(h, f, 1..n)
    BY <2>2, SumsExist
  <2>7. OutputTerms(tx, n, f)
    BY <2>1 DEF OutputTerms
  <2> HIDE DEF e, f, j
  <2>8. OutputTotal(tx) = h[1..n]
    BY <2>2, <2>6, <2>7, SeqSum
  <2>9. h[1..n] = g[ImageOf(j, 1..n)]
    BY <1>0, <2>2, <2>3, <2>4, <2>6, SumsAlong
  <2> QED BY <2>5, <2>8, <2>9
<1>2. ASSUME Inputs(tx) \subseteq W, Distinct(tx.inputs) PROVE InputTotal(tx) = g[Inputs(tx)]
  <2>1. PICK n \in Nat : DOMAIN tx.inputs = 1..n
    BY TransactionAssumption
  <2> DEFINE f == [i \in 1..n |-> Value(tx.inputs[i])]
             j == [i \in 1..n |-> tx.inputs[i]]
  <2>2. j \in [1..n -> W] /\ \A x, y \in 1..n : j[x] = j[y] => x = y
    BY <1>2, <2>1 DEF Inputs, Distinct
  <2>3. f \in [1..n -> Nat] /\ IsFiniteSet(1..n)
    BY <2>2, ValueIs, FS_Interval DEF Real
  <2>4. Carries(j, 1..n, f, W, e)
    BY <2>2 DEF Carries
  <2>5. ImageOf(j, 1..n) = Inputs(tx)
    BY <2>1 DEF Inputs, ImageOf
  <2>6. PICK h : Sums(h, f, 1..n)
    BY <2>3, SumsExist
  <2>7. InputTerms(tx, n, f)
    BY <2>1 DEF InputTerms
  <2> HIDE DEF e, f, j
  <2>8. InputTotal(tx) = h[1..n]
    BY <2>3, <2>6, <2>7, SeqSum
  <2>9. h[1..n] = g[ImageOf(j, 1..n)]
    BY <1>0, <2>2, <2>3, <2>4, <2>6, SumsAlong
  <2> QED BY <2>5, <2>8, <2>9
<1> QED BY <1>1, <1>2

\* The value of a part of a set is the sum over the part.
LEMMA PartValue ==
  ASSUME NEW W, Real(W), NEW g, Sums(g, [op \in W |-> Value(op)], W), NEW S \in SUBSET W
  PROVE  SetValue(S) = g[S]
<1> DEFINE e == [op \in W |-> Value(op)]
           f == [op \in S |-> Value(op)]
           j == [op \in S |-> op]
<1>1. IsFiniteSet(S) /\ \A op \in S : Value(op) \in Nat
  BY FS_Subset, ValueIs DEF Real
<1>2. e \in [W -> Nat] /\ f \in [S -> Nat] /\ Sums(g, e, W)
  BY <1>1, ValueIs DEF Real
<1>3. PICK h : Sums(h, f, S)
  <2> HIDE DEF f
  <2> QED BY <1>1, <1>2, SumsExist
<1>4. SetValue(S) = h[S]
  BY <1>1, <1>3, SetSum
<1>5. Carries(j, S, f, W, e)
  BY DEF Carries
<1>6. ImageOf(j, S) = S
  BY DEF ImageOf
<1> HIDE DEF e, f, j
<1>7. h[S] = g[ImageOf(j, S)]
  BY <1>1, <1>2, <1>3, <1>5, SumsAlong
<1> QED BY <1>4, <1>6, <1>7

\* What applying a transaction does to the value of a set: the inputs go, the
\* outputs come, and those that were there already do not count again.
LEMMA ValueStep ==
  ASSUME NEW u, Real(u), NEW tx \in Transactions, Inputs(tx) \subseteq u, Distinct(tx.inputs)
  PROVE  LET rest == u \ Inputs(tx) IN
         /\ SetValue(rest \cup Outputs(tx)) + SetValue(Outputs(tx) \cap rest) + InputTotal(tx)
              = SetValue(u) + OutputTotal(tx)
         /\ SetValue(rest \cup Outputs(tx)) \in Nat /\ SetValue(Outputs(tx) \cap rest) \in Nat
         /\ SetValue(u) \in Nat /\ InputTotal(tx) \in Nat /\ OutputTotal(tx) \in Nat
         /\ IsCoinbase(tx) => InputTotal(tx) = 0
<1> DEFINE I == Inputs(tx)
           O == Outputs(tx)
           W == u \cup O
           e == [op \in W |-> Value(op)]
           rest == u \ I
           more == O \ rest
           same == O \cap rest
<1>1. Real(W) /\ IsFiniteSet(W) /\ e \in [W -> Nat]
  <2>1. Real(W)
    BY RealFacts
  <2> QED BY <2>1, ValueIs DEF Real
<1>2. PICK g : Sums(g, e, W)
  <2> HIDE DEF e, W
  <2> QED BY <1>1, SumsExist
<1>3. OutputTotal(tx) = g[O] /\ InputTotal(tx) = g[I]
  <2>1. O \subseteq W /\ I \subseteq W
    OBVIOUS
  <2> HIDE DEF W, I, O
  <2> QED BY <1>1, <1>2, <2>1, TotalsAre DEF I, O
<1>4. /\ rest \in SUBSET W /\ more \in SUBSET W /\ same \in SUBSET W /\ I \in SUBSET W /\ O \in SUBSET W
      /\ rest \cap more = {} /\ rest \cap I = {} /\ same \cap more = {}
      /\ rest \cup more = rest \cup O /\ rest \cup I = u /\ same \cup more = O
      /\ u \in SUBSET W /\ rest \cup O \in SUBSET W
  OBVIOUS
<1> HIDE DEF W, I, O, rest, more, same, e
<1>0. IsFiniteSet(W) /\ e \in [W -> Nat] /\ Sums(g, e, W)
  BY <1>1, <1>2
<1>5. SetValue(u) = g[u] /\ SetValue(rest \cup O) = g[rest \cup O] /\ SetValue(same) = g[same]
  BY <1>1, <1>2, <1>4, PartValue DEF e
<1>6. g[rest \cup O] = g[rest] + g[more] /\ g[u] = g[rest] + g[I] /\ g[O] = g[same] + g[more]
  <2>1. g[rest \cup more] = g[rest] + g[more]
    <3>1. rest \in SUBSET W /\ more \in SUBSET W /\ rest \cap more = {}
      BY <1>4
    <3> QED BY <1>0, <3>1, SumsAdd
  <2>2. g[rest \cup I] = g[rest] + g[I]
    <3>1. rest \in SUBSET W /\ I \in SUBSET W /\ rest \cap I = {}
      BY <1>4
    <3> QED BY <1>0, <3>1, SumsAdd
  <2>3. g[same \cup more] = g[same] + g[more]
    <3>1. same \in SUBSET W /\ more \in SUBSET W /\ same \cap more = {}
      BY <1>4
    <3> QED BY <1>0, <3>1, SumsAdd
  <2> QED BY <1>4, <2>1, <2>2, <2>3
<1>7. g[rest] \in Nat /\ g[more] \in Nat /\ g[I] \in Nat /\ g[O] \in Nat /\ g[same] \in Nat /\ g[{}] = 0
  BY <1>2, <1>4 DEF Sums
<1>8. IsCoinbase(tx) => I = {}
  BY DEF IsCoinbase, I, Inputs
<1>9. /\ SetValue(rest \cup O) + SetValue(same) + InputTotal(tx) = SetValue(u) + OutputTotal(tx)
      /\ SetValue(rest \cup O) \in Nat /\ SetValue(same) \in Nat
      /\ SetValue(u) \in Nat /\ InputTotal(tx) \in Nat /\ OutputTotal(tx) \in Nat
      /\ IsCoinbase(tx) => InputTotal(tx) = 0
  <2>1. g[rest \cup O] + g[same] + g[I] = g[u] + g[O]
    BY <1>6, <1>7
  <2>2. g[rest \cup O] \in Nat /\ g[u] \in Nat
    BY <1>6, <1>7
  <2>3. IsCoinbase(tx) => InputTotal(tx) = 0
    BY <1>3, <1>7, <1>8
  <2> QED BY <1>3, <1>5, <1>7, <2>1, <2>2, <2>3, Zenon
<1> QED BY <1>9 DEF rest, I, O, same

\* A payment that apply_tx accepts leaves a set worth no more than it found.
LEMMA PaymentKeeps ==
  ASSUME NEW u, Real(u), NEW tx \in Transactions, ~IsCoinbase(tx), ApplyTx(u, tx).ok
  PROVE  SetValue(ApplyTx(u, tx).utxos) <= SetValue(u)
<1>1. /\ Inputs(tx) \subseteq u /\ Distinct(tx.inputs) /\ OutputTotal(tx) <= InputTotal(tx)
      /\ ApplyTx(u, tx).utxos = (u \ Inputs(tx)) \cup Outputs(tx)
  BY ApplyWhole DEF ApplyTx, Valid
<1> DEFINE rest == u \ Inputs(tx)
           V == SetValue(rest \cup Outputs(tx))
           M == SetValue(Outputs(tx) \cap rest)
           A == SetValue(u)
           i == InputTotal(tx)
           o == OutputTotal(tx)
<1>2. V + M + i = A + o /\ V \in Nat /\ M \in Nat /\ A \in Nat /\ i \in Nat /\ o \in Nat
  BY <1>1, ValueStep
<1>3. o <= i /\ SetValue(ApplyTx(u, tx).utxos) = V
  BY <1>1
<1> HIDE DEF V, M, i, o
<1>4. V <= A
  BY <1>2, <1>3
<1> QED BY <1>3, <1>4

\* PaymentsCreateNoValue (validate_tx, apply_tx): no transaction with inputs ever
\* adds to the value of the UTXO set, for any transactions.
THEOREM PaymentsNeverCreateValue == Spec => PaymentsCreateNoValue
<1>1. ASSUME SetsReal, Inv, [Next]_vars,
             phase = "apply", phase' = "apply", ~IsCoinbase(Head(queue)), ~UNCHANGED vars
      PROVE  SetValue(utxos') <= SetValue(utxos)
  <2>1. ApplyNext
    BY <1>1 DEF Next, vars, call, BeginBlock, RevertBlock, RejectNext, UndoLast, GiveUp, EndRollback, EndBlock,
                Return, Prune, PruneOlderThan, MarkLeafForPruning, Snapshot, Restore
  <2>2. queue # <<>> /\ ApplyTx(utxos, Head(queue)).ok /\ utxos' = ApplyTx(utxos, Head(queue)).utxos
    BY <2>1 DEF ApplyNext
  <2>3. Head(queue) \in Transactions /\ Real(utxos)
    BY <1>1, <2>2 DEF Inv, TypeOK, SetsReal
  <2> QED BY <1>1, <2>2, <2>3, PaymentKeeps
<1>2. SetsReal /\ Inv /\ [Next]_vars =>
        [phase = "apply" /\ phase' = "apply" /\ ~IsCoinbase(Head(queue)) =>
           SetValue(utxos') <= SetValue(utxos)]_vars
  BY <1>1
<1> QED BY <1>2, InvHolds, SetsRealInv, PTL DEF Spec, PaymentsCreateNoValue

-----------------------------------------------------------------------------
(* Recursive functions over 0..n. *)

\* f is what the recursive definition over 0..n from base by the steps G defines.
Solution(f, X, base, n, G) ==
  f \in [0..n -> X] /\ f[0] = base /\ \A i \in 1..n : f[i] = G[i][f[i - 1]]

\* A recursive definition over 0..n whose steps map X to X has a solution.
LEMMA Recursion ==
  ASSUME NEW X, NEW base \in X, NEW n \in Nat, NEW G \in [1..n -> [X -> X]]
  PROVE  \E f : Solution(f, X, base, n, G)
PROOF
  <1> DEFINE Solves(f, m) == f = [i \in 0..m |-> IF i = 0 THEN base ELSE G[i][f[i - 1]]]
             Solved(m) == \E f \in [0..m -> X] : Solves(f, m)
  <1>1. Solved(0)
    <2> DEFINE g == [i \in 0..0 |-> base]
    <2>1. \A i \in 0..0 : i = 0
      BY SMT
    <2>2. g \in [0..0 -> X]
      OBVIOUS
    <2>3. Solves(g, 0)
      BY <2>1, Zenon
    <2> QED BY <2>2, <2>3
  <1>2. ASSUME NEW m \in 1..n, Solved(m - 1) PROVE Solved(m)
    <2>1. PICK f \in [0..m - 1 -> X] : Solves(f, m - 1)
      BY <1>2
    <2> DEFINE g == [i \in 0..m |-> IF i = m THEN G[m][f[m - 1]] ELSE f[i]]
    <2>2. \A i \in 0..m - 1 : f[i] \in X /\ f[i] = IF i = 0 THEN base ELSE G[i][f[i - 1]]
      BY <2>1
    <2>3. m - 1 \in 0..m - 1 /\ m # 0 /\ \A i \in 0..m : i # m => i \in 0..m - 1
      OBVIOUS
    <2>4. G[m][f[m - 1]] \in X
      BY <2>2, <2>3
    <2>5. g \in [0..m -> X]
      BY <2>2, <2>3, <2>4
    <2>6. ASSUME NEW i \in 0..m PROVE g[i] = IF i = 0 THEN base ELSE G[i][g[i - 1]]
      <3>1. CASE i = m
        BY <3>1, <2>3
      <3>2. CASE i # m
        <4>1. i \in 0..m - 1 /\ i - 1 # m
          BY <3>2, <2>3
        <4>2. i # 0 => i - 1 \in 0..m
          BY <4>1
        <4> QED BY <4>1, <4>2, <2>2, <3>2
      <3> QED BY <3>1, <3>2
    <2>7. Solves(g, m)
      <3>1. g = [i \in 0..m |-> g[i]]
        OBVIOUS
      <3> HIDE DEF g
      <3> QED BY <3>1, <2>6
    <2> QED BY <2>5, <2>7
  <1>3. ASSUME NEW m \in 0..n PROVE Solved(m)
    <2> DEFINE T == {x \in 0..n : ~Solved(x)}
    <2> HIDE DEF Solved
    <2> SUFFICES ASSUME T # {} PROVE FALSE
      OBVIOUS
    <2>1. T \in SUBSET Nat
      OBVIOUS
    <2>2. PICK x \in T : \A y \in T : x <= y
      <3> HIDE DEF T
      <3> QED BY <2>1, LeastOf
    <2>3. x \in 1..n /\ x - 1 \in 0..n /\ ~(x <= x - 1)
      BY <2>2, <1>1
    <2>4. Solved(x - 1)
      BY <2>2, <2>3
    <2> QED BY <2>2, <2>3, <2>4, <1>2
  <1>4. Solved(n)
    <2> HIDE DEF Solved
    <2> QED BY <1>3
  <1>5. PICK f \in [0..n -> X] : Solves(f, n)
    BY <1>4
  <1>6. f[0] = base /\ \A i \in 1..n : f[i] = G[i][f[i - 1]]
    BY <1>5
  <1> QED BY <1>6 DEF Solution

\* Induction over 0..n, with the set of the numbers for which the claim holds.
LEMMA UpTo ==
  ASSUME NEW n \in Nat, NEW T, 0 \in T, \A i \in 1..n : i - 1 \in T => i \in T
  PROVE  0..n \subseteq T
PROOF
  <1> DEFINE U == (0..n) \ T
  <1> SUFFICES ASSUME U # {} PROVE FALSE
    OBVIOUS
  <1>1. U \in SUBSET Nat
    OBVIOUS
  <1>2. PICK x \in U : \A y \in U : x <= y
    <2> HIDE DEF U
    <2> QED BY <1>1, LeastOf
  <1>3. x \in 1..n /\ x - 1 \in 0..n /\ ~(x <= x - 1)
    BY <1>2
  <1> QED BY <1>2, <1>3

-----------------------------------------------------------------------------
(* Emission. *)

\* The tables are what their recursive definitions say.
LEMMA Tables ==
  /\ HalvingReward \in [0..128 -> Nat] /\ CumulativeReward \in [0..128 -> Nat]
  /\ HalvingReward[0] = BaseReward /\ CumulativeReward[0] = BaseReward
  /\ \A n \in 1..128 : /\ HalvingReward[n] = AtLeastMin(HalvingReward[n - 1] \div 2)
                       /\ CumulativeReward[n] = HalvingReward[n] + CumulativeReward[n - 1]
<1>0. BaseReward \in Nat /\ MinReward \in Nat
  BY EmissionAssumption
<1> DEFINE Halves(f) == f = [n \in 0..128 |-> IF n = 0 THEN BaseReward ELSE AtLeastMin(f[n - 1] \div 2)]
           H == CHOOSE f : Halves(f)
           G == [n \in 1..128 |-> [x \in Nat |-> AtLeastMin(x \div 2)]]
<1>1. G \in [1..128 -> [Nat -> Nat]]
  <2>1. \A x \in Nat : AtLeastMin(x \div 2) \in Nat
    BY <1>0 DEF AtLeastMin
  <2> QED BY <2>1
<1>2. PICK f : Solution(f, Nat, BaseReward, 128, G)
  <2> HIDE DEF G
  <2> QED BY <1>0, <1>1, Recursion
<1>3. f \in [0..128 -> Nat] /\ f[0] = BaseReward /\ \A n \in 1..128 : f[n] = AtLeastMin(f[n - 1] \div 2)
  <2>1. f \in [0..128 -> Nat] /\ f[0] = BaseReward /\ \A n \in 1..128 : f[n] = G[n][f[n - 1]]
    BY <1>2 DEF Solution
  <2>2. \A n \in 1..128 : f[n - 1] \in Nat
    BY <2>1
  <2> QED BY <2>1, <2>2
<1>4. Halves(f)
  <2>1. \A n \in 0..128 : f[n] = IF n = 0 THEN BaseReward ELSE AtLeastMin(f[n - 1] \div 2)
    BY <1>3
  <2>2. f = [n \in 0..128 |-> f[n]]
    BY <1>3
  <2> QED BY <2>1, <2>2, Zenon
<1>5. Halves(H)
  BY <1>4
<1>6. HalvingReward = H
  BY Zenon DEF HalvingReward
<1>7. Halves(HalvingReward)
  BY <1>5, <1>6
<1>8. \A n \in 0..128 : HalvingReward[n] = IF n = 0 THEN BaseReward ELSE AtLeastMin(HalvingReward[n - 1] \div 2)
  BY <1>7, Zenon
<1>9. HalvingReward[0] = BaseReward
      /\ \A n \in 1..128 : HalvingReward[n] = AtLeastMin(HalvingReward[n - 1] \div 2)
  BY <1>8
<1>10. HalvingReward \in [0..128 -> Nat]
  <2> DEFINE T == {n \in 0..128 : HalvingReward[n] \in Nat}
  <2>1. 0 \in T
    BY <1>0, <1>9
  <2>2. ASSUME NEW n \in 1..128, n - 1 \in T PROVE n \in T
    BY <1>0, <1>9, <2>2 DEF AtLeastMin
  <2>3. 0..128 \subseteq T
    <3> HIDE DEF T
    <3> QED BY <2>1, <2>2, UpTo
  <2> HIDE DEF Halves, H
  <2>4. \A n \in 0..128 : HalvingReward[n] \in Nat
    BY <2>3
  <2>5. HalvingReward = [n \in 0..128 |-> IF n = 0 THEN BaseReward ELSE AtLeastMin(HalvingReward[n - 1] \div 2)]
    BY <1>7, Zenon DEF Halves
  <2> QED BY <2>4, <2>5
<1> HIDE DEF H, Halves, G
<1> DEFINE Adds(c) == c = [n \in 0..128 |-> HalvingReward[n] + (IF n = 0 THEN 0 ELSE c[n - 1])]
           C == CHOOSE c : Adds(c)
           A == [n \in 1..128 |-> [x \in Nat |-> HalvingReward[n] + x]]
<1>11. A \in [1..128 -> [Nat -> Nat]]
  BY <1>10
<1>12. PICK c : Solution(c, Nat, BaseReward, 128, A)
  <2> HIDE DEF A
  <2> QED BY <1>0, <1>11, Recursion
<1>13. c \in [0..128 -> Nat] /\ c[0] = BaseReward /\ \A n \in 1..128 : c[n] = HalvingReward[n] + c[n - 1]
  <2>1. c \in [0..128 -> Nat] /\ c[0] = BaseReward /\ \A n \in 1..128 : c[n] = A[n][c[n - 1]]
    BY <1>12 DEF Solution
  <2>2. \A n \in 1..128 : c[n - 1] \in Nat
    BY <2>1
  <2> QED BY <2>1, <2>2
<1>14. Adds(c)
  <2>1. \A n \in 0..128 : c[n] = HalvingReward[n] + (IF n = 0 THEN 0 ELSE c[n - 1])
    BY <1>0, <1>9, <1>13
  <2>2. c = [n \in 0..128 |-> c[n]]
    BY <1>13
  <2> QED BY <2>1, <2>2, Zenon
<1>15. Adds(C)
  BY <1>14
<1>16. CumulativeReward = C
  BY Zenon DEF CumulativeReward
<1>17. \A n \in 0..128 : CumulativeReward[n] = HalvingReward[n] + (IF n = 0 THEN 0 ELSE CumulativeReward[n - 1])
  BY <1>15, <1>16, Zenon
<1>18. CumulativeReward[0] = BaseReward
       /\ \A n \in 1..128 : CumulativeReward[n] = HalvingReward[n] + CumulativeReward[n - 1]
  BY <1>0, <1>9, <1>17
<1>19. CumulativeReward \in [0..128 -> Nat]
  <2> DEFINE T == {n \in 0..128 : CumulativeReward[n] \in Nat}
  <2>1. 0 \in T
    BY <1>0, <1>18
  <2>2. ASSUME NEW n \in 1..128, n - 1 \in T PROVE n \in T
    BY <1>10, <1>18, <2>2
  <2>3. 0..128 \subseteq T
    <3> HIDE DEF T
    <3> QED BY <2>1, <2>2, UpTo
  <2>4. CumulativeReward = [n \in 0..128 |-> HalvingReward[n] + (IF n = 0 THEN 0 ELSE CumulativeReward[n - 1])]
    BY <1>15, <1>16, Zenon
  <2> QED BY <2>3, <2>4
<1> QED BY <1>9, <1>10, <1>18, <1>19

\* The tables end, and from there on the reward is the floor.
LEMMA Floor ==
  /\ LastEntry \in 0..128 /\ HalvingReward[LastEntry] = MinReward
  /\ \A n \in LastEntry..128 : HalvingReward[n] = MinReward
<1> DEFINE T == {n \in 0..128 : HalvingReward[n] = MinReward}
<1>1. T \in SUBSET Nat /\ T # {}
  BY TableAssumption
<1>2. PICK m \in T : \A n \in T : m <= n
  <2> HIDE DEF T
  <2> QED BY <1>1, LeastOf
<1>3. m \in 0..128 /\ HalvingReward[m] = MinReward /\ \A k \in 0..m - 1 : HalvingReward[k] # MinReward
  BY <1>2
<1>4. LastEntry \in 0..128 /\ HalvingReward[LastEntry] = MinReward
  BY <1>3 DEF LastEntry
<1> DEFINE L == LastEntry
           U == {n \in 0..128 : n >= L => HalvingReward[n] = MinReward}
<1> HIDE DEF L
<1>5. L \in 0..128 /\ HalvingReward[L] = MinReward
  BY <1>4 DEF L
<1>6. 0 \in U
  <2>1. 0 >= L => L = 0
    BY <1>5
  <2> QED BY <1>5, <2>1
<1>7. ASSUME NEW n \in 1..128, n - 1 \in U PROVE n \in U
  <2>1. CASE n = L
    BY <1>5, <2>1
  <2>2. CASE n < L
    BY <1>5, <2>2
  <2>3. CASE n > L
    <3>1. HalvingReward[n - 1] = MinReward
      BY <1>5, <1>7, <2>3
    <3>2. HalvingReward[n] = AtLeastMin(MinReward \div 2)
      BY <3>1, Tables
    <3>3. MinReward \in Nat /\ ~(MinReward \div 2 > MinReward)
      BY EmissionAssumption
    <3> QED BY <3>2, <3>3 DEF AtLeastMin
  <2> QED BY <1>5, <2>1, <2>2, <2>3
<1>8. 0..128 \subseteq U
  <2> HIDE DEF U
  <2> QED BY <1>6, <1>7, UpTo
<1> QED BY <1>5, <1>8 DEF L

\* Dividing by a positive number, and the two ways in which it goes on.
LEMMA DivisionStep ==
  ASSUME NEW k \in Nat \ {0}, NEW h \in Nat
  PROVE  /\ h \div k \in Nat /\ h % k \in 0..k - 1
         /\ (h % k) + 1 < k => (h + 1) \div k = h \div k /\ (h + 1) % k = (h % k) + 1
         /\ (h % k) + 1 = k => (h + 1) \div k = h \div k + 1 /\ (h + 1) % k = 0
<1> DEFINE q == h \div k
           r == h % k
           p == (h + 1) \div k
           s == (h + 1) % k
<1>1. q \in Nat /\ r \in Nat /\ r < k /\ h = k * q + r
  OBVIOUS
<1>2. p \in Nat /\ s \in Nat /\ s < k /\ h + 1 = k * p + s
  OBVIOUS
<1> HIDE DEF q, r, p, s
<1>3. \A a, b \in Nat : a < b => k * a + k <= k * b
  <2> SUFFICES ASSUME NEW a \in Nat, NEW b \in Nat, a < b PROVE k * a + k <= k * b
    OBVIOUS
  <2>1. k * (a + 1) <= k * b
    OBVIOUS
  <2> QED BY <2>1
<1>4. \A x \in Nat : k * x \in Nat /\ k * (x + 1) = k * x + k
  OBVIOUS
<1>5. ASSUME r + 1 < k PROVE p = q /\ s = r + 1
  <2>1. k * p + s = k * q + (r + 1)
    BY <1>1, <1>2, <1>4
  <2>2. ~(p < q) /\ ~(q < p)
    BY <1>1, <1>2, <1>3, <1>4, <1>5, <2>1
  <2> QED BY <1>1, <1>2, <1>4, <2>1, <2>2
<1>6. ASSUME r + 1 = k PROVE p = q + 1 /\ s = 0
  <2>1. k * p + s = k * (q + 1)
    BY <1>1, <1>2, <1>4, <1>6
  <2>2. ~(p < q + 1) /\ ~(q + 1 < p)
    BY <1>1, <1>2, <1>3, <1>4, <2>1
  <2> QED BY <1>1, <1>2, <1>4, <2>1, <2>2
<1> QED BY <1>1, <1>5, <1>6 DEF q, r, p, s

\* What a number of full intervals and a part of one emit, before the cap.
Emitted(intervals, part) == FullEmitted(intervals) + part * NextReward(intervals)

\* The two tables agree with the block reward, and a full interval emits its
\* reward once for every block.
LEMMA TablesAgree ==
  ASSUME NEW q \in Nat
  PROVE  /\ NextReward(q) = HalvingReward[AtMost(q, 128)] /\ NextReward(q) \in Nat
         /\ FullEmitted(q) \in Nat
         /\ FullEmitted(q + 1) = FullEmitted(q) + HalvingInterval * NextReward(q)
<1> DEFINE L == LastEntry
           I == HalvingInterval
<1>0. /\ L \in 0..128 /\ HalvingReward[L] = MinReward /\ I \in Nat /\ MinReward \in Nat
      /\ \A n \in L..128 : HalvingReward[n] = MinReward
  BY Floor, EmissionAssumption
<1>1. NextReward(q) = HalvingReward[AtMost(q, 128)]
  BY <1>0 DEF NextReward, AtMost
<1>2. NextReward(q) \in Nat
  <2>1. AtMost(q, 128) \in 0..128
    BY DEF AtMost
  <2> QED BY <1>1, <2>1, Tables
<1>3. \A n \in 0..128 : CumulativeReward[n] \in Nat /\ CumulativeReward[n] * I \in Nat
  <2>1. \A x, y \in Nat : x * y \in Nat
    OBVIOUS
  <2>2. \A n \in 0..128 : CumulativeReward[n] \in Nat
    BY Tables
  <2> HIDE DEF I
  <2> QED BY <1>0, <2>1, <2>2
<1>4. \A a, b \in Nat : (a + b) * I = b * I + I * a
  BY <1>0
<1>5. \A n \in Nat : n * MinReward \in Nat /\ n * MinReward * I \in Nat
                     /\ (n + 1) * MinReward * I = n * MinReward * I + I * MinReward
  BY <1>0
<1> HIDE DEF L, I
<1>6. CASE q = 0
  <2>1. FullEmitted(0) = 0 /\ FullEmitted(1) = CumulativeReward[0] * I
    BY <1>0 DEF FullEmitted, L, I
  <2>2. NextReward(0) = HalvingReward[0] /\ HalvingReward[0] = CumulativeReward[0]
    BY <1>0, Tables DEF NextReward, L
  <2> QED BY <1>0, <1>1, <1>2, <1>3, <1>6, <2>1, <2>2 DEF I
<1>7. CASE q # 0 /\ q <= L
  <2>1. FullEmitted(q) = CumulativeReward[q - 1] * I /\ FullEmitted(q + 1) = CumulativeReward[q] * I
    BY <1>0, <1>7 DEF FullEmitted, L, I
  <2>2. q \in 1..128 /\ q - 1 \in 0..128 /\ NextReward(q) = HalvingReward[q]
    BY <1>0, <1>7 DEF NextReward, L
  <2>3. CumulativeReward[q] = HalvingReward[q] + CumulativeReward[q - 1]
    BY <2>2, Tables
  <2>4. CumulativeReward[q - 1] \in Nat /\ CumulativeReward[q] * I \in Nat /\ CumulativeReward[q - 1] * I \in Nat
    BY <1>3, <2>2
  <2>5. (HalvingReward[q] + CumulativeReward[q - 1]) * I = CumulativeReward[q - 1] * I + I * HalvingReward[q]
    BY <1>2, <1>4, <2>2, <2>4
  <2> QED BY <1>1, <1>2, <2>1, <2>2, <2>3, <2>4, <2>5 DEF I
<1>8. CASE q = L + 1
  <2>1. /\ FullEmitted(q) = CumulativeReward[L] * I
        /\ FullEmitted(q + 1) = CumulativeReward[L] * I + 1 * MinReward * I
    BY <1>0, <1>8 DEF FullEmitted, L, I
  <2>2. NextReward(q) = MinReward
    BY <1>0, <1>8 DEF NextReward, L
  <2> QED BY <1>0, <1>1, <1>2, <1>3, <2>1, <2>2 DEF I
<1>9. CASE q > L + 1
  <2>1. /\ FullEmitted(q) = CumulativeReward[L] * I + (q - (L + 1)) * MinReward * I
        /\ FullEmitted(q + 1) = CumulativeReward[L] * I + ((q + 1) - (L + 1)) * MinReward * I
    BY <1>0, <1>9 DEF FullEmitted, L, I
  <2>2. NextReward(q) = MinReward
    BY <1>0, <1>9 DEF NextReward, L
  <2>3. PICK n \in Nat : q - (L + 1) = n /\ (q + 1) - (L + 1) = n + 1
    BY <1>0, <1>9
  <2>4. FullEmitted(q + 1) = CumulativeReward[L] * I + (n + 1) * MinReward * I
    BY <2>1, <2>3
  <2>5. FullEmitted(q) = CumulativeReward[L] * I + n * MinReward * I
    BY <2>1, <2>3
  <2>6. (n + 1) * MinReward * I = n * MinReward * I + I * MinReward /\ n * MinReward * I \in Nat
    BY <1>5
  <2>7. CumulativeReward[L] * I \in Nat
    BY <1>0, <1>3
  <2>8. FullEmitted(q) \in Nat /\ FullEmitted(q + 1) = FullEmitted(q) + I * MinReward
    <3>1. \A x, y, z, w \in Nat : z = y + w => x + y \in Nat /\ x + z = x + y + w
      OBVIOUS
    <3>2. \A x, y \in Nat : x * y \in Nat
      OBVIOUS
    <3>3. I * MinReward \in Nat /\ (n + 1) * MinReward * I \in Nat
      BY <1>0, <3>2, <2>6, <1>5
    <3> QED BY <2>4, <2>5, <2>6, <2>7, <3>1, <3>3
  <2> QED BY <1>1, <1>2, <2>2, <2>8 DEF I
<1>10. q = 0 \/ (q # 0 /\ q <= L) \/ q = L + 1 \/ q > L + 1
  BY <1>0
<1> QED BY <1>6, <1>7, <1>8, <1>9, <1>10, Zenon

\* The rewards and the emission are numbers at every score, and the emission
\* is within the cap.
LEMMA RewardNumbers ==
  ASSUME NEW h \in Nat
  PROVE  /\ RawBlockReward(h) \in Nat /\ CappedReward(h) \in Nat /\ TotalEmitted(h) \in 0..MaxSupply
<1>1. HalvingInterval \in Nat \ {0} /\ U32 \in Nat \ {0} /\ MaxSupply \in Nat
  BY EmissionAssumption
<1> DEFINE q == h \div HalvingInterval
           r == h % HalvingInterval
           c == q % U32
<1>2. q \in Nat /\ r \in Nat
  BY <1>1, DivisionStep
<1>3. RawBlockReward(h) \in Nat
  <2>1. c \in Nat
    <3> HIDE DEF q
    <3> QED BY <1>1, <1>2, DivisionStep
  <2>2. AtMost(c, 128) \in 0..128
    <3> HIDE DEF c
    <3> QED BY <2>1 DEF AtMost
  <2>3. HalvingReward[AtMost(c, 128)] \in Nat
    <3> HIDE DEF c
    <3> QED BY <2>2, Tables
  <2> QED BY <2>3 DEF RawBlockReward
<1>4. TotalEmitted(h) \in 0..MaxSupply
  <2> HIDE DEF q, r
  <2>1. FullEmitted(q) \in Nat /\ NextReward(q) \in Nat
    BY <1>2, TablesAgree
  <2>2. \A x, y, z \in Nat : x + y * z \in Nat
    OBVIOUS
  <2>3. FullEmitted(q) + r * NextReward(q) \in Nat
    BY <1>2, <2>1, <2>2
  <2>4. AtMost(FullEmitted(q) + r * NextReward(q), MaxSupply) \in 0..MaxSupply
    BY <1>1, <2>3 DEF AtMost
  <2> QED BY <2>4 DEF TotalEmitted, q, r
<1>5. AtMost(RawBlockReward(h), MaxSupply - TotalEmitted(h)) \in Nat
  BY <1>1, <1>3, <1>4 DEF AtMost
<1> QED BY <1>3, <1>4, <1>5 DEF CappedReward

\* Below the score at which the number of halvings leaves 32 bits
\* (emission.rs:36), total_emitted grows at every score by what capped_reward
\* pays for it: the closed formula with its tables is the sum of the rewards of
\* a chain with one block at every score.
THEOREM SubsidiesAddUp ==
  /\ TotalEmitted(0) = 0
  /\ \A h \in Nat : h < HalvingsFit => TotalEmitted(h + 1) = TotalEmitted(h) + CappedReward(h)
<1>0. HalvingInterval \in Nat \ {0} /\ MaxSupply \in Nat /\ MinReward \in Nat
  BY EmissionAssumption
<1>1. ASSUME NEW h \in Nat
      PROVE  TotalEmitted(h) = AtMost(Emitted(h \div HalvingInterval, h % HalvingInterval), MaxSupply)
  BY DEF TotalEmitted, Emitted
<1>2. ASSUME NEW h \in Nat, h < HalvingsFit
      PROVE  TotalEmitted(h + 1) = TotalEmitted(h) + CappedReward(h)
  <2> DEFINE k == HalvingInterval
             q == h \div k
             r == h % k
             R == NextReward(q)
             E == Emitted(q, r)
             F == Emitted((h + 1) \div k, (h + 1) % k)
  <2>1. q \in Nat /\ r \in 0..k - 1
    BY <1>0, DivisionStep
  <2>2. R \in Nat /\ R = RawBlockReward(h) /\ FullEmitted(q) \in Nat
        /\ FullEmitted(q + 1) = FullEmitted(q) + k * R
    <3> HIDE DEF q
    <3>1. R \in Nat /\ R = HalvingReward[AtMost(q, 128)] /\ FullEmitted(q) \in Nat
          /\ FullEmitted(q + 1) = FullEmitted(q) + k * R
      BY <2>1, TablesAgree
    <3>2. q % U32 = q
      <4>1. U32 \in Nat \ {0}
        BY EmissionAssumption
      <4>2. q < U32
        <5>1. k * q <= h /\ h < U32 * k
          BY <1>0, <1>2 DEF q, HalvingsFit
        <5> HIDE DEF k, q
        <5>2. k \in Nat /\ q \in Nat /\ U32 \in Nat
          BY <1>0, <2>1, <4>1 DEF k
        <5>3. U32 <= q => U32 * k <= k * q
          <6>1. \A x, y, z \in Nat : x <= y => x * z <= z * y
            OBVIOUS
          <6> QED BY <5>2, <6>1
        <5>4. k * q \in Nat /\ U32 * k \in Nat
          BY <5>2
        <5> QED BY <5>1, <5>2, <5>3, <5>4
      <4> QED BY <2>1, <4>1, <4>2
    <3> QED BY <3>1, <3>2 DEF RawBlockReward, q
  <2>3. E = FullEmitted(q) + r * R /\ r * R \in Nat /\ (r + 1) * R = r * R + R
    <3>1. \A x, y \in Nat : x * y \in Nat /\ (x + 1) * y = x * y + y
      OBVIOUS
    <3> HIDE DEF R, r
    <3> QED BY <1>0, <2>1, <2>2, <3>1 DEF Emitted, R
  <2>4. F = E + R
    <3>1. CASE r + 1 < k
      <4>1. F = Emitted(q, r + 1)
        BY <1>0, <3>1, DivisionStep
      <4>2. Emitted(q, r + 1) = FullEmitted(q) + (r + 1) * R
        BY DEF Emitted
      <4> HIDE DEF F, E, q, r, R
      <4> QED BY <2>1, <2>2, <2>3, <4>1, <4>2
    <3>2. CASE r + 1 = k
      <4>1. F = Emitted(q + 1, 0)
        BY <1>0, <3>2, DivisionStep
      <4>2. Emitted(q + 1, 0) = FullEmitted(q + 1)
        <5>1. q + 1 \in Nat
          BY <2>1
        <5>2. NextReward(q + 1) \in Nat /\ FullEmitted(q + 1) \in Nat
          <6> HIDE DEF q
          <6> QED BY <5>1, TablesAgree, <1>0, <2>2
        <5>3. \A x, y \in Nat : x + 0 * y = x
          OBVIOUS
        <5> HIDE DEF q
        <5> QED BY <5>2, <5>3 DEF Emitted
      <4>3. FullEmitted(q + 1) = FullEmitted(q) + (r + 1) * R
        BY <2>2, <3>2
      <4> HIDE DEF F, E, q, r, R
      <4> QED BY <2>1, <2>2, <2>3, <4>1, <4>2, <4>3
    <3> HIDE DEF F, E, q, R
    <3> QED BY <1>0, <2>1, <3>1, <3>2
  <2>5. TotalEmitted(h) = AtMost(E, MaxSupply) /\ TotalEmitted(h + 1) = AtMost(F, MaxSupply)
    BY <1>1
  <2>6. CappedReward(h) = AtMost(R, MaxSupply - TotalEmitted(h))
    BY <2>2 DEF CappedReward
  <2>7. E \in Nat
    <3> HIDE DEF q, r, R
    <3> QED BY <2>2, <2>3
  <2> HIDE DEF F, E, q, r, R
  <2>8. CASE E >= MaxSupply
    BY <1>0, <2>2, <2>4, <2>5, <2>6, <2>7, <2>8 DEF AtMost
  <2>9. CASE E < MaxSupply
    <3>1. TotalEmitted(h) = E /\ E \in 0..MaxSupply
      BY <1>0, <2>5, <2>7, <2>9 DEF AtMost
    <3>2. CappedReward(h) = IF R < MaxSupply - E THEN R ELSE MaxSupply - E
      BY <2>6, <3>1 DEF AtMost
    <3>3. TotalEmitted(h + 1) = IF E + R < MaxSupply THEN E + R ELSE MaxSupply
      BY <2>4, <2>5 DEF AtMost
    <3> QED BY <1>0, <2>2, <2>7, <2>9, <3>1, <3>2, <3>3
  <2> QED BY <1>0, <2>7, <2>8, <2>9
<1>3. TotalEmitted(0) = 0
  <2> DEFINE k == HalvingInterval
  <2>1. 0 \div k = 0 /\ 0 % k = 0
    BY <1>0
  <2>2. NextReward(0) \in Nat /\ FullEmitted(0) = 0
    BY TablesAgree DEF FullEmitted
  <2>3. \A y \in Nat : 0 + 0 * y = 0
    OBVIOUS
  <2>4. Emitted(0, 0) = 0
    BY <2>2, <2>3 DEF Emitted
  <2> QED BY <1>0, <1>1, <2>1, <2>4 DEF AtMost
<1> QED BY <1>2, <1>3

-----------------------------------------------------------------------------
(* Coinbases. *)

\* What a set of real outputs is worth is a number.
LEMMA SetValueType ==
  ASSUME NEW S, Real(S)
  PROVE  SetValue(S) \in Nat
<1> DEFINE e == [op \in S |-> Value(op)]
<1>1. IsFiniteSet(S) /\ e \in [S -> Nat]
  BY ValueIs DEF Real
<1>2. PICK g : Sums(g, e, S)
  <2> HIDE DEF e
  <2> QED BY <1>1, SumsExist
<1>3. SetValue(S) = g[S]
  BY <1>2, PartValue
<1> QED BY <1>2, <1>3 DEF Sums

\* A coinbase pays the total in one output, or in the two shares.
Pays(tx, nodes, total) ==
  /\ IsCoinbase(tx) /\ GasFee(tx) = 0 /\ OutputTotal(tx) = total
  /\ MinerShare(total) \in 0..total
  /\ \/ tx.outputs = <<Pay(total)>> /\ (nodes = 0 \/ MinerShare(total) = total)
     \/ tx.outputs = <<Pay(MinerShare(total)), Pay(total - MinerShare(total))>> /\ nodes # 0

LEMMA CoinbasePays ==
  ASSUME NEW miner, NEW pool, NEW nodes \in Nat, NEW total \in Nat
  PROVE  Pays(CreateCoinbase(miner, pool, nodes, total), nodes, total)
<1> DEFINE tx == CreateCoinbase(miner, pool, nodes, total)
           share == MinerShare(total)
<1>1. share \in 0..total
  BY DEF MinerShare
<1>2. tx.inputs = <<>> /\ tx.gas_limit = 0 /\ tx.max_fee_per_gas = 0
  BY DEF CreateCoinbase, Coinbase
<1>3. \/ tx.outputs = <<Pay(total)>> /\ (nodes = 0 \/ share = total)
      \/ tx.outputs = <<Pay(share), Pay(total - share)>> /\ nodes # 0
  <2>1. CASE nodes = 0
    BY <2>1 DEF CreateCoinbase, Coinbase
  <2>2. CASE nodes # 0 /\ total - share = 0
    <3>1. share = total
      BY <1>1, <2>2
    <3> QED BY <2>2, <3>1 DEF CreateCoinbase, Coinbase
  <2>3. CASE nodes # 0 /\ total - share # 0
    BY <2>3 DEF CreateCoinbase, Coinbase
  <2> QED BY <2>1, <2>2, <2>3
<1> HIDE DEF tx, share
<1>4. OutputTotal(tx) = total
  <2>1. CASE tx.outputs = <<Pay(total)>>
    <3> DEFINE f == [i \in 1..1 |-> total]
    <3>1. 1..1 = {1} /\ IsFiniteSet(1..1)
      <4>1. 1..1 = {1}
        OBVIOUS
      <4>2. \A m \in Nat : IsFiniteSet(1..m)
        BY FS_Interval
      <4>3. IsFiniteSet(1..1)
        BY <4>2
      <4> QED BY <4>1, <4>3
    <3>2. PICK g : Sums(g, f, 1..1)
      <4> HIDE DEF f
      <4>1. f \in [1..1 -> Nat]
        BY DEF f
      <4> QED BY <3>1, <4>1, SumsExist
    <3>3. OutputTerms(tx, 1, f)
      BY <2>1 DEF OutputTerms, Pay
    <3>4. g[{1}] = total + g[{1} \ {1}] /\ g[{}] = 0
      BY <3>1, <3>2 DEF Sums
    <3>5. {1} \ {1} = {}
      OBVIOUS
    <3>6. f \in [1..1 -> Nat]
      OBVIOUS
    <3> HIDE DEF f
    <3>7. OutputTotal(tx) = g[1..1]
      BY <3>2, <3>3, <3>6, SeqSum
    <3> QED BY <3>1, <3>4, <3>5, <3>7
  <2>2. CASE tx.outputs = <<Pay(share), Pay(total - share)>>
    <3> DEFINE f == [i \in 1..2 |-> IF i = 1 THEN share ELSE total - share]
    <3>1. 1..2 = {1, 2} /\ IsFiniteSet(1..2)
      <4>1. 1..2 = {1, 2}
        OBVIOUS
      <4>2. \A m \in Nat : IsFiniteSet(1..m)
        BY FS_Interval
      <4>3. IsFiniteSet(1..2)
        BY <4>2
      <4> QED BY <4>1, <4>3
    <3>6. f \in [1..2 -> Nat] /\ f[1] = share /\ f[2] = total - share
      BY <1>1
    <3>3. OutputTerms(tx, 2, f)
      BY <2>2, <3>1 DEF OutputTerms, Pay
    <3> HIDE DEF f
    <3>2. PICK g : Sums(g, f, 1..2)
      BY <3>1, <3>6, SumsExist
    <3>4. g[{1, 2}] = f[2] + g[{1, 2} \ {2}] /\ g[{1}] = f[1] + g[{1} \ {1}] /\ g[{}] = 0
      <4>1. {1, 2} \in SUBSET (1..2) /\ {1} \in SUBSET (1..2)
        BY <3>1
      <4> QED BY <3>2, <4>1 DEF Sums
    <3>5. {1} \ {1} = {} /\ {1, 2} \ {2} = {1}
      OBVIOUS
    <3>7. OutputTotal(tx) = g[1..2]
      BY <3>2, <3>3, <3>6, SeqSum
    <3>8. g[1..2] = f[2] + (f[1] + 0)
      BY <3>1, <3>4, <3>5, Zenon
    <3> QED BY <1>1, <3>6, <3>7, <3>8
  <2> QED BY <1>3, <2>1, <2>2
<1> QED BY <1>1, <1>2, <1>3, <1>4 DEF Pays, tx, share, IsCoinbase, GasFee

-----------------------------------------------------------------------------
(* The two loops over a block. *)

\* The results of the two loops so far.
RealSets == {S \in SUBSET Coins : IsFiniteSet(S)}
FeeResults == [utxo : RealSets, fees : Nat \cup {Err}]
ApplyResults == [utxo : RealSets, ok : BOOLEAN, gas : Nat, fees : Nat, overwritten : Nat]

\* A payment that validates leaves a fee.
LEMMA FeeType ==
  ASSUME NEW u, Real(u), NEW tx \in Transactions, Valid(u, tx)
  PROVE  /\ ApplyTx(u, tx).ok /\ Real(ApplyTx(u, tx).utxos)
         /\ Inputs(tx) \subseteq u /\ Distinct(tx.inputs)
         /\ ApplyTx(u, tx).utxos = (u \ Inputs(tx)) \cup Outputs(tx)
         /\ GasFee(tx) \in Nat
         /\ ~IsCoinbase(tx) => BaseFee(tx) \in Nat
<1>1. Inputs(tx) \subseteq u /\ Distinct(tx.inputs)
  <2>1. CASE IsCoinbase(tx)
    <3>1. DOMAIN tx.inputs = {}
      BY <2>1 DEF IsCoinbase
    <3> QED BY <3>1 DEF Inputs, Distinct
  <2>2. CASE ~IsCoinbase(tx)
    BY <2>2 DEF Valid
  <2> QED BY <2>1, <2>2
<1>2. ApplyTx(u, tx).ok /\ ApplyTx(u, tx).utxos = (u \ Inputs(tx)) \cup Outputs(tx)
  BY <1>1 DEF ApplyTx
<1>3. Real(ApplyTx(u, tx).utxos)
  BY <1>2, RealFacts
<1>4. InputTotal(tx) \in Nat /\ OutputTotal(tx) \in Nat
  BY <1>1, ValueStep
<1>5. ~IsCoinbase(tx) => BaseFee(tx) \in Nat
  <2>1. ~IsCoinbase(tx) => OutputTotal(tx) <= InputTotal(tx)
    BY DEF Valid
  <2> QED BY <1>4, <2>1 DEF BaseFee
<1>6. GasFee(tx) \in Nat
  <2>1. tx.gas_limit \in Nat /\ tx.max_fee_per_gas \in Nat
    BY RewardAssumption
  <2>2. \A x, y \in Nat : x * y \in Nat
    OBVIOUS
  <2>3. tx.gas_limit * tx.max_fee_per_gas \in Nat
    BY <2>1, <2>2
  <2> QED BY <2>3 DEF GasFee
<1> QED BY <1>1, <1>2, <1>3, <1>5, <1>6

\* One step of calculate_accepted_fees.
LEMMA AddFeeFacts ==
  ASSUME NEW acc \in FeeResults, NEW tx \in Transactions
  PROVE  LET next == AddFee(acc, tx) IN
         /\ next \in FeeResults
         /\ acc.fees = Err => next.fees = Err
         /\ IsCoinbase(tx) => next = acc
         /\ ~IsCoinbase(tx) /\ next.fees # Err =>
              /\ Valid(acc.utxo, tx) /\ next.utxo = (acc.utxo \ Inputs(tx)) \cup Outputs(tx)
              /\ next.fees = acc.fees + BaseFee(tx) + GasFee(tx)
<1>1. acc.utxo \in RealSets /\ acc.fees \in Nat \cup {Err} /\ Real(acc.utxo)
  BY DEF FeeResults, RealSets, Real
<1>2. CASE acc.fees = Err \/ IsCoinbase(tx)
  <2>1. AddFee(acc, tx) = acc
    BY <1>2 DEF AddFee
  <2> QED BY <1>2, <2>1
<1>3. CASE ~(acc.fees = Err \/ IsCoinbase(tx))
  <2> DEFINE fees == acc.fees + BaseFee(tx) + GasFee(tx)
  <2>1. CASE ~Valid(acc.utxo, tx) \/ fees > MaxValue
    <3>1. AddFee(acc, tx) = [acc EXCEPT !.fees = Err]
      BY <1>3, <2>1 DEF AddFee
    <3>2. [acc EXCEPT !.fees = Err] \in FeeResults /\ [acc EXCEPT !.fees = Err].fees = Err
      BY DEF FeeResults
    <3> QED BY <1>3, <3>1, <3>2
  <2>2. CASE ~(~Valid(acc.utxo, tx) \/ fees > MaxValue)
    <3>1. AddFee(acc, tx) = [utxo |-> ApplyTx(acc.utxo, tx).utxos, fees |-> fees]
      BY <1>3, <2>2 DEF AddFee
    <3>2. /\ Real(ApplyTx(acc.utxo, tx).utxos) /\ BaseFee(tx) \in Nat /\ GasFee(tx) \in Nat
          /\ ApplyTx(acc.utxo, tx).utxos = (acc.utxo \ Inputs(tx)) \cup Outputs(tx)
      BY <1>1, <1>3, <2>2, FeeType
    <3>3. fees \in Nat
      BY <1>1, <1>3, <3>2
    <3>4. ApplyTx(acc.utxo, tx).utxos \in RealSets
      BY <3>2 DEF Real, RealSets
    <3> HIDE DEF fees
    <3>5. AddFee(acc, tx) \in FeeResults
      BY <3>1, <3>3, <3>4 DEF FeeResults
    <3>6. AddFee(acc, tx).utxo = (acc.utxo \ Inputs(tx)) \cup Outputs(tx) /\ AddFee(acc, tx).fees = fees
      BY <3>1, <3>2
    <3> QED BY <1>3, <2>2, <3>5, <3>6 DEF fees
  <2> QED BY <2>1, <2>2
<1> QED BY <1>2, <1>3

\* One step of the loop of apply_block.
LEMMA ApplyOneFacts ==
  ASSUME NEW acc \in ApplyResults, NEW tx \in Transactions
  PROVE  LET next == ApplyOne(acc, tx)
             rest == acc.utxo \ Inputs(tx)
         IN
         /\ next \in ApplyResults
         /\ next.ok <=> acc.ok /\ Valid(acc.utxo, tx)
         /\ next.ok =>
              /\ next.utxo = rest \cup Outputs(tx)
              /\ next.gas = acc.gas + GasFee(tx)
              /\ next.fees = acc.fees + (IF IsCoinbase(tx) THEN 0 ELSE BaseFee(tx))
              /\ next.overwritten = acc.overwritten + SetValue(Outputs(tx) \cap rest)
<1> DEFINE rest == acc.utxo \ Inputs(tx)
           fee == IF IsCoinbase(tx) THEN 0 ELSE BaseFee(tx)
           more == SetValue(Outputs(tx) \cap rest)
<1>1. /\ acc.utxo \in RealSets /\ acc.gas \in Nat /\ acc.fees \in Nat /\ acc.overwritten \in Nat
      /\ acc.ok \in BOOLEAN /\ Real(acc.utxo)
  BY DEF ApplyResults, RealSets, Real
<1>2. ApplyTx(acc.utxo, tx).ok <=> Valid(acc.utxo, tx)
  <2>1. ~Valid(acc.utxo, tx) => ~ApplyTx(acc.utxo, tx).ok
    BY DEF ApplyTx
  <2> QED BY <1>1, <2>1, FeeType
<1>3. CASE ~(acc.ok /\ Valid(acc.utxo, tx))
  <2>1. ApplyOne(acc, tx) = [acc EXCEPT !.ok = FALSE]
    BY <1>2, <1>3 DEF ApplyOne
  <2>2. [acc EXCEPT !.ok = FALSE] \in ApplyResults /\ ~[acc EXCEPT !.ok = FALSE].ok
    BY DEF ApplyResults
  <2> QED BY <1>3, <2>1, <2>2
<1>4. CASE acc.ok /\ Valid(acc.utxo, tx)
  <2>1. ApplyOne(acc, tx) =
          [utxo |-> ApplyTx(acc.utxo, tx).utxos, ok |-> TRUE, gas |-> acc.gas + GasFee(tx),
           fees |-> acc.fees + fee, overwritten |-> acc.overwritten + more]
    BY <1>2, <1>4 DEF ApplyOne
  <2>2. /\ Real(ApplyTx(acc.utxo, tx).utxos) /\ fee \in Nat /\ GasFee(tx) \in Nat
        /\ ApplyTx(acc.utxo, tx).utxos = rest \cup Outputs(tx)
    BY <1>1, <1>4, FeeType
  <2>3. ApplyTx(acc.utxo, tx).utxos \in RealSets
    BY <2>2 DEF Real, RealSets
  <2>4. more \in Nat
    <3>1. Real(Outputs(tx) \cap rest)
      BY RealFacts
    <3> QED BY <3>1, SetValueType
  <2> HIDE DEF rest, fee, more
  <2>5. acc.gas + GasFee(tx) \in Nat /\ acc.fees + fee \in Nat /\ acc.overwritten + more \in Nat
    BY <1>1, <2>2, <2>4
  <2>6. ApplyOne(acc, tx) \in ApplyResults
    BY <2>1, <2>3, <2>5 DEF ApplyResults
  <2>7. /\ ApplyOne(acc, tx).ok
        /\ ApplyOne(acc, tx).utxo = rest \cup Outputs(tx)
        /\ ApplyOne(acc, tx).gas = acc.gas + GasFee(tx)
        /\ ApplyOne(acc, tx).fees = acc.fees + fee
        /\ ApplyOne(acc, tx).overwritten = acc.overwritten + more
    BY <2>1, <2>2
  <2> QED BY <1>4, <2>6, <2>7 DEF rest, fee, more
<1> QED BY <1>3, <1>4

\* The loop of calculate_accepted_fees over txs from a set.
FeeLoop(W, txs, set) ==
  /\ W \in [0..Len(txs) -> FeeResults] /\ W[0] = [utxo |-> set, fees |-> 0]
  /\ \A n \in 1..Len(txs) : W[n] = AddFee(W[n - 1], txs[n])

\* The loop of apply_block over txs.
ApplyLoop(W, txs) ==
  /\ W \in [0..Len(txs) -> ApplyResults]
  /\ W[0] = [utxo |-> utxo, ok |-> TRUE, gas |-> 0, fees |-> 0, overwritten |-> 0]
  /\ \A n \in 1..Len(txs) : W[n] = ApplyOne(W[n - 1], txs[n])

LEMMA FeeLoopExists ==
  ASSUME NEW txs \in Seq(Transactions), NEW set, Real(set)
  PROVE  \E W : FeeLoop(W, txs, set) /\ AcceptedFees(txs, set) = W[Len(txs)].fees
<1> DEFINE N == Len(txs)
           base == [utxo |-> set, fees |-> 0]
           Solves(W) == W = [n \in 0..N |-> IF n = 0 THEN base ELSE AddFee(W[n - 1], txs[n])]
           C == CHOOSE W : Solves(W)
           G == [n \in 1..N |-> [acc \in FeeResults |-> AddFee(acc, txs[n])]]
<1>1. N \in Nat /\ \A n \in 1..N : txs[n] \in Transactions
  OBVIOUS
<1>2. base \in FeeResults
  BY DEF Real, RealSets, FeeResults
<1>3. \A n \in 1..N : \A acc \in FeeResults : AddFee(acc, txs[n]) \in FeeResults
  BY <1>1, AddFeeFacts
<1>4. G \in [1..N -> [FeeResults -> FeeResults]]
  <2> HIDE DEF N
  <2> QED BY <1>3
<1>5. PICK W : Solution(W, FeeResults, base, N, G)
  <2> HIDE DEF G, base, N
  <2> QED BY <1>1, <1>2, <1>4, Recursion
<1>6. W \in [0..N -> FeeResults] /\ W[0] = base /\ \A n \in 1..N : W[n] = AddFee(W[n - 1], txs[n])
  <2>1. W \in [0..N -> FeeResults] /\ W[0] = base /\ \A n \in 1..N : W[n] = G[n][W[n - 1]]
    BY <1>5 DEF Solution
  <2>2. \A n \in 1..N : W[n - 1] \in FeeResults
    BY <1>1, <2>1
  <2> HIDE DEF base, N
  <2> QED BY <2>1, <2>2
<1>7. Solves(W)
  <2> HIDE DEF base
  <2>1. \A n \in 0..N : W[n] = IF n = 0 THEN base ELSE AddFee(W[n - 1], txs[n])
    BY <1>1, <1>6
  <2>2. W = [n \in 0..N |-> W[n]]
    BY <1>6
  <2> QED BY <2>1, <2>2, Zenon
<1>8. Solves(C)
  BY <1>7
<1> HIDE DEF C
<1>9. /\ DOMAIN C = 0..N
      /\ \A n \in 0..N : C[n] = IF n = 0 THEN base ELSE AddFee(C[n - 1], txs[n])
  BY <1>8, Zenon
<1>10. C = [n \in 0..N |-> C[n]]
  BY <1>8, Zenon
<1> DEFINE T == {n \in 0..N : C[n] \in FeeResults}
<1>11. 0..N \subseteq T
  <2> HIDE DEF base
  <2>1. 0 \in T
    BY <1>1, <1>2, <1>9
  <2>2. ASSUME NEW n \in 1..N, n - 1 \in T PROVE n \in T
    <3> HIDE DEF Solves
    <3>1. n \in 0..N /\ C[n] = AddFee(C[n - 1], txs[n]) /\ C[n - 1] \in FeeResults
      BY <1>1, <1>9, <2>2
    <3> QED BY <1>3, <3>1
  <2> HIDE DEF T, N
  <2> QED BY <1>1, <2>1, <2>2, UpTo
<1>12. FeeLoop(C, txs, set)
  <2>1. \A n \in 0..N : C[n] \in FeeResults
    BY <1>11
  <2> HIDE DEF Solves
  <2>2. C \in [0..N -> FeeResults]
    BY <1>10, <2>1, Zenon
  <2>3. C[0] = base /\ \A n \in 1..N : C[n] = AddFee(C[n - 1], txs[n])
    <3> HIDE DEF base
    <3> QED BY <1>1, <1>9
  <2> QED BY <2>2, <2>3 DEF FeeLoop
<1>13. AcceptedFees(txs, set) = C[N].fees
  BY Zenon DEF AcceptedFees, C
<1> QED BY <1>12, <1>13

LEMMA ApplyLoopExists ==
  ASSUME NEW txs \in Seq(Transactions), Real(utxo)
  PROVE  \E W : ApplyLoop(W, txs) /\ Applied(txs) = W[Len(txs)]
<1> DEFINE N == Len(txs)
           base == [utxo |-> utxo, ok |-> TRUE, gas |-> 0, fees |-> 0, overwritten |-> 0]
           Solves(W) == W = [n \in 0..N |-> IF n = 0 THEN base ELSE ApplyOne(W[n - 1], txs[n])]
           C == CHOOSE W : Solves(W)
           G == [n \in 1..N |-> [acc \in ApplyResults |-> ApplyOne(acc, txs[n])]]
<1>1. N \in Nat /\ \A n \in 1..N : txs[n] \in Transactions
  OBVIOUS
<1>2. base \in ApplyResults
  BY DEF Real, RealSets, ApplyResults
<1>3. \A n \in 1..N : \A acc \in ApplyResults : ApplyOne(acc, txs[n]) \in ApplyResults
  BY <1>1, ApplyOneFacts
<1>4. G \in [1..N -> [ApplyResults -> ApplyResults]]
  <2> HIDE DEF N
  <2> QED BY <1>3
<1>5. PICK W : Solution(W, ApplyResults, base, N, G)
  <2> HIDE DEF G, base, N
  <2> QED BY <1>1, <1>2, <1>4, Recursion
<1>6. W \in [0..N -> ApplyResults] /\ W[0] = base /\ \A n \in 1..N : W[n] = ApplyOne(W[n - 1], txs[n])
  <2>1. W \in [0..N -> ApplyResults] /\ W[0] = base /\ \A n \in 1..N : W[n] = G[n][W[n - 1]]
    BY <1>5 DEF Solution
  <2>2. \A n \in 1..N : W[n - 1] \in ApplyResults
    BY <1>1, <2>1
  <2> HIDE DEF base, N
  <2> QED BY <2>1, <2>2
<1>7. Solves(W)
  <2> HIDE DEF base
  <2>1. \A n \in 0..N : W[n] = IF n = 0 THEN base ELSE ApplyOne(W[n - 1], txs[n])
    BY <1>1, <1>6
  <2>2. W = [n \in 0..N |-> W[n]]
    BY <1>6
  <2> QED BY <2>1, <2>2, Zenon
<1>8. Solves(C)
  BY <1>7
<1> HIDE DEF C
<1>9. /\ DOMAIN C = 0..N
      /\ \A n \in 0..N : C[n] = IF n = 0 THEN base ELSE ApplyOne(C[n - 1], txs[n])
  BY <1>8, Zenon
<1>10. C = [n \in 0..N |-> C[n]]
  BY <1>8, Zenon
<1> DEFINE T == {n \in 0..N : C[n] \in ApplyResults}
<1>11. 0..N \subseteq T
  <2> HIDE DEF base
  <2>1. 0 \in T
    BY <1>1, <1>2, <1>9
  <2>2. ASSUME NEW n \in 1..N, n - 1 \in T PROVE n \in T
    <3> HIDE DEF Solves
    <3>1. n \in 0..N /\ C[n] = ApplyOne(C[n - 1], txs[n]) /\ C[n - 1] \in ApplyResults
      BY <1>1, <1>9, <2>2
    <3> QED BY <1>3, <3>1
  <2> HIDE DEF T, N
  <2> QED BY <1>1, <2>1, <2>2, UpTo
<1>12. ApplyLoop(C, txs)
  <2>1. \A n \in 0..N : C[n] \in ApplyResults
    BY <1>11
  <2> HIDE DEF Solves
  <2>2. C \in [0..N -> ApplyResults]
    BY <1>10, <2>1, Zenon
  <2>3. C[0] = base /\ \A n \in 1..N : C[n] = ApplyOne(C[n - 1], txs[n])
    <3> HIDE DEF base
    <3> QED BY <1>1, <1>9
  <2> QED BY <2>2, <2>3 DEF ApplyLoop
<1>13. Applied(txs) = C[N]
  BY Zenon DEF Applied, C
<1> QED BY <1>12, <1>13

\* A block: a coinbase and then payments.
Payments == {tx \in Transactions : ~IsCoinbase(tx)}

LEMMA BlockOf ==
  ASSUME NEW cb \in Transactions, NEW body \in Seq(Payments)
  PROVE  /\ <<cb>> \o body \in Seq(Transactions) /\ body \in Seq(Transactions)
         /\ Len(<<cb>> \o body) = Len(body) + 1 /\ (<<cb>> \o body)[1] = cb
         /\ \A n \in 1..Len(body) : (<<cb>> \o body)[n + 1] = body[n]
         /\ \A n \in 1..Len(body) : body[n] \in Payments
         /\ \A n \in 2..Len(body) + 1 : (<<cb>> \o body)[n] \in Payments
<1>1. body \in Seq(Transactions) /\ \A n \in 1..Len(body) : body[n] \in Payments
  <2>1. \A n \in 1..Len(body) : body[n] \in Payments
    OBVIOUS
  <2>2. \A n \in 1..Len(body) : body[n] \in Transactions
    BY <2>1 DEF Payments
  <2> QED BY <2>1, <2>2
<1>2. /\ <<cb>> \o body \in Seq(Transactions)
      /\ Len(<<cb>> \o body) = Len(body) + 1 /\ (<<cb>> \o body)[1] = cb
      /\ \A n \in 1..Len(body) : (<<cb>> \o body)[n + 1] = body[n]
  BY <1>1
<1>3. ASSUME NEW n \in 2..Len(body) + 1 PROVE (<<cb>> \o body)[n] \in Payments
  <2>1. n - 1 \in 1..Len(body) /\ n = (n - 1) + 1
    BY <1>1
  <2>2. (<<cb>> \o body)[(n - 1) + 1] = body[n - 1]
    BY <1>2, <2>1
  <2> QED BY <1>1, <2>1, <2>2
<1> QED BY <1>1, <1>2, <1>3

\* Applying a block: what circulates afterwards, the fees its inputs leave and
\* what is overwritten are what circulated before and what the coinbase pays; and
\* the fees that calculate_accepted_fees finds are those fees and the gas.
LEMMA BlockBooks ==
  ASSUME Real(utxo), NEW cb \in Transactions, NEW body \in Seq(Payments),
         IsCoinbase(cb), GasFee(cb) = 0, Applied(<<cb>> \o body).ok
  PROVE  LET txs == <<cb>> \o body
             r == Applied(txs)
         IN
         /\ r \in ApplyResults
         /\ SetValue(r.utxo) + r.fees + r.overwritten = SetValue(utxo) + OutputTotal(cb)
         /\ AcceptedFees(txs, utxo) # Err => AcceptedFees(txs, utxo) = r.fees + r.gas
<1> DEFINE txs == <<cb>> \o body
           N == Len(txs)
           paid(n) == IF n = 0 THEN 0 ELSE OutputTotal(cb)
<1>1. /\ txs \in Seq(Transactions) /\ N \in Nat /\ N # 0 /\ txs[1] = cb
      /\ \A n \in 1..N : txs[n] \in Transactions
      /\ \A n \in 2..N : txs[n] \in Payments
  <2>1. txs \in Seq(Transactions) /\ N = Len(body) + 1 /\ Len(body) \in Nat /\ txs[1] = cb
        /\ \A n \in 2..Len(body) + 1 : txs[n] \in Payments
    BY BlockOf
  <2> HIDE DEF txs
  <2> QED BY <2>1
<1>2. PICK W : ApplyLoop(W, txs) /\ Applied(txs) = W[N]
  BY <1>1, ApplyLoopExists
<1>3. PICK F : FeeLoop(F, txs, utxo) /\ AcceptedFees(txs, utxo) = F[N].fees
  BY <1>1, FeeLoopExists
<1>4. W[N].ok
  BY <1>2
<1> HIDE DEF txs
<1>5. /\ W \in [0..N -> ApplyResults]
      /\ W[0] = [utxo |-> utxo, ok |-> TRUE, gas |-> 0, fees |-> 0, overwritten |-> 0]
      /\ \A n \in 1..N : W[n] = ApplyOne(W[n - 1], txs[n])
  BY <1>2 DEF ApplyLoop
<1>6. /\ F \in [0..N -> FeeResults] /\ F[0] = [utxo |-> utxo, fees |-> 0]
      /\ \A n \in 1..N : F[n] = AddFee(F[n - 1], txs[n])
  BY <1>3 DEF FeeLoop
<1> DEFINE T == {n \in 0..N : W[n].ok =>
                   /\ SetValue(W[n].utxo) + W[n].fees + W[n].overwritten = SetValue(utxo) + paid(n)
                   /\ F[n].fees # Err => F[n].fees = W[n].fees + W[n].gas}
<1>7. SetValue(utxo) \in Nat /\ OutputTotal(cb) \in Nat
  <2>1. Inputs(cb) \subseteq utxo /\ Distinct(cb.inputs)
    <3>1. DOMAIN cb.inputs = {}
      BY DEF IsCoinbase
    <3> QED BY <3>1 DEF Inputs, Distinct
  <2> QED BY <2>1, ValueStep
<1>8. 0 \in T
  BY <1>1, <1>5, <1>6, <1>7
<1>9. ASSUME NEW n \in 1..N, n - 1 \in T PROVE n \in T
  <2> DEFINE tx == txs[n]
             a == W[n - 1]
             b == W[n]
             c == F[n - 1]
             d == F[n]
             rest == a.utxo \ Inputs(tx)
  <2> SUFFICES ASSUME b.ok
               PROVE  /\ SetValue(b.utxo) + b.fees + b.overwritten = SetValue(utxo) + paid(n)
                      /\ d.fees # Err => d.fees = b.fees + b.gas
    BY <1>1
  <2>1. /\ tx \in Transactions /\ a \in ApplyResults /\ c \in FeeResults
        /\ b = ApplyOne(a, tx) /\ d = AddFee(c, tx) /\ n - 1 \in 0..N
    <3>1. n - 1 \in 0..N
      BY <1>1
    <3> QED BY <1>1, <1>5, <1>6, <3>1
  <2>2. a.ok =>
          /\ SetValue(a.utxo) + a.fees + a.overwritten = SetValue(utxo) + paid(n - 1)
          /\ c.fees # Err => c.fees = a.fees + a.gas
    BY <1>9
  <2>3. IF n = 1 THEN tx = cb ELSE ~IsCoinbase(tx)
    <3>1. n # 1 => n \in 2..N
      BY <1>1
    <3> QED BY <1>1, <3>1 DEF Payments
  <2> HIDE DEF tx, a, b, c, d, T
  <2>4. /\ a.ok /\ Valid(a.utxo, tx) /\ b.utxo = rest \cup Outputs(tx)
        /\ b.gas = a.gas + GasFee(tx)
        /\ b.fees = a.fees + (IF IsCoinbase(tx) THEN 0 ELSE BaseFee(tx))
        /\ b.overwritten = a.overwritten + SetValue(Outputs(tx) \cap rest)
    BY <2>1, ApplyOneFacts
  <2>5. /\ Real(a.utxo) /\ a.fees \in Nat /\ a.gas \in Nat /\ a.overwritten \in Nat
        /\ c.fees \in Nat \cup {Err}
    BY <2>1 DEF ApplyResults, FeeResults, RealSets, Real
  <2>6. Inputs(tx) \subseteq a.utxo /\ Distinct(tx.inputs) /\ GasFee(tx) \in Nat
    BY <2>1, <2>4, <2>5, FeeType
  <2>7. /\ SetValue(rest \cup Outputs(tx)) + SetValue(Outputs(tx) \cap rest) + InputTotal(tx)
             = SetValue(a.utxo) + OutputTotal(tx)
        /\ SetValue(rest \cup Outputs(tx)) \in Nat /\ SetValue(Outputs(tx) \cap rest) \in Nat
        /\ SetValue(a.utxo) \in Nat /\ InputTotal(tx) \in Nat /\ OutputTotal(tx) \in Nat
        /\ IsCoinbase(tx) => InputTotal(tx) = 0
    BY <2>1, <2>5, <2>6, ValueStep
  <2> DEFINE V == SetValue(rest \cup Outputs(tx))
             M == SetValue(Outputs(tx) \cap rest)
             A == SetValue(a.utxo)
             U == SetValue(utxo)
  <2>8. /\ V + M + InputTotal(tx) = A + OutputTotal(tx) /\ V \in Nat /\ M \in Nat /\ A \in Nat
        /\ b.overwritten = a.overwritten + M /\ SetValue(b.utxo) = V
        /\ A + a.fees + a.overwritten = U + paid(n - 1) /\ U \in Nat
    BY <1>7, <2>2, <2>4, <2>7
  <2> HIDE DEF V, M, A, U, rest
  <2>9. CASE n = 1
    <3>1. /\ tx = cb /\ b.fees = a.fees + 0 /\ b.gas = a.gas + 0 /\ InputTotal(tx) = 0
          /\ paid(n - 1) = 0 /\ paid(n) = OutputTotal(tx)
      BY <2>3, <2>4, <2>7, <2>9
    <3>2. V + b.fees + b.overwritten = U + paid(n)
      <4>1. V + M = A + OutputTotal(tx) /\ A + a.fees + a.overwritten = U
        BY <2>7, <2>8, <3>1
      <4>2. V + a.fees + (a.overwritten + M) = U + OutputTotal(tx)
        <5> DEFINE f == a.fees
                   w == a.overwritten
                   o == OutputTotal(tx)
        <5>1. /\ V \in Nat /\ M \in Nat /\ A \in Nat /\ U \in Nat /\ f \in Nat /\ w \in Nat /\ o \in Nat
              /\ V + M = A + o /\ A + f + w = U
          BY <2>5, <2>7, <2>8, <4>1
        <5> HIDE DEF f, w, o
        <5>2. V + f + (w + M) = U + o
          BY <5>1
        <5> QED BY <5>2 DEF f, w, o
      <4>3. b.fees = a.fees
        BY <2>5, <3>1
      <4> QED BY <2>8, <3>1, <4>2, <4>3
    <3>3. d.fees # Err => d.fees = b.fees + b.gas
      <4>1. d = c
        BY <2>1, <3>1, AddFeeFacts
      <4> QED BY <2>2, <2>4, <2>5, <3>1, <4>1
    <3> QED BY <2>8, <3>2, <3>3 DEF U
  <2>10. CASE n # 1
    <3>1. /\ ~IsCoinbase(tx) /\ b.fees = a.fees + BaseFee(tx) /\ b.gas = a.gas + GasFee(tx)
          /\ paid(n - 1) = OutputTotal(cb) /\ paid(n) = OutputTotal(cb)
          /\ BaseFee(tx) = InputTotal(tx) - OutputTotal(tx)
      BY <2>3, <2>4, <2>10 DEF BaseFee
    <3>2. V + b.fees + b.overwritten = U + paid(n)
      <4>1. A + a.fees + a.overwritten = U + OutputTotal(cb)
        BY <2>8, <3>1
      <4>2. V + (a.fees + (InputTotal(tx) - OutputTotal(tx))) + (a.overwritten + M) = U + OutputTotal(cb)
        <5> DEFINE f == a.fees
                   w == a.overwritten
                   i == InputTotal(tx)
                   o == OutputTotal(tx)
                   p == OutputTotal(cb)
        <5>1. /\ V \in Nat /\ M \in Nat /\ A \in Nat /\ U \in Nat /\ f \in Nat /\ w \in Nat
              /\ i \in Nat /\ o \in Nat /\ p \in Nat
              /\ V + M + i = A + o /\ A + f + w = U + p
          BY <1>7, <2>5, <2>7, <2>8, <4>1
        <5> HIDE DEF f, w, i, o, p
        <5>2. V + (f + (i - o)) + (w + M) = U + p
          BY <5>1
        <5> QED BY <5>2 DEF f, w, i, o, p
      <4>3. b.fees = a.fees + (InputTotal(tx) - OutputTotal(tx))
        BY <3>1
      <4> QED BY <2>8, <3>1, <4>2, <4>3
    <3>3. d.fees # Err => d.fees = b.fees + b.gas
      <4>1. d.fees # Err => c.fees # Err /\ d.fees = c.fees + BaseFee(tx) + GasFee(tx)
        BY <2>1, <3>1, AddFeeFacts
      <4>2. BaseFee(tx) \in Int
        BY <2>7, <3>1
      <4> QED BY <2>2, <2>4, <2>5, <2>6, <3>1, <4>1, <4>2
    <3> QED BY <2>8, <3>2, <3>3 DEF U
  <2> QED BY <2>9, <2>10
<1>10. N \in T
  <2>1. 0..N \subseteq T
    <3> HIDE DEF T
    <3> QED BY <1>1, <1>8, <1>9, UpTo
  <2> QED BY <1>1, <2>1
<1>11. W[N] \in ApplyResults
  BY <1>1, <1>5
<1>12. paid(N) = OutputTotal(cb)
  BY <1>1
<1>13. /\ SetValue(W[N].utxo) + W[N].fees + W[N].overwritten = SetValue(utxo) + OutputTotal(cb)
       /\ F[N].fees # Err => F[N].fees = W[N].fees + W[N].gas
  BY <1>4, <1>10, <1>12
<1> QED BY <1>2, <1>3, <1>11, <1>13 DEF txs

\* The coinbase adds nothing to the fees.
LEMMA CoinbaseSkipped ==
  ASSUME NEW set, Real(set), NEW cb \in Transactions, NEW body \in Seq(Payments), IsCoinbase(cb)
  PROVE  AcceptedFees(<<cb>> \o body, set) = AcceptedFees(body, set)
<1> DEFINE txs == <<cb>> \o body
           N == Len(body)
<1>1. /\ txs \in Seq(Transactions) /\ body \in Seq(Transactions) /\ N \in Nat
      /\ Len(txs) = N + 1 /\ txs[1] = cb
      /\ \A n \in 1..N : txs[n + 1] = body[n]
  BY BlockOf
<1>2. PICK F : FeeLoop(F, txs, set) /\ AcceptedFees(txs, set) = F[Len(txs)].fees
  BY <1>1, FeeLoopExists
<1>3. PICK E : FeeLoop(E, body, set) /\ AcceptedFees(body, set) = E[N].fees
  BY <1>1, FeeLoopExists
<1> HIDE DEF txs
<1>4. /\ F \in [0..N + 1 -> FeeResults] /\ F[0] = [utxo |-> set, fees |-> 0]
      /\ \A n \in 1..N + 1 : F[n] = AddFee(F[n - 1], txs[n])
  BY <1>1, <1>2 DEF FeeLoop
<1>5. E[0] = [utxo |-> set, fees |-> 0] /\ \A n \in 1..N : E[n] = AddFee(E[n - 1], body[n])
  BY <1>3 DEF FeeLoop
<1> DEFINE T == {n \in 0..N : F[n + 1] = E[n]}
<1>6. 0 \in T
  <2>1. F[1] = AddFee(F[0], cb) /\ F[0] \in FeeResults
    <3>1. 1 \in 1..N + 1 /\ 0 \in 0..N + 1 /\ 1 - 1 = 0
      BY <1>1
    <3> QED BY <1>1, <1>4, <3>1
  <2>2. F[1] = F[0]
    BY <2>1, AddFeeFacts
  <2> QED BY <1>1, <1>4, <1>5, <2>2
<1>7. ASSUME NEW n \in 1..N, n - 1 \in T PROVE n \in T
  <2>1. n + 1 \in 1..N + 1 /\ (n + 1) - 1 = n /\ (n - 1) + 1 = n /\ n \in 0..N
    BY <1>1
  <2>2. F[n] = E[n - 1]
    BY <1>7, <2>1
  <2>3. F[n + 1] = AddFee(F[n], txs[n + 1]) /\ txs[n + 1] = body[n]
    BY <1>1, <1>4, <2>1
  <2>4. E[n] = AddFee(E[n - 1], body[n])
    BY <1>5
  <2> QED BY <2>1, <2>2, <2>3, <2>4
<1>8. 0..N \subseteq T
  <2> HIDE DEF T, N
  <2> QED BY <1>1, <1>6, <1>7, UpTo
<1>9. F[N + 1] = E[N]
  BY <1>1, <1>8
<1> QED BY <1>1, <1>2, <1>3, <1>9 DEF txs

\* A set with more outputs in it accepts what the smaller one accepts.
LEMMA ValidGrows ==
  ASSUME NEW S, NEW U, S \subseteq U, NEW tx, Valid(S, tx)
  PROVE  Valid(U, tx)
BY DEF Valid

\* A block whose fees are accepted applies, with the coinbase in front.
LEMMA BlockApplies ==
  ASSUME Real(utxo), NEW cb \in Transactions, NEW body \in Seq(Payments),
         IsCoinbase(cb), \A i \in DOMAIN cb.outputs : ~cb.outputs[i].burn,
         AcceptedFees(body, utxo) # Err
  PROVE  Applied(<<cb>> \o body).ok
<1> DEFINE txs == <<cb>> \o body
           N == Len(body)
<1>1. /\ txs \in Seq(Transactions) /\ body \in Seq(Transactions) /\ N \in Nat
      /\ Len(txs) = N + 1 /\ txs[1] = cb
      /\ \A n \in 1..N : txs[n + 1] = body[n]
      /\ \A n \in 1..N : body[n] \in Payments
  BY BlockOf
<1>2. PICK W : ApplyLoop(W, txs) /\ Applied(txs) = W[Len(txs)]
  BY <1>1, ApplyLoopExists
<1>3. PICK F : FeeLoop(F, body, utxo) /\ AcceptedFees(body, utxo) = F[N].fees
  BY <1>1, FeeLoopExists
<1> HIDE DEF txs
<1>4. /\ W \in [0..N + 1 -> ApplyResults]
      /\ W[0] = [utxo |-> utxo, ok |-> TRUE, gas |-> 0, fees |-> 0, overwritten |-> 0]
      /\ \A n \in 1..N + 1 : W[n] = ApplyOne(W[n - 1], txs[n])
  BY <1>1, <1>2 DEF ApplyLoop
<1>5. /\ F \in [0..N -> FeeResults] /\ F[0] = [utxo |-> utxo, fees |-> 0]
      /\ \A n \in 1..N : F[n] = AddFee(F[n - 1], body[n])
  BY <1>3 DEF FeeLoop
<1> DEFINE T == {n \in 0..N : F[n].fees # Err => W[n + 1].ok /\ F[n].utxo \subseteq W[n + 1].utxo}
<1>6. 0 \in T
  <2>1. W[1] = ApplyOne(W[0], cb) /\ W[0] \in ApplyResults
    <3>1. 1 \in 1..N + 1 /\ 0 \in 0..N + 1 /\ 1 - 1 = 0
      BY <1>1
    <3> QED BY <1>1, <1>4, <3>1
  <2>2. Valid(utxo, cb)
    BY DEF Valid
  <2>3. Inputs(cb) = {}
    BY DEF IsCoinbase, Inputs
  <2>4. W[1].ok /\ W[1].utxo = (utxo \ Inputs(cb)) \cup Outputs(cb)
    <3>1. W[0].ok /\ W[0].utxo = utxo
      BY <1>4
    <3> DEFINE a == W[0]
               b == W[1]
    <3>2. a \in ApplyResults /\ b = ApplyOne(a, cb) /\ a.ok /\ Valid(a.utxo, cb) /\ a.utxo = utxo
      BY <2>1, <2>2, <3>1
    <3> HIDE DEF a, b
    <3>3. b.ok /\ b.utxo = (a.utxo \ Inputs(cb)) \cup Outputs(cb)
      BY <3>2, ApplyOneFacts
    <3> QED BY <3>2, <3>3 DEF a, b
  <2>5. F[0].utxo \subseteq W[1].utxo
    BY <1>5, <2>3, <2>4
  <2> QED BY <1>1, <2>4, <2>5
<1>7. ASSUME NEW n \in 1..N, n - 1 \in T PROVE n \in T
  <2>1. n + 1 \in 1..N + 1 /\ (n + 1) - 1 = n /\ (n - 1) + 1 = n /\ n \in 0..N /\ n - 1 \in 0..N
        /\ n \in 0..N + 1
    BY <1>1
  <2>2. F[n - 1].fees # Err => W[n].ok /\ F[n - 1].utxo \subseteq W[n].utxo
    BY <1>7, <2>1
  <2>3. W[n + 1] = ApplyOne(W[n], body[n]) /\ W[n] \in ApplyResults
    BY <1>1, <1>4, <2>1
  <2>4. F[n] = AddFee(F[n - 1], body[n]) /\ F[n - 1] \in FeeResults
    BY <1>5, <2>1
  <2>5. body[n] \in Transactions /\ ~IsCoinbase(body[n])
    BY <1>1 DEF Payments
  <2>6. ASSUME F[n].fees # Err PROVE W[n + 1].ok /\ F[n].utxo \subseteq W[n + 1].utxo
    <3>1. /\ F[n - 1].fees # Err /\ Valid(F[n - 1].utxo, body[n])
          /\ F[n].utxo = (F[n - 1].utxo \ Inputs(body[n])) \cup Outputs(body[n])
      BY <2>4, <2>5, <2>6, AddFeeFacts
    <3>2. W[n].ok /\ F[n - 1].utxo \subseteq W[n].utxo /\ Valid(W[n].utxo, body[n])
      BY <2>2, <3>1, ValidGrows
    <3>3. W[n + 1].ok /\ W[n + 1].utxo = (W[n].utxo \ Inputs(body[n])) \cup Outputs(body[n])
      <4> DEFINE a == W[n]
                 b == W[n + 1]
                 tx == body[n]
      <4>1. a \in ApplyResults /\ tx \in Transactions /\ b = ApplyOne(a, tx) /\ a.ok /\ Valid(a.utxo, tx)
        BY <2>3, <2>5, <3>2
      <4> HIDE DEF a, b, tx
      <4>2. b.ok /\ b.utxo = (a.utxo \ Inputs(tx)) \cup Outputs(tx)
        BY <4>1, ApplyOneFacts
      <4> QED BY <4>2 DEF a, b, tx
    <3> QED BY <3>1, <3>2, <3>3
  <2> QED BY <2>1, <2>6
<1>8. 0..N \subseteq T
  <2> HIDE DEF T, N
  <2> QED BY <1>1, <1>6, <1>7, UpTo
<1>9. F[N].fees # Err => W[N + 1].ok
  BY <1>1, <1>8
<1> QED BY <1>1, <1>2, <1>3, <1>9 DEF txs

-----------------------------------------------------------------------------
(* The books. *)

\* A block under way is a coinbase some miner could build and one of the bodies,
\* and the coinbase of a fresh one pays what the block is worth now.
Built(b) ==
  /\ b \in [txs : Seq(Transactions), is_blue : BOOLEAN, fresh : BOOLEAN]
  /\ \E body \in Bodies, miner \in Miners, pool \in Pools, nodes \in NodeCounts, total \in 0..MaxValue :
       /\ b.txs = <<CreateCoinbase(miner, pool, nodes, total)>> \o body
       /\ b.fresh => total = BlockTotalReward(body, height, b.is_blue, utxo)

RewardsInv ==
  /\ Real(utxo) /\ height \in Nat
  /\ unbacked \in Nat /\ lost \in Nat /\ shared \in Nat /\ skipped \in Nat
  /\ \A b \in pending : Built(b)
  /\ BooksBalance

\* What the coinbase of a block is, and that it can be applied.
LEMMA CoinbaseOf ==
  ASSUME NEW miner \in Miners, NEW pool \in Pools, NEW nodes \in NodeCounts, NEW total \in 0..MaxValue
  PROVE  LET cb == CreateCoinbase(miner, pool, nodes, total) IN
         /\ cb \in Transactions /\ IsCoinbase(cb) /\ GasFee(cb) = 0 /\ OutputTotal(cb) = total
         /\ \A i \in DOMAIN cb.outputs : ~cb.outputs[i].burn
         /\ total \in Nat /\ nodes \in Nat
<1> DEFINE cb == CreateCoinbase(miner, pool, nodes, total)
<1>1. total \in Nat /\ nodes \in Nat
  BY TransactionAssumption, RewardAssumption
<1>2. cb \in Transactions
  BY CoinbaseAssumption
<1>3. /\ IsCoinbase(cb) /\ GasFee(cb) = 0 /\ OutputTotal(cb) = total
      /\ \/ cb.outputs = <<Pay(total)>>
         \/ cb.outputs = <<Pay(MinerShare(total)), Pay(total - MinerShare(total))>>
  <2>1. Pays(cb, nodes, total)
    BY <1>1, CoinbasePays
  <2> HIDE DEF cb
  <2> QED BY <2>1 DEF Pays
<1>4. \A i \in DOMAIN cb.outputs : ~cb.outputs[i].burn
  <2> HIDE DEF cb
  <2> QED BY <1>3 DEF Pay
<1> QED BY <1>1, <1>2, <1>3, <1>4

\* A body is a list of payments.
LEMMA BodyIs == \A body \in Bodies : body \in Seq(Payments)
BY RewardAssumption DEF Payments

\* What a block is worth is a number that fits, if it is not an error.
LEMMA RewardType ==
  ASSUME Real(utxo), height \in Nat, NEW txs \in Seq(Transactions), NEW is_blue \in BOOLEAN,
         BlockTotalReward(txs, height, is_blue, utxo) # Err
  PROVE  /\ BlockTotalReward(txs, height, is_blue, utxo) \in 0..MaxValue
         /\ is_blue => /\ AcceptedFees(txs, utxo) \in Nat
                       /\ BlockTotalReward(txs, height, is_blue, utxo)
                            = CappedReward(height) + AcceptedFees(txs, utxo)
<1>1. MaxValue \in Nat /\ CappedReward(height) \in Nat
  BY TransactionAssumption, RewardNumbers
<1>2. AcceptedFees(txs, utxo) \in Nat \cup {Err}
  <2>1. PICK F : FeeLoop(F, txs, utxo) /\ AcceptedFees(txs, utxo) = F[Len(txs)].fees
    BY FeeLoopExists
  <2>2. F[Len(txs)] \in FeeResults
    BY <2>1 DEF FeeLoop
  <2> QED BY <2>1, <2>2 DEF FeeResults
<1>3. CASE ~is_blue
  BY <1>1, <1>3 DEF BlockTotalReward
<1>4. CASE is_blue
  <2> DEFINE fees == AcceptedFees(txs, utxo)
             capped == CappedReward(height)
  <2>1. BlockTotalReward(txs, height, is_blue, utxo)
          = IF fees = Err \/ capped + fees > MaxValue THEN Err ELSE capped + fees
    BY <1>4 DEF BlockTotalReward
  <2> HIDE DEF fees, capped
  <2>2. fees # Err /\ ~(capped + fees > MaxValue) /\ BlockTotalReward(txs, height, is_blue, utxo) = capped + fees
    BY <2>1
  <2>3. fees \in Nat /\ capped \in Nat
    BY <1>1, <1>2, <2>2 DEF fees, capped
  <2>4. capped + fees \in 0..MaxValue
    BY <1>1, <2>2, <2>3
  <2> QED BY <2>2, <2>3, <2>4 DEF fees, capped
<1> QED BY <1>3, <1>4

\* A block is worth the same with its coinbase and without.
LEMMA RewardSkips ==
  ASSUME Real(utxo), NEW cb \in Transactions, IsCoinbase(cb), NEW body \in Seq(Payments), NEW is_blue
  PROVE  BlockTotalReward(<<cb>> \o body, height, is_blue, utxo) = BlockTotalReward(body, height, is_blue, utxo)
<1>1. AcceptedFees(<<cb>> \o body, utxo) = AcceptedFees(body, utxo)
  BY CoinbaseSkipped
<1> QED BY <1>1, Zenon DEF BlockTotalReward

\* Accepting a block, red, blue or blue beside another one, keeps the books.
LEMMA AcceptBalances ==
  ASSUME RewardsInv, NEW block \in pending, NEW is_blue \in BOOLEAN, NEW moves_on \in BOOLEAN,
         Accept(block, is_blue, moves_on)
  PROVE  /\ Real(utxo') /\ height' \in Nat
         /\ unbacked' \in Nat /\ lost' \in Nat /\ shared' \in Nat /\ skipped' \in Nat
         /\ BooksBalance'
<1>1. /\ Real(utxo) /\ height \in Nat /\ Built(block)
      /\ unbacked \in Nat /\ lost \in Nat /\ shared \in Nat /\ skipped \in Nat
      /\ height <= HalvingsFit => SetValue(utxo) = TotalEmitted(height) + shared - skipped + unbacked - lost
  BY DEF RewardsInv, BooksBalance, Circulating
<1>2. PICK body \in Bodies, miner \in Miners, pool \in Pools, nodes \in NodeCounts, total \in 0..MaxValue :
        block.txs = <<CreateCoinbase(miner, pool, nodes, total)>> \o body
  BY <1>1 DEF Built
<1> DEFINE cb == CreateCoinbase(miner, pool, nodes, total)
           txs == <<cb>> \o body
           r == Applied(txs)
           worth == BlockTotalReward(txs, height, is_blue, utxo)
<1>3. /\ cb \in Transactions /\ IsCoinbase(cb) /\ GasFee(cb) = 0 /\ OutputTotal(cb) = total /\ total \in Nat
      /\ body \in Seq(Payments)
  BY CoinbaseOf, BodyIs
<1>4. /\ worth # Err /\ CoinbaseValid(txs, worth) /\ r.ok
      /\ height' = height + (IF moves_on THEN 1 ELSE 0) /\ utxo' = r.utxo
      /\ moves_on => is_blue
      /\ unbacked' = unbacked + (IF is_blue THEN r.gas ELSE 0)
      /\ lost' = lost + r.overwritten + (IF is_blue THEN 0 ELSE r.fees)
      /\ shared' = shared + (IF is_blue /\ ~moves_on THEN CappedReward(height) ELSE 0)
      /\ skipped' = skipped
  BY <1>2 DEF Accept, RewardAccepted
<1>5. txs \in Seq(Transactions) /\ txs[1] = cb /\ DOMAIN txs = 1..Len(txs) /\ Len(txs) \in Nat /\ Len(txs) # 0
  <2> HIDE DEF cb
  <2>1. txs \in Seq(Transactions) /\ Len(txs) = Len(body) + 1 /\ txs[1] = cb /\ body \in Seq(Transactions)
    BY <1>3, BlockOf
  <2> HIDE DEF txs
  <2> QED BY <2>1
<1> HIDE DEF cb
<1>6. /\ r \in ApplyResults
      /\ SetValue(r.utxo) + r.fees + r.overwritten = SetValue(utxo) + total
      /\ AcceptedFees(txs, utxo) # Err => AcceptedFees(txs, utxo) = r.fees + r.gas
  BY <1>1, <1>3, <1>4, BlockBooks
<1> HIDE DEF txs, r
<1>7. total = worth
  <2>1. PICK t \in DOMAIN txs : IsCoinbase(txs[t]) /\ (\A u \in 1..t - 1 : ~IsCoinbase(txs[u]))
                                /\ OutputTotal(txs[t]) = worth
    BY <1>4 DEF CoinbaseValid
  <2>2. t = 1
    <3>1. t # 1 => 1 \in 1..t - 1
      BY <1>5
    <3> QED BY <1>3, <1>5, <2>1, <3>1
  <2> QED BY <1>3, <1>5, <2>1, <2>2
<1>8. worth \in 0..MaxValue
      /\ (is_blue => AcceptedFees(txs, utxo) \in Nat /\ worth = CappedReward(height) + AcceptedFees(txs, utxo))
  BY <1>1, <1>4, <1>5, RewardType
<1>9. ~is_blue => worth = 0
  BY DEF BlockTotalReward, worth
<1>10. /\ r.utxo \in RealSets /\ Real(r.utxo) /\ r.gas \in Nat /\ r.fees \in Nat /\ r.overwritten \in Nat
  BY <1>6 DEF ApplyResults, RealSets, Real
<1>11. SetValue(r.utxo) \in Nat /\ SetValue(utxo) \in Nat
  BY <1>1, <1>10, SetValueType
<1>12. /\ height < HalvingsFit => TotalEmitted(height + 1) = TotalEmitted(height) + CappedReward(height)
       /\ CappedReward(height) \in Nat /\ TotalEmitted(height) \in Int /\ HalvingsFit \in Nat
  <2>1. TotalEmitted(height) \in 0..MaxSupply /\ CappedReward(height) \in Nat
    BY <1>1, RewardNumbers
  <2>2. MaxSupply \in Nat /\ HalvingsFit \in Nat
    BY EmissionAssumption DEF HalvingsFit
  <2> QED BY <1>1, <2>1, <2>2, SubsidiesAddUp
<1>13. /\ Real(utxo') /\ height' \in Nat
       /\ unbacked' \in Nat /\ lost' \in Nat /\ shared' \in Nat /\ skipped' \in Nat
  BY <1>1, <1>4, <1>10, <1>12
<1> DEFINE V == SetValue(r.utxo)
           U == SetValue(utxo)
           f == r.fees
           g == r.gas
           o == r.overwritten
           C == CappedReward(height)
           E == TotalEmitted(height)
<1> SUFFICES ASSUME height' <= HalvingsFit
             PROVE  SetValue(utxo') = TotalEmitted(height') + shared' - skipped' + unbacked' - lost'
  BY <1>13 DEF BooksBalance, Circulating
<1>14. /\ V \in Nat /\ U \in Nat /\ f \in Nat /\ g \in Nat /\ o \in Nat /\ C \in Nat /\ E \in Int
       /\ V + f + o = U + worth /\ U = E + shared - skipped + unbacked - lost
       /\ is_blue => worth = C + (f + g)
  <2>1. is_blue => AcceptedFees(txs, utxo) # Err
    BY <1>8, RewardAssumption
  <2>2. height <= HalvingsFit
    BY <1>1, <1>4, <1>12
  <2> QED BY <1>1, <1>6, <1>7, <1>8, <1>10, <1>11, <1>12, <2>1, <2>2
<1> HIDE DEF worth
<1>15. CASE moves_on
  <2>1. /\ unbacked' = unbacked + g /\ lost' = lost + o + 0 /\ SetValue(utxo') = V /\ height' = height + 1
        /\ shared' = shared + 0 /\ skipped' = skipped /\ is_blue
    BY <1>4, <1>15
  <2>2. TotalEmitted(height') = E + C
    BY <1>1, <1>12, <2>1
  <2> HIDE DEF V, U, f, g, o, C, E
  <2>3. V = E + C + shared - skipped + (unbacked + g) - (lost + o)
    BY <1>1, <1>14, <2>1
  <2> QED BY <1>1, <1>14, <2>1, <2>2, <2>3
<1>16. CASE is_blue /\ ~moves_on
  <2>1. /\ unbacked' = unbacked + g /\ lost' = lost + o + 0 /\ SetValue(utxo') = V /\ height' = height
        /\ shared' = shared + C /\ skipped' = skipped
    BY <1>1, <1>4, <1>16
  <2>2. TotalEmitted(height') = E
    BY <2>1
  <2> HIDE DEF V, U, f, g, o, C, E
  <2>3. V = E + (shared + C) - skipped + (unbacked + g) - (lost + o)
    BY <1>1, <1>14, <1>16
  <2> QED BY <1>1, <1>14, <2>1, <2>2, <2>3
<1>17. CASE ~is_blue
  <2>1. /\ unbacked' = unbacked + 0 /\ lost' = lost + o + f /\ SetValue(utxo') = V /\ height' = height
        /\ shared' = shared + 0 /\ skipped' = skipped
    BY <1>1, <1>4, <1>17
  <2>2. TotalEmitted(height') = E
    BY <2>1
  <2> HIDE DEF V, U, f, g, o, C, E
  <2> QED BY <1>1, <1>9, <1>14, <1>17, <2>1, <2>2
<1> QED BY <1>15, <1>16, <1>17

\* A score passed over is not rewarded.
LEMMA SkipBalances ==
  ASSUME RewardsInv, Skip
  PROVE  height' \in Nat /\ skipped' \in Nat /\ BooksBalance'
<1>1. /\ height \in Nat /\ skipped \in Nat /\ unbacked \in Nat /\ lost \in Nat /\ shared \in Nat
      /\ Real(utxo)
      /\ height <= HalvingsFit => SetValue(utxo) = TotalEmitted(height) + shared - skipped + unbacked - lost
  BY DEF RewardsInv, BooksBalance, Circulating
<1> DEFINE C == CappedReward(height)
           E == TotalEmitted(height)
           U == SetValue(utxo)
<1>2. /\ height' = height + 1 /\ skipped' = skipped + C
      /\ UNCHANGED <<utxo, unbacked, lost, shared>>
  BY DEF Skip
<1>3. C \in Nat /\ E \in 0..MaxSupply /\ MaxSupply \in Nat /\ HalvingsFit \in Nat
  BY <1>1, RewardNumbers, EmissionAssumption DEF HalvingsFit
<1>4. height' \in Nat /\ skipped' \in Nat
  BY <1>1, <1>2, <1>3
<1>5. ASSUME height' <= HalvingsFit
      PROVE  SetValue(utxo') = TotalEmitted(height') + shared' - skipped' + unbacked' - lost'
  <2>1. height <= HalvingsFit /\ height < HalvingsFit
    BY <1>1, <1>2, <1>3, <1>5
  <2>2. TotalEmitted(height') = E + C
    BY <1>1, <1>2, <2>1, SubsidiesAddUp
  <2>3. SetValue(utxo') = U /\ U = E + shared - skipped + unbacked - lost
    BY <1>1, <1>2, <2>1
  <2> HIDE DEF C, E, U
  <2>4. U = (E + C) + shared - (skipped + C) + unbacked - lost
    BY <1>1, <1>3, <2>3
  <2> QED BY <1>2, <2>2, <2>3, <2>4
<1> QED BY <1>4, <1>5 DEF BooksBalance, Circulating

THEOREM RewardsInvHolds == RewardsSpec => []RewardsInv
<1>1. RewardsInit => RewardsInv
  <2> SUFFICES ASSUME RewardsInit PROVE RewardsInv
    OBVIOUS
  <2>1. utxo = {} /\ height = 0 /\ unbacked = 0 /\ lost = 0 /\ pending = {} /\ shared = 0 /\ skipped = 0
    BY DEF RewardsInit
  <2>2. Real({})
    BY RealFacts
  <2>3. SetValue({}) = 0
    <3> DEFINE e == [op \in {} |-> Value(op)]
    <3>1. IsFiniteSet({}) /\ e \in [{} -> Nat]
      BY <2>2 DEF Real
    <3>2. PICK g : Sums(g, e, {})
      <4> HIDE DEF e
      <4> QED BY <3>1, SumsExist
    <3>3. SetValue({}) = g[{}]
      BY <2>2, <3>2, PartValue
    <3> QED BY <3>2, <3>3 DEF Sums
  <2>4. SetValue(utxo) = TotalEmitted(height) + shared - skipped + unbacked - lost
    BY <2>1, <2>3, SubsidiesAddUp
  <2> QED BY <2>1, <2>2, <2>4 DEF RewardsInv, BooksBalance, Circulating
<1>2. RewardsInv /\ [RewardsNext]_books => RewardsInv'
  <2> SUFFICES ASSUME RewardsInv, [RewardsNext]_books PROVE RewardsInv'
    OBVIOUS
  <2>1. /\ Real(utxo) /\ height \in Nat
        /\ unbacked \in Nat /\ lost \in Nat /\ shared \in Nat /\ skipped \in Nat
        /\ (\A b \in pending : Built(b)) /\ BooksBalance
    BY DEF RewardsInv
  <2>2. ASSUME UNCHANGED <<height, utxo, unbacked, lost, shared, skipped>>
        PROVE  /\ Real(utxo)' /\ (height \in Nat)' /\ (unbacked \in Nat)' /\ (lost \in Nat)'
               /\ (shared \in Nat)' /\ (skipped \in Nat)' /\ BooksBalance'
               /\ \A b \in pending : Built(b)'
    BY <2>1, <2>2 DEF BooksBalance, Circulating, Built
  <2>3. CASE UNCHANGED books
    <3>1. UNCHANGED <<height, utxo, unbacked, lost, shared, skipped>> /\ pending' = pending
      BY <2>3 DEF books, gaps
    <3> QED BY <2>2, <3>1 DEF RewardsInv
  <2>4. ASSUME NEW body \in Bodies, NEW is_blue \in BOOLEAN, NEW miner \in Miners, NEW pool \in Pools,
               NEW nodes \in NodeCounts, Mine(body, is_blue, miner, pool, nodes)
        PROVE  RewardsInv'
    <3>0. PICK total, new :
            /\ total = BlockTotalReward(body, height, is_blue, utxo)
            /\ new = [txs |-> <<CreateCoinbase(miner, pool, nodes, total)>> \o body, is_blue |-> is_blue,
                      fresh |-> TRUE]
      OBVIOUS
    <3>1. /\ total # Err /\ pending' = pending \cup {new}
          /\ UNCHANGED <<height, utxo, unbacked, lost, shared, skipped>>
      BY <2>4, <3>0 DEF Mine, gaps
    <3>2. body \in Seq(Payments)
      BY BodyIs
    <3>3. total \in 0..MaxValue
      <4>1. body \in Seq(Transactions)
        <5>1. CreateCoinbase(miner, pool, nodes, 0) \in Transactions
          BY CoinbaseAssumption, TransactionAssumption
        <5> QED BY <3>2, <5>1, BlockOf
      <4> QED BY <2>1, <3>0, <3>1, <4>1, RewardType
    <3>4. Built(new)
      <4>1. CreateCoinbase(miner, pool, nodes, total) \in Transactions
        BY <3>3, CoinbaseAssumption
      <4>2. <<CreateCoinbase(miner, pool, nodes, total)>> \o body \in Seq(Transactions)
        <5> DEFINE cb == CreateCoinbase(miner, pool, nodes, total)
        <5> HIDE DEF cb
        <5> QED BY <3>2, <4>1, BlockOf DEF cb
      <4>3. new \in [txs : Seq(Transactions), is_blue : BOOLEAN, fresh : BOOLEAN]
        BY <3>0, <4>2
      <4>4. /\ new.txs = <<CreateCoinbase(miner, pool, nodes, total)>> \o body
            /\ new.fresh => total = BlockTotalReward(body, height, new.is_blue, utxo)
        BY <3>0
      <4> QED BY <3>3, <4>3, <4>4 DEF Built
    <3>5. Built(new)'
      BY <3>1, <3>4 DEF Built
    <3>6. \A b \in pending' : Built(b)'
      <4>1. \A b \in pending : Built(b)'
        BY <2>2, <3>1
      <4>2. ASSUME NEW b \in pending' PROVE Built(b)'
        <5>1. CASE b \in pending
          BY <4>1, <5>1
        <5>2. CASE b = new
          BY <3>5, <5>2
        <5> QED BY <3>1, <5>1, <5>2
      <4> QED BY <4>2
    <3> QED BY <2>2, <3>1, <3>6 DEF RewardsInv
  <2>5. ASSUME NEW block \in pending, NEW is_blue \in BOOLEAN, Refuse(block, is_blue) PROVE RewardsInv'
    <3>1. pending' = pending \ {block} /\ UNCHANGED <<height, utxo, unbacked, lost, shared, skipped>>
      BY <2>5 DEF Refuse, gaps
    <3> QED BY <2>2, <3>1 DEF RewardsInv
  <2>6. ASSUME NEW b \in pending PROVE Built([b EXCEPT !.fresh = FALSE])'
    <3> DEFINE old == [b EXCEPT !.fresh = FALSE]
    <3>1. Built(b)
      BY <2>1
    <3>2. b \in [txs : Seq(Transactions), is_blue : BOOLEAN, fresh : BOOLEAN]
      BY <3>1 DEF Built
    <3>3. old \in [txs : Seq(Transactions), is_blue : BOOLEAN, fresh : BOOLEAN] /\ old.txs = b.txs /\ ~old.fresh
      BY <3>2
    <3>4. PICK body \in Bodies, miner \in Miners, pool \in Pools, nodes \in NodeCounts, total \in 0..MaxValue :
            b.txs = <<CreateCoinbase(miner, pool, nodes, total)>> \o body
      BY <3>1 DEF Built
    <3> HIDE DEF old
    <3>5. old.txs = <<CreateCoinbase(miner, pool, nodes, total)>> \o body
      BY <3>3, <3>4
    <3>6. Built(old)'
      BY <3>3, <3>5 DEF Built
    <3> QED BY <3>6 DEF old
  <2>10. ASSUME NEW block \in pending, NEW is_blue \in BOOLEAN, NEW moves_on \in BOOLEAN,
                Accept(block, is_blue, moves_on)
         PROVE  RewardsInv'
    <3>1. /\ Real(utxo') /\ height' \in Nat
          /\ unbacked' \in Nat /\ lost' \in Nat /\ shared' \in Nat /\ skipped' \in Nat
          /\ BooksBalance'
      BY <2>10, AcceptBalances
    <3>2. pending' = {[b EXCEPT !.fresh = FALSE] : b \in pending \ {block}}
      BY <2>10 DEF Accept, Stale
    <3>3. \A b \in pending' : Built(b)'
      BY <2>6, <3>2
    <3> QED BY <3>1, <3>3 DEF RewardsInv
  <2>11. ASSUME Skip PROVE RewardsInv'
    <3>1. height' \in Nat /\ skipped' \in Nat /\ BooksBalance'
      BY <2>11, SkipBalances
    <3>2. /\ pending' = {[b EXCEPT !.fresh = FALSE] : b \in pending}
          /\ UNCHANGED <<utxo, unbacked, lost, shared>>
      BY <2>11 DEF Skip, Stale
    <3>3. \A b \in pending' : Built(b)'
      BY <2>6, <3>2
    <3> QED BY <2>1, <3>1, <3>2, <3>3 DEF RewardsInv
  <2>7. CASE \E body \in Bodies, is_blue \in BOOLEAN, miner \in Miners, pool \in Pools, nodes \in NodeCounts :
               Mine(body, is_blue, miner, pool, nodes)
    BY <2>4, <2>7
  <2>8. CASE \E block \in pending, is_blue \in BOOLEAN : Refuse(block, is_blue)
    BY <2>5, <2>8
  <2>12. CASE \E block \in pending, is_blue \in BOOLEAN, moves_on \in BOOLEAN : Accept(block, is_blue, moves_on)
    BY <2>10, <2>12
  <2>9. RewardsNext \/ UNCHANGED books
    OBVIOUS
  <2> QED BY <2>3, <2>7, <2>8, <2>9, <2>11, <2>12 DEF RewardsNext
<1> QED BY <1>1, <1>2, PTL DEF RewardsSpec

\* BooksBalance (emission.rs, reward.rs, apply_block): every coin is accounted
\* for, for any schedule, cap, transactions and blocks, with blocks beside each
\* other and scores passed over, up to the score at which the halvings wrap.
THEOREM BooksAlwaysBalance == RewardsSpec => []BooksBalance
<1>1. RewardsInv => BooksBalance
  BY DEF RewardsInv
<1> QED BY <1>1, RewardsInvHolds, PTL

\* What the cap of emission.rs comes to: what circulates exceeds MAX_SUPPLY by no
\* more than the subsidies of the blocks that shared a score and the gas fees
\* nobody paid in, until the halvings wrap.
THEOREM ExcessIsBounded ==
  RewardsSpec => [](height <= HalvingsFit => Circulating <= MaxSupply + shared + unbacked)
<1>1. RewardsInv => (height <= HalvingsFit => Circulating <= MaxSupply + shared + unbacked)
  <2> SUFFICES ASSUME RewardsInv, height <= HalvingsFit
               PROVE  Circulating <= MaxSupply + shared + unbacked
    OBVIOUS
  <2>1. /\ height \in Nat /\ unbacked \in Nat /\ lost \in Nat /\ shared \in Nat /\ skipped \in Nat
        /\ Circulating = TotalEmitted(height) + shared - skipped + unbacked - lost
    BY DEF RewardsInv, BooksBalance
  <2>2. TotalEmitted(height) \in 0..MaxSupply /\ MaxSupply \in Nat
    BY <2>1, RewardNumbers, EmissionAssumption
  <2> QED BY <2>1, <2>2
<1> QED BY <1>1, RewardsInvHolds, PTL

\* CoinbaseAccepted (create_coinbase_tx, validate_coinbase_reward): a block that
\* meets the state it was built on validates and, if it is blue, applies, for any
\* rewards, shares and transactions.
THEOREM CoinbaseAlwaysAccepted == RewardsSpec => []CoinbaseAccepted
<1>1. ASSUME RewardsInv, NEW block \in pending, block.fresh
      PROVE  /\ RewardAccepted(block.txs, block.is_blue)
             /\ block.is_blue => Applied(block.txs).ok
             /\ (block.is_blue /\ Len(block.txs) = 1) =>
                  LET values == {block.txs[1].outputs[i].value : i \in DOMAIN block.txs[1].outputs} IN
                    \E nodes \in NodeCounts :
                      values \cup {0} = {BlockReward(height, nodes)[1], BlockReward(height, nodes)[2], 0}
  <2>1. Real(utxo) /\ height \in Nat /\ Built(block)
    BY <1>1 DEF RewardsInv
  <2>2. PICK body \in Bodies, miner \in Miners, pool \in Pools, nodes \in NodeCounts, total \in 0..MaxValue :
          /\ block.txs = <<CreateCoinbase(miner, pool, nodes, total)>> \o body
          /\ total = BlockTotalReward(body, height, block.is_blue, utxo)
    BY <1>1, <2>1 DEF Built
  <2> DEFINE cb == CreateCoinbase(miner, pool, nodes, total)
             txs == <<cb>> \o body
             is_blue == block.is_blue
  <2>3. /\ cb \in Transactions /\ IsCoinbase(cb) /\ GasFee(cb) = 0 /\ OutputTotal(cb) = total
        /\ \A i \in DOMAIN cb.outputs : ~cb.outputs[i].burn
        /\ total \in Nat /\ nodes \in Nat /\ body \in Seq(Payments) /\ is_blue \in BOOLEAN
    BY <2>1, CoinbaseOf, BodyIs DEF Built
  <2>4. /\ \/ cb.outputs = <<Pay(total)>> /\ (nodes = 0 \/ MinerShare(total) = total)
           \/ cb.outputs = <<Pay(MinerShare(total)), Pay(total - MinerShare(total))>> /\ nodes # 0
        /\ MinerShare(total) \in 0..total
    <3>1. Pays(cb, nodes, total)
      BY <2>3, CoinbasePays
    <3> HIDE DEF cb
    <3> QED BY <3>1 DEF Pays
  <2>5. /\ txs \in Seq(Transactions) /\ txs[1] = cb /\ Len(txs) = Len(body) + 1
        /\ body \in Seq(Transactions) /\ DOMAIN txs = 1..Len(txs) /\ Len(body) \in Nat
    <3> HIDE DEF cb
    <3>1. txs \in Seq(Transactions) /\ Len(txs) = Len(body) + 1 /\ txs[1] = cb /\ body \in Seq(Transactions)
      BY <2>3, BlockOf
    <3> HIDE DEF txs
    <3> QED BY <3>1
  <2>6. block.txs = txs /\ total = BlockTotalReward(body, height, is_blue, utxo)
    BY <2>2
  <2>7. BlockTotalReward(txs, height, is_blue, utxo) = total
    <3> HIDE DEF cb
    <3> QED BY <2>1, <2>3, <2>6, RewardSkips
  <2>8. total # Err
    BY <2>3, RewardAssumption
  <2> HIDE DEF cb, txs, is_blue
  <2>9. CoinbaseValid(txs, total)
    <3>1. 1 \in DOMAIN txs /\ \A u \in 1..1 - 1 : ~IsCoinbase(txs[u])
      BY <2>5
    <3>2. cb.outputs # <<>>
      <4>1. Len(cb.outputs) # 0
        <5>1. \A x, y : Len(<<x>>) = 1 /\ Len(<<x, y>>) = 2
          OBVIOUS
        <5>2. CASE cb.outputs = <<Pay(total)>>
          BY <5>1, <5>2
        <5>3. CASE cb.outputs = <<Pay(MinerShare(total)), Pay(total - MinerShare(total))>>
          BY <5>1, <5>3
        <5> QED BY <2>4, <5>2, <5>3
      <4>2. Len(<<>>) = 0
        OBVIOUS
      <4> QED BY <4>1, <4>2
    <3>3. \/ Len(cb.outputs) = 1
          \/ [i \in DOMAIN cb.outputs |-> cb.outputs[i].value] = <<MinerShare(total), total - MinerShare(total)>>
      <4>1. CASE cb.outputs = <<Pay(total)>>
        BY <4>1
      <4>2. CASE cb.outputs = <<Pay(MinerShare(total)), Pay(total - MinerShare(total))>>
        <5> DEFINE outs == <<Pay(MinerShare(total)), Pay(total - MinerShare(total))>>
        <5>1. [i \in DOMAIN outs |-> outs[i].value] = <<MinerShare(total), total - MinerShare(total)>>
          BY DEF Pay
        <5> QED BY <4>2, <5>1
      <4> QED BY <2>4, <4>1, <4>2
    <3> QED BY <2>3, <2>5, <3>1, <3>2, <3>3 DEF CoinbaseValid
  <2>10. RewardAccepted(txs, is_blue)
    BY <2>7, <2>8, <2>9 DEF RewardAccepted
  <2>11. is_blue => AcceptedFees(body, utxo) \in Nat /\ total = CappedReward(height) + AcceptedFees(body, utxo)
    BY <2>1, <2>3, <2>5, <2>6, <2>8, RewardType
  <2>12. is_blue => Applied(txs).ok
    <3>1. is_blue => AcceptedFees(body, utxo) # Err
      BY <2>11, RewardAssumption
    <3> QED BY <2>1, <2>3, <3>1, BlockApplies DEF txs
  <2>13. ASSUME is_blue, Len(txs) = 1
         PROVE  {cb.outputs[i].value : i \in DOMAIN cb.outputs} \cup {0}
                  = {BlockReward(height, nodes)[1], BlockReward(height, nodes)[2], 0}
    <3>1. body = <<>>
      BY <2>5, <2>13
    <3>2. AcceptedFees(body, utxo) = 0
      <4>1. PICK F : FeeLoop(F, body, utxo) /\ AcceptedFees(body, utxo) = F[Len(body)].fees
        BY <2>1, <2>5, FeeLoopExists
      <4>2. F[0] = [utxo |-> utxo, fees |-> 0] /\ Len(body) = 0
        BY <3>1, <4>1 DEF FeeLoop
      <4> QED BY <4>1, <4>2
    <3>3. total = CappedReward(height)
      <4>1. CappedReward(height) \in Nat
        BY <2>1, RewardNumbers
      <4> QED BY <2>11, <2>13, <3>2, <4>1
    <3>4. BlockReward(height, nodes)[1] = (IF nodes = 0 THEN total ELSE MinerShare(total))
          /\ BlockReward(height, nodes)[2] = (IF nodes = 0 THEN 0 ELSE total - MinerShare(total))
      BY <3>3 DEF BlockReward, MinerShare
    <3>5. CASE cb.outputs = <<Pay(total)>> /\ (nodes = 0 \/ MinerShare(total) = total)
      <4>1. {cb.outputs[i].value : i \in DOMAIN cb.outputs} = {total}
        BY <3>5 DEF Pay
      <4>2. BlockReward(height, nodes)[1] = total /\ BlockReward(height, nodes)[2] = 0
        BY <2>3, <3>4, <3>5
      <4> QED BY <4>1, <4>2
    <3>6. CASE cb.outputs = <<Pay(MinerShare(total)), Pay(total - MinerShare(total))>> /\ nodes # 0
      <4>1. {cb.outputs[i].value : i \in DOMAIN cb.outputs} = {MinerShare(total), total - MinerShare(total)}
        <5>1. /\ DOMAIN cb.outputs = {1, 2} /\ cb.outputs[1].value = MinerShare(total)
              /\ cb.outputs[2].value = total - MinerShare(total)
          BY <3>6 DEF Pay
        <5> QED BY <5>1
      <4> QED BY <3>4, <3>6, <4>1
    <3> QED BY <2>4, <3>5, <3>6
  <2>14. ASSUME block.is_blue, Len(block.txs) = 1
         PROVE  LET values == {block.txs[1].outputs[i].value : i \in DOMAIN block.txs[1].outputs} IN
                  \E count \in NodeCounts :
                    values \cup {0} = {BlockReward(height, count)[1], BlockReward(height, count)[2], 0}
    <3>1. block.txs[1] = cb
      BY <2>5, <2>6
    <3>2. {block.txs[1].outputs[i].value : i \in DOMAIN block.txs[1].outputs}
            = {cb.outputs[i].value : i \in DOMAIN cb.outputs}
      BY <3>1
    <3>3. {block.txs[1].outputs[i].value : i \in DOMAIN block.txs[1].outputs} \cup {0}
            = {BlockReward(height, nodes)[1], BlockReward(height, nodes)[2], 0}
      BY <2>6, <2>13, <2>14, <3>2 DEF is_blue
    <3> QED BY <3>3, Zenon
  <2>15. RewardAccepted(block.txs, block.is_blue) /\ (block.is_blue => Applied(block.txs).ok)
    BY <2>6, <2>10, <2>12 DEF is_blue
  <2> QED BY <2>14, <2>15, Zenon
<1>2. RewardsInv => CoinbaseAccepted
  BY <1>1 DEF CoinbaseAccepted
<1> QED BY <1>2, RewardsInvHolds, PTL
=============================================================================
