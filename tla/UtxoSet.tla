------------------------------- MODULE UtxoSet -------------------------------
(***************************************************************************)
(* The set of unspent outputs of src/core/state/utxo.rs: what validate_tx  *)
(* accepts, and what apply_tx and revert_tx do to the set.                 *)
(*                                                                         *)
(* The code maps an outpoint to its output.  The id of a transaction is a  *)
(* hash over its outputs, so that an outpoint has one output for ever; the *)
(* map is modelled by the set of its outpoints.  Indexes start at 1.       *)
(***************************************************************************)
EXTENDS Integers, Sequences, FiniteSets, SequencesExt, FiniteSetsExt

CONSTANTS
  OutPoint,      \* pairs <<transaction id, index>>
  Transactions,  \* records: id, inputs, outputs, signed
  MaxValue       \* u64::MAX

\* Outputs have a value and may go to the burn address.  A transaction does not
\* spend its own outputs, which would take a fixpoint of the hash.
ASSUME TransactionAssumption ==
  /\ MaxValue \in Nat
  /\ \A tx \in Transactions :
       /\ tx.inputs \in Seq(OutPoint)
       /\ tx.outputs \in Seq([value : 0..MaxValue, burn : BOOLEAN])
       /\ tx.signed \in BOOLEAN
       /\ \A i \in DOMAIN tx.outputs : <<tx.id, i>> \in OutPoint
       /\ \A j \in DOMAIN tx.inputs : tx.inputs[j][1] # tx.id
  /\ \A t, u \in Transactions : t.id = u.id => t.outputs = u.outputs

Inputs(tx)  == {tx.inputs[j] : j \in DOMAIN tx.inputs}
\* Faulty variant: indexes from zero.
CreatedFromZero(tx) == [i \in DOMAIN tx.outputs |-> <<tx.id, i - 1>>]

\* The outpoints of the outputs, in their order and as a set.
Created(tx) == [i \in DOMAIN tx.outputs |-> <<tx.id, i>>]
Outputs(tx) == {<<tx.id, i>> : i \in DOMAIN tx.outputs}

IsCoinbase(tx) == tx.inputs = <<>>

Value(op) == (CHOOSE tx \in Transactions : tx.id = op[1]).outputs[op[2]].value

InputTotal(tx)  == FoldLeft(LAMBDA sum, op : sum + Value(op), 0, tx.inputs)
OutputTotal(tx) == FoldLeft(LAMBDA sum, out : sum + out.value, 0, tx.outputs)

\* What a set of unspent outputs is worth.
SetValue(ops) == MapThenSumSet(Value, ops)

Distinct(seq) == \A j, k \in DOMAIN seq : seq[j] = seq[k] => j = k

-----------------------------------------------------------------------------
\* Faulty variants of validate_tx: an input may occur twice; the sums wrap.
ValidRepeating(utxos, tx) ==
  /\ \A i \in DOMAIN tx.outputs : ~tx.outputs[i].burn
  /\ ~IsCoinbase(tx) =>
       /\ Inputs(tx) \subseteq utxos
       /\ tx.signed
       /\ OutputTotal(tx) <= InputTotal(tx) /\ InputTotal(tx) <= MaxValue
ValidWrapping(utxos, tx) ==
  /\ \A i \in DOMAIN tx.outputs : ~tx.outputs[i].burn
  /\ ~IsCoinbase(tx) =>
       /\ Distinct(tx.inputs)
       /\ Inputs(tx) \subseteq utxos
       /\ tx.signed
       /\ OutputTotal(tx) % (MaxValue + 1) <= InputTotal(tx) % (MaxValue + 1)

\* validate_tx.
Valid(utxos, tx) ==
  /\ \A i \in DOMAIN tx.outputs : ~tx.outputs[i].burn
  /\ ~IsCoinbase(tx) =>
       /\ Distinct(tx.inputs)
       /\ OutputTotal(tx) <= MaxValue
       /\ Inputs(tx) \subseteq utxos
       /\ InputTotal(tx) <= MaxValue
       /\ tx.signed
       /\ OutputTotal(tx) <= InputTotal(tx)

\* The elements of seq before the first that is not in the set, or is a repetition.
Leading(seq, set) ==
  {seq[j] : j \in {j \in DOMAIN seq :
     \A k \in 1..j : seq[k] \in set /\ \A i \in 1..k - 1 : seq[i] # seq[k]}}

\* apply_tx removes the inputs one by one and gives up at one that is not there.
ApplyTx(utxos, tx) ==
  IF ~Valid(utxos, tx) THEN [ok |-> FALSE, utxos |-> utxos]
  ELSE IF Inputs(tx) \subseteq utxos /\ Distinct(tx.inputs)
  THEN [ok |-> TRUE, utxos |-> (utxos \ Inputs(tx)) \cup Outputs(tx)]
  ELSE [ok |-> FALSE, utxos |-> utxos \ Leading(tx.inputs, utxos)]

ChangeSet(tx) == [spent |-> tx.inputs, created |-> Created(tx)]

\* Faulty variant of revert_tx: the spent outputs are forgotten.
RevertTxRemoves(utxos, changes, spentOutputs) ==
  [ok    |-> ToSet(changes.created) \subseteq utxos,
   utxos |-> utxos \ ToSet(changes.created)]

\* revert_tx removes what was created and restores what was spent from the map
\* of spent outputs; it gives up at a created output that is not there, and at
\* a spent one that is not in the map.
RevertTx(utxos, changes, spentOutputs) ==
  LET found == ToSet(changes.created) \subseteq utxos IN
    [ok    |-> found /\ ToSet(changes.spent) \subseteq spentOutputs,
     utxos |-> (utxos \ Leading(changes.created, utxos))
                 \cup (IF found THEN Leading(changes.spent, spentOutputs) ELSE {})]
=============================================================================
