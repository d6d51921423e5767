----------------------------- MODULE ContractGas -----------------------------
(***************************************************************************)
(* One run after another of VMExecutor::execute, src/core/vm/executor.rs,  *)
(* with the GasMeter of gas_meter.rs.  Gas is kept in two books: the meter *)
(* of the host, charged for the payload and by the host calls, and the     *)
(* points of the WASM metering, charged by every opcode and, from the host,*)
(* by the host calls again.  The tree is put back when a run fails.        *)
(*                                                                         *)
(* The tree is reduced to what the host functions tell apart of a key.     *)
(***************************************************************************)
EXTENDS Integers

CONSTANTS
  Slot,          \* the keys contracts use
  Limits,        \* the gas limits given to execute
  PayloadCosts,  \* what charge_payload makes of the payloads
  OpCosts,       \* of the opcodes other than calls
  CallCost, INTRINSIC_GAS, STATE_READ_COST, STATE_WRITE_NEW_COST,
  STATE_WRITE_UPDATE_COST, SELF_DESTRUCT_REFUND,
  None

ASSUME CostAssumption ==
  /\ Limits \subseteq Nat /\ PayloadCosts \subseteq Nat
  /\ OpCosts \subseteq Nat \ {0} /\ CallCost \in Nat \ {0}
  /\ {INTRINSIC_GAS, STATE_READ_COST, STATE_WRITE_NEW_COST, STATE_WRITE_UPDATE_COST,
      SELF_DESTRUCT_REFUND} \subseteq Nat

VARIABLES
  tree,      \* of each slot: "none", "old", "new" or "pruned"
  snapshot,  \* tree_snapshot
  phase,
  limit,     \* gas_limit
  meter,     \* [remaining, consumed_host, refund]
  points,    \* what the metering has left
  work,      \* history: the gas of what the run has done, from the payload on
  outcome    \* of the last run: whether it succeeded, and what it used

run  == <<snapshot, phase, limit, meter, points, work>>
vars == <<tree, run, outcome>>

-----------------------------------------------------------------------------
(* GasMeter *)

New(gas) == [remaining |-> gas, consumed_host |-> 0, refund |-> 0]

\* consume_host charges first and looks after: it fails if nothing remains.
Consume(m, cost) ==
  [m EXCEPT !.remaining = @ - cost, !.consumed_host = @ + cost]
Exhausted(m) == m.remaining < 0

\* Faulty variant: the refund is not capped.
FinalizeUncapped(m, used) == used - m.refund

\* finalize: what a run that used this much pays.
Finalize(m, used) ==
  used - (IF m.refund < used \div 5 THEN m.refund ELSE used \div 5)

-----------------------------------------------------------------------------
Failed == [ok |-> FALSE, limit |-> 0, work |-> 0, used |-> 0, net_used |-> 0]

Init ==
  /\ tree \in [Slot -> {"none", "old"}]
  /\ snapshot = None /\ phase = "idle" /\ limit = 0 /\ meter = New(0)
  /\ points = 0 /\ work = 0 /\ outcome = Failed

End(result) ==
  /\ outcome' = result
  /\ phase' = "idle" /\ limit' = 0 /\ meter' = New(0) /\ points' = 0 /\ work' = 0
  /\ snapshot' = None

\* The metering starts with the whole limit.
Execute(gas, payload) ==
  /\ phase = "idle"
  /\ snapshot' = tree
  /\ limit' = gas /\ points' = gas
  /\ meter' = Consume(Consume(New(gas), INTRINSIC_GAS), payload)
  /\ ~Exhausted(meter')
  /\ phase' = "loading" /\ work' = INTRINSIC_GAS + payload
  /\ UNCHANGED <<tree, outcome>>

\* The payload alone is too much: nothing is put back, nothing was changed.
RefuseLimit(gas, payload) ==
  /\ phase = "idle"
  /\ \/ Exhausted(Consume(New(gas), INTRINSIC_GAS))
     \/ Exhausted(Consume(Consume(New(gas), INTRINSIC_GAS), payload))
  /\ End(Failed)
  /\ UNCHANGED tree

\* The start function of a module runs while the module is instantiated.  It
\* cannot call the host, which has no instance to charge yet.
StartOpcode(cost) ==
  /\ phase = "loading" /\ cost <= points
  /\ points' = points - cost
  /\ UNCHANGED <<tree, snapshot, phase, limit, meter, work, outcome>>

\* The points are set to what the payload left of the limit: what the start
\* function used is forgotten.
Instantiated ==
  /\ phase = "loading"
  /\ points' = IF limit > meter.consumed_host THEN limit - meter.consumed_host ELSE 0
  /\ phase' = "running"
  /\ UNCHANGED <<tree, snapshot, limit, meter, work, outcome>>

Opcode(cost) ==
  /\ phase = "running" /\ cost <= points
  /\ points' = points - cost /\ work' = work + cost
  /\ UNCHANGED <<tree, snapshot, phase, limit, meter, outcome>>

\* Faulty variant: only the meter of the host is charged.
ChargeMeter(cost) ==
  /\ phase = "running"
  /\ ~Exhausted(Consume(meter, cost))
  /\ CallCost + cost <= points
  /\ meter' = Consume(meter, cost)
  /\ points' = points - CallCost
  /\ work' = work + CallCost + cost
  /\ UNCHANGED <<snapshot, phase, limit, outcome>>

\* A host call that goes through: its call opcode, the meter, the points.
Charge(cost) ==
  /\ phase = "running"
  /\ ~Exhausted(Consume(meter, cost))
  /\ CallCost + cost <= points
  /\ meter' = Consume(meter, cost)
  /\ points' = points - CallCost - cost
  /\ work' = work + CallCost + cost
  /\ UNCHANGED <<snapshot, phase, limit, outcome>>

StateRead(s) ==
  /\ tree[s] # "pruned"
  /\ Charge(STATE_READ_COST)
  /\ UNCHANGED tree

\* The read that tells a new key from an old one is free.
StateWrite(s) ==
  /\ tree[s] # "pruned"
  /\ Charge(IF tree[s] = "none" THEN STATE_WRITE_NEW_COST ELSE STATE_WRITE_UPDATE_COST)
  /\ tree' = [tree EXCEPT ![s] = "new"]

\* The refund is granted also if there is nothing to destroy.
SelfDestruct(s) ==
  /\ phase = "running" /\ CallCost <= points
  /\ meter' = [meter EXCEPT !.refund = @ + SELF_DESTRUCT_REFUND]
  /\ points' = points - CallCost /\ work' = work + CallCost
  /\ tree' = IF tree[s] = "none" THEN tree ELSE [tree EXCEPT ![s] = "pruned"]
  /\ UNCHANGED <<snapshot, phase, limit, outcome>>

\* Faulty variant: the tree stays as the run left it.
FailKeepsTree ==
  /\ phase \in {"loading", "running"}
  /\ End(Failed)
  /\ UNCHANGED tree

\* A module that does not load, an opcode or a host call without the gas, a
\* host call that fails, or a trap of the contract, at any point of the run.
Fail ==
  /\ phase \in {"loading", "running"}
  /\ tree' = snapshot
  /\ End(Failed)

Succeed ==
  /\ phase = "running"
  /\ End([ok |-> TRUE, limit |-> limit, work |-> work,
          used |-> limit - points, net_used |-> Finalize(meter, limit - points)])
  /\ UNCHANGED tree

Next ==
  \/ \E gas \in Limits, payload \in PayloadCosts : Execute(gas, payload) \/ RefuseLimit(gas, payload)
  \/ \E cost \in OpCosts : StartOpcode(cost) \/ Opcode(cost)
  \/ Instantiated
  \/ \E s \in Slot : StateRead(s) \/ StateWrite(s) \/ SelfDestruct(s)
  \/ Fail
  \/ Succeed

Spec == Init /\ [][Next]_vars

-----------------------------------------------------------------------------
(* Safety. *)

\* In a run that goes on, the meter of the host has at least what the points
\* have, so that it never refuses a call the points could pay, and is never
\* overdrawn; what a run pays for is all it has done since it was instantiated,
\* at most the limit, less a fifth at most however often it destroyed a key.
GasAccounted ==
  /\ phase = "running" =>
       /\ 0 <= points /\ points <= meter.remaining
       /\ points + work = limit
  /\ outcome.ok =>
       /\ outcome.used = outcome.work /\ outcome.used <= outcome.limit
       /\ outcome.net_used <= outcome.used /\ 5 * outcome.net_used >= 4 * outcome.used

\* What the rest of the system has of the tree: while a run lasts, the copy that
\* the run would be undone to.
CommittedTree == IF phase = "idle" THEN tree ELSE snapshot

\* Runs are atomic: whatever a run wrote and destroyed, and wherever it stopped,
\* the tree the others have changes in one step, the success of a run, and into
\* the tree that run left; a run that fails leaves the one it found.
RunsAtomic ==
  [][CommittedTree' # CommittedTree => phase = "running" /\ outcome'.ok /\ CommittedTree' = tree]_vars
=============================================================================
