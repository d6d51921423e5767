-------------------------- MODULE ContractGasProofs --------------------------
(***************************************************************************)
(* The two gas books of a run agree, and runs are atomic, for any costs,   *)
(* limits and keys.                                                        *)
(***************************************************************************)
EXTENDS ContractGas, TLAPS

Meters == [remaining : Int, consumed_host : Nat, refund : Nat]

\* The books: what the meter has left and has charged is the limit; what a
\* run has done and has left is the limit; the points pay for the meter's
\* charges and for the opcodes besides.
Books ==
  /\ meter \in Meters /\ limit \in Nat /\ points \in Nat /\ work \in Nat
  /\ phase \in {"idle", "loading", "running"}
  /\ phase # "idle" => meter.remaining >= 0 /\ meter.remaining + meter.consumed_host = limit
  /\ phase = "loading" => work = meter.consumed_host
  /\ phase = "running" => points + work = limit /\ points <= meter.remaining

\* What was paid for the last run that succeeded.
Paid ==
  outcome.ok =>
    /\ outcome.used = outcome.work /\ outcome.used <= outcome.limit
    /\ outcome.net_used <= outcome.used /\ 5 * outcome.net_used >= 4 * outcome.used

Inv == Books /\ Paid

-----------------------------------------------------------------------------
\* A meter that is charged keeps its type and its sum.
LEMMA ConsumeFacts ==
  ASSUME NEW m \in Meters, NEW cost \in Nat
  PROVE  /\ Consume(m, cost) \in Meters
         /\ Consume(m, cost).remaining = m.remaining - cost
         /\ Consume(m, cost).consumed_host = m.consumed_host + cost
<1>1. ASSUME NEW a \in Int, NEW b \in Nat
      PROVE  [m EXCEPT !.remaining = a, !.consumed_host = b] \in Meters
  BY DEF Meters
<1>2. m.remaining - cost \in Int /\ m.consumed_host + cost \in Nat
  BY DEF Meters
<1>3. Consume(m, cost) = [m EXCEPT !.remaining = m.remaining - cost,
                                   !.consumed_host = m.consumed_host + cost]
  BY DEF Consume, Meters
<1> QED BY <1>1, <1>2, <1>3 DEF Meters

\* A new meter has the whole limit.
LEMMA NewFacts ==
  ASSUME NEW gas \in Nat
  PROVE  New(gas) \in Meters /\ New(gas).remaining = gas /\ New(gas).consumed_host = 0
BY DEF New, Meters

\* The refund takes a fifth at most.
LEMMA FinalizeBounds ==
  ASSUME NEW m \in Meters, NEW used \in Nat
  PROVE  Finalize(m, used) <= used /\ 5 * Finalize(m, used) >= 4 * used
<1>1. used \div 5 \in Nat /\ 5 * (used \div 5) <= used
  OBVIOUS
<1>2. m.refund \in Nat
  BY DEF Meters
<1> DEFINE refund == IF m.refund < used \div 5 THEN m.refund ELSE used \div 5
<1>3. refund \in Nat /\ 5 * refund <= used
  BY <1>1, <1>2
<1>4. Finalize(m, used) = used - refund
  BY DEF Finalize
<1> HIDE DEF refund
<1> QED BY <1>3, <1>4

\* The end of a run resets the books.
LEMMA EndFacts ==
  ASSUME NEW result, End(result)
  PROVE  Books' /\ outcome' = result
<1>1. New(0) \in Meters
  BY NewFacts
<1> QED BY <1>1 DEF End, Books

\* A host call that goes through is charged in both books.
LEMMA ChargeFacts ==
  ASSUME Inv, NEW cost \in Nat, Charge(cost)
  PROVE  Inv'
<1>1. CallCost \in Nat
  BY CostAssumption
<1>2. /\ meter' \in Meters /\ meter'.remaining = meter.remaining - cost
      /\ meter'.consumed_host = meter.consumed_host + cost
  BY ConsumeFacts DEF Charge, Inv, Books
<1>3. meter'.remaining >= 0
  BY <1>2, ConsumeFacts DEF Charge, Exhausted, Inv, Books, Meters
<1>4. phase = "running" /\ phase' = "running" /\ limit' = limit /\ outcome' = outcome
  BY DEF Charge
<1>5. points' = points - CallCost - cost /\ work' = work + CallCost + cost
      /\ CallCost + cost <= points
  BY DEF Charge
<1>6. points \in Nat /\ work \in Nat /\ limit \in Nat /\ meter.remaining \in Int
      /\ meter.consumed_host \in Nat /\ points + work = limit /\ points <= meter.remaining
      /\ meter.remaining + meter.consumed_host = limit
  BY <1>4 DEF Inv, Books, Meters
<1>7. Books'
  BY <1>1, <1>2, <1>3, <1>4, <1>5, <1>6 DEF Books
<1> QED BY <1>4, <1>7 DEF Inv, Paid

\* The books start balanced.
LEMMA InitInv == Init => Inv
<1> SUFFICES ASSUME Init PROVE Inv
  OBVIOUS
<1>1. New(0) \in Meters
  BY NewFacts
<1> QED BY <1>1 DEF Init, Inv, Books, Paid, Failed

\* Every step keeps the books.
LEMMA NextInv == Inv /\ [Next]_vars => Inv'
<1> SUFFICES ASSUME Inv, [Next]_vars PROVE Inv'
  OBVIOUS
<1> USE DEF Inv
<1>1. ASSUME NEW gas \in Limits, NEW payload \in PayloadCosts, Execute(gas, payload)
      PROVE  Inv'
  <2>1. gas \in Nat /\ payload \in Nat /\ INTRINSIC_GAS \in Nat
    BY CostAssumption
  <2>2. /\ meter' \in Meters /\ meter'.remaining = gas - INTRINSIC_GAS - payload
        /\ meter'.consumed_host = INTRINSIC_GAS + payload
    <3> DEFINE m == Consume(New(gas), INTRINSIC_GAS)
    <3>1. m \in Meters /\ m.remaining = gas - INTRINSIC_GAS /\ m.consumed_host = INTRINSIC_GAS
      <4> DEFINE n == New(gas)
      <4>1. n \in Meters /\ n.remaining = gas /\ n.consumed_host = 0
        BY <2>1, NewFacts
      <4> HIDE DEF n
      <4>2. /\ Consume(n, INTRINSIC_GAS) \in Meters
            /\ Consume(n, INTRINSIC_GAS).remaining = gas - INTRINSIC_GAS
            /\ Consume(n, INTRINSIC_GAS).consumed_host = INTRINSIC_GAS
        <5>1. /\ Consume(n, INTRINSIC_GAS) \in Meters
              /\ Consume(n, INTRINSIC_GAS).remaining = n.remaining - INTRINSIC_GAS
              /\ Consume(n, INTRINSIC_GAS).consumed_host = n.consumed_host + INTRINSIC_GAS
          BY <2>1, <4>1, ConsumeFacts
        <5> QED BY <2>1, <4>1, <5>1
      <4> QED BY <4>2 DEF n
    <3>2. meter' = Consume(m, payload)
      BY <1>1 DEF Execute
    <3> HIDE DEF m, Inv
    <3>3. /\ Consume(m, payload) \in Meters
          /\ Consume(m, payload).remaining = m.remaining - payload
          /\ Consume(m, payload).consumed_host = m.consumed_host + payload
      BY <2>1, <3>1, ConsumeFacts
    <3> QED BY <2>1, <3>1, <3>2, <3>3
  <2>3. meter'.remaining >= 0
    BY <1>1, <2>2 DEF Execute, Exhausted, Meters
  <2>4. limit' = gas /\ points' = gas /\ phase' = "loading" /\ work' = INTRINSIC_GAS + payload
        /\ outcome' = outcome
    BY <1>1 DEF Execute
  <2>5. Books'
    BY <2>1, <2>2, <2>3, <2>4 DEF Books
  <2> QED BY <2>4, <2>5 DEF Paid
<1>2. ASSUME NEW gas \in Limits, NEW payload \in PayloadCosts, RefuseLimit(gas, payload)
      PROVE  Inv'
  BY <1>2, EndFacts DEF RefuseLimit, Paid, Failed
<1>3. ASSUME NEW cost \in OpCosts, StartOpcode(cost) PROVE Inv'
  BY <1>3, CostAssumption DEF StartOpcode, Books, Paid
<1>4. ASSUME NEW cost \in OpCosts, Opcode(cost) PROVE Inv'
  <2>1. cost \in Nat
    BY CostAssumption
  <2> QED BY <1>4, <2>1 DEF Opcode, Books, Paid, Meters
<1>5. CASE Instantiated
  <2>1. meter.consumed_host \in Nat /\ meter.remaining \in Int
    BY DEF Books, Meters
  <2> QED BY <1>5, <2>1 DEF Instantiated, Books, Paid
<1>6. ASSUME NEW s \in Slot, StateRead(s) PROVE Inv'
  BY <1>6, ChargeFacts, CostAssumption DEF StateRead
<1>7. ASSUME NEW s \in Slot, StateWrite(s) PROVE Inv'
  BY <1>7, ChargeFacts, CostAssumption DEF StateWrite
<1>8. ASSUME NEW s \in Slot, SelfDestruct(s) PROVE Inv'
  <2>1. SELF_DESTRUCT_REFUND \in Nat /\ CallCost \in Nat
    BY CostAssumption
  <2>2. /\ meter' \in Meters /\ meter'.remaining = meter.remaining
        /\ meter'.consumed_host = meter.consumed_host
    BY <1>8, <2>1 DEF SelfDestruct, Books, Meters
  <2>3. points \in Nat /\ work \in Nat /\ limit \in Nat /\ meter.remaining \in Int
    BY DEF Books, Meters
  <2>4. Books'
    BY <1>8, <2>1, <2>2, <2>3 DEF SelfDestruct, Books
  <2> QED BY <1>8, <2>4 DEF SelfDestruct, Paid
<1>9. CASE Fail
  BY <1>9, EndFacts DEF Fail, Paid, Failed
<1>10. CASE Succeed
  <2> DEFINE used == limit - points
  <2>1. /\ used \in Nat /\ used = work /\ used <= limit /\ meter \in Meters
    BY <1>10 DEF Succeed, Books, Meters
  <2>2. /\ Books'
        /\ outcome' = [ok |-> TRUE, limit |-> limit, work |-> work, used |-> used,
                       net_used |-> Finalize(meter, used)]
    BY <1>10, EndFacts DEF Succeed
  <2> HIDE DEF used
  <2>3. Finalize(meter, used) <= used /\ 5 * Finalize(meter, used) >= 4 * used
    BY <2>1, FinalizeBounds
  <2> QED BY <2>1, <2>2, <2>3 DEF Paid
<1>11. CASE UNCHANGED vars
  BY <1>11 DEF vars, run, Books, Paid
<1> QED BY <1>1, <1>2, <1>3, <1>4, <1>5, <1>6, <1>7, <1>8, <1>9, <1>10, <1>11 DEF Next

\* The books give the property.
LEMMA InvGives == Inv => GasAccounted
BY DEF Inv, Books, Paid, GasAccounted, Meters

\* The points of the metering never promise more than the meter of the host
\* has, and what a run pays is what it did less a fifth at most.
THEOREM GasAlwaysAccounted == Spec => []GasAccounted
<1>1. Spec => []Inv
  BY InitInv, NextInv, PTL DEF Spec
<1> QED BY <1>1, InvGives, PTL

-----------------------------------------------------------------------------
\* Only the success of a run changes the tree the others have.
LEMMA StepAtomic ==
  ASSUME [Next]_vars, CommittedTree' # CommittedTree
  PROVE  phase = "running" /\ outcome'.ok /\ CommittedTree' = tree
<1> USE DEF CommittedTree
<1>1. ASSUME NEW gas, NEW payload, Execute(gas, payload) \/ RefuseLimit(gas, payload) PROVE FALSE
  BY <1>1 DEF Execute, RefuseLimit, End
<1>2. ASSUME NEW cost, StartOpcode(cost) \/ Opcode(cost) PROVE FALSE
  BY <1>2 DEF StartOpcode, Opcode
<1>3. CASE Instantiated
  BY <1>3 DEF Instantiated
<1>4. ASSUME NEW s, StateRead(s) \/ StateWrite(s) \/ SelfDestruct(s) PROVE FALSE
  BY <1>4 DEF StateRead, StateWrite, SelfDestruct, Charge
<1>5. CASE Fail
  BY <1>5 DEF Fail, End
<1>6. CASE Succeed
  BY <1>6 DEF Succeed, End
<1>7. CASE UNCHANGED vars
  BY <1>7 DEF vars, run
<1> QED BY <1>1, <1>2, <1>3, <1>4, <1>5, <1>6, <1>7 DEF Next

\* A run that fails leaves the tree as it found it, for every workload.
THEOREM RunsAlwaysAtomic == Spec => RunsAtomic
<1>1. [Next]_vars =>
        [CommittedTree' # CommittedTree => phase = "running" /\ outcome'.ok /\ CommittedTree' = tree]_vars
  BY StepAtomic
<1> QED BY <1>1, PTL DEF Spec, RunsAtomic
=============================================================================
