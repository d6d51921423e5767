------------------------------- MODULE Rewards -------------------------------
(***************************************************************************)
(* Emission and rewards, src/core/consensus/emission.rs and reward.rs: the *)
(* halving subsidy and its cap, the fees of a block, the coinbase that     *)
(* pays both out, and its validation.                                      *)
(*                                                                         *)
(* The crate exports these functions and leaves the chain to its user.     *)
(* Here miners build blocks on the state they see, consensus finds a block *)
(* blue or red, and every node validates the coinbase against the state it *)
(* has by then and applies the block; several blocks may be under way.     *)
(* The blue score is that of ghostdag.rs, which adds the size of a blue    *)
(* set: it passes over scores no block is rewarded for, and blocks in      *)
(* parallel are rewarded for the same one.  Only the coinbase of a block   *)
(* has no inputs.                                                          *)
(*                                                                         *)
(* Sums over a block are recursive functions of the number of transactions *)
(* looked at so far, so that they can be reasoned about.                   *)
(***************************************************************************)
EXTENDS UtxoSet

CONSTANTS
  BaseReward, HalvingInterval, MinReward,
  U32,             \* the number of values of a u32
  MaxSupply,       \* MAX_GLOBAL_SUPPLY
  Bodies,          \* the lists of other transactions a miner puts in a block
  Miners,          \* reward addresses, none of them the burn address
  Pools,           \* the Option of a node reward pool address
  NoPool,          \* the None of that Option
  NodeCounts,      \* active_node_count
  MaxHeight,       \* bound on height
  MaxShared,       \* bound on shared
  MaxSkipped,      \* bound on skipped
  MaxPending,      \* bound on the blocks under way
  Err              \* a Result that is an error

ASSUME EmissionAssumption ==
  /\ MinReward \in Nat \ {0} /\ BaseReward \in Nat /\ BaseReward > MinReward
  /\ HalvingInterval \in Nat \ {0} /\ U32 \in Nat \ {0} /\ MaxSupply \in Nat
ASSUME RewardAssumption ==
  /\ \A body \in Bodies : body \in Seq({tx \in Transactions : ~IsCoinbase(tx)})
  /\ \A tx \in Transactions : tx.gas_limit \in Nat /\ tx.max_fee_per_gas \in Nat
  /\ NodeCounts \subseteq Nat /\ Err \notin Nat

VARIABLES
  height,     \* the blue score the next block is rewarded for
  utxo,
  pending,    \* the blocks under way; fresh if built on the present state
  unbacked,   \* history: the gas fees paid out
  lost,       \* history: the coins that vanished
  shared,     \* history: the subsidies of blocks the score did not move on with
  skipped     \* history: the subsidies of scores no block was rewarded for

gaps  == <<shared, skipped>>
books == <<height, utxo, pending, unbacked, lost, gaps>>

-----------------------------------------------------------------------------
(* emission.rs *)

AtLeastMin(n) == IF n > MinReward THEN n ELSE MinReward
AtMost(n, cap) == IF n < cap THEN n ELSE cap

\* The reward after a number of halvings, at most 128 ("safety cap"), and the
\* sum of one of each up to it.
HalvingReward[n \in 0..128] == IF n = 0 THEN BaseReward ELSE AtLeastMin(HalvingReward[n - 1] \div 2)
CumulativeReward[n \in 0..128] ==
  HalvingReward[n] + (IF n = 0 THEN 0 ELSE CumulativeReward[n - 1])

\* The number of halvings is cut to 32 bits before it is compared with 128.
RawBlockReward(daa_score) == HalvingReward[AtMost((daa_score \div HalvingInterval) % U32, 128)]

\* The tables of total_emitted end where the reward reaches its floor, which it
\* does after 33 halvings.
ASSUME TableAssumption == \E n \in 0..128 : HalvingReward[n] = MinReward
LastEntry == CHOOSE n \in 0..128 :
  HalvingReward[n] = MinReward /\ \A m \in 0..n - 1 : HalvingReward[m] # MinReward

\* Faulty variant: the last entry of the table is counted twice.
FullEmittedTwice(intervals) ==
  IF intervals = 0 THEN 0
  ELSE IF intervals <= LastEntry THEN CumulativeReward[intervals - 1] * HalvingInterval
  ELSE CumulativeReward[LastEntry] * HalvingInterval
         + (intervals - LastEntry) * MinReward * HalvingInterval

FullEmitted(intervals) ==
  IF intervals = 0 THEN 0
  ELSE IF intervals <= LastEntry + 1 THEN CumulativeReward[intervals - 1] * HalvingInterval
  ELSE CumulativeReward[LastEntry] * HalvingInterval
         + (intervals - (LastEntry + 1)) * MinReward * HalvingInterval

NextReward(intervals) == IF intervals <= LastEntry THEN HalvingReward[intervals] ELSE MinReward

TotalEmitted(daa_score) ==
  LET intervals == daa_score \div HalvingInterval IN
    AtMost(FullEmitted(intervals) + (daa_score % HalvingInterval) * NextReward(intervals),
           MaxSupply)

CappedReward(daa_score) ==
  AtMost(RawBlockReward(daa_score), MaxSupply - TotalEmitted(daa_score))

\* block_reward: <<miner, infra, per node>>.
BlockReward(daa_score, nodes) ==
  LET total == CappedReward(daa_score)
      miner == (total * 80) \div 100
  IN IF nodes = 0 THEN <<total, 0, 0>> ELSE <<miner, total - miner, (total - miner) \div nodes>>

-----------------------------------------------------------------------------
(* reward.rs *)

\* The gas part of calculate_tx_total_fee.  It is the limit that is paid for,
\* and no input of the transaction pays it.
GasFee(tx) == tx.gas_limit * tx.max_fee_per_gas
BaseFee(tx) == InputTotal(tx) - OutputTotal(tx)

\* The loop of calculate_accepted_fees over a clone of the UTXO set.
AddFee(acc, tx) ==
  LET fees == acc.fees + BaseFee(tx) + GasFee(tx) IN
    IF acc.fees = Err \/ IsCoinbase(tx) THEN acc
    ELSE IF ~Valid(acc.utxo, tx) \/ fees > MaxValue THEN [acc EXCEPT !.fees = Err]
    ELSE [utxo |-> ApplyTx(acc.utxo, tx).utxos, fees |-> fees]

\* calculate_accepted_fees: the fees, or an error.
AcceptedFees(txs, set) ==
  LET Working[n \in 0..Len(txs)] ==
        IF n = 0 THEN [utxo |-> set, fees |-> 0] ELSE AddFee(Working[n - 1], txs[n])
  IN Working[Len(txs)].fees

\* block_total_reward: the total, or an error.
BlockTotalReward(txs, daa_score, is_blue, set) ==
  LET fees == AcceptedFees(txs, set) IN
    IF ~is_blue THEN 0
    ELSE IF fees = Err \/ CappedReward(daa_score) + fees > MaxValue THEN Err
    ELSE CappedReward(daa_score) + fees

MinerShare(total) == (total * 80) \div 100

Pay(value) == [value |-> value, burn |-> FALSE]

\* calculate_id covers the outputs with their addresses, and nothing of the
\* height.
Coinbase(outputs, payees) ==
  [id |-> <<"coinbase", outputs, payees>>, inputs |-> <<>>, outputs |-> outputs, signed |-> TRUE,
   gas_limit |-> 0, max_fee_per_gas |-> 0]

\* Faulty variant: both shares are rounded down.
CreateCoinbaseRounded(miner, pool, nodes, total) ==
  IF nodes = 0 THEN Coinbase(<<Pay(total)>>, <<miner>>)
  ELSE Coinbase(<<Pay(MinerShare(total)), Pay((total * 20) \div 100)>>,
                <<miner, IF pool = NoPool THEN miner ELSE pool>>)

\* create_coinbase_tx, without its debug assertions.
CreateCoinbase(miner, pool, nodes, total) ==
  LET rest == total - MinerShare(total) IN
    IF nodes = 0 THEN Coinbase(<<Pay(total)>>, <<miner>>)
    ELSE IF rest = 0 THEN Coinbase(<<Pay(MinerShare(total))>>, <<miner>>)
    ELSE Coinbase(<<Pay(MinerShare(total)), Pay(rest)>>,
                  <<miner, IF pool = NoPool THEN miner ELSE pool>>)

\* validate_coinbase_reward, of the first coinbase in the block.
CoinbaseValid(txs, total) ==
  \E t \in DOMAIN txs :
    LET tx == txs[t]
        values == [i \in DOMAIN tx.outputs |-> tx.outputs[i].value]
        split == <<MinerShare(total), total - MinerShare(total)>>
    IN
    /\ IsCoinbase(tx) /\ \A u \in 1..t - 1 : ~IsCoinbase(txs[u])
    /\ tx.outputs # <<>>
    /\ OutputTotal(tx) = total
    /\ \A i \in DOMAIN tx.outputs : ~tx.outputs[i].burn
    /\ Len(tx.outputs) = 1 \/ values = split \/ values = Reverse(split)

\* The coinbases that can be built are transactions there are.
ASSUME CoinbaseAssumption ==
  \A miner \in Miners, pool \in Pools, nodes \in NodeCounts, total \in 0..MaxValue :
    CreateCoinbase(miner, pool, nodes, total) \in Transactions

-----------------------------------------------------------------------------
RewardsInit ==
  /\ height = 0 /\ utxo = {} /\ pending = {}
  /\ unbacked = 0 /\ lost = 0 /\ shared = 0 /\ skipped = 0

\* A miner builds a block on the state it sees, expecting it to be blue or red.
Mine(body, is_blue, miner, pool, nodes) ==
  LET total == BlockTotalReward(body, height, is_blue, utxo) IN
  /\ Cardinality(pending) < MaxPending
  /\ total # Err
  /\ pending' = pending \cup
       {[txs |-> <<CreateCoinbase(miner, pool, nodes, total)>> \o body, is_blue |-> is_blue,
         fresh |-> TRUE]}
  /\ UNCHANGED <<height, utxo, unbacked, lost, gaps>>

RewardAccepted(txs, is_blue) ==
  LET total == BlockTotalReward(txs, height, is_blue, utxo) IN
    total # Err /\ CoinbaseValid(txs, total)

\* The loop of apply_block, with the gas fees of the block, the fees its inputs
\* leave, and the coins it overwrites.
ApplyOne(acc, tx) ==
  LET result == ApplyTx(acc.utxo, tx) IN
    IF ~acc.ok \/ ~result.ok THEN [acc EXCEPT !.ok = FALSE]
    ELSE [utxo |-> result.utxos, ok |-> TRUE,
          gas  |-> acc.gas + GasFee(tx),
          fees |-> acc.fees + (IF IsCoinbase(tx) THEN 0 ELSE BaseFee(tx)),
          overwritten |-> acc.overwritten + SetValue(Outputs(tx) \cap (acc.utxo \ Inputs(tx)))]

Applied(txs) ==
  LET Working[n \in 0..Len(txs)] ==
        IF n = 0 THEN [utxo |-> utxo, ok |-> TRUE, gas |-> 0, fees |-> 0, overwritten |-> 0]
        ELSE ApplyOne(Working[n - 1], txs[n])
  IN Working[Len(txs)]

Stale(blocks) == {[b EXCEPT !.fresh = FALSE] : b \in blocks}

\* The blue score moves on with a blue block only, and not with one whose
\* parallel block is rewarded for the same score.
Accept(block, is_blue, moves_on) ==
  LET result == Applied(block.txs) IN
  /\ RewardAccepted(block.txs, is_blue) /\ result.ok
  /\ moves_on => is_blue /\ height < MaxHeight
  /\ is_blue => moves_on \/ shared < MaxShared
  /\ height' = height + (IF moves_on THEN 1 ELSE 0)
  /\ utxo' = result.utxo
  /\ pending' = Stale(pending \ {block})
  /\ unbacked' = unbacked + (IF is_blue THEN result.gas ELSE 0)
  /\ lost' = lost + result.overwritten + (IF is_blue THEN 0 ELSE result.fees)
  /\ shared' = shared + (IF is_blue /\ ~moves_on THEN CappedReward(height) ELSE 0)
  /\ UNCHANGED skipped

Refuse(block, is_blue) ==
  /\ ~(RewardAccepted(block.txs, is_blue) /\ Applied(block.txs).ok)
  /\ pending' = pending \ {block}
  /\ UNCHANGED <<height, utxo, unbacked, lost, gaps>>

\* The score passes over a value.
Skip ==
  /\ height < MaxHeight /\ skipped < MaxSkipped
  /\ height' = height + 1
  /\ skipped' = skipped + CappedReward(height)
  /\ pending' = Stale(pending)
  /\ UNCHANGED <<utxo, unbacked, lost, shared>>

RewardsNext ==
  \/ \E body \in Bodies, is_blue \in BOOLEAN, miner \in Miners, pool \in Pools, nodes \in NodeCounts :
       Mine(body, is_blue, miner, pool, nodes)
  \/ \E block \in pending, is_blue \in BOOLEAN, moves_on \in BOOLEAN : Accept(block, is_blue, moves_on)
  \/ \E block \in pending, is_blue \in BOOLEAN : Refuse(block, is_blue)
  \/ Skip

RewardsSpec == RewardsInit /\ [][RewardsNext]_books

-----------------------------------------------------------------------------
(* Safety. *)

Circulating == SetValue(utxo)

\* The scores at which the number of halvings fits into 32 bits.
HalvingsFit == U32 * HalvingInterval

\* Every coin is accounted for, whatever blocks were refused, stale or red on
\* the way, up to the score at which the halvings wrap.  What circulates is what
\* total_emitted says for the present blue score, which is exact for a chain
\* with one block at every score: add the subsidies of the blocks that shared a
\* score and leave out those of the scores passed over.  Add the gas fees that
\* were paid out without being paid in; leave out the fees of red blocks and
\* the coinbases overwritten by one with their id.
BooksBalance ==
  height <= HalvingsFit =>
    Circulating = TotalEmitted(height) + shared - skipped + unbacked - lost

\* A block validates on the state it was built on if consensus sees it as its
\* miner did, however the shares round and whether a pool exists or not; and
\* the subsidy is split as block_reward splits it.
CoinbaseAccepted ==
  \A block \in pending :
    block.fresh =>
      /\ RewardAccepted(block.txs, block.is_blue)
      /\ block.is_blue => Applied(block.txs).ok
      /\ (block.is_blue /\ Len(block.txs) = 1) =>
           LET values == {block.txs[1].outputs[i].value : i \in DOMAIN block.txs[1].outputs} IN
             \E nodes \in NodeCounts :
               values \cup {0} = {BlockReward(height, nodes)[1], BlockReward(height, nodes)[2], 0}

\* "the blockchain can NEVER issue more than 600,000,000 SLUG coins"
\* (emission.rs).
NeverAboveCap == Circulating <= MaxSupply

\* "Formula halving: Reward berkurang setengah setiap interval" (the reward is
\* halved every interval, docs/klomang-core-ekonomi.md).
RewardNeverRises == height > 0 => RawBlockReward(height) <= RawBlockReward(height - 1)

\* reward.rs asserts in debug builds that the node share is a fifth of the
\* total rounded down.
NodeShareAsserted ==
  \A block \in pending :
    LET coinbase == block.txs[1] IN
      Len(coinbase.outputs) = 2 =>
        coinbase.outputs[2].value = (OutputTotal(coinbase) * 20) \div 100
=============================================================================
