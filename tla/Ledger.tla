------------------------------- MODULE Ledger -------------------------------
(***************************************************************************)
(* What the state manager promises to the code above it: a history of      *)
(* checkpoints, one per height, and a head.  A block is committed in one   *)
(* step or leaves no trace; a checkpoint, once written, is only ever       *)
(* dropped; going back to one makes the head agree with it.                *)
(* Going back restores the entire checkpoint: content, supply and fees.    *)
(* The coins are in a set the caller owns and hands to each block, so that *)
(* the manager has nothing to put back there.                              *)
(***************************************************************************)
EXTENDS Integers, Sequences

CONSTANTS TotalSupplyKey, MaxSupply, Epoch

VARIABLES history,   \* the checkpoints, oldest first
          head       \* content, marks, supply, fees, coins, markers

SupplyLeaf(n) == <<TotalSupplyKey, [supply |-> n]>>

Checkpoint(h) == [content |-> h.content, supply |-> h.supply, fees |-> h.fees]

Init ==
  /\ head.content = {} /\ head.marks = {} /\ head.supply = 0 /\ head.fees = <<>>
  /\ history = <<Checkpoint(head)>>

\* A block: the checkpoint is that of the new head, it locks the supply, and
\* what was unreadable stays so.
Commit ==
  /\ head'.supply <= MaxSupply
  /\ SupplyLeaf(head'.supply) \in head'.content
  /\ head.marks \subseteq head'.marks
  /\ history' = Append(history, Checkpoint(head'))

Mark ==
  /\ \E op \in DOMAIN head.markers, epoch \in Epoch : head' = [head EXCEPT !.markers[op] = epoch]
  /\ UNCHANGED history

\* A pruned coin leaves the tree and the coins; the supply counts it still.
Prune ==
  /\ head'.content \subseteq head.content
  /\ head.marks \subseteq head'.marks
  /\ head'.coins # head.coins
  /\ \A op \in DOMAIN head.coins :
       head'.coins[op] # head.coins[op] => head'.markers[op] # head.markers[op]
  /\ head'.supply = head.supply /\ head'.fees = head.fees
  /\ UNCHANGED history

Back(n) == history' = SubSeq(history, 1, n)

\* The head with the content of checkpoint n; no path is marked.
Restored(n, supply, fees) ==
  [content |-> history[n].content, marks |-> {}, supply |-> supply, fees |-> fees,
   coins |-> head.coins, markers |-> head.markers]

Rollback ==
  \E n \in 1..Len(history) :
    Back(n) /\ head' = Restored(n, history[n].supply, history[n].fees)

Next == Commit \/ Mark \/ Prune \/ Rollback

Spec == Init /\ [][Next]_<<history, head>>
=============================================================================
