-------------------------- MODULE AuthenticatedMap --------------------------
(***************************************************************************)
(* What a Verkle tree promises to the code above it: its root binds a map  *)
(* from keys to values; a write replaces exactly the keys written, a prune *)
(* forgets exactly the key pruned, and nothing else changes the root.      *)
(*                                                                         *)
(* The promise of src/core/state/v_trie.rs is conditional: `exact' is TRUE *)
(* as long as no key is written below a path that was pruned before.       *)
(***************************************************************************)
CONSTANTS Key, Updates

VARIABLES content,   \* the set of <<key, value>> pairs the root binds
          exact      \* does the promise still hold

Init == content = {} /\ exact = TRUE

Put(updates) ==
  content' = {kv \in content : kv[1] \notin DOMAIN updates}
               \cup {<<k, updates[k]>> : k \in DOMAIN updates}

Delete(k) == content' = {kv \in content : kv[1] # k}

Next ==
  \/ /\ exact
     /\ exact' = TRUE
     /\ \/ \E updates \in Updates : Put(updates)
        \/ \E k \in Key : Delete(k)
  \/ exact' = FALSE

Spec == Init /\ [][Next]_<<content, exact>>
=============================================================================
