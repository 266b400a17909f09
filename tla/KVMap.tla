------------------------------- MODULE KVMap -------------------------------
(***************************************************************************)
(* What a table of entries promises its callers: a map from keys to        *)
(* entries on which every operation takes effect at once.  HashTable is    *)
(* shown to implement it.                                                  *)
(***************************************************************************)
CONSTANTS Key,      \* keys
          Entry,    \* what the table stores under a key
          NoEntry   \* std::nullopt

VARIABLE map

Init == map = [k \in Key |-> NoEntry]

Put(k, e) == map' = [map EXCEPT ![k] = e]

Delete(k) == map' = [map EXCEPT ![k] = NoEntry]

Clear == map' = [k \in Key |-> NoEntry]

Next == \/ \E k \in Key : (\E e \in Entry : Put(k, e)) \/ Delete(k)
        \/ Clear

Spec == Init /\ [][Next]_map
=============================================================================
