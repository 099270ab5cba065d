------------------------------ MODULE KVStore ------------------------------
(***************************************************************************)
(* The key-value store behind every keeper of the chain (external: the     *)
(* store of cosmos-sdk).  A store is a function whose domain is the set of *)
(* keys that have been written; nothing in this program deletes a key.     *)
(***************************************************************************)

\* A store before the first write.
EmptyStore == [k \in {} |-> k]

\* ctx.KVStore(k.skey).Has(key)
Has(store, key) == key \in DOMAIN store

\* ctx.KVStore(k.skey).Set(key, val): adds the key or overwrites its value.
Put(store, key, val) ==
    [k \in DOMAIN store \cup {key} |-> IF k = key THEN val ELSE store[k]]

\* One Set per key of keys, in a loop.
PutAll(store, keys, vals) ==
    [k \in DOMAIN store \cup keys |-> IF k \in keys THEN vals[k] ELSE store[k]]

\* For each of the keys: read the record, assign its State field, write it back.
SetStates(store, keys, state) ==
    [k \in DOMAIN store |-> IF k \in keys THEN [store[k] EXCEPT !.state = state] ELSE store[k]]

SetState(store, key, state) == SetStates(store, {key}, state)

=============================================================================
