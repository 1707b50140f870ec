----------------------------- MODULE KvBackend -----------------------------
(***************************************************************************)
(* The KvBackend trait of presage-store-pddb/src/lib.rs as its callers may *)
(* rely on it: each call takes effect at one point and returns one answer, *)
(* an Ok call has done all it says, and a call that fails or is cut by a   *)
(* power loss has harmed nothing but what it was called on.                *)
(***************************************************************************)
EXTENDS PddbBackend, Naturals, Sequences

CONSTANT Batches    \* the entry lists put_batch is called with

VARIABLES
    store,      \* the map on flash
    answer      \* what the last call returned; "none" after a power loss

kvars == <<store, answer>>

Ok == [kind |-> "ok"]
Err == [kind |-> "err"]
NoAnswer == [kind |-> "none"]
Bytes(c) == [kind |-> "bytes", cell |-> c]
KeyNames(S) == [kind |-> "keys", keys |-> S]

KInit == store \in Store /\ answer = NoAnswer

(* The caller of a call that did not complete is told, or is gone. *)
Broken == answer' \in {Err, NoAnswer}

get(a) == answer' = Bytes(store[a]) /\ UNCHANGED store

list_keys(d) ==
    /\ answer' = KeyNames({k \in Keys : store[<<d, k>>] # NoValue})
    /\ UNCHANGED store

put(a, v) ==
    \/ answer' = Ok /\ store' = put_ok(store, a, v)
    \/ Broken /\ store' \in put_failed(store, a, v)

Entries(b) == [a \in {b[i].at : i \in DOMAIN b} |->
                  b[CHOOSE i \in DOMAIN b : b[i].at = a].value]

put_batch(b) ==
    \/ answer' = Ok /\ store' = put_batch_applied(store, Entries(b), DOMAIN Entries(b))
    \/ /\ Broken
       /\ \E n \in 0 .. Len(b) :
             store' = put_batch_applied(store, Entries(b), {b[i].at : i \in 1 .. n})

delete(a) ==
    \/ answer' = Ok /\ store' = delete_ok(store, a)
    \/ Broken /\ store' \in delete_failed(store, a)

delete_dict(d) ==
    \/ answer' = Ok /\ store' = delete_dict_applied(store, InDict(d))
    \/ Broken /\ \E S \in SUBSET InDict(d) : store' = delete_dict_applied(store, S)

(* A read that failed, a call refused before it was sent, or power lost    *)
(* between two calls.                                                      *)
NothingDone == Broken /\ UNCHANGED store

(* Whatever comes of a call, it has touched no cell but those it names. *)
OnlyAt(S) == \A a \in Address \ S : store'[a] = store[a]

KNext ==
    \/ NothingDone
    \/ \E a \in Address : OnlyAt({a}) /\ (get(a) \/ delete(a) \/ \E v \in Values : put(a, v))
    \/ \E d \in Dicts : OnlyAt(InDict(d)) /\ (list_keys(d) \/ delete_dict(d))
    \/ \E b \in Batches : put_batch(b)

KSpec == KInit /\ [][KNext]_kvars
=============================================================================
