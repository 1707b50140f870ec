---------------------------- MODULE PddbBackend ----------------------------
(***************************************************************************)
(* The durable key/value store, presage-store-pddb/src/backend_pddb.rs, as *)
(* the code above it sees it: what one KvBackend call on the PDDB can      *)
(* leave behind when it succeeds and when it returns Err.                  *)
(*                                                                         *)
(* A call is synchronous and holds the client mutex, so callers never see  *)
(* a call half done; a failed call followed by a restart does leave the    *)
(* half-done state on flash, and that is what the *_failed sets describe.  *)
(*                                                                         *)
(* The PDDB server itself is outside the repository: its behaviour is      *)
(* taken from how backend_pddb.rs and xous-pddb-ipc/src/client.rs use it.  *)
(***************************************************************************)

CONSTANTS
    Dicts,      \* dictionary names
    Keys,       \* key names
    Values,     \* byte strings the store writes
    NoValue,    \* the key is absent
    Torn        \* a prefix of a value: some WriteKey chunks landed, not all

ASSUME CellAssumption ==
    /\ NoValue \notin Values
    /\ Torn \notin Values
    /\ NoValue # Torn

(* A (dict, key) pair names one cell of the store. *)
Address == Dicts \X Keys

(* What a cell can hold on flash. *)
Cell == Values \cup {NoValue, Torn}

Store == [Address -> Cell]

(* The addresses of one dictionary. *)
InDict(d) == {a \in Address : a[1] = d}

(***************************************************************************)
(* put: delete_key, open with create, write_all in chunks.                 *)
(***************************************************************************)
put_ok(m, a, v) == [m EXCEPT ![a] = v]

(* The same put when one of its three IPC calls fails, or power is lost    *)
(* between them: the pre-delete is not undone, so the old value may be     *)
(* gone, and a failed chunk leaves a prefix of the new one, or all of it   *)
(* when it is only the reply that cannot be read.                          *)
put_failed(m, a, v) == {m} \cup {[m EXCEPT ![a] = c] : c \in {NoValue, Torn, v}}

(***************************************************************************)
(* put_batch: one WriteKeyBatch IPC.  Each entry truncates, so there is no *)
(* delete first; entries before the failing one stay applied.              *)
(***************************************************************************)
put_batch_applied(m, entries, S) ==
    [a \in Address |-> IF a \in S THEN entries[a] ELSE m[a]]

(* delete_key; NotFound counts as success. *)
delete_ok(m, a) == [m EXCEPT ![a] = NoValue]

(* A delete_key that failed: refused, or done and the reply not readable. *)
delete_failed(m, a) == {m, delete_ok(m, a)}

(* delete_dict frees the dictionary a page at a time: when it fails or is  *)
(* cut short some keys S of the dictionary are gone, when it succeeds all. *)
delete_dict_applied(m, S) == [a \in Address |-> IF a \in S THEN NoValue ELSE m[a]]
=============================================================================
