-------------------------- MODULE BufferingBackend --------------------------
(***************************************************************************)
(* presage-store-pddb/src/buffering_backend.rs: the KvBackend wrapper that *)
(* holds writes in memory between begin_batch and commit.                  *)
(*                                                                         *)
(* Every call is synchronous and every caller runs on the one executor     *)
(* thread of the worker, so a call is one step; commit_internal is split   *)
(* into its inner-backend calls because power can be lost between any two  *)
(* of them.  A poisoned buffer mutex needs a panic inside these few lines  *)
(* and is left out.                                                        *)
(***************************************************************************)
EXTENDS PddbBackend

CONSTANTS
    NoEntry,    \* the buffer holds nothing for the address
    Tombstone   \* BufferEntry::Delete

ASSUME EntryAssumption ==
    /\ NoEntry \notin Cell
    /\ Tombstone \notin Cell
    /\ NoEntry # Tombstone

VARIABLES
    inner,      \* the wrapped backend, durable
    batching,   \* the batching flag
    buffer,     \* the per-batch map of BufferEntry
    drained,    \* commit_internal's `entries` not yet replayed
    phase,      \* where commit_internal is: its program counter
    failed,     \* commit_internal's first_err is Some
    before,     \* history: inner when the commit in progress drained its buffer
    committing, \* history: the buffer that commit drained
    returned    \* history: what the last commit told its caller

vars == <<inner, batching, buffer, drained, phase, failed, before, committing, returned>>

(* BufferEntry: a buffered put (its value) or a tombstone. *)
Entry == Values \cup {NoEntry, Tombstone}
Buffer == [Address -> Entry]
EmptyBuffer == [a \in Address |-> NoEntry]
EmptyStore == [a \in Address |-> NoValue]

(* commit_internal: drain, put_batch, per-entry put fallback, deletes. *)
Phase == {"idle", "put_batch", "puts", "deletes"}

Puts(b) == {a \in Address : b[a] \in Values}
Deletes(b) == {a \in Address : b[a] = Tombstone}

(* The value a reader gets for one address: the buffer first, then inner. *)
OverlayAt(m, b, a) ==
    IF b[a] = NoEntry THEN m[a]
    ELSE IF b[a] = Tombstone THEN NoValue
    ELSE b[a]

Overlay(m, b) == [a \in Address |-> OverlayAt(m, b, a)]

-----------------------------------------------------------------------------
(* Reads.                                                                  *)

get(a) == IF batching THEN OverlayAt(inner, buffer, a) ELSE inner[a]

list_keys_without_tombstones(d) ==
    {k \in Keys : inner[<<d, k>>] # NoValue \/ (batching /\ buffer[<<d, k>>] \in Values)}

(* The keys on flash and the buffered puts, less the buffered deletes. *)
list_keys(d) ==
    LET innerKeys == {k \in Keys : inner[<<d, k>>] # NoValue}
        putKeys   == {k \in Keys : buffer[<<d, k>>] \in Values}
        delKeys   == {k \in Keys : buffer[<<d, k>>] = Tombstone}
    IN  IF batching THEN (innerKeys \cup putKeys) \ delKeys ELSE innerKeys

-----------------------------------------------------------------------------
(* Initially the store may hold anything a previous run left on flash.     *)

Init ==
    /\ inner \in Store
    /\ batching = FALSE
    /\ buffer = EmptyBuffer
    /\ drained = EmptyBuffer
    /\ phase = "idle"
    /\ failed = FALSE
    /\ before = EmptyStore
    /\ committing = EmptyBuffer
    /\ returned = "none"

(* begin_batch wins its compare_exchange; a second one is refused and      *)
(* changes nothing.                                                        *)
begin_batch ==
    /\ phase = "idle"
    /\ ~batching
    /\ batching' = TRUE
    /\ returned' = "none"
    /\ UNCHANGED <<inner, buffer, drained, phase, failed, before, committing>>

(* put when it returns Ok: into the buffer of an open batch, else durable. *)
put_returns_ok(a, v) ==
    /\ phase = "idle"
    /\ \/ /\ batching
          /\ buffer' = [buffer EXCEPT ![a] = v]
          /\ inner' = inner
       \/ /\ ~batching
          /\ inner' = put_ok(inner, a, v)
          /\ buffer' = buffer
    /\ UNCHANGED <<batching, drained, phase, failed, before, committing, returned>>

(* put when the inner backend fails: only outside a batch. *)
put_returns_err(a, v) ==
    /\ phase = "idle"
    /\ ~batching
    /\ inner' \in put_failed(inner, a, v)
    /\ UNCHANGED <<batching, buffer, drained, phase, failed, before, committing, returned>>

put(a, v) == put_returns_ok(a, v) \/ put_returns_err(a, v)

(* delete when it returns Ok: a tombstone in an open batch, else durable. *)
delete_returns_ok(a) ==
    /\ phase = "idle"
    /\ \/ /\ batching
          /\ buffer' = [buffer EXCEPT ![a] = Tombstone]
          /\ inner' = inner
       \/ /\ ~batching
          /\ inner' = delete_ok(inner, a)
          /\ buffer' = buffer
    /\ UNCHANGED <<batching, drained, phase, failed, before, committing, returned>>

(* delete when the inner backend fails: only outside a batch. *)
delete_returns_err(a) ==
    /\ phase = "idle"
    /\ ~batching
    /\ inner' \in delete_failed(inner, a)
    /\ UNCHANGED <<batching, buffer, drained, phase, failed, before, committing, returned>>

delete(a) == delete_returns_ok(a) \/ delete_returns_err(a)

(* delete_dict goes straight to the inner backend, batch or not; S is what *)
(* it managed to remove, the whole dictionary when it returns Ok.          *)
delete_dict(d, S) ==
    /\ phase = "idle"
    /\ S \subseteq InDict(d)
    /\ inner' = delete_dict_applied(inner, S)
    /\ buffer' = IF batching
                 THEN [a \in Address |-> IF a \in InDict(d) THEN NoEntry ELSE buffer[a]]
                 ELSE buffer
    /\ UNCHANGED <<batching, drained, phase, failed, before, committing, returned>>

-----------------------------------------------------------------------------
(* BatchGuard::commit -> commit_internal.                                  *)

(* mem::take of the buffer. *)
commit_drain ==
    /\ phase = "idle"
    /\ batching
    /\ drained' = buffer
    /\ buffer' = EmptyBuffer
    /\ phase' = "put_batch"
    /\ failed' = FALSE
    /\ before' = inner
    /\ committing' = buffer
    /\ returned' = "none"
    /\ UNCHANGED <<inner, batching>>

commit_put_batch_without_fallback ==
    /\ phase = "put_batch"
    /\ \E S \in SUBSET Puts(drained) : inner' = put_batch_applied(inner, drained, S)
    /\ drained' = [a \in Address |-> IF a \in Puts(drained) THEN NoEntry ELSE drained[a]]
    /\ phase' = "deletes"
    /\ UNCHANGED <<batching, buffer, failed, before, committing, returned>>

(* The bulk write of all puts: applied, or refused after a prefix of the   *)
(* (unordered) entries, which sends the commit to the per-entry fallback.  *)
commit_put_batch ==
    /\ phase = "put_batch"
    /\ \/ /\ inner' = put_batch_applied(inner, drained, Puts(drained))
          /\ drained' = [a \in Address |-> IF a \in Puts(drained) THEN NoEntry ELSE drained[a]]
          /\ phase' = "deletes"
       \/ /\ Puts(drained) # {}
          /\ \E S \in SUBSET Puts(drained) : inner' = put_batch_applied(inner, drained, S)
          /\ drained' = drained
          /\ phase' = "puts"
    /\ UNCHANGED <<batching, buffer, failed, before, committing, returned>>

(* One put of the fallback; an error is kept and the loop goes on. *)
commit_put(a) ==
    /\ phase = "puts"
    /\ a \in Puts(drained)
    /\ drained' = [drained EXCEPT ![a] = NoEntry]
    /\ \/ /\ inner' = put_ok(inner, a, drained[a])
          /\ failed' = failed
       \/ /\ inner' \in put_failed(inner, a, drained[a])
          /\ failed' = TRUE
    /\ UNCHANGED <<batching, buffer, phase, before, committing, returned>>

commit_puts_done ==
    /\ phase = "puts"
    /\ Puts(drained) = {}
    /\ phase' = "deletes"
    /\ UNCHANGED <<inner, batching, buffer, drained, failed, before, committing, returned>>

commit_delete_whole_dict(a) ==
    /\ phase = "deletes"
    /\ a \in Deletes(drained)
    /\ drained' = [drained EXCEPT ![a] = NoEntry]
    /\ inner' = delete_dict_applied(inner, InDict(a[1]))
    /\ UNCHANGED <<batching, buffer, phase, failed, before, committing, returned>>

commit_delete_unreported(a) ==
    /\ phase = "deletes"
    /\ a \in Deletes(drained)
    /\ drained' = [drained EXCEPT ![a] = NoEntry]
    /\ inner' \in delete_failed(inner, a)
    /\ UNCHANGED <<batching, buffer, phase, failed, before, committing, returned>>

(* Deletes one by one; the first error is kept, the rest still run. *)
commit_delete(a) ==
    /\ phase = "deletes"
    /\ a \in Deletes(drained)
    /\ drained' = [drained EXCEPT ![a] = NoEntry]
    /\ \/ /\ inner' = delete_ok(inner, a)
          /\ failed' = failed
       \/ /\ inner' \in delete_failed(inner, a)
          /\ failed' = TRUE
    /\ UNCHANGED <<batching, buffer, phase, before, committing, returned>>

(* The flag is cleared last, whatever failed; first_err decides the answer. *)
commit_done ==
    /\ phase = "deletes"
    /\ Deletes(drained) = {}
    /\ phase' = "idle"
    /\ batching' = FALSE
    /\ returned' = IF failed THEN "err" ELSE "ok"
    /\ failed' = FALSE
    /\ before' = EmptyStore
    /\ committing' = EmptyBuffer
    /\ UNCHANGED <<inner, buffer, drained>>

abort_keeping_buffer ==
    /\ phase = "idle"
    /\ batching
    /\ batching' = FALSE
    /\ failed' = FALSE
    /\ returned' = "none"
    /\ UNCHANGED <<inner, buffer, drained, phase, before, committing>>

(* BatchGuard dropped without commit -> abort_internal. *)
abort_internal ==
    /\ phase = "idle"
    /\ batching
    /\ buffer' = EmptyBuffer
    /\ batching' = FALSE
    /\ failed' = FALSE
    /\ returned' = "none"
    /\ UNCHANGED <<inner, drained, phase, before, committing>>

(* Power loss or process death: only inner survives. *)
Crash ==
    /\ batching' = FALSE
    /\ buffer' = EmptyBuffer
    /\ drained' = EmptyBuffer
    /\ phase' = "idle"
    /\ failed' = FALSE
    /\ before' = EmptyStore
    /\ committing' = EmptyBuffer
    /\ returned' = "none"
    /\ UNCHANGED inner

commit_internal ==
    \/ commit_drain
    \/ commit_put_batch
    \/ \E a \in Address : commit_put(a)
    \/ commit_puts_done
    \/ \E a \in Address : commit_delete(a)
    \/ commit_done

Next ==
    \/ begin_batch
    \/ \E a \in Address : \E v \in Values : put(a, v)
    \/ \E a \in Address : delete(a)
    \/ \E d \in Dicts : \E S \in SUBSET InDict(d) : delete_dict(d, S)
    \/ commit_internal
    \/ abort_internal
    \/ Crash

Spec == Init /\ [][Next]_vars

-----------------------------------------------------------------------------
(* Properties.                                                             *)

(* The types of the buffering layer's state. *)
TypeOK ==
    /\ inner \in Store
    /\ batching \in BOOLEAN
    /\ buffer \in Buffer
    /\ drained \in Buffer
    /\ phase \in Phase
    /\ failed \in BOOLEAN
    /\ before \in Store
    /\ committing \in Buffer
    /\ returned \in {"none", "ok", "err"}

(* Whenever no batch is open, the buffer and the drained entries are       *)
(* empty: no write of a finished, aborted or lost batch is still in memory *)
(* to be picked up by the next one (mem::take in commit_internal, the      *)
(* clear in abort_internal).                                               *)
NothingLeftBehind ==
    /\ ~batching => buffer = EmptyBuffer
    /\ phase = "idle" => drained = EmptyBuffer
    /\ phase # "idle" => batching /\ buffer = EmptyBuffer

(* list_keys and get tell the same story at every moment a caller can ask: *)
(* a key is listed exactly when reading it finds a value, batch or not.    *)
ListAgreesWithGet ==
    phase = "idle" =>
        \A d \in Dicts : list_keys(d) = {k \in Keys : get(<<d, k>>) # NoValue}

(* However far a commit has come, and whatever failed in it, flash differs *)
(* from what it was before only where the batch wrote: untouched addresses *)
(* are untouched, a deleted one is old or gone, a written one is old, new, *)
(* or damaged by the delete-first put of the fallback.  A power loss here  *)
(* leaves exactly this on flash.                                           *)
CommitTouchesOnlyItsWrites ==
    phase # "idle" =>
        \A a \in Address :
            inner[a] \in {before[a]} \cup
                (IF committing[a] = NoEntry THEN {}
                 ELSE IF committing[a] = Tombstone THEN {NoValue}
                 ELSE {committing[a], NoValue, Torn})

(* While a commit has met no error, every entry it has replayed is durable *)
(* with the value the batch gave it: Ok from commit means the whole batch  *)
(* is on flash, with the put_batch refused half-way or not.                *)
CommitExact ==
    phase # "idle" /\ ~failed =>
        \A a \in Address :
            drained[a] = NoEntry => inner[a] = OverlayAt(before, committing, a)

(* The replay of a commit, address by address: the strengthening that      *)
(* makes the two statements above inductive.  What is still to be replayed *)
(* is what the batch wrote; what has been replayed without error is in     *)
(* place; puts come before deletes.                                        *)
ReplayedAt(a) ==
    /\ drained[a] \in {NoEntry, committing[a]}
    /\ committing[a] = NoEntry => inner[a] = before[a]
    /\ committing[a] = Tombstone =>
        /\ inner[a] \in {before[a], NoValue}
        /\ drained[a] = NoEntry /\ ~failed => inner[a] = NoValue
    /\ committing[a] \in Values =>
        /\ inner[a] \in {before[a], committing[a], NoValue, Torn}
        /\ drained[a] = NoEntry /\ ~failed => inner[a] = committing[a]

ReplayInProgress ==
    phase # "idle" =>
        /\ \A a \in Address : ReplayedAt(a)
        /\ phase = "deletes" => Puts(drained) = {}

(* Inside an open batch nothing new reaches flash: before the commit       *)
(* starts, a step leaves a durable cell as it is or, when it is            *)
(* delete_dict, removes it.                                                *)
BatchIsolation ==
    [][batching /\ phase = "idle" =>
        \A a \in Address : inner'[a] \in {inner[a], NoValue}]_vars

(* What the writes still in memory make of flash: outside a commit, what   *)
(* get returns for every address.                                          *)
Visible == Overlay(inner, IF phase = "idle" THEN buffer ELSE drained)

(* The buffering layer implements the transactional store under this       *)
(* mapping.                                                                *)
Transaction == INSTANCE KvTransaction WITH
    durable <- inner,
    seen    <- Visible,
    open    <- batching,
    closing <- phase # "idle",
    damaged <- failed,
    answer  <- returned

(* Every behaviour of the buffering layer is one KvTransaction allows: a   *)
(* batch is isolated, abort and power loss fall back to flash, and while a *)
(* commit runs a write can only become durable or be counted as failed, so *)
(* a commit that answers Ok has made everything its readers saw durable.   *)
ImplementsTransaction == Transaction!TSpec
=============================================================================
