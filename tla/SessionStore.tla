---------------------------- MODULE SessionStore ----------------------------
(***************************************************************************)
(* The Double Ratchet sessions of presage-store-pddb: the write-back cache *)
(* and dirty set of PddbStore (lib.rs), SessionStore and SessionStoreExt   *)
(* (protocol/session_store.rs, protocol/session_store_ext.rs) and the      *)
(* session part of Store::clear (store.rs), on top of the buffering layer. *)
(*                                                                         *)
(* A backend address <<d, k>> is the session dictionary d of one identity  *)
(* and the peer k; its value is a SessionBundle, device to record.  Every  *)
(* operation runs without an await under the cache and dirty locks, so it  *)
(* is one step; flush_sessions is split at its per-address writes because  *)
(* power can be lost between them.                                         *)
(***************************************************************************)
EXTENDS BufferingBackend

CONSTANTS
    Devices,    \* device ids of a peer
    Records,    \* serialized SessionRecords
    NoRecord    \* no session for the device

ASSUME RecordAssumption == NoRecord \notin Records

(* SessionBundle: never written empty (delete_session deletes the key). *)
Bundle == {b \in [Devices -> Records \cup {NoRecord}] : \E d \in Devices : b[d] # NoRecord}

EmptyBundle == [d \in Devices |-> NoRecord]

ASSUME BundleAssumption == Values = Bundle

(* session_key: identity, peer and device. *)
SessionKey == Address \X Devices

VARIABLES
    cache,      \* session_cache
    dirty,      \* session_dirty
    flushing,   \* flush_sessions is running
    todo,       \* the groups flush_sessions has not written yet
    forgotten,  \* history: sessions deleted with Ok and not stored since
    discarded,  \* history: addresses whose batched write was dropped
    spoiled,    \* history: addresses a failed delete_session or clear may have damaged
    unflushed   \* history: addresses a failed put of flush_sessions may have damaged

sessionVars == <<cache, dirty, flushing, todo, forgotten, discarded, spoiled, unflushed>>
allVars == <<vars, sessionVars>>

NoCache == [k \in SessionKey |-> NoRecord]
Cached == {k \in SessionKey : cache[k] # NoRecord}

(* backend_get_session_bundle, for a cell that decodes. *)
BundleAt(c) == IF c = NoValue THEN EmptyBundle ELSE c

(* What load_session returns when the bundle of the address decodes. *)
Loads(k) == IF cache[k] # NoRecord THEN cache[k]
            ELSE IF get(k[1]) = Torn THEN NoRecord
            ELSE BundleAt(get(k[1]))[k[2]]

SessionInit ==
    /\ Init
    /\ cache = NoCache
    /\ dirty = {}
    /\ flushing = FALSE
    /\ todo = {}
    /\ forgotten = {}
    /\ discarded = {}
    /\ spoiled = {}
    /\ unflushed = {}

(* The addresses a buffer has an entry for. *)
Held(b) == {a \in Address : b[a] # NoEntry}

(* The locks are free and no backend call is under way. *)
Quiet == phase = "idle" /\ ~flushing

-----------------------------------------------------------------------------
(* Operations.                                                             *)

load_session_overwriting_cache(k) ==
    /\ Quiet
    /\ cache[k] = NoRecord
    /\ get(k[1]) \in Values
    /\ cache' = [j \in SessionKey |->
                    IF j[1] = k[1] /\ get(k[1])[j[2]] # NoRecord
                    THEN get(k[1])[j[2]] ELSE cache[j]]
    /\ UNCHANGED <<vars, dirty, flushing, todo, forgotten, discarded, spoiled, unflushed>>

(* load_session on a cache miss: every device of the bundle that the cache *)
(* does not hold yet is cached.  A hit, an absent and an undecodable       *)
(* bundle change nothing.                                                  *)
load_session(k) ==
    /\ Quiet
    /\ cache[k] = NoRecord
    /\ get(k[1]) \in Values
    /\ cache' = [j \in SessionKey |->
                    IF j[1] = k[1] /\ cache[j] = NoRecord
                    THEN get(k[1])[j[2]] ELSE cache[j]]
    /\ UNCHANGED <<vars, dirty, flushing, todo, forgotten, discarded, spoiled, unflushed>>

store_session(k, r) ==
    /\ Quiet
    /\ cache' = [cache EXCEPT ![k] = r]
    /\ dirty' = dirty \cup {k}
    /\ forgotten' = forgotten \ {k}
    /\ UNCHANGED <<vars, flushing, todo, discarded, spoiled, unflushed>>

delete_session_leaving_dirty(k) ==
    /\ Quiet
    /\ cache' = [cache EXCEPT ![k] = NoRecord]
    /\ get(k[1]) = NoValue
    /\ forgotten' = forgotten \cup {k}
    /\ UNCHANGED <<vars, dirty, flushing, todo, discarded, spoiled, unflushed>>

(* delete_session: out of the cache and the dirty set, then out of the     *)
(* bundle; an emptied bundle is deleted.  The cache is not restored when   *)
(* the read of the bundle fails, it does not decode, or the write fails.   *)
delete_session(k) ==
    LET a    == k[1]
        rest == [BundleAt(get(a)) EXCEPT ![k[2]] = NoRecord]
    IN  /\ Quiet
        /\ cache' = [cache EXCEPT ![k] = NoRecord]
        /\ dirty' = dirty \ {k}
        /\ \/ UNCHANGED <<vars, forgotten, spoiled>>
           \/ /\ get(a) # Torn
              /\ BundleAt(get(a))[k[2]] = NoRecord
              /\ forgotten' = forgotten \cup {k}
              /\ UNCHANGED <<vars, spoiled>>
           \/ /\ get(a) # Torn
              /\ BundleAt(get(a))[k[2]] # NoRecord
              /\ rest = EmptyBundle
              /\ \/ delete_returns_ok(a) /\ forgotten' = forgotten \cup {k}
                 \/ delete_returns_err(a) /\ forgotten' = forgotten
              /\ spoiled' = spoiled
           \/ /\ get(a) # Torn
              /\ BundleAt(get(a))[k[2]] # NoRecord
              /\ rest # EmptyBundle
              /\ \/ /\ put_returns_ok(a, rest)
                    /\ forgotten' = forgotten \cup {k}
                    /\ spoiled' = spoiled
                 \/ /\ put_returns_err(a, rest)
                    /\ spoiled' = spoiled \cup {a}
                    /\ forgotten' = forgotten
        /\ UNCHANGED <<flushing, todo, discarded, unflushed>>

(* delete_all_sessions of one peer; the first disjunct is a failed read or *)
(* a bundle that does not decode.                                          *)
delete_all_sessions(a) ==
    LET keys == {k \in SessionKey : k[1] = a}
    IN  /\ Quiet
        /\ cache' = [k \in SessionKey |-> IF k \in keys THEN NoRecord ELSE cache[k]]
        /\ dirty' = dirty \ keys
        /\ \/ UNCHANGED <<vars, forgotten>>
           \/ /\ get(a) = NoValue
              /\ forgotten' = forgotten \cup keys
              /\ UNCHANGED vars
           \/ /\ get(a) \in Values
              /\ \/ delete_returns_ok(a) /\ forgotten' = forgotten \cup keys
                 \/ delete_returns_err(a) /\ forgotten' = forgotten
        /\ UNCHANGED <<flushing, todo, discarded, spoiled, unflushed>>

-----------------------------------------------------------------------------
(* flush_sessions: dirty records grouped by address, one read-modify-write *)
(* of the bundle per address, the dirty set cleared only at the end.       *)

flush_begin ==
    /\ Quiet
    /\ dirty # {}
    /\ flushing' = TRUE
    /\ todo' = {k[1] : k \in dirty \cap Cached}
    /\ UNCHANGED <<vars, cache, dirty, forgotten, discarded, spoiled, unflushed>>

Merged_without_read(a) ==
    [d \in Devices |-> IF <<a, d>> \in dirty \cap Cached THEN cache[<<a, d>>] ELSE NoRecord]

(* The bundle written back: the stored one with the dirty records put in. *)
Merged(a) ==
    [d \in Devices |-> IF <<a, d>> \in dirty \cap Cached THEN cache[<<a, d>>]
                       ELSE BundleAt(get(a))[d]]

flush_put(a) ==
    /\ flushing
    /\ a \in todo
    /\ get(a) # Torn
    /\ put_returns_ok(a, Merged(a))
    /\ todo' = todo \ {a}
    /\ UNCHANGED <<cache, dirty, flushing, forgotten, discarded, spoiled, unflushed>>

(* The first error ends the flush: a bundle that cannot be read or does    *)
(* not decode, or a failed put.  The dirty set stays.                      *)
flush_error(a) ==
    /\ flushing
    /\ a \in todo
    /\ \/ UNCHANGED <<vars, unflushed>>
       \/ get(a) # Torn /\ put_returns_err(a, Merged(a)) /\ unflushed' = unflushed \cup {a}
    /\ flushing' = FALSE
    /\ todo' = {}
    /\ UNCHANGED <<cache, dirty, forgotten, discarded, spoiled>>

flush_done ==
    /\ flushing
    /\ todo = {}
    /\ flushing' = FALSE
    /\ dirty' = {}
    /\ UNCHANGED <<vars, cache, todo, forgotten, discarded, spoiled, unflushed>>

-----------------------------------------------------------------------------
(* Store::clear, as far as sessions go.                                    *)

clear_keeping_cache ==
    /\ Quiet
    /\ inner' = EmptyStore
    /\ buffer' = EmptyBuffer
    /\ forgotten' = SessionKey
    /\ discarded' = {}
    /\ spoiled' = {}
    /\ unflushed' = {}
    /\ UNCHANGED <<batching, drained, phase, failed, before, committing, returned>>
    /\ UNCHANGED <<cache, dirty, flushing, todo>>

(* Every dictionary deleted, then the cache and the dirty set emptied. *)
clear ==
    /\ Quiet
    /\ inner' = EmptyStore
    /\ buffer' = EmptyBuffer
    /\ cache' = NoCache
    /\ dirty' = {}
    /\ forgotten' = SessionKey
    /\ discarded' = {}
    /\ spoiled' = {}
    /\ unflushed' = {}
    /\ UNCHANGED <<batching, drained, phase, failed, before, committing, returned, flushing, todo>>

(* The `?` on a failing delete_dict of d: the dictionaries gone before it  *)
(* stay gone, S of d's own addresses are gone, the cache keeps everything. *)
clear_error(gone, d, S) ==
    /\ Quiet
    /\ d \notin gone
    /\ inner' = delete_dict_applied(inner, S \cup UNION {InDict(e) : e \in gone})
    /\ buffer' = [a \in Address |-> IF a[1] \in gone \cup {d} THEN NoEntry ELSE buffer[a]]
    /\ spoiled' = spoiled \cup UNION {InDict(e) : e \in gone \cup {d}}
    /\ discarded' = discarded \cup {a \in Held(buffer) : a[1] \in gone \cup {d}}
    /\ UNCHANGED <<batching, drained, phase, failed, before, committing, returned>>
    /\ UNCHANGED <<cache, dirty, flushing, todo, forgotten, unflushed>>

-----------------------------------------------------------------------------
(* The send batch around the operations above (begin_send_batch and the    *)
(* BatchGuard it returns), and power loss.                                 *)

begin_send_batch ==
    /\ Quiet
    /\ begin_batch
    /\ UNCHANGED sessionVars

(* commit_internal does not touch the session cache; an entry it reports   *)
(* as failed is not put back into the dirty set.                           *)
commit_batch ==
    /\ ~flushing
    /\ commit_internal
    /\ discarded' = IF failed' /\ ~failed THEN discarded \cup Held(committing) ELSE discarded
    /\ UNCHANGED <<cache, dirty, flushing, todo, forgotten, spoiled, unflushed>>

abort_batch ==
    /\ Quiet
    /\ abort_internal
    /\ discarded' = discarded \cup Held(buffer)
    /\ UNCHANGED <<cache, dirty, flushing, todo, forgotten, spoiled, unflushed>>

Reboot ==
    /\ Crash
    /\ cache' = NoCache
    /\ dirty' = {}
    /\ flushing' = FALSE
    /\ todo' = {}
    /\ discarded' = discarded \cup Held(buffer) \cup Held(drained)
    /\ UNCHANGED <<forgotten, spoiled, unflushed>>

SessionNext ==
    \/ \E k \in SessionKey : load_session(k) \/ delete_session(k)
    \/ \E k \in SessionKey : \E r \in Records : store_session(k, r)
    \/ \E a \in Address : delete_all_sessions(a) \/ flush_put(a) \/ flush_error(a)
    \/ flush_begin
    \/ flush_done
    \/ clear
    \/ \E gone \in SUBSET Dicts : \E d \in Dicts : \E S \in SUBSET InDict(d) :
            clear_error(gone, d, S)
    \/ begin_send_batch
    \/ commit_batch
    \/ abort_batch
    \/ Reboot

SessionSpec == SessionInit /\ [][SessionNext]_allVars

-----------------------------------------------------------------------------
(* Properties.                                                             *)

(* The types of the session layer's state; a dirty session is cached, so   *)
(* flush_sessions never drops one as missing.                              *)
SessionTypeOK ==
    /\ TypeOK
    /\ cache \in [SessionKey -> Records \cup {NoRecord}]
    /\ dirty \subseteq Cached
    /\ flushing \in BOOLEAN
    /\ todo \subseteq Address
    /\ forgotten \subseteq SessionKey
    /\ discarded \subseteq Address
    /\ spoiled \subseteq Address
    /\ unflushed \subseteq Address

(* A cached session that is not dirty is the one the backend holds, inside *)
(* a batch and outside, however loads, stores, deletes, flushes and        *)
(* commits interleave, unless a batched write of its address was dropped   *)
(* or a direct write of it failed: clearing the dirty set never loses a    *)
(* ratchet step by itself.                                                 *)
CleanIsStored ==
    \A k \in Cached \ dirty :
        k[1] \notin discarded \cup spoiled \cup unflushed =>
            Visible[k[1]] \in Values /\ Visible[k[1]][k[2]] = cache[k]

(* A session deleted with Ok (delete_session, delete_all_sessions, clear)  *)
(* cannot be loaded again before it is stored again, as long as no batched *)
(* write of its address was dropped: no cache fill, flush or commit brings *)
(* it back.                                                                *)
DeletedStaysDeleted ==
    Quiet => \A k \in forgotten : k[1] \notin discarded => Loads(k) = NoRecord

(* A ratchet step that is not flushed yet is replaced in the cache only by *)
(* a newer store_session: no load of a sibling device from flash, no flush *)
(* and no end of a batch rewinds it.                                       *)
RatchetNeverRewinds ==
    [][\A k \in dirty \cap dirty' :
        cache'[k] # cache[k] => \E r \in Records : store_session(k, r)]_allVars

(* A failed flush that is retried loses no session: "on error the          *)
(* still-dirty entries remain queued for the next flush" (lib.rs:456-458), *)
(* and "devices not touched in this flush pass their bytes through         *)
(* unchanged" (lib.rs:491-493).  So when flush_sessions returns Ok, with   *)
(* the put of a peer's bundle having failed in an earlier one and nothing  *)
(* else ever having failed or been dropped, flash holds every session of   *)
(* that peer that is cached, those touched in neither flush included.      *)
FlushRetryKeepsTheBundle ==
    [][flush_done /\ discarded = {} /\ spoiled = {} =>
        \A k \in Cached :
            k[1] \in unflushed /\ k[1] \in {j[1] : j \in dirty} =>
                Visible[k[1]] \in Values /\ Visible[k[1]][k[2]] = cache[k]]_allVars
=============================================================================
