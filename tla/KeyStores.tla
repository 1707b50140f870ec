----------------------------- MODULE KeyStores -----------------------------
(***************************************************************************)
(* The key stores of one identity, presage-store-pddb/src/protocol:        *)
(* PreKeyStore (one packed bundle), SignedPreKeyStore, KyberPreKeyStore    *)
(* with its Ext and its dedup table, PreKeysStore (the next ids) and the   *)
(* peer identities of IdentityKeyStore.                                    *)
(*                                                                         *)
(* Every operation of the traits runs to its end without an await, so each *)
(* is one step; a write that fails, or loses power, leaves what            *)
(* PddbBackend says.  A read that fails changes nothing and is left out.   *)
(* Who calls them is outside the repository: libsignal-service's replenish *)
(* pass reads the three next ids, then saves the keys one by one, with     *)
(* incoming messages in between; libsignal asks is_trusted_identity        *)
(* before save_identity.                                                   *)
(*                                                                         *)
(* handle_send runs each attempt inside a batch of BufferingBackend        *)
(* (xous-signal-worker/src/lib.rs) and its task does nothing else          *)
(* meanwhile; of these stores a send writes identities only, so the batch  *)
(* is modelled for them.                                                   *)
(*                                                                         *)
(* A key is known by its generation, the number of keys made before it.    *)
(***************************************************************************)
EXTENDS Integers, FiniteSets, FiniteSetsExt

CONSTANTS
    MaxId,      \* bound: ids handed out; the code's are u32
    MaxGen,     \* bound: keys generated
    BaseKeys,   \* base keys of incoming pre-key messages
    Peers,      \* protocol addresses
    PeerKeys,   \* identity keys peers present
    NoValue,
    Torn

ASSUME BoundAssumption == MaxId \in Nat \ {0} /\ MaxGen \in Nat \ {0}

Ids == 1..MaxId
Gens == 1..MaxGen

(* KyberStored: the record and its is_last_resort flag. *)
KyberStored == [gen : Gens, is_last_resort : BOOLEAN]

(* PreKeyBundle: a vector of entries.  A vector is a function on its       *)
(* positions; those of removed entries stay unused, the order of the       *)
(* others is the vector's.                                                 *)
PreKeyBundle == UNION {[P -> Ids \X Gens] : P \in SUBSET Gens}

(* The ids a replenish pass will use next. *)
Pass == [pre : 1..MaxId + 1, signed : 1..MaxId + 1, pq : 1..MaxId + 1]

(* An absent cell and a torn one are told apart from what the stores write. *)
ASSUME MarkerAssumption ==
    /\ NoValue # Torn
    /\ {NoValue, Torn} \cap (Gens \cup BaseKeys \cup PeerKeys) = {}
    /\ {NoValue, Torn} \cap (KyberStored \cup PreKeyBundle \cup Pass) = {}

(* The key of the packed bundle. *)
PREKEY_BUNDLE_KEY == "all"

B == INSTANCE PddbBackend WITH
        Dicts <- {"prekey_bundle", "signed_prekey", "kyber_prekey", "kyber_meta", "identity"},
        Keys <- Ids, Values <- Gens

VARIABLES
    prekey_bundle,  \* dict prekey_bundle: a vector of <<id, gen>> pairs
    signed_prekey,  \* dict signed_prekey
    kyber_prekey,   \* dict kyber_prekey
    kyber_meta,     \* dict kyber_meta: the last base key of a (kyber, ec) pair
    identity,       \* dict identity
    sending,        \* a send's batch is open
    buffered,       \* the identities it holds
    policy,         \* trust_new_identities, set at construction
    made,           \* keys generated so far
    pass,           \* the replenish pass under way: the ids it will use next
    saved,          \* history: pre-key id to the generation saved last
    longLived,      \* history: signed and last-resort keys stored and not removed
    used,           \* history: one-time Kyber keys consumed with Ok
    lastBase,       \* history: the base key a last-resort key accepted last
    pinned,         \* history: the first identity saved for a peer
    spoiled         \* history: cells a failed write or a dropped batch may have left without
                    \* what was stored

keyVars == <<prekey_bundle, signed_prekey, kyber_prekey, kyber_meta, identity>>
batch == <<sending, buffered>>
history == <<saved, longLived, used, lastBase, pinned, spoiled>>
vars == <<keyVars, batch, policy, made, pass, history>>

NoPass == NoValue

NothingBuffered == [p \in Peers |-> NoValue]

Init ==
    /\ prekey_bundle = [k \in {PREKEY_BUNDLE_KEY} |-> NoValue]
    /\ signed_prekey = [i \in Ids |-> NoValue]
    /\ kyber_prekey = [i \in Ids |-> NoValue]
    /\ kyber_meta = [p \in Ids \X Ids |-> NoValue]
    /\ identity = [p \in Peers |-> NoValue]
    /\ sending = FALSE
    /\ buffered = NothingBuffered
    /\ policy \in {"Trust", "Reject"}
    /\ made = 0
    /\ pass = NoPass
    /\ saved = [i \in Ids |-> NoValue]
    /\ longLived = {}
    /\ used = {}
    /\ lastBase = [p \in Gens \X Ids |-> NoValue]
    /\ pinned = [p \in Peers |-> NoValue]
    /\ spoiled = {}

-----------------------------------------------------------------------------
(* Reading the stores.                                                     *)

EmptyBundle == [n \in {} |-> NoValue]

(* load_bundle of a bundle that decodes; a torn one is an error. *)
Bundle == IF prekey_bundle[PREKEY_BUNDLE_KEY] = NoValue
          THEN EmptyBundle ELSE prekey_bundle[PREKEY_BUNDLE_KEY]

BundleReads == prekey_bundle[PREKEY_BUNDLE_KEY] # Torn

(* find: the first entry of the bundle with the id. *)
get_pre_key(i) ==
    LET at == {n \in DOMAIN Bundle : Bundle[n][1] = i}
    IN  IF at = {} THEN NoValue ELSE Bundle[Min(at)][2]

Listed(dict) == {i \in DOMAIN dict : dict[i] # NoValue}

NextAfter_from_zero(S) == IF S = {} THEN 0 ELSE Max(S) + 1

(* max + 1, or 1 when nothing is stored. *)
NextAfter(S) == Max(S \cup {0}) + 1

next_pre_key_id == NextAfter({Bundle[n][1] : n \in DOMAIN Bundle})

next_signed_pre_key_id == NextAfter(Listed(signed_prekey))

(* load_envelope of an envelope that is there and decodes. *)
Loads(i) == kyber_prekey[i] \notin {NoValue, Torn}

(* load_last_resort_kyber_pre_keys, when every envelope decodes. *)
LastResort == {i \in Ids : Loads(i) /\ kyber_prekey[i].is_last_resort}

next_pq_of_one_time_keys == NextAfter(Listed(kyber_prekey) \ LastResort)

next_pq_pre_key_id == NextAfter(Listed(kyber_prekey))

(* The largest id of a last-resort key, 0 when there is none. *)
last_resort_kyber_prekey_id == Max(LastResort \cup {0})

-----------------------------------------------------------------------------
(* The replenish pass.                                                     *)

replenish_begin ==
    /\ pass = NoPass
    /\ made < MaxGen
    /\ BundleReads
    /\ pass' = [pre |-> next_pre_key_id,
                signed |-> next_signed_pre_key_id,
                pq |-> next_pq_pre_key_id]
    /\ UNCHANGED <<keyVars, batch, policy, made, history>>

(* The pass ends: all saved, a save failed, or the process stopped. *)
replenish_end ==
    /\ pass # NoPass
    /\ pass' = NoPass
    /\ UNCHANGED <<keyVars, batch, policy, made, history>>

(* A key is generated for the pass's next id of one kind. *)
Generates(kind) ==
    /\ pass # NoPass
    /\ made < MaxGen
    /\ pass[kind] \in Ids
    /\ made' = made + 1

(* The bundle save_pre_key writes: the entry of the id replaced, or pushed. *)
Stored(i, g) ==
    IF \E n \in DOMAIN Bundle : Bundle[n][1] = i
    THEN [n \in DOMAIN Bundle |-> IF Bundle[n][1] = i THEN <<i, g>> ELSE Bundle[n]]
    ELSE LET last == Max(DOMAIN Bundle \cup {0}) + 1
         IN  [n \in DOMAIN Bundle \cup {last} |-> IF n = last THEN <<i, g>> ELSE Bundle[n]]

save_pre_key ==
    /\ Generates("pre")
    /\ BundleReads
    /\ LET i == pass.pre
           g == made + 1
       IN  \/ /\ prekey_bundle' = B!put_ok(prekey_bundle, PREKEY_BUNDLE_KEY, Stored(i, g))
              /\ pass' = [pass EXCEPT !.pre = i + 1]
              /\ saved' = [saved EXCEPT ![i] = g]
              /\ UNCHANGED spoiled
           \/ /\ prekey_bundle' \in B!put_failed(prekey_bundle, PREKEY_BUNDLE_KEY, Stored(i, g))
              /\ pass' = NoPass
              /\ spoiled' = spoiled \cup {<<"prekey_bundle", 0>>}
              /\ UNCHANGED saved
    /\ UNCHANGED <<signed_prekey, kyber_prekey, kyber_meta, identity, batch, policy, longLived,
                   used, lastBase, pinned>>

save_signed_pre_key ==
    /\ Generates("signed")
    /\ LET i == pass.signed
           g == made + 1
       IN  \/ /\ signed_prekey' = B!put_ok(signed_prekey, i, g)
              /\ pass' = [pass EXCEPT !.signed = i + 1]
              /\ longLived' = longLived \cup {<<"signed_prekey", i, g>>}
              /\ UNCHANGED spoiled
           \/ /\ signed_prekey' \in B!put_failed(signed_prekey, i, g)
              /\ pass' = NoPass
              /\ spoiled' = spoiled \cup {<<"signed_prekey", i>>}
              /\ UNCHANGED longLived
    /\ UNCHANGED <<prekey_bundle, kyber_prekey, kyber_meta, identity, batch, policy, saved, used,
                   lastBase, pinned>>

(* store_envelope, from save_kyber_pre_key (one-time) and from             *)
(* store_last_resort_kyber_pre_key.                                        *)
store_envelope(is_last_resort) ==
    /\ Generates("pq")
    /\ LET i == pass.pq
           g == made + 1
           envelope == [gen |-> g, is_last_resort |-> is_last_resort]
       IN  \/ /\ kyber_prekey' = B!put_ok(kyber_prekey, i, envelope)
              /\ pass' = [pass EXCEPT !.pq = i + 1]
              /\ longLived' = IF is_last_resort
                              THEN longLived \cup {<<"kyber_prekey", i, g>>}
                              ELSE longLived
              /\ UNCHANGED spoiled
           \/ /\ kyber_prekey' \in B!put_failed(kyber_prekey, i, envelope)
              /\ pass' = NoPass
              /\ spoiled' = spoiled \cup {<<"kyber_prekey", i>>}
              /\ UNCHANGED longLived
    /\ UNCHANGED <<prekey_bundle, signed_prekey, kyber_meta, identity, batch, policy, saved, used,
                   lastBase, pinned>>

save_kyber_pre_key == store_envelope(FALSE)

store_last_resort_kyber_pre_key == store_envelope(TRUE)

-----------------------------------------------------------------------------
(* Incoming messages use keys up.                                          *)

Retained_above(i) == [n \in {m \in DOMAIN Bundle : Bundle[m][1] > i} |-> Bundle[n]]

(* The bundle remove_pre_key writes. *)
Retained(i) == [n \in {m \in DOMAIN Bundle : Bundle[m][1] # i} |-> Bundle[n]]

remove_pre_key(i) ==
    /\ BundleReads
    /\ \/ /\ prekey_bundle' = B!put_ok(prekey_bundle, PREKEY_BUNDLE_KEY, Retained(i))
          /\ saved' = [saved EXCEPT ![i] = NoValue]
          /\ UNCHANGED spoiled
       \/ /\ prekey_bundle' \in B!put_failed(prekey_bundle, PREKEY_BUNDLE_KEY, Retained(i))
          /\ spoiled' = spoiled \cup {<<"prekey_bundle", 0>>}
          /\ UNCHANGED saved
    /\ UNCHANGED <<signed_prekey, kyber_prekey, kyber_meta, identity, batch, policy, made, pass,
                   longLived, used, lastBase, pinned>>

Accepts_unless_one_time(i, ec, base) ==
    /\ Loads(i)
    /\ ~kyber_prekey[i].is_last_resort => kyber_meta[<<i, ec>>] # base

(* mark_kyber_pre_key_used would not refuse the key: it is there, and a    *)
(* last-resort key did not accept this base key last.                      *)
Accepts(i, ec, base) ==
    /\ Loads(i)
    /\ kyber_prekey[i].is_last_resort => kyber_meta[<<i, ec>>] # base

(* The last-resort branch: remember the base key. *)
mark_last_resort_used(i, ec, base) ==
    /\ Accepts(i, ec, base)
    /\ kyber_prekey[i].is_last_resort
    /\ \/ /\ kyber_meta' = B!put_ok(kyber_meta, <<i, ec>>, base)
          /\ lastBase' = [lastBase EXCEPT ![<<kyber_prekey[i].gen, ec>>] = base]
          /\ UNCHANGED spoiled
       \/ /\ kyber_meta' \in B!put_failed(kyber_meta, <<i, ec>>, base)
          /\ spoiled' = spoiled \cup {<<"kyber_meta", i, ec>>}
          /\ UNCHANGED lastBase
    /\ UNCHANGED <<prekey_bundle, signed_prekey, kyber_prekey, identity, batch, policy, made, pass,
                   saved, longLived, used, pinned>>

(* The one-time branch: delete the key.  A delete that fails has done      *)
(* nothing, or all of it and is not reported.                              *)
mark_one_time_used(i) ==
    /\ Loads(i)
    /\ ~kyber_prekey[i].is_last_resort
    /\ \/ /\ kyber_prekey' = B!delete_ok(kyber_prekey, i)
          /\ used' = used \cup {kyber_prekey[i].gen}
       \/ /\ kyber_prekey' \in B!delete_failed(kyber_prekey, i)
          /\ UNCHANGED used
    /\ UNCHANGED <<prekey_bundle, signed_prekey, kyber_meta, identity, batch, policy, made, pass,
                   saved, longLived, lastBase, pinned, spoiled>>

(* The replenish pass drops old keys; kyber_meta keeps their base keys.    *)
(* Whether a delete that was done reports it makes no difference here.     *)
remove_kyber_pre_key(i) ==
    /\ kyber_prekey' = B!delete_ok(kyber_prekey, i)
    /\ longLived' = {k \in longLived : ~(k[1] = "kyber_prekey" /\ k[2] = i)}
    /\ UNCHANGED <<prekey_bundle, signed_prekey, kyber_meta, identity, batch, policy, made, pass,
                   saved, used, lastBase, pinned, spoiled>>

-----------------------------------------------------------------------------
(* Peer identities.                                                        *)

(* Reads see what the open batch holds before what is on flash. *)
get_identity(p) == IF buffered[p] = NoValue THEN identity[p] ELSE buffered[p]

is_trusted_identity_always(p, k) == get_identity(p) # Torn

(* Known and equal, known and different under Trust, or unknown (trust on  *)
(* first use); an identity that does not decode is an error.               *)
is_trusted_identity(p, k) ==
    /\ get_identity(p) # Torn
    /\ get_identity(p) \in {k, NoValue} \/ policy = "Trust"

(* save_identity, by a caller that asked is_trusted_identity first.        *)
(* Inside a batch it cannot fail.                                          *)
save_identity(p, k) ==
    /\ is_trusted_identity(p, k)
    /\ \/ /\ IF sending THEN buffered' = [buffered EXCEPT ![p] = k] /\ UNCHANGED identity
             ELSE identity' = B!put_ok(identity, p, k) /\ UNCHANGED buffered
          /\ pinned' = IF pinned[p] = NoValue THEN [pinned EXCEPT ![p] = k] ELSE pinned
          /\ UNCHANGED spoiled
       \/ /\ ~sending
          /\ identity' \in B!put_failed(identity, p, k)
          /\ spoiled' = spoiled \cup {<<"identity", p>>}
          /\ UNCHANGED <<buffered, pinned>>
    /\ UNCHANGED <<prekey_bundle, signed_prekey, kyber_prekey, kyber_meta, sending, policy, made,
                   pass, saved, longLived, used, lastBase>>

begin_send_batch ==
    /\ ~sending
    /\ sending' = TRUE
    /\ UNCHANGED <<keyVars, buffered, policy, made, pass, history>>

Held == {p \in Peers : buffered[p] # NoValue}

(* The batch is closed. *)
Closes ==
    /\ sending
    /\ sending' = FALSE
    /\ buffered' = NothingBuffered
    /\ UNCHANGED <<prekey_bundle, signed_prekey, kyber_prekey, kyber_meta, policy, made, pass,
                   saved, longLived, used, lastBase, pinned>>

(* commit: every entry is tried.  One whose put fails, or that a power     *)
(* loss cuts off, leaves what a failed put leaves.                         *)
commit_send_batch ==
    /\ Closes
    /\ \E failed \in SUBSET Held :
          /\ \E left \in [failed -> PeerKeys \cup {NoValue, Torn}] :
                /\ \A p \in failed : left[p] \in {identity[p], NoValue, Torn, buffered[p]}
                /\ identity' = [p \in Peers |-> IF p \in failed THEN left[p]
                                                ELSE get_identity(p)]
          /\ spoiled' = spoiled \cup {<<"identity", p>> : p \in failed}

(* The attempt failed, panicked or was dropped, or power was lost: the     *)
(* guard goes without a commit and nothing is written.                     *)
abort_send_batch ==
    /\ Closes
    /\ spoiled' = spoiled \cup {<<"identity", p>> : p \in {q \in Held : buffered[q] # identity[q]}}
    /\ UNCHANGED identity

Next ==
    \/ /\ ~sending
       /\ \/ replenish_begin \/ replenish_end
          \/ save_pre_key \/ save_signed_pre_key
          \/ save_kyber_pre_key \/ store_last_resort_kyber_pre_key
          \/ \E i \in Ids : \/ remove_pre_key(i)
                            \/ mark_one_time_used(i)
                            \/ remove_kyber_pre_key(i)
                            \/ \E base \in BaseKeys, ec \in Listed(signed_prekey) :
                                  mark_last_resort_used(i, ec, base)
    \/ \E p \in Peers, k \in PeerKeys : save_identity(p, k)
    \/ begin_send_batch \/ commit_send_batch \/ abort_send_batch

Spec == Init /\ [][Next]_vars

-----------------------------------------------------------------------------
(* Properties.                                                             *)

(* The packed bundle of pre_key_store.rs never holds two entries with one  *)
(* id, so find, replace and retain all speak of the same entry; the other  *)
(* dictionaries hold what their stores write, and no key gets the id 0.    *)
TypeOK ==
    /\ prekey_bundle[PREKEY_BUNDLE_KEY] # Torn =>
          /\ \A n \in DOMAIN Bundle : Bundle[n] \in Ids \X Gens
          /\ \A m, n \in DOMAIN Bundle : Bundle[m][1] = Bundle[n][1] => m = n
    /\ signed_prekey \in [Ids -> Gens \cup {NoValue, Torn}]
    /\ kyber_prekey \in [Ids -> KyberStored \cup {NoValue, Torn}]
    /\ kyber_meta \in [Ids \X Ids -> BaseKeys \cup {NoValue, Torn}]
    /\ identity \in [Peers -> PeerKeys \cup {NoValue, Torn}]
    /\ sending \in BOOLEAN
    /\ buffered \in [Peers -> PeerKeys \cup {NoValue}]
    /\ ~sending => buffered = NothingBuffered
    /\ made \in 0..MaxGen
    /\ \/ pass = NoPass
       \/ pass \in Pass

(* As long as no write of the packed bundle failed, get_pre_key returns    *)
(* for every id the key saved last and not removed since: rewriting the    *)
(* whole bundle for one id (save_pre_key, remove_pre_key) with a message   *)
(* arriving in the middle of a replenish pass loses no other id.           *)
PreKeysKept ==
    <<"prekey_bundle", 0>> \notin spoiled => \A i \in Ids : get_pre_key(i) = saved[i]

(* A signed pre-key or a last-resort Kyber key whose store returned Ok     *)
(* stays readable with that very key until remove_kyber_pre_key: no use of *)
(* it deletes it (mark_kyber_pre_key_used) and no later key of a replenish *)
(* pass, whose ids were read before messages used other keys up, is stored *)
(* over it.  The newest last-resort key is the one                         *)
(* last_resort_kyber_prekey_id names.                                      *)
LongLivedKept ==
    /\ \A k \in longLived :
          IF k[1] = "signed_prekey"
          THEN signed_prekey[k[2]] = k[3]
          ELSE kyber_prekey[k[2]] = [gen |-> k[3], is_last_resort |-> TRUE]
    /\ \A k \in longLived :
          k[1] = "kyber_prekey" => kyber_prekey[last_resort_kyber_prekey_id].gen >= k[3]

(* What mark_kyber_pre_key_used accepts was not consumed before: a         *)
(* one-time key it reported used is never accepted again, though its id    *)
(* may be handed out again, and a last-resort key does not accept the base *)
(* key it accepted last with that signed pre-key, unless a write of the    *)
(* dedup entry failed in between.                                          *)
UseAcceptedOnce ==
    \A i \in Ids, ec \in Ids, base \in BaseKeys :
        Accepts(i, ec, base) =>
            LET g == kyber_prekey[i].gen
            IN  IF kyber_prekey[i].is_last_resort
                THEN lastBase[<<g, ec>>] = base => <<"kyber_meta", i, ec>> \in spoiled
                ELSE g \notin used

(* Under Reject the identity is_trusted_identity compares with is the      *)
(* first one a save_identity of the peer returned Ok for, across the       *)
(* begin, commit and abort of send batches.  Two things can open a peer to *)
(* a new key: a write of its identity that failed, because put deletes     *)
(* before it writes, and the abort of the send attempt in which the        *)
(* identity was first saved, because save_identity has returned Ok for an  *)
(* entry that never reached flash.  PddbStore::new and new_buffering       *)
(* choose Trust, under which every change is accepted; Reject is what      *)
(* with_options and new_buffering_with_options offer.                      *)
IdentityPinned ==
    policy = "Reject" =>
        \A p \in Peers : <<"identity", p>> \notin spoiled => get_identity(p) = pinned[p]
=============================================================================
