-------------------------- MODULE KeyStoresProofs --------------------------
(***************************************************************************)
(* Theorems about KeyStores, for every number of ids and keys: what a      *)
(* replenish pass interleaved with incoming messages and failing writes    *)
(* can never do to the stored keys.                                        *)
(***************************************************************************)
EXTENDS KeyStores, TLAPS, WellFoundedInduction

-----------------------------------------------------------------------------
(* Largest and smallest elements.                                          *)

(* A bounded set of naturals that is not empty has a largest element. *)
LEMMA MaxIs ==
    ASSUME NEW N \in Nat, NEW S \in SUBSET (0..N), S # {}
    PROVE  Max(S) \in S /\ \A y \in S : y <= Max(S)
<1> DEFINE T == {N - x : x \in S}
<1>1. T \subseteq Nat /\ T # {}
  OBVIOUS
<1>2. PICK m \in T : \A y \in T : ~(<<y, m>> \in OpToRel(<, Nat))
  BY ONLY <1>1, NatLessThanWellFounded, WFMin
<1>3. \A y \in T : ~(y < m)
  BY <1>1, <1>2 DEF OpToRel
<1>4. PICK x \in S : m = N - x
  OBVIOUS
<1>5. \A y \in S : y <= x
  BY <1>3, <1>4
<1>6. \E z \in S : \A y \in S : z >= y
  BY <1>5
<1> QED BY <1>6 DEF Max

(* The next id lies above every id in use. *)
LEMMA NextAfterIs ==
    ASSUME NEW S \in SUBSET Ids
    PROVE  NextAfter(S) \in 1..MaxId + 1 /\ \A i \in S : i < NextAfter(S)
<1>1. S \cup {0} \subseteq 0..MaxId /\ S \cup {0} # {} /\ MaxId \in Nat
  BY BoundAssumption DEF Ids
<1>2. Max(S \cup {0}) \in S \cup {0} /\ \A y \in S \cup {0} : y <= Max(S \cup {0})
  BY ONLY <1>1, MaxIs
<1>3. PICK x \in 0..MaxId : x = Max(S \cup {0})
  BY <1>1, <1>2
<1>4. NextAfter(S) = x + 1
  BY <1>3 DEF NextAfter
<1>5. \A i \in S : i \in 0..MaxId /\ i <= x
  BY <1>1, <1>2, <1>3
<1> QED BY <1>1, <1>3, <1>4, <1>5

-----------------------------------------------------------------------------
(* The inductive invariant, one part for each store.                       *)

(* Values of the dictionaries and of the history. *)
StoreTypes ==
    /\ signed_prekey \in [Ids -> Gens \cup {NoValue, Torn}]
    /\ kyber_prekey \in [Ids -> KyberStored \cup {NoValue, Torn}]
    /\ kyber_meta \in [Ids \X Ids -> BaseKeys \cup {NoValue, Torn}]
    /\ identity \in [Peers -> PeerKeys \cup {NoValue, Torn}]
    /\ sending \in BOOLEAN
    /\ buffered \in [Peers -> PeerKeys \cup {NoValue}]
    /\ ~sending => buffered = NothingBuffered
    /\ lastBase \in [Gens \X Ids -> BaseKeys \cup {NoValue}]
    /\ pinned \in [Peers -> PeerKeys \cup {NoValue}]
    /\ made \in 0..MaxGen
    /\ pass \in Pass \cup {NoPass}

(* The packed bundle: an id has at most one entry. *)
BundleTypes ==
    /\ prekey_bundle \in [{PREKEY_BUNDLE_KEY} -> PreKeyBundle \cup {NoValue, Torn}]
    /\ saved \in [Ids -> Gens \cup {NoValue}]
    /\ BundleReads => /\ DOMAIN Bundle \subseteq 1..made
                      /\ \A m, n \in DOMAIN Bundle : Bundle[m][1] = Bundle[n][1] => m = n

(* While no write of it failed, the bundle has exactly what was saved. *)
BundleKept ==
    <<"prekey_bundle", 0>> \notin spoiled =>
        /\ BundleReads
        /\ \A n \in DOMAIN Bundle : saved[Bundle[n][1]] = Bundle[n][2]
        /\ \A i \in Ids : saved[i] = NoValue \/ \E n \in DOMAIN Bundle : Bundle[n][1] = i

(* The ids of a replenish pass stay above every id in use. *)
PassAhead ==
    pass # NoPass =>
        /\ \A i \in Ids : signed_prekey[i] # NoValue => i < pass.signed
        /\ \A i \in Ids : kyber_prekey[i] # NoValue => i < pass.pq

(* Of two Kyber keys the one with the larger id is the newer. *)
GensRise ==
    /\ \A i \in Ids : Loads(i) => kyber_prekey[i].gen <= made
    /\ \A i, j \in Ids :
          Loads(i) /\ Loads(j) /\ i < j => kyber_prekey[i].gen < kyber_prekey[j].gen

LongKept ==
    /\ longLived \subseteq {"signed_prekey", "kyber_prekey"} \X Ids \X Gens
    /\ \A k \in longLived :
          IF k[1] = "signed_prekey"
          THEN signed_prekey[k[2]] = k[3]
          ELSE kyber_prekey[k[2]] = [gen |-> k[3], is_last_resort |-> TRUE]

(* The dedup entry of a last-resort key is the base key it accepted last,  *)
(* and a consumed one-time key is gone.                                    *)
UsesKnown ==
    /\ \A g \in Gens, ec \in Ids : lastBase[<<g, ec>>] # NoValue => g <= made
    /\ used \subseteq Gens /\ \A g \in used : g <= made
    /\ \A i \in Ids : Loads(i) => kyber_prekey[i].gen \notin used
    /\ \A i, ec \in Ids :
          Loads(i) /\ <<"kyber_meta", i, ec>> \notin spoiled =>
              lastBase[<<kyber_prekey[i].gen, ec>>] \in {NoValue, kyber_meta[<<i, ec>>]}

IInv ==
    /\ StoreTypes /\ BundleTypes /\ BundleKept /\ PassAhead /\ GensRise /\ LongKept /\ UsesKnown
    /\ IdentityPinned

-----------------------------------------------------------------------------
(* What a step may do.                                                     *)

(* The markers are no values. *)
LEMMA Markers ==
    /\ NoValue # Torn /\ NoValue \notin BaseKeys /\ Torn \notin BaseKeys
    /\ NoValue \notin PeerKeys
    /\ \A g \in Gens : g # NoValue /\ g # Torn
    /\ \A r \in KyberStored : r # NoValue /\ r # Torn
    /\ \A b \in PreKeyBundle : b # NoValue /\ b # Torn
    /\ \A r \in Pass : r # NoPass
BY MarkerAssumption DEF NoPass

(* A replenish pass makes key made + 1 for an id of its own, and moves on. *)
LEMMA Generating ==
    ASSUME IInv, NEW kind \in {"pre", "signed", "pq"}, Generates(kind)
    PROVE  /\ pass \in Pass /\ pass[kind] \in Ids
           /\ made \in 0..MaxGen /\ made + 1 \in Gens /\ made' = made + 1
           /\ [pass EXCEPT ![kind] = @ + 1] \in Pass
<1>1. pass \in Pass /\ pass[kind] \in Ids /\ made \in 0..MaxGen /\ made < MaxGen /\ made' = made + 1
  BY DEF IInv, StoreTypes, Generates
<1>2. made + 1 \in Gens
  BY <1>1, BoundAssumption DEF Gens
<1>3. pass[kind] + 1 \in 1..MaxId + 1
  BY <1>1, BoundAssumption DEF Ids
<1>4. [pass EXCEPT ![kind] = @ + 1] \in Pass
  BY <1>1, <1>3 DEF Pass
<1> QED BY <1>1, <1>2, <1>4

(* Failures and keys are only ever added. *)
LEMMA Grows ==
    ASSUME IInv, [Next]_vars
    PROVE  spoiled \subseteq spoiled' /\ made' \in 0..MaxGen /\ made <= made'
<1>1. made \in 0..MaxGen
  BY DEF IInv, StoreTypes
<1>2. /\ made' \in {made, made + 1} /\ (made' = made + 1 => made < MaxGen)
      /\ spoiled \subseteq spoiled'
  <2>1. CASE \/ save_pre_key \/ save_signed_pre_key
             \/ save_kyber_pre_key \/ store_last_resort_kyber_pre_key
    BY <2>1 DEF save_pre_key, save_signed_pre_key, save_kyber_pre_key,
       store_last_resort_kyber_pre_key,
       store_envelope, Generates
  <2>2. CASE \/ UNCHANGED vars \/ replenish_begin \/ replenish_end
             \/ begin_send_batch \/ commit_send_batch \/ abort_send_batch
    BY <1>1, <2>2 DEF replenish_begin, replenish_end, begin_send_batch, commit_send_batch,
       abort_send_batch, Closes, vars, history
  <2>3. ASSUME NEW i \in Ids, remove_pre_key(i) \/ mark_one_time_used(i) \/ remove_kyber_pre_key(i)
        PROVE  UNCHANGED made /\ spoiled \subseteq spoiled'
    BY <2>3 DEF remove_pre_key, mark_one_time_used, remove_kyber_pre_key
  <2>4. ASSUME NEW i \in Ids, NEW ec, NEW base, mark_last_resort_used(i, ec, base)
        PROVE  UNCHANGED made /\ spoiled \subseteq spoiled'
    BY <2>4 DEF mark_last_resort_used
  <2>5. ASSUME NEW p, NEW k, save_identity(p, k) PROVE UNCHANGED made /\ spoiled \subseteq spoiled'
    BY <2>5 DEF save_identity
  <2>6. UNCHANGED made => made' # made + 1
    BY <1>1
  <2> QED BY <2>1, <2>2, <2>3, <2>4, <2>5, <2>6 DEF Next
<1> QED BY <1>1, <1>2, BoundAssumption

-----------------------------------------------------------------------------
(* Types.                                                                  *)

(* A bundle that reads is a vector on some of the first made positions. *)
LEMMA BundleIs ==
    ASSUME IInv, BundleReads
    PROVE  \E P \in SUBSET (1..made) : Bundle \in [P -> Ids \X Gens]
<1>1. EmptyBundle \in [{} -> Ids \X Gens]
  BY DEF EmptyBundle
<1>2. Bundle \in PreKeyBundle
  BY <1>1 DEF BundleReads, Bundle, IInv, BundleTypes, PreKeyBundle
<1>3. PICK P \in SUBSET Gens : Bundle \in [P -> Ids \X Gens]
  BY <1>2 DEF PreKeyBundle
<1>4. DOMAIN Bundle \subseteq 1..made
  BY DEF IInv, BundleTypes
<1>5. P = DOMAIN Bundle
  BY <1>3
<1> QED BY <1>3, <1>4, <1>5

(* The dictionaries hold what their stores write. *)
LEMMA TypesStep ==
    ASSUME IInv, [Next]_vars
    PROVE  StoreTypes'
<1>t. /\ StoreTypes /\ made' \in 0..MaxGen
  BY Grows DEF IInv
<1> USE DEF StoreTypes
<1>0. CASE UNCHANGED vars
  BY <1>0, <1>t DEF vars, keyVars, batch, history
<1>1. CASE replenish_begin
  <2>1. /\ DOMAIN signed_prekey = Ids /\ DOMAIN kyber_prekey = Ids
        /\ {Bundle[n][1] : n \in DOMAIN Bundle} \subseteq Ids
    <3>1. PICK P \in SUBSET (1..made) : Bundle \in [P -> Ids \X Gens]
      BY <1>1, BundleIs DEF replenish_begin
    <3>2. \A n \in DOMAIN Bundle : Bundle[n][1] \in Ids
      BY <3>1
    <3> QED BY <1>t, <3>2
  <2>2. /\ next_pre_key_id \in 1..MaxId + 1 /\ next_signed_pre_key_id \in 1..MaxId + 1
        /\ next_pq_pre_key_id \in 1..MaxId + 1
    BY <2>1, NextAfterIs DEF next_pre_key_id, next_signed_pre_key_id, next_pq_pre_key_id, Listed
  <2>3. pass' \in Pass
    BY <1>1, <2>2 DEF replenish_begin, Pass
  <2> QED BY <1>1, <1>t, <2>3 DEF replenish_begin, keyVars, batch, history
<1>2. CASE replenish_end
  BY <1>2, <1>t DEF replenish_end, keyVars, batch, history
<1>3. CASE save_pre_key
  <2>1. pass' \in Pass \cup {NoPass}
    BY <1>3, Generating DEF save_pre_key
  <2> QED BY <1>3, <1>t, <2>1 DEF save_pre_key, batch
<1>4. CASE save_signed_pre_key
  <2>1. pass' \in Pass \cup {NoPass} /\ pass.signed \in Ids /\ made + 1 \in Gens
    BY <1>4, Generating DEF save_signed_pre_key
  <2>2. signed_prekey' \in [Ids -> Gens \cup {NoValue, Torn}]
    BY <1>4, <1>t, <2>1 DEF save_signed_pre_key, B!put_ok, B!put_failed
  <2> QED BY <1>4, <1>t, <2>1, <2>2 DEF save_signed_pre_key, batch
<1>5. ASSUME NEW last \in BOOLEAN, store_envelope(last) PROVE StoreTypes'
  <2>1. pass' \in Pass \cup {NoPass} /\ pass.pq \in Ids /\ made + 1 \in Gens
    BY <1>5, Generating DEF store_envelope
  <2>2. [gen |-> made + 1, is_last_resort |-> last] \in KyberStored
    BY <2>1 DEF KyberStored
  <2>3. kyber_prekey' \in [Ids -> KyberStored \cup {NoValue, Torn}]
    BY <1>5, <1>t, <2>1, <2>2 DEF store_envelope, B!put_ok, B!put_failed
  <2> QED BY <1>5, <1>t, <2>1, <2>3 DEF store_envelope, batch
<1>6. ASSUME NEW i \in Ids, remove_pre_key(i) PROVE StoreTypes'
  BY <1>6, <1>t DEF remove_pre_key, batch
<1>7. ASSUME NEW i \in Ids, mark_one_time_used(i) \/ remove_kyber_pre_key(i) PROVE StoreTypes'
  <2>1. kyber_prekey' \in [Ids -> KyberStored \cup {NoValue, Torn}]
    BY <1>7, <1>t DEF mark_one_time_used, remove_kyber_pre_key, B!delete_failed, B!delete_ok
  <2> QED BY <1>7, <1>t, <2>1 DEF mark_one_time_used, remove_kyber_pre_key, batch
<1>8. ASSUME NEW i \in Ids, NEW base \in BaseKeys, NEW ec \in Listed(signed_prekey),
             mark_last_resort_used(i, ec, base)
      PROVE  StoreTypes'
  <2>1. ec \in Ids /\ kyber_prekey[i] \in KyberStored /\ kyber_prekey[i].gen \in Gens
    BY <1>8, <1>t DEF Listed, mark_last_resort_used, Accepts, Loads, KyberStored
  <2>2. lastBase' \in [Gens \X Ids -> BaseKeys \cup {NoValue}]
    BY <1>8, <1>t, <2>1 DEF mark_last_resort_used
  <2>3. kyber_meta' \in [Ids \X Ids -> BaseKeys \cup {NoValue, Torn}]
    BY <1>8, <1>t, <2>1 DEF mark_last_resort_used, B!put_ok, B!put_failed
  <2> QED BY <1>8, <1>t, <2>2, <2>3 DEF mark_last_resort_used, batch
<1>9. ASSUME NEW q \in Peers, NEW k \in PeerKeys, save_identity(q, k) PROVE StoreTypes'
  <2>1. pinned' \in [Peers -> PeerKeys \cup {NoValue}]
    BY <1>9, <1>t DEF save_identity
  <2>2. identity' \in [Peers -> PeerKeys \cup {NoValue, Torn}]
    BY <1>9, <1>t DEF save_identity, B!put_ok, B!put_failed
  <2>3. buffered' \in [Peers -> PeerKeys \cup {NoValue}] /\ (~sending => UNCHANGED buffered)
    BY <1>9, <1>t DEF save_identity
  <2> QED BY <1>9, <1>t, <2>1, <2>2, <2>3 DEF save_identity, NothingBuffered
<1>10. CASE begin_send_batch
  BY <1>10, <1>t DEF begin_send_batch, keyVars, history
<1>11. CASE commit_send_batch \/ abort_send_batch
  <2>1. /\ sending' = FALSE /\ buffered' = NothingBuffered
        /\ UNCHANGED <<signed_prekey, kyber_prekey, kyber_meta, lastBase, pinned, made, pass>>
    BY <1>11 DEF commit_send_batch, abort_send_batch, Closes
  <2>2. NothingBuffered \in [Peers -> PeerKeys \cup {NoValue}] /\ NothingBuffered' = NothingBuffered
    BY DEF NothingBuffered
  <2>3. \A p \in Peers : get_identity(p) \in PeerKeys \cup {NoValue, Torn}
    BY <1>t DEF get_identity
  <2>4. identity' \in [Peers -> PeerKeys \cup {NoValue, Torn}]
    <3>1. CASE abort_send_batch
      BY <1>t, <3>1 DEF abort_send_batch
    <3>2. CASE commit_send_batch
      <4>1. PICK failed \in SUBSET Held :
              \E left \in [failed -> PeerKeys \cup {NoValue, Torn}] :
                identity' = [p \in Peers |-> IF p \in failed THEN left[p] ELSE get_identity(p)]
        BY <3>2 DEF commit_send_batch
      <4>2. PICK left \in [failed -> PeerKeys \cup {NoValue, Torn}] :
                identity' = [p \in Peers |-> IF p \in failed THEN left[p] ELSE get_identity(p)]
        BY <4>1
      <4> QED BY <2>3, <4>2
    <3> QED BY <1>11, <3>1, <3>2
  <2> QED BY <1>t, <2>1, <2>2, <2>4
<1> QED
  BY <1>0, <1>1, <1>2, <1>3, <1>4, <1>5, <1>6, <1>7, <1>8, <1>9, <1>10, <1>11
     DEF Next, save_kyber_pre_key, store_last_resort_kyber_pre_key

-----------------------------------------------------------------------------
(* The packed bundle.                                                      *)

(* save_pre_key: the entry of the id is replaced, or pushed; every other   *)
(* entry stays.                                                            *)
LEMMA StoredIs ==
    ASSUME NEW b, NEW P \in SUBSET (1..made), b \in [P -> Ids \X Gens], b = Bundle,
           made \in 0..MaxGen, made + 1 \in Gens, NEW i \in Ids,
           \A m, n \in P : b[m][1] = b[n][1] => m = n
    PROVE  \E Q \in SUBSET (1..made + 1) :
              /\ Stored(i, made + 1) \in [Q -> Ids \X Gens]
              /\ \E n \in Q : Stored(i, made + 1)[n] = <<i, made + 1>>
              /\ \A m, n \in Q : Stored(i, made + 1)[m][1] = Stored(i, made + 1)[n][1] => m = n
              /\ \A n \in Q : Stored(i, made + 1)[n][1] # i =>
                   n \in P /\ Stored(i, made + 1)[n] = b[n]
              /\ \A n \in P : b[n][1] # i => n \in Q /\ Stored(i, made + 1)[n] = b[n]
<1> DEFINE s == Stored(i, made + 1)
           e == <<i, made + 1>>
<1>0. e \in Ids \X Gens /\ e[1] = i
  OBVIOUS
<1>1. DOMAIN Bundle = P /\ MaxGen \in Nat
  BY BoundAssumption
<1>2. CASE \E n \in P : b[n][1] = i
  <2>1. s = [n \in P |-> IF b[n][1] = i THEN e ELSE b[n]]
    BY <1>1, <1>2 DEF Stored
  <2> HIDE DEF s, e
  <2>2. s \in [P -> Ids \X Gens]
    BY <1>0, <2>1
  <2>3. \A n \in P : s[n][1] = b[n][1]
    BY <1>0, <2>1
  <2>4. P \in SUBSET (1..made + 1)
    OBVIOUS
  <2>5. \E n \in P : s[n] = e
    BY <1>2, <2>1
  <2>6. \A m, n \in P : s[m][1] = s[n][1] => m = n
    BY <2>3
  <2>7. \A n \in P : b[n][1] # i => s[n] = b[n]
    BY <2>1
  <2>8. /\ \A n \in P : s[n][1] # i => n \in P /\ s[n] = b[n]
        /\ \A n \in P : b[n][1] # i => n \in P /\ s[n] = b[n]
    BY <2>3, <2>7
  <2> QED BY <2>2, <2>4, <2>5, <2>6, <2>8 DEF s, e
<1>3. CASE ~\E n \in P : b[n][1] = i
  <2>1. P \cup {0} \in SUBSET (0..made) /\ P \cup {0} # {} /\ made \in Nat
    BY <1>1
  <2>2. Max(P \cup {0}) \in P \cup {0} /\ \A y \in P \cup {0} : y <= Max(P \cup {0})
    BY ONLY <2>1, MaxIs
  <2>3. PICK x \in 0..made : x = Max(P \cup {0})
    BY <2>1, <2>2
  <2>4. \A y \in P : y <= x
    BY <2>2, <2>3
  <2> DEFINE last == x + 1
             Q == P \cup {last}
  <2>5. last \in 1..made + 1 /\ last \notin P
    BY <2>1, <2>4
  <2>6. s = [n \in Q |-> IF n = last THEN e ELSE b[n]]
    BY <1>1, <1>3, <2>3 DEF Stored
  <2> HIDE DEF s, e, last
  <2>7. Q \in SUBSET (1..made + 1)
    BY <2>1, <2>5
  <2>8. s \in [Q -> Ids \X Gens]
    BY <1>0, <2>6
  <2>9. s[last] = e /\ \A n \in P : s[n] = b[n]
    BY <2>5, <2>6
  <2>10. \A m, n \in Q : s[m][1] = s[n][1] => m = n
    BY <1>0, <1>3, <2>9
  <2>11. /\ \A n \in Q : s[n][1] # i => n \in P /\ s[n] = b[n]
         /\ \A n \in P : b[n][1] # i => n \in Q /\ s[n] = b[n]
    BY <1>0, <2>9
  <2>12. \E n \in Q : s[n] = e
    BY <2>9
  <2> HIDE DEF Q
  <2> QED BY <2>7, <2>8, <2>10, <2>11, <2>12 DEF s, e
<1> QED BY <1>2, <1>3

(* Rewriting the whole bundle for one id keeps every other id. *)
LEMMA BundleStep ==
    ASSUME IInv, [Next]_vars
    PROVE  BundleTypes' /\ BundleKept'
<1> DEFINE Whole == BundleTypes /\ BundleKept
<1>t. /\ BundleTypes /\ BundleKept /\ made \in 0..MaxGen /\ spoiled \subseteq spoiled'
      /\ made <= made' /\ made' \in 0..MaxGen
  BY Grows DEF IInv, StoreTypes
<1>d. PREKEY_BUNDLE_KEY \in {PREKEY_BUNDLE_KEY} /\ MaxGen \in Nat
  BY BoundAssumption
<1>a. ASSUME UNCHANGED <<prekey_bundle, saved>> PROVE Whole'
  <2>1. Bundle' = Bundle /\ BundleReads' = BundleReads
    BY <1>a DEF Bundle, BundleReads
  <2>2. 1..made \subseteq 1..made'
    BY <1>t, <1>d
  <2>3. BundleTypes'
    BY <1>a, <1>t, <2>1, <2>2 DEF BundleTypes
  <2>4. BundleKept'
    BY <1>a, <1>t, <2>1 DEF BundleKept
  <2> QED BY <2>3, <2>4
(* A write of b that succeeds. *)
<1>b. ASSUME NEW Q \in SUBSET (1..made'), NEW b \in [Q -> Ids \X Gens],
             \A m, n \in Q : b[m][1] = b[n][1] => m = n,
             prekey_bundle' = B!put_ok(prekey_bundle, PREKEY_BUNDLE_KEY, b),
             saved' \in [Ids -> Gens \cup {NoValue}]
      PROVE  BundleTypes' /\ BundleReads' /\ Bundle' = b /\ DOMAIN b = Q
  <2>1. Q \in SUBSET Gens
    BY <1>t, <1>d DEF Gens
  <2>2. b \in PreKeyBundle
    BY <2>1 DEF PreKeyBundle
  <2>3. /\ prekey_bundle' \in [{PREKEY_BUNDLE_KEY} -> PreKeyBundle \cup {NoValue, Torn}]
        /\ prekey_bundle'[PREKEY_BUNDLE_KEY] = b
    BY <1>b, <1>t, <1>d, <2>2 DEF BundleTypes, B!put_ok
  <2>4. Bundle' = b /\ BundleReads' /\ DOMAIN b = Q
    BY <2>2, <2>3, Markers DEF Bundle, BundleReads
  <2> QED BY <1>b, <2>3, <2>4 DEF BundleTypes
(* A write of b that fails. *)
<1>c. ASSUME NEW Q \in SUBSET (1..made'), NEW b \in [Q -> Ids \X Gens],
             \A m, n \in Q : b[m][1] = b[n][1] => m = n,
             prekey_bundle' \in B!put_failed(prekey_bundle, PREKEY_BUNDLE_KEY, b),
             <<"prekey_bundle", 0>> \in spoiled', UNCHANGED saved
      PROVE  Whole'
  <2>1. BundleKept'
    BY <1>c DEF BundleKept
  <2>2. CASE UNCHANGED prekey_bundle
    BY <1>a, <1>c, <2>2
  <2>3. CASE prekey_bundle' = [prekey_bundle EXCEPT ![PREKEY_BUNDLE_KEY] = NoValue]
    <3>1. /\ prekey_bundle' \in [{PREKEY_BUNDLE_KEY} -> PreKeyBundle \cup {NoValue, Torn}]
          /\ prekey_bundle'[PREKEY_BUNDLE_KEY] = NoValue
      BY <1>t, <1>d, <2>3 DEF BundleTypes
    <3>2. Bundle' = EmptyBundle /\ DOMAIN EmptyBundle = {}
      BY <3>1 DEF Bundle, EmptyBundle
    <3> QED BY <1>t, <1>c, <2>1, <3>1, <3>2 DEF BundleTypes
  <2>4. CASE prekey_bundle' = [prekey_bundle EXCEPT ![PREKEY_BUNDLE_KEY] = Torn]
    <3>1. /\ prekey_bundle' \in [{PREKEY_BUNDLE_KEY} -> PreKeyBundle \cup {NoValue, Torn}]
          /\ prekey_bundle'[PREKEY_BUNDLE_KEY] = Torn
      BY <1>t, <1>d, <2>4 DEF BundleTypes
    <3> QED BY <1>t, <1>c, <2>1, <3>1 DEF BundleTypes, BundleReads
  <2>5. CASE prekey_bundle' = [prekey_bundle EXCEPT ![PREKEY_BUNDLE_KEY] = b]
    <3>1. prekey_bundle' = B!put_ok(prekey_bundle, PREKEY_BUNDLE_KEY, b)
      BY <2>5 DEF B!put_ok
    <3>2. saved' \in [Ids -> Gens \cup {NoValue}]
      BY <1>c, <1>t DEF BundleTypes
    <3>3. BundleTypes'
      BY <1>b, <1>c, <3>1, <3>2
    <3> QED BY <2>1, <3>3
  <2> QED BY <1>c, <2>2, <2>3, <2>4, <2>5 DEF B!put_failed
<1>1. CASE save_pre_key
  <2>0. BundleReads /\ pass.pre \in Ids /\ made + 1 \in Gens /\ made' = made + 1
    BY <1>1, Generating DEF save_pre_key
  <2> DEFINE i == pass.pre
             s == Stored(i, made + 1)
  <2>1. PICK P \in SUBSET (1..made) : Bundle \in [P -> Ids \X Gens]
    BY <2>0, BundleIs
  <2>2. DOMAIN Bundle = P /\ \A m, n \in P : Bundle[m][1] = Bundle[n][1] => m = n
    BY <1>t, <2>0, <2>1 DEF BundleTypes
  <2>3. PICK Q \in SUBSET (1..made + 1) :
              /\ s \in [Q -> Ids \X Gens]
              /\ \E n \in Q : s[n] = <<i, made + 1>>
              /\ \A m, n \in Q : s[m][1] = s[n][1] => m = n
              /\ \A n \in Q : s[n][1] # i => n \in P /\ s[n] = Bundle[n]
              /\ \A n \in P : Bundle[n][1] # i => n \in Q /\ s[n] = Bundle[n]
    BY <1>t, <2>0, <2>1, <2>2, StoredIs
  <2>4. CASE /\ prekey_bundle' = B!put_ok(prekey_bundle, PREKEY_BUNDLE_KEY, s)
             /\ saved' = [saved EXCEPT ![i] = made + 1]
    <3> HIDE DEF s
    <3>1. /\ saved' \in [Ids -> Gens \cup {NoValue}] /\ saved'[i] = made + 1
          /\ \A j \in Ids : j # i => saved'[j] = saved[j]
      BY <1>t, <2>0, <2>4 DEF BundleTypes
    <3>2. BundleTypes' /\ BundleReads' /\ Bundle' = s /\ DOMAIN s = Q
      BY <1>b, <2>0, <2>3, <2>4, <3>1
    <3>3. PICK n0 \in Q : s[n0] = <<i, made + 1>>
      BY <2>3
    <3>4. \A n \in Q : s[n] \in Ids \X Gens
      BY <2>3
    <3>5. ASSUME <<"prekey_bundle", 0>> \notin spoiled' PROVE BundleKept'
      <4>0. /\ \A n \in P : saved[Bundle[n][1]] = Bundle[n][2]
            /\ \A j \in Ids : saved[j] = NoValue \/ \E n \in P : Bundle[n][1] = j
        BY <1>t, <2>2, <3>5 DEF BundleKept
      <4>1. ASSUME NEW n \in Q PROVE saved'[s[n][1]] = s[n][2]
        <5>1. CASE s[n][1] = i
          <6>1. n = n0
            BY <2>3, <3>3, <5>1
          <6> QED BY <3>1, <3>3, <6>1
        <5>2. CASE s[n][1] # i
          BY <2>3, <3>1, <3>4, <4>0, <5>2
        <5> QED BY <5>1, <5>2
      <4>2. ASSUME NEW j \in Ids, saved'[j] # NoValue PROVE \E n \in Q : s[n][1] = j
        <5>1. CASE j = i
          BY <3>3, <5>1
        <5>2. CASE j # i
          BY <2>3, <3>1, <4>0, <4>2, <5>2
        <5> QED BY <5>1, <5>2
      <4> QED BY <3>2, <4>1, <4>2 DEF BundleKept
    <3> QED BY <3>2, <3>5 DEF BundleKept
  <2>5. CASE /\ prekey_bundle' \in B!put_failed(prekey_bundle, PREKEY_BUNDLE_KEY, s)
             /\ spoiled' = spoiled \cup {<<"prekey_bundle", 0>>} /\ UNCHANGED saved
    <3> HIDE DEF s
    <3>1. <<"prekey_bundle", 0>> \in spoiled'
      BY <2>5
    <3> QED BY <1>c, <2>0, <2>3, <2>5, <3>1
  <2> QED BY <1>1, <2>4, <2>5 DEF save_pre_key
<1>2. ASSUME NEW i \in Ids, remove_pre_key(i) PROVE Whole'
  <2>0. BundleReads /\ UNCHANGED made
    BY <1>2 DEF remove_pre_key
  <2> DEFINE s == Retained(i)
  <2>1. PICK P \in SUBSET (1..made) : Bundle \in [P -> Ids \X Gens]
    BY <2>0, BundleIs
  <2>2. DOMAIN Bundle = P /\ \A m, n \in P : Bundle[m][1] = Bundle[n][1] => m = n
    BY <1>t, <2>0, <2>1 DEF BundleTypes
  <2> DEFINE Q == {n \in P : Bundle[n][1] # i}
  <2>3. s = [n \in Q |-> Bundle[n]]
    BY <2>2 DEF Retained
  <2>4. /\ Q \in SUBSET (1..made') /\ s \in [Q -> Ids \X Gens]
        /\ \A n \in Q : s[n] = Bundle[n] /\ n \in P /\ Bundle[n][1] # i
        /\ \A n \in P : Bundle[n][1] # i => n \in Q
    BY <2>0, <2>1, <2>3
  <2> HIDE DEF s, Q
  <2>5. \A m, n \in Q : s[m][1] = s[n][1] => m = n
    BY <2>2, <2>4
  <2>6. CASE /\ prekey_bundle' = B!put_ok(prekey_bundle, PREKEY_BUNDLE_KEY, s)
             /\ saved' = [saved EXCEPT ![i] = NoValue]
    <3>1. /\ saved' \in [Ids -> Gens \cup {NoValue}] /\ saved'[i] = NoValue
          /\ \A j \in Ids : j # i => saved'[j] = saved[j]
      BY <1>t, <2>6 DEF BundleTypes
    <3>2. BundleTypes' /\ BundleReads' /\ Bundle' = s /\ DOMAIN s = Q
      BY <1>b, <2>4, <2>5, <2>6, <3>1
    <3>3. \A n \in P : Bundle[n][1] \in Ids
      BY <2>1
    <3>4. ASSUME <<"prekey_bundle", 0>> \notin spoiled' PROVE BundleKept'
      <4>0. /\ \A n \in P : saved[Bundle[n][1]] = Bundle[n][2]
            /\ \A j \in Ids : saved[j] = NoValue \/ \E n \in P : Bundle[n][1] = j
        BY <1>t, <2>2, <3>4 DEF BundleKept
      <4>1. \A n \in Q : saved'[s[n][1]] = s[n][2]
        BY <2>4, <3>1, <3>3, <4>0
      <4>2. \A j \in Ids : saved'[j] = NoValue \/ \E n \in Q : s[n][1] = j
        BY <2>4, <3>1, <4>0
      <4> QED BY <3>2, <4>1, <4>2 DEF BundleKept
    <3> QED BY <3>2, <3>4 DEF BundleKept
  <2>7. CASE /\ prekey_bundle' \in B!put_failed(prekey_bundle, PREKEY_BUNDLE_KEY, s)
             /\ spoiled' = spoiled \cup {<<"prekey_bundle", 0>>} /\ UNCHANGED saved
    <3>1. <<"prekey_bundle", 0>> \in spoiled'
      BY <2>7
    <3> QED BY <1>c, <2>4, <2>5, <2>7, <3>1
  <2> QED BY <1>2, <2>6, <2>7 DEF remove_pre_key, s
<1>3. CASE UNCHANGED vars \/ replenish_begin \/ replenish_end
  BY <1>3, <1>a DEF vars, keyVars, batch, history, replenish_begin, replenish_end
<1>4. CASE save_signed_pre_key \/ save_kyber_pre_key \/ store_last_resort_kyber_pre_key
  BY <1>4, <1>a DEF save_signed_pre_key, save_kyber_pre_key, store_last_resort_kyber_pre_key,
     store_envelope
<1>5. ASSUME NEW i \in Ids, mark_one_time_used(i) \/ remove_kyber_pre_key(i) PROVE Whole'
  BY <1>5, <1>a DEF mark_one_time_used, remove_kyber_pre_key
<1>6. ASSUME NEW i, NEW ec, NEW base, mark_last_resort_used(i, ec, base) PROVE Whole'
  BY <1>6, <1>a DEF mark_last_resort_used
<1>7. ASSUME NEW q, NEW k, save_identity(q, k) PROVE Whole'
  BY <1>7, <1>a DEF save_identity
<1>8. CASE begin_send_batch \/ commit_send_batch \/ abort_send_batch
  BY <1>8, <1>a DEF begin_send_batch, commit_send_batch, abort_send_batch, Closes, keyVars, history
<1> QED BY <1>1, <1>2, <1>3, <1>4, <1>5, <1>6, <1>7, <1>8 DEF Next

-----------------------------------------------------------------------------
(* Signed and Kyber keys.                                                  *)

(* A signed or Kyber key is stored above every id in use, under a new      *)
(* generation; nothing else is stored over a key.                          *)
LEMMA KeysStep ==
    ASSUME IInv, [Next]_vars
    PROVE  PassAhead' /\ GensRise' /\ LongKept' /\ UsesKnown'
<1> DEFINE Keys == PassAhead /\ GensRise /\ LongKept /\ UsesKnown
<1>t. /\ StoreTypes /\ PassAhead /\ GensRise /\ LongKept /\ UsesKnown
      /\ spoiled \subseteq spoiled' /\ made <= made' /\ made \in Int /\ made' \in Int
  BY Grows DEF IInv, StoreTypes
<1>i. \A i \in Ids : i \in Int
  BY DEF Ids
<1>l. \A i \in Ids : Loads(i) =>
      kyber_prekey[i] \in KyberStored /\ kyber_prekey[i].gen \in Gens /\ kyber_prekey[i].gen \in Int
  BY <1>t DEF StoreTypes, Loads, KyberStored, Gens
(* The keys are left alone. *)
<1>a. ASSUME UNCHANGED <<signed_prekey, kyber_prekey, kyber_meta, longLived, used, lastBase>>,
             PassAhead'
      PROVE  Keys'
  <2>1. GensRise'
    <3>1. \A i \in Ids : Loads(i)' = Loads(i)
      BY <1>a DEF Loads
    <3> QED BY <1>a, <1>t, <1>l, <3>1 DEF GensRise
  <2>2. LongKept'
    BY <1>a, <1>t DEF LongKept
  <2>3. UsesKnown'
    <3>1. \A i \in Ids : Loads(i)' = Loads(i)
      BY <1>a DEF Loads
    <3>2. \A g \in Gens : g \in Int
      BY DEF Gens
    <3>3. \A g \in used' : g <= made'
      <4>1. used \subseteq Gens
        BY DEF IInv, UsesKnown
      <4> QED BY <1>a, <1>t, <3>2, <4>1 DEF UsesKnown
    <3>4. \A g \in Gens, ec \in Ids : lastBase'[<<g, ec>>] # NoValue => g <= made'
      BY <1>a, <1>t, <3>2 DEF UsesKnown
    <3> QED BY <1>a, <1>t, <3>1, <3>3, <3>4 DEF UsesKnown
  <2> QED BY <1>a, <2>1, <2>2, <2>3
<1>0. CASE UNCHANGED vars
  BY <1>0, <1>a, <1>t DEF vars, keyVars, batch, history, PassAhead
<1>1. CASE replenish_begin
  <2>1. /\ pass'.signed = NextAfter(Listed(signed_prekey))
        /\ pass'.pq = NextAfter(Listed(kyber_prekey))
        /\ UNCHANGED <<signed_prekey, kyber_prekey, kyber_meta, longLived, used, lastBase>>
    BY <1>1 DEF replenish_begin, next_signed_pre_key_id, next_pq_pre_key_id, keyVars, history
  <2>2. DOMAIN signed_prekey = Ids /\ DOMAIN kyber_prekey = Ids
    BY <1>t DEF StoreTypes
  <2>3. Listed(signed_prekey) \in SUBSET Ids /\ Listed(kyber_prekey) \in SUBSET Ids
    BY <2>2 DEF Listed
  <2>4. /\ \A i \in Listed(signed_prekey) : i < pass'.signed
        /\ \A i \in Listed(kyber_prekey) : i < pass'.pq
    BY <2>1, <2>3, NextAfterIs
  <2>5. PassAhead'
    BY <2>1, <2>2, <2>4 DEF PassAhead, Listed
  <2> QED BY <1>a, <2>1, <2>5
<1>2. CASE replenish_end
  BY <1>2, <1>a DEF replenish_end, keyVars, history, PassAhead
<1>3. CASE save_pre_key
  <2>1. pass \in Pass /\ pass # NoPass
    BY <1>3, Generating DEF save_pre_key, Generates
  <2>2. PassAhead'
    BY <1>3, <1>t, <2>1 DEF save_pre_key, PassAhead, Pass
  <2> QED BY <1>3, <1>a, <2>2 DEF save_pre_key
<1>4. CASE save_signed_pre_key
  <2> DEFINE n == pass.signed
  <2>0. pass \in Pass /\ pass # NoPass /\ n \in Ids /\ made + 1 \in Gens
    BY <1>4, Generating DEF save_signed_pre_key, Generates
  <2>1. signed_prekey[n] = NoValue /\ \A i \in Ids : signed_prekey[i] # NoValue => i < n
    BY <1>t, <1>i, <2>0 DEF PassAhead
  <2>2. /\ \A i \in Ids : i # n => signed_prekey'[i] = signed_prekey[i]
        /\ UNCHANGED <<kyber_prekey, kyber_meta, used, lastBase>>
        /\ \/ /\ signed_prekey'[n] = made + 1 /\ pass' = [pass EXCEPT !.signed = n + 1]
              /\ longLived' = longLived \cup {<<"signed_prekey", n, made + 1>>}
           \/ pass' = NoPass /\ UNCHANGED longLived
    BY <1>4, <1>t, <2>0 DEF save_signed_pre_key, StoreTypes, B!put_ok, B!put_failed
  <2> HIDE DEF n
  <2>3. PassAhead'
    <3>1. CASE pass' = NoPass
      BY <3>1 DEF PassAhead
    <3>2. CASE pass' = [pass EXCEPT !.signed = n + 1]
      <4>1. pass'.signed = n + 1 /\ pass'.pq = pass.pq
        BY <2>0, <3>2 DEF Pass
      <4>2. \A i \in Ids : signed_prekey'[i] # NoValue => i < n + 1
        BY <1>i, <2>0, <2>1, <2>2
      <4> QED BY <1>t, <2>0, <2>2, <4>1, <4>2 DEF PassAhead
    <3> QED BY <2>2, <3>1, <3>2
  <2>4. LongKept'
    <3>1. ASSUME NEW k \in longLived
          PROVE IF k[1] = "signed_prekey" THEN signed_prekey'[k[2]] = k[3]
                ELSE kyber_prekey'[k[2]] = [gen |-> k[3], is_last_resort |-> TRUE]
      <4>1. k[2] \in Ids /\ k[3] \in Gens /\ k[3] # NoValue
        BY <1>t, Markers DEF LongKept
      <4> QED BY <1>t, <2>1, <2>2, <4>1 DEF LongKept
    <3>2. CASE longLived' = longLived
      BY <1>t, <3>1, <3>2 DEF LongKept
    <3>3. CASE /\ longLived' = longLived \cup {<<"signed_prekey", n, made + 1>>}
               /\ signed_prekey'[n] = made + 1
      BY <1>t, <2>0, <3>1, <3>3 DEF LongKept
    <3> QED BY <2>2, <3>2, <3>3
  <2>5. \A i \in Ids : Loads(i)' = Loads(i)
    BY <2>2 DEF Loads
  <2>6. GensRise'
    BY <1>t, <1>l, <2>2, <2>5 DEF GensRise
  <2>7. UsesKnown'
    BY <1>t, <2>2, <2>5 DEF UsesKnown, Gens
  <2> QED BY <2>3, <2>4, <2>6, <2>7
<1>5. ASSUME NEW last \in BOOLEAN, store_envelope(last) PROVE Keys'
  <2>g. pass \in Pass /\ pass # NoPass /\ pass.pq \in Ids /\ made + 1 \in Gens /\ made' = made + 1
    BY <1>5, Generating DEF store_envelope, Generates
  <2>p. PICK n \in Ids, g \in Gens : n = pass.pq /\ g = made + 1
    BY <2>g
  <2> DEFINE env == [gen |-> g, is_last_resort |-> last]
  <2>0. pass \in Pass /\ pass # NoPass /\ n = pass.pq /\ g \in Int /\ g > made /\ made' = g
    BY <1>t, <2>g, <2>p
  <2>1. kyber_prekey[n] = NoValue /\ \A i \in Ids : kyber_prekey[i] # NoValue => i < n
    BY <1>t, <1>i, <2>0 DEF PassAhead
  <2>2. /\ \A i \in Ids : i # n => kyber_prekey'[i] = kyber_prekey[i]
        /\ UNCHANGED <<signed_prekey, kyber_meta, used, lastBase>>
        /\ \/ /\ kyber_prekey'[n] = env /\ pass' = [pass EXCEPT !.pq = n + 1]
              /\ longLived' = IF last THEN longLived \cup {<<"kyber_prekey", n, g>>} ELSE longLived
           \/ /\ kyber_prekey'[n] \in {NoValue, Torn, env} /\ pass' = NoPass
              /\ UNCHANGED longLived
    BY <1>5, <1>t, <2>p, <2>1 DEF store_envelope, StoreTypes, B!put_ok, B!put_failed
  <2>3. env \in KyberStored /\ env.gen = g /\ env.is_last_resort = last
    BY <2>0 DEF KyberStored
  <2>4. last => env = [gen |-> g, is_last_resort |-> TRUE]
    OBVIOUS
  <2> HIDE DEF env
  <2>5. \A i \in Ids : i # n => (Loads(i)' <=> Loads(i)) /\ (Loads(i) => i < n)
    BY <2>1, <2>2 DEF Loads
  <2>6. Loads(n)' => kyber_prekey'[n] = env
    BY <2>2 DEF Loads
  <2>7. PassAhead'
    <3>1. CASE pass' = NoPass
      BY <3>1 DEF PassAhead
    <3>2. CASE pass' = [pass EXCEPT !.pq = n + 1]
      <4>1. pass'.pq = n + 1 /\ pass'.signed = pass.signed
        BY <2>0, <3>2 DEF Pass
      <4>2. \A i \in Ids : kyber_prekey'[i] # NoValue => i < n + 1
        BY <1>i, <2>0, <2>1, <2>2
      <4> QED BY <1>t, <2>0, <2>2, <4>1, <4>2 DEF PassAhead
    <3> QED BY <2>2, <3>1, <3>2
  <2>8. GensRise'
    <3>1. ASSUME NEW i \in Ids, Loads(i)'
          PROVE kyber_prekey'[i].gen <= made' /\ (i # n => kyber_prekey'[i].gen < g)
      <4>1. CASE i = n
        BY <2>0, <2>3, <2>6, <3>1, <4>1
      <4>2. CASE i # n
        BY <1>t, <1>l, <2>0, <2>2, <2>5, <3>1, <4>2 DEF GensRise
      <4> QED BY <4>1, <4>2
    <3>2. ASSUME NEW i \in Ids, NEW j \in Ids, Loads(i)', Loads(j)', i < j
          PROVE  kyber_prekey'[i].gen < kyber_prekey'[j].gen
      <4>1. i # n
        BY <1>i, <2>0, <2>5, <3>2
      <4>2. CASE j = n
        BY <2>3, <2>6, <3>1, <3>2, <4>1, <4>2
      <4>3. CASE j # n
        BY <1>t, <2>2, <2>5, <3>2, <4>1, <4>3 DEF GensRise
      <4> QED BY <4>2, <4>3
    <3> QED BY <3>1, <3>2 DEF GensRise
  <2>9. LongKept'
    <3>1. ASSUME NEW k \in longLived
          PROVE IF k[1] = "signed_prekey" THEN signed_prekey'[k[2]] = k[3]
                ELSE kyber_prekey'[k[2]] = [gen |-> k[3], is_last_resort |-> TRUE]
      <4>1. k[2] \in Ids /\ k[3] \in Gens
        BY <1>t DEF LongKept
      <4>2. [gen |-> k[3], is_last_resort |-> TRUE] # NoValue
        BY <4>1, Markers DEF KyberStored
      <4>3. CASE k[1] = "signed_prekey"
        BY <1>t, <2>2, <4>3 DEF LongKept
      <4>4. CASE k[1] # "signed_prekey"
        <5>1. kyber_prekey[k[2]] = [gen |-> k[3], is_last_resort |-> TRUE]
          BY <1>t, <4>4 DEF LongKept
        <5>2. k[2] # n
          BY <2>1, <4>2, <5>1
        <5> QED BY <2>2, <4>1, <4>4, <5>1, <5>2
      <4> QED BY <4>3, <4>4
    <3>2. CASE longLived' = longLived
      BY <1>t, <3>1, <3>2 DEF LongKept
    <3>3. CASE /\ longLived' = longLived \cup {<<"kyber_prekey", n, g>>} /\ last
               /\ kyber_prekey'[n] = env
      <4> DEFINE e == <<"kyber_prekey", n, g>>
      <4>1. /\ e \in {"signed_prekey", "kyber_prekey"} \X Ids \X Gens /\ e[1] # "signed_prekey"
            /\ e[2] = n /\ e[3] = g
        OBVIOUS
      <4>2. kyber_prekey'[n] = [gen |-> g, is_last_resort |-> TRUE]
        BY <2>4, <3>3
      <4> HIDE DEF e
      <4>3. longLived' = longLived \cup {e}
        BY <3>3 DEF e
      <4> QED BY <1>t, <3>1, <4>1, <4>2, <4>3 DEF LongKept
    <3> QED BY <2>2, <3>2, <3>3
  <2>10. UsesKnown'
    <3>1. \A h \in Gens : h \in Int
      BY DEF Gens
    <3>2. used \subseteq Gens /\ g \notin used /\ \A ec \in Ids : lastBase[<<g, ec>>] = NoValue
      BY <1>t, <2>0 DEF UsesKnown
    <3>3. /\ \A h \in Gens, ec \in Ids : lastBase'[<<h, ec>>] # NoValue => h <= made'
          /\ \A h \in used' : h <= made'
      BY <1>t, <2>0, <2>2, <3>1, <3>2 DEF UsesKnown
    <3>4. ASSUME NEW i \in Ids, Loads(i)' PROVE kyber_prekey'[i].gen \notin used'
      BY <1>t, <2>2, <2>3, <2>5, <2>6, <3>2, <3>4 DEF UsesKnown
    <3>5. ASSUME NEW i \in Ids, NEW ec \in Ids, Loads(i)', <<"kyber_meta", i, ec>> \notin spoiled'
          PROVE  lastBase'[<<kyber_prekey'[i].gen, ec>>] \in {NoValue, kyber_meta'[<<i, ec>>]}
      <4>1. CASE i = n
        BY <2>2, <2>3, <2>6, <3>2, <3>5, <4>1
      <4>2. CASE i # n
        BY <1>t, <2>2, <2>5, <3>5, <4>2 DEF UsesKnown
      <4> QED BY <4>1, <4>2
    <3> QED BY <2>2, <3>2, <3>3, <3>4, <3>5 DEF UsesKnown
  <2> QED BY <2>7, <2>8, <2>9, <2>10
<1>6. ASSUME NEW i \in Ids, remove_pre_key(i) PROVE Keys'
  BY <1>6, <1>a, <1>t DEF remove_pre_key, PassAhead
(* A Kyber key is deleted. *)
<1>d. ASSUME NEW n \in Ids, kyber_prekey' = B!delete_ok(kyber_prekey, n),
             UNCHANGED <<signed_prekey, kyber_meta, lastBase, pass, made>>
      PROVE  /\ PassAhead' /\ GensRise'
             /\ \A i \in Ids : i # n => kyber_prekey'[i] = kyber_prekey[i]
             /\ \A i \in Ids : Loads(i)' => Loads(i) /\ i # n /\ kyber_prekey'[i] = kyber_prekey[i]
  <2>1. kyber_prekey'[n] = NoValue /\ \A i \in Ids : i # n => kyber_prekey'[i] = kyber_prekey[i]
    BY <1>d, <1>t DEF StoreTypes, B!delete_ok
  <2>2. \A i \in Ids : Loads(i)' => Loads(i) /\ i # n /\ kyber_prekey'[i] = kyber_prekey[i]
    BY <2>1 DEF Loads
  <2>3. PassAhead'
    BY <1>d, <1>t, <2>1 DEF PassAhead
  <2>4. GensRise'
    BY <1>d, <1>t, <2>2 DEF GensRise
  <2> QED BY <2>1, <2>2, <2>3, <2>4
<1>7. ASSUME NEW n \in Ids, mark_one_time_used(n) PROVE Keys'
  <2>k. CASE UNCHANGED <<kyber_prekey, used>>
    BY <1>7, <1>a, <1>t, <2>k DEF mark_one_time_used, PassAhead
  <2> SUFFICES ASSUME kyber_prekey' = B!delete_ok(kyber_prekey, n),
                      used' \in {used, used \cup {kyber_prekey[n].gen}}
               PROVE  Keys'
    BY <1>7, <2>k DEF mark_one_time_used, B!delete_failed
  <2>0. /\ Loads(n) /\ ~kyber_prekey[n].is_last_resort
        /\ kyber_prekey' = B!delete_ok(kyber_prekey, n)
        /\ UNCHANGED <<signed_prekey, kyber_meta, lastBase, pass, made, longLived, spoiled>>
    BY <1>7 DEF mark_one_time_used
  <2>1. /\ PassAhead' /\ GensRise'
        /\ \A i \in Ids : i # n => kyber_prekey'[i] = kyber_prekey[i]
        /\ \A i \in Ids : Loads(i)' => Loads(i) /\ i # n /\ kyber_prekey'[i] = kyber_prekey[i]
    BY <1>d, <2>0
  <2>2. LongKept'
    <3>1. ASSUME NEW k \in longLived, k[1] # "signed_prekey" PROVE k[2] \in Ids /\ k[2] # n
      <4>1. k[2] \in Ids /\ kyber_prekey[k[2]] = [gen |-> k[3], is_last_resort |-> TRUE]
        BY <1>t, <3>1 DEF LongKept
      <4>2. kyber_prekey[k[2]].is_last_resort = TRUE
        BY <4>1
      <4> QED BY <2>0, <4>1, <4>2
    <3> QED BY <1>t, <2>0, <2>1, <3>1 DEF LongKept
  <2>3. \A i \in Ids : Loads(i)' => kyber_prekey'[i].gen # kyber_prekey[n].gen
    BY <1>t, <1>l, <1>i, <2>0, <2>1 DEF GensRise
  <2>4. kyber_prekey[n].gen \in Gens /\ kyber_prekey[n].gen <= made
    BY <1>t, <1>l, <2>0 DEF GensRise
  <2>5. UsesKnown'
    BY <1>t, <2>0, <2>1, <2>3, <2>4 DEF UsesKnown
  <2> QED BY <2>1, <2>2, <2>5
<1>8. ASSUME NEW n \in Ids, remove_kyber_pre_key(n) PROVE Keys'
  <2>0. /\ kyber_prekey' = B!delete_ok(kyber_prekey, n)
        /\ longLived' = {k \in longLived : ~(k[1] = "kyber_prekey" /\ k[2] = n)}
        /\ UNCHANGED <<signed_prekey, kyber_meta, lastBase, pass, made, used, spoiled>>
    BY <1>8 DEF remove_kyber_pre_key
  <2>1. /\ PassAhead' /\ GensRise'
        /\ \A i \in Ids : i # n => kyber_prekey'[i] = kyber_prekey[i]
        /\ \A i \in Ids : Loads(i)' => Loads(i) /\ i # n /\ kyber_prekey'[i] = kyber_prekey[i]
    BY <1>d, <2>0
  <2>2. LongKept'
    <3>1. ASSUME NEW k \in longLived', k[1] # "signed_prekey" PROVE k[2] \in Ids /\ k[2] # n
      BY <1>t, <2>0, <3>1 DEF LongKept
    <3> QED BY <1>t, <2>0, <2>1, <3>1 DEF LongKept
  <2>3. UsesKnown'
    BY <1>t, <2>0, <2>1 DEF UsesKnown
  <2> QED BY <2>1, <2>2, <2>3
<1>9. ASSUME NEW n \in Ids, NEW base \in BaseKeys, NEW ec \in Listed(signed_prekey),
             mark_last_resort_used(n, ec, base)
      PROVE  Keys'
  <2>0. /\ ec \in Ids /\ Loads(n) /\ kyber_prekey[n].gen \in Gens /\ kyber_prekey[n].gen <= made
        /\ UNCHANGED <<signed_prekey, kyber_prekey, pass, made, longLived, used>>
    BY <1>9, <1>t, <1>l DEF mark_last_resort_used, Accepts, StoreTypes, Listed, GensRise
  <2> DEFINE g == kyber_prekey[n].gen
  <2>1. /\ \A i, e \in Ids : i # n \/ e # ec => kyber_meta'[<<i, e>>] = kyber_meta[<<i, e>>]
        /\ \A h \in Gens : \A e \in Ids : h # g \/ e # ec =>
             lastBase'[<<h, e>>] = lastBase[<<h, e>>]
        /\ \/ kyber_meta'[<<n, ec>>] = base /\ lastBase'[<<g, ec>>] = base
           \/ <<"kyber_meta", n, ec>> \in spoiled' /\ UNCHANGED lastBase
    BY <1>9, <1>t, <2>0 DEF mark_last_resort_used, StoreTypes, B!put_ok, B!put_failed
  <2>2. \A i \in Ids : Loads(i)' = Loads(i)
    BY <2>0 DEF Loads
  <2>3. PassAhead' /\ GensRise' /\ LongKept'
    BY <1>t, <2>0, <2>2 DEF PassAhead, GensRise, LongKept
  <2>4. \A i \in Ids : Loads(i) /\ i # n => kyber_prekey[i].gen \in Gens /\ kyber_prekey[i].gen # g
    BY <1>t, <1>l, <1>i, <2>0 DEF GensRise
  <2> HIDE DEF g
  <2>5. ASSUME NEW i \in Ids, NEW e \in Ids, Loads(i), <<"kyber_meta", i, e>> \notin spoiled'
        PROVE  lastBase'[<<kyber_prekey[i].gen, e>>] \in {NoValue, kyber_meta'[<<i, e>>]}
    <3>1. lastBase[<<kyber_prekey[i].gen, e>>] \in {NoValue, kyber_meta[<<i, e>>]}
      BY <1>t, <2>5 DEF UsesKnown
    <3>2. CASE i = n /\ e = ec
      BY <2>1, <2>5, <3>2 DEF g
    <3>3. CASE i # n \/ e # ec
      <4>1. kyber_prekey[i].gen \in Gens /\ (kyber_prekey[i].gen # g \/ e # ec)
        BY <1>l, <2>4, <2>5, <3>3
      <4> QED BY <2>1, <3>1, <3>3, <4>1
    <3> QED BY <3>2, <3>3
  <2>6. \A h \in Gens, e \in Ids : lastBase'[<<h, e>>] # NoValue => h <= made
    BY <1>t, <2>0, <2>1 DEF UsesKnown, g
  <2>7. UsesKnown'
    BY <1>t, <2>0, <2>2, <2>5, <2>6 DEF UsesKnown
  <2> QED BY <2>3, <2>7
<1>10. ASSUME NEW q \in Peers, NEW k \in PeerKeys, save_identity(q, k) PROVE Keys'
  BY <1>10, <1>a, <1>t DEF save_identity, PassAhead
<1>11. CASE begin_send_batch \/ commit_send_batch \/ abort_send_batch
  <2>1. UNCHANGED <<signed_prekey, kyber_prekey, kyber_meta, longLived, used, lastBase, pass>>
    BY <1>11 DEF begin_send_batch, commit_send_batch, abort_send_batch, Closes, keyVars, history
  <2> QED BY <1>a, <1>t, <2>1 DEF PassAhead
<1> QED
  BY <1>0, <1>1, <1>2, <1>3, <1>4, <1>5, <1>6, <1>7, <1>8, <1>9, <1>10, <1>11
     DEF Next, save_kyber_pre_key, store_last_resort_kyber_pre_key

-----------------------------------------------------------------------------
(* Peer identities.                                                        *)

(* save_identity after is_trusted_identity never replaces a pinned key,    *)
(* and closing a batch changes no identity that it did not spoil.          *)
LEMMA IdentityStep ==
    ASSUME IInv, [Next]_vars
    PROVE  IdentityPinned'
<1>t. StoreTypes /\ IdentityPinned /\ spoiled \subseteq spoiled'
  BY Grows DEF IInv
<1>a. ASSUME UNCHANGED <<identity, buffered, pinned, policy>> PROVE IdentityPinned'
  BY <1>a, <1>t DEF IdentityPinned, get_identity
<1>1. ASSUME NEW q \in Peers, NEW k \in PeerKeys, save_identity(q, k) PROVE IdentityPinned'
  <2>0. is_trusted_identity(q, k) /\ UNCHANGED policy
    BY <1>1 DEF save_identity
  <2>k. k # NoValue /\ (~sending => buffered[q] = NoValue)
    BY <1>t, Markers DEF StoreTypes, NothingBuffered
  <2>1. /\ \A p \in Peers : p # q => /\ identity'[p] = identity[p] /\ buffered'[p] = buffered[p]
                                     /\ pinned'[p] = pinned[p]
        /\ \/ /\ pinned'[q] = IF pinned[q] = NoValue THEN k ELSE pinned[q]
              /\ IF sending THEN buffered'[q] = k
                 ELSE identity'[q] = k /\ buffered'[q] = buffered[q]
           \/ <<"identity", q>> \in spoiled'
    BY <1>1, <1>t DEF save_identity, StoreTypes, B!put_ok, B!put_failed
  <2>i. \/ /\ pinned'[q] = IF pinned[q] = NoValue THEN k ELSE pinned[q]
           /\ get_identity(q)' = k
        \/ <<"identity", q>> \in spoiled'
    BY <2>1, <2>k DEF get_identity
  <2>2. ASSUME policy' = "Reject", NEW p \in Peers, <<"identity", p>> \notin spoiled'
        PROVE  get_identity(p)' = pinned'[p]
    <3>1. get_identity(p) = pinned[p] /\ policy = "Reject"
      BY <1>t, <2>0, <2>2 DEF IdentityPinned
    <3>2. CASE p = q
      <4>1. get_identity(q) \in {k, NoValue}
        BY <2>0, <3>1 DEF is_trusted_identity
      <4> QED BY <2>i, <2>2, <3>1, <3>2, <4>1
    <3>3. CASE p # q
      BY <2>1, <3>1, <3>3 DEF get_identity
    <3> QED BY <3>2, <3>3
  <2> QED BY <2>2 DEF IdentityPinned
<1>6. CASE commit_send_batch \/ abort_send_batch
  <2>1. /\ UNCHANGED <<pinned, policy>> /\ buffered' = NothingBuffered
    BY <1>6 DEF commit_send_batch, abort_send_batch, Closes
  <2>2. ASSUME NEW p \in Peers, <<"identity", p>> \notin spoiled'
        PROVE  identity'[p] = get_identity(p)
    <3>1. CASE abort_send_batch
      <4>1. ~(p \in Held /\ buffered[p] # identity[p])
        BY <2>2, <3>1 DEF abort_send_batch
      <4> QED BY <3>1, <4>1 DEF abort_send_batch, Held, get_identity
    <3>2. CASE commit_send_batch
      <4>1. PICK failed \in SUBSET Held :
                /\ \E left : identity' = [x \in Peers |-> IF x \in failed THEN left[x]
                                                          ELSE get_identity(x)]
                /\ spoiled' = spoiled \cup {<<"identity", x>> : x \in failed}
        BY <3>2 DEF commit_send_batch
      <4>2. p \notin failed
        BY <2>2, <4>1
      <4> QED BY <4>1, <4>2
    <3> QED BY <1>6, <3>1, <3>2
  <2>3. \A p \in Peers : get_identity(p)' = identity'[p]
    BY <2>1 DEF get_identity, NothingBuffered
  <2> QED BY <1>t, <2>1, <2>2, <2>3 DEF IdentityPinned
<1>7. CASE begin_send_batch
  BY <1>7, <1>a DEF begin_send_batch, keyVars, history
<1>2. CASE UNCHANGED vars \/ replenish_begin \/ replenish_end
  BY <1>2, <1>a DEF vars, keyVars, batch, history, replenish_begin, replenish_end
<1>3. CASE save_pre_key \/ save_signed_pre_key \/ save_kyber_pre_key
           \/ store_last_resort_kyber_pre_key
  BY <1>3, <1>a DEF save_pre_key, save_signed_pre_key, save_kyber_pre_key,
     store_last_resort_kyber_pre_key, store_envelope, batch
<1>4. ASSUME NEW i \in Ids, remove_pre_key(i) \/ mark_one_time_used(i) \/ remove_kyber_pre_key(i)
      PROVE  IdentityPinned'
  BY <1>4, <1>a DEF remove_pre_key, mark_one_time_used, remove_kyber_pre_key, batch
<1>5. ASSUME NEW i, NEW ec, NEW base, mark_last_resort_used(i, ec, base) PROVE IdentityPinned'
  BY <1>5, <1>a DEF mark_last_resort_used, batch
<1> QED BY <1>1, <1>2, <1>3, <1>4, <1>5, <1>6, <1>7 DEF Next

-----------------------------------------------------------------------------
(* The theorems.                                                           *)

(* The inductive invariant holds in every reachable state. *)
THEOREM Invariance == Spec => []IInv
<1>1. Init => IInv
  <2> SUFFICES ASSUME Init PROVE IInv
    OBVIOUS
  <2>b. NothingBuffered \in [Peers -> PeerKeys \cup {NoValue}]
    BY DEF NothingBuffered
  <2>1. StoreTypes
    <3>1. sending \in BOOLEAN /\ buffered \in [Peers -> PeerKeys \cup {NoValue}]
      BY <2>b, Zenon DEF Init
    <3>2. buffered = NothingBuffered /\ made \in 0..MaxGen /\ pass \in Pass \cup {NoPass}
      BY BoundAssumption DEF Init
    <3>3. /\ signed_prekey \in [Ids -> Gens \cup {NoValue, Torn}]
          /\ kyber_prekey \in [Ids -> KyberStored \cup {NoValue, Torn}]
          /\ kyber_meta \in [Ids \X Ids -> BaseKeys \cup {NoValue, Torn}]
          /\ identity \in [Peers -> PeerKeys \cup {NoValue, Torn}]
          /\ lastBase \in [Gens \X Ids -> BaseKeys \cup {NoValue}]
          /\ pinned \in [Peers -> PeerKeys \cup {NoValue}]
      BY DEF Init
    <3> QED BY <3>1, <3>2, <3>3 DEF StoreTypes
  <2>2. /\ prekey_bundle[PREKEY_BUNDLE_KEY] = NoValue /\ Bundle = EmptyBundle
        /\ DOMAIN EmptyBundle = {}
    BY DEF Init, Bundle, EmptyBundle
  <2>3. BundleTypes
    BY <2>2 DEF Init, BundleTypes
  <2>4. BundleKept
    BY <2>2, Markers DEF Init, BundleKept, BundleReads
  <2>5. \A i \in Ids : ~Loads(i)
    BY DEF Init, Loads
  <2>6. PassAhead /\ GensRise /\ LongKept /\ UsesKnown
    BY <2>5 DEF Init, PassAhead, GensRise, LongKept, UsesKnown
  <2>7. IdentityPinned
    BY DEF Init, IdentityPinned, get_identity, NothingBuffered
  <2> QED BY <2>1, <2>3, <2>4, <2>6, <2>7 DEF IInv
<1>2. IInv /\ [Next]_vars => IInv'
  <2> SUFFICES ASSUME IInv, [Next]_vars PROVE IInv'
    OBVIOUS
  <2>1. StoreTypes'
    BY TypesStep
  <2>2. BundleTypes' /\ BundleKept'
    BY BundleStep
  <2>3. PassAhead' /\ GensRise' /\ LongKept' /\ UsesKnown'
    BY KeysStep
  <2>4. IdentityPinned'
    BY IdentityStep
  <2> QED BY <2>1, <2>2, <2>3, <2>4 DEF IInv
<1> QED BY <1>1, <1>2, PTL DEF Spec

(* The dictionaries hold what their stores write, and the packed bundle    *)
(* never has two entries with one id.                                      *)
THEOREM TypeCorrect == Spec => []TypeOK
<1>1. IInv => TypeOK
  <2> SUFFICES ASSUME IInv PROVE TypeOK
    OBVIOUS
  <2>1. ASSUME BundleReads PROVE \A n \in DOMAIN Bundle : Bundle[n] \in Ids \X Gens
    <3>1. PICK P \in SUBSET (1..made) : Bundle \in [P -> Ids \X Gens]
      BY <2>1, BundleIs
    <3> QED BY <3>1
  <2> QED BY <2>1 DEF IInv, StoreTypes, BundleTypes, BundleReads, TypeOK
<1> QED BY <1>1, Invariance, PTL

(* get_pre_key returns the key saved last and not removed since, as long   *)
(* as no write of the packed bundle failed.                                *)
THEOREM PreKeysKeptHolds == Spec => []PreKeysKept
<1>1. IInv => PreKeysKept
  <2> SUFFICES ASSUME IInv, <<"prekey_bundle", 0>> \notin spoiled, NEW i \in Ids
               PROVE  get_pre_key(i) = saved[i]
    BY DEF PreKeysKept
  <2>1. /\ \A n \in DOMAIN Bundle : saved[Bundle[n][1]] = Bundle[n][2]
        /\ saved[i] = NoValue \/ \E n \in DOMAIN Bundle : Bundle[n][1] = i
        /\ \A m, n \in DOMAIN Bundle : Bundle[m][1] = Bundle[n][1] => m = n
        /\ BundleReads
    BY DEF IInv, BundleKept, BundleTypes
  <2> DEFINE at == {n \in DOMAIN Bundle : Bundle[n][1] = i}
  <2>2. CASE at = {}
    <3>1. get_pre_key(i) = NoValue
      BY <2>2 DEF get_pre_key
    <3> QED BY <2>1, <2>2, <3>1
  <2>3. CASE at # {}
    <3>1. PICK n \in DOMAIN Bundle : Bundle[n][1] = i
      BY <2>3
    <3>2. at = {n}
      BY <2>1, <3>1
    <3>3. n \in Int
      <4>1. PICK P \in SUBSET (1..made) : Bundle \in [P -> Ids \X Gens]
        BY <2>1, BundleIs
      <4> QED BY <3>1, <4>1
    <3>4. Min({n}) = n
      BY <3>3 DEF Min
    <3>5. get_pre_key(i) = Bundle[n][2]
      BY <2>3, <3>2, <3>4 DEF get_pre_key
    <3> QED BY <2>1, <3>1, <3>5
  <2> QED BY <2>2, <2>3
<1> QED BY <1>1, Invariance, PTL

(* A signed or last-resort key stays readable until it is removed, and the *)
(* last-resort key the store names is the newest.                          *)
THEOREM LongLivedKeptHolds == Spec => []LongLivedKept
<1>1. IInv => LongLivedKept
  <2> SUFFICES ASSUME IInv PROVE LongLivedKept
    OBVIOUS
  <2>t. LongKept /\ GensRise /\ StoreTypes
    BY DEF IInv
  <2>1. ASSUME NEW k \in longLived, k[1] = "kyber_prekey"
        PROVE  kyber_prekey[last_resort_kyber_prekey_id].gen >= k[3]
    <3>1. /\ k[2] \in Ids /\ k[3] \in Gens
          /\ kyber_prekey[k[2]] = [gen |-> k[3], is_last_resort |-> TRUE]
      BY <2>t, <2>1 DEF LongKept
    <3>2. kyber_prekey[k[2]] \in KyberStored
      BY <3>1 DEF KyberStored
    <3>a. PICK r \in KyberStored : r = kyber_prekey[k[2]]
               /\ r = [gen |-> k[3], is_last_resort |-> TRUE]
      BY <3>1, <3>2
    <3>b. r.is_last_resort /\ r.gen = k[3]
      BY <3>a
    <3>c. Loads(k[2])
      BY <3>2, Markers DEF Loads
    <3>3. Loads(k[2]) /\ kyber_prekey[k[2]].is_last_resort /\ kyber_prekey[k[2]].gen = k[3]
      BY <3>a, <3>b, <3>c
    <3>4. k[2] \in LastResort
      BY <3>1, <3>3 DEF LastResort
    <3>5. LastResort \cup {0} \in SUBSET (0..MaxId) /\ LastResort \cup {0} # {} /\ MaxId \in Nat
      BY BoundAssumption DEF LastResort, Ids
    <3>6. /\ Max(LastResort \cup {0}) \in LastResort \cup {0}
          /\ \A y \in LastResort \cup {0} : y <= Max(LastResort \cup {0})
      BY ONLY <3>5, MaxIs
    <3>7. PICK x \in LastResort \cup {0} : x = last_resort_kyber_prekey_id /\ k[2] <= x
      BY <3>4, <3>6 DEF last_resort_kyber_prekey_id
    <3>8. x \in Ids /\ Loads(x) /\ (k[2] < x \/ k[2] = x)
      BY <3>1, <3>7 DEF LastResort, Ids
    <3>9. kyber_prekey[x] \in KyberStored /\ kyber_prekey[x].gen \in Int /\ k[3] \in Int
      BY <2>t, <3>1, <3>8 DEF StoreTypes, Loads, KyberStored, Gens
    <3> QED BY <2>t, <3>1, <3>3, <3>7, <3>8, <3>9 DEF GensRise
  <2> QED BY <2>t, <2>1 DEF LongLivedKept, LongKept
<1> QED BY <1>1, Invariance, PTL

(* mark_kyber_pre_key_used never accepts a consumed one-time key again,    *)
(* nor the base key a last-resort key accepted last.                       *)
THEOREM UseAcceptedOnceHolds == Spec => []UseAcceptedOnce
<1>1. IInv => UseAcceptedOnce
  <2> SUFFICES ASSUME IInv, NEW i \in Ids, NEW ec \in Ids, NEW base \in BaseKeys,
                      Accepts(i, ec, base)
               PROVE  IF kyber_prekey[i].is_last_resort
                      THEN lastBase[<<kyber_prekey[i].gen, ec>>] = base =>
                             <<"kyber_meta", i, ec>> \in spoiled
                      ELSE kyber_prekey[i].gen \notin used
    BY DEF UseAcceptedOnce
  <2>1. Loads(i) /\ UsesKnown /\ base # NoValue
    BY Markers DEF Accepts, IInv
  <2>2. CASE kyber_prekey[i].is_last_resort
    BY <2>1, <2>2 DEF Accepts, UsesKnown
  <2>3. CASE ~kyber_prekey[i].is_last_resort
    BY <2>1, <2>3 DEF UsesKnown
  <2> QED BY <2>2, <2>3
<1> QED BY <1>1, Invariance, PTL

(* Under Reject the identity a peer is held to is the first one saved for  *)
(* it, through any sequence of send batches, unless a write of it failed   *)
(* or the batch that was to write it was dropped.                          *)
THEOREM IdentityPinnedHolds == Spec => []IdentityPinned
<1>1. IInv => IdentityPinned
  BY DEF IInv
<1> QED BY <1>1, Invariance, PTL
=============================================================================
