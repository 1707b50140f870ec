---------------------------- MODULE ContentStore ----------------------------
(***************************************************************************)
(* The records PddbStore keeps one by one: contacts, groups, profiles,     *)
(* sticker packs and messages by thread (presage-store-pddb/src/           *)
(* content.rs), the account's own records (state.rs), sender keys          *)
(* (protocol/sender_key_store.rs) and Store::clear (store.rs), over the    *)
(* IPC calls of PddbClient.  A method makes its calls one after the other  *)
(* and returns at the first error, except that a listing hands out an      *)
(* error in the place of each record it could not read.                    *)
(*                                                                         *)
(* Records are told apart by their value; a key is a small number, in a    *)
(* thread's dictionary the timestamp of the message.  Outside a batch      *)
(* BufferingBackend passes the calls on unchanged; inside one they are     *)
(* answered as BufferingBackend and KvTransaction say, and its writes      *)
(* reach the PDDB in commit_writes.                                        *)
(***************************************************************************)
EXTENDS PddbClient, TLC

CONSTANTS
    Threads,    \* the dictionary of each message thread
    MaxOps      \* bound of the model: methods called

(* The dictionaries with a name of their own. *)
NamedDicts ==
    {"state", "contacts", "groups", "group_avatars", "profiles", "profile_keys",
     "profile_avatars", "sticker_packs", "sender_key"}

ASSUME ContentStoreAssumption ==
    /\ Dicts = NamedDicts \cup Threads
    /\ Keys \subseteq Nat /\ IsFiniteSet(Keys)
    /\ MaxOps \in Nat

VARIABLES
    method,     \* the method in progress
    result,     \* what the last one returned
    ops         \* how many have been called

svars == <<method, result, ops>>
vars == <<flash, dicts, mounted, call, ret, method, result, ops>>

NoMethod == [shape |-> "none"]
NoResult == [of |-> "none"]
Failed(of) == [of |-> of, ok |-> FALSE]

(* clear_contents: the dictionaries it drops, in order. *)
ContentsDicts ==
    <<"contacts", "groups", "group_avatars", "profiles", "profile_keys", "profile_avatars">>

(* Store::clear: the state, the contents, then the protocol stores, of     *)
(* which the model keeps the sender keys.                                  *)
ClearedDicts == <<"state">> \o ContentsDicts \o <<"sender_key">>

(* Avatars are handed out as they are, so part of one is taken for all of  *)
(* it; all other records are decoded.  Part of a JSON record, a master key *)
(* or a certificate does not decode.  Part of a sender key may: it is a    *)
(* list of states, and nothing at all is an empty list.                    *)
RawDicts == {"group_avatars", "profile_avatars"}

Decodes(d, c) ==
    IF c \in Values \/ d \in RawDicts THEN {TRUE}
    ELSE IF d = "sender_key" THEN BOOLEAN
    ELSE {FALSE}

Init ==
    /\ flash \in {[a \in Address |-> NoValue],
                  [a \in Address |-> IF a \in LongNames THEN NoValue
                                     ELSE CHOOSE v \in Values : TRUE]}
    /\ CInit
    /\ method = NoMethod
    /\ result = NoResult
    /\ ops = 0

-----------------------------------------------------------------------------
(* A method starts with its first call, resumes when that has returned,    *)
(* makes the next one or returns itself.                                   *)

Start(m, c) ==
    /\ method = NoMethod
    /\ ops < MaxOps
    /\ ops' = ops + 1
    /\ method' = m
    /\ result' = NoResult
    /\ call' = c
    /\ UNCHANGED <<flash, dicts, mounted, ret>>

Resumes(shape) == method.shape = shape /\ Idle

Calls(m, c) ==
    /\ method' = m
    /\ call' = c
    /\ ret' = NoAnswer
    /\ UNCHANGED <<flash, dicts, mounted, result, ops>>

Returns(r) ==
    /\ method' = NoMethod
    /\ result' = r
    /\ ret' = NoAnswer
    /\ UNCHANGED <<flash, dicts, mounted, call, ops>>

-----------------------------------------------------------------------------
(* The shapes of the methods.                                              *)

(* One put. *)
Save(d, k, v) == Start([shape |-> "save"], Put(<<d, k>>, v))

saved == Resumes("save") /\ Returns([of |-> "save", ok |-> ret = Ok])

(* One get, decoded. *)
Load(d, k) == Start([shape |-> "load", dict |-> d, key |-> k], Get(<<d, k>>))

loaded ==
    /\ Resumes("load")
    /\ IF ret = Err THEN Returns(Failed("load"))
       ELSE \E decodes \in IF ret.cell = NoValue THEN {TRUE} ELSE Decodes(method.dict, ret.cell) :
               Returns(IF decodes THEN [of |-> "load", ok |-> TRUE, value |-> ret.cell]
                       ELSE Failed("load"))

(* A get to know whether there was one, then the put or the delete. *)
ProbeThenPut(d, k, v) ==
    Start([shape |-> "probe", then |-> Put(<<d, k>>, v)], Get(<<d, k>>))

ProbeThenDelete(d, k) ==
    Start([shape |-> "probe", then |-> Delete(<<d, k>>)], Get(<<d, k>>))

probed ==
    /\ Resumes("probe")
    /\ IF ret = Err THEN Returns(Failed("change"))
       ELSE Calls([shape |-> "change", existed |-> ret.cell # NoValue], method.then)

changed ==
    /\ Resumes("change")
    /\ Returns(IF ret = Err THEN Failed("change")
               ELSE [of |-> "change", ok |-> TRUE, existed |-> method.existed])

(* list_keys, then a get of every key in turn. *)
List(d, range) ==
    Start([shape |-> "list", dict |-> d, range |-> range, keys |-> <<>>, items |-> <<>>],
          ListKeys(d))

(* The server lists keys in no particular order; messages are sorted by    *)
(* their timestamp.                                                        *)
Orders(d, S) ==
    {keys \in SetToSeqs(S) :
        d \in Threads => \A i, j \in DOMAIN keys : i < j => keys[i] < keys[j]}

listed ==
    /\ Resumes("list")
    /\ IF ret = Err THEN Returns(Failed("list"))
       ELSE \E keys \in Orders(method.dict, ret.keys \cap method.range) :
               IF keys = <<>> THEN Returns([of |-> "list", ok |-> TRUE, items |-> <<>>])
               ELSE Calls([method EXCEPT !.shape = "items", !.keys = keys],
                          Get(<<method.dict, Head(keys)>>))

(* An item that cannot be read or decoded does not end the listing. *)
item ==
    /\ Resumes("items")
    /\ LET got == IF ret # Err /\ ret.cell \in Values THEN ret.cell ELSE Torn
           items == Append(method.items, [key |-> Head(method.keys), value |-> got])
           rest == Tail(method.keys)
       IN  IF rest = <<>> THEN Returns([of |-> "list", ok |-> TRUE, items |-> items])
           ELSE Calls([method EXCEPT !.keys = rest, !.items = items],
                      Get(<<method.dict, Head(rest)>>))

(* delete_dict of one dictionary after the other, to the first error. *)
Wipe(of, todo) ==
    Start([shape |-> "wipe", of |-> of, todo |-> Tail(todo)], DeleteDict(Head(todo)))

wiped_as_far_as_it_goes ==
    /\ Resumes("wipe")
    /\ IF ret = Err \/ method.todo = <<>> THEN Returns([of |-> method.of, ok |-> TRUE])
       ELSE Calls([method EXCEPT !.todo = Tail(@)], DeleteDict(Head(method.todo)))

wiped ==
    /\ Resumes("wipe")
    /\ IF ret = Err THEN Returns(Failed(method.of))
       ELSE IF method.todo = <<>> THEN Returns([of |-> method.of, ok |-> TRUE])
       ELSE Calls([method EXCEPT !.todo = Tail(@)], DeleteDict(Head(method.todo)))

-----------------------------------------------------------------------------
(* The methods.                                                            *)

save_contact(k, v) == Save("contacts", k, v)
contact_by_id(k) == Load("contacts", k)
contacts == List("contacts", Keys)
clear_contacts == Wipe("clear_contacts", <<"contacts">>)

save_group(k, v) == Save("groups", k, v)
group(k) == Load("groups", k)
groups == List("groups", Keys)
save_group_avatar(k, v) == Save("group_avatars", k, v)
group_avatar(k) == Load("group_avatars", k)
clear_groups == Wipe("clear_groups", <<"groups", "group_avatars">>)

save_profile(k, v) == Save("profiles", k, v)
profile(k) == Load("profiles", k)
save_profile_avatar(k, v) == Save("profile_avatars", k, v)
profile_avatar(k) == Load("profile_avatars", k)
upsert_profile_key(k, v) == ProbeThenPut("profile_keys", k, v)
profile_key(k) == Load("profile_keys", k)
clear_profiles == Wipe("clear_profiles", <<"profiles", "profile_keys", "profile_avatars">>)

add_sticker_pack(k, v) == Save("sticker_packs", k, v)
sticker_pack(k) == Load("sticker_packs", k)
remove_sticker_pack(k) == ProbeThenDelete("sticker_packs", k)
sticker_packs == List("sticker_packs", Keys)

(* message_key: the timestamp is the key, whoever wrote the message. *)
save_message(t, timestamp, v) == Save(t, timestamp, v)
delete_message(t, timestamp) == ProbeThenDelete(t, timestamp)
message(t, timestamp) == Load(t, timestamp)
messages(t, first, last) == List(t, first .. last)
clear_thread(t) == Wipe("clear_thread", <<t>>)

clear_contents == Wipe("clear_contents", ContentsDicts)

(* state.rs: one record each, by name. *)
save_state(k, v) == Save("state", k, v)
load_state(k) == Load("state", k)
is_registered(k) == Start([shape |-> "registered"], Get(<<"state", k>>))

(* An error counts as not registered. *)
looked_up ==
    /\ Resumes("registered")
    /\ Returns([of |-> "is_registered", ok |-> ret # Err /\ ret.cell \in Values])

clear_registration == Wipe("clear_registration", <<"state">>)

(* store_master_key(None) *)
forget_master_key(k) == Start([shape |-> "save"], Delete(<<"state", k>>))

store_sender_key(k, v) == Save("sender_key", k, v)
load_sender_key(k) == Load("sender_key", k)

(* Store::clear; the session cache is in SessionStore. *)
clear == Wipe("clear", ClearedDicts)

(* The puts of a batch: put_batch, and one put each when that fails.  The  *)
(* first error is reported when all have been tried.                       *)
commit_writes(b) == Start([shape |-> "commit", todo |-> b, ok |-> TRUE], PutBatch(b))

sent_again ==
    /\ Resumes("commit")
    /\ IF ret = Ok THEN Returns([of |-> "commit", ok |-> TRUE])
       ELSE Calls(method, PutBatch(method.todo))

committed ==
    /\ Resumes("commit")
    /\ IF ret = Ok THEN Returns([of |-> "commit", ok |-> TRUE])
       ELSE Calls([method EXCEPT !.shape = "fallback", !.todo = Tail(@)],
                  Put(Head(method.todo).at, Head(method.todo).value))

fell_back ==
    /\ Resumes("fallback")
    /\ LET ok == method.ok /\ ret = Ok
       IN  IF method.todo = <<>> THEN Returns([of |-> "commit", ok |-> ok])
           ELSE Calls([method EXCEPT !.todo = Tail(@), !.ok = ok],
                      Put(Head(method.todo).at, Head(method.todo).value))

-----------------------------------------------------------------------------

Resume ==
    \/ saved \/ loaded \/ looked_up \/ probed \/ changed \/ listed \/ item \/ wiped
    \/ committed \/ fell_back

ClientRuns == ClientStep /\ UNCHANGED svars

Restart ==
    /\ power_loss
    /\ method' = NoMethod
    /\ result' = NoResult
    /\ UNCHANGED ops

Next ==
    \/ \E k \in Keys, v \in Values :
          \/ save_contact(k, v) \/ save_group(k, v) \/ save_group_avatar(k, v)
          \/ save_profile(k, v) \/ save_profile_avatar(k, v) \/ upsert_profile_key(k, v)
          \/ add_sticker_pack(k, v) \/ save_state(k, v) \/ store_sender_key(k, v)
          \/ \E t \in Threads : save_message(t, k, v)
    \/ \E k \in Keys :
          \/ contact_by_id(k) \/ group(k) \/ group_avatar(k) \/ profile(k) \/ profile_avatar(k)
          \/ profile_key(k) \/ sticker_pack(k) \/ remove_sticker_pack(k)
          \/ load_state(k) \/ is_registered(k) \/ forget_master_key(k) \/ load_sender_key(k)
          \/ \E t \in Threads : message(t, k) \/ delete_message(t, k)
    \/ contacts \/ groups \/ sticker_packs
    \/ \E t \in Threads : clear_thread(t) \/ \E j, k \in Keys : messages(t, j, k)
    \/ clear_contacts \/ clear_groups \/ clear_profiles \/ clear_contents
    \/ clear_registration \/ clear
    \/ \E b \in Batches : commit_writes(b)
    \/ Resume
    \/ ClientRuns
    \/ try_mount /\ UNCHANGED svars
    \/ Restart

(* The executor resumes a method whose call has returned, and the server   *)
(* answers every message, with an error at worst.                          *)
Spec == Init /\ [][Next]_vars /\ WF_vars(Resume \/ ClientRuns)

-----------------------------------------------------------------------------

(* The types of the server's state, of the call and of the method.          *)
TypeOK ==
    /\ \A a \in Address : Whole(flash[a]) \in Cell
    /\ \A a \in Address : flash[a] # NoValue => a[1] \in dicts /\ NameFits(a)
    /\ dicts \subseteq Dicts
    /\ mounted \in BOOLEAN
    /\ CallTypeOK
    /\ ret.kind \in {"ok", "err", "none", "bytes", "keys"}
    /\ method.shape \in {"none", "save", "load", "registered", "probe", "change", "list",
                         "items", "wipe", "commit", "fallback"}
    /\ ops \in 0 .. MaxOps

(* PddbBackend over the IPC client gives what the KvBackend trait promises  *)
(* (lib.rs:113-175): a put replaces the whole old value or fails, whatever  *)
(* the lengths of the two and however the server splits the chunks; a get   *)
(* returns all of a value; a listing all keys; a call that fails or is cut  *)
(* by a power loss has touched nothing else.                                *)
KV == INSTANCE KvBackend WITH
    store <- WholeStore(IF Idle THEN flash ELSE call.before),
    answer <- IF ret.kind = "bytes" THEN Bytes(Whole(ret.cell)) ELSE ret

ImplementsKvBackend == KV!KSpec

(* What a method hands out is what is on flash (content.rs, state.rs): a    *)
(* load that returns Ok gives the whole record or none, never part of one,  *)
(* avatars and sender keys excepted; a listing has every record in range    *)
(* once, messages in ascending order of their timestamps, across the pages  *)
(* and chunks it was read in, and a record that was torn by a failed save   *)
(* costs its own item only.                                                 *)
AnswersAreTrue ==
    [][/\ (method.shape = "load" /\ method' = NoMethod /\ result'.of = "load" /\ result'.ok) =>
            /\ result'.value = flash[<<method.dict, method.key>>]
            /\ \/ result'.value \in Values \cup {NoValue}
               \/ method.dict \in RawDicts \cup {"sender_key"}
       /\ (method.shape \in {"list", "items"} /\ method' = NoMethod
                /\ result'.of = "list" /\ result'.ok) =>
            LET d == method.dict
                items == result'.items
            IN  /\ [i \in DOMAIN items |-> items[i].key] \in Orders(d, KeysIn(d) \cap method.range)
                /\ \A i \in DOMAIN items :
                      items[i].value \in
                         {Torn} \cup (Values \cap {flash[<<d, items[i].key>>]})]_vars

(* A wipe that reports success has left nothing (content.rs, store.rs:      *)
(* "Earlier delete_dict calls have already taken effect; there is no        *)
(* rollback"): after Store::clear returns Ok only messages and sticker      *)
(* packs are still there, however many attempts, failures and restarts it   *)
(* took.                                                                    *)
ClearIsComplete ==
    [][(result' # result /\ result'.of = "clear" /\ result'.ok) =>
          \A a \in Address : flash[a] # NoValue => a[1] \in Threads \cup {"sticker_packs"}]_vars

(* Every method returns: the read, write and listing loops of the client    *)
(* come to an end, and so do the loops over keys, entries and dictionaries. *)
MethodReturns == method # NoMethod ~> method = NoMethod
=============================================================================
