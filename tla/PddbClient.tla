----------------------------- MODULE PddbClient -----------------------------
(***************************************************************************)
(* PddbBackend's calls down to the IPC: presage-store-pddb/src/            *)
(* backend_pddb.rs over xous-pddb-ipc/src/client.rs.  The backend's mutex  *)
(* lets one call run at a time, and each step of it here is one message to *)
(* the PDDB server and its reply: a value is written and read in chunks of *)
(* at most BufLen bytes, key names are listed a page at a time, a batch    *)
(* has to fit one buffer.  Power may be lost between any two messages.     *)
(*                                                                         *)
(* A value is a sequence of bytes, because what the server does to the     *)
(* rest of a longer old value is what put has to get right.  The server is *)
(* outside the repository and is modelled from what client.rs and          *)
(* backend_pddb.rs say of it: a message that fails has had no effect, all  *)
(* of it when only the reply cannot be read (to_original), or part of it   *)
(* in the case of WriteKey (bytes of the chunk), WriteKeyBatch (entries)   *)
(* and DeleteDict (keys).  The token that stands for an open key or a      *)
(* listing is left out.                                                    *)
(***************************************************************************)
EXTENDS PddbBackend, Naturals, SequencesExt

CONSTANTS
    Byte,       \* what values are made of
    Batches,    \* the entry lists put_batch is called with
    LongNames,  \* addresses that break DICT_NAME_LEN or KEY_NAME_LEN
    BufLen,     \* PDDB_BUF_DATA_LEN (4072)
    PageLen,    \* names that fit MAX_PDDBKLISTLEN (4064 bytes)
    BatchLen,   \* MAX_PDDB_WRITE_BATCH_LEN (3800)
    NamesLen    \* bytes of an entry that are not its value

ASSUME LengthAssumption ==
    /\ BufLen \in Nat \ {0} /\ PageLen \in Nat \ {0}
    /\ BatchLen \in Nat /\ NamesLen \in Nat

(* No value is the beginning of another one (the records are JSON or       *)
(* length-framed), so a cut value is never mistaken for a whole one.       *)
ASSUME ValueAssumption ==
    /\ Values # {} /\ Values \subseteq Seq(Byte)
    /\ NoValue \notin Seq(Byte)
    /\ \A v, w \in Values : v # <<>> /\ (IsPrefix(v, w) => v = w)

(* A batch is what was buffered, a HashMap, and is sent only when there is *)
(* something to put.                                                       *)
ASSUME BatchAssumption ==
    /\ Batches \subseteq Seq([at : Address, value : Values]) \ {<<>>}
    /\ \A b \in Batches : \A i, j \in DOMAIN b : b[i].at = b[j].at => i = j

VARIABLES
    flash,      \* server: the bytes of each key, NoValue if there is none
    dicts,      \* server: the dictionaries that exist
    mounted,    \* server: the PDDB has been unlocked since power-on
    call,       \* the call that holds the mutex, and how far it is
    ret         \* what the last call returned

cvars == <<flash, dicts, mounted, call, ret>>

NoCall == [op |-> "none"]
Idle == call = NoCall

Ok == [kind |-> "ok"]
Err == [kind |-> "err"]
NoAnswer == [kind |-> "none"]
Bytes(c) == [kind |-> "bytes", cell |-> c]
KeyNames(S) == [kind |-> "keys", keys |-> S]

CInit ==
    /\ dicts = {a[1] : a \in {b \in Address : flash[b] # NoValue}}
    /\ mounted = FALSE
    /\ call = NoCall
    /\ ret = NoAnswer

-----------------------------------------------------------------------------
(* The calls, as they take the mutex.  before is the flash they found.     *)

Get(a) == [op |-> "get", pc |-> "open", at |-> a, bytes |-> <<>>, before |-> flash]

Put(a, v) == [op |-> "put", pc |-> "delete", at |-> a, value |-> v, pos |-> 0, before |-> flash]

PutBatch(b) == [op |-> "put_batch", entries |-> b, before |-> flash]

Delete(a) == [op |-> "delete", at |-> a, before |-> flash]

DeleteDict(d) == [op |-> "delete_dict", dict |-> d, before |-> flash]

ListKeys(d) ==
    [op |-> "list_keys", pc |-> "count", dict |-> d, left |-> {}, keys |-> {}, before |-> flash]

(* The method returns: the mutex is released, and so is the handle.        *)
Return(r) == call' = NoCall /\ ret' = r

(* Any error of an IPC, and NotMounted before the PDDB is unlocked.        *)
Fails == Return(Err)

At(op, pc) == call.op = op /\ call.pc = pc

-----------------------------------------------------------------------------
(* open, delete_key                                                        *)

(* The checks of open that need no IPC. *)
NameFits(a) == a \notin LongNames

(* get: open without create.  NotFound is an answer, not an error. *)
get_open ==
    /\ At("get", "open")
    /\ \/ /\ mounted /\ NameFits(call.at)
          /\ IF flash[call.at] = NoValue THEN Return(Bytes(NoValue))
             ELSE call' = [call EXCEPT !.pc = "read"] /\ UNCHANGED ret
       \/ Fails
    /\ UNCHANGED <<flash, dicts, mounted>>

put_without_delete ==
    /\ At("put", "delete")
    /\ \/ mounted /\ call' = [call EXCEPT !.pc = "open"] /\ UNCHANGED ret
       \/ Fails
    /\ UNCHANGED <<flash, dicts, mounted>>

(* put: the key is deleted first, because WriteKey does not truncate.      *)
(* NotFound is ignored.                                                    *)
put_delete ==
    /\ At("put", "delete")
    /\ \/ /\ mounted
          /\ flash' = [flash EXCEPT ![call.at] = NoValue]
          /\ \/ call' = [call EXCEPT !.pc = "open"] /\ UNCHANGED ret
             \/ Fails
       \/ Fails /\ UNCHANGED flash
    /\ UNCHANGED <<dicts, mounted>>

(* put: open with create_dict and create_key makes an empty key. *)
put_open ==
    /\ At("put", "open")
    /\ \/ /\ NameFits(call.at)
          /\ flash' = [flash EXCEPT ![call.at] = IF @ = NoValue THEN <<>> ELSE @]
          /\ dicts' = dicts \cup {call.at[1]}
          /\ \/ call' = [call EXCEPT !.pc = "write"] /\ UNCHANGED ret
             \/ Fails
       \/ Fails /\ UNCHANGED <<flash, dicts>>
    /\ UNCHANGED mounted

delete ==
    /\ call.op = "delete"
    /\ \/ mounted /\ flash' = [flash EXCEPT ![call.at] = NoValue] /\ (Return(Ok) \/ Fails)
       \/ Fails /\ UNCHANGED flash
    /\ UNCHANGED <<dicts, mounted>>

-----------------------------------------------------------------------------
(* KeyHandle: read and write                                               *)

Min2(m, n) == IF m < n THEN m ELSE n

read_key_without_seek ==
    /\ At("get", "read")
    /\ \/ \E got \in 1 .. Min2(BufLen, Len(flash[call.at])) :
             /\ call' = [call EXCEPT !.bytes = @ \o SubSeq(flash[call.at], 1, got)]
             /\ UNCHANGED ret
       \/ Fails
    /\ UNCHANGED <<flash, dicts, mounted>>

(* read_all: chunks until the server says UnexpectedEof. *)
read_key ==
    /\ At("get", "read")
    /\ LET pos == Len(call.bytes)
           size == Len(flash[call.at])
       IN  \/ pos >= size /\ Return(Bytes(call.bytes))
           \/ /\ pos < size
              /\ \E got \in 1 .. Min2(BufLen, size - pos) :
                    call' = [call EXCEPT !.bytes = @ \o SubSeq(flash[call.at], pos + 1, pos + got)]
              /\ UNCHANGED ret
           \/ Fails
    /\ UNCHANGED <<flash, dicts, mounted>>

(* The server: bytes from pos on are replaced, what lies behind them stays. *)
WriteAt(old, pos, chunk) ==
    SubSeq(old, 1, pos) \o chunk \o SubSeq(old, pos + Len(chunk) + 1, Len(old))

(* write_all: WriteKey takes some of the chunk; none of it is WriteZero,    *)
(* and an error may follow bytes that were written.                         *)
write_key ==
    /\ At("put", "write")
    /\ \E wrote \in 0 .. Min2(BufLen, Len(call.value) - call.pos) :
          LET pos == call.pos + wrote
          IN  /\ flash' = [flash EXCEPT ![call.at] =
                              WriteAt(@, call.pos, SubSeq(call.value, call.pos + 1, pos))]
              /\ \/ wrote > 0 /\ pos < Len(call.value)
                    /\ call' = [call EXCEPT !.pos = pos] /\ UNCHANGED ret
                 \/ pos = Len(call.value) /\ Return(Ok)
                 \/ Fails
    /\ UNCHANGED <<dicts, mounted>>

-----------------------------------------------------------------------------
(* write_batch, delete_dict, list_keys                                     *)

BatchSize(b) == FoldLeft(LAMBDA n, e : n + NamesLen + Len(e.value), 0, b)

(* The checks of every entry, and room for the terminator. *)
BatchFits(b) == (\A i \in DOMAIN b : NameFits(b[i].at)) /\ BatchSize(b) + 1 <= BatchLen

(* The first n entries, in order, each truncating what was there. *)
Applied(b, n) ==
    [a \in Address |->
        LET at == {i \in 1 .. n : b[i].at = a}
        IN  IF at = {} THEN flash[a] ELSE b[CHOOSE i \in at : \A j \in at : j <= i].value]

write_batch ==
    /\ call.op = "put_batch"
    /\ \E n \in 0 .. Len(call.entries) :
          /\ n > 0 => mounted /\ BatchFits(call.entries)
          /\ flash' = Applied(call.entries, n)
          /\ dicts' = dicts \cup {call.entries[i].at[1] : i \in 1 .. n}
          /\ \/ n = Len(call.entries) /\ Return(Ok)
             \/ Fails
    /\ UNCHANGED mounted

delete_dict ==
    /\ call.op = "delete_dict"
    /\ \E gone \in SUBSET InDict(call.dict) :
          /\ gone # {} => mounted
          /\ flash' = [a \in Address |-> IF a \in gone THEN NoValue ELSE flash[a]]
          /\ \/ mounted /\ gone = InDict(call.dict)
                /\ dicts' = dicts \ {call.dict} /\ (Return(Ok) \/ Fails)
             \/ UNCHANGED dicts /\ Fails
    /\ UNCHANGED mounted

KeysIn(d) == {k \in Keys : flash[<<d, k>>] # NoValue}

(* KeyCountInDict starts a listing.  An unknown dictionary is an empty one. *)
list_count ==
    /\ At("list_keys", "count")
    /\ \/ mounted /\ call.dict \notin dicts /\ Return(KeyNames({}))
       \/ /\ mounted /\ call.dict \in dicts
          /\ call' = [call EXCEPT !.pc = "page", !.left = KeysIn(call.dict)]
          /\ UNCHANGED ret
       \/ Fails
    /\ UNCHANGED <<flash, dicts, mounted>>

list_first_page ==
    /\ At("list_keys", "page")
    /\ \E page \in SUBSET call.left :
          /\ Cardinality(page) = Min2(PageLen, Cardinality(call.left))
          /\ Return(KeyNames(call.keys \cup page))
    /\ UNCHANGED <<flash, dicts, mounted>>

(* ListKeyV2, until the server has set end. *)
list_page ==
    /\ At("list_keys", "page")
    /\ \/ \E page \in SUBSET call.left :
             /\ Cardinality(page) = Min2(PageLen, Cardinality(call.left))
             /\ IF page = call.left
                THEN Return(KeyNames(call.keys \cup page))
                ELSE /\ call' = [call EXCEPT !.keys = @ \cup page, !.left = @ \ page]
                     /\ UNCHANGED ret
       \/ Fails
    /\ UNCHANGED <<flash, dicts, mounted>>

-----------------------------------------------------------------------------

ClientStep ==
    \/ get_open \/ read_key
    \/ put_delete \/ put_open \/ write_key
    \/ write_batch
    \/ delete \/ delete_dict
    \/ list_count \/ list_page

(* The user unlocks the PDDB, or gives up at the password prompt. *)
try_mount ==
    /\ ~mounted
    /\ mounted' = TRUE
    /\ UNCHANGED <<flash, dicts, call, ret>>

(* What has been synced stays; the rest of the call never happens. *)
power_loss ==
    /\ call' = NoCall
    /\ ret' = NoAnswer
    /\ mounted' = FALSE
    /\ UNCHANGED <<flash, dicts>>

-----------------------------------------------------------------------------
(* What callers can tell apart: a whole value, none, or part of one.       *)

Whole(c) == IF c = NoValue \/ c \in Values THEN c ELSE Torn

WholeStore(f) == [a \in Address |-> Whole(f[a])]

CallTypeOK ==
    \/ call = NoCall
    \/ /\ DOMAIN call.before = Address
       /\ \/ /\ call.op = "get" /\ call.pc \in {"open", "read"} /\ call.at \in Address
             /\ call.pc = "read" => flash[call.at] # NoValue
             /\ IsPrefix(call.bytes, IF flash[call.at] = NoValue THEN <<>> ELSE flash[call.at])
          \/ /\ call.op = "put" /\ call.pc \in {"delete", "open", "write"}
             /\ call.at \in Address /\ call.value \in Values
             /\ call.pos \in 0 .. Len(call.value) - 1
          \/ call.op = "put_batch" /\ call.entries \in Batches
          \/ call.op = "delete" /\ call.at \in Address
          \/ call.op = "delete_dict" /\ call.dict \in Dicts
          \/ /\ call.op = "list_keys" /\ call.pc \in {"count", "page"} /\ call.dict \in Dicts
             /\ call.keys \cup call.left \subseteq Keys
=============================================================================
