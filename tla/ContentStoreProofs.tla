------------------------- MODULE ContentStoreProofs -------------------------
(***************************************************************************)
(* Theorems about ContentStore and the IPC client underneath, for every    *)
(* set of threads, keys and values, every length of chunks, pages and      *)
(* batches: the client implements KvBackend, and what the record methods   *)
(* answer is true.                                                         *)
(***************************************************************************)
EXTENDS ContentStore, TLAPS, SequenceTheorems, FiniteSetTheorems

-----------------------------------------------------------------------------
(* The inductive invariant.                                                *)

(* What the server can hold. *)
Flash == [Address -> Seq(Byte) \cup {NoValue}]

StoreTypes ==
    /\ flash \in Flash
    /\ \A a \in Address : flash[a] # NoValue => a[1] \in dicts /\ NameFits(a)
    /\ dicts \subseteq Dicts
    /\ mounted \in BOOLEAN
    /\ ops \in 0..MaxOps
    /\ ret.kind \in {"ok", "err", "none", "bytes", "keys"}

GetCall ==
    [op : {"get"}, pc : {"open", "read"}, at : Address, bytes : Seq(Byte), before : Flash]

PutCall ==
    [op : {"put"}, pc : {"delete", "open", "write"}, at : Address, value : Values, pos : Nat,
     before : Flash]

BatchCall == [op : {"put_batch"}, entries : Batches, before : Flash]

DeleteCall == [op : {"delete"}, at : Address, before : Flash]

DictCall == [op : {"delete_dict"}, dict : Dicts, before : Flash]

ListCall ==
    [op : {"list_keys"}, pc : {"count", "page"}, dict : Dicts, left : SUBSET Keys,
     keys : SUBSET Keys, before : Flash]

Call == GetCall \cup PutCall \cup BatchCall \cup DeleteCall \cup DictCall \cup ListCall

(* What flash is while c runs, given what c found and how far it is. *)
InProgress(c) ==
    /\ c \in GetCall =>
          /\ flash = c.before
          /\ c.pc = "open" => c.bytes = <<>>
          /\ c.pc = "read" => /\ flash[c.at] # NoValue
                              /\ Len(c.bytes) <= Len(flash[c.at])
                              /\ c.bytes = SubSeq(flash[c.at], 1, Len(c.bytes))
    /\ c \in PutCall =>
          /\ c.pos < Len(c.value)
          /\ c.pc # "write" => c.pos = 0
          /\ flash = CASE c.pc = "delete" -> c.before
                       [] c.pc = "open" -> [c.before EXCEPT ![c.at] = NoValue]
                       [] c.pc = "write" ->
                            [c.before EXCEPT ![c.at] = SubSeq(c.value, 1, c.pos)]
    /\ c \in BatchCall \cup DeleteCall \cup DictCall => flash = c.before
    /\ c \in ListCall =>
          /\ flash = c.before
          /\ c.keys \cup c.left = IF c.pc = "page" THEN KeysIn(c.dict) ELSE {}

CallInv == call = NoCall \/ (call \in Call /\ InProgress(call))

Entry == [at : Address, value : Values]
Item == [key : Keys, value : Values \cup {Torn}]
WipeOf ==
    {"clear_contacts", "clear_groups", "clear_profiles", "clear_thread", "clear_contents",
     "clear_registration", "clear"}

(* A get of a is under way, or has failed, or has found what is there. *)
Awaits(a) ==
    \/ call \in GetCall /\ call.at = a
    \/ call = NoCall /\ ret \in {Err, Bytes(flash[a])}

(* A call in C is under way, or has returned. *)
AwaitsDone(C) == call \in C \/ (call = NoCall /\ ret \in {Ok, Err})

(* The keys read and the keys still to be read, together, are a listing of *)
(* what is there; what was read is what is there.                          *)
Reads(m) ==
    /\ m.keys # <<>>
    /\ Awaits(<<m.dict, m.keys[1]>>)
    /\ \E all \in Orders(m.dict, KeysIn(m.dict) \cap m.range) :
          /\ Len(all) = Len(m.items) + Len(m.keys)
          /\ \A i \in 1..Len(m.keys) : m.keys[i] = all[Len(m.items) + i]
          /\ \A i \in 1..Len(m.items) :
                /\ m.items[i].key = all[i]
                /\ m.items[i].value \in {Torn} \cup (Values \cap {flash[<<m.dict, all[i]>>]})

Gone(d) == \A a \in InDict(d) : flash[a] = NoValue

(* Of the dictionaries to clear, each is gone, or is being dropped, or is  *)
(* still to be dropped, or the wipe is about to fail.                      *)
Clears(m) ==
    m.of = "clear" =>
        \A d \in NamedDicts \ {"sticker_packs"} :
            \/ Gone(d)
            \/ \E i \in 1..Len(m.todo) : m.todo[i] = d
            \/ call \in DictCall /\ call.dict = d
            \/ call = NoCall /\ ret = Err

LoadMethod == [shape : {"load"}, dict : Dicts, key : Keys]
ProbeMethod == [shape : {"probe"}, then : PutCall \cup DeleteCall]
ChangeMethod == [shape : {"change"}, existed : BOOLEAN]
ListMethod ==
    [shape : {"list", "items"}, dict : Dicts, range : SUBSET Nat, keys : Seq(Keys),
     items : Seq(Item)]
WipeMethod == [shape : {"wipe"}, of : WipeOf, todo : Seq(Dicts)]
CommitMethod == [shape : {"commit", "fallback"}, todo : Seq(Entry), ok : BOOLEAN]

(* What the method in progress knows of its call. *)
MethodInv ==
    \/ method = NoMethod /\ call = NoCall
    \/ method = [shape |-> "save"] /\ AwaitsDone(PutCall \cup DeleteCall)
    \/ method \in LoadMethod /\ Awaits(<<method.dict, method.key>>)
    \/ method = [shape |-> "registered"] /\ \E a \in Address : Awaits(a)
    \/ /\ method \in ProbeMethod /\ \E a \in Address : Awaits(a)
       /\ method.then.before = flash
       /\ method.then \in PutCall => method.then.pc = "delete" /\ method.then.pos = 0
    \/ method \in ChangeMethod /\ AwaitsDone(PutCall \cup DeleteCall)
    \/ /\ method \in ListMethod /\ method.shape = "list" /\ method.keys = <<>>
       /\ method.items = <<>>
       /\ \/ call \in ListCall /\ call.dict = method.dict
          \/ call = NoCall /\ ret \in {Err, KeyNames(KeysIn(method.dict))}
    \/ method \in ListMethod /\ method.shape = "items" /\ Reads(method)
    \/ method \in WipeMethod /\ AwaitsDone(DictCall) /\ Clears(method)
    \/ /\ method \in CommitMethod /\ method.shape = "commit" /\ method.todo # <<>>
       /\ AwaitsDone(BatchCall)
    \/ method \in CommitMethod /\ method.shape = "fallback" /\ AwaitsDone(PutCall)

IInv == StoreTypes /\ CallInv /\ MethodInv

-----------------------------------------------------------------------------
(* Bytes.                                                                  *)

(* A value cut after n bytes. *)
LEMMA Cut ==
    ASSUME NEW v \in Seq(Byte), NEW n \in 0..Len(v)
    PROVE  /\ SubSeq(v, 1, n) \in Seq(Byte)
           /\ Len(SubSeq(v, 1, n)) = n
           /\ SubSeq(v, 1, n) # NoValue
           /\ n = Len(v) => SubSeq(v, 1, n) = v
<1>1. \A i \in 1..n : v[i] \in Byte
  OBVIOUS
<1>2. SubSeq(v, 1, n) \in Seq(Byte) /\ Len(SubSeq(v, 1, n)) = n
  BY <1>1, SubSeqProperties, Z3
<1>3. n = Len(v) => SubSeq(v, 1, n) = v
  BY SubSeqFull
<1> QED BY <1>2, <1>3, ValueAssumption

(* A chunk written behind the first pos bytes of a value makes it longer. *)
LEMMA WriteAtEnd ==
    ASSUME NEW v \in Seq(Byte), NEW pos \in 0..Len(v), NEW end \in pos..Len(v)
    PROVE  WriteAt(SubSeq(v, 1, pos), pos, SubSeq(v, pos + 1, end)) = SubSeq(v, 1, end)
<1> DEFINE old == SubSeq(v, 1, pos)
           chunk == SubSeq(v, pos + 1, end)
<1>1. old \in Seq(Byte) /\ Len(old) = pos
  BY Cut
<1>2. SubSeq(old, 1, pos) = old
  BY <1>1, SubSeqFull
<1>3. \A i \in pos + 1..end : v[i] \in Byte
  OBVIOUS
<1>4. chunk \in Seq(Byte) /\ Len(chunk) = end - pos
  BY <1>3, SubSeqProperties
<1>5. SubSeq(old, pos + Len(chunk) + 1, Len(old)) = <<>>
  BY <1>1, <1>4, SubSeqEmpty
<1>6. old \o chunk = SubSeq(v, 1, end)
  BY ConcatAdjacentSubSeq
<1>7. SubSeq(v, 1, end) \in Seq(Byte)
  BY Cut
<1>8. SubSeq(v, 1, end) \o <<>> = SubSeq(v, 1, end)
  BY <1>7, ConcatEmptySeq
<1> QED BY <1>2, <1>5, <1>6, <1>8 DEF WriteAt

(* No value is another one cut short. *)
LEMMA CutIsTorn ==
    ASSUME NEW v \in Values, NEW n \in Nat, n < Len(v)
    PROVE  Whole(SubSeq(v, 1, n)) = Torn
<1>1. v \in Seq(Byte) /\ n \in 0..Len(v)
  BY ValueAssumption
<1>2. PICK w : w = SubSeq(v, 1, n)
  OBVIOUS
<1>3. w \in Seq(Byte) /\ Len(w) = n /\ w # NoValue
  BY <1>1, <1>2, Cut
<1>4. SubSeq(w, 1, Len(w)) = w
  BY <1>3, SubSeqFull
<1>5. IsPrefix(w, v)
  BY <1>2, <1>3, <1>4 DEF IsPrefix
<1>6. w \notin Values
  BY <1>3, <1>5, ValueAssumption
<1> QED BY <1>2, <1>3, <1>6 DEF Whole

-----------------------------------------------------------------------------
(* Calls.                                                                  *)

(* A call is told by its op. *)
LEMMA CallKinds ==
    ASSUME NEW c \in Call
    PROVE  /\ c # NoCall
           /\ c.op = "get" => c \in GetCall
           /\ c.op = "put" => c \in PutCall
           /\ c.op = "put_batch" => c \in BatchCall
           /\ c.op = "delete" => c \in DeleteCall
           /\ c.op = "delete_dict" => c \in DictCall
           /\ c.op = "list_keys" => c \in ListCall
           /\ c \in GetCall => c.op = "get"
           /\ c \in PutCall => c.op = "put"
           /\ c \in BatchCall => c.op = "put_batch"
           /\ c \in DeleteCall => c.op = "delete"
           /\ c \in DictCall => c.op = "delete_dict"
           /\ c \in ListCall => c.op = "list_keys"
<1>1. NoCall.op = "none"
  BY DEF NoCall
<1>2. /\ c \in GetCall => c.op = "get"
      /\ c \in PutCall => c.op = "put"
      /\ c \in BatchCall => c.op = "put_batch"
      /\ c \in DeleteCall => c.op = "delete"
      /\ c \in DictCall => c.op = "delete_dict"
      /\ c \in ListCall => c.op = "list_keys"
  BY DEF GetCall, PutCall, BatchCall, DeleteCall, DictCall, ListCall
<1> QED BY <1>1, <1>2 DEF Call

(* No call is under way, or one is. *)
LEMMA Running ==
    ASSUME CallInv, NEW op, call.op = op, op # "none"
    PROVE  call \in Call /\ InProgress(call)
BY DEF CallInv, NoCall

-----------------------------------------------------------------------------
(* What a message can do, by the call it belongs to.                       *)

GetGoesOn ==
    /\ call \in GetCall /\ flash' = flash
    /\ \/ /\ call' \in GetCall /\ ret' = ret
          /\ call'.at = call.at /\ call'.before = call.before
       \/ call' = NoCall /\ ret' \in {Err, Bytes(flash[call.at])}

ListGoesOn ==
    /\ call \in ListCall /\ flash' = flash
    /\ \/ /\ call' \in ListCall /\ ret' = ret
          /\ call'.dict = call.dict /\ call'.before = call.before
       \/ call' = NoCall /\ ret' \in {Err, KeyNames(KeysIn(call.dict))}

(* What a put that failed or was cut has left in f. *)
PutCut(c, f) ==
    \/ f = c.before
    \/ f = [c.before EXCEPT ![c.at] = NoValue]
    \/ \E n \in 0..Len(c.value) : f = [c.before EXCEPT ![c.at] = SubSeq(c.value, 1, n)]

PutGoesOn ==
    /\ call \in PutCall
    /\ \/ call' \in PutCall /\ ret' = ret /\ call'.before = call.before
       \/ /\ call' = NoCall
          /\ \/ ret' = Ok /\ flash' = [call.before EXCEPT ![call.at] = call.value]
             \/ ret' = Err /\ PutCut(call, flash')

BatchEnds ==
    /\ call \in BatchCall /\ call' = NoCall
    /\ \E n \in 0..Len(call.entries) :
          /\ flash' = Applied(call.entries, n)
          /\ ret' = Err \/ (ret' = Ok /\ n = Len(call.entries))

DeleteEnds ==
    /\ call \in DeleteCall /\ call' = NoCall
    /\ \/ ret' \in {Ok, Err} /\ flash' = [flash EXCEPT ![call.at] = NoValue]
       \/ ret' = Err /\ flash' = flash

DictEnds ==
    /\ call \in DictCall /\ call' = NoCall
    /\ \E gone \in SUBSET InDict(call.dict) :
          /\ flash' = [a \in Address |-> IF a \in gone THEN NoValue ELSE flash[a]]
          /\ ret' = Err \/ (ret' = Ok /\ gone = InDict(call.dict))

Kept == StoreTypes' /\ CallInv'

(* The answers by their kind. *)
LEMMA AnswerKinds ==
    /\ Ok.kind = "ok" /\ Err.kind = "err" /\ NoAnswer.kind = "none"
    /\ \A c : Bytes(c).kind = "bytes" /\ Bytes(c).cell = c
    /\ \A S : KeyNames(S).kind = "keys" /\ KeyNames(S).keys = S
    /\ Ok # Err
BY DEF Ok, Err, NoAnswer, Bytes, KeyNames

(* A get reads without changing anything; what it returns is all of it. *)
LEMMA GetStep ==
    ASSUME StoreTypes, CallInv, get_open \/ read_key, UNCHANGED ops
    PROVE  Kept /\ GetGoesOn
<1>1. call \in GetCall /\ InProgress(call) /\ UNCHANGED <<flash, dicts, mounted>>
  BY Running, CallKinds DEF get_open, read_key, At
<1>2. /\ call.at \in Address /\ call.bytes \in Seq(Byte) /\ call.before = flash
      /\ flash[call.at] \in Seq(Byte) \cup {NoValue}
  BY <1>1 DEF GetCall, InProgress, StoreTypes, Flash
<1>3. CASE call' = NoCall /\ ret' \in {Err, Bytes(flash[call.at])}
  BY <1>1, <1>3, AnswerKinds DEF Kept, GetGoesOn, StoreTypes, CallInv, NameFits
<1>4. ASSUME NEW b \in Seq(Byte), call' = [call EXCEPT !.pc = "read", !.bytes = b],
             ret' = ret, flash[call.at] # NoValue, Len(b) <= Len(flash[call.at]),
             b = SubSeq(flash[call.at], 1, Len(b))
      PROVE  Kept /\ GetGoesOn
  <2>1. /\ call' \in GetCall /\ call'.pc = "read" /\ call'.bytes = b /\ call'.at = call.at
        /\ call'.before = call.before
    BY <1>1, <1>4 DEF GetCall
  <2>2. /\ call' \in Call
        /\ call' \notin PutCall \cup BatchCall \cup DeleteCall \cup DictCall \cup ListCall
    BY <2>1 DEF Call, GetCall, PutCall, BatchCall, DeleteCall, DictCall, ListCall
  <2>3. InProgress(call)'
    BY <1>1, <1>2, <1>4, <2>1, <2>2 DEF InProgress
  <2> QED BY <1>1, <1>4, <2>1, <2>2, <2>3 DEF Kept, GetGoesOn, StoreTypes, CallInv, NameFits
<1>5. CASE get_open
  <2>1. call.pc = "open" /\ call.bytes = <<>>
    BY <1>1, <1>5 DEF get_open, At, InProgress
  <2>2. CASE ret' = Err /\ call' = NoCall
    BY <1>3, <2>2
  <2>3. CASE flash[call.at] = NoValue /\ Return(Bytes(NoValue))
    BY <1>3, <2>3 DEF Return
  <2>4. CASE flash[call.at] # NoValue /\ call' = [call EXCEPT !.pc = "read"] /\ UNCHANGED ret
    <3>1. call' = [call EXCEPT !.pc = "read", !.bytes = <<>>]
      BY <1>1, <2>1, <2>4 DEF GetCall
    <3>2. <<>> \in Seq(Byte) /\ Len(<<>>) = 0 /\ SubSeq(flash[call.at], 1, 0) = <<>>
      BY SubSeqEmpty
    <3>3. flash[call.at] \in Seq(Byte) /\ 0 <= Len(flash[call.at])
      BY <1>2, <2>4
    <3> QED BY <1>4, <2>4, <3>1, <3>2, <3>3
  <2> QED BY <1>5, <2>2, <2>3, <2>4 DEF get_open, Fails, Return
<1>6. CASE read_key
  <2>1. /\ call.pc = "read" /\ flash[call.at] \in Seq(Byte) /\ flash[call.at] # NoValue
        /\ Len(call.bytes) <= Len(flash[call.at])
        /\ call.bytes = SubSeq(flash[call.at], 1, Len(call.bytes))
    BY <1>1, <1>2, <1>6 DEF read_key, At, InProgress
  <2>v. PICK v \in Seq(Byte) : v = flash[call.at]
    BY <2>1
  <2>2. PICK pos \in 0..Len(v) : pos = Len(call.bytes) /\ call.bytes = SubSeq(v, 1, pos)
    BY <1>2, <2>1, <2>v
  <2>3. CASE ret' = Err /\ call' = NoCall
    BY <1>3, <2>3
  <2>4. CASE pos >= Len(v) /\ Return(Bytes(call.bytes))
    <3>1. call.bytes = v
      BY <2>2, <2>4, Cut
    <3> QED BY <1>3, <2>v, <2>4, <3>1 DEF Return
  <2>5. ASSUME pos < Len(v), NEW got \in 1..Min2(BufLen, Len(v) - pos),
               call' = [call EXCEPT !.bytes = @ \o SubSeq(v, pos + 1, pos + got)], ret' = ret
        PROVE  Kept /\ GetGoesOn
    <3>1. pos + got \in pos..Len(v) /\ pos + got \in 0..Len(v) /\ pos + 1 - 1 = pos
      <4>1. PICK len \in Nat : len = Len(v)
        OBVIOUS
      <4>2. got \in Nat /\ got <= len - pos
        BY <2>5, <4>1, LengthAssumption DEF Min2
      <4> QED BY <4>1, <4>2
    <3>2. SubSeq(v, 1, pos) \o SubSeq(v, pos + 1, pos + got) = SubSeq(v, 1, pos + got)
      BY <3>1, ConcatAdjacentSubSeq
    <3>3. SubSeq(v, 1, pos + got) \in Seq(Byte) /\ Len(SubSeq(v, 1, pos + got)) = pos + got
      BY <3>1, Cut
    <3>4. call' = [call EXCEPT !.bytes = SubSeq(v, 1, pos + got)]
      BY <2>2, <2>5, <3>2
    <3>5. call' = [call EXCEPT !.pc = "read", !.bytes = SubSeq(v, 1, pos + got)]
      BY <1>1, <2>1, <3>4 DEF GetCall
    <3>6. Len(SubSeq(v, 1, pos + got)) <= Len(v)
      BY <3>1, <3>3
    <3> QED BY <1>4, <2>1, <2>v, <2>5, <3>3, <3>5, <3>6
  <2> QED BY <1>6, <2>v, <2>2, <2>3, <2>4, <2>5 DEF read_key, Fails, Return
<1> QED BY <1>5, <1>6

(* A listing changes nothing and returns the names of all keys. *)
LEMMA ListStep ==
    ASSUME StoreTypes, CallInv, list_count \/ list_page, UNCHANGED ops
    PROVE  Kept /\ ListGoesOn
<1>1. call \in ListCall /\ InProgress(call) /\ UNCHANGED <<flash, dicts, mounted>>
  BY Running, CallKinds DEF list_count, list_page, At
<1>2. /\ call.dict \in Dicts /\ call.left \subseteq Keys /\ call.keys \subseteq Keys
      /\ call.before = flash
  BY <1>1 DEF ListCall, InProgress
<1>3. CASE call' = NoCall /\ ret' \in {Err, KeyNames(KeysIn(call.dict))}
  BY <1>1, <1>3, AnswerKinds DEF Kept, ListGoesOn, StoreTypes, CallInv, NameFits
<1>4. ASSUME NEW L \in SUBSET Keys, NEW K \in SUBSET Keys, K \cup L = KeysIn(call.dict),
             call' = [call EXCEPT !.pc = "page", !.left = L, !.keys = K], ret' = ret
      PROVE  Kept /\ ListGoesOn
  <2>1. /\ call' \in ListCall /\ call'.pc = "page" /\ call'.left = L /\ call'.keys = K
        /\ call'.dict = call.dict /\ call'.before = call.before
    BY <1>1, <1>4 DEF ListCall
  <2>2. /\ call' \in Call
        /\ call' \notin PutCall \cup BatchCall \cup DeleteCall \cup DictCall \cup GetCall
    BY <2>1 DEF Call, GetCall, PutCall, BatchCall, DeleteCall, DictCall, ListCall
  <2>3. InProgress(call)'
    BY <1>1, <1>2, <1>4, <2>1, <2>2 DEF InProgress, KeysIn
  <2> QED BY <1>1, <1>4, <2>1, <2>2, <2>3 DEF Kept, ListGoesOn, StoreTypes, CallInv, NameFits
<1>5. CASE list_count
  <2>1. call.pc = "count" /\ call.keys = {}
    BY <1>1, <1>5 DEF list_count, At, InProgress
  <2>2. CASE ret' = Err /\ call' = NoCall
    BY <1>3, <2>2
  <2>3. CASE call.dict \notin dicts /\ Return(KeyNames({}))
    <3>1. ASSUME NEW k \in Keys PROVE flash[<<call.dict, k>>] = NoValue
      <4>1. <<call.dict, k>> \in Address /\ <<call.dict, k>>[1] = call.dict
        BY <1>2 DEF Address
      <4> QED BY <2>3, <4>1 DEF StoreTypes
    <3>2. KeysIn(call.dict) = {}
      BY <3>1 DEF KeysIn
    <3> QED BY <1>3, <2>3, <3>2 DEF Return
  <2>4. CASE call' = [call EXCEPT !.pc = "page", !.left = KeysIn(call.dict)] /\ UNCHANGED ret
    <3>1. call' = [call EXCEPT !.pc = "page", !.left = KeysIn(call.dict), !.keys = {}]
      BY <1>1, <2>1, <2>4 DEF ListCall
    <3>2. /\ KeysIn(call.dict) \in SUBSET Keys /\ {} \in SUBSET Keys
          /\ {} \cup KeysIn(call.dict) = KeysIn(call.dict) /\ ret' = ret
      BY <2>4 DEF KeysIn
    <3> HIDE DEF KeysIn
    <3> QED BY ONLY <1>4, <3>1, <3>2
  <2> QED BY <1>5, <2>2, <2>3, <2>4 DEF list_count, Fails, Return
<1>6. CASE list_page
  <2>1. call.pc = "page" /\ call.keys \cup call.left = KeysIn(call.dict)
    BY <1>1, <1>6 DEF list_page, At, InProgress
  <2>2. CASE ret' = Err /\ call' = NoCall
    BY <1>3, <2>2
  <2>3. ASSUME NEW page \in SUBSET call.left, page = call.left,
               Return(KeyNames(call.keys \cup page))
        PROVE  Kept /\ ListGoesOn
    BY <1>3, <2>1, <2>3 DEF Return
  <2>4. ASSUME NEW page \in SUBSET call.left, ret' = ret,
               call' = [call EXCEPT !.keys = @ \cup page, !.left = @ \ page]
        PROVE  Kept /\ ListGoesOn
    <3>1. call' = [call EXCEPT !.pc = "page", !.left = call.left \ page,
                               !.keys = call.keys \cup page]
      BY <1>1, <2>1, <2>4 DEF ListCall
    <3>2. (call.keys \cup page) \cup (call.left \ page) = KeysIn(call.dict)
      BY <2>1
    <3>3. call.left \ page \subseteq Keys /\ call.keys \cup page \subseteq Keys
      BY <1>2
    <3> QED BY <1>4, <2>4, <3>1, <3>2, <3>3
  <2> QED BY <1>6, <2>2, <2>3, <2>4 DEF list_page, Fails, Return
<1> QED BY <1>5, <1>6

(* A put replaces the whole value or fails, with the old value, none or a   *)
(* part of the new one left; whatever the server makes of the chunks.       *)
LEMMA PutStep ==
    ASSUME StoreTypes, CallInv, put_delete \/ put_open \/ write_key, UNCHANGED ops
    PROVE  Kept /\ PutGoesOn
<1>1. call \in PutCall /\ InProgress(call) /\ mounted' = mounted
  BY Running, CallKinds DEF put_delete, put_open, write_key, At
<1>2. /\ call.at \in Address /\ call.value \in Values /\ call.value \in Seq(Byte)
      /\ call.before \in Flash /\ call.pos \in Nat /\ call.pos < Len(call.value)
  BY <1>1, ValueAssumption DEF PutCall, InProgress
<1>3. ASSUME NEW c, c = NoValue \/ c \in Seq(Byte),
             c # NoValue => call.at[1] \in dicts' /\ NameFits(call.at),
             flash' = [call.before EXCEPT ![call.at] = c],
             \A a \in Address : a # call.at => flash[a] = call.before[a],
             dicts \subseteq dicts', dicts' \subseteq Dicts,
             ret'.kind \in {"ok", "err", "none", "bytes", "keys"}
      PROVE  StoreTypes'
  <2>1. flash' \in Flash /\ flash'[call.at] = c
    BY <1>2, <1>3 DEF Flash
  <2>2. \A a \in Address : a # call.at => flash'[a] = flash[a]
    BY <1>2, <1>3 DEF Flash
  <2>3. \A a \in Address : flash'[a] # NoValue => a[1] \in dicts' /\ a \notin LongNames
    BY <1>3, <2>1, <2>2 DEF StoreTypes, NameFits
  <2> QED BY <1>1, <1>3, <2>1, <2>3 DEF StoreTypes, NameFits
<1>4. \A a \in Address : a # call.at => flash[a] = call.before[a]
  <2>1. CASE call.pc = "delete"
    BY <1>1, <2>1 DEF InProgress
  <2>2. CASE call.pc = "open"
    BY <1>1, <1>2, <2>2 DEF InProgress, Flash
  <2>3. CASE call.pc = "write"
    BY <1>1, <1>2, <2>3 DEF InProgress, Flash
  <2> QED BY <1>1, <2>1, <2>2, <2>3 DEF PutCall
<1>5. ASSUME Fails, UNCHANGED <<flash, dicts>>, call.pc \in {"delete", "open"}
      PROVE  Kept /\ PutGoesOn
  <2>1. PutCut(call, flash')
    BY <1>1, <1>5 DEF InProgress, PutCut
  <2> QED BY <1>1, <1>5, <2>1, AnswerKinds
          DEF Kept, PutGoesOn, StoreTypes, CallInv, NameFits, Fails, Return
<1>6. ASSUME NEW p \in {"open", "write"}, NEW n \in Nat, n < Len(call.value),
             p = "open" => n = 0,
             call' = [call EXCEPT !.pc = p, !.pos = n], ret' = ret, StoreTypes',
             flash' = [call.before EXCEPT ![call.at] = IF p = "open" THEN NoValue
                                                       ELSE SubSeq(call.value, 1, n)]
      PROVE  Kept /\ PutGoesOn
  <2>1. /\ call' \in PutCall /\ call'.pc = p /\ call'.pos = n /\ call'.at = call.at
        /\ call'.before = call.before /\ call'.value = call.value
    BY <1>1, <1>6 DEF PutCall
  <2>2. /\ call' \in Call
        /\ call' \notin GetCall \cup BatchCall \cup DeleteCall \cup DictCall \cup ListCall
    BY <2>1 DEF Call, GetCall, PutCall, BatchCall, DeleteCall, DictCall, ListCall
  <2>3. /\ call'.pos < Len(call'.value)
        /\ call'.pc # "write" => call'.pos = 0
    BY <1>6, <2>1
  <2>4. flash' = CASE call'.pc = "delete" -> call'.before
                   [] call'.pc = "open" -> [call'.before EXCEPT ![call'.at] = NoValue]
                   [] call'.pc = "write" ->
                        [call'.before EXCEPT ![call'.at] = SubSeq(call'.value, 1, call'.pos)]
    <3>1. CASE p = "open"
      BY <1>6, <2>1, <3>1
    <3>2. CASE p = "write"
      BY <1>6, <2>1, <3>2
    <3> QED BY <3>1, <3>2
  <2>5. InProgress(call)'
    BY <2>2, <2>3, <2>4 DEF InProgress
  <2> QED BY <1>1, <1>6, <2>1, <2>2, <2>5 DEF Kept, PutGoesOn, CallInv
<1>f. ASSUME Fails, StoreTypes', PutCut(call, flash')
      PROVE  Kept /\ PutGoesOn
  BY <1>1, <1>f DEF Kept, PutGoesOn, CallInv, Fails, Return
<1>7. CASE put_delete
  <2>1. call.pc = "delete" /\ dicts' = dicts
    BY <1>7 DEF put_delete, At
  <2>2. flash = call.before /\ call.pos = 0
    BY <1>1, <2>1 DEF InProgress
  <2>3. CASE Fails /\ UNCHANGED flash
    BY <1>5, <2>1, <2>3
  <2>5. CASE flash' = [flash EXCEPT ![call.at] = NoValue] /\ Fails
    <3>1. ret'.kind \in {"ok", "err", "none", "bytes", "keys"}
      BY <2>5, AnswerKinds DEF Fails, Return
    <3>2. StoreTypes'
      BY <1>3, <1>4, <2>1, <2>2, <2>5, <3>1 DEF StoreTypes
    <3>3. PutCut(call, flash')
      BY <2>2, <2>5 DEF PutCut
    <3> QED BY <1>f, <2>5, <3>2, <3>3
  <2>4. CASE /\ flash' = [flash EXCEPT ![call.at] = NoValue]
             /\ call' = [call EXCEPT !.pc = "open"] /\ UNCHANGED ret
    <3>1. StoreTypes'
      BY <1>3, <1>4, <2>1, <2>2, <2>4 DEF StoreTypes
    <3>2. call' = [call EXCEPT !.pc = "open", !.pos = 0]
      BY <1>1, <2>2, <2>4 DEF PutCall
    <3>3. 0 < Len(call.value) /\ ret' = ret
      BY <1>2, <2>2, <2>4
    <3>4. flash' = [call.before EXCEPT ![call.at] = IF "open" = "open" THEN NoValue
                                                    ELSE SubSeq(call.value, 1, 0)]
      BY <2>2, <2>4
    <3> QED BY <1>6, <3>1, <3>2, <3>3, <3>4
  <2> QED BY <1>7, <2>3, <2>4, <2>5 DEF put_delete
<1>8. CASE put_open
  <2>1. call.pc = "open"
    BY <1>8 DEF put_open, At
  <2>2. /\ flash = [call.before EXCEPT ![call.at] = NoValue] /\ call.pos = 0
        /\ flash[call.at] = NoValue
    BY <1>1, <1>2, <2>1 DEF InProgress, Flash
  <2>3. CASE Fails /\ UNCHANGED <<flash, dicts>>
    BY <1>5, <2>1, <2>3
  <2>4. CASE /\ NameFits(call.at)
             /\ flash' = [flash EXCEPT ![call.at] = IF @ = NoValue THEN <<>> ELSE @]
             /\ dicts' = dicts \cup {call.at[1]}
             /\ \/ call' = [call EXCEPT !.pc = "write"] /\ UNCHANGED ret
                \/ Fails
    <3>1. flash' = [call.before EXCEPT ![call.at] = <<>>]
      <4>1. flash' = [flash EXCEPT ![call.at] = <<>>]
        BY <2>2, <2>4
      <4> QED BY <2>2, <4>1
    <3>2. SubSeq(call.value, 1, 0) = <<>> /\ <<>> \in Seq(Byte)
      BY SubSeqEmpty
    <3>3. call.at[1] \in Dicts
      BY <1>2 DEF Address
    <3>k. ret'.kind \in {"ok", "err", "none", "bytes", "keys"}
      BY <2>4, AnswerKinds DEF StoreTypes, Fails, Return
    <3>4. StoreTypes'
      BY <1>3, <1>4, <2>4, <3>1, <3>2, <3>3, <3>k DEF StoreTypes
    <3>6. 0 < Len(call.value)
      BY <1>2, <2>2
    <3>7. CASE call' = [call EXCEPT !.pc = "write"] /\ UNCHANGED ret
      <4>1. call' = [call EXCEPT !.pc = "write", !.pos = 0]
        BY <1>1, <2>2, <3>7 DEF PutCall
      <4> QED BY <1>6, <3>1, <3>2, <3>4, <3>6, <3>7, <4>1
    <3>8. CASE Fails
      <4>1. 0 \in 0..Len(call.value)
        BY <1>2
      <4>2. PutCut(call, flash')
        BY <3>1, <3>2, <4>1 DEF PutCut
      <4> QED BY <1>f, <3>4, <3>8, <4>2
    <3> QED BY <2>4, <3>7, <3>8
  <2> QED BY <1>8, <2>3, <2>4 DEF put_open
<1>9. CASE write_key
  <2>1. call.pc = "write" /\ dicts' = dicts
    BY <1>9 DEF write_key, At
  <2>v. PICK v \in Seq(Byte) : v = call.value
    BY <1>2
  <2>p. PICK p \in 0..Len(v) : p = call.pos
    BY <1>2, <2>v
  <2>2. /\ flash = [call.before EXCEPT ![call.at] = SubSeq(v, 1, p)]
        /\ flash[call.at] = SubSeq(v, 1, p)
    BY <1>1, <1>2, <2>1, <2>v, <2>p DEF InProgress, Flash
  <2>3. call.at[1] \in dicts /\ NameFits(call.at)
    BY <1>2, <2>2, Cut DEF StoreTypes
  <2>4. PICK wrote \in 0..Min2(BufLen, Len(v) - p) :
            /\ flash' = [flash EXCEPT ![call.at] = WriteAt(@, p, SubSeq(v, p + 1, p + wrote))]
            /\ \/ wrote > 0 /\ p + wrote < Len(v)
                  /\ call' = [call EXCEPT !.pos = p + wrote] /\ UNCHANGED ret
               \/ p + wrote = Len(v) /\ Return(Ok)
               \/ Fails
    BY <1>9, <2>v, <2>p DEF write_key
  <2>5. PICK end \in p..Len(v) : end = p + wrote /\ end \in 0..Len(v)
    <3>1. PICK len \in Nat : len = Len(v)
      OBVIOUS
    <3>2. wrote \in Nat /\ wrote <= len - p
      BY <3>1, LengthAssumption DEF Min2
    <3> QED BY <3>1, <3>2
  <2>6. WriteAt(SubSeq(v, 1, p), p, SubSeq(v, p + 1, end)) = SubSeq(v, 1, end)
    BY WriteAtEnd
  <2>7. flash' = [call.before EXCEPT ![call.at] = SubSeq(v, 1, end)]
    <3>1. flash' = [flash EXCEPT ![call.at] = SubSeq(v, 1, end)]
      BY <2>2, <2>4, <2>5, <2>6
    <3> QED BY <2>2, <3>1
  <2>8. SubSeq(v, 1, end) \in Seq(Byte) /\ (end = Len(v) => SubSeq(v, 1, end) = v)
    BY <2>5, Cut
  <2>9. ret'.kind \in {"ok", "err", "none", "bytes", "keys"}
    BY <2>4, AnswerKinds DEF StoreTypes, Return, Fails
  <2>10. StoreTypes'
    BY <1>3, <1>4, <2>1, <2>3, <2>7, <2>8, <2>9 DEF StoreTypes
  <2>11. CASE end < Len(v) /\ call' = [call EXCEPT !.pos = end] /\ UNCHANGED ret
    <3>1. call' = [call EXCEPT !.pc = "write", !.pos = end]
      BY <1>1, <2>1, <2>11 DEF PutCall
    <3>2. end \in Nat /\ end < Len(call.value) /\ ret' = ret
      BY <2>v, <2>5, <2>11
    <3>3. flash' = [call.before EXCEPT ![call.at] = IF "write" = "open" THEN NoValue
                                                    ELSE SubSeq(call.value, 1, end)]
      BY <2>v, <2>7
    <3> QED BY <1>6, <2>10, <3>1, <3>2, <3>3
  <2>12. CASE end = Len(v) /\ Return(Ok)
    BY <1>1, <2>v, <2>7, <2>8, <2>10, <2>12 DEF Kept, PutGoesOn, CallInv, Return
  <2>13. CASE Fails
    <3>1. end \in 0..Len(call.value)
      BY <2>v, <2>5
    <3>2. PutCut(call, flash')
      BY <2>v, <2>7, <3>1 DEF PutCut
    <3> QED BY <1>f, <2>10, <2>13, <3>2
  <2> QED BY <2>4, <2>5, <2>11, <2>12, <2>13
<1> QED BY <1>7, <1>8, <1>9

(* A batch is a sequence of entries for different addresses. *)
LEMMA BatchIs ==
    ASSUME NEW b \in Batches
    PROVE  /\ b \in Seq(Entry) /\ b # <<>> /\ Len(b) \in Nat /\ DOMAIN b = 1..Len(b)
           /\ \A i \in 1..Len(b) : /\ b[i].at \in Address /\ b[i].at[1] \in Dicts
                                   /\ b[i].value \in Values /\ b[i].value \in Seq(Byte)
           /\ \A i, j \in 1..Len(b) : b[i].at = b[j].at => i = j
<1>1. b \in Seq(Entry) /\ b # <<>>
  BY BatchAssumption, Zenon DEF Entry
<1>2. Len(b) \in Nat /\ DOMAIN b = 1..Len(b) /\ \A i \in 1..Len(b) : b[i] \in Entry
  BY <1>1
<1>3. \A e \in Entry : /\ e.at \in Address /\ e.at[1] \in Dicts
                       /\ e.value \in Values /\ e.value \in Seq(Byte)
  BY ValueAssumption DEF Entry, Address
<1>4. \A i, j \in 1..Len(b) : b[i].at = b[j].at => i = j
  BY <1>2, BatchAssumption
<1> QED BY <1>1, <1>2, <1>3, <1>4

(* The first n entries of a batch, applied: their addresses differ. *)
LEMMA AppliedIs ==
    ASSUME NEW b \in Batches, NEW n \in 0..Len(b), NEW a \in Address
    PROVE  /\ \A i \in 1..n : b[i].at = a => Applied(b, n)[a] = b[i].value
           /\ (\A i \in 1..n : b[i].at # a) => Applied(b, n)[a] = flash[a]
<1>1. 1..n \subseteq 1..Len(b)
  BY BatchIs
<1> DEFINE at == {i \in 1..n : b[i].at = a}
<1>2. Applied(b, n)[a] =
          IF at = {} THEN flash[a] ELSE b[CHOOSE i \in at : \A j \in at : j <= i].value
  BY DEF Applied
<1>3. ASSUME NEW i \in 1..n, b[i].at = a PROVE Applied(b, n)[a] = b[i].value
  <2>1. \A j \in at : j = i
    BY <1>1, <1>3, BatchIs
  <2>2. i \in at /\ \A j \in at : j <= i
    BY <1>3, <2>1
  <2>3. (CHOOSE k \in at : \A j \in at : j <= k) = i
    BY <2>1, <2>2
  <2> QED BY <1>2, <2>2, <2>3
<1>4. ASSUME \A i \in 1..n : b[i].at # a PROVE Applied(b, n)[a] = flash[a]
  BY <1>2, <1>4
<1> QED BY <1>3, <1>4

(* WriteKeyBatch: some of the entries from the start, all of them when Ok. *)
LEMMA BatchStep ==
    ASSUME StoreTypes, CallInv, write_batch, UNCHANGED ops
    PROVE  Kept /\ BatchEnds
<1>1. call \in BatchCall /\ InProgress(call)
  BY Running, CallKinds DEF write_batch
<1>b. PICK b \in Batches : b = call.entries
  BY <1>1 DEF BatchCall
<1>2. PICK n \in 0..Len(b) :
          /\ n > 0 => BatchFits(b)
          /\ flash' = Applied(b, n)
          /\ dicts' = dicts \cup {b[i].at[1] : i \in 1..n}
          /\ call' = NoCall
          /\ ret' = Err \/ (ret' = Ok /\ n = Len(b))
  BY <1>b DEF write_batch, Return, Fails
<1>3. 1..n \subseteq DOMAIN b /\ DOMAIN b = 1..Len(b)
  BY BatchIs
<1>4. \A i \in 1..n : /\ b[i].at \in Address /\ b[i].value \in Seq(Byte) /\ NameFits(b[i].at)
                      /\ b[i].at[1] \in Dicts
  <2> SUFFICES ASSUME NEW i \in 1..n
               PROVE  /\ b[i].at \in Address /\ b[i].value \in Seq(Byte) /\ NameFits(b[i].at)
                      /\ b[i].at[1] \in Dicts
    OBVIOUS
  <2>1. n > 0
    OBVIOUS
  <2>2. NameFits(b[i].at)
    BY <1>2, <1>3, <2>1 DEF BatchFits
  <2> QED BY <1>3, <2>2, BatchIs
<1>5. ASSUME NEW a \in Address
      PROVE  /\ Applied(b, n)[a] \in Seq(Byte) \cup {NoValue}
             /\ Applied(b, n)[a] # NoValue => a[1] \in dicts' /\ NameFits(a)
  <2>1. CASE \E i \in 1..n : b[i].at = a
    <3>1. PICK i \in 1..n : b[i].at = a
      BY <2>1
    <3> QED BY <1>2, <1>4, <3>1, AppliedIs
  <2>2. CASE \A i \in 1..n : b[i].at # a
    BY <1>2, <2>2, AppliedIs DEF StoreTypes, Flash
  <2> QED BY <2>1, <2>2
<1>6. flash' \in Flash
  BY <1>2, <1>5 DEF Applied, Flash
<1>7. StoreTypes'
  BY <1>2, <1>4, <1>5, <1>6, AnswerKinds DEF StoreTypes, NameFits, write_batch
<1> QED BY <1>1, <1>b, <1>2, <1>7 DEF Kept, BatchEnds, CallInv

(* A delete happens or does not, and Ok says that it did. *)
LEMMA DeleteStep ==
    ASSUME StoreTypes, CallInv, delete, UNCHANGED ops
    PROVE  Kept /\ DeleteEnds
<1>1. call \in DeleteCall /\ call.at \in Address
  BY Running, CallKinds DEF delete, DeleteCall
<1>2. DeleteEnds
  BY <1>1 DEF DeleteEnds, delete, Return, Fails
<1>3. /\ flash' \in Flash
      /\ \A a \in Address : flash'[a] # NoValue => flash[a] # NoValue
  BY <1>1 DEF StoreTypes, Flash, delete, Return, Fails
<1>4. StoreTypes'
  BY <1>2, <1>3, AnswerKinds DEF StoreTypes, NameFits, delete, DeleteEnds
<1> QED BY <1>2, <1>4 DEF Kept, CallInv, DeleteEnds

(* DeleteDict frees all keys of a dictionary, or fails with some freed. *)
LEMMA DictStep ==
    ASSUME StoreTypes, CallInv, delete_dict, UNCHANGED ops
    PROVE  Kept /\ DictEnds
<1>1. call \in DictCall /\ call.dict \in Dicts
  BY Running, CallKinds DEF delete_dict, DictCall
<1>2. PICK gone \in SUBSET InDict(call.dict) :
          /\ flash' = [a \in Address |-> IF a \in gone THEN NoValue ELSE flash[a]]
          /\ \/ /\ gone = InDict(call.dict)
                /\ dicts' = dicts \ {call.dict} /\ (Return(Ok) \/ Fails)
             \/ UNCHANGED dicts /\ Fails
  BY DEF delete_dict
<1>3. DictEnds
  BY <1>1, <1>2 DEF DictEnds, Return, Fails
<1>4. flash' \in Flash
  BY <1>2 DEF StoreTypes, Flash
<1>5. ASSUME NEW a \in Address, flash'[a] # NoValue PROVE a[1] \in dicts' /\ NameFits(a)
  <2>1. a \notin gone /\ flash[a] # NoValue
    BY <1>2, <1>5
  <2>2. a[1] \in dicts /\ NameFits(a)
    BY <2>1 DEF StoreTypes
  <2> QED BY <1>2, <2>1, <2>2 DEF InDict
<1>6. StoreTypes'
  BY <1>2, <1>4, <1>5, AnswerKinds DEF StoreTypes, NameFits, delete_dict, Return, Fails
<1> QED BY <1>3, <1>6 DEF Kept, CallInv, DictEnds

(* Every message keeps the state in order and does what its call may do. *)
LEMMA ClientGoesOn ==
    ASSUME StoreTypes, CallInv, ClientStep, UNCHANGED ops
    PROVE  /\ Kept
           /\ GetGoesOn \/ ListGoesOn \/ PutGoesOn \/ BatchEnds \/ DeleteEnds \/ DictEnds
BY GetStep, ListStep, PutStep, BatchStep, DeleteStep, DictStep DEF ClientStep

-----------------------------------------------------------------------------
(* Methods.                                                                *)

(* A call that has sent no message yet. *)
Fresh(c) ==
    /\ c \in Call /\ c.before = flash
    /\ c \in GetCall => c.pc = "open" /\ c.bytes = <<>>
    /\ c \in PutCall => c.pc = "delete" /\ c.pos = 0
    /\ c \in ListCall => c.pc = "count" /\ c.left = {} /\ c.keys = {}

(* The calls methods make are fresh. *)
LEMMA FreshCalls ==
    ASSUME StoreTypes
    PROVE  /\ \A a \in Address : Get(a) \in GetCall /\ Get(a).at = a /\ Fresh(Get(a))
           /\ \A a \in Address, v \in Values : Put(a, v) \in PutCall /\ Fresh(Put(a, v))
           /\ \A b \in Batches : PutBatch(b) \in BatchCall /\ Fresh(PutBatch(b))
           /\ \A a \in Address : Delete(a) \in DeleteCall /\ Fresh(Delete(a))
           /\ \A d \in Dicts : DeleteDict(d) \in DictCall /\ Fresh(DeleteDict(d))
                               /\ DeleteDict(d).dict = d
           /\ \A d \in Dicts : ListKeys(d) \in ListCall /\ Fresh(ListKeys(d))
                               /\ ListKeys(d).dict = d
<1>0. flash \in Flash /\ <<>> \in Seq(Byte)
  BY DEF StoreTypes
<1>1. ASSUME NEW a \in Address PROVE Get(a) \in GetCall /\ Get(a).at = a /\ Fresh(Get(a))
  <2>1. /\ Get(a) \in GetCall /\ Get(a).at = a /\ Get(a).before = flash
        /\ Get(a).pc = "open" /\ Get(a).bytes = <<>> /\ Get(a).op = "get"
    BY <1>0 DEF Get, GetCall
  <2>2. Get(a) \in Call
    BY <2>1 DEF Call
  <2> QED BY <2>1, <2>2, CallKinds DEF Fresh
<1>2. ASSUME NEW a \in Address, NEW v \in Values PROVE Put(a, v) \in PutCall /\ Fresh(Put(a, v))
  <2>1. /\ Put(a, v) \in PutCall /\ Put(a, v).before = flash
        /\ Put(a, v).pc = "delete" /\ Put(a, v).pos = 0 /\ Put(a, v).op = "put"
    BY <1>0 DEF Put, PutCall
  <2>2. Put(a, v) \in Call
    BY <2>1 DEF Call
  <2> QED BY <2>1, <2>2, CallKinds DEF Fresh
<1>3. ASSUME NEW b \in Batches PROVE PutBatch(b) \in BatchCall /\ Fresh(PutBatch(b))
  <2>1. PutBatch(b) \in BatchCall /\ PutBatch(b).before = flash /\ PutBatch(b).op = "put_batch"
    BY <1>0 DEF PutBatch, BatchCall
  <2>2. PutBatch(b) \in Call
    BY <2>1 DEF Call
  <2> QED BY <2>1, <2>2, CallKinds DEF Fresh
<1>4. ASSUME NEW a \in Address PROVE Delete(a) \in DeleteCall /\ Fresh(Delete(a))
  <2>1. Delete(a) \in DeleteCall /\ Delete(a).before = flash /\ Delete(a).op = "delete"
    BY <1>0 DEF Delete, DeleteCall
  <2>2. Delete(a) \in Call
    BY <2>1 DEF Call
  <2> QED BY <2>1, <2>2, CallKinds DEF Fresh
<1>5. ASSUME NEW d \in Dicts
      PROVE  DeleteDict(d) \in DictCall /\ Fresh(DeleteDict(d)) /\ DeleteDict(d).dict = d
  <2>1. /\ DeleteDict(d) \in DictCall /\ DeleteDict(d).before = flash /\ DeleteDict(d).dict = d
        /\ DeleteDict(d).op = "delete_dict"
    BY <1>0 DEF DeleteDict, DictCall
  <2>2. DeleteDict(d) \in Call
    BY <2>1 DEF Call
  <2> QED BY <2>1, <2>2, CallKinds DEF Fresh
<1>6. ASSUME NEW d \in Dicts
      PROVE  ListKeys(d) \in ListCall /\ Fresh(ListKeys(d)) /\ ListKeys(d).dict = d
  <2>1. /\ ListKeys(d) \in ListCall /\ ListKeys(d).before = flash /\ ListKeys(d).dict = d
        /\ ListKeys(d).pc = "count" /\ ListKeys(d).left = {} /\ ListKeys(d).keys = {}
        /\ ListKeys(d).op = "list_keys"
    BY <1>0 DEF ListKeys, ListCall
  <2>2. ListKeys(d) \in Call
    BY <2>1 DEF Call
  <2> QED BY <2>1, <2>2, CallKinds DEF Fresh
<1> QED BY <1>1, <1>2, <1>3, <1>4, <1>5, <1>6

(* A fresh call is in progress as it should be. *)
LEMMA FreshRuns ==
    ASSUME StoreTypes, NEW c, Fresh(c), call' = c, UNCHANGED flash
    PROVE  CallInv' /\ c # NoCall
<1>1. c \in PutCall => c.value \in Seq(Byte) /\ 0 < Len(c.value)
  BY ValueAssumption DEF PutCall
<1>2. InProgress(c)'
  <2>1. c \in GetCall => flash' = c.before /\ c.pc = "open" /\ c.bytes = <<>>
    BY DEF Fresh
  <2>2. c \in PutCall => flash' = c.before /\ c.pc = "delete" /\ c.pos = 0 /\ c.pos < Len(c.value)
    BY <1>1 DEF Fresh
  <2>3. c \in ListCall => /\ flash' = c.before /\ c.pc = "count"
                          /\ c.keys \cup c.left = {}
    BY DEF Fresh
  <2>4. flash' = c.before
    BY DEF Fresh
  <2> QED BY <2>1, <2>2, <2>3, <2>4 DEF InProgress
<1>3. c \in Call
  BY DEF Fresh
<1>4. InProgress(call)'
  BY <1>2 DEF InProgress, KeysIn
<1> QED BY <1>3, <1>4, CallKinds DEF CallInv

(* What the shape of a method says. *)
LEMMA Shapes ==
    ASSUME MethodInv
    PROVE  /\ method.shape = "none" => method = NoMethod /\ call = NoCall
           /\ method.shape = "save" => AwaitsDone(PutCall \cup DeleteCall)
           /\ method.shape = "load" =>
                 method \in LoadMethod /\ Awaits(<<method.dict, method.key>>)
           /\ method.shape = "registered" => \E a \in Address : Awaits(a)
           /\ method.shape = "probe" =>
                 /\ method \in ProbeMethod /\ \E a \in Address : Awaits(a)
                 /\ method.then.before = flash
                 /\ method.then \in PutCall => method.then.pc = "delete" /\ method.then.pos = 0
           /\ method.shape = "change" =>
                 method \in ChangeMethod /\ AwaitsDone(PutCall \cup DeleteCall)
           /\ method.shape = "list" =>
                 /\ method \in ListMethod /\ method.keys = <<>> /\ method.items = <<>>
                 /\ \/ call \in ListCall /\ call.dict = method.dict
                    \/ call = NoCall /\ ret \in {Err, KeyNames(KeysIn(method.dict))}
           /\ method.shape = "items" => method \in ListMethod /\ Reads(method)
           /\ method.shape = "wipe" =>
                 method \in WipeMethod /\ AwaitsDone(DictCall) /\ Clears(method)
           /\ method.shape = "commit" =>
                 method \in CommitMethod /\ method.todo # <<>> /\ AwaitsDone(BatchCall)
           /\ method.shape = "fallback" => method \in CommitMethod /\ AwaitsDone(PutCall)
           /\ method.shape \in {"none", "save", "load", "registered", "probe", "change", "list",
                                "items", "wipe", "commit", "fallback"}
<1>1. /\ NoMethod.shape = "none" /\ [shape |-> "save"].shape = "save"
      /\ [shape |-> "registered"].shape = "registered"
      /\ \A m \in LoadMethod : m.shape = "load"
      /\ \A m \in ProbeMethod : m.shape = "probe"
      /\ \A m \in ChangeMethod : m.shape = "change"
      /\ \A m \in WipeMethod : m.shape = "wipe"
  BY DEF NoMethod, LoadMethod, ProbeMethod, ChangeMethod, WipeMethod
<1> QED BY <1>1, Zenon DEF MethodInv

(* A method has started, with a fresh call. *)
StartsFresh == \E m, c : Start(m, c) /\ Fresh(c)

(* A start leaves the server alone. *)
LEMMA Starts ==
    ASSUME IInv, NEW m, NEW c, Start(m, c), Fresh(c)
    PROVE  StoreTypes' /\ CallInv' /\ call = NoCall /\ UNCHANGED flash /\ StartsFresh
<1>1. method.shape = "none"
  BY DEF Start, NoMethod
<1>2. call = NoCall
  BY <1>1, Shapes DEF IInv
<1>3. CallInv'
  BY FreshRuns DEF Start, IInv
<1>4. ops' \in 0..MaxOps
  <2>1. MaxOps \in Nat
    BY ContentStoreAssumption
  <2> QED BY <2>1 DEF Start, IInv, StoreTypes
<1>5. StoreTypes'
  BY <1>4 DEF Start, IInv, StoreTypes, NameFits
<1> QED BY <1>2, <1>3, <1>5 DEF StartsFresh, Start

(* One lemma for the start of each shape. *)
LEMMA SaveStarts ==
    ASSUME IInv, NEW d \in Dicts, NEW k \in Keys, NEW v \in Values, Save(d, k, v)
    PROVE  IInv' /\ StartsFresh
<1>1. <<d, k>> \in Address
  BY DEF Address
<1>2. PICK c \in PutCall : c = Put(<<d, k>>, v) /\ Fresh(c)
  BY <1>1, FreshCalls DEF IInv
<1>3. Start([shape |-> "save"], c)
  BY <1>2 DEF Save
<1>4. MethodInv'
  BY <1>3 DEF Start, MethodInv, AwaitsDone
<1> QED BY <1>2, <1>3, <1>4, Starts DEF IInv

(* forget_master_key *)
LEMMA ForgetStarts ==
    ASSUME IInv, NEW k \in Keys, forget_master_key(k)
    PROVE  IInv' /\ StartsFresh
<1>1. <<"state", k>> \in Address
  BY ContentStoreAssumption DEF Address, NamedDicts
<1>2. PICK c \in DeleteCall : c = Delete(<<"state", k>>) /\ Fresh(c)
  BY <1>1, FreshCalls DEF IInv
<1>3. Start([shape |-> "save"], c)
  BY <1>2 DEF forget_master_key
<1>4. MethodInv'
  BY <1>3 DEF Start, MethodInv, AwaitsDone
<1> QED BY <1>2, <1>3, <1>4, Starts DEF IInv

(* One get. *)
LEMMA LoadStarts ==
    ASSUME IInv, NEW d \in Dicts, NEW k \in Keys, Load(d, k)
    PROVE  IInv' /\ StartsFresh
<1>1. <<d, k>> \in Address
  BY DEF Address
<1>2. PICK c \in GetCall : c = Get(<<d, k>>) /\ Fresh(c) /\ c.at = <<d, k>>
  BY <1>1, FreshCalls DEF IInv
<1>3. PICK m \in LoadMethod : m = [shape |-> "load", dict |-> d, key |-> k]
  BY DEF LoadMethod
<1>4. m.dict = d /\ m.key = k /\ Start(m, c)
  BY <1>2, <1>3 DEF Load
<1>5. MethodInv'
  BY <1>2, <1>4 DEF Start, MethodInv, Awaits
<1> QED BY <1>2, <1>4, <1>5, Starts DEF IInv

(* is_registered *)
LEMMA LookStarts ==
    ASSUME IInv, NEW k \in Keys, is_registered(k)
    PROVE  IInv' /\ StartsFresh
<1>1. <<"state", k>> \in Address
  BY ContentStoreAssumption DEF Address, NamedDicts
<1>2. PICK c \in GetCall : c = Get(<<"state", k>>) /\ Fresh(c) /\ c.at = <<"state", k>>
  BY <1>1, FreshCalls DEF IInv
<1>3. Start([shape |-> "registered"], c)
  BY <1>2 DEF is_registered
<1>4. MethodInv'
  BY <1>1, <1>2, <1>3 DEF Start, MethodInv, Awaits
<1> QED BY <1>2, <1>3, <1>4, Starts DEF IInv

(* A get, to be followed by the put or the delete. *)
LEMMA ProbeStarts ==
    ASSUME IInv, NEW d \in Dicts, NEW k \in Keys,
           ProbeThenDelete(d, k) \/ \E v \in Values : ProbeThenPut(d, k, v)
    PROVE  IInv' /\ StartsFresh
<1>1. <<d, k>> \in Address
  BY DEF Address
<1>2. PICK c \in GetCall : c = Get(<<d, k>>) /\ Fresh(c) /\ c.at = <<d, k>>
  BY <1>1, FreshCalls DEF IInv
<1>3. PICK t \in PutCall \cup DeleteCall :
          Fresh(t) /\ Start([shape |-> "probe", then |-> t], c)
  BY <1>1, <1>2, FreshCalls DEF IInv, ProbeThenDelete, ProbeThenPut
<1>m. PICK m : m = [shape |-> "probe", then |-> t]
  OBVIOUS
<1>4. m \in ProbeMethod /\ m.then = t
  BY <1>m DEF ProbeMethod
<1>5. t.before = flash /\ (t \in PutCall => t.pc = "delete" /\ t.pos = 0)
  BY <1>3 DEF Fresh
<1>6. MethodInv'
  BY <1>1, <1>2, <1>3, <1>m, <1>4, <1>5 DEF Start, MethodInv, Awaits
<1> QED BY <1>2, <1>3, <1>6, Starts DEF IInv

(* list_keys, to be followed by gets. *)
LEMMA ListStarts ==
    ASSUME IInv, NEW d \in Dicts, NEW range \in SUBSET Nat, List(d, range)
    PROVE  IInv' /\ StartsFresh
<1>1. PICK c \in ListCall : c = ListKeys(d) /\ Fresh(c) /\ c.dict = d
  BY FreshCalls DEF IInv
<1>2. PICK m : m = [shape |-> "list", dict |-> d, range |-> range, keys |-> <<>>, items |-> <<>>]
  OBVIOUS
<1>3. <<>> \in Seq(Keys) /\ <<>> \in Seq(Item)
  OBVIOUS
<1>4. /\ m \in ListMethod /\ m.shape = "list" /\ m.dict = d /\ m.keys = <<>> /\ m.items = <<>>
  BY <1>2, <1>3 DEF ListMethod
<1>5. Start(m, c)
  BY <1>1, <1>2 DEF List
<1>6. MethodInv'
  BY <1>1, <1>4, <1>5 DEF Start, MethodInv
<1> QED BY <1>1, <1>5, <1>6, Starts DEF IInv

(* delete_dict of the first dictionary, the others to follow. *)
LEMMA WipeStarts ==
    ASSUME IInv, NEW of \in WipeOf, NEW todo \in Seq(Dicts), todo # <<>>, Wipe(of, todo),
           of = "clear" => \A d \in NamedDicts \ {"sticker_packs"} :
                              \E i \in 1..Len(todo) : todo[i] = d
    PROVE  IInv' /\ StartsFresh
<1>1. /\ Head(todo) \in Dicts /\ Tail(todo) \in Seq(Dicts) /\ Head(todo) = todo[1]
      /\ Len(todo) \in Nat /\ Len(Tail(todo)) = Len(todo) - 1
      /\ \A i \in 1..Len(Tail(todo)) : Tail(todo)[i] = todo[i + 1]
  BY HeadTailProperties
<1>2. PICK c \in DictCall : c = DeleteDict(Head(todo)) /\ Fresh(c) /\ c.dict = Head(todo)
  BY <1>1, FreshCalls DEF IInv
<1>3. PICK m \in WipeMethod : m = [shape |-> "wipe", of |-> of, todo |-> Tail(todo)]
  BY <1>1 DEF WipeMethod
<1>4. m.of = of /\ m.todo = Tail(todo) /\ Start(m, c)
  BY <1>2, <1>3 DEF Wipe
<1>5. ASSUME NEW i \in 1..Len(todo)
      PROVE  todo[i] = c.dict \/ \E j \in 1..Len(m.todo) : m.todo[j] = todo[i]
  <2>1. CASE i = 1
    BY <1>1, <1>2, <2>1
  <2>2. CASE i # 1
    <3>1. i - 1 \in 1..Len(Tail(todo)) /\ (i - 1) + 1 = i
      BY <1>1, <2>2
    <3> QED BY <1>1, <1>4, <3>1
  <2> QED BY <2>1, <2>2
<1>6. Clears(m)'
  BY <1>2, <1>4, <1>5 DEF Clears, Start
<1>7. MethodInv'
  <2>1. method' = m /\ call' = c
    BY <1>4 DEF Start
  <2>2. Clears(method)' /\ AwaitsDone(DictCall)'
    BY <1>2, <1>6, <2>1 DEF Clears, Gone, AwaitsDone
  <2> QED BY <2>1, <2>2 DEF MethodInv
<1> QED BY <1>2, <1>4, <1>7, Starts DEF IInv

(* put_batch, to be followed by puts if it fails. *)
LEMMA CommitStarts ==
    ASSUME IInv, NEW b \in Batches, commit_writes(b)
    PROVE  IInv' /\ StartsFresh
<1>1. PICK c \in BatchCall : c = PutBatch(b) /\ Fresh(c)
  BY FreshCalls DEF IInv
<1>2. PICK m : m = [shape |-> "commit", todo |-> b, ok |-> TRUE]
  OBVIOUS
<1>3. m \in CommitMethod /\ m.shape = "commit" /\ m.todo = b /\ b # <<>>
  BY <1>2, BatchIs DEF CommitMethod
<1>4. Start(m, c)
  BY <1>1, <1>2 DEF commit_writes
<1>5. MethodInv'
  BY <1>1, <1>3, <1>4 DEF Start, MethodInv, AwaitsDone
<1> QED BY <1>1, <1>4, <1>5, Starts DEF IInv

(* The dictionaries clear drops are all but the sticker packs and threads. *)
LEMMA ClearedIs ==
    /\ ContentsDicts \in Seq(Dicts) /\ ContentsDicts # <<>>
    /\ ClearedDicts \in Seq(Dicts) /\ ClearedDicts # <<>>
    /\ \A d \in NamedDicts \ {"sticker_packs"} : \E i \in 1..Len(ClearedDicts) : ClearedDicts[i] = d
<1>1. NamedDicts \subseteq Dicts
  BY ContentStoreAssumption
<1>2. PICK c : c = ContentsDicts
  OBVIOUS
<1>3. /\ c \in Seq(Dicts) /\ Len(c) = 6
      /\ c[1] = "contacts" /\ c[2] = "groups" /\ c[3] = "group_avatars"
      /\ c[4] = "profiles" /\ c[5] = "profile_keys" /\ c[6] = "profile_avatars"
  BY <1>1, <1>2 DEF ContentsDicts, NamedDicts
<1>f. PICK f : f = <<"state">>
  OBVIOUS
<1>g. f \in Seq(Dicts) /\ Len(f) = 1 /\ f[1] = "state"
  BY <1>1, <1>f DEF NamedDicts
<1>l. PICK l : l = <<"sender_key">>
  OBVIOUS
<1>4. l \in Seq(Dicts) /\ Len(l) = 1 /\ l[1] = "sender_key"
  BY <1>1, <1>l DEF NamedDicts
<1>5. PICK s : s = f \o c
  OBVIOUS
<1>6. s \in Seq(Dicts) /\ Len(s) = 7 /\ \A i \in 1..7 : s[i] = IF i <= 1 THEN f[i] ELSE c[i - 1]
  <2>1. /\ s \in Seq(Dicts) /\ Len(s) = Len(f) + Len(c)
        /\ \A i \in 1..Len(f) + Len(c) : s[i] = IF i <= Len(f) THEN f[i] ELSE c[i - Len(f)]
    BY ONLY <1>3, <1>g, <1>5, ConcatProperties
  <2> QED BY ONLY <1>3, <1>g, <2>1
<1>7. PICK z : z = s \o l
  OBVIOUS
<1>8. z \in Seq(Dicts) /\ Len(z) = 8 /\ \A i \in 1..8 : z[i] = IF i <= 7 THEN s[i] ELSE l[i - 7]
  <2>1. /\ z \in Seq(Dicts) /\ Len(z) = Len(s) + Len(l)
        /\ \A i \in 1..Len(s) + Len(l) : z[i] = IF i <= Len(s) THEN s[i] ELSE l[i - Len(s)]
    BY ONLY <1>4, <1>6, <1>7, ConcatProperties
  <2> QED BY ONLY <1>4, <1>6, <2>1
<1>9. z = ClearedDicts
  BY <1>2, <1>f, <1>l, <1>5, <1>7 DEF ClearedDicts
<1>10. /\ z[1] = "state" /\ z[2] = "contacts" /\ z[3] = "groups" /\ z[4] = "group_avatars"
       /\ z[5] = "profiles" /\ z[6] = "profile_keys" /\ z[7] = "profile_avatars"
       /\ z[8] = "sender_key"
  BY ONLY <1>3, <1>g, <1>4, <1>6, <1>8
<1>11. \A d \in NamedDicts \ {"sticker_packs"} : \E i \in 1..8 : z[i] = d
  <2>1. /\ 1 \in 1..8 /\ 2 \in 1..8 /\ 3 \in 1..8 /\ 4 \in 1..8 /\ 5 \in 1..8 /\ 6 \in 1..8
        /\ 7 \in 1..8 /\ 8 \in 1..8
    OBVIOUS
  <2> QED BY <1>10, <2>1, Zenon DEF NamedDicts
<1>12. c # <<>> /\ z # <<>>
  <2>1. PICK e : e = <<>>
    OBVIOUS
  <2>2. Len(e) = 0
    BY <2>1
  <2>3. c # e
    BY ONLY <1>3, <2>2
  <2>4. Len(z) = 8
    BY <1>8
  <2>5. z # e
    BY ONLY <2>2, <2>4
  <2> QED BY <2>1, <2>3, <2>5
<1> QED BY <1>2, <1>3, <1>8, <1>9, <1>11, <1>12

(* Every method starts as it should. *)
LEMMA StartStep ==
    ASSUME IInv, Next
    PROVE  \/ IInv' /\ StartsFresh
           \/ Resume \/ ClientRuns \/ (try_mount /\ UNCHANGED svars) \/ Restart
<1>n. /\ "state" \in Dicts /\ "contacts" \in Dicts /\ "groups" \in Dicts
      /\ "group_avatars" \in Dicts /\ "profiles" \in Dicts /\ "profile_keys" \in Dicts
      /\ "profile_avatars" \in Dicts /\ "sticker_packs" \in Dicts /\ "sender_key" \in Dicts
      /\ Threads \subseteq Dicts /\ Keys \subseteq Nat
  BY ContentStoreAssumption DEF NamedDicts
<1>1. ASSUME NEW k \in Keys, NEW v \in Values,
             \/ save_contact(k, v) \/ save_group(k, v) \/ save_group_avatar(k, v)
             \/ save_profile(k, v) \/ save_profile_avatar(k, v) \/ upsert_profile_key(k, v)
             \/ add_sticker_pack(k, v) \/ save_state(k, v) \/ store_sender_key(k, v)
             \/ \E t \in Threads : save_message(t, k, v)
      PROVE  IInv' /\ StartsFresh
  <2>1. ASSUME NEW d \in Dicts, Save(d, k, v) PROVE IInv' /\ StartsFresh
    BY <2>1, SaveStarts
  <2>2. CASE upsert_profile_key(k, v)
    BY <1>n, <2>2, ProbeStarts DEF upsert_profile_key
  <2> QED BY <1>1, <1>n, <2>1, <2>2
          DEF save_contact, save_group, save_group_avatar, save_profile, save_profile_avatar,
              add_sticker_pack, save_state, store_sender_key, save_message
<1>2. ASSUME NEW k \in Keys,
             \/ contact_by_id(k) \/ group(k) \/ group_avatar(k) \/ profile(k)
             \/ profile_avatar(k) \/ profile_key(k) \/ sticker_pack(k) \/ remove_sticker_pack(k)
             \/ load_state(k) \/ is_registered(k) \/ forget_master_key(k) \/ load_sender_key(k)
             \/ \E t \in Threads : message(t, k) \/ delete_message(t, k)
      PROVE  IInv' /\ StartsFresh
  <2>1. ASSUME NEW d \in Dicts, Load(d, k) PROVE IInv' /\ StartsFresh
    BY <2>1, LoadStarts
  <2>2. ASSUME NEW d \in Dicts, ProbeThenDelete(d, k) PROVE IInv' /\ StartsFresh
    BY <2>2, ProbeStarts
  <2> QED BY <1>2, <1>n, <2>1, <2>2, LookStarts, ForgetStarts
          DEF contact_by_id, group, group_avatar, profile, profile_avatar, profile_key,
              sticker_pack, remove_sticker_pack, load_state, load_sender_key, message,
              delete_message
<1>3. ASSUME \/ contacts \/ groups \/ sticker_packs
             \/ \E t \in Threads : \E j, k \in Keys : messages(t, j, k)
      PROVE  IInv' /\ StartsFresh
  <2>1. \A j, k \in Keys : j..k \in SUBSET Nat
    BY <1>n
  <2>2. Keys \in SUBSET Nat
    BY <1>n
  <2> QED BY <1>3, <1>n, <2>1, <2>2, ListStarts DEF contacts, groups, sticker_packs, messages
<1>4. ASSUME \/ \E t \in Threads : clear_thread(t)
             \/ clear_contacts \/ clear_groups \/ clear_profiles \/ clear_contents
             \/ clear_registration \/ clear
      PROVE  IInv' /\ StartsFresh
  <2>1. ASSUME NEW of \in WipeOf, of # "clear", NEW todo \in Seq(Dicts), todo # <<>>,
               Wipe(of, todo)
        PROVE  IInv' /\ StartsFresh
    BY <2>1, WipeStarts
  <2>2. CASE clear
    BY <2>2, ClearedIs, WipeStarts DEF clear, WipeOf
  <2>3. CASE clear_contents
    BY <2>1, <2>3, ClearedIs DEF clear_contents, WipeOf
  <2>4. ASSUME NEW t \in Threads, clear_thread(t) PROVE IInv' /\ StartsFresh
    <3>1. <<t>> \in Seq(Dicts) /\ <<t>> # <<>>
      BY <1>n
    <3> QED BY <2>1, <2>4, <3>1 DEF clear_thread, WipeOf
  <2>5. /\ <<"contacts">> \in Seq(Dicts) /\ <<"contacts">> # <<>>
        /\ <<"state">> \in Seq(Dicts) /\ <<"state">> # <<>>
    BY <1>n
  <2>6. <<"groups", "group_avatars">> \in Seq(Dicts) /\ <<"groups", "group_avatars">> # <<>>
    BY <1>n
  <2>7. /\ <<"profiles", "profile_keys", "profile_avatars">> \in Seq(Dicts)
        /\ <<"profiles", "profile_keys", "profile_avatars">> # <<>>
    BY <1>n
  <2>8. CASE clear_contacts
    BY <2>1, <2>5, <2>8 DEF clear_contacts, WipeOf
  <2>9. CASE clear_registration
    BY <2>1, <2>5, <2>9 DEF clear_registration, WipeOf
  <2>10. CASE clear_groups
    BY <2>1, <2>6, <2>10 DEF clear_groups, WipeOf
  <2>11. CASE clear_profiles
    BY <2>1, <2>7, <2>11 DEF clear_profiles, WipeOf
  <2> QED BY <1>4, <2>2, <2>3, <2>4, <2>8, <2>9, <2>10, <2>11
<1>5. ASSUME NEW b \in Batches, commit_writes(b) PROVE IInv' /\ StartsFresh
  BY <1>5, CommitStarts
<1> QED BY <1>1, <1>2, <1>3, <1>4, <1>5 DEF Next

(* A method has gone on: it has made its next call, or has returned. *)
ResumesFresh ==
    /\ Idle /\ UNCHANGED flash
    /\ \/ \E m, c : Calls(m, c) /\ Fresh(c)
       \/ \E r : Returns(r)

(* A method that returns leaves everything as it is. *)
LEMMA ReturnsIdle ==
    ASSUME IInv, Idle, NEW r, Returns(r)
    PROVE  IInv' /\ ResumesFresh
<1>1. StoreTypes' /\ CallInv'
  BY AnswerKinds DEF IInv, Idle, Returns, StoreTypes, CallInv, NameFits
<1>2. MethodInv'
  BY DEF Idle, Returns, MethodInv
<1> QED BY <1>1, <1>2 DEF IInv, ResumesFresh, Returns

(* So does one that makes its next call. *)
LEMMA CallsFresh ==
    ASSUME IInv, Idle, NEW m, NEW c, Calls(m, c), Fresh(c)
    PROVE  StoreTypes' /\ CallInv' /\ UNCHANGED flash /\ ResumesFresh
<1>1. CallInv'
  BY FreshRuns DEF IInv, Calls
<1>2. StoreTypes'
  BY AnswerKinds DEF IInv, Calls, StoreTypes, NameFits
<1> QED BY <1>1, <1>2 DEF ResumesFresh, Calls

(* The methods of one call. *)
LEMMA OneCallResumes ==
    ASSUME IInv, saved \/ loaded \/ looked_up \/ changed
    PROVE  IInv' /\ ResumesFresh
<1>1. Idle /\ \E r : Returns(r)
  BY DEF saved, loaded, looked_up, changed, Resumes
<1> QED BY <1>1, ReturnsIdle

(* The put or the delete after the get. *)
LEMMA ProbedResumes ==
    ASSUME IInv, probed
    PROVE  IInv' /\ ResumesFresh
<1>1. Idle /\ method.shape = "probe"
  BY DEF probed, Resumes
<1>2. CASE \E r : Returns(r)
  BY <1>1, <1>2, ReturnsIdle
<1>3. CASE Calls([shape |-> "change", existed |-> ret.cell # NoValue], method.then)
  <2>1. /\ method \in ProbeMethod /\ method.then.before = flash
        /\ method.then \in PutCall => method.then.pc = "delete" /\ method.then.pos = 0
    BY <1>1, Shapes DEF IInv
  <2>2. PICK c \in PutCall \cup DeleteCall : c = method.then
    BY <2>1 DEF ProbeMethod
  <2>3. c \in Call
    BY DEF Call
  <2>4. Fresh(c)
    BY <2>1, <2>2, <2>3, CallKinds DEF Fresh
  <2>5. PICK m : m = [shape |-> "change", existed |-> ret.cell # NoValue]
    OBVIOUS
  <2>6. m \in ChangeMethod
    BY <2>5 DEF ChangeMethod
  <2>7. Calls(m, c)
    BY <1>3, <2>2, <2>5
  <2>8. MethodInv'
    BY <2>6, <2>7 DEF MethodInv, AwaitsDone, Calls
  <2> QED BY <1>1, <2>4, <2>7, <2>8, CallsFresh DEF IInv
<1> QED BY <1>2, <1>3 DEF probed

(* An order of some keys is a sequence of them. *)
LEMMA OrdersIs ==
    ASSUME NEW d, NEW S \in SUBSET Keys, NEW keys \in Orders(d, S)
    PROVE  keys \in Seq(Keys) /\ Len(keys) \in Nat /\ \A i \in 1..Len(keys) : keys[i] \in S
<1>1. Cardinality(S) \in Nat
  BY ContentStoreAssumption, FS_Subset, FS_CardinalityType
<1>2. PICK n \in Nat : keys \in [1..n -> S]
  BY <1>1 DEF Orders, SetToSeqs
<1> QED BY <1>2

(* The listing is over, and the first get is made. *)
LEMMA ListedResumes ==
    ASSUME IInv, listed
    PROVE  IInv' /\ ResumesFresh
<1>1. Idle /\ method.shape = "list"
  BY DEF listed, Resumes
<1>2. CASE \E r : Returns(r)
  BY <1>1, <1>2, ReturnsIdle
<1>3. ASSUME ret # Err, NEW keys \in Orders(method.dict, ret.keys \cap method.range),
             keys # <<>>,
             Calls([method EXCEPT !.shape = "items", !.keys = keys],
                   Get(<<method.dict, Head(keys)>>))
      PROVE  IInv' /\ ResumesFresh
  <2>1. /\ method \in ListMethod /\ method.keys = <<>> /\ method.items = <<>>
        /\ ret = KeyNames(KeysIn(method.dict))
    BY <1>1, <1>3, Shapes, CallKinds DEF IInv, Idle, CallInv, Call
  <2>2. ret.keys = KeysIn(method.dict)
    BY <2>1, AnswerKinds
  <2>3. PICK d \in Dicts : d = method.dict
    BY <2>1 DEF ListMethod
  <2>4. PICK range \in SUBSET Nat : range = method.range
    BY <2>1 DEF ListMethod
  <2>5. KeysIn(d) \cap range \in SUBSET Keys /\ keys \in Orders(d, KeysIn(d) \cap range)
    BY <1>3, <2>2, <2>3, <2>4 DEF KeysIn
  <2>6. keys \in Seq(Keys) /\ Len(keys) \in Nat
    BY <2>5, OrdersIs
  <2>7. keys[1] \in Keys /\ Head(keys) = keys[1]
    BY <1>3, <2>6
  <2>8. <<d, keys[1]>> \in Address
    BY <2>7 DEF Address
  <2>9. PICK c \in GetCall : c = Get(<<d, keys[1]>>) /\ Fresh(c) /\ c.at = <<d, keys[1]>>
    BY <2>8, FreshCalls DEF IInv
  <2>10. PICK m : m = [method EXCEPT !.shape = "items", !.keys = keys]
    OBVIOUS
  <2>11. /\ m \in ListMethod /\ m.shape = "items" /\ m.keys = keys /\ m.items = <<>>
         /\ m.dict = d /\ m.range = range
    BY <2>1, <2>3, <2>4, <2>6, <2>10 DEF ListMethod
  <2>12. Calls(m, c)
    BY <1>3, <2>3, <2>7, <2>9, <2>10
  <2>13. method' = m /\ call' = c /\ flash' = flash
    BY <2>12 DEF Calls
  <2>14. /\ Len(<<>>) = 0 /\ 1..0 = {}
         /\ Len(keys) = 0 + Len(keys) /\ \A i \in 1..Len(keys) : 0 + i = i
    BY <2>6
  <2>15. Reads(method)'
    <3>1. Awaits(<<method.dict, method.keys[1]>>)'
      BY <2>9, <2>11, <2>13 DEF Awaits
    <3>2. KeysIn(method.dict)' = KeysIn(d)
      BY <2>11, <2>13 DEF KeysIn
    <3>3. keys \in Orders(method'.dict, KeysIn(method.dict)' \cap method'.range)
      BY <2>5, <2>11, <2>13, <3>2
    <3>4. /\ Len(keys) = Len(method'.items) + Len(method'.keys)
          /\ \A i \in 1..Len(method'.keys) : method'.keys[i] = keys[Len(method'.items) + i]
          /\ 1..Len(method'.items) = {}
      BY <2>11, <2>13, <2>14
    <3>5. method'.keys # <<>>
      BY <1>3, <2>11, <2>13
    <3> HIDE DEF Awaits, KeysIn, Orders
    <3> QED BY <3>1, <3>3, <3>4, <3>5 DEF Reads
  <2>16. MethodInv'
    BY <2>11, <2>13, <2>15 DEF MethodInv
  <2> QED BY <1>1, <2>9, <2>12, <2>16, CallsFresh DEF IInv
<1> QED BY <1>2, <1>3 DEF listed

(* The items read and the keys still to be read are a listing of d. *)
ReadSoFar(d, range, items, rest) ==
    \E all \in Orders(d, KeysIn(d) \cap range) :
       /\ all \in Seq(Keys)
       /\ Len(all) = Len(items) + Len(rest)
       /\ \A i \in 1..Len(rest) : rest[i] = all[Len(items) + i]
       /\ \A i \in 1..Len(items) :
             /\ items[i].key = all[i]
             /\ items[i].value \in {Torn} \cup (Values \cap {flash[<<d, all[i]>>]})

(* What has been read so far, with the answer just in, is true. *)
LEMMA ItemIs ==
    ASSUME IInv, Resumes("items"), NEW got,
           got = IF ret # Err /\ ret.cell \in Values THEN ret.cell ELSE Torn,
           NEW e, e = [key |-> Head(method.keys), value |-> got],
           NEW items, items = Append(method.items, e),
           NEW rest, rest = Tail(method.keys)
    PROVE  /\ items \in Seq(Item) /\ rest \in Seq(Keys) /\ method \in ListMethod
           /\ ReadSoFar(method.dict, method.range, items, rest)
<1>1. method \in ListMethod /\ Reads(method) /\ Idle
  BY Shapes DEF IInv, Resumes
<1>d. PICK d \in Dicts : d = method.dict
  BY <1>1 DEF ListMethod
<1>k. PICK keys \in Seq(Keys) : keys = method.keys
  BY <1>1 DEF ListMethod
<1>i. PICK old \in Seq(Item) : old = method.items
  BY <1>1 DEF ListMethod
<1>2. keys # <<>> /\ Awaits(<<d, keys[1]>>)
  BY <1>1, <1>d, <1>k DEF Reads
<1>3. PICK all \in Orders(d, KeysIn(d) \cap method.range) :
          /\ Len(all) = Len(old) + Len(keys)
          /\ \A i \in 1..Len(keys) : keys[i] = all[Len(old) + i]
          /\ \A i \in 1..Len(old) :
                /\ old[i].key = all[i]
                /\ old[i].value \in {Torn} \cup (Values \cap {flash[<<d, all[i]>>]})
  BY <1>1, <1>d, <1>k, <1>i DEF Reads
<1>4. all \in Seq(Keys)
  <2>1. KeysIn(d) \cap method.range \in SUBSET Keys
    BY DEF KeysIn
  <2> QED BY <2>1, OrdersIs
<1>5. /\ Head(keys) = keys[1] /\ Head(keys) \in Keys /\ rest \in Seq(Keys)
      /\ Len(rest) = Len(keys) - 1 /\ \A i \in 1..Len(rest) : rest[i] = keys[i + 1]
  <2>1. Head(keys) = keys[1]
    OBVIOUS
  <2> QED BY <1>2, <1>k, <2>1, HeadTailProperties
<1>6. got \in {Torn} \cup (Values \cap {flash[<<d, keys[1]>>]})
  <2>1. ret \in {Err, Bytes(flash[<<d, keys[1]>>])}
    BY <1>1, <1>2, CallKinds DEF Awaits, Idle, Call
  <2> QED BY <2>1, AnswerKinds
<1>7. e \in Item /\ e.key = keys[1] /\ e.value = got
  <2>1. e = [key |-> keys[1], value |-> got] /\ keys[1] \in Keys /\ got \in Values \cup {Torn}
    BY <1>k, <1>5, <1>6
  <2> QED BY <2>1 DEF Item
<1>8. /\ items \in Seq(Item) /\ Len(items) = Len(old) + 1
      /\ \A i \in 1..Len(old) : items[i] = old[i]
      /\ items[Len(old) + 1] = e
  BY <1>i, <1>7, AppendProperties
<1>9. PICK n \in Nat : n = Len(old)
  OBVIOUS
<1>10. PICK r \in Nat : r = Len(rest) /\ Len(keys) = r + 1
  <2>1. Len(rest) \in Nat /\ Len(keys) \in Nat /\ Len(rest) = Len(keys) - 1
    BY <1>5
  <2> QED BY ONLY <2>1
<1>l. Len(all) = n + (r + 1) /\ Len(items) = n + 1
  BY <1>3, <1>8, <1>9, <1>10
<1>11. Len(all) = Len(items) + Len(rest)
  BY ONLY <1>l, <1>10, n \in Nat
<1>12. ASSUME NEW i \in 1..Len(rest) PROVE rest[i] = all[Len(items) + i]
  <2>1. i + 1 \in 1..Len(keys) /\ Len(old) + (i + 1) = Len(items) + i
    BY ONLY i \in 1..Len(rest), n \in Nat, <1>l, <1>9, <1>10
  <2> QED BY <1>3, <1>5, <2>1
<1>13. ASSUME NEW i \in 1..Len(items)
       PROVE  /\ items[i].key = all[i]
              /\ items[i].value \in {Torn} \cup (Values \cap {flash[<<d, all[i]>>]})
  <2>1. CASE i \in 1..Len(old)
    BY <1>3, <1>8, <2>1
  <2>2. CASE i = Len(old) + 1
    <3>1. 1 \in 1..Len(keys)
      BY <1>10
    <3>2. keys[1] = all[i]
      BY <1>3, <2>2, <3>1
    <3>3. items[i].key = keys[1] /\ items[i].value = got
      BY <1>7, <1>8, <2>2
    <3> QED BY <1>6, <3>2, <3>3
  <2>3. i \in 1..Len(old) \/ i = Len(old) + 1
    BY <1>8, <1>9
  <2> QED BY <2>1, <2>2, <2>3
<1>14. all \in Orders(method.dict, KeysIn(method.dict) \cap method.range)
  BY <1>d
<1>15. /\ Len(all) = Len(items) + Len(rest)
       /\ \A i \in 1..Len(rest) : rest[i] = all[Len(items) + i]
       /\ \A i \in 1..Len(items) :
             /\ items[i].key = all[i]
             /\ items[i].value \in {Torn} \cup (Values \cap {flash[<<method.dict, all[i]>>]})
  BY <1>d, <1>11, <1>12, <1>13
<1>16. ReadSoFar(method.dict, method.range, items, rest)
  <2> HIDE DEF KeysIn, Orders
  <2> QED BY ONLY <1>4, <1>14, <1>15 DEF ReadSoFar
<1> QED BY <1>1, <1>5, <1>8, <1>16

(* One get after the other. *)
LEMMA ItemResumes ==
    ASSUME IInv, item
    PROVE  IInv' /\ ResumesFresh
<1>1. Idle /\ method.shape = "items" /\ Resumes("items")
  BY DEF item, Resumes
<1>2. PICK got : got = IF ret # Err /\ ret.cell \in Values THEN ret.cell ELSE Torn
  OBVIOUS
<1>3. PICK e : e = [key |-> Head(method.keys), value |-> got]
  OBVIOUS
<1>4. PICK items : items = Append(method.items, e)
  OBVIOUS
<1>5. PICK rest : rest = Tail(method.keys)
  OBVIOUS
<1>6. IF rest = <<>> THEN Returns([of |-> "list", ok |-> TRUE, items |-> items])
      ELSE Calls([method EXCEPT !.keys = rest, !.items = items],
                 Get(<<method.dict, Head(rest)>>))
  BY <1>2, <1>3, <1>4, <1>5, Zenon DEF item
<1>7. CASE \E r : Returns(r)
  BY <1>1, <1>7, ReturnsIdle
<1>8. CASE /\ rest # <<>>
           /\ Calls([method EXCEPT !.keys = rest, !.items = items],
                    Get(<<method.dict, Head(rest)>>))
  <2>1. items \in Seq(Item) /\ rest \in Seq(Keys) /\ method \in ListMethod
    BY <1>1, <1>2, <1>3, <1>4, <1>5, ItemIs
  <2>d. PICK d \in Dicts : d = method.dict
    BY <2>1 DEF ListMethod
  <2>r. PICK range : range = method.range
    OBVIOUS
  <2>m. ReadSoFar(d, range, items, rest)
    BY <1>1, <1>2, <1>3, <1>4, <1>5, <2>d, <2>r, ItemIs
  <2>o. PICK all \in Orders(d, KeysIn(d) \cap range) :
            /\ Len(all) = Len(items) + Len(rest)
            /\ \A i \in 1..Len(rest) : rest[i] = all[Len(items) + i]
            /\ \A i \in 1..Len(items) :
                  /\ items[i].key = all[i]
                  /\ items[i].value \in {Torn} \cup (Values \cap {flash[<<d, all[i]>>]})
    <3> HIDE DEF KeysIn, Orders
    <3> QED BY ONLY <2>m DEF ReadSoFar
  <2>3. rest[1] \in Keys /\ Head(rest) = rest[1]
    BY <1>8, <2>1
  <2>4. <<d, rest[1]>> \in Address
    BY <2>3 DEF Address
  <2>5. PICK c \in GetCall : c = Get(<<d, rest[1]>>) /\ Fresh(c) /\ c.at = <<d, rest[1]>>
    BY <2>4, FreshCalls DEF IInv
  <2>6. PICK m : m = [method EXCEPT !.keys = rest, !.items = items]
    OBVIOUS
  <2>7. /\ m \in ListMethod /\ m.shape = "items" /\ m.keys = rest /\ m.items = items
        /\ m.dict = d /\ m.range = range
    BY <1>1, <2>1, <2>d, <2>r, <2>6 DEF ListMethod
  <2>8. Calls(m, c)
    BY <1>8, <2>d, <2>3, <2>5, <2>6
  <2>9. method' = m /\ call' = c /\ flash' = flash
    BY <2>8 DEF Calls
  <2>10. Reads(method)'
    <3>1. Awaits(<<method.dict, method.keys[1]>>)'
      BY <2>5, <2>7, <2>9 DEF Awaits
    <3>2. KeysIn(method.dict)' = KeysIn(d)
      BY <2>7, <2>9 DEF KeysIn
    <3>3. all \in Orders(method'.dict, KeysIn(method.dict)' \cap method'.range)
      BY <2>7, <2>9, <3>2
    <3>4. /\ method'.dict = d /\ method'.keys = rest /\ method'.items = items
      BY <2>7, <2>9
    <3> HIDE DEF Awaits, KeysIn, Orders
    <3> QED BY <1>8, <2>o, <2>9, <3>1, <3>3, <3>4 DEF Reads
  <2>11. MethodInv'
    BY <2>7, <2>9, <2>10 DEF MethodInv
  <2> QED BY <1>1, <2>5, <2>8, <2>11, CallsFresh DEF IInv
<1> QED BY <1>6, <1>7, <1>8

(* One delete_dict after the other. *)
LEMMA WipedResumes ==
    ASSUME IInv, wiped
    PROVE  IInv' /\ ResumesFresh
<1>1. Idle /\ method.shape = "wipe"
  BY DEF wiped, Resumes
<1>2. CASE \E r : Returns(r)
  BY <1>1, <1>2, ReturnsIdle
<1>3. CASE /\ ret # Err /\ method.todo # <<>>
           /\ Calls([method EXCEPT !.todo = Tail(@)], DeleteDict(Head(method.todo)))
  <2>1. method \in WipeMethod /\ Clears(method)
    BY <1>1, Shapes DEF IInv
  <2>2. PICK todo \in Seq(Dicts) : todo = method.todo
    BY <2>1 DEF WipeMethod
  <2>3. /\ Head(todo) \in Dicts /\ Tail(todo) \in Seq(Dicts) /\ Head(todo) = todo[1]
        /\ Len(todo) \in Nat /\ Len(Tail(todo)) = Len(todo) - 1
        /\ \A i \in 1..Len(Tail(todo)) : Tail(todo)[i] = todo[i + 1]
    BY <1>3, <2>2, HeadTailProperties
  <2>4. PICK c \in DictCall : c = DeleteDict(Head(todo)) /\ Fresh(c) /\ c.dict = Head(todo)
    BY <2>3, FreshCalls DEF IInv
  <2>5. PICK m : m = [method EXCEPT !.todo = Tail(todo)]
    OBVIOUS
  <2>6. m \in WipeMethod /\ m.of = method.of /\ m.todo = Tail(todo)
    BY <2>1, <2>3, <2>5 DEF WipeMethod
  <2>7. Calls(m, c)
    BY <1>3, <2>2, <2>4, <2>5
  <2>8. method' = m /\ call' = c /\ flash' = flash
    BY <2>7 DEF Calls
  <2>9. ASSUME NEW i \in 1..Len(todo)
        PROVE  todo[i] = c.dict \/ \E j \in 1..Len(m.todo) : m.todo[j] = todo[i]
    <3>1. CASE i = 1
      BY <2>3, <2>4, <3>1
    <3>2. CASE i # 1
      <4>1. i - 1 \in 1..Len(Tail(todo)) /\ (i - 1) + 1 = i
        BY <2>3, <3>2
      <4> QED BY <2>3, <2>6, <4>1
    <3> QED BY <3>1, <3>2
  <2>10. ASSUME m.of = "clear", NEW d \in NamedDicts \ {"sticker_packs"}
         PROVE  Gone(d)' \/ (\E j \in 1..Len(m.todo) : m.todo[j] = d) \/ c.dict = d
    <3>1. Gone(d) \/ \E i \in 1..Len(todo) : todo[i] = d
      BY <1>1, <1>3, <2>1, <2>2, <2>6, <2>10, CallKinds DEF Clears, Idle, Call
    <3>2. Gone(d) => Gone(d)'
      BY <2>8 DEF Gone
    <3> QED BY <2>9, <3>1, <3>2
  <2>11. Clears(method)'
    BY <2>8, <2>10 DEF Clears
  <2>12. MethodInv'
    BY <2>6, <2>8, <2>11 DEF MethodInv, AwaitsDone
  <2> QED BY <1>1, <2>4, <2>7, <2>12, CallsFresh DEF IInv
<1> QED BY <1>2, <1>3 DEF wiped

(* The puts one by one, after a put_batch that failed. *)
LEMMA CommitResumes ==
    ASSUME IInv, committed \/ fell_back
    PROVE  IInv' /\ ResumesFresh
<1>1. Idle /\ method.shape \in {"commit", "fallback"}
  BY DEF committed, fell_back, Resumes
<1>2. CASE \E r : Returns(r)
  BY <1>1, <1>2, ReturnsIdle
<1>3. method \in CommitMethod /\ (method.shape = "commit" => method.todo # <<>>)
  BY <1>1, Shapes DEF IInv
<1>4. PICK todo \in Seq(Entry) : todo = method.todo
  BY <1>3 DEF CommitMethod
<1>5. ASSUME NEW ok \in BOOLEAN, todo # <<>>,
             Calls([method EXCEPT !.shape = "fallback", !.todo = Tail(todo), !.ok = ok],
                   Put(Head(todo).at, Head(todo).value))
      PROVE  IInv' /\ ResumesFresh
  <2>1. Head(todo) \in Entry /\ Tail(todo) \in Seq(Entry)
    BY <1>5, HeadTailProperties
  <2>2. Head(todo).at \in Address /\ Head(todo).value \in Values
    BY <2>1 DEF Entry
  <2>3. PICK c \in PutCall : c = Put(Head(todo).at, Head(todo).value) /\ Fresh(c)
    BY <2>2, FreshCalls DEF IInv
  <2>4. PICK m : m = [method EXCEPT !.shape = "fallback", !.todo = Tail(todo), !.ok = ok]
    OBVIOUS
  <2>5. m \in CommitMethod /\ m.shape = "fallback"
    BY <1>3, <2>1, <2>4 DEF CommitMethod
  <2>6. Calls(m, c)
    BY <1>5, <2>3, <2>4
  <2>7. MethodInv'
    BY <2>5, <2>6 DEF MethodInv, AwaitsDone, Calls
  <2> QED BY <1>1, <2>3, <2>6, <2>7, CallsFresh DEF IInv
<1>6. CASE committed
  <2>1. method.shape = "commit" /\ todo # <<>>
    BY <1>3, <1>4, <1>6 DEF committed, Resumes
  <2>2. CASE Calls([method EXCEPT !.shape = "fallback", !.todo = Tail(@)],
                   Put(Head(method.todo).at, Head(method.todo).value))
    <3>1. method.ok \in BOOLEAN
      BY <1>3 DEF CommitMethod
    <3>2. [method EXCEPT !.shape = "fallback", !.todo = Tail(@)]
            = [method EXCEPT !.shape = "fallback", !.todo = Tail(todo), !.ok = method.ok]
      BY <1>3, <1>4 DEF CommitMethod
    <3> QED BY <1>4, <1>5, <2>1, <2>2, <3>1, <3>2
  <2> QED BY <1>2, <1>6, <2>2 DEF committed
<1>7. CASE fell_back
  <2>1. method.shape = "fallback"
    BY <1>7 DEF fell_back, Resumes
  <2>2. PICK ok : ok = (method.ok /\ ret = Ok)
    OBVIOUS
  <2>3. CASE /\ todo # <<>>
             /\ Calls([method EXCEPT !.todo = Tail(@), !.ok = ok],
                      Put(Head(method.todo).at, Head(method.todo).value))
    <3>1. ok \in BOOLEAN
      BY <2>2
    <3>2. [method EXCEPT !.todo = Tail(@), !.ok = ok]
            = [method EXCEPT !.shape = "fallback", !.todo = Tail(todo), !.ok = ok]
      BY <1>3, <1>4, <2>1 DEF CommitMethod
    <3> QED BY <1>4, <1>5, <2>3, <3>1, <3>2
  <2> QED BY <1>2, <1>4, <1>7, <2>2, <2>3 DEF fell_back
<1> QED BY <1>6, <1>7

(* Every method goes on as it should. *)
LEMMA ResumeStep ==
    ASSUME IInv, Resume
    PROVE  IInv' /\ ResumesFresh
BY OneCallResumes, ProbedResumes, ListedResumes, ItemResumes, WipedResumes, CommitResumes
   DEF Resume

-----------------------------------------------------------------------------
(* The other steps.                                                        *)

(* A method that waits for a get. *)
LEMMA AwaitsGoesOn ==
    ASSUME IInv, ClientRuns, NEW a, Awaits(a)
    PROVE  UNCHANGED flash /\ Awaits(a)'
<1>1. StoreTypes /\ CallInv /\ ClientStep /\ UNCHANGED ops
  BY DEF IInv, ClientRuns, svars
<1>2. GetGoesOn \/ ListGoesOn \/ PutGoesOn \/ BatchEnds \/ DeleteEnds \/ DictEnds
  BY <1>1, ClientGoesOn
<1>3. call \in Call
  BY <1>2 DEF GetGoesOn, ListGoesOn, PutGoesOn, BatchEnds, DeleteEnds, DictEnds, Call
<1>4. call \in GetCall /\ call.at = a
  BY <1>3, CallKinds DEF Awaits
<1>5. GetGoesOn
  BY <1>2, <1>3, <1>4, CallKinds
       DEF ListGoesOn, PutGoesOn, BatchEnds, DeleteEnds, DictEnds
<1> QED BY <1>4, <1>5 DEF GetGoesOn, Awaits

(* A method that waits for a call to return. *)
LEMMA AwaitsDoneGoesOn ==
    ASSUME IInv, ClientRuns,
           NEW C \in {PutCall, PutCall \cup DeleteCall, DictCall, BatchCall}, AwaitsDone(C)
    PROVE  AwaitsDone(C)' /\ (C = DictCall => DictEnds)
<1>1. StoreTypes /\ CallInv /\ ClientStep /\ UNCHANGED ops
  BY DEF IInv, ClientRuns, svars
<1>2. GetGoesOn \/ ListGoesOn \/ PutGoesOn \/ BatchEnds \/ DeleteEnds \/ DictEnds
  BY <1>1, ClientGoesOn
<1>3. call \in Call
  BY <1>2 DEF GetGoesOn, ListGoesOn, PutGoesOn, BatchEnds, DeleteEnds, DictEnds, Call
<1>4. call \in C
  BY <1>3, CallKinds DEF AwaitsDone
<1>5. CASE call \in PutCall /\ PutCall \subseteq C
  <2>1. PutGoesOn
    BY <1>2, <1>3, <1>5, CallKinds
       DEF GetGoesOn, ListGoesOn, BatchEnds, DeleteEnds, DictEnds
  <2>2. call' \in PutCall \/ (call' = NoCall /\ ret' \in {Ok, Err})
    BY <2>1 DEF PutGoesOn
  <2>3. C # DictCall
    BY <1>3, <1>5, CallKinds
  <2> QED BY <1>5, <2>2, <2>3 DEF AwaitsDone
<1>6. CASE call \in DeleteCall /\ C = PutCall \cup DeleteCall
  <2>1. DeleteEnds
    BY <1>2, <1>3, <1>6, CallKinds
       DEF GetGoesOn, ListGoesOn, BatchEnds, PutGoesOn, DictEnds
  <2>2. call' = NoCall /\ ret' \in {Ok, Err}
    BY <2>1 DEF DeleteEnds
  <2>3. C # DictCall
    BY <1>3, <1>6, CallKinds
  <2> QED BY <2>2, <2>3 DEF AwaitsDone
<1>7. CASE call \in BatchCall /\ C = BatchCall
  <2>1. BatchEnds
    BY <1>2, <1>3, <1>7, CallKinds
       DEF GetGoesOn, ListGoesOn, DeleteEnds, PutGoesOn, DictEnds
  <2>2. call' = NoCall /\ ret' \in {Ok, Err}
    BY <2>1 DEF BatchEnds
  <2>3. C # DictCall
    BY <1>3, <1>7, CallKinds
  <2> QED BY <2>2, <2>3 DEF AwaitsDone
<1>8. CASE call \in DictCall /\ C = DictCall
  <2>1. DictEnds
    BY <1>2, <1>3, <1>8, CallKinds
       DEF GetGoesOn, ListGoesOn, DeleteEnds, PutGoesOn, BatchEnds
  <2>2. call' = NoCall /\ ret' \in {Ok, Err}
    BY <2>1 DEF DictEnds
  <2> QED BY <2>1, <2>2 DEF AwaitsDone
<1> QED BY <1>4, <1>5, <1>6, <1>7, <1>8

(* Dropping a dictionary brings nothing back. *)
LEMMA DictEndsClears ==
    ASSUME DictEnds, method \in WipeMethod, Clears(method), UNCHANGED method
    PROVE  Clears(method)'
<1>1. PICK gone \in SUBSET InDict(call.dict) :
          /\ flash' = [a \in Address |-> IF a \in gone THEN NoValue ELSE flash[a]]
          /\ ret' = Err \/ (ret' = Ok /\ gone = InDict(call.dict))
  BY DEF DictEnds
<1>2. call \in DictCall /\ call' = NoCall
  BY DEF DictEnds
<1>3. call # NoCall
  BY <1>2, CallKinds DEF Call
<1> SUFFICES ASSUME method.of = "clear", NEW d \in NamedDicts \ {"sticker_packs"}
             PROVE  \/ Gone(d)'
                    \/ \E i \in 1..Len(method.todo) : method.todo[i] = d
                    \/ call' = NoCall /\ ret' = Err
  BY DEF Clears
<1>4. Gone(d) => Gone(d)'
  BY <1>1 DEF Gone, InDict
<1>5. (call.dict = d /\ gone = InDict(call.dict)) => Gone(d)'
  BY <1>1 DEF Gone, InDict
<1>6. gone # InDict(call.dict) => ret' = Err
  BY <1>1
<1>7. \/ Gone(d) \/ (\E i \in 1..Len(method.todo) : method.todo[i] = d)
      \/ call.dict = d
  BY <1>3 DEF Clears
<1> QED BY <1>2, <1>4, <1>5, <1>6, <1>7

(* What has been read stays true while flash stays as it is. *)
LEMMA ReadsStays ==
    ASSUME Reads(method), UNCHANGED <<flash, method>>,
           Awaits(<<method.dict, method.keys[1]>>)'
    PROVE  Reads(method)'
<1>1. PICK d : d = method.dict
  OBVIOUS
<1>2. PICK range : range = method.range
  OBVIOUS
<1>3. PICK keys : keys = method.keys
  OBVIOUS
<1>4. PICK items : items = method.items
  OBVIOUS
<1>5. PICK all \in Orders(method.dict, KeysIn(method.dict) \cap method.range) :
          /\ Len(all) = Len(method.items) + Len(method.keys)
          /\ \A i \in 1..Len(method.keys) : method.keys[i] = all[Len(method.items) + i]
          /\ \A i \in 1..Len(method.items) :
                /\ method.items[i].key = all[i]
                /\ method.items[i].value \in
                      {Torn} \cup (Values \cap {flash[<<method.dict, all[i]>>]})
  BY Zenon DEF Reads
<1>6. /\ method'.dict = d /\ method'.range = range /\ method'.keys = keys
      /\ method'.items = items /\ keys # <<>>
  BY <1>1, <1>2, <1>3, <1>4 DEF Reads
<1>7. KeysIn(method.dict)' = KeysIn(d)
  BY <1>6 DEF KeysIn
<1>8. all \in Orders(method'.dict, KeysIn(method.dict)' \cap method'.range)
  BY <1>6, <1>7
<1>9. /\ Len(all) = Len(items) + Len(keys)
      /\ \A i \in 1..Len(keys) : keys[i] = all[Len(items) + i]
      /\ \A i \in 1..Len(items) :
            /\ items[i].key = all[i]
            /\ items[i].value \in {Torn} \cup (Values \cap {flash'[<<d, all[i]>>]})
  BY <1>1, <1>3, <1>4, <1>5
<1> HIDE DEF Awaits, KeysIn, Orders
<1> QED BY <1>6, <1>8, <1>9 DEF Reads

(* A message of the client. *)
LEMMA ClientRunsStep ==
    ASSUME IInv, ClientRuns
    PROVE  IInv'
<1>1. StoreTypes /\ CallInv /\ ClientStep /\ UNCHANGED ops /\ UNCHANGED method
  BY DEF IInv, ClientRuns, svars
<1>2. /\ GetGoesOn \/ ListGoesOn \/ PutGoesOn \/ BatchEnds \/ DeleteEnds \/ DictEnds
      /\ StoreTypes' /\ CallInv'
  BY <1>1, ClientGoesOn DEF Kept
<1>3. call \in Call /\ call # NoCall
  <2>1. call \in Call
    BY <1>2 DEF GetGoesOn, ListGoesOn, PutGoesOn, BatchEnds, DeleteEnds, DictEnds, Call
  <2> QED BY <2>1, CallKinds
<1>4. MethodInv
  BY DEF IInv
<1>5. CASE method = NoMethod /\ call = NoCall
  BY <1>3, <1>5
<1>6. CASE method = [shape |-> "save"] /\ AwaitsDone(PutCall \cup DeleteCall)
  <2>1. AwaitsDone(PutCall \cup DeleteCall)'
    BY <1>6, AwaitsDoneGoesOn
  <2> QED BY <1>1, <1>2, <1>6, <2>1 DEF IInv, MethodInv
<1>7. CASE method \in LoadMethod /\ Awaits(<<method.dict, method.key>>)
  <2>1. PICK a : a = <<method.dict, method.key>>
    OBVIOUS
  <2>2. Awaits(a)'
    BY <1>7, <2>1, AwaitsGoesOn
  <2>3. Awaits(<<method.dict, method.key>>)'
    BY <1>1, <2>1, <2>2 DEF Awaits
  <2> QED BY <1>1, <1>2, <1>7, <2>3 DEF IInv, MethodInv
<1>8. CASE method = [shape |-> "registered"] /\ \E a \in Address : Awaits(a)
  <2>1. \E a \in Address : Awaits(a)'
    BY <1>8, AwaitsGoesOn
  <2> QED BY <1>1, <1>2, <1>8, <2>1 DEF IInv, MethodInv
<1>9. CASE /\ method \in ProbeMethod /\ \E a \in Address : Awaits(a)
           /\ method.then.before = flash
           /\ method.then \in PutCall => method.then.pc = "delete" /\ method.then.pos = 0
  <2>1. (\E a \in Address : Awaits(a)') /\ UNCHANGED flash
    BY <1>9, AwaitsGoesOn
  <2> QED BY <1>1, <1>2, <1>9, <2>1 DEF IInv, MethodInv
<1>10. CASE method \in ChangeMethod /\ AwaitsDone(PutCall \cup DeleteCall)
  <2>1. AwaitsDone(PutCall \cup DeleteCall)'
    BY <1>10, AwaitsDoneGoesOn
  <2> QED BY <1>1, <1>2, <1>10, <2>1 DEF IInv, MethodInv
<1>11. CASE /\ method \in ListMethod /\ method.shape = "list" /\ method.keys = <<>>
            /\ method.items = <<>>
            /\ \/ call \in ListCall /\ call.dict = method.dict
               \/ call = NoCall /\ ret \in {Err, KeyNames(KeysIn(method.dict))}
  <2>1. ListGoesOn
    BY <1>2, <1>3, <1>11, CallKinds
       DEF GetGoesOn, PutGoesOn, BatchEnds, DeleteEnds, DictEnds
  <2>2. KeysIn(method.dict)' = KeysIn(method.dict)
    BY <1>1, <2>1 DEF ListGoesOn, KeysIn
  <2>3. \/ call' \in ListCall /\ call'.dict = method.dict
        \/ call' = NoCall /\ ret' \in {Err, KeyNames(KeysIn(method.dict)')}
    BY <1>3, <1>11, <2>1, <2>2 DEF ListGoesOn
  <2> HIDE DEF KeysIn
  <2> QED BY <1>1, <1>2, <1>11, <2>3 DEF IInv, MethodInv
<1>12. CASE method \in ListMethod /\ method.shape = "items" /\ Reads(method)
  <2>1. PICK a : a = <<method.dict, method.keys[1]>>
    OBVIOUS
  <2>2. Awaits(a)' /\ UNCHANGED flash
    BY <1>12, <2>1, AwaitsGoesOn DEF Reads
  <2>3. Awaits(<<method.dict, method.keys[1]>>)'
    BY <1>1, <2>1, <2>2 DEF Awaits
  <2>5. Reads(method)'
    BY <1>1, <1>12, <2>2, <2>3, ReadsStays
  <2> QED BY <1>1, <1>2, <1>12, <2>5 DEF IInv, MethodInv
<1>13. CASE method \in WipeMethod /\ AwaitsDone(DictCall) /\ Clears(method)
  <2>1. AwaitsDone(DictCall)' /\ DictEnds
    BY <1>13, AwaitsDoneGoesOn
  <2>2. Clears(method)'
    BY <1>1, <1>13, <2>1, DictEndsClears
  <2> QED BY <1>1, <1>2, <1>13, <2>1, <2>2 DEF IInv, MethodInv
<1>14. CASE /\ method \in CommitMethod /\ method.shape = "commit" /\ method.todo # <<>>
            /\ AwaitsDone(BatchCall)
  <2>1. AwaitsDone(BatchCall)'
    BY <1>14, AwaitsDoneGoesOn
  <2> QED BY <1>1, <1>2, <1>14, <2>1 DEF IInv, MethodInv
<1>15. CASE method \in CommitMethod /\ method.shape = "fallback" /\ AwaitsDone(PutCall)
  <2>1. AwaitsDone(PutCall)'
    BY <1>15, AwaitsDoneGoesOn
  <2> QED BY <1>1, <1>2, <1>15, <2>1 DEF IInv, MethodInv
<1> QED BY <1>4, <1>5, <1>6, <1>7, <1>8, <1>9, <1>10, <1>11, <1>12, <1>13, <1>14, <1>15
        DEF MethodInv

(* A step that changes at most whether the PDDB is mounted. *)
LEMMA UntouchedStep ==
    ASSUME IInv, UNCHANGED <<flash, dicts, call, ret, method, ops>>, mounted' \in BOOLEAN
    PROVE  IInv'
<1>1. StoreTypes'
  BY DEF IInv, StoreTypes, NameFits
<1>2. CallInv'
  BY DEF IInv, CallInv, InProgress, KeysIn
<1>3. /\ \A a : Awaits(a) => Awaits(a)'
      /\ \A C : AwaitsDone(C) => AwaitsDone(C)'
  BY DEF Awaits, AwaitsDone
<1>4. /\ Awaits(<<method.dict, method.key>>) => Awaits(<<method.dict, method.key>>)'
      /\ Awaits(<<method.dict, method.keys[1]>>) => Awaits(<<method.dict, method.keys[1]>>)'
  BY DEF Awaits
<1>5. Reads(method) => Reads(method)'
  <2>1. Reads(method) => Awaits(<<method.dict, method.keys[1]>>)
    BY DEF Reads
  <2> QED BY <1>4, <2>1, ReadsStays
<1>6. Clears(method) => Clears(method)'
  BY DEF Clears, Gone
<1>7. KeysIn(method.dict)' = KeysIn(method.dict)
  BY DEF KeysIn
<1>8. MethodInv'
  <2> HIDE DEF KeysIn, Awaits, AwaitsDone, Reads, Clears
  <2> QED BY <1>3, <1>4, <1>5, <1>6, <1>7 DEF IInv, MethodInv
<1> QED BY <1>1, <1>2, <1>8 DEF IInv

(* A power loss ends the call and the method. *)
LEMMA RestartStep ==
    ASSUME IInv, Restart
    PROVE  IInv'
<1>1. StoreTypes'
  BY AnswerKinds DEF IInv, Restart, power_loss, StoreTypes, NameFits
<1>2. CallInv' /\ MethodInv'
  BY DEF CallInv, MethodInv, Restart, power_loss
<1> QED BY <1>1, <1>2 DEF IInv

(* Flash starts empty or full. *)
LEMMA InitStep ==
    ASSUME Init
    PROVE  IInv
<1>1. (CHOOSE v \in Values : TRUE) \in Values
  BY ValueAssumption
<1>2. flash \in Flash /\ \A a \in Address : flash[a] # NoValue => a \notin LongNames
  BY <1>1, ValueAssumption DEF Init, Flash
<1>3. /\ \A a \in Address : flash[a] # NoValue => a[1] \in dicts
      /\ dicts \subseteq Dicts
  BY DEF Init, CInit, Address
<1>4. StoreTypes
  <2>1. ops \in 0..MaxOps
    BY ContentStoreAssumption DEF Init
  <2>2. mounted \in BOOLEAN /\ ret.kind = "none"
    BY AnswerKinds DEF Init, CInit
  <2> QED BY <1>2, <1>3, <2>1, <2>2 DEF StoreTypes, NameFits
<1> QED BY <1>4 DEF Init, CInit, IInv, CallInv, MethodInv

(* The inductive invariant of the record methods and the IPC client: what  *)
(* flash holds of the call in progress, and what the method in progress    *)
(* knows of it.                                                            *)
THEOREM Invariance == Spec => []IInv
<1>1. Init => IInv
  BY InitStep
<1>2. IInv /\ [Next]_vars => IInv'
  <2> SUFFICES ASSUME IInv, [Next]_vars PROVE IInv'
    OBVIOUS
  <2>1. CASE UNCHANGED vars
    <3>1. mounted' \in BOOLEAN
      BY <2>1 DEF vars, IInv, StoreTypes
    <3> QED BY <2>1, <3>1, UntouchedStep DEF vars
  <2>2. CASE try_mount /\ UNCHANGED svars
    BY <2>2, UntouchedStep DEF try_mount, svars
  <2> QED BY <2>1, <2>2, StartStep, ResumeStep, ClientRunsStep, RestartStep
<1> QED BY <1>1, <1>2, PTL DEF Spec

-----------------------------------------------------------------------------
(* What the invariant says.                                                *)

(* The types of the server's state, of the call and of the method. *)
THEOREM TypeCorrect == Spec => []TypeOK
<1>1. IInv => TypeOK
  <2> SUFFICES ASSUME IInv PROVE TypeOK
    OBVIOUS
  <2>1. \A a \in Address : Whole(flash[a]) \in Cell
    BY DEF Whole, Cell
  <2>2. CallTypeOK
    <3>1. CASE call = NoCall
      BY <3>1 DEF CallTypeOK
    <3>2. CASE call \in GetCall
      <4>1. call \in Call /\ InProgress(call)
        BY <3>2, CallKinds DEF IInv, CallInv, Call
      <4>2. /\ DOMAIN call.before = Address /\ call.op = "get" /\ call.pc \in {"open", "read"}
            /\ call.at \in Address /\ call.bytes \in Seq(Byte)
        BY <3>2 DEF GetCall, Flash
      <4>3. CASE call.pc = "open"
        <5>1. call.bytes = <<>>
          BY <3>2, <4>1, <4>3 DEF InProgress
        <5>2. PICK v : v = IF flash[call.at] = NoValue THEN <<>> ELSE flash[call.at]
          OBVIOUS
        <5>3. v \in Seq(Byte)
          BY <4>2, <5>2 DEF IInv, StoreTypes, Flash
        <5>4. /\ Len(<<>>) = 0 /\ 0 <= Len(v)
              /\ SubSeq(<<>>, 1, 0) = <<>> /\ SubSeq(v, 1, 0) = <<>>
          BY <5>3, SubSeqEmpty
        <5>5. IsPrefix(call.bytes, v)
          BY <5>1, <5>4 DEF IsPrefix
        <5> QED BY <4>2, <4>3, <5>2, <5>5 DEF CallTypeOK
      <4>4. CASE call.pc = "read"
        <5>1. /\ flash[call.at] # NoValue /\ Len(call.bytes) <= Len(flash[call.at])
              /\ call.bytes = SubSeq(flash[call.at], 1, Len(call.bytes))
          BY <3>2, <4>1, <4>4 DEF InProgress
        <5>2. SubSeq(call.bytes, 1, Len(call.bytes)) = call.bytes
          BY <4>2, SubSeqFull
        <5>3. IsPrefix(call.bytes, flash[call.at])
          BY <5>1, <5>2 DEF IsPrefix
        <5> QED BY <4>2, <4>4, <5>1, <5>3 DEF CallTypeOK
      <4> QED BY <4>2, <4>3, <4>4
    <3>3. CASE call \in PutCall
      <4>1. call \in Call /\ InProgress(call)
        BY <3>3, CallKinds DEF IInv, CallInv, Call
      <4>2. /\ DOMAIN call.before = Address /\ call.op = "put"
            /\ call.pc \in {"delete", "open", "write"} /\ call.at \in Address
            /\ call.value \in Values /\ call.value \in Seq(Byte) /\ call.pos \in Nat
        BY <3>3, ValueAssumption DEF PutCall, Flash
      <4>3. call.pos < Len(call.value)
        BY <3>3, <4>1 DEF InProgress
      <4>4. call.pos \in 0 .. Len(call.value) - 1
        BY <4>2, <4>3
      <4> QED BY <4>2, <4>4 DEF CallTypeOK
    <3>4. CASE call \in BatchCall \cup DeleteCall \cup DictCall
      BY <3>4 DEF CallTypeOK, BatchCall, DeleteCall, DictCall, Flash
    <3>5. CASE call \in ListCall
      BY <3>5 DEF CallTypeOK, ListCall, Flash
    <3> QED BY <3>1, <3>2, <3>3, <3>4, <3>5 DEF IInv, CallInv, Call
  <2> QED BY <2>1, <2>2, Shapes DEF TypeOK, IInv, StoreTypes
<1> QED BY <1>1, Invariance, PTL

(* The last step of a load and of a listing. *)
AnswersStep ==
    /\ (method.shape = "load" /\ method' = NoMethod /\ result'.of = "load" /\ result'.ok) =>
            /\ result'.value = flash[<<method.dict, method.key>>]
            /\ \/ result'.value \in Values \cup {NoValue}
               \/ method.dict \in RawDicts \cup {"sender_key"}
    /\ (method.shape \in {"list", "items"} /\ method' = NoMethod
                /\ result'.of = "list" /\ result'.ok) =>
            LET d == method.dict
                items == result'.items
            IN  /\ [i \in DOMAIN items |-> items[i].key] \in Orders(d, KeysIn(d) \cap method.range)
                /\ \A i \in DOMAIN items :
                      items[i].value \in {Torn} \cup (Values \cap {flash[<<d, items[i].key>>]})

(* A method returns only in a step of its own. *)
LEMMA ReturnSteps ==
    ASSUME IInv, [Next]_vars, method.shape # "none", method' = NoMethod, result'.of # "none"
    PROVE  Resume
<1>1. NoMethod.shape = "none" /\ NoResult.of = "none"
  BY DEF NoMethod, NoResult
<1>2. ~StartsFresh
  BY <1>1 DEF StartsFresh, Start
<1>3. ~ClientRuns /\ ~(try_mount /\ UNCHANGED svars) /\ ~UNCHANGED vars
  BY <1>1 DEF ClientRuns, svars, vars
<1>4. ~Restart
  BY <1>1 DEF Restart
<1> QED BY <1>2, <1>3, <1>4, StartStep

(* A load tells what is there. *)
LEMMA LoadIsTrue ==
    ASSUME IInv, loaded, result'.of = "load", result'.ok
    PROVE  /\ result'.value = flash[<<method.dict, method.key>>]
           /\ \/ result'.value \in Values \cup {NoValue}
              \/ method.dict \in RawDicts \cup {"sender_key"}
<1>1. method \in LoadMethod /\ Awaits(<<method.dict, method.key>>) /\ Idle
  BY Shapes DEF IInv, loaded, Resumes
<1>2. ret \in {Err, Bytes(flash[<<method.dict, method.key>>])}
  BY <1>1, CallKinds DEF Awaits, Idle, Call
<1>3. Failed("load").ok = FALSE
  BY DEF Failed
<1>4. ret # Err
  BY <1>3 DEF loaded, Returns
<1>5. ret.cell = flash[<<method.dict, method.key>>]
  BY <1>2, <1>4, AnswerKinds
<1>6. PICK decodes \in IF ret.cell = NoValue THEN {TRUE} ELSE Decodes(method.dict, ret.cell) :
          result' = IF decodes THEN [of |-> "load", ok |-> TRUE, value |-> ret.cell]
                    ELSE Failed("load")
  BY <1>4 DEF loaded, Returns
<1>7. decodes /\ result' = [of |-> "load", ok |-> TRUE, value |-> ret.cell]
  BY <1>3, <1>6
<1>8. result'.value = ret.cell
  BY <1>7
<1>9. ret.cell = NoValue \/ ret.cell \in Values \/ method.dict \in RawDicts \cup {"sender_key"}
  BY <1>6, <1>7 DEF Decodes
<1> QED BY <1>5, <1>8, <1>9

(* A listing tells what is there. *)
LEMMA ListIsTrue ==
    ASSUME IInv, listed \/ item, method' = NoMethod, result'.of = "list", result'.ok
    PROVE  /\ [i \in DOMAIN result'.items |-> result'.items[i].key]
                 \in Orders(method.dict, KeysIn(method.dict) \cap method.range)
           /\ \A i \in DOMAIN result'.items :
                 result'.items[i].value \in
                    {Torn} \cup (Values \cap {flash[<<method.dict, result'.items[i].key>>]})
<1>1. method.shape # "none"
  BY DEF listed, item, Resumes
<1>2. Failed("list").ok = FALSE
  BY DEF Failed
<1>3. CASE listed
  <2>1. Idle /\ method.shape = "list"
    BY <1>3 DEF listed, Resumes
  <2>2. ret # Err
    BY <1>2, <1>3 DEF listed, Returns
  <2>3. PICK keys \in Orders(method.dict, ret.keys \cap method.range) :
            IF keys = <<>> THEN Returns([of |-> "list", ok |-> TRUE, items |-> <<>>])
            ELSE Calls([method EXCEPT !.shape = "items", !.keys = keys],
                       Get(<<method.dict, Head(keys)>>))
    BY <1>3, <2>2 DEF listed
  <2>4. method \in ListMethod /\ ret = KeyNames(KeysIn(method.dict))
    BY <2>1, <2>2, Shapes, CallKinds DEF IInv, Idle, Call
  <2>5. ret.keys = KeysIn(method.dict)
    BY <2>4, AnswerKinds
  <2>6. keys = <<>> /\ result' = [of |-> "list", ok |-> TRUE, items |-> <<>>]
    <3>1. [method EXCEPT !.shape = "items", !.keys = keys].shape = "items"
      BY <2>4 DEF ListMethod
    <3>2. NoMethod.shape = "none"
      BY DEF NoMethod
    <3> QED BY <2>3, <3>1, <3>2 DEF Calls, Returns
  <2>7. result'.items = <<>> /\ DOMAIN <<>> = {}
    BY <2>6
  <2>8. [i \in DOMAIN result'.items |-> result'.items[i].key] = keys
    BY <2>6, <2>7
  <2> QED BY <2>3, <2>5, <2>7, <2>8
<1>4. CASE item
  <2>1. Resumes("items")
    BY <1>4 DEF item
  <2>2. PICK got : got = IF ret # Err /\ ret.cell \in Values THEN ret.cell ELSE Torn
    OBVIOUS
  <2>3. PICK e : e = [key |-> Head(method.keys), value |-> got]
    OBVIOUS
  <2>4. PICK items : items = Append(method.items, e)
    OBVIOUS
  <2>5. PICK rest : rest = Tail(method.keys)
    OBVIOUS
  <2>6. IF rest = <<>> THEN Returns([of |-> "list", ok |-> TRUE, items |-> items])
        ELSE Calls([method EXCEPT !.keys = rest, !.items = items],
                   Get(<<method.dict, Head(rest)>>))
    BY <1>4, <2>2, <2>3, <2>4, <2>5, Zenon DEF item
  <2>7. /\ items \in Seq(Item) /\ rest \in Seq(Keys) /\ method \in ListMethod
        /\ ReadSoFar(method.dict, method.range, items, rest)
    BY <2>1, <2>2, <2>3, <2>4, <2>5, ItemIs
  <2>8. rest = <<>> /\ result' = [of |-> "list", ok |-> TRUE, items |-> items]
    <3>1. [method EXCEPT !.keys = rest, !.items = items].shape = "items"
      BY <2>1, <2>7 DEF ListMethod, Resumes
    <3>2. NoMethod.shape = "none"
      BY DEF NoMethod
    <3> QED BY <2>6, <3>1, <3>2 DEF Calls, Returns
  <2>9. result'.items = items /\ Len(rest) = 0
    BY <2>8
  <2>10. PICK all \in Orders(method.dict, KeysIn(method.dict) \cap method.range) :
            /\ all \in Seq(Keys)
            /\ Len(all) = Len(items) + Len(rest)
            /\ \A i \in 1..Len(items) :
                  /\ items[i].key = all[i]
                  /\ items[i].value \in
                        {Torn} \cup (Values \cap {flash[<<method.dict, all[i]>>]})
    <3> HIDE DEF KeysIn, Orders
    <3> QED BY ONLY <2>7 DEF ReadSoFar
  <2>11. /\ Len(items) \in Nat /\ DOMAIN items = 1..Len(items) /\ Len(all) = Len(items)
    BY <2>7, <2>9, <2>10
  <2>12. [i \in DOMAIN items |-> items[i].key] = all
    <3>1. all = [i \in 1..Len(items) |-> all[i]]
      <4>1. all \in Seq(Keys) /\ Len(all) = Len(items)
        BY <2>10, <2>11
      <4> QED BY ONLY <4>1
    <3> QED BY <2>10, <2>11, <3>1
  <2>13. \A i \in DOMAIN items :
            items[i].value \in {Torn} \cup (Values \cap {flash[<<method.dict, items[i].key>>]})
    BY <2>10, <2>11
  <2> HIDE DEF KeysIn, Orders
  <2> QED BY <2>9, <2>10, <2>12, <2>13
<1> QED BY <1>3, <1>4

(* What a method hands out is what is on flash: a load gives the whole     *)
(* record or none, a listing every record in range once and in order,      *)
(* however chunks and pages were split (content.rs, state.rs).             *)
THEOREM AnswersAreTrueHolds == Spec => AnswersAreTrue
<1>1. IInv /\ [Next]_vars => AnswersStep
  <2> SUFFICES ASSUME IInv, [Next]_vars PROVE AnswersStep
    OBVIOUS
  <2>1. ASSUME method.shape = "load", method' = NoMethod, result'.of = "load", result'.ok
        PROVE  loaded
    <3>1. Resume
      BY <2>1, ReturnSteps
    <3> QED BY <2>1, <3>1 DEF Resume, Resumes, saved, looked_up, probed, changed, listed, item,
                              wiped, committed, fell_back
  <2>2. ASSUME method.shape \in {"list", "items"}, method' = NoMethod, result'.of = "list",
               result'.ok
        PROVE  listed \/ item
    <3>1. Resume
      BY <2>2, ReturnSteps
    <3> QED BY <2>2, <3>1 DEF Resume, Resumes, saved, looked_up, probed, changed, loaded,
                              wiped, committed, fell_back
  <2> QED BY <2>1, <2>2, LoadIsTrue, ListIsTrue DEF AnswersStep
<1>2. IInv /\ [Next]_vars => [AnswersStep]_vars
  BY <1>1
<1> QED BY <1>2, Invariance, PTL DEF Spec, AnswersAreTrue, AnswersStep

(* After Store::clear has returned Ok only messages and sticker packs are  *)
(* still there (store.rs, content.rs).                                     *)
THEOREM ClearIsCompleteHolds == Spec => ClearIsComplete
<1>1. ASSUME IInv, Next, result' # result, result'.of = "clear", result'.ok,
             NEW a \in Address, flash[a] # NoValue
      PROVE  a[1] \in Threads \cup {"sticker_packs"}
  <2>1. NoResult.of = "none"
    BY DEF NoResult
  <2>2. ~StartsFresh /\ ~Restart
    BY <1>1, <2>1 DEF StartsFresh, Start, Restart
  <2>3. ~ClientRuns /\ ~(try_mount /\ UNCHANGED svars)
    BY <1>1 DEF ClientRuns, svars
  <2>4. Resume
    BY <1>1, <2>2, <2>3, StartStep
  <2>5. wiped
    <3>1. /\ \A m, c : ~Calls(m, c)
          /\ \A r : Returns(r) => r.of = "clear" /\ r.ok
      BY <1>1 DEF Calls, Returns
    <3>2. /\ ~Returns(Failed("load")) /\ ~Returns(Failed("change")) /\ ~Returns(Failed("list"))
      BY <3>1 DEF Failed
    <3>3. ~saved /\ ~looked_up
      BY <3>1 DEF saved, looked_up
    <3>4. ~loaded
      <4>1. /\ Failed("load").of = "load"
            /\ \A v : [of |-> "load", ok |-> TRUE, value |-> v].of = "load"
        BY DEF Failed
      <4>2. loaded => \E r : Returns(r) /\ r.of = "load"
        BY <4>1 DEF loaded
      <4> QED BY <3>1, <4>2
    <3>5. ~probed /\ ~changed
      BY <3>1, <3>2 DEF probed, changed
    <3>6. ~listed /\ ~item
      <4>1. /\ Failed("list").of = "list"
            /\ \A v : [of |-> "list", ok |-> TRUE, items |-> v].of = "list"
        BY DEF Failed
      <4>2. listed => \E r : Returns(r) /\ r.of = "list"
        BY <3>1, <4>1 DEF listed
      <4>3. item => \E v : Returns([of |-> "list", ok |-> TRUE, items |-> v])
        BY <3>1, Zenon DEF item
      <4> QED BY <3>1, <4>1, <4>2, <4>3
    <3>7. ~committed /\ ~fell_back
      BY <3>1 DEF committed, fell_back
    <3> QED BY <2>4, <3>3, <3>4, <3>5, <3>6, <3>7 DEF Resume
  <2>s. method.shape = "wipe" /\ Idle
    BY <2>5 DEF wiped, Resumes
  <2>6. method \in WipeMethod /\ Clears(method) /\ Idle
    BY <1>1, <2>s, Shapes DEF IInv
  <2>7. Failed(method.of).ok = FALSE
    BY DEF Failed
  <2>8. ret # Err /\ method.todo = <<>> /\ result' = [of |-> method.of, ok |-> TRUE]
    BY <1>1, <2>5, <2>7 DEF wiped, Returns, Calls
  <2>9. method.of = "clear" /\ Len(method.todo) = 0
    BY <1>1, <2>8
  <2>10. \A d \in NamedDicts \ {"sticker_packs"} : Gone(d)
    BY <2>6, <2>8, <2>9, CallKinds DEF Clears, Idle, Call
  <2>11. a[1] \in NamedDicts \cup Threads /\ a \in InDict(a[1])
    BY <1>1, ContentStoreAssumption DEF Address, InDict
  <2>12. a[1] \notin NamedDicts \ {"sticker_packs"}
    BY <1>1, <2>10, <2>11 DEF Gone
  <2> QED BY <2>11, <2>12
<1>2. IInv /\ [Next]_vars =>
        [(result' # result /\ result'.of = "clear" /\ result'.ok) =>
            \A a \in Address : flash[a] # NoValue => a[1] \in Threads \cup {"sticker_packs"}]_vars
  BY <1>1
<1> QED BY <1>2, Invariance, PTL DEF Spec, ClearIsComplete

-----------------------------------------------------------------------------
(* Refinement: a call takes effect when it returns.                        *)

(* What KvBackend's variables stand for. *)
Mapped == WholeStore(IF Idle THEN flash ELSE call.before)
Answered == IF ret.kind = "bytes" THEN Bytes(Whole(ret.cell)) ELSE ret

(* Between calls the store is flash, during one it is what it found. *)
LEMMA MappedIs ==
    /\ call = NoCall => Mapped = WholeStore(flash)
    /\ call # NoCall => Mapped = WholeStore(call.before)
    /\ call' = NoCall => Mapped' = WholeStore(flash')
    /\ call' # NoCall => Mapped' = WholeStore(call'.before)
BY DEF Mapped, Idle, WholeStore

(* The answers that are not values are the same above and below. *)
LEMMA AnsweredIs ==
    /\ \A r \in {Ok, Err, NoAnswer} : ret' = r => Answered' = r
    /\ \A S : ret' = KeyNames(S) => Answered' = KeyNames(S)
    /\ \A c : ret' = Bytes(c) => Answered' = Bytes(Whole(c))
    /\ ret' = ret => Answered' = Answered
BY AnswerKinds DEF Answered, Whole

(* One cell more, or less. *)
LEMMA WholeExcept ==
    ASSUME NEW f \in Flash, NEW a \in Address, NEW c
    PROVE  WholeStore([f EXCEPT ![a] = c]) = [WholeStore(f) EXCEPT ![a] = Whole(c)]
BY DEF WholeStore, Flash

(* A change of cells of S alone, in the contract's words. *)
LEMMA TouchesOnly ==
    ASSUME NEW S, \A a \in Address \ S : Mapped'[a] = Mapped[a]
    PROVE  KV!OnlyAt(S)
BY DEF Mapped, KV!OnlyAt, KV!Address, Address

LEMMA MappedDomain == DOMAIN Mapped = Address
BY DEF Mapped, WholeStore

(* Nothing has been done. *)
LEMMA NothingRefines ==
    ASSUME Mapped' = Mapped, Answered' \in {Err, NoAnswer}
    PROVE  KV!KNext
BY DEF Mapped, Answered, KV!KNext, KV!NothingDone, KV!Broken, KV!Err, KV!NoAnswer, Err, NoAnswer

(* A get has returned. *)
LEMMA GetRefines ==
    ASSUME NEW a \in Address, Mapped' = Mapped, Answered' = Bytes(Mapped[a])
    PROVE  KV!KNext
<1>1. KV!get(a)
  BY DEF Mapped, Answered, KV!get, KV!Bytes, Bytes
<1>2. KV!OnlyAt({a})
  BY TouchesOnly
<1> QED BY <1>1, <1>2 DEF KV!KNext, KV!Address, Address

(* A listing has returned. *)
LEMMA ListRefines ==
    ASSUME NEW d \in Dicts, Mapped' = Mapped,
           Answered' = KeyNames({k \in Keys : Mapped[<<d, k>>] # NoValue})
    PROVE  KV!KNext
<1>1. KV!list_keys(d)
  BY DEF Mapped, Answered, KV!list_keys, KV!KeyNames, KeyNames
<1>2. KV!OnlyAt(KV!InDict(d))
  BY TouchesOnly
<1> QED BY <1>1, <1>2 DEF KV!KNext

(* A put has returned, or was cut. *)
LEMMA PutRefines ==
    ASSUME NEW c \in PutCall, NEW f, Mapped = WholeStore(c.before), Mapped' = WholeStore(f),
           \/ Answered' = Ok /\ f = [c.before EXCEPT ![c.at] = c.value]
           \/ Answered' \in {Err, NoAnswer} /\ PutCut(c, f)
    PROVE  KV!KNext
<1>1. c.at \in Address /\ c.value \in Values /\ c.value \in Seq(Byte) /\ c.before \in Flash
  BY ValueAssumption DEF PutCall
<1>2. ASSUME Answered' = Ok, f = [c.before EXCEPT ![c.at] = c.value]
      PROVE  KV!put(c.at, c.value) /\ KV!OnlyAt({c.at})
  <2>1. Whole(c.value) = c.value
    BY <1>1 DEF Whole
  <2>2. Mapped' = [Mapped EXCEPT ![c.at] = c.value]
    BY <1>1, <1>2, <2>1, WholeExcept
  <2>3. KV!OnlyAt({c.at})
    BY <2>2, MappedDomain, TouchesOnly
  <2> QED BY <1>2, <2>2, <2>3 DEF Mapped, Answered, KV!put, KV!Ok, Ok, KV!put_ok
<1>3. ASSUME Answered' \in {Err, NoAnswer}, PutCut(c, f)
      PROVE  KV!put(c.at, c.value) /\ KV!OnlyAt({c.at})
  <2>1. \/ Mapped' = Mapped
        \/ Mapped' = [Mapped EXCEPT ![c.at] = NoValue]
        \/ Mapped' = [Mapped EXCEPT ![c.at] = Torn]
        \/ Mapped' = [Mapped EXCEPT ![c.at] = c.value]
    <3>1. CASE f = c.before
      BY <3>1
    <3>2. CASE f = [c.before EXCEPT ![c.at] = NoValue]
      <4>1. Whole(NoValue) = NoValue
        BY DEF Whole
      <4> QED BY <1>1, <3>2, <4>1, WholeExcept
    <3>3. ASSUME NEW n \in 0..Len(c.value),
                 f = [c.before EXCEPT ![c.at] = SubSeq(c.value, 1, n)]
          PROVE  \/ Mapped' = [Mapped EXCEPT ![c.at] = Torn]
                 \/ Mapped' = [Mapped EXCEPT ![c.at] = c.value]
      <4>1. n \in Nat /\ (n < Len(c.value) \/ n = Len(c.value))
        BY <1>1
      <4>2. n < Len(c.value) => Whole(SubSeq(c.value, 1, n)) = Torn
        BY <1>1, <4>1, CutIsTorn
      <4>3. n = Len(c.value) => SubSeq(c.value, 1, n) = c.value
        BY <1>1, Cut
      <4>4. Whole(c.value) = c.value
        BY <1>1 DEF Whole
      <4>5. Whole(SubSeq(c.value, 1, n)) \in {Torn, c.value}
        BY <4>1, <4>2, <4>3, <4>4
      <4>6. Mapped' = [Mapped EXCEPT ![c.at] = Whole(SubSeq(c.value, 1, n))]
        BY <1>1, <3>3, WholeExcept
      <4> HIDE DEF Mapped, Whole
      <4> QED BY <4>5, <4>6
    <3> QED BY <1>3, <3>1, <3>2, <3>3 DEF PutCut
  <2>2. Mapped' \in {Mapped} \cup {[Mapped EXCEPT ![c.at] = x] : x \in {NoValue, Torn, c.value}}
    BY <2>1
  <2>3. KV!OnlyAt({c.at})
    BY <2>1, MappedDomain, TouchesOnly
  <2> QED BY <1>3, <2>2, <2>3 DEF Mapped, Answered, KV!put, KV!Broken, KV!Err, KV!NoAnswer, Err,
                            NoAnswer, KV!put_failed
<1> QED BY <1>1, <1>2, <1>3 DEF KV!KNext, KV!Address, Address

(* A delete has been done. *)
LEMMA DeleteRefines ==
    ASSUME NEW a \in Address, Mapped' = [Mapped EXCEPT ![a] = NoValue], Answered' \in {Ok, Err}
    PROVE  KV!KNext
<1>1. KV!delete(a)
  BY DEF Mapped, Answered, KV!delete, KV!Ok, Ok, KV!Err, Err, KV!Broken, KV!delete_failed,
         KV!delete_ok
<1>2. KV!OnlyAt({a})
  BY MappedDomain, TouchesOnly
<1> QED BY <1>1, <1>2 DEF KV!KNext, KV!Address, Address

(* A delete_dict has returned. *)
LEMMA DictRefines ==
    ASSUME NEW d \in Dicts, NEW gone \in SUBSET InDict(d),
           Mapped' = [a \in Address |-> IF a \in gone THEN NoValue ELSE Mapped[a]],
           Answered' = Err \/ (Answered' = Ok /\ gone = InDict(d))
    PROVE  KV!KNext
<1>1. KV!InDict(d) = InDict(d) /\ KV!Address = Address
  BY DEF KV!InDict, InDict, KV!Address, Address
<1>2. Mapped' = KV!delete_dict_applied(Mapped, gone)
  BY <1>1 DEF KV!delete_dict_applied
<1>3. KV!delete_dict(d)
  BY <1>1, <1>2 DEF Mapped, Answered, KV!delete_dict, KV!Ok, Ok, KV!Broken, KV!Err, Err
<1>4. KV!OnlyAt(KV!InDict(d))
  BY <1>1, TouchesOnly
<1> QED BY <1>3, <1>4 DEF KV!KNext

(* A put_batch has returned. *)
LEMMA BatchRefines ==
    ASSUME StoreTypes, NEW b \in Batches, NEW n \in 0..Len(b), Mapped = WholeStore(flash),
           Mapped' = WholeStore(Applied(b, n)),
           Answered' = Err \/ (Answered' = Ok /\ n = Len(b))
    PROVE  KV!KNext
<1>1. KV!Address = Address
  BY DEF KV!Address, Address
<1>2. /\ Len(b) \in Nat /\ DOMAIN b = 1..Len(b) /\ 1..n \subseteq 1..Len(b)
      /\ \A i \in 1..Len(b) : b[i].at \in Address /\ b[i].value \in Values
      /\ \A i, j \in 1..Len(b) : b[i].at = b[j].at => i = j
  BY BatchIs
<1>3. PICK S : S = {b[i].at : i \in 1..n}
  OBVIOUS
<1>4. ASSUME NEW i \in 1..Len(b)
      PROVE  b[i].at \in DOMAIN KV!Entries(b) /\ KV!Entries(b)[b[i].at] = b[i].value
  <2>1. (CHOOSE j \in DOMAIN b : b[j].at = b[i].at) = i
    BY <1>2
  <2>2. b[i].at \in {b[j].at : j \in DOMAIN b}
    BY <1>2
  <2> QED BY <2>1, <2>2 DEF KV!Entries
<1>5. ASSUME NEW a \in Address
      PROVE  Whole(Applied(b, n)[a]) = IF a \in S THEN KV!Entries(b)[a] ELSE Whole(flash[a])
  <2>1. ASSUME NEW i \in 1..n, b[i].at = a
        PROVE  Whole(Applied(b, n)[a]) = KV!Entries(b)[a]
    <3>1. i \in 1..Len(b) /\ b[i].value \in Values
      BY <1>2
    <3>2. Applied(b, n)[a] = b[i].value
      BY <2>1, AppliedIs
    <3>3. KV!Entries(b)[a] = b[i].value
      BY <1>4, <2>1, <3>1
    <3>4. Whole(b[i].value) = b[i].value
      BY <3>1 DEF Whole
    <3> QED BY <3>2, <3>3, <3>4
  <2>2. ASSUME a \notin S PROVE Whole(Applied(b, n)[a]) = Whole(flash[a])
    BY <1>3, <2>2, AppliedIs
  <2> QED BY <1>3, <2>1, <2>2
<1>6. Mapped' = KV!put_batch_applied(Mapped, KV!Entries(b), S)
  BY <1>1, <1>5 DEF WholeStore, KV!put_batch_applied
<1>7. n = Len(b) => S = DOMAIN KV!Entries(b)
  BY <1>2, <1>3 DEF KV!Entries
<1>8. KV!put_batch(b)
  <2>1. CASE Answered' = Ok /\ n = Len(b)
    BY <1>6, <1>7, <2>1 DEF Mapped, Answered, KV!put_batch, KV!Ok, Ok
  <2>2. CASE Answered' = Err
    BY <1>3, <1>6, <2>2 DEF Mapped, Answered, KV!put_batch, KV!Broken, KV!Err, Err
  <2> QED BY <2>1, <2>2
<1> QED BY <1>8 DEF KV!KNext

(* Every message of the client is a step of KvBackend, or a stutter. *)
LEMMA ClientRefines ==
    ASSUME IInv, ClientRuns
    PROVE  KV!KNext \/ UNCHANGED <<Mapped, Answered>>
<1>1. /\ StoreTypes /\ CallInv /\ ClientStep /\ UNCHANGED ops
  BY DEF IInv, ClientRuns, svars
<1>2. GetGoesOn \/ ListGoesOn \/ PutGoesOn \/ BatchEnds \/ DeleteEnds \/ DictEnds
  BY <1>1, ClientGoesOn
<1>3. call \in Call /\ call # NoCall
  <2>1. call \in Call
    BY <1>2 DEF GetGoesOn, ListGoesOn, PutGoesOn, BatchEnds, DeleteEnds, DictEnds, Call
  <2> QED BY <2>1, CallKinds
<1>4. InProgress(call) /\ Mapped = WholeStore(call.before)
  BY <1>1, <1>3, MappedIs DEF CallInv
<1>5. ASSUME call' \in Call, call'.before = call.before, ret' = ret
      PROVE  UNCHANGED <<Mapped, Answered>>
  <2>1. call' # NoCall
    BY <1>5, CallKinds
  <2> QED BY <1>4, <1>5, <2>1, MappedIs, AnsweredIs
<1>6. ASSUME call' = NoCall, ret' = Err, flash' = call.before PROVE KV!KNext
  BY <1>4, <1>6, MappedIs, AnsweredIs, NothingRefines
<1>7. CASE GetGoesOn
  <2>1. call \in GetCall /\ flash' = flash /\ flash = call.before /\ call.at \in Address
    BY <1>4, <1>7 DEF GetGoesOn, GetCall, InProgress
  <2>2. CASE call' \in GetCall /\ ret' = ret /\ call'.before = call.before
    BY <1>5, <2>2 DEF Call
  <2>3. CASE call' = NoCall /\ ret' = Err
    BY <1>6, <2>1, <2>3
  <2>4. CASE call' = NoCall /\ ret' = Bytes(flash[call.at])
    <3>1. Mapped' = Mapped
      BY <1>4, <2>1, <2>4, MappedIs
    <3>2. Mapped[call.at] = Whole(flash[call.at])
      BY <1>4, <2>1 DEF WholeStore
    <3>3. Answered' = Bytes(Mapped[call.at])
      BY <2>4, <3>2, AnsweredIs
    <3> QED BY <2>1, <3>1, <3>3, GetRefines
  <2> QED BY <1>7, <2>2, <2>3, <2>4 DEF GetGoesOn
<1>8. CASE ListGoesOn
  <2>1. call \in ListCall /\ flash' = flash /\ flash = call.before /\ call.dict \in Dicts
    BY <1>4, <1>8 DEF ListGoesOn, ListCall, InProgress
  <2>2. CASE call' \in ListCall /\ ret' = ret /\ call'.before = call.before
    BY <1>5, <2>2 DEF Call
  <2>3. CASE call' = NoCall /\ ret' = Err
    BY <1>6, <2>1, <2>3
  <2>4. CASE call' = NoCall /\ ret' = KeyNames(KeysIn(call.dict))
    <3>1. Mapped' = Mapped
      BY <1>4, <2>1, <2>4, MappedIs
    <3>2. ASSUME NEW k \in Keys
          PROVE  Mapped[<<call.dict, k>>] # NoValue <=> flash[<<call.dict, k>>] # NoValue
      <4>1. <<call.dict, k>> \in Address
        BY <2>1 DEF Address
      <4>2. Mapped[<<call.dict, k>>] = Whole(flash[<<call.dict, k>>])
        BY <1>4, <2>1, <4>1 DEF WholeStore
      <4> QED BY <4>2, CellAssumption DEF Whole
    <3>3. KeysIn(call.dict) = {k \in Keys : Mapped[<<call.dict, k>>] # NoValue}
      BY <3>2 DEF KeysIn
    <3>4. Answered' = KeyNames({k \in Keys : Mapped[<<call.dict, k>>] # NoValue})
      BY <2>4, <3>3, AnsweredIs
    <3> QED BY <2>1, <3>1, <3>4, ListRefines
  <2> QED BY <1>8, <2>2, <2>3, <2>4 DEF ListGoesOn
<1>9. CASE PutGoesOn
  <2>1. call \in PutCall
    BY <1>9 DEF PutGoesOn
  <2>2. CASE call' \in PutCall /\ ret' = ret /\ call'.before = call.before
    BY <1>5, <2>2 DEF Call
  <2>3. CASE /\ call' = NoCall
             /\ \/ ret' = Ok /\ flash' = [call.before EXCEPT ![call.at] = call.value]
                \/ ret' = Err /\ PutCut(call, flash')
    <3>1. Mapped' = WholeStore(flash')
      BY <2>3, MappedIs
    <3>2. \/ Answered' = Ok /\ flash' = [call.before EXCEPT ![call.at] = call.value]
          \/ Answered' \in {Err, NoAnswer} /\ PutCut(call, flash')
      BY <2>3, AnsweredIs
    <3>3. PICK c \in PutCall : c = call
      BY <2>1
    <3>4. PICK f : f = flash'
      OBVIOUS
    <3> QED BY <1>4, <3>1, <3>2, <3>3, <3>4, PutRefines
  <2> QED BY <1>9, <2>2, <2>3 DEF PutGoesOn
<1>10. CASE BatchEnds
  <2>1. call \in BatchCall /\ call' = NoCall
    BY <1>10 DEF BatchEnds
  <2>2. flash = call.before
    BY <1>4, <2>1 DEF InProgress
  <2>3. PICK b \in Batches : b = call.entries
    BY <2>1 DEF BatchCall
  <2>4. PICK n \in 0..Len(b) :
            /\ flash' = Applied(b, n)
            /\ ret' = Err \/ (ret' = Ok /\ n = Len(b))
    BY <1>10, <2>3 DEF BatchEnds
  <2>5. /\ Mapped' = WholeStore(Applied(b, n))
        /\ Answered' = Err \/ (Answered' = Ok /\ n = Len(b))
    BY <2>1, <2>4, MappedIs, AnsweredIs
  <2> QED BY <1>1, <1>4, <2>2, <2>5, BatchRefines
<1>11. CASE DeleteEnds
  <2>1. call \in DeleteCall /\ call' = NoCall /\ call.at \in Address
    BY <1>11 DEF DeleteEnds, DeleteCall
  <2>2. flash = call.before /\ flash \in Flash
    BY <1>1, <1>4, <2>1 DEF InProgress, StoreTypes
  <2>3. CASE ret' \in {Ok, Err} /\ flash' = [flash EXCEPT ![call.at] = NoValue]
    <3>1. Whole(NoValue) = NoValue
      BY DEF Whole
    <3>2. Mapped' = [Mapped EXCEPT ![call.at] = NoValue]
      <4>1. WholeStore([flash EXCEPT ![call.at] = NoValue])
              = [WholeStore(flash) EXCEPT ![call.at] = Whole(NoValue)]
        BY <2>1, <2>2, WholeExcept
      <4>2. Mapped' = WholeStore(flash') /\ Mapped = WholeStore(flash)
        BY <1>4, <2>1, <2>2, MappedIs
      <4> QED BY <2>3, <3>1, <4>1, <4>2
    <3>3. Answered' \in {Ok, Err}
      BY <2>3, AnsweredIs
    <3> QED BY <2>1, <3>2, <3>3, DeleteRefines
  <2>4. CASE ret' = Err /\ flash' = flash
    BY <1>6, <2>1, <2>2, <2>4
  <2> QED BY <1>11, <2>3, <2>4 DEF DeleteEnds
<1>12. CASE DictEnds
  <2>1. call \in DictCall /\ call' = NoCall /\ call.dict \in Dicts
    BY <1>12 DEF DictEnds, DictCall
  <2>2. flash = call.before
    BY <1>4, <2>1 DEF InProgress
  <2>3. PICK gone \in SUBSET InDict(call.dict) :
            /\ flash' = [a \in Address |-> IF a \in gone THEN NoValue ELSE flash[a]]
            /\ ret' = Err \/ (ret' = Ok /\ gone = InDict(call.dict))
    BY <1>12 DEF DictEnds
  <2>4. Mapped' = [a \in Address |-> IF a \in gone THEN NoValue ELSE Mapped[a]]
    <3>1. Mapped' = WholeStore(flash') /\ Mapped = WholeStore(flash)
      BY <1>4, <2>1, <2>2, MappedIs
    <3>2. Whole(NoValue) = NoValue
      BY DEF Whole
    <3> QED BY <2>3, <3>1, <3>2 DEF WholeStore
  <2>5. Answered' = Err \/ (Answered' = Ok /\ gone = InDict(call.dict))
    BY <2>3, AnsweredIs
  <2> QED BY <2>1, <2>4, <2>5, DictRefines
<1> QED BY <1>2, <1>7, <1>8, <1>9, <1>10, <1>11, <1>12

(* A power loss is a step of the call it cuts. *)
LEMMA RestartRefines ==
    ASSUME IInv, Restart
    PROVE  KV!KNext
<1>1. call' = NoCall /\ ret' = NoAnswer /\ flash' = flash
  BY DEF Restart, power_loss
<1>2. Mapped' = WholeStore(flash) /\ Answered' = NoAnswer
  BY <1>1, MappedIs, AnsweredIs
<1>3. CASE call = NoCall
  BY <1>2, <1>3, MappedIs, NothingRefines
<1>4. CASE call \in Call /\ InProgress(call)
  <2>1. call # NoCall /\ Mapped = WholeStore(call.before)
    BY <1>4, CallKinds, MappedIs
  <2>2. CASE call \in PutCall
    <3>1. PICK c \in PutCall : c = call
      BY <2>2
    <3>2. PutCut(c, flash)
      <4>1. CASE c.pc = "delete"
        BY <1>4, <3>1, <4>1 DEF InProgress, PutCut
      <4>2. CASE c.pc = "open"
        BY <1>4, <3>1, <4>2 DEF InProgress, PutCut
      <4>3. CASE c.pc = "write"
        <5>1. c.value \in Seq(Byte) /\ c.pos \in Nat /\ c.pos < Len(c.value)
          BY <1>4, <3>1, ValueAssumption DEF InProgress, PutCall
        <5>2. c.pos \in 0..Len(c.value)
          BY <5>1
        <5>3. flash = [c.before EXCEPT ![c.at] = SubSeq(c.value, 1, c.pos)]
          BY <1>4, <3>1, <4>3 DEF InProgress
        <5> QED BY <5>2, <5>3 DEF PutCut
      <4> QED BY <4>1, <4>2, <4>3 DEF PutCall
    <3>3. PICK f : f = flash
      OBVIOUS
    <3> QED BY <1>2, <2>1, <3>1, <3>2, <3>3, PutRefines
  <2>3. CASE call \notin PutCall
    <3>1. flash = call.before
      BY <1>4, <2>3 DEF InProgress, Call
    <3> QED BY <1>2, <2>1, <3>1, NothingRefines
  <2> QED BY <2>2, <2>3
<1> QED BY <1>3, <1>4 DEF IInv, CallInv

(* PddbBackend over the IPC client gives what the KvBackend trait promises *)
(* (lib.rs:113-175): for every length of values, chunks, pages and         *)
(* batches, wherever a message fails or power is lost.                     *)
THEOREM Refinement == Spec => ImplementsKvBackend
<1>1. Init => KV!KInit
  <2> SUFFICES ASSUME Init PROVE KV!KInit
    OBVIOUS
  <2>1. Mapped = WholeStore(flash)
    BY MappedIs DEF Init, CInit
  <2>2. WholeStore(flash) \in [Address -> Cell]
    BY DEF WholeStore, Whole, Cell
  <2>3. KV!Store = [Address -> Cell]
    BY DEF KV!Store, KV!Address, KV!Cell, Address, Cell
  <2>4. Answered = NoAnswer
    BY AnswerKinds DEF Init, CInit, Answered
  <2> QED BY <2>1, <2>2, <2>3, <2>4 DEF KV!KInit, Mapped, Answered, KV!NoAnswer, NoAnswer
<1>2. IInv /\ [Next]_vars => [KV!KNext]_(KV!kvars)
  <2> SUFFICES ASSUME IInv, [Next]_vars PROVE KV!KNext \/ UNCHANGED <<Mapped, Answered>>
    BY DEF KV!kvars, Mapped, Answered
  <2>1. CASE UNCHANGED <<flash, call, ret>>
    BY <2>1, MappedIs, AnsweredIs DEF Mapped, Answered, WholeStore, Whole, Idle
  <2>2. CASE StartsFresh
    <3>1. PICK c : call' = c /\ Fresh(c) /\ call = NoCall /\ ret' = ret /\ flash' = flash
      <4>1. method = NoMethod => method.shape = "none"
        BY DEF NoMethod
      <4> QED BY <2>2, <4>1, Shapes DEF StartsFresh, Start, IInv
    <3>2. c # NoCall /\ c.before = flash
      BY <3>1, CallKinds DEF Fresh
    <3>3. UNCHANGED <<Mapped, Answered>>
      BY <3>1, <3>2, MappedIs, AnsweredIs
    <3> QED BY <3>3
  <2>3. CASE ResumesFresh
    <3>1. call = NoCall /\ ret' = NoAnswer
      BY <2>3 DEF ResumesFresh, Idle, Calls, Returns
    <3>2. Mapped' = Mapped
      <4>1. CASE \E r : Returns(r)
        BY <3>1, <4>1, MappedIs DEF Returns
      <4>2. ASSUME NEW m, NEW c, Calls(m, c), Fresh(c) PROVE Mapped' = Mapped
        <5>1. call' = c /\ c # NoCall /\ c.before = flash
          BY <4>2, CallKinds DEF Calls, Fresh
        <5> QED BY <3>1, <5>1, MappedIs
      <4> QED BY <2>3, <4>1, <4>2 DEF ResumesFresh
    <3>3. Answered' = NoAnswer
      BY <3>1, AnsweredIs
    <3> QED BY <3>2, <3>3, NothingRefines
  <2>4. CASE try_mount /\ UNCHANGED svars
    BY <2>1, <2>4 DEF try_mount
  <2>5. CASE UNCHANGED vars
    BY <2>1, <2>5 DEF vars
  <2> QED BY <2>2, <2>3, <2>4, <2>5, StartStep, ResumeStep, ClientRefines, RestartRefines
<1> QED BY <1>1, <1>2, Invariance, PTL DEF Spec, ImplementsKvBackend, KV!KSpec
=============================================================================
