------------------------- MODULE MessageStoreProofs -------------------------
(***************************************************************************)
(* Proofs about MessageStore for every set of conversations, every         *)
(* capacity and every range of timestamps.  rebuild_summaries is a fold    *)
(* over the rows, written as a recursive function.  That the function      *)
(* exists, and what it holds after n rows, are inductions over n carried   *)
(* out on the least n that would break the claim.                          *)
(***************************************************************************)
EXTENDS MessageStore, TLAPS, WellFoundedInduction, FiniteSetTheorems

-----------------------------------------------------------------------------
(* Least and largest elements.                                             *)

(* A set of naturals that is not empty has a least element. *)
LEMMA LeastIs ==
    ASSUME NEW S \in SUBSET Nat, S # {}
    PROVE  \E m \in S : \A y \in S : m <= y
<1>1. PICK m \in S : \A y \in S : ~(<<y, m>> \in OpToRel(<, Nat))
  BY ONLY S # {}, S \in SUBSET Nat, NatLessThanWellFounded, WFMin
<1>2. \A y \in S : ~(y < m)
  BY <1>1 DEF OpToRel
<1> QED BY <1>2

(* The largest element of a set that has one is its Max. *)
LEMMA MaxIs ==
    ASSUME NEW S \in SUBSET Nat, NEW k \in S, \A y \in S : y <= k
    PROVE  Max(S) = k
<1>1. \E x \in S : \A y \in S : x >= y
  OBVIOUS
<1>2. Max(S) \in S /\ \A y \in S : Max(S) >= y
  BY <1>1 DEF Max
<1>3. PICK x \in S : x = Max(S)
  BY <1>2
<1> QED BY <1>2, <1>3

-----------------------------------------------------------------------------
(* The recursive function of rebuild_summaries.                            *)

(* g is the fold of the first n rows, step by step. *)
Folds(g, rows, n) ==
    g = [i \in 0 .. n |-> IF i = 0 THEN <<>> ELSE Counted(g[i - 1], rows[i])]

(* The first n rows have a fold, for every n. *)
LEMMA FoldExists ==
    ASSUME NEW rows, NEW N \in Nat
    PROVE  \E g : Folds(g, rows, N)
<1> DEFINE Bad == {n \in 0 .. N : ~\E g : Folds(g, rows, n)}
<1>1. Bad \in SUBSET Nat
  OBVIOUS
<1>2. ASSUME Bad # {} PROVE FALSE
  <2>1. PICK m \in Bad : \A y \in Bad : m <= y
    BY <1>1, <1>2, LeastIs
  <2>2. m \in 0 .. N /\ ~\E g : Folds(g, rows, m)
    OBVIOUS
  <2>3. m # 0
    <3>1. PICK g : g = [i \in 0 .. 0 |-> <<>>]
      OBVIOUS
    <3>2. Folds(g, rows, 0)
      BY <3>1 DEF Folds
    <3> QED BY <2>2, <3>2
  <2>4. m - 1 \in 0 .. N /\ m - 1 \notin Bad
    BY <2>1, <2>2, <2>3
  <2>5. PICK g : Folds(g, rows, m - 1)
    BY <2>4
  <2>6. PICK c : c = Counted(g[m - 1], rows[m])
    OBVIOUS
  <2>7. PICK h : h = [i \in 0 .. m |-> IF i = m THEN c ELSE g[i]]
    OBVIOUS
  <2>8. \A i \in 0 .. m : h[i] = IF i = 0 THEN <<>> ELSE Counted(h[i - 1], rows[i])
    <3> TAKE i \in 0 .. m
    <3>1. CASE i = m
      BY <2>2, <2>3, <2>6, <2>7, <3>1
    <3>2. CASE i # m
      <4>1. i \in 0 .. m - 1 /\ h[i] = g[i]
        BY <2>2, <2>7, <3>2
      <4>2. g[i] = IF i = 0 THEN <<>> ELSE Counted(g[i - 1], rows[i])
        BY <2>5, <4>1 DEF Folds
      <4>3. i # 0 => h[i - 1] = g[i - 1]
        BY <2>2, <2>7, <4>1
      <4> QED BY <4>1, <4>2, <4>3
    <3> QED BY <3>1, <3>2
  <2>9. Folds(h, rows, m)
    BY <2>7, <2>8 DEF Folds
  <2> QED BY <2>2, <2>9
<1>3. N \notin Bad
  BY <1>2
<1> QED BY <1>3

(* rebuild_summaries is the last value of a fold of all the rows. *)
LEMMA RebuildFolds ==
    ASSUME NEW S, NEW rows \in Seq(S)
    PROVE  \E g : Folds(g, rows, Len(rows)) /\ rebuild_summaries(rows) = g[Len(rows)]
<1>1. Len(rows) \in Nat
  OBVIOUS
<1> DEFINE f == CHOOSE g : Folds(g, rows, Len(rows))
<1>2. Folds(f, rows, Len(rows))
  BY <1>1, FoldExists
<1>3. rebuild_summaries(rows) = f[Len(rows)]
  BY DEF rebuild_summaries, Folds
<1> QED BY <1>2, <1>3

-----------------------------------------------------------------------------
(* What the map says after n rows.                                         *)

(* The rows a buffer can hold: an incoming one is never anything but Sent. *)
RowSeq ==
    {rows \in Seq(ThreadMessage) :
        \A i \in 1 .. Len(rows) : ~rows[i].outgoing => rows[i].status = "Sent"}

(* Of the first n rows, those of u, its incoming and its unread ones. *)
UpTo(rows, n, u) == {i \in 1 .. n : rows[i].uuid = u}
IncomingUpTo(rows, n, u) == {i \in UpTo(rows, n, u) : ~rows[i].outgoing}
UnreadUpTo(rows, n, u) == {i \in IncomingUpTo(rows, n, u) : ~rows[i].read}

(* k is the latest row of I, the last one among equal timestamps. *)
LatestOf(rows, I, k) ==
    /\ k \in I
    /\ \A j \in I : /\ rows[j].timestamp <= rows[k].timestamp
                    /\ rows[j].timestamp = rows[k].timestamp => j <= k

(* Each field of u's summary d after n rows. *)
ShowsLatest(d, rows, n, u) ==
    IF UpTo(rows, n, u) = {}
    THEN d.last_msg_ts = 0
    ELSE \E k \in 1 .. n : /\ LatestOf(rows, UpTo(rows, n, u), k)
                           /\ d.last_msg_ts = rows[k].timestamp
                           /\ d.last_msg_outgoing = rows[k].outgoing
                           /\ d.last_msg_status = rows[k].status
ShowsName(d, rows, n, u) ==
    IF IncomingUpTo(rows, n, u) = {}
    THEN d.display_name = "raw"
    ELSE \E k \in IncomingUpTo(rows, n, u) :
            /\ \A j \in IncomingUpTo(rows, n, u) : j <= k
            /\ d.display_name = rows[k].label
ShowsUnread(d, rows, n, u) == d.unread_count = Cardinality(UnreadUpTo(rows, n, u))
ShowsGroup(d, rows, n, u) == d.is_group = \E i \in UpTo(rows, n, u) : rows[i].group

Shows(d, rows, n, u) ==
    /\ ShowsLatest(d, rows, n, u)
    /\ ShowsName(d, rows, n, u)
    /\ ShowsUnread(d, rows, n, u)
    /\ ShowsGroup(d, rows, n, u)

(* The map holds one true summary for each conversation of the first n rows. *)
Describes(by_uuid, rows, n) ==
    /\ DOMAIN by_uuid = {rows[i].uuid : i \in 1 .. n}
    /\ \A u \in DOMAIN by_uuid : Shows(by_uuid[u], rows, n, u)

(* A row of the buffer and its fields. *)
LEMMA RowIs ==
    ASSUME NEW rows \in RowSeq, NEW n \in 1 .. Len(rows)
    PROVE  /\ rows[n] \in ThreadMessage
           /\ rows[n].timestamp \in Nat
           /\ rows[n].outgoing \in BOOLEAN
           /\ ~rows[n].outgoing => rows[n].status = "Sent"
           /\ n - 1 \in Nat
           /\ n \in Nat
<1>1. rows \in Seq(ThreadMessage) /\ Len(rows) \in Nat
  BY DEF RowSeq
<1>2. PICK m \in ThreadMessage : m = rows[n]
  BY <1>1
<1>3. m.timestamp \in Nat /\ m.outgoing \in BOOLEAN
  BY MessageStoreAssumption DEF ThreadMessage, Times
<1>4. ~rows[n].outgoing => rows[n].status = "Sent"
  BY DEF RowSeq
<1> QED BY <1>1, <1>2, <1>3, <1>4

(* Of the first n rows, the last one is u's or the rows of u are as before. *)
LEMMA UpToStep ==
    ASSUME NEW rows, NEW n \in Nat, n # 0, NEW u
    PROVE  /\ u = rows[n].uuid => UpTo(rows, n, u) = UpTo(rows, n - 1, u) \cup {n}
           /\ u # rows[n].uuid => UpTo(rows, n, u) = UpTo(rows, n - 1, u)
           /\ \A i \in UpTo(rows, n - 1, u) : i < n /\ i \in Nat
BY DEF UpTo

(* A conversation without a row of its own so far has the new summary. *)
LEMMA NewSummaryShows ==
    ASSUME NEW rows, NEW n \in Nat, NEW u, UpTo(rows, n, u) = {}
    PROVE  Shows(NewSummary, rows, n, u)
<1>1. UpTo(rows, n, u) = {} /\ IncomingUpTo(rows, n, u) = {} /\ UnreadUpTo(rows, n, u) = {}
  BY DEF IncomingUpTo, UnreadUpTo
<1>2. Cardinality(UnreadUpTo(rows, n, u)) = 0
  BY <1>1, FS_EmptySet
<1>3. /\ NewSummary.last_msg_ts = 0
      /\ NewSummary.display_name = "raw"
      /\ NewSummary.unread_count = 0
      /\ NewSummary.is_group = FALSE
  BY DEF NewSummary
<1> QED
  BY <1>1, <1>2, <1>3 DEF Shows, ShowsLatest, ShowsName, ShowsUnread, ShowsGroup

(* Fields of other conversations' rows do not count. *)
LEMMA OthersShow ==
    ASSUME NEW rows, NEW n \in Nat, n # 0, NEW u, u # rows[n].uuid,
           NEW d, Shows(d, rows, n - 1, u)
    PROVE  Shows(d, rows, n, u)
<1>1. UpTo(rows, n, u) = UpTo(rows, n - 1, u)
  BY UpToStep
<1>2. IncomingUpTo(rows, n, u) = IncomingUpTo(rows, n - 1, u)
  BY <1>1 DEF IncomingUpTo
<1>3. UnreadUpTo(rows, n, u) = UnreadUpTo(rows, n - 1, u)
  BY <1>2 DEF UnreadUpTo
<1>4. 1 .. n - 1 \subseteq 1 .. n
  OBVIOUS
<1>5. ShowsLatest(d, rows, n, u)
  BY <1>1, <1>4 DEF Shows, ShowsLatest
<1>6. ShowsName(d, rows, n, u)
  BY <1>2 DEF Shows, ShowsName
<1>7. ShowsUnread(d, rows, n, u)
  BY <1>3 DEF Shows, ShowsUnread
<1>8. ShowsGroup(d, rows, n, u)
  BY <1>1 DEF Shows, ShowsGroup
<1> QED BY <1>5, <1>6, <1>7, <1>8 DEF Shows

(* A row that is not older than the latest so far becomes the latest. *)
LEMMA LatestStep ==
    ASSUME NEW rows \in RowSeq, NEW n \in 1 .. Len(rows), NEW d,
           ShowsLatest(d, rows, n - 1, rows[n].uuid)
    PROVE  ShowsLatest(Summarised(d, rows[n]), rows, n, rows[n].uuid)
<1>0. PICK u : u = rows[n].uuid
  OBVIOUS
<1> DEFINE m == rows[n]
           old == UpTo(rows, n - 1, u)
           I == UpTo(rows, n, u)
           e == Summarised(d, m)
<1>1. n \in Nat /\ n # 0 /\ m.timestamp \in Nat
  BY RowIs
<1>2. I = old \cup {n} /\ \A i \in old : i < n /\ i \in Nat /\ i \in 1 .. n - 1
  BY <1>0, <1>1, UpToStep DEF UpTo
<1>3. /\ e.last_msg_ts = IF m.timestamp >= d.last_msg_ts THEN m.timestamp ELSE d.last_msg_ts
      /\ e.last_msg_outgoing =
            IF m.timestamp >= d.last_msg_ts THEN m.outgoing ELSE d.last_msg_outgoing
      /\ e.last_msg_status =
            IF m.timestamp >= d.last_msg_ts THEN m.status ELSE d.last_msg_status
  BY DEF Summarised, IsLatest
<1>4. \A i \in old : rows[i].timestamp \in Nat
  BY <1>2, RowIs
<1>5. I # {}
  BY <1>2
<1>6. CASE m.timestamp >= d.last_msg_ts
  <2>1. \A j \in old : rows[j].timestamp <= d.last_msg_ts
    <3>1. CASE old = {}
      BY <3>1
    <3>2. CASE old # {}
      <4>1. PICK k \in 1 .. n - 1 : /\ LatestOf(rows, old, k)
                                    /\ d.last_msg_ts = rows[k].timestamp
        BY <1>0, <3>2 DEF ShowsLatest
      <4>2. \A j \in old : rows[j].timestamp <= rows[k].timestamp
        BY <4>1 DEF LatestOf
      <4> QED BY <4>1, <4>2
    <3> QED BY <3>1, <3>2
  <2>2. d.last_msg_ts \in Nat
    <3>1. CASE old = {}
      BY <1>0, <3>1 DEF ShowsLatest
    <3>2. CASE old # {}
      BY <1>0, <1>4, <3>2 DEF ShowsLatest, LatestOf
    <3> QED BY <3>1, <3>2
  <2>3. LatestOf(rows, I, n)
    BY <1>1, <1>2, <1>4, <1>6, <2>1, <2>2 DEF LatestOf
  <2>4. /\ e.last_msg_ts = rows[n].timestamp
        /\ e.last_msg_outgoing = rows[n].outgoing
        /\ e.last_msg_status = rows[n].status
    BY <1>3, <1>6
  <2>5. n \in 1 .. n
    BY <1>1
  <2> QED BY <1>0, <1>5, <2>3, <2>4, <2>5 DEF ShowsLatest
<1>7. CASE ~(m.timestamp >= d.last_msg_ts)
  <2>1. old # {}
    BY <1>0, <1>1, <1>7 DEF ShowsLatest
  <2>2. PICK k \in 1 .. n - 1 : /\ LatestOf(rows, old, k)
                                /\ d.last_msg_ts = rows[k].timestamp
                                /\ d.last_msg_outgoing = rows[k].outgoing
                                /\ d.last_msg_status = rows[k].status
    BY <1>0, <2>1 DEF ShowsLatest
  <2>3. k \in old /\ rows[k].timestamp \in Nat
    BY <1>4, <2>2 DEF LatestOf
  <2>4. LatestOf(rows, I, k)
    BY <1>1, <1>2, <1>4, <1>7, <2>2, <2>3 DEF LatestOf
  <2>5. /\ e.last_msg_ts = rows[k].timestamp
        /\ e.last_msg_outgoing = rows[k].outgoing
        /\ e.last_msg_status = rows[k].status
    BY <1>3, <1>7, <2>2
  <2>6. k \in 1 .. n
    BY <1>1
  <2> QED BY <1>0, <1>5, <2>4, <2>5, <2>6 DEF ShowsLatest
<1> QED BY <1>6, <1>7

(* The name is that of the last incoming row. *)
LEMMA NameStep ==
    ASSUME NEW rows \in RowSeq, NEW n \in 1 .. Len(rows), NEW d,
           ShowsName(d, rows, n - 1, rows[n].uuid)
    PROVE  ShowsName(Summarised(d, rows[n]), rows, n, rows[n].uuid)
<1>0. PICK u : u = rows[n].uuid
  OBVIOUS
<1> DEFINE m == rows[n]
           old == IncomingUpTo(rows, n - 1, u)
           I == IncomingUpTo(rows, n, u)
           e == Summarised(d, m)
<1>1. n \in Nat /\ n # 0
  BY RowIs
<1>2. /\ UpTo(rows, n, u) = UpTo(rows, n - 1, u) \cup {n}
      /\ \A i \in UpTo(rows, n - 1, u) : i < n /\ i \in Nat
  BY <1>0, <1>1 DEF UpTo
<1>3. e.display_name = IF m.outgoing THEN d.display_name ELSE m.label
  BY DEF Summarised
<1>4. CASE m.outgoing
  <2>1. I = old
    BY <1>2, <1>4 DEF IncomingUpTo
  <2> QED BY <1>0, <1>3, <1>4, <2>1 DEF ShowsName
<1>5. CASE ~m.outgoing
  <2>1. I = old \cup {n} /\ \A i \in old : i < n /\ i \in Nat
    BY <1>2, <1>5 DEF IncomingUpTo
  <2>2. n \in I /\ \A j \in I : j <= n
    BY <1>1, <2>1
  <2>3. e.display_name = rows[n].label
    BY <1>3, <1>5
  <2> QED BY <1>0, <2>2, <2>3 DEF ShowsName
<1> QED BY <1>4, <1>5

(* The count goes up by one with an unread incoming row, and only then. *)
LEMMA UnreadStep ==
    ASSUME NEW rows \in RowSeq, NEW n \in 1 .. Len(rows), NEW d,
           ShowsUnread(d, rows, n - 1, rows[n].uuid)
    PROVE  ShowsUnread(Summarised(d, rows[n]), rows, n, rows[n].uuid)
<1>0. PICK u : u = rows[n].uuid
  OBVIOUS
<1> DEFINE m == rows[n]
           old == UnreadUpTo(rows, n - 1, u)
           I == UnreadUpTo(rows, n, u)
           e == Summarised(d, m)
<1>1. n \in Nat /\ n # 0 /\ (~m.outgoing => m.status = "Sent")
  BY RowIs
<1>2. /\ UpTo(rows, n, u) = UpTo(rows, n - 1, u) \cup {n}
      /\ \A i \in UpTo(rows, n - 1, u) : i < n /\ i \in Nat
  BY <1>0, <1>1 DEF UpTo
<1>3. e.unread_count = IF ~m.outgoing /\ m.status = "Sent" /\ ~m.read
                       THEN d.unread_count + 1 ELSE d.unread_count
  BY DEF Summarised
<1>4. CASE ~m.outgoing /\ ~m.read
  <2>1. I = old \cup {n} /\ n \notin old
    BY <1>1, <1>2, <1>4 DEF UnreadUpTo, IncomingUpTo
  <2>2. IsFiniteSet(old)
    <3>1. old \subseteq 1 .. n
      BY <1>1 DEF UnreadUpTo, IncomingUpTo, UpTo
    <3>2. IsFiniteSet(1 .. n)
      BY <1>1, FS_Interval
    <3> QED BY <3>1, <3>2, FS_Subset
  <2>3. Cardinality(I) = Cardinality(old) + 1
    <3> HIDE DEF old, I
    <3> QED BY <2>1, <2>2, FS_AddElement
  <2>4. e.unread_count = d.unread_count + 1
    BY <1>1, <1>3, <1>4
  <2> QED BY <1>0, <2>3, <2>4 DEF ShowsUnread
<1>5. CASE ~(~m.outgoing /\ ~m.read)
  <2>1. I = old
    BY <1>2, <1>5 DEF UnreadUpTo, IncomingUpTo
  <2> QED BY <1>0, <1>3, <1>5, <2>1 DEF ShowsUnread
<1> QED BY <1>4, <1>5

(* One tagged row makes the conversation a group. *)
LEMMA GroupStep ==
    ASSUME NEW rows \in RowSeq, NEW n \in 1 .. Len(rows), NEW d,
           ShowsGroup(d, rows, n - 1, rows[n].uuid)
    PROVE  ShowsGroup(Summarised(d, rows[n]), rows, n, rows[n].uuid)
<1>1. n \in Nat /\ n # 0
  BY RowIs
<1>2. UpTo(rows, n, rows[n].uuid) = UpTo(rows, n - 1, rows[n].uuid) \cup {n}
  BY <1>1, UpToStep
<1>3. Summarised(d, rows[n]).is_group = (d.is_group \/ rows[n].group)
  BY DEF Summarised
<1>4. d.is_group = \E i \in UpTo(rows, n - 1, rows[n].uuid) : rows[i].group
  BY DEF ShowsGroup
<1> QED BY <1>2, <1>3, <1>4, Zenon DEF ShowsGroup

(* Counting one more row keeps the map true. *)
LEMMA CountedDescribes ==
    ASSUME NEW rows \in RowSeq, NEW n \in 1 .. Len(rows), NEW b, Describes(b, rows, n - 1)
    PROVE  Describes(Counted(b, rows[n]), rows, n)
<1> DEFINE v == rows[n].uuid
           c == Counted(b, rows[n])
<1>1. n \in Nat /\ n # 0 /\ n - 1 \in Nat
  BY RowIs
<1>2. DOMAIN c = DOMAIN b \cup {v}
  BY DEF Counted
<1>3. DOMAIN b = {rows[i].uuid : i \in 1 .. n - 1}
  BY DEF Describes
<1>4. 1 .. n = (1 .. n - 1) \cup {n}
  BY <1>1
<1>5. DOMAIN c = {rows[i].uuid : i \in 1 .. n}
  BY <1>2, <1>3, <1>4
<1>6. ASSUME NEW u \in DOMAIN c PROVE Shows(c[u], rows, n, u)
  <2>1. PICK d : d = IF u \in DOMAIN b THEN b[u] ELSE NewSummary
    OBVIOUS
  <2>2. Shows(d, rows, n - 1, u)
    <3>1. CASE u \in DOMAIN b
      BY <2>1, <3>1 DEF Describes
    <3>2. CASE u \notin DOMAIN b
      <4>1. UpTo(rows, n - 1, u) = {}
        BY <1>3, <3>2 DEF UpTo
      <4> QED BY <1>1, <2>1, <3>2, <4>1, NewSummaryShows
    <3> QED BY <3>1, <3>2
  <2>3. CASE u = v
    <3>1. c[u] = Summarised(d, rows[n])
      BY <1>2, <2>1, <2>3 DEF Counted
    <3>2. /\ ShowsLatest(d, rows, n - 1, rows[n].uuid)
          /\ ShowsName(d, rows, n - 1, rows[n].uuid)
          /\ ShowsUnread(d, rows, n - 1, rows[n].uuid)
          /\ ShowsGroup(d, rows, n - 1, rows[n].uuid)
      BY <2>2, <2>3 DEF Shows
    <3> QED BY <2>3, <3>1, <3>2, LatestStep, NameStep, UnreadStep, GroupStep DEF Shows
  <2>4. CASE u # v
    <3>1. c[u] = d
      BY <1>2, <2>1, <2>4 DEF Counted
    <3> QED BY <1>1, <2>2, <2>4, <3>1, OthersShow
  <2> QED BY <2>3, <2>4
<1> QED BY <1>5, <1>6 DEF Describes

(* The summaries of a buffer are true of its rows, whatever their order. *)
LEMMA RebuildDescribes ==
    ASSUME NEW rows \in RowSeq
    PROVE  Describes(rebuild_summaries(rows), rows, Len(rows))
<1>1. rows \in Seq(ThreadMessage)
  BY DEF RowSeq
<1>2. PICK N \in Nat : N = Len(rows)
  BY <1>1
<1>3. PICK g : Folds(g, rows, N) /\ rebuild_summaries(rows) = g[N]
  BY <1>1, <1>2, RebuildFolds
<1> DEFINE Bad == {n \in 0 .. N : ~Describes(g[n], rows, n)}
<1>4. ASSUME Bad # {} PROVE FALSE
  <2>1. Bad \in SUBSET Nat
    OBVIOUS
  <2>2. PICK m \in Bad : \A y \in Bad : m <= y
    BY <1>4, <2>1, LeastIs
  <2>3. m \in 0 .. N /\ ~Describes(g[m], rows, m)
    OBVIOUS
  <2>4. m # 0
    <3>1. g[0] = <<>>
      BY <1>3 DEF Folds
    <3>2. DOMAIN g[0] = {}
      BY <3>1
    <3>3. {rows[i].uuid : i \in 1 .. 0} = {}
      OBVIOUS
    <3>4. Describes(g[0], rows, 0)
      BY <3>2, <3>3 DEF Describes
    <3> QED BY <2>3, <3>4
  <2>5. m - 1 \in 0 .. N /\ m - 1 \notin Bad
    BY <2>2, <2>3, <2>4
  <2>6. Describes(g[m - 1], rows, m - 1)
    BY <2>5
  <2>7. g[m] = Counted(g[m - 1], rows[m])
    BY <1>3, <2>3, <2>4 DEF Folds
  <2>8. m \in 1 .. Len(rows)
    BY <1>2, <2>3, <2>4
  <2> QED BY <2>3, <2>6, <2>7, <2>8, CountedDescribes
<1>5. N \notin Bad
  BY <1>4
<1> QED BY <1>2, <1>3, <1>5

(* No rows, no summaries. *)
LEMMA RebuildEmpty == rebuild_summaries(<<>>) = <<>>
<1>1. PICK e : e = <<>>
  OBVIOUS
<1>2. e \in Seq(ThreadMessage) /\ Len(e) = 0
  BY <1>1
<1>3. PICK g : Folds(g, e, 0) /\ rebuild_summaries(e) = g[0]
  BY <1>2, RebuildFolds
<1>4. g[0] = <<>>
  BY <1>3 DEF Folds
<1> QED BY <1>1, <1>3, <1>4

-----------------------------------------------------------------------------
(* The inductive invariant.                                                *)

(* What can have become of a send. *)
Outcomes == {"unsent", "Pending", "Delivered", "Failed"}

(* Values of the variables; the buffer never outgrows its capacity. *)
StoreTypes ==
    /\ messages \in Seq(ThreadMessage)
    /\ Len(messages) <= Capacity
    /\ open \in Threads \cup {NoThread}
    /\ outcome \in [Times -> Outcomes]

(* Each row shows what became of its send. *)
ShowsOutcome(rows, out) ==
    \A i \in 1 .. Len(rows) :
        rows[i].status = IF rows[i].outgoing THEN out[rows[i].timestamp] ELSE "Sent"

(* No two rows the user wrote share a timestamp: an outcome has one row. *)
SendsDiffer(rows) ==
    \A i, j \in 1 .. Len(rows) :
        (rows[i].outgoing /\ rows[j].outgoing /\ rows[i].timestamp = rows[j].timestamp)
            => i = j

(* Nothing was written after a group's row into its conversation. *)
RepliesBlocked(rows) ==
    \A i, j \in 1 .. Len(rows) :
        (i < j /\ rows[i].group /\ rows[i].uuid = rows[j].uuid) => ~rows[j].outgoing

RowsTell(rows, out) == ShowsOutcome(rows, out) /\ SendsDiffer(rows) /\ RepliesBlocked(rows)

(* The summaries are those of the rows, and the rows tell what happened. *)
MInv ==
    /\ StoreTypes
    /\ dialogues = rebuild_summaries(messages)
    /\ RowsTell(messages, outcome)

(* The rows of a state, in its own words. *)
LEMMA RowsTellMeans == MInv => OutcomeShown /\ ReplyBlockHolds
<1> SUFFICES ASSUME MInv PROVE OutcomeShown /\ ReplyBlockHolds
  OBVIOUS
<1>1. DOMAIN messages = 1 .. Len(messages)
  BY DEF MInv, StoreTypes
<1>2. OutcomeShown
  BY <1>1 DEF MInv, RowsTell, ShowsOutcome, OutcomeShown
<1>3. ReplyBlockHolds
  BY <1>1 DEF MInv, RowsTell, RepliesBlocked, ReplyBlockHolds
<1> QED BY <1>2, <1>3

(* The rows of every state can be summarised. *)
LEMMA RowsAreRows ==
    ASSUME MInv
    PROVE  messages \in RowSeq /\ DOMAIN messages = 1 .. Len(messages)
BY DEF MInv, StoreTypes, RowsTell, ShowsOutcome, RowSeq

(* Home is true of the rows. *)
LEMMA MInvShowsRows == MInv => SummariesAreTrue
<1> SUFFICES ASSUME MInv PROVE SummariesAreTrue
  OBVIOUS
<1>1. PICK rows : rows = messages
  OBVIOUS
<1>2. rows \in RowSeq /\ DOMAIN rows = 1 .. Len(rows)
  BY <1>1, RowsAreRows
<1>3. PICK N \in Nat : N = Len(rows)
  BY <1>1 DEF MInv, StoreTypes
<1>4. Describes(dialogues, rows, N)
  BY <1>1, <1>2, <1>3, RebuildDescribes DEF MInv
<1>5. DOMAIN dialogues = {messages[i].uuid : i \in DOMAIN messages}
  BY <1>1, <1>2, <1>3, <1>4 DEF Describes
<1>6. ASSUME NEW u \in DOMAIN dialogues
      PROVE  LET d == dialogues[u]
                 newest == messages[NewestOf(u)]
             IN  /\ d.last_msg_ts = newest.timestamp
                 /\ d.last_msg_outgoing = newest.outgoing
                 /\ d.last_msg_status = newest.status
                 /\ d.display_name = IF IncomingOf(u) = {} THEN "raw"
                                     ELSE messages[Max(IncomingOf(u))].label
                 /\ d.unread_count = Cardinality({i \in IncomingOf(u) : ~messages[i].read})
                 /\ d.is_group = \E i \in RowsOf(u) : messages[i].group
  <2>1. PICK d : d = dialogues[u]
    OBVIOUS
  <2>2. Shows(d, rows, N, u)
    BY <1>4, <2>1 DEF Describes
  <2>3. RowsOf(u) = UpTo(rows, N, u)
    BY <1>1, <1>2, <1>3 DEF RowsOf, UpTo
  <2>4. IncomingOf(u) = IncomingUpTo(rows, N, u)
    BY <1>1, <2>3 DEF IncomingOf, IncomingUpTo
  <2>5. {i \in IncomingOf(u) : ~messages[i].read} = UnreadUpTo(rows, N, u)
    BY <1>1, <2>4 DEF UnreadUpTo
  <2>6. d.unread_count = Cardinality({i \in IncomingOf(u) : ~messages[i].read})
    BY <2>2, <2>5 DEF Shows, ShowsUnread
  <2>7. d.is_group = \E i \in RowsOf(u) : messages[i].group
    BY <1>1, <2>2, <2>3 DEF Shows, ShowsGroup
  <2>8. d.display_name = IF IncomingOf(u) = {} THEN "raw"
                         ELSE messages[Max(IncomingOf(u))].label
    <3>1. CASE IncomingOf(u) = {}
      BY <2>2, <2>4, <3>1 DEF Shows, ShowsName
    <3>2. CASE IncomingOf(u) # {}
      <4>1. PICK k \in IncomingUpTo(rows, N, u) :
                /\ \A j \in IncomingUpTo(rows, N, u) : j <= k
                /\ d.display_name = rows[k].label
        BY <2>2, <2>4, <3>2 DEF Shows, ShowsName
      <4>2. IncomingUpTo(rows, N, u) \in SUBSET Nat
        BY DEF IncomingUpTo, UpTo
      <4>3. Max(IncomingUpTo(rows, N, u)) = k
        BY ONLY <4>1, <4>2, MaxIs
      <4> QED BY <1>1, <2>4, <3>2, <4>1, <4>3
    <3> QED BY <3>1, <3>2
  <2>9. PICK k \in 1 .. N : /\ LatestOf(rows, UpTo(rows, N, u), k)
                            /\ d.last_msg_ts = rows[k].timestamp
                            /\ d.last_msg_outgoing = rows[k].outgoing
                            /\ d.last_msg_status = rows[k].status
    <3>1. UpTo(rows, N, u) # {}
      BY <1>4 DEF Describes, UpTo
    <3> QED BY <2>2, <3>1 DEF Shows, ShowsLatest
  <2>10. NewestOf(u) = k
    <3>1. PICK T : T = {i \in RowsOf(u) :
                          \A j \in RowsOf(u) : messages[j].timestamp <= messages[i].timestamp}
      OBVIOUS
    <3>2. \A i \in UpTo(rows, N, u) : rows[i].timestamp \in Nat /\ i \in Nat
      BY <1>2, <1>3, RowIs DEF UpTo
    <3>3. T \in SUBSET Nat
      BY <2>3, <3>1, <3>2
    <3>4. k \in T
      BY <1>1, <2>3, <2>9, <3>1 DEF LatestOf
    <3>5. \A i \in T : i <= k
      <4> TAKE i \in T
      <4>1. i \in UpTo(rows, N, u) /\ k \in UpTo(rows, N, u)
        BY <2>3, <2>9, <3>1 DEF LatestOf
      <4>2. rows[k].timestamp <= rows[i].timestamp
        BY <1>1, <2>3, <3>1, <4>1
      <4>3. /\ rows[i].timestamp <= rows[k].timestamp
            /\ rows[i].timestamp = rows[k].timestamp => i <= k
        BY <2>9, <4>1 DEF LatestOf
      <4> QED BY <3>2, <4>1, <4>2, <4>3
    <3>6. Max(T) = k
      BY ONLY <3>3, <3>4, <3>5, MaxIs
    <3> QED BY <3>1, <3>6 DEF NewestOf
  <2> QED BY <1>1, <2>1, <2>6, <2>7, <2>8, <2>9, <2>10
<1> QED BY <1>5, <1>6 DEF SummariesAreTrue, MInv, StoreTypes

-----------------------------------------------------------------------------
(* What a handler may do to the rows.                                      *)

(* A function on 1 .. n with rows for values is a buffer of n rows. *)
LEMMA FunctionIsRows ==
    ASSUME NEW n \in Nat, NEW f \in [1 .. n -> ThreadMessage]
    PROVE  f \in Seq(ThreadMessage) /\ Len(f) = n
OBVIOUS

(* Dropping the oldest row. *)
LEMMA TailTells ==
    ASSUME NEW rows \in Seq(ThreadMessage), Len(rows) # 0, NEW out, RowsTell(rows, out)
    PROVE  /\ Tail(rows) \in Seq(ThreadMessage)
           /\ Len(Tail(rows)) = Len(rows) - 1
           /\ \A i \in 1 .. Len(Tail(rows)) :
                i + 1 \in 1 .. Len(rows) /\ Tail(rows)[i] = rows[i + 1]
           /\ RowsTell(Tail(rows), out)
<1>1. PICK w : w = Tail(rows)
  OBVIOUS
<1>2. PICK n \in Nat : n = Len(rows)
  OBVIOUS
<1>3. w \in Seq(ThreadMessage) /\ Len(w) = n - 1
  BY <1>1, <1>2
<1>4. \A i \in 1 .. n - 1 : i + 1 \in 1 .. n /\ w[i] = rows[i + 1]
  BY <1>1, <1>2
<1>5. ShowsOutcome(w, out)
  BY <1>2, <1>3, <1>4 DEF RowsTell, ShowsOutcome
<1>6. SendsDiffer(w)
  BY <1>2, <1>3, <1>4 DEF RowsTell, SendsDiffer
<1>7. RepliesBlocked(w)
  BY <1>2, <1>3, <1>4 DEF RowsTell, RepliesBlocked
<1> QED BY <1>1, <1>2, <1>3, <1>4, <1>5, <1>6, <1>7 DEF RowsTell

(* Eviction makes room for one row and brings in none. *)
LEMMA EvictTells ==
    ASSUME StoreTypes, NEW out, RowsTell(messages, out)
    PROVE  /\ evict_if_full \in Seq(ThreadMessage)
           /\ Len(evict_if_full) < Capacity
           /\ \A i \in 1 .. Len(evict_if_full) :
                \E j \in 1 .. Len(messages) : evict_if_full[i] = messages[j]
           /\ RowsTell(evict_if_full, out)
<1>1. messages \in Seq(ThreadMessage) /\ Len(messages) <= Capacity /\ Capacity \in Nat \ {0}
  BY MessageStoreAssumption DEF StoreTypes
<1>2. PICK n \in Nat : n = Len(messages)
  BY <1>1
<1>3. CASE n >= Capacity
  <2>1. evict_if_full = Tail(messages) /\ n # 0
    BY <1>1, <1>2, <1>3 DEF evict_if_full
  <2>2. PICK w : w = Tail(messages)
    OBVIOUS
  <2>3. /\ w \in Seq(ThreadMessage)
        /\ Len(w) = n - 1
        /\ \A i \in 1 .. Len(w) : i + 1 \in 1 .. n /\ w[i] = messages[i + 1]
        /\ RowsTell(w, out)
    BY <1>1, <1>2, <2>1, <2>2, TailTells
  <2> QED BY <1>1, <1>2, <2>1, <2>2, <2>3
<1>4. CASE ~(n >= Capacity)
  BY <1>1, <1>2, <1>4 DEF evict_if_full
<1> QED BY <1>3, <1>4

(* A new row at the end. *)
LEMMA AppendTells ==
    ASSUME NEW w \in Seq(ThreadMessage), NEW m \in ThreadMessage, NEW out, RowsTell(w, out),
           m.status = IF m.outgoing THEN out[m.timestamp] ELSE "Sent",
           \A i \in 1 .. Len(w) :
               m.outgoing => /\ ~(w[i].outgoing /\ w[i].timestamp = m.timestamp)
                             /\ ~(w[i].group /\ w[i].uuid = m.uuid)
    PROVE  /\ Append(w, m) \in Seq(ThreadMessage)
           /\ Len(Append(w, m)) = Len(w) + 1
           /\ RowsTell(Append(w, m), out)
<1>1. PICK v : v = Append(w, m)
  OBVIOUS
<1>2. PICK n \in Nat : n = Len(w)
  OBVIOUS
<1>3. v \in Seq(ThreadMessage) /\ Len(v) = n + 1
  BY <1>1, <1>2
<1>4. (\A i \in 1 .. n : v[i] = w[i]) /\ v[n + 1] = m
  BY <1>1, <1>2
<1>5. \A i \in 1 .. n + 1 : i \in 1 .. n \/ i = n + 1
  OBVIOUS
<1>6. ShowsOutcome(v, out)
  BY <1>2, <1>3, <1>4, <1>5 DEF RowsTell, ShowsOutcome
<1>7. SendsDiffer(v)
  BY <1>2, <1>3, <1>4, <1>5 DEF RowsTell, SendsDiffer
<1>8. RepliesBlocked(v)
  BY <1>2, <1>3, <1>4, <1>5 DEF RowsTell, RepliesBlocked
<1> QED BY <1>1, <1>2, <1>3, <1>6, <1>7, <1>8 DEF RowsTell

(* Marking rows read or naming their authors. *)
LEMMA RewriteTells ==
    ASSUME NEW rows \in Seq(ThreadMessage), NEW v \in Seq(ThreadMessage), NEW out,
           RowsTell(rows, out), Len(v) = Len(rows),
           \A i \in 1 .. Len(rows) :
               /\ v[i].uuid = rows[i].uuid /\ v[i].outgoing = rows[i].outgoing
               /\ v[i].timestamp = rows[i].timestamp /\ v[i].status = rows[i].status
               /\ v[i].group = rows[i].group
    PROVE  RowsTell(v, out)
<1>1. ShowsOutcome(v, out)
  BY DEF RowsTell, ShowsOutcome
<1>2. SendsDiffer(v)
  BY DEF RowsTell, SendsDiffer
<1>3. RepliesBlocked(v)
  BY DEF RowsTell, RepliesBlocked
<1> QED BY <1>1, <1>2, <1>3 DEF RowsTell

(* An outcome whose row is not there. *)
LEMMA OutcomeTells ==
    ASSUME NEW rows \in Seq(ThreadMessage), NEW out \in [Times -> Outcomes], NEW t \in Times,
           NEW s, RowsTell(rows, out),
           \A i \in 1 .. Len(rows) : ~(rows[i].outgoing /\ rows[i].timestamp = t)
    PROVE  RowsTell(rows, [out EXCEPT ![t] = s])
<1>1. ASSUME NEW i \in 1 .. Len(rows) PROVE rows[i].timestamp \in Times
  <2>1. PICK m \in ThreadMessage : m = rows[i]
    OBVIOUS
  <2> QED BY <2>1 DEF ThreadMessage
<1>2. ShowsOutcome(rows, [out EXCEPT ![t] = s])
  BY <1>1 DEF RowsTell, ShowsOutcome
<1> QED BY <1>2 DEF RowsTell

-----------------------------------------------------------------------------
(* Every handler keeps the invariant.                                      *)

(* push_incoming: an incoming row disturbs no row of the user's. *)
LEMMA IncomingStep ==
    ASSUME MInv, NEW u \in Threads, NEW t \in Times, NEW label \in {"raw", "named"},
           push_incoming(u, t, label)
    PROVE  MInv'
<1>1. PICK w : w = evict_if_full
  OBVIOUS
<1>2. w \in Seq(ThreadMessage) /\ Len(w) < Capacity /\ RowsTell(w, outcome)
  BY <1>1, EvictTells DEF MInv
<1>3. PICK m : m = Incoming(u, t, label)
  OBVIOUS
<1>4. m \in ThreadMessage /\ ~m.outgoing /\ m.status = "Sent"
  <2>1. (u \in Groups) \in BOOLEAN
    OBVIOUS
  <2>2. "Sent" \in SendStatus /\ label \in {"raw", "named", "You"}
    BY DEF SendStatus
  <2> QED BY <1>3, <2>1, <2>2 DEF Incoming, ThreadMessage
<1>5. PICK v : v = Append(w, m)
  OBVIOUS
<1>6. v \in Seq(ThreadMessage) /\ Len(v) = Len(w) + 1 /\ RowsTell(v, outcome)
  BY <1>2, <1>4, <1>5, AppendTells
<1>7. messages' = v /\ dialogues' = rebuild_summaries(v) /\ UNCHANGED <<open, outcome>>
  BY <1>1, <1>3, <1>5 DEF push_incoming, Store
<1>8. Len(v) <= Capacity
  <2>1. PICK n \in Nat : n = Len(w)
    BY <1>2
  <2> QED BY <1>2, <1>6, <2>1, MessageStoreAssumption
<1> QED BY <1>6, <1>7, <1>8 DEF MInv, StoreTypes

(* No row of the user's carries the timestamp of a send still to come. *)
LEMMA UnsentHasNoRow ==
    ASSUME MInv, NEW t \in Times, outcome[t] = "unsent"
    PROVE  \A i \in 1 .. Len(messages) :
               ~(messages[i].outgoing /\ messages[i].timestamp = t)
<1> TAKE i \in 1 .. Len(messages)
<1>1. PICK m \in ThreadMessage : m = messages[i]
  BY DEF MInv, StoreTypes
<1>2. m.status \in SendStatus
  BY DEF ThreadMessage
<1>3. m.outgoing => m.status = outcome[m.timestamp]
  BY <1>1 DEF MInv, RowsTell, ShowsOutcome
<1> QED BY <1>1, <1>2, <1>3 DEF SendStatus

(* A conversation that is not a group's has no row of a group. *)
LEMMA NotGroupHasNoTag ==
    ASSUME MInv, NEW u, ~is_group_thread(u)
    PROVE  \A i \in 1 .. Len(messages) : ~(messages[i].group /\ messages[i].uuid = u)
<1>1. MInv /\ ~is_group_thread(u)
  OBVIOUS
<1>2. SummariesAreTrue /\ DOMAIN messages = 1 .. Len(messages)
  BY MInvShowsRows, RowsAreRows
<1> TAKE i \in 1 .. Len(messages)
<1>3. SUFFICES ASSUME messages[i].group, messages[i].uuid = u PROVE FALSE
  OBVIOUS
<1>4. u \in DOMAIN dialogues
  BY <1>2, <1>3 DEF SummariesAreTrue
<1>5. dialogues[u].is_group = \E j \in RowsOf(u) : messages[j].group
  BY <1>2, <1>4 DEF SummariesAreTrue
<1>6. i \in RowsOf(u)
  BY <1>2, <1>3 DEF RowsOf
<1>7. dialogues[u].is_group
  BY <1>3, <1>5, <1>6
<1> QED BY <1>1, <1>4, <1>7 DEF is_group_thread

(* send_compose: the new row's timestamp is its own and its thread no group's. *)
LEMMA ComposeStep ==
    ASSUME MInv, NEW t \in Times, send_compose(t)
    PROVE  MInv'
<1>0. messages \in Seq(ThreadMessage) /\ outcome \in [Times -> Outcomes]
  BY DEF MInv, StoreTypes
<1>1. outcome[t] = "unsent" /\ ~is_group_thread(open) /\ open \in Threads
  <2>1. t >= t
    BY MessageStoreAssumption DEF Times
  <2> QED BY <2>1 DEF send_compose, MInv, StoreTypes
<1>2. PICK out : out = [outcome EXCEPT ![t] = "Pending"]
  OBVIOUS
<1>3. RowsTell(messages, out)
  BY <1>0, <1>1, <1>2, UnsentHasNoRow, OutcomeTells DEF MInv
<1>4. PICK w : w = evict_if_full
  OBVIOUS
<1>5. /\ w \in Seq(ThreadMessage)
      /\ Len(w) < Capacity
      /\ \A i \in 1 .. Len(w) : \E j \in 1 .. Len(messages) : w[i] = messages[j]
      /\ RowsTell(w, out)
  BY <1>3, <1>4, EvictTells DEF MInv
<1>6. PICK m : m = Outgoing(open, t)
  OBVIOUS
<1>7. /\ m \in ThreadMessage
      /\ m.outgoing /\ m.status = "Pending" /\ m.timestamp = t /\ m.uuid = open
  BY <1>1, <1>6 DEF Outgoing, ThreadMessage, SendStatus
<1>8. out[t] = "Pending"
  BY <1>0, <1>2
<1>9. \A i \in 1 .. Len(messages) :
          /\ ~(messages[i].outgoing /\ messages[i].timestamp = t)
          /\ ~(messages[i].group /\ messages[i].uuid = open)
  BY <1>1, UnsentHasNoRow, NotGroupHasNoTag
<1>10. \A i \in 1 .. Len(w) : /\ ~(w[i].outgoing /\ w[i].timestamp = m.timestamp)
                              /\ ~(w[i].group /\ w[i].uuid = m.uuid)
  BY <1>5, <1>7, <1>9
<1>11. PICK v : v = Append(w, m)
  OBVIOUS
<1>12. v \in Seq(ThreadMessage) /\ Len(v) = Len(w) + 1 /\ RowsTell(v, out)
  BY <1>5, <1>7, <1>8, <1>10, <1>11, AppendTells
<1>13. /\ messages' = v /\ dialogues' = rebuild_summaries(v)
       /\ outcome' = out /\ open' = open
  BY <1>2, <1>4, <1>6, <1>11 DEF send_compose, Store
<1>14. Len(v) <= Capacity
  <2>1. PICK n \in Nat : n = Len(w)
    BY <1>5
  <2> QED BY <1>5, <1>12, <2>1, MessageStoreAssumption
<1>15. out \in [Times -> Outcomes]
  BY <1>2 DEF MInv, StoreTypes, Outcomes
<1> QED BY <1>12, <1>13, <1>14, <1>15 DEF MInv, StoreTypes

(* An outcome reaches the one row of its send, if it is still there. *)
LEMMA StatusTells ==
    ASSUME MInv, NEW t \in Times, NEW s \in SendStatus, NEW i \in DOMAIN messages,
           Matching(t) = {i}, NEW v, v = [messages EXCEPT ![i].status = s]
    PROVE  /\ v \in Seq(ThreadMessage)
           /\ Len(v) = Len(messages)
           /\ RowsTell(v, [outcome EXCEPT ![t] = s])
<1>0. PICK n \in Nat : n = Len(messages)
  BY DEF MInv, StoreTypes
<1>1. messages \in [1 .. n -> ThreadMessage] /\ i \in 1 .. n
  BY <1>0 DEF MInv, StoreTypes
<1>2. /\ messages[i].outgoing /\ messages[i].timestamp = t
      /\ \A j \in 1 .. n : messages[j].outgoing /\ messages[j].timestamp = t => j = i
  <2>1. i \in Matching(t) /\ \A j \in Matching(t) : j = i
    OBVIOUS
  <2> QED BY <1>1, <2>1 DEF Matching
<1>3. PICK c : c = [messages[i] EXCEPT !.status = s]
  OBVIOUS
<1>4. PICK r \in ThreadMessage : r = messages[i]
  BY <1>1
<1>5. /\ c \in ThreadMessage /\ c.status = s /\ c.uuid = r.uuid /\ c.outgoing = r.outgoing
      /\ c.timestamp = r.timestamp /\ c.group = r.group
  BY <1>3, <1>4 DEF ThreadMessage
<1>6. v \in [1 .. n -> ThreadMessage]
      /\ \A j \in 1 .. n : v[j] = IF j = i THEN c ELSE messages[j]
  BY <1>1, <1>3, <1>5
<1>7. v \in Seq(ThreadMessage) /\ Len(v) = n
  BY <1>6, FunctionIsRows
<1>8. PICK out : out = [outcome EXCEPT ![t] = s]
  OBVIOUS
<1>9. \A x \in Times : out[x] = IF x = t THEN s ELSE outcome[x]
  BY <1>8 DEF MInv, StoreTypes
<1>10. \A j \in 1 .. n : /\ v[j].uuid = messages[j].uuid
                         /\ v[j].outgoing = messages[j].outgoing
                         /\ v[j].timestamp = messages[j].timestamp
                         /\ v[j].group = messages[j].group
  BY <1>4, <1>5, <1>6
<1>11. ASSUME NEW j \in 1 .. n
       PROVE  v[j].status = IF v[j].outgoing THEN out[v[j].timestamp] ELSE "Sent"
  <2>1. CASE j = i
    BY <1>2, <1>4, <1>5, <1>6, <1>9, <2>1
  <2>2. CASE j # i
    <3>1. v[j] = messages[j]
      BY <1>6, <2>2
    <3>2. PICK m \in ThreadMessage : m = messages[j]
      BY <1>1
    <3>3. m.timestamp \in Times
      BY DEF ThreadMessage
    <3>4. m.status = IF m.outgoing THEN outcome[m.timestamp] ELSE "Sent"
      BY <1>0, <3>2 DEF MInv, RowsTell, ShowsOutcome
    <3>5. m.outgoing => m.timestamp # t
      BY <1>2, <2>2, <3>2
    <3> QED BY <1>9, <3>1, <3>2, <3>3, <3>4, <3>5
  <2> QED BY <2>1, <2>2
<1>12. ShowsOutcome(v, out)
  BY <1>7, <1>11 DEF ShowsOutcome
<1>13. SendsDiffer(v)
  BY <1>0, <1>7, <1>10 DEF MInv, RowsTell, SendsDiffer
<1>14. RepliesBlocked(v)
  BY <1>0, <1>7, <1>10 DEF MInv, RowsTell, RepliesBlocked
<1> QED BY <1>0, <1>7, <1>8, <1>12, <1>13, <1>14 DEF RowsTell

(* send_complete and send_error. *)
LEMMA OutcomeStep ==
    ASSUME MInv, NEW t \in Times, NEW s \in {"Delivered", "Failed"},
           outcome' = [outcome EXCEPT ![t] = s], set_outgoing_status(t, s), UNCHANGED open
    PROVE  MInv'
<1>0. /\ messages \in Seq(ThreadMessage) /\ DOMAIN messages = 1 .. Len(messages)
      /\ outcome \in [Times -> Outcomes] /\ Len(messages) <= Capacity
      /\ open \in Threads \cup {NoThread}
  BY DEF MInv, StoreTypes
<1>1. PICK out : out = [outcome EXCEPT ![t] = s]
  OBVIOUS
<1>2. out \in [Times -> Outcomes] /\ s \in SendStatus
  BY <1>0, <1>1 DEF Outcomes, SendStatus
<1>3. CASE Matching(t) = {}
  <2>1. \A i \in 1 .. Len(messages) : ~(messages[i].outgoing /\ messages[i].timestamp = t)
    BY <1>0, <1>3 DEF Matching
  <2>2. RowsTell(messages, out)
    BY <1>0, <1>1, <2>1, OutcomeTells DEF MInv
  <2>3. UNCHANGED <<messages, dialogues>>
    BY <1>3 DEF set_outgoing_status
  <2> QED BY <1>0, <1>1, <1>2, <2>2, <2>3 DEF MInv, StoreTypes
<1>4. CASE Matching(t) # {}
  <2>1. PICK i \in Matching(t) : TRUE
    BY <1>4
  <2>2. i \in DOMAIN messages
    BY DEF Matching
  <2>3. Matching(t) = {i}
    BY <1>0, <2>1 DEF Matching, MInv, RowsTell, SendsDiffer
  <2>4. Max(Matching(t)) = i
    <3>1. {i} \in SUBSET Nat /\ i \in {i} /\ \A y \in {i} : y <= i
      BY <1>0, <2>2
    <3>2. Max({i}) = i
      BY ONLY <3>1, MaxIs
    <3> QED BY <2>3, <3>2
  <2>5. PICK v : v = [messages EXCEPT ![i].status = s]
    OBVIOUS
  <2>6. messages' = v /\ dialogues' = rebuild_summaries(v)
    BY <1>4, <2>4, <2>5 DEF set_outgoing_status, Store
  <2>7. v \in Seq(ThreadMessage) /\ Len(v) = Len(messages) /\ RowsTell(v, out)
    BY <1>1, <1>2, <2>2, <2>3, <2>5, StatusTells
  <2> QED BY <1>0, <1>1, <1>2, <2>6, <2>7 DEF MInv, StoreTypes
<1> QED BY <1>3, <1>4

(* Handlers that only mark rows read or name their authors, or that skip   *)
(* the rebuild because no row changed.                                     *)
LEMMA RewrittenStep ==
    ASSUME MInv, NEW v, Rewritten(v), UNCHANGED outcome, open' \in Threads \cup {NoThread},
           v \in [DOMAIN messages -> ThreadMessage],
           \A i \in DOMAIN messages :
               /\ v[i].uuid = messages[i].uuid /\ v[i].outgoing = messages[i].outgoing
               /\ v[i].timestamp = messages[i].timestamp /\ v[i].status = messages[i].status
               /\ v[i].group = messages[i].group
    PROVE  MInv'
<1>1. PICK n \in Nat : n = Len(messages)
  BY DEF MInv, StoreTypes
<1>2. DOMAIN messages = 1 .. n /\ messages \in Seq(ThreadMessage)
  BY <1>1 DEF MInv, StoreTypes
<1>3. v \in Seq(ThreadMessage) /\ Len(v) = n
  BY <1>2, FunctionIsRows
<1>4. RowsTell(v, outcome)
  BY <1>1, <1>2, <1>3, RewriteTells DEF MInv
<1>5. messages' = v /\ dialogues' = rebuild_summaries(v)
  BY DEF Rewritten, Store, MInv
<1> QED BY <1>1, <1>3, <1>4, <1>5 DEF MInv, StoreTypes

(* open_thread. *)
LEMMA ReadStep ==
    ASSUME MInv, NEW u, mark_thread_read(u), UNCHANGED outcome,
           open' \in Threads \cup {NoThread}
    PROVE  MInv'
<1>1. PICK v : v = [i \in DOMAIN messages |->
                      IF messages[i].uuid = u THEN [messages[i] EXCEPT !.read = TRUE]
                      ELSE messages[i]]
  OBVIOUS
<1>2. ASSUME NEW i \in DOMAIN messages
      PROVE  /\ v[i] \in ThreadMessage
             /\ v[i].uuid = messages[i].uuid /\ v[i].outgoing = messages[i].outgoing
             /\ v[i].timestamp = messages[i].timestamp /\ v[i].status = messages[i].status
             /\ v[i].group = messages[i].group
  <2>1. PICK m \in ThreadMessage : m = messages[i]
    BY DEF MInv, StoreTypes
  <2>2. PICK r : r = [m EXCEPT !.read = TRUE]
    OBVIOUS
  <2>3. /\ r \in ThreadMessage /\ r.uuid = m.uuid /\ r.outgoing = m.outgoing
        /\ r.timestamp = m.timestamp /\ r.status = m.status /\ r.group = m.group
    BY <2>2 DEF ThreadMessage
  <2>4. v[i] = r \/ v[i] = m
    BY <1>1, <2>1, <2>2
  <2> QED BY <2>1, <2>3, <2>4
<1>3. v \in [DOMAIN messages -> ThreadMessage]
  BY <1>1, <1>2
<1>4. Rewritten(v)
  BY <1>1 DEF mark_thread_read
<1> QED BY <1>2, <1>3, <1>4, RewrittenStep

(* contact_resolved, and new_chat by username. *)
LEMMA ResolveStep ==
    ASSUME MInv, NEW u, resolve_author_labels(u), UNCHANGED outcome,
           open' \in Threads \cup {NoThread}
    PROVE  MInv'
<1>1. PICK v : v = [i \in DOMAIN messages |->
                      IF messages[i].uuid = u /\ messages[i].label = "raw"
                      THEN [messages[i] EXCEPT !.label = "named"]
                      ELSE messages[i]]
  OBVIOUS
<1>2. ASSUME NEW i \in DOMAIN messages
      PROVE  /\ v[i] \in ThreadMessage
             /\ v[i].uuid = messages[i].uuid /\ v[i].outgoing = messages[i].outgoing
             /\ v[i].timestamp = messages[i].timestamp /\ v[i].status = messages[i].status
             /\ v[i].group = messages[i].group
  <2>1. PICK m \in ThreadMessage : m = messages[i]
    BY DEF MInv, StoreTypes
  <2>2. PICK r : r = [m EXCEPT !.label = "named"]
    OBVIOUS
  <2>3. /\ r \in ThreadMessage /\ r.uuid = m.uuid /\ r.outgoing = m.outgoing
        /\ r.timestamp = m.timestamp /\ r.status = m.status /\ r.group = m.group
    BY <2>2 DEF ThreadMessage
  <2>4. v[i] = r \/ v[i] = m
    BY <1>1, <2>1, <2>2
  <2> QED BY <2>1, <2>3, <2>4
<1>3. v \in [DOMAIN messages -> ThreadMessage]
  BY <1>1, <1>2
<1>4. Rewritten(v)
  BY <1>1 DEF resolve_author_labels
<1> QED BY <1>2, <1>3, <1>4, RewrittenStep

(* Handlers that touch no row. *)
LEMMA ScreenStep ==
    ASSUME MInv, UNCHANGED <<messages, dialogues, outcome>>,
           open' \in Threads \cup {NoThread}
    PROVE  MInv'
BY DEF MInv, StoreTypes

(* No rows tell nothing. *)
LEMMA EmptyTells ==
    ASSUME NEW rows, rows = <<>>, NEW out
    PROVE  /\ rows \in Seq(ThreadMessage) /\ Len(rows) <= Capacity
           /\ RowsTell(rows, out)
<1>1. rows \in Seq(ThreadMessage) /\ Len(rows) = 0
  OBVIOUS
<1>2. Len(rows) <= Capacity
  BY <1>1, MessageStoreAssumption
<1>3. 1 .. Len(rows) = {}
  BY <1>1
<1> QED BY <1>1, <1>2, <1>3 DEF RowsTell, ShowsOutcome, SendsDiffer, RepliesBlocked

(* The first state. *)
LEMMA InitMInv == Init => MInv
<1> SUFFICES ASSUME Init PROVE MInv
  OBVIOUS
<1>1. messages \in Seq(ThreadMessage) /\ Len(messages) <= Capacity
      /\ RowsTell(messages, outcome)
  BY EmptyTells DEF Init
<1>2. dialogues = rebuild_summaries(messages)
  BY RebuildEmpty DEF Init
<1>3. outcome \in [Times -> Outcomes] /\ open \in Threads \cup {NoThread}
  BY DEF Init, Outcomes
<1> QED BY <1>1, <1>2, <1>3 DEF MInv, StoreTypes

(* Every step keeps the invariant. *)
LEMMA MInvStep == MInv /\ [Next]_vars => MInv'
<1> SUFFICES ASSUME MInv, [Next]_vars PROVE MInv'
  OBVIOUS
<1>0. open \in Threads \cup {NoThread} /\ Contacts \subseteq Threads
  BY DEF MInv, StoreTypes, Threads
<1>1. ASSUME NEW u \in Threads, NEW t \in Times, NEW label \in {"raw", "named"},
             push_incoming(u, t, label)
      PROVE  MInv'
  BY <1>1, IncomingStep
<1>2. ASSUME NEW t \in Times, send_complete(t) PROVE MInv'
  BY <1>2, OutcomeStep DEF send_complete
<1>3. ASSUME NEW t \in Times, send_error(t) PROVE MInv'
  BY <1>3, OutcomeStep DEF send_error
<1>4. ASSUME NEW t \in Times, send_compose(t) PROVE MInv'
  BY <1>4, ComposeStep
<1>5. ASSUME NEW u \in Threads, open_thread(u) PROVE MInv'
  <2>1. open' \in Threads \cup {NoThread} /\ UNCHANGED outcome /\ mark_thread_read(u)
    BY <1>5 DEF open_thread
  <2> QED BY <2>1, ReadStep
<1>6. ASSUME NEW u \in Contacts, contact_resolved(u) PROVE MInv'
  <2>1. open' \in Threads \cup {NoThread} /\ UNCHANGED outcome /\ resolve_author_labels(u)
    BY <1>0, <1>6 DEF contact_resolved
  <2> QED BY <2>1, ResolveStep
<1>7. ASSUME NEW u \in Contacts, new_chat(u) PROVE MInv'
  <2>1. open' \in Threads \cup {NoThread} /\ UNCHANGED outcome
    BY <1>0, <1>7 DEF new_chat
  <2>2. CASE UNCHANGED <<messages, dialogues>>
    BY <2>1, <2>2, ScreenStep
  <2>3. CASE resolve_author_labels(u)
    BY <2>1, <2>3, ResolveStep
  <2> QED BY <1>7, <2>2, <2>3 DEF new_chat
<1>8. CASE close_thread
  BY <1>8, ScreenStep DEF close_thread
<1>9. CASE clear
  <2>1. PICK e : e = <<>>
    OBVIOUS
  <2>2. e \in Seq(ThreadMessage) /\ Len(e) <= Capacity /\ RowsTell(e, outcome)
    BY <2>1, EmptyTells
  <2>3. /\ messages' = e /\ dialogues' = rebuild_summaries(e)
        /\ open' = NoThread /\ outcome' = outcome
    BY <1>9, <2>1, RebuildEmpty DEF clear
  <2> QED BY <2>2, <2>3 DEF MInv, StoreTypes
<1>10. CASE UNCHANGED vars
  BY <1>0, <1>10, ScreenStep DEF vars
<1> QED
  BY <1>1, <1>2, <1>3, <1>4, <1>5, <1>6, <1>7, <1>8, <1>9, <1>10 DEF Next

-----------------------------------------------------------------------------
(* The theorems.                                                           *)

(* After any sequence of handlers the summaries are those of the rows, and *)
(* the rows tell the fate of the user's sends.                             *)
THEOREM Invariant == Spec => []MInv
BY InitMInv, MInvStep, PTL DEF Spec

(* Home never shows a conversation, a last message, a name, a group mark   *)
(* or a count of unread messages that the rows in the buffer do not have,  *)
(* for any capacity and any order of arrival (rebuild_summaries of         *)
(* dialogue.rs, and the handlers of store.rs that skip it).                *)
THEOREM SummariesAlwaysTrue == Spec => []SummariesAreTrue
BY Invariant, MInvShowsRows, PTL

(* send_complete and send_error mark the row of their own send and no      *)
(* other, however many rows were evicted, read, named or wiped meanwhile.  *)
THEOREM OutcomeAlwaysShown == Spec => []OutcomeShown
BY Invariant, RowsTellMeans, PTL

(* No reply is written after a group message that the buffer still holds:  *)
(* is_group_thread, read from the cached summaries, is never stale.        *)
THEOREM ReplyAlwaysBlocked == Spec => []ReplyBlockHolds
BY Invariant, RowsTellMeans, PTL
=============================================================================
