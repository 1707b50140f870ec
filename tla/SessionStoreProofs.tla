------------------------- MODULE SessionStoreProofs -------------------------
(***************************************************************************)
(* Proofs about BufferingBackend and about SessionStore, which is built on *)
(* it, for every set of dictionaries, keys and values, and of identities,  *)
(* peers, devices and session records.  Those about the sessions rest on   *)
(* the invariant of the buffering layer: a session operation makes at most *)
(* one backend call, and what that call does to the cells a reader sees    *)
(* (Visible) is stated once, call by call; the rest is about the cache and *)
(* the dirty set alone.                                                    *)
(***************************************************************************)
EXTENDS SessionStore, TLAPS

-----------------------------------------------------------------------------
(* The buffering layer.  This part cites the assumptions of PddbBackend    *)
(* and BufferingBackend only (not BundleAssumption), so it holds for any   *)
(* set of values.                                                          *)

(* The inductive invariant of the buffering layer. *)
IInv == TypeOK /\ NothingLeftBehind /\ ReplayInProgress

(* What a failed put leaves behind is a store. *)
LEMMA PutFailedIsStore ==
    ASSUME NEW m \in Store, NEW a \in Address, NEW v \in Cell, NEW n \in put_failed(m, a, v)
    PROVE  n \in Store
BY DEF put_failed, Store, Cell

(* Every step keeps the types. *)
LEMMA TypeStep == TypeOK /\ [Next]_vars => TypeOK'
<1> SUFFICES ASSUME TypeOK, [Next]_vars PROVE TypeOK'
  OBVIOUS
<1> USE DEF TypeOK, Phase
<1>1. CASE begin_batch
  BY <1>1 DEF begin_batch
<1>2. ASSUME NEW a \in Address, NEW v \in Values, put(a, v) PROVE TypeOK'
  <2>1. inner' \in Store
    BY <1>2, PutFailedIsStore DEF put, put_returns_ok, put_returns_err, put_ok, Store, Cell
  <2>2. buffer' \in Buffer
    BY <1>2 DEF put, put_returns_ok, put_returns_err, Buffer, Entry
  <2> QED BY <1>2, <2>1, <2>2 DEF put, put_returns_ok, put_returns_err
<1>3. ASSUME NEW a \in Address, delete(a) PROVE TypeOK'
  BY <1>3 DEF delete, delete_returns_ok, delete_returns_err, delete_ok, delete_failed, Store,
     Cell, Buffer, Entry
<1>4. ASSUME NEW d \in Dicts, NEW S \in SUBSET InDict(d), delete_dict(d, S) PROVE TypeOK'
  BY <1>4 DEF delete_dict, delete_dict_applied, Store, Cell, Buffer, Entry
<1>5. CASE commit_drain
  BY <1>5 DEF commit_drain, EmptyBuffer, Buffer, Entry
<1>6. CASE commit_put_batch
  BY <1>6 DEF commit_put_batch, put_batch_applied, Puts, Store, Cell, Buffer, Entry
<1>7. ASSUME NEW a \in Address, commit_put(a) PROVE TypeOK'
  <2>1. inner' \in Store
    <3>1. drained[a] \in Values /\ drained[a] \in Cell
      BY <1>7 DEF commit_put, Puts, Cell
    <3> QED BY <1>7, <3>1, PutFailedIsStore DEF commit_put, put_ok, Store, Cell
  <2>2. drained' \in Buffer
    BY <1>7 DEF commit_put, Buffer, Entry
  <2> QED BY <1>7, <2>1, <2>2 DEF commit_put
<1>8. CASE commit_puts_done
  BY <1>8 DEF commit_puts_done
<1>9. ASSUME NEW a \in Address, commit_delete(a) PROVE TypeOK'
  BY <1>9 DEF commit_delete, delete_ok, delete_failed, Store, Cell, Buffer, Entry
<1>10. CASE commit_done
  BY <1>10 DEF commit_done, EmptyStore, EmptyBuffer, Store, Cell, Buffer, Entry
<1>11. CASE abort_internal
  BY <1>11 DEF abort_internal, EmptyBuffer, Buffer, Entry
<1>12. CASE Crash
  BY <1>12 DEF Crash, EmptyStore, EmptyBuffer, Store, Cell, Buffer, Entry
<1>13. CASE UNCHANGED vars
  BY <1>13 DEF vars
<1> QED
  BY <1>1, <1>2, <1>3, <1>4, <1>5, <1>6, <1>7, <1>8, <1>9, <1>10, <1>11, <1>12, <1>13
     DEF Next, commit_internal

(* The types of the buffering layer hold in every reachable state. *)
THEOREM TypeCorrect == Spec => []TypeOK
<1>1. Init => TypeOK
  BY DEF Init, TypeOK, Store, Cell, Buffer, Entry, Phase, EmptyBuffer, EmptyStore
<1> QED BY <1>1, TypeStep, PTL DEF Spec

(* The invariant of a commit in progress is kept by every step. *)
LEMMA Inductive == IInv /\ [Next]_vars => NothingLeftBehind' /\ ReplayInProgress'
<1> SUFFICES ASSUME TypeOK, NothingLeftBehind, ReplayInProgress, [Next]_vars
             PROVE  NothingLeftBehind' /\ ReplayInProgress'
  BY DEF IInv
<1> USE CellAssumption, EntryAssumption
    DEF NothingLeftBehind, ReplayInProgress
<1>1. CASE begin_batch
  BY <1>1 DEF begin_batch
<1>2. ASSUME NEW a \in Address, NEW v \in Values, put(a, v)
      PROVE  NothingLeftBehind' /\ ReplayInProgress'
  BY <1>2 DEF put, put_returns_ok, put_returns_err
<1>3. ASSUME NEW a \in Address, delete(a)
      PROVE  NothingLeftBehind' /\ ReplayInProgress'
  BY <1>3 DEF delete, delete_returns_ok, delete_returns_err
<1>4. ASSUME NEW d \in Dicts, NEW S \in SUBSET InDict(d), delete_dict(d, S)
      PROVE  NothingLeftBehind' /\ ReplayInProgress'
  BY <1>4 DEF delete_dict
<1>5. CASE commit_drain
  BY <1>5 DEF ReplayedAt, commit_drain, TypeOK, Buffer, Entry, EmptyBuffer, Cell
<1>6. CASE commit_put_batch
  <2> USE DEF TypeOK, Buffer, Entry, Store, Cell
  <2>1. CASE /\ inner' = put_batch_applied(inner, drained, Puts(drained))
             /\ drained' = [a \in Address |-> IF a \in Puts(drained) THEN NoEntry ELSE drained[a]]
             /\ phase' = "deletes"
    <3>1. NothingLeftBehind'
      BY <1>6, <2>1 DEF commit_put_batch
    <3>2. Puts(drained)' = {}
      BY <2>1 DEF Puts
    <3>3. ReplayInProgress'
      BY <1>6, <2>1, <3>2 DEF commit_put_batch, put_batch_applied, Puts, ReplayedAt
    <3> QED BY <3>1, <3>3
  <2>2. ASSUME NEW S \in SUBSET Puts(drained),
               inner' = put_batch_applied(inner, drained, S),
               drained' = drained, phase' = "puts"
        PROVE  NothingLeftBehind' /\ ReplayInProgress'
    BY <1>6, <2>2 DEF commit_put_batch, put_batch_applied, Puts, ReplayedAt
  <2> QED BY <1>6, <2>1, <2>2 DEF commit_put_batch
<1>7. ASSUME NEW a \in Address, commit_put(a)
      PROVE  NothingLeftBehind' /\ ReplayInProgress'
  <2>1. drained[a] = committing[a] /\ committing[a] \in Values
    BY <1>7 DEF commit_put, Puts, ReplayedAt, Cell
  <2>2. \A b \in Address : b # a => inner'[b] = inner[b] /\ drained'[b] = drained[b]
    BY <1>7 DEF commit_put, put_ok, put_failed, TypeOK, Buffer, Store
  <2>3. /\ drained'[a] = NoEntry
        /\ inner'[a] \in {inner[a], committing[a], NoValue, Torn}
        /\ ~failed' => ~failed /\ inner'[a] = committing[a]
        /\ failed => failed'
    BY <1>7, <2>1, CellAssumption
       DEF commit_put, put_ok, put_failed, TypeOK, Buffer, Store, Entry, Cell
  <2>4. phase = "puts" /\ phase' = "puts" /\ UNCHANGED <<batching, buffer, before, committing>>
    BY <1>7 DEF commit_put
  <2>5. NothingLeftBehind'
    BY <2>4
  <2>6. ASSUME NEW b \in Address PROVE ReplayedAt(b)'
    <3>1. CASE b # a
      BY <2>2, <2>3, <2>4, <3>1 DEF ReplayedAt
    <3>2. CASE b = a
      BY <2>1, <2>3, <2>4, <3>2 DEF ReplayedAt, Cell
    <3> QED BY <3>1, <3>2
  <2> QED BY <2>4, <2>5, <2>6
<1>8. CASE commit_puts_done
  BY <1>8 DEF commit_puts_done, ReplayedAt
<1>9. ASSUME NEW a \in Address, commit_delete(a)
      PROVE  NothingLeftBehind' /\ ReplayInProgress'
  <2>1. drained[a] = Tombstone /\ committing[a] = Tombstone
    BY <1>9 DEF commit_delete, Deletes, ReplayedAt
  <2>2. \A b \in Address : b # a => inner'[b] = inner[b] /\ drained'[b] = drained[b]
    BY <1>9 DEF commit_delete, delete_ok, delete_failed, TypeOK, Buffer, Store
  <2>3. /\ drained'[a] = NoEntry
        /\ inner'[a] \in {inner[a], NoValue}
        /\ ~failed' => ~failed /\ inner'[a] = NoValue
        /\ failed => failed'
    BY <1>9, <2>1, CellAssumption
       DEF commit_delete, delete_ok, delete_failed, TypeOK, Buffer, Store, Entry, Cell
  <2>4. phase = "deletes" /\ phase' = "deletes" /\ UNCHANGED <<batching, buffer, before,
     committing>>
    BY <1>9 DEF commit_delete
  <2>5. NothingLeftBehind'
    BY <2>4
  <2>6. ASSUME NEW b \in Address PROVE ReplayedAt(b)'
    <3>1. CASE b # a
      BY <2>2, <2>3, <2>4, <3>1 DEF ReplayedAt
    <3>2. CASE b = a
      BY <2>1, <2>3, <2>4, <3>2 DEF ReplayedAt, Cell
    <3> QED BY <3>1, <3>2
  <2>7. Puts(drained)' = {}
    BY <2>2, <2>3, <2>4 DEF Puts, Cell
  <2> QED BY <2>4, <2>5, <2>6, <2>7
<1>10. CASE commit_done
  <2>1. drained = EmptyBuffer
    BY <1>10 DEF commit_done, TypeOK, Buffer, Entry, Puts, Deletes, EmptyBuffer
  <2> QED BY <1>10, <2>1 DEF commit_done
<1>11. CASE abort_internal
  BY <1>11 DEF abort_internal
<1>12. CASE Crash
  BY <1>12 DEF Crash
<1>13. CASE UNCHANGED vars
  BY <1>13 DEF vars, Puts, ReplayedAt
<1> QED
  BY <1>1, <1>2, <1>3, <1>4, <1>5, <1>6, <1>7, <1>8, <1>9, <1>10, <1>11, <1>12, <1>13
     DEF Next, commit_internal

(* A step of the buffering layer keeps its inductive invariant. *)
LEMMA BackendStep == ASSUME IInv, [Next]_vars PROVE IInv'
BY TypeStep, Inductive DEF IInv

(* The inductive invariant holds in every reachable state. *)
THEOREM Invariant == Spec => []IInv
<1>1. Init => NothingLeftBehind /\ ReplayInProgress
  BY DEF Init, NothingLeftBehind, ReplayInProgress
<1> QED BY <1>1, Inductive, TypeCorrect, PTL DEF Spec, IInv

(* No batch leaves a write in memory behind it (mem::take in               *)
(* commit_internal, the clear in abort_internal).                          *)
THEOREM NothingLeftBehindHolds == Spec => []NothingLeftBehind
BY Invariant, PTL DEF IInv

(* At every point of commit_internal, with any of its inner calls failing, *)
(* flash differs from the state before only where the batch wrote.         *)
THEOREM CommitTouchesOnlyItsWritesHolds == Spec => []CommitTouchesOnlyItsWrites
<1>1. IInv => CommitTouchesOnlyItsWrites
  BY EntryAssumption DEF IInv, TypeOK, Buffer, Entry, Cell, ReplayInProgress, ReplayedAt,
     CommitTouchesOnlyItsWrites
<1> QED BY <1>1, Invariant, PTL

(* commit_internal returns Ok only if the whole batch is on flash.         *)
THEOREM CommitExactHolds == Spec => []CommitExact
<1>1. IInv => CommitExact
  BY EntryAssumption DEF IInv, TypeOK, Buffer, Entry, Cell, ReplayInProgress, ReplayedAt,
     CommitExact, OverlayAt
<1> QED BY <1>1, Invariant, PTL

(* list_keys lists exactly the keys for which get finds a value, inside a  *)
(* batch and outside.                                                      *)
THEOREM ListAgreesWithGetHolds == Spec => []ListAgreesWithGet
<1>1. TypeOK => ListAgreesWithGet
  BY CellAssumption, EntryAssumption
  DEF TypeOK, Buffer, Entry, Store, Cell, Address, ListAgreesWithGet, list_keys, get, OverlayAt
<1> QED BY <1>1, TypeCorrect, PTL

(* Inside an open batch nothing new reaches flash before the commit starts. *)
THEOREM BatchIsolationHolds == Spec => BatchIsolation
<1>1. TypeOK /\ [Next]_vars =>
        [batching /\ phase = "idle" =>
            \A a \in Address : inner'[a] \in {inner[a], NoValue}]_vars
  <2> SUFFICES ASSUME TypeOK, Next, batching, phase = "idle", NEW a \in Address
               PROVE  inner'[a] \in {inner[a], NoValue}
    OBVIOUS
  <2>1. ASSUME NEW d \in Dicts, NEW S \in SUBSET InDict(d), delete_dict(d, S)
        PROVE  inner'[a] \in {inner[a], NoValue}
    BY <2>1 DEF delete_dict, delete_dict_applied
  <2>2. CASE inner' = inner
    BY <2>2
  <2> QED
    BY <2>1, <2>2 DEF Next, begin_batch, put, put_returns_ok, put_returns_err, delete,
       delete_returns_ok, delete_returns_err, vars, commit_internal, commit_drain,
       commit_put_batch, commit_put, commit_puts_done, commit_delete, commit_done,
       abort_internal, Crash
<1> QED BY <1>1, TypeCorrect, PTL DEF Spec, BatchIsolation

-----------------------------------------------------------------------------
(* Refinement: every step of the buffering layer is a step, or a stutter,  *)
(* of KvTransaction under the mapping of Transaction.                      *)
LEMMA StepRefines ==
    ASSUME IInv, [Next]_vars
    PROVE  [Transaction!TNext]_(Transaction!tvars)
<1> USE CellAssumption, EntryAssumption DEF IInv, TypeOK, NothingLeftBehind
<1>1. CASE begin_batch
  <2>1. Visible' = Visible
    BY <1>1 DEF begin_batch, Visible, Overlay, OverlayAt
  <2>2. Transaction!Begin
    BY <1>1, <2>1 DEF begin_batch, Transaction!Begin
  <2> QED BY <2>2 DEF Transaction!TNext
<1>2. ASSUME NEW a \in Address, NEW v \in Values, put(a, v)
      PROVE  Transaction!TNext
  <2>1. CASE batching
    <3>1. Visible' = [Visible EXCEPT ![a] = v]
      BY <1>2, <2>1 DEF put, put_returns_ok, put_returns_err, Visible, Overlay, OverlayAt,
         Buffer, Store, Cell
    <3>2. Transaction!Write(a, v)
      BY <1>2, <2>1, <3>1 DEF put, put_returns_ok, put_returns_err, Transaction!Write
    <3> QED BY <3>2 DEF Transaction!TNext, Transaction!Address, Address
  <2>2. CASE ~batching
    <3>1. Visible = inner /\ Visible' = inner'
      BY <1>2, <2>2, PutFailedIsStore
         DEF put, put_returns_ok, put_returns_err, put_ok, Visible, Overlay, OverlayAt,
            EmptyBuffer, Store, Cell
    <3>2. CASE inner' = put_ok(inner, a, v)
      <4>1. Transaction!Write(a, v)
        BY <1>2, <2>2, <3>1, <3>2 DEF put, put_returns_ok, put_returns_err, put_ok,
           Transaction!Write
      <4> QED BY <4>1 DEF Transaction!TNext, Transaction!Address, Address
    <3>3. CASE inner' \in put_failed(inner, a, v)
      <4>1. Transaction!WriteFails(a, v)
        BY <1>2, <2>2, <3>1, <3>3
           DEF put, put_returns_ok, put_returns_err, Transaction!WriteFails,
              Transaction!put_failed, put_failed
      <4> QED BY <4>1 DEF Transaction!TNext, Transaction!Address, Address
    <3> QED BY <1>2, <2>2, <3>2, <3>3 DEF put, put_returns_ok, put_returns_err
  <2> QED BY <2>1, <2>2
<1>3. ASSUME NEW a \in Address, delete(a)
      PROVE  [Transaction!TNext]_(Transaction!tvars)
  <2>1. CASE batching
    <3>1. Visible' = [Visible EXCEPT ![a] = NoValue]
      BY <1>3, <2>1 DEF delete, delete_returns_ok, delete_returns_err, Visible,
         Overlay, OverlayAt, Buffer, Store
    <3>2. Transaction!Write(a, NoValue)
      BY <1>3, <2>1, <3>1 DEF delete, delete_returns_ok, delete_returns_err,
         Transaction!Write
    <3> QED BY <3>2 DEF Transaction!TNext, Transaction!Address, Address
  <2>2. CASE ~batching
    <3>1. Visible = inner /\ Visible' = inner'
      BY <1>3, <2>2 DEF delete, delete_returns_ok, delete_returns_err, delete_ok, delete_failed,
         Visible, Overlay, OverlayAt, EmptyBuffer, Store
    <3>2. CASE delete_returns_ok(a)
      <4>1. Transaction!Write(a, NoValue)
        BY <2>2, <3>1, <3>2 DEF delete_returns_ok, delete_ok, Transaction!Write
      <4> QED BY <4>1 DEF Transaction!TNext, Transaction!Address, Address
    <3>3. CASE delete_returns_err(a)
      <4>1. Transaction!WriteFails(a, NoValue)
        BY <2>2, <3>1, <3>3 DEF delete_returns_err, delete_failed, delete_ok,
           Transaction!WriteFails, Transaction!put_failed
      <4> QED BY <4>1 DEF Transaction!TNext, Transaction!Address, Address
    <3> QED BY <1>3, <3>2, <3>3 DEF delete
  <2> QED BY <2>1, <2>2
<1>4. ASSUME NEW d \in Dicts, NEW S \in SUBSET InDict(d), delete_dict(d, S)
      PROVE  Transaction!TNext
  <2>1. Visible' = [a \in Address |-> IF a \in InDict(d) THEN inner'[a] ELSE Visible[a]]
    BY <1>4 DEF delete_dict, delete_dict_applied, Visible, Overlay, OverlayAt, EmptyBuffer,
       InDict
  <2>2. Transaction!DropDict(d, S)
    BY <1>4, <2>1 DEF delete_dict, delete_dict_applied, InDict, Address, Transaction!DropDict,
       Transaction!delete_dict_applied, Transaction!InDict, Transaction!Address
  <2>3. S \in SUBSET Transaction!Address
    BY DEF InDict, Address, Transaction!Address
  <2> QED BY <2>2, <2>3 DEF Transaction!TNext
<1>5. CASE commit_drain
  <2>1. Visible' = Visible
    BY <1>5 DEF commit_drain, Visible
  <2>2. Transaction!StartCommit
    BY <1>5, <2>1 DEF commit_drain, Transaction!StartCommit
  <2> QED BY <2>2 DEF Transaction!TNext
<1>6. CASE commit_put_batch
  <2>1. PICK S \in SUBSET Puts(drained) : inner' = put_batch_applied(inner, drained, S)
    BY <1>6 DEF commit_put_batch
  <2>2. Visible' = Visible
    BY <1>6, <2>1 DEF commit_put_batch, put_batch_applied, Puts, Visible, Overlay, OverlayAt,
       Buffer, Cell
  <2>3. inner' = [a \in Address |-> IF a \in S THEN Visible[a] ELSE inner[a]]
    BY <1>6, <2>1 DEF commit_put_batch, put_batch_applied, Puts, Visible, Overlay, OverlayAt,
       Buffer, Cell
  <2>4. Transaction!Publish(S)
    BY <1>6, <2>2, <2>3
       DEF commit_put_batch, Address, Transaction!Publish, Transaction!Address
  <2>5. S \in SUBSET Transaction!Address
    BY DEF Puts, Address, Transaction!Address
  <2> QED BY <2>4, <2>5 DEF Transaction!TNext
<1>7. ASSUME NEW a \in Address, commit_put(a)
      PROVE  Transaction!TNext
  <2>1. batching /\ UNCHANGED <<batching, phase>> /\ phase = "puts"
    BY <1>7 DEF commit_put
  <2>2. CASE inner' = put_ok(inner, a, drained[a]) /\ failed' = failed
    <3>1. Visible' = Visible
      BY <1>7, <2>2 DEF commit_put, put_ok, Puts, Visible, Overlay, OverlayAt, Buffer, Store,
         Cell
    <3>2. inner' = [b \in Address |-> IF b \in {a} THEN Visible[b] ELSE inner[b]]
      BY <1>7, <2>2 DEF commit_put, put_ok, Puts, Visible, Overlay, OverlayAt, Buffer, Store,
         Cell
    <3>3. Transaction!Publish({a})
      BY <1>7, <2>1, <2>2, <3>1, <3>2
         DEF commit_put, Address, Transaction!Publish, Transaction!Address
    <3>4. {a} \in SUBSET Transaction!Address
      BY DEF Address, Transaction!Address
    <3> QED BY <3>3, <3>4 DEF Transaction!TNext
  <2>3. CASE inner' \in put_failed(inner, a, drained[a]) /\ failed' = TRUE
    <3>0. Visible[a] = drained[a]
      BY <1>7, <2>1 DEF commit_put, Puts, Visible, Overlay, OverlayAt, Cell
    <3>1. Visible' = [Visible EXCEPT ![a] = inner'[a]]
      BY <1>7, <2>3 DEF commit_put, put_failed, Puts, Visible, Overlay, OverlayAt, Buffer,
         Store, Cell
    <3>2. Transaction!Damage(a)
      BY <1>7, <2>1, <2>3, <3>0, <3>1
         DEF commit_put, put_failed, Transaction!Damage, Transaction!put_failed
    <3> QED BY <3>2 DEF Transaction!TNext, Transaction!Address, Address
  <2> QED BY <1>7, <2>2, <2>3 DEF commit_put
<1>8. CASE commit_puts_done
  BY <1>8 DEF commit_puts_done, Visible, Overlay, OverlayAt, Transaction!tvars
<1>9. ASSUME NEW a \in Address, commit_delete(a)
      PROVE  Transaction!TNext
  <2>1. batching /\ UNCHANGED <<batching, phase>> /\ phase = "deletes"
    BY <1>9 DEF commit_delete
  <2>2. CASE inner' = delete_ok(inner, a) /\ failed' = failed
    <3>1. Visible' = Visible
      BY <1>9, <2>2 DEF commit_delete, delete_ok, Deletes, Visible, Overlay, OverlayAt, Buffer,
         Store, Cell
    <3>2. inner' = [b \in Address |-> IF b \in {a} THEN Visible[b] ELSE inner[b]]
      BY <1>9, <2>2 DEF commit_delete, delete_ok, Deletes, Visible, Overlay, OverlayAt, Buffer,
         Store, Cell
    <3>3. Transaction!Publish({a})
      BY <1>9, <2>1, <2>2, <3>1, <3>2
         DEF commit_delete, Address, Transaction!Publish, Transaction!Address
    <3>4. {a} \in SUBSET Transaction!Address
      BY DEF Address, Transaction!Address
    <3> QED BY <3>3, <3>4 DEF Transaction!TNext
  <2>3. CASE inner' \in delete_failed(inner, a) /\ failed' = TRUE
    <3>1. Visible' = [Visible EXCEPT ![a] = inner'[a]]
      BY <1>9, <2>3 DEF commit_delete, delete_failed, delete_ok, Visible, Overlay, OverlayAt,
         Buffer, Store
    <3>2. Transaction!Damage(a)
      BY <1>9, <2>1, <2>3, <3>1 DEF commit_delete, delete_failed, delete_ok,
         Transaction!Damage, Transaction!put_failed
    <3> QED BY <3>2 DEF Transaction!TNext, Transaction!Address, Address
  <2> QED BY <1>9, <2>2, <2>3 DEF commit_delete
<1>10. CASE commit_done
  <2>1. drained = EmptyBuffer
    BY <1>10 DEF commit_done, Buffer, Entry, Puts, Deletes, EmptyBuffer, ReplayInProgress
  <2>2. Visible = inner /\ Visible' = inner
    BY <1>10, <2>1 DEF commit_done, Visible, Overlay, OverlayAt, EmptyBuffer, Store
  <2>3. Transaction!Close
    BY <1>10, <2>2 DEF commit_done, Transaction!Close
  <2> QED BY <2>3 DEF Transaction!TNext
<1>11. CASE abort_internal
  <2>1. Visible' = inner
    BY <1>11 DEF abort_internal, Visible, Overlay, OverlayAt, EmptyBuffer, Store
  <2>2. Transaction!Discard
    BY <1>11, <2>1 DEF abort_internal, Transaction!Discard
  <2> QED BY <2>2 DEF Transaction!TNext
<1>12. CASE Crash
  <2>1. Visible' = inner
    BY <1>12 DEF Crash, Visible, Overlay, OverlayAt, EmptyBuffer, Store
  <2>2. Transaction!Discard
    BY <1>12, <2>1 DEF Crash, Transaction!Discard
  <2> QED BY <2>2 DEF Transaction!TNext
<1>13. CASE UNCHANGED vars
  BY <1>13 DEF vars, Visible, Overlay, OverlayAt, Transaction!tvars
<1> QED
  BY <1>1, <1>2, <1>3, <1>4, <1>5, <1>6, <1>7, <1>8, <1>9, <1>10, <1>11, <1>12, <1>13
     DEF Next, commit_internal

(* The buffering layer implements KvTransaction: batches are isolated and  *)
(* abortable; from the start of a commit to its answer a write is made     *)
(* durable or counted as failed and never lost otherwise, so a commit that *)
(* answers Ok has made all of its batch durable.                           *)
THEOREM Refinement == Spec => ImplementsTransaction
<1>1. Init => Transaction!TInit
  BY EntryAssumption, CellAssumption
     DEF Init, Transaction!TInit, Visible, Overlay, OverlayAt, EmptyBuffer, Store, Cell,
     Address, Transaction!Store, Transaction!Cell, Transaction!Address
<1>2. IInv /\ [Next]_vars => [Transaction!TNext]_(Transaction!tvars)
  BY StepRefines
<1> QED BY <1>1, <1>2, Invariant, PTL DEF Spec, ImplementsTransaction, Transaction!TSpec

-----------------------------------------------------------------------------
(* The session store: its invariant.                                       *)

(* The bundle a reader gets for k's peer holds the cached record of k. *)
IsStored(k) == Visible[k[1]] \in Values /\ Visible[k[1]][k[2]] = cache[k]

(* Neither the cache nor the bundle holds a record for k. *)
IsGone(k) == cache[k] = NoRecord /\ (Visible[k[1]] \in Values => Visible[k[1]][k[2]] = NoRecord)

(* flush_sessions holds the locks while it runs, writes only peers with a  *)
(* dirty session, and has stored every dirty session of a peer it has done. *)
FlushInProgress ==
    /\ flushing => phase = "idle"
    /\ ~flushing => todo = {}
    /\ todo \subseteq {k[1] : k \in dirty}
    /\ flushing => \A k \in dirty : k[1] \notin todo => IsStored(k)

(* DeletedStaysDeleted, and the same while a flush or a commit runs. *)
ForgottenIsGone == \A k \in forgotten : k[1] \notin discarded => IsGone(k)

(* What a commit with an error has drained is on record as dropped. *)
ErrorIsRecorded == phase # "idle" /\ failed => Held(committing) \subseteq discarded

(* The inductive invariant of the session store. *)
SInv ==
    /\ IInv
    /\ SessionTypeOK
    /\ FlushInProgress
    /\ CleanIsStored
    /\ ForgottenIsGone
    /\ ErrorIsRecorded

-----------------------------------------------------------------------------
(* What a backend call does to the cells a reader sees.                    *)

(* The visible cells are a store; between calls they are what get returns. *)
LEMMA VisibleIsGet ==
    ASSUME IInv
    PROVE  Visible \in Store /\ (phase = "idle" => \A a \in Address : get(a) = Visible[a])
BY EntryAssumption
   DEF IInv, TypeOK, NothingLeftBehind, Visible, Overlay, OverlayAt, get, Store, Buffer, Entry,
       Cell, EmptyBuffer

(* A bundle read from a cell that decodes is a vector of records. *)
LEMMA BundleIs ==
    ASSUME NEW c \in Cell, c # Torn
    PROVE  /\ BundleAt(c) \in [Devices -> Records \cup {NoRecord}]
           /\ c \in Values => BundleAt(c) = c
           /\ c \notin Values => BundleAt(c) = EmptyBundle
BY CellAssumption, BundleAssumption DEF BundleAt, Cell, Bundle, EmptyBundle

(* A step that leaves the backend alone leaves its readers alone. *)
LEMMA NoCall ==
    ASSUME UNCHANGED vars
    PROVE  Visible' = Visible
BY DEF vars, Visible, Overlay, OverlayAt

(* put with Ok: its value is what the address reads from now on. *)
LEMMA PutOk ==
    ASSUME IInv, NEW a \in Address, NEW v \in Values, put_returns_ok(a, v)
    PROVE  IInv' /\ Visible' = [Visible EXCEPT ![a] = v]
<1>1. IInv'
  BY BackendStep DEF Next, put
<1>2. CASE batching
  BY <1>1, <1>2, CellAssumption, EntryAssumption
     DEF IInv, TypeOK, put_returns_ok, Visible, Overlay, OverlayAt, Buffer, Store, Cell
<1>3. CASE ~batching
  <2>1. buffer = EmptyBuffer /\ buffer' = EmptyBuffer /\ phase = "idle" /\ phase' = "idle"
        /\ inner' = [inner EXCEPT ![a] = v] /\ inner \in Store
    BY <1>3 DEF IInv, TypeOK, NothingLeftBehind, put_returns_ok, put_ok
  <2> QED BY <1>1, <2>1 DEF Visible, Overlay, OverlayAt, EmptyBuffer, Store
<1> QED BY <1>1, <1>2, <1>3

(* delete with Ok: the address reads as absent from now on. *)
LEMMA DeleteOk ==
    ASSUME IInv, NEW a \in Address, delete_returns_ok(a)
    PROVE  IInv' /\ Visible' = [Visible EXCEPT ![a] = NoValue]
<1>1. IInv'
  BY BackendStep DEF Next, delete
<1>2. CASE batching
  BY <1>1, <1>2, CellAssumption, EntryAssumption
     DEF IInv, TypeOK, delete_returns_ok, Visible, Overlay, OverlayAt, Buffer, Store, Cell
<1>3. CASE ~batching
  <2>1. buffer = EmptyBuffer /\ buffer' = EmptyBuffer /\ phase = "idle" /\ phase' = "idle"
        /\ inner' = [inner EXCEPT ![a] = NoValue] /\ inner \in Store
    BY <1>3 DEF IInv, TypeOK, NothingLeftBehind, delete_returns_ok, delete_ok
  <2> QED BY <1>1, <2>1 DEF Visible, Overlay, OverlayAt, EmptyBuffer, Store
<1> QED BY <1>1, <1>2, <1>3

(* delete with an error: it has done nothing, or all it does with Ok. *)
LEMMA DeleteErr ==
    ASSUME NEW a \in Address, delete_returns_err(a)
    PROVE  UNCHANGED vars \/ delete_returns_ok(a)
BY DEF delete_returns_err, delete_returns_ok, delete_failed, vars

(* put with an error: the other addresses read as before, this one as      *)
(* before, as no bundle or as the new value.                               *)
LEMMA PutErr ==
    ASSUME IInv, NEW a \in Address, NEW v \in Values, put_returns_err(a, v)
    PROVE  /\ IInv'
           /\ \A b \in Address : b # a => Visible'[b] = Visible[b]
           /\ Visible'[a] \in {Visible[a], NoValue, Torn, v}
<1>1. IInv'
  BY BackendStep DEF Next, put
<1>2. buffer = EmptyBuffer /\ buffer' = EmptyBuffer /\ phase = "idle" /\ phase' = "idle"
      /\ inner' \in put_failed(inner, a, v) /\ inner \in Store
  BY DEF IInv, TypeOK, NothingLeftBehind, put_returns_err
<1> QED BY <1>1, <1>2 DEF put_failed, Visible, Overlay, OverlayAt, EmptyBuffer, Store

(* A step of commit_internal leaves an address reading as before, unless   *)
(* the commit has met an error and the batch wrote the address.            *)
LEMMA CommitStep ==
    ASSUME IInv, commit_internal
    PROVE  /\ IInv'
           /\ \A b \in Address :
                 Visible'[b] = Visible[b] \/ (failed' /\ phase # "idle" /\ committing[b] # NoEntry)
<1>1. IInv'
  BY BackendStep DEF Next
<1> USE CellAssumption, EntryAssumption DEF IInv, TypeOK, NothingLeftBehind
<1>2. CASE commit_drain
  BY <1>1, <1>2 DEF commit_drain, Visible
<1>3. CASE commit_put_batch
  <2>1. PICK S \in SUBSET Puts(drained) : inner' = put_batch_applied(inner, drained, S)
    BY <1>3 DEF commit_put_batch
  <2>2. Visible' = Visible
    BY <1>3, <2>1 DEF commit_put_batch, put_batch_applied, Puts, Visible, Overlay, OverlayAt,
       Buffer, Cell
  <2> QED BY <1>1, <2>2
<1>4. ASSUME NEW a \in Address, commit_put(a)
      PROVE  \A b \in Address :
                Visible'[b] = Visible[b] \/ (failed' /\ phase # "idle" /\ committing[b] # NoEntry)
  <2>1. committing[a] # NoEntry /\ phase # "idle"
    BY <1>4 DEF commit_put, Puts, ReplayInProgress, ReplayedAt, Cell
  <2>2. \A b \in Address : b # a => Visible'[b] = Visible[b]
    BY <1>4 DEF commit_put, put_ok, put_failed, Visible, Overlay, OverlayAt, Buffer, Store
  <2>3. Visible'[a] = Visible[a] \/ failed'
    BY <1>4 DEF commit_put, put_ok, Puts, Visible, Overlay, OverlayAt, Buffer, Store, Cell
  <2> QED BY <2>1, <2>2, <2>3
<1>5. CASE commit_puts_done
  BY <1>1, <1>5 DEF commit_puts_done, Visible
<1>6. ASSUME NEW a \in Address, commit_delete(a)
      PROVE  \A b \in Address :
                Visible'[b] = Visible[b] \/ (failed' /\ phase # "idle" /\ committing[b] # NoEntry)
  <2>1. committing[a] # NoEntry /\ phase # "idle"
    BY <1>6 DEF commit_delete, Deletes, ReplayInProgress, ReplayedAt
  <2>2. \A b \in Address : b # a => Visible'[b] = Visible[b]
    BY <1>6 DEF commit_delete, delete_ok, delete_failed, Visible, Overlay, OverlayAt, Buffer,
       Store
  <2>3. Visible'[a] = Visible[a] \/ failed'
    BY <1>6 DEF commit_delete, delete_ok, Deletes, Visible, Overlay, OverlayAt, Buffer, Store
  <2> QED BY <2>1, <2>2, <2>3
<1>7. CASE commit_done
  <2>1. drained = EmptyBuffer /\ buffer = EmptyBuffer
    BY <1>7 DEF commit_done, Buffer, Entry, Puts, Deletes, EmptyBuffer, ReplayInProgress
  <2> QED BY <1>1, <1>7, <2>1 DEF commit_done, Visible
<1> QED BY <1>1, <1>2, <1>3, <1>4, <1>5, <1>6, <1>7 DEF commit_internal

(* abort_internal and a power loss: an address the batch did not write     *)
(* reads as before.                                                        *)
LEMMA Dropped ==
    ASSUME IInv, abort_internal \/ Crash
    PROVE  /\ IInv'
           /\ \A b \in Address :
                 buffer[b] = NoEntry /\ drained[b] = NoEntry => Visible'[b] = Visible[b]
<1>1. IInv'
  BY BackendStep DEF Next
<1>2. inner' = inner /\ buffer' = EmptyBuffer /\ phase' = "idle"
  BY DEF abort_internal, Crash, IInv
<1> QED BY <1>1, <1>2 DEF Visible, Overlay, OverlayAt, EmptyBuffer

-----------------------------------------------------------------------------
(* The operations.                                                         *)

(* A session key is its peer and its device. *)
LEMMA KeyIs ==
    ASSUME NEW k \in SessionKey
    PROVE  /\ k[1] \in Address /\ k[2] \in Devices
           /\ \A j \in SessionKey : j[1] = k[1] /\ j[2] = k[2] => j = k
           /\ \A a \in Address, d \in Devices : <<a, d>> \in SessionKey
BY DEF SessionKey

(* A visible bundle has a record or NoRecord for every device. *)
LEMMA VisibleBundle ==
    ASSUME IInv, NEW a \in Address, Visible[a] \in Values
    PROVE  Visible[a] \in [Devices -> Records \cup {NoRecord}]
BY BundleAssumption DEF Bundle

(* load_session caches what is stored, and only where nothing is cached. *)
LEMMA LoadStep ==
    ASSUME SInv, NEW k \in SessionKey, load_session(k)
    PROVE  SInv'
<1> USE DEF SInv
<1>1. IInv' /\ Visible' = Visible /\ phase' = phase
  BY NoCall, BackendStep DEF load_session, vars
<1>2. Visible[k[1]] \in Values /\ get(k[1]) = Visible[k[1]] /\ k[1] \in Address
  BY VisibleIsGet, KeyIs DEF load_session, Quiet
<1>3. Visible[k[1]] \in [Devices -> Records \cup {NoRecord}]
  BY <1>2, VisibleBundle
<1>4. \A j \in SessionKey :
          cache'[j] = IF j[1] = k[1] /\ cache[j] = NoRecord THEN Visible[k[1]][j[2]] ELSE cache[j]
  BY <1>2 DEF load_session
<1>5. cache' \in [SessionKey -> Records \cup {NoRecord}]
  BY <1>2, <1>3, KeyIs DEF load_session, SessionTypeOK
<1>6. UNCHANGED <<dirty, flushing, todo, forgotten, discarded, spoiled, unflushed, failed,
                   committing>>
  BY DEF load_session, vars
<1>7. \A j \in SessionKey : cache[j] # NoRecord => cache'[j] = cache[j]
  BY <1>4
<1>8. SessionTypeOK'
  BY <1>1, <1>5, <1>6, <1>7 DEF SessionTypeOK, IInv, Cached
<1>9. FlushInProgress'
  BY <1>1, <1>6 DEF FlushInProgress, load_session, Quiet
<1>10. CleanIsStored'
  BY <1>1, <1>2, <1>4, <1>6, <1>7 DEF CleanIsStored, Cached
<1>11. ForgottenIsGone'
  BY <1>1, <1>2, <1>4, <1>6 DEF ForgottenIsGone, IsGone, SessionTypeOK
<1>12. ErrorIsRecorded'
  BY <1>1, <1>6 DEF ErrorIsRecorded, Held
<1> QED BY <1>1, <1>8, <1>9, <1>10, <1>11, <1>12

(* store_session makes its key dirty, so nothing need be stored for it. *)
LEMMA StoreStep ==
    ASSUME SInv, NEW k \in SessionKey, NEW r \in Records, store_session(k, r)
    PROVE  SInv'
<1> USE DEF SInv
<1>1. IInv' /\ Visible' = Visible /\ phase' = phase
  BY NoCall, BackendStep DEF store_session, vars
<1>2. UNCHANGED <<flushing, todo, discarded, spoiled, unflushed, failed, committing>>
  BY DEF store_session, vars
<1>3. cache' \in [SessionKey -> Records \cup {NoRecord}] /\ cache'[k] = r /\ r # NoRecord
      /\ \A j \in SessionKey : j # k => cache'[j] = cache[j]
  BY RecordAssumption DEF store_session, SessionTypeOK
<1>4. dirty' = dirty \cup {k} /\ forgotten' = forgotten \ {k} /\ ~flushing
  BY DEF store_session, Quiet
<1>5. SessionTypeOK'
  BY <1>1, <1>2, <1>3, <1>4 DEF SessionTypeOK, IInv, Cached
<1>6. FlushInProgress'
  BY <1>1, <1>2, <1>4 DEF FlushInProgress
<1>7. CleanIsStored'
  BY <1>1, <1>2, <1>3, <1>4 DEF CleanIsStored, Cached
<1>8. ForgottenIsGone'
  BY <1>1, <1>2, <1>3, <1>4 DEF ForgottenIsGone, IsGone, SessionTypeOK
<1>9. ErrorIsRecorded'
  BY <1>1, <1>2 DEF ErrorIsRecorded, Held
<1> QED BY <1>1, <1>5, <1>6, <1>7, <1>8, <1>9

(* What delete_session and delete_all_sessions have in common: the keys K  *)
(* leave the cache and the dirty set, and as for the backend, the bundles  *)
(* of other sessions keep them unless the address is on record as spoiled; *)
(* a key newly forgotten is in no bundle.                                  *)
LEMMA RemoveStep ==
    ASSUME SInv, Quiet, NEW K \in SUBSET SessionKey,
           IInv', phase' = "idle", UNCHANGED <<flushing, todo, discarded, unflushed>>,
           cache' = [j \in SessionKey |-> IF j \in K THEN NoRecord ELSE cache[j]],
           dirty' = dirty \ K, spoiled' \in SUBSET Address, spoiled \subseteq spoiled',
           forgotten' \in {forgotten, forgotten \cup K},
           \A j \in SessionKey \ K :
              Visible[j[1]] \in Values /\ Visible[j[1]][j[2]] # NoRecord /\ j[1] \notin spoiled' =>
                 Visible'[j[1]] \in Values /\ Visible'[j[1]][j[2]] = Visible[j[1]][j[2]],
           \A j \in forgotten' :
              Visible'[j[1]] \in Values /\ Visible'[j[1]][j[2]] # NoRecord =>
                 j \in forgotten /\ Visible[j[1]] \in Values /\ Visible[j[1]][j[2]] # NoRecord
    PROVE  SInv'
<1> USE DEF SInv
<1>1. cache' \in [SessionKey -> Records \cup {NoRecord}]
      /\ \A j \in SessionKey : cache'[j] = IF j \in K THEN NoRecord ELSE cache[j]
  BY DEF SessionTypeOK
<1>2. SessionTypeOK'
  BY <1>1 DEF SessionTypeOK, IInv, Cached
<1>3. FlushInProgress'
  BY DEF FlushInProgress, Quiet
<1>4. CleanIsStored'
  BY <1>1 DEF CleanIsStored, Cached
<1>5. ForgottenIsGone'
  BY <1>1 DEF ForgottenIsGone, IsGone, SessionTypeOK
<1>6. ErrorIsRecorded'
  BY DEF ErrorIsRecorded
<1> QED BY <1>2, <1>3, <1>4, <1>5, <1>6

(* delete_session takes one record out of its bundle, or the bundle away   *)
(* when it was the last.                                                   *)
LEMMA DeleteStep ==
    ASSUME SInv, NEW k \in SessionKey, delete_session(k)
    PROVE  SInv'
<1> DEFINE a == k[1]
           rest == [BundleAt(get(a)) EXCEPT ![k[2]] = NoRecord]
<1>0. IInv /\ Quiet /\ phase = "idle" /\ UNCHANGED <<flushing, todo, discarded, unflushed>>
  BY DEF SInv, delete_session, Quiet
<1>1. k[1] \in Address /\ k[2] \in Devices /\ get(a) = Visible[a] /\ Visible[a] \in Cell
  BY <1>0, KeyIs, VisibleIsGet DEF Store
<1>2. dirty' = dirty \ {k}
      /\ cache' = [j \in SessionKey |-> IF j \in {k} THEN NoRecord ELSE cache[j]]
  BY DEF delete_session, SInv, SessionTypeOK
<1>3. spoiled \in SUBSET Address
  BY DEF SInv, SessionTypeOK
<1>4. CASE UNCHANGED <<vars, forgotten, spoiled>>
  <2>1. IInv' /\ Visible' = Visible /\ phase' = "idle"
    BY <1>0, <1>4, NoCall, BackendStep DEF vars
  <2> QED BY <1>0, <1>2, <1>3, <1>4, <2>1, RemoveStep
<1>5. CASE /\ get(a) # Torn
           /\ BundleAt(get(a))[k[2]] = NoRecord
           /\ forgotten' = forgotten \cup {k}
           /\ UNCHANGED <<vars, spoiled>>
  <2>1. IInv' /\ Visible' = Visible /\ phase' = "idle" /\ spoiled' = spoiled
    BY <1>0, <1>5, NoCall, BackendStep DEF vars
  <2>2. Visible[a] \in Values => Visible[a][k[2]] = NoRecord
    BY <1>1, <1>5, BundleIs
  <2>3. forgotten' \in {forgotten, forgotten \cup {k}}
    BY <1>5
  <2>4. \A j \in forgotten' :
           Visible'[j[1]] \in Values /\ Visible'[j[1]][j[2]] # NoRecord =>
              j \in forgotten /\ Visible[j[1]] \in Values /\ Visible[j[1]][j[2]] # NoRecord
    BY <1>5, <2>1, <2>2
  <2> QED BY <1>0, <1>2, <1>3, <2>1, <2>3, <2>4, RemoveStep
<1>6. ASSUME get(a) # Torn, BundleAt(get(a))[k[2]] # NoRecord
      PROVE  /\ Visible[a] \in Values /\ BundleAt(get(a)) = Visible[a]
             /\ Visible[a] \in [Devices -> Records \cup {NoRecord}]
             /\ rest \in [Devices -> Records \cup {NoRecord}]
             /\ rest[k[2]] = NoRecord
             /\ \A d \in Devices \ {k[2]} : rest[d] = Visible[a][d]
             /\ rest # EmptyBundle => rest \in Values
             /\ rest = EmptyBundle => \A d \in Devices \ {k[2]} : Visible[a][d] = NoRecord
  <2>1. Visible[a] \in Values /\ BundleAt(get(a)) = Visible[a]
    BY <1>1, <1>6, BundleIs DEF EmptyBundle
  <2>2. Visible[a] \in [Devices -> Records \cup {NoRecord}]
    BY <1>0, <1>1, <2>1, VisibleBundle
  <2>3. /\ rest \in [Devices -> Records \cup {NoRecord}] /\ rest[k[2]] = NoRecord
        /\ \A d \in Devices \ {k[2]} : rest[d] = Visible[a][d]
    BY <1>1, <2>1, <2>2
  <2>4. rest # EmptyBundle => rest \in Values
    BY <2>3, BundleAssumption DEF Bundle, EmptyBundle
  <2> QED BY <2>1, <2>2, <2>3, <2>4 DEF EmptyBundle
<1>7. CASE /\ get(a) # Torn
           /\ BundleAt(get(a))[k[2]] # NoRecord
           /\ rest = EmptyBundle
           /\ \/ delete_returns_ok(a) /\ forgotten' = forgotten \cup {k}
              \/ delete_returns_err(a) /\ forgotten' = forgotten
           /\ spoiled' = spoiled
  <2>1. CASE delete_returns_ok(a) /\ forgotten' \in {forgotten, forgotten \cup {k}}
    <3>1. IInv' /\ Visible' = [Visible EXCEPT ![a] = NoValue] /\ phase' = "idle"
      BY <1>0, <1>1, <2>1, DeleteOk DEF delete_returns_ok
    <3>2. /\ Visible'[a] \notin Values
          /\ \A b \in Address : b # a => Visible'[b] = Visible[b]
      BY <1>0, <1>1, <3>1, VisibleIsGet, CellAssumption DEF Store
    <3>3. \A j \in SessionKey \ {k} :
             Visible[j[1]] \in Values /\ Visible[j[1]][j[2]] # NoRecord /\ j[1] \notin spoiled' =>
                Visible'[j[1]] \in Values /\ Visible'[j[1]][j[2]] = Visible[j[1]][j[2]]
      BY <1>6, <1>7, <3>2, KeyIs
    <3>4. \A j \in forgotten' :
             Visible'[j[1]] \in Values /\ Visible'[j[1]][j[2]] # NoRecord =>
                j \in forgotten /\ Visible[j[1]] \in Values /\ Visible[j[1]][j[2]] # NoRecord
      BY <2>1, <3>2, KeyIs DEF SInv, SessionTypeOK
    <3>5. forgotten' \in {forgotten, forgotten \cup {k}}
      BY <2>1
    <3> QED BY <1>0, <1>2, <1>3, <1>7, <3>1, <3>3, <3>4, <3>5, RemoveStep
  <2>2. CASE UNCHANGED vars /\ forgotten' = forgotten
    BY <1>4, <1>7, <2>2
  <2> QED BY <1>1, <1>7, <2>1, <2>2, DeleteErr
<1>8. CASE /\ get(a) # Torn
           /\ BundleAt(get(a))[k[2]] # NoRecord
           /\ rest # EmptyBundle
           /\ put_returns_ok(a, rest)
           /\ forgotten' = forgotten \cup {k}
           /\ spoiled' = spoiled
  <2>1. rest \in Values
    BY <1>6, <1>8
  <2>2. IInv' /\ Visible' = [Visible EXCEPT ![a] = rest] /\ phase' = "idle"
    BY <1>0, <1>1, <1>8, <2>1, PutOk DEF put_returns_ok
  <2>3. /\ Visible'[a] = rest
        /\ \A b \in Address : b # a => Visible'[b] = Visible[b]
    BY <1>0, <1>1, <2>2, VisibleIsGet DEF Store
  <2> HIDE DEF rest
  <2>4. \A j \in SessionKey \ {k} :
           Visible[j[1]] \in Values /\ Visible[j[1]][j[2]] # NoRecord /\ j[1] \notin spoiled' =>
              Visible'[j[1]] \in Values /\ Visible'[j[1]][j[2]] = Visible[j[1]][j[2]]
    BY <1>6, <1>8, <2>1, <2>3, KeyIs
  <2>5. \A j \in forgotten' :
           Visible'[j[1]] \in Values /\ Visible'[j[1]][j[2]] # NoRecord =>
              j \in forgotten /\ Visible[j[1]] \in Values /\ Visible[j[1]][j[2]] # NoRecord
    BY <1>6, <1>8, <2>3, KeyIs DEF SInv, SessionTypeOK
  <2>6. forgotten' \in {forgotten, forgotten \cup {k}}
    BY <1>8
  <2>7. spoiled' \in SUBSET Address /\ spoiled \subseteq spoiled' /\ IInv' /\ phase' = "idle"
    BY <1>8, <2>2 DEF SInv, SessionTypeOK
  <2>8. {k} \in SUBSET SessionKey
    OBVIOUS
  <2> QED BY ONLY SInv, <1>0, <1>2, <2>4, <2>5, <2>6, <2>7, <2>8, RemoveStep
<1>9. CASE /\ get(a) # Torn
           /\ BundleAt(get(a))[k[2]] # NoRecord
           /\ rest # EmptyBundle
           /\ put_returns_err(a, rest)
           /\ spoiled' = spoiled \cup {a}
           /\ forgotten' = forgotten
  <2>1. rest \in Values
    BY <1>6, <1>9
  <2>2. /\ IInv' /\ phase' = "idle"
        /\ \A b \in Address : b # a => Visible'[b] = Visible[b]
        /\ Visible'[a] \in {Visible[a], NoValue, Torn, rest}
    BY <1>0, <1>1, <1>9, <2>1, PutErr DEF put_returns_err
  <2> HIDE DEF rest
  <2>3. \A j \in SessionKey \ {k} :
           Visible[j[1]] \in Values /\ Visible[j[1]][j[2]] # NoRecord /\ j[1] \notin spoiled' =>
              Visible'[j[1]] \in Values /\ Visible'[j[1]][j[2]] = Visible[j[1]][j[2]]
    BY <1>9, <2>2, KeyIs
  <2>4. \A j \in forgotten' :
           Visible'[j[1]] \in Values /\ Visible'[j[1]][j[2]] # NoRecord =>
              j \in forgotten /\ Visible[j[1]] \in Values /\ Visible[j[1]][j[2]] # NoRecord
    BY <1>6, <1>9, <2>2, KeyIs, CellAssumption DEF SInv, SessionTypeOK
  <2>5. spoiled' \in SUBSET Address /\ spoiled \subseteq spoiled'
        /\ forgotten' \in {forgotten, forgotten \cup {k}}
    BY <1>1, <1>3, <1>9
  <2> QED BY <1>0, <1>2, <2>2, <2>3, <2>4, <2>5, RemoveStep
<1> QED BY <1>4, <1>5, <1>7, <1>8, <1>9 DEF delete_session

(* delete_all_sessions takes the whole bundle of a peer away. *)
LEMMA DeleteAllStep ==
    ASSUME SInv, NEW a \in Address, delete_all_sessions(a)
    PROVE  SInv'
<1> DEFINE K == {k \in SessionKey : k[1] = a}
<1>0. IInv /\ Quiet /\ phase = "idle"
      /\ UNCHANGED <<flushing, todo, discarded, spoiled, unflushed>>
  BY DEF SInv, delete_all_sessions, Quiet
<1>1. get(a) = Visible[a] /\ Visible[a] \in Cell
  BY <1>0, VisibleIsGet DEF Store
<1>2. dirty' = dirty \ K /\ K \in SUBSET SessionKey /\ spoiled \in SUBSET Address
      /\ cache' = [j \in SessionKey |-> IF j \in K THEN NoRecord ELSE cache[j]]
  BY DEF delete_all_sessions, SInv, SessionTypeOK
<1>3. forgotten' \in {forgotten, forgotten \cup K}
  BY DEF delete_all_sessions
<1>4. CASE UNCHANGED <<vars, forgotten>>
  <2>1. IInv' /\ Visible' = Visible /\ phase' = "idle"
    BY <1>0, <1>4, NoCall, BackendStep DEF vars
  <2> HIDE DEF K
  <2> QED BY <1>0, <1>2, <1>4, <2>1, RemoveStep
<1>5. CASE get(a) = NoValue /\ forgotten' = forgotten \cup K /\ UNCHANGED vars
  <2>1. IInv' /\ Visible' = Visible /\ phase' = "idle"
    BY <1>0, <1>5, NoCall, BackendStep DEF vars
  <2>2. \A j \in forgotten' :
           Visible'[j[1]] \in Values /\ Visible'[j[1]][j[2]] # NoRecord =>
              j \in forgotten /\ Visible[j[1]] \in Values /\ Visible[j[1]][j[2]] # NoRecord
    BY <1>1, <1>5, <2>1, CellAssumption
  <2> HIDE DEF K
  <2> QED BY <1>0, <1>2, <1>3, <2>1, <2>2, RemoveStep
<1>6. CASE delete_returns_ok(a)
  <2>1. IInv' /\ Visible' = [Visible EXCEPT ![a] = NoValue] /\ phase' = "idle"
    BY <1>0, <1>6, DeleteOk DEF delete_returns_ok
  <2>2. /\ Visible'[a] \notin Values
        /\ \A b \in Address : b # a => Visible'[b] = Visible[b]
    BY <1>0, <2>1, VisibleIsGet, CellAssumption DEF Store
  <2>3. \A j \in SessionKey \ K :
           Visible[j[1]] \in Values /\ Visible[j[1]][j[2]] # NoRecord /\ j[1] \notin spoiled' =>
              Visible'[j[1]] \in Values /\ Visible'[j[1]][j[2]] = Visible[j[1]][j[2]]
    BY <2>2, KeyIs
  <2>4. \A j \in forgotten' :
           Visible'[j[1]] \in Values /\ Visible'[j[1]][j[2]] # NoRecord =>
              j \in forgotten /\ Visible[j[1]] \in Values /\ Visible[j[1]][j[2]] # NoRecord
    BY <1>3, <2>2, KeyIs DEF SInv, SessionTypeOK
  <2> HIDE DEF K
  <2> QED BY <1>0, <1>2, <1>3, <2>1, <2>3, <2>4, RemoveStep
<1> QED BY <1>4, <1>5, <1>6, DeleteErr DEF delete_all_sessions

-----------------------------------------------------------------------------
(* flush_sessions.                                                         *)

(* A flush starts with every peer that has a dirty session to do: dirty    *)
(* sessions are cached.                                                    *)
LEMMA FlushBeginStep ==
    ASSUME SInv, flush_begin
    PROVE  SInv'
<1> USE DEF SInv
<1>1. IInv' /\ Visible' = Visible /\ UNCHANGED vars
  BY NoCall, BackendStep DEF flush_begin
<1>2. dirty \subseteq Cached /\ dirty \subseteq SessionKey
  BY DEF SessionTypeOK, Cached
<1>3. todo' = {k[1] : k \in dirty}
  BY <1>2 DEF flush_begin
<1>4. SessionTypeOK'
  BY <1>1, <1>2, <1>3, KeyIs DEF flush_begin, SessionTypeOK, IInv, Cached
<1>5. FlushInProgress'
  BY <1>1, <1>3 DEF flush_begin, FlushInProgress, Quiet, vars
<1>6. CleanIsStored' /\ ForgottenIsGone' /\ ErrorIsRecorded'
  BY <1>1 DEF flush_begin, vars, CleanIsStored, Cached, ForgottenIsGone, IsGone, ErrorIsRecorded,
     Held
<1> QED BY <1>1, <1>4, <1>5, <1>6

(* A peer with a dirty session has a bundle to write. *)
LEMMA MergedIs ==
    ASSUME SInv, NEW a \in todo, get(a) # Torn
    PROVE  /\ a \in Address /\ phase = "idle" /\ get(a) = Visible[a]
           /\ Merged(a) \in Values
           /\ \A d \in Devices :
                 Merged(a)[d] = IF <<a, d>> \in dirty THEN cache[<<a, d>>]
                                ELSE IF Visible[a] \in Values THEN Visible[a][d] ELSE NoRecord
<1> USE DEF SInv
<1>1. a \in Address /\ phase = "idle"
  BY DEF SessionTypeOK, FlushInProgress
<1>2. get(a) = Visible[a] /\ Visible[a] \in Cell
  BY <1>1, VisibleIsGet DEF Store
<1>3. dirty \subseteq Cached /\ cache \in [SessionKey -> Records \cup {NoRecord}]
  BY DEF SessionTypeOK
<1>4. PICK k \in dirty : k[1] = a
  BY DEF FlushInProgress
<1>5. k \in SessionKey /\ k[2] \in Devices /\ k = <<a, k[2]>>
  BY <1>3, <1>4 DEF Cached, SessionKey
<1>6. /\ BundleAt(get(a)) \in [Devices -> Records \cup {NoRecord}]
      /\ BundleAt(get(a)) = IF Visible[a] \in Values THEN Visible[a] ELSE EmptyBundle
  BY <1>2, BundleIs
<1>7. \A d \in Devices :
         Merged(a)[d] = IF <<a, d>> \in dirty THEN cache[<<a, d>>] ELSE BundleAt(get(a))[d]
  BY <1>3 DEF Merged
<1>8. Merged(a) \in [Devices -> Records \cup {NoRecord}]
  BY <1>1, <1>3, <1>6, KeyIs, <1>5 DEF Merged
<1>9. Merged(a)[k[2]] # NoRecord
  BY <1>3, <1>4, <1>5, <1>7 DEF Cached
<1>10. Merged(a) \in Values
  BY <1>5, <1>8, <1>9, BundleAssumption DEF Bundle
<1>11. \A d \in Devices : BundleAt(get(a))[d] = IF Visible[a] \in Values THEN Visible[a][d]
                                               ELSE NoRecord
  BY <1>6 DEF EmptyBundle
<1> QED BY <1>1, <1>2, <1>7, <1>10, <1>11

(* One read-modify-write: the dirty sessions of the peer are stored, the   *)
(* others keep what the bundle had for them.                               *)
LEMMA FlushPutStep ==
    ASSUME SInv, NEW a \in Address, flush_put(a)
    PROVE  SInv'
<1>1. a \in todo /\ get(a) # Torn /\ flushing /\ put_returns_ok(a, Merged(a))
      /\ todo' = todo \ {a}
      /\ UNCHANGED <<cache, dirty, flushing, forgotten, discarded, spoiled, unflushed>>
  BY DEF flush_put
<1>2. PICK v \in Values :
        /\ v = Merged(a)
        /\ \A d \in Devices : v[d] = IF <<a, d>> \in dirty THEN cache[<<a, d>>]
                                     ELSE IF Visible[a] \in Values THEN Visible[a][d] ELSE NoRecord
  BY <1>1, MergedIs
<1> USE DEF SInv
<1>3. IInv' /\ Visible' = [Visible EXCEPT ![a] = v] /\ phase' = "idle"
  BY <1>1, <1>2, PutOk DEF put_returns_ok
<1>4. Visible'[a] = v /\ \A b \in Address : b # a => Visible'[b] = Visible[b]
  BY <1>3, VisibleIsGet DEF Store
<1>5. dirty \subseteq Cached /\ forgotten \subseteq SessionKey /\ Cached \subseteq SessionKey
  BY DEF SessionTypeOK, Cached
<1>6. \A k \in SessionKey : k[1] = a =>
         /\ k[2] \in Devices
         /\ v[k[2]] = IF k \in dirty THEN cache[k]
                      ELSE IF Visible[a] \in Values THEN Visible[a][k[2]] ELSE NoRecord
  BY <1>2 DEF SessionKey
<1>7. SessionTypeOK'
  BY <1>1, <1>3 DEF SessionTypeOK, IInv, Cached
<1>8. FlushInProgress'
  BY <1>1, <1>2, <1>3, <1>4, <1>5, <1>6, KeyIs DEF FlushInProgress, IsStored
<1>9. CleanIsStored'
  BY <1>1, <1>2, <1>4, <1>6, KeyIs DEF CleanIsStored, Cached
<1>10. ForgottenIsGone'
  <2> SUFFICES ASSUME NEW k \in forgotten, k[1] \notin discarded PROVE IsGone(k)'
    BY <1>1 DEF ForgottenIsGone
  <2>1. k \in SessionKey /\ IsGone(k) /\ k \notin dirty /\ k[1] \in Address
    BY <1>5, KeyIs DEF ForgottenIsGone, IsGone, Cached
  <2> QED BY <1>1, <1>4, <1>6, <2>1 DEF IsGone
<1>11. ErrorIsRecorded'
  BY <1>3 DEF ErrorIsRecorded
<1> QED BY <1>3, <1>7, <1>8, <1>9, <1>10, <1>11

(* The first error ends the flush and leaves the dirty set. *)
LEMMA FlushErrorStep ==
    ASSUME SInv, NEW a \in Address, flush_error(a)
    PROVE  SInv'
<1>1. a \in todo /\ flushing /\ flushing' = FALSE /\ todo' = {}
      /\ UNCHANGED <<cache, dirty, forgotten, discarded, spoiled>>
  BY DEF flush_error
<1>2. /\ IInv' /\ phase' = "idle" /\ unflushed' \subseteq Address
      /\ \A b \in Address : b # a => Visible'[b] = Visible[b]
      /\ unflushed \subseteq unflushed'
      /\ Visible'[a] # Visible[a] => a \in unflushed'
      /\ Visible'[a] \in Values /\ Visible'[a] # Visible[a] =>
            \A d \in Devices : Visible'[a][d] =
               IF <<a, d>> \in dirty THEN cache[<<a, d>>]
               ELSE IF Visible[a] \in Values THEN Visible[a][d] ELSE NoRecord
  <2>1. CASE UNCHANGED <<vars, unflushed>>
    <3>1. IInv' /\ Visible' = Visible
      BY <2>1, NoCall, BackendStep DEF SInv
    <3> QED BY <1>1, <2>1, <3>1 DEF SInv, FlushInProgress, SessionTypeOK, vars
  <2>2. CASE get(a) # Torn /\ put_returns_err(a, Merged(a)) /\ unflushed' = unflushed \cup {a}
    <3>1. PICK v \in Values :
            /\ v = Merged(a) /\ phase = "idle"
            /\ \A d \in Devices : v[d] = IF <<a, d>> \in dirty THEN cache[<<a, d>>]
                                         ELSE IF Visible[a] \in Values THEN Visible[a][d]
                                         ELSE NoRecord
      BY <1>1, <2>2, MergedIs
    <3>2. /\ IInv' /\ phase' = "idle"
          /\ \A b \in Address : b # a => Visible'[b] = Visible[b]
          /\ Visible'[a] \in {Visible[a], NoValue, Torn, v}
      BY <2>2, <3>1, PutErr DEF SInv, put_returns_err
    <3> QED BY <2>2, <3>1, <3>2, CellAssumption DEF SInv, SessionTypeOK
  <2> QED BY <2>1, <2>2 DEF flush_error
<1> USE DEF SInv
<1>3. SessionTypeOK'
  BY <1>1, <1>2 DEF SessionTypeOK, IInv, Cached
<1>4. FlushInProgress'
  BY <1>1, <1>2 DEF FlushInProgress
<1>5. CleanIsStored'
  BY <1>1, <1>2, KeyIs DEF CleanIsStored, Cached
<1>6. ForgottenIsGone'
  <2> SUFFICES ASSUME NEW k \in forgotten, k[1] \notin discarded PROVE IsGone(k)'
    BY <1>1 DEF ForgottenIsGone
  <2>1. IsGone(k) /\ k \in SessionKey /\ k[1] \in Address /\ k \notin dirty
    BY KeyIs DEF ForgottenIsGone, SessionTypeOK, IsGone, Cached
  <2>2. k[2] \in Devices /\ k = <<k[1], k[2]>>
    BY <2>1 DEF SessionKey
  <2>3. CASE k[1] = a
    BY <1>1, <1>2, <2>1, <2>2, <2>3 DEF IsGone
  <2>4. CASE k[1] # a
    BY <1>1, <1>2, <2>1, <2>4 DEF IsGone
  <2> QED BY <2>3, <2>4
<1>7. ErrorIsRecorded'
  BY <1>2 DEF ErrorIsRecorded
<1> QED BY <1>2, <1>3, <1>4, <1>5, <1>6, <1>7

(* The dirty set is emptied when every dirty session is stored. *)
LEMMA FlushDoneStep ==
    ASSUME SInv, flush_done
    PROVE  SInv'
<1> USE DEF SInv
<1>1. IInv' /\ Visible' = Visible /\ UNCHANGED vars
  BY NoCall, BackendStep DEF flush_done
<1>2. UNCHANGED <<cache, todo, forgotten, discarded, spoiled, unflushed>>
      /\ flushing /\ todo = {} /\ flushing' = FALSE /\ dirty' = {}
  BY DEF flush_done
<1>3. SessionTypeOK'
  BY <1>1, <1>2 DEF SessionTypeOK, IInv, Cached
<1>4. FlushInProgress'
  BY <1>1, <1>2 DEF FlushInProgress, vars
<1>5. CleanIsStored'
  <2> SUFFICES ASSUME NEW k \in Cached, k[1] \notin discarded \cup spoiled \cup unflushed
               PROVE  Visible[k[1]] \in Values /\ Visible[k[1]][k[2]] = cache[k]
    BY <1>1, <1>2 DEF CleanIsStored, Cached
  <2> QED BY <1>2 DEF CleanIsStored, FlushInProgress, IsStored
<1>6. ForgottenIsGone' /\ ErrorIsRecorded'
  BY <1>1, <1>2 DEF ForgottenIsGone, IsGone, ErrorIsRecorded, Held, vars
<1> QED BY <1>1, <1>3, <1>4, <1>5, <1>6

-----------------------------------------------------------------------------
(* Store::clear, the send batch and power loss.                            *)

(* clear leaves neither a record nor a bundle. *)
LEMMA ClearStep ==
    ASSUME SInv, clear
    PROVE  SInv'
<1> USE DEF SInv
<1>1. phase = "idle" /\ phase' = "idle" /\ inner' = EmptyStore /\ buffer' = EmptyBuffer
      /\ UNCHANGED <<batching, drained, failed, before, committing, returned, flushing, todo>>
      /\ cache' = NoCache /\ dirty' = {} /\ forgotten' = SessionKey /\ discarded' = {}
      /\ spoiled' = {} /\ unflushed' = {} /\ ~flushing
  BY DEF clear, Quiet
<1>2. IInv'
  BY <1>1 DEF IInv, TypeOK, NothingLeftBehind, ReplayInProgress, EmptyStore, EmptyBuffer, Store,
     Cell, Buffer, Entry
<1>3. Visible' = EmptyStore
  BY <1>1 DEF Visible, Overlay, OverlayAt, EmptyBuffer, EmptyStore
<1>4. SessionTypeOK'
  BY <1>1, <1>2 DEF SessionTypeOK, IInv, NoCache, Cached
<1>5. FlushInProgress' /\ CleanIsStored' /\ ErrorIsRecorded'
  BY <1>1 DEF FlushInProgress, CleanIsStored, Cached, NoCache, ErrorIsRecorded
<1>6. ForgottenIsGone'
  BY <1>1, <1>3, KeyIs, CellAssumption DEF ForgottenIsGone, IsGone, NoCache, EmptyStore
<1> QED BY <1>2, <1>4, <1>5, <1>6

(* A clear cut short by an error: an address of a dictionary it had come   *)
(* to reads as before or as absent, unless a batched write to it was       *)
(* dropped; the others read as before.                                     *)
LEMMA ClearErrorStep ==
    ASSUME SInv, NEW gone \in SUBSET Dicts, NEW d \in Dicts, NEW S \in SUBSET InDict(d),
           clear_error(gone, d, S)
    PROVE  SInv'
<1> USE DEF SInv
<1>1. phase = "idle" /\ phase' = "idle" /\ ~flushing
      /\ UNCHANGED <<batching, drained, failed, before, committing, returned, cache, dirty,
                     flushing, todo, forgotten, unflushed>>
  BY DEF clear_error, Quiet
<1>2. /\ \A b \in Address : inner'[b] \in {inner[b], NoValue}
      /\ \A b \in Address : b[1] \notin gone \cup {d} => inner'[b] = inner[b]
      /\ inner' \in Store
  BY DEF clear_error, delete_dict_applied, InDict, IInv, TypeOK, Store, Cell
<1>3. /\ buffer' \in Buffer
      /\ \A b \in Address : buffer'[b] = IF b[1] \in gone \cup {d} THEN NoEntry ELSE buffer[b]
      /\ ~batching => buffer' = EmptyBuffer
  BY DEF clear_error, IInv, TypeOK, NothingLeftBehind, Buffer, Entry, EmptyBuffer
<1>4. IInv'
  BY <1>1, <1>2, <1>3 DEF IInv, TypeOK, NothingLeftBehind, ReplayInProgress
<1>5. /\ spoiled' \subseteq Address /\ discarded' \subseteq Address
      /\ spoiled \subseteq spoiled' /\ discarded \subseteq discarded'
      /\ \A b \in Address : b[1] \in gone \cup {d} => b \in spoiled'
      /\ \A b \in Address : b[1] \in gone \cup {d} /\ buffer[b] # NoEntry => b \in discarded'
  BY DEF clear_error, InDict, Held, SessionTypeOK
<1>6. \A b \in Address :
         /\ b \notin discarded' => Visible'[b] \in {Visible[b], NoValue}
         /\ b \notin spoiled' => Visible'[b] = Visible[b]
  BY <1>1, <1>2, <1>3, <1>5 DEF Visible, Overlay, OverlayAt
<1>7. SessionTypeOK'
  BY <1>1, <1>4, <1>5 DEF SessionTypeOK, IInv, Cached
<1>8. FlushInProgress' /\ ErrorIsRecorded'
  BY <1>1 DEF FlushInProgress, ErrorIsRecorded
<1>9. CleanIsStored'
  BY <1>1, <1>5, <1>6, KeyIs DEF CleanIsStored, Cached
<1>10. ForgottenIsGone'
  BY <1>1, <1>5, <1>6, KeyIs, CellAssumption DEF ForgottenIsGone, IsGone, SessionTypeOK
<1> QED BY <1>4, <1>7, <1>8, <1>9, <1>10

(* What the remaining steps have in common: the session layer keeps its    *)
(* cache or loses all of it, and an address that reads otherwise than      *)
(* before is on record as dropped.                                         *)
LEMMA BatchStep ==
    ASSUME SInv, IInv', ErrorIsRecorded', UNCHANGED <<forgotten, spoiled, unflushed>>,
           flushing' = FALSE, todo' = {},
           UNCHANGED <<cache, dirty>> \/ (cache' = NoCache /\ dirty' = {}),
           discarded \subseteq discarded', discarded' \subseteq Address,
           \A b \in Address : b \notin discarded' => Visible'[b] = Visible[b]
    PROVE  SInv'
<1> USE DEF SInv
<1>1. SessionTypeOK'
  <2>1. TypeOK' /\ dirty \subseteq Cached /\ cache \in [SessionKey -> Records \cup {NoRecord}]
    BY DEF IInv, SessionTypeOK
  <2>2. cache' \in [SessionKey -> Records \cup {NoRecord}]
    BY <2>1 DEF NoCache
  <2>3. dirty' \subseteq Cached'
    BY <2>1 DEF Cached
  <2> QED BY <2>1, <2>2, <2>3 DEF SessionTypeOK
<1>2. FlushInProgress'
  BY DEF FlushInProgress
<1>3. CleanIsStored'
  BY KeyIs DEF CleanIsStored, Cached, NoCache
<1>4. ForgottenIsGone'
  BY KeyIs DEF ForgottenIsGone, IsGone, SessionTypeOK, NoCache
<1> QED BY <1>1, <1>2, <1>3, <1>4

(* Every step of the session store keeps the invariant. *)
LEMMA SessionStep == SInv /\ [SessionNext]_allVars => SInv'
<1> SUFFICES ASSUME SInv, [SessionNext]_allVars PROVE SInv'
  OBVIOUS
<1>t. discarded \subseteq Address /\ IInv /\ ErrorIsRecorded
      /\ (~flushing => todo = {} /\ flushing = FALSE)
  BY DEF SInv, SessionTypeOK, FlushInProgress
<1>1. CASE begin_send_batch
  <2>1. IInv' /\ Visible' = Visible /\ phase = "idle" /\ phase' = "idle" /\ ~flushing
    BY <1>1, <1>t, BackendStep DEF begin_send_batch, Quiet, Next, begin_batch, Visible
  <2>2. ErrorIsRecorded'
    BY <2>1 DEF ErrorIsRecorded
  <2> QED BY <1>1, <1>t, <2>1, <2>2, BatchStep DEF begin_send_batch, sessionVars
<1>2. CASE commit_batch
  <2>1. UNCHANGED <<cache, dirty, flushing, todo, forgotten, spoiled, unflushed>> /\ ~flushing
        /\ discarded' = IF failed' /\ ~failed THEN discarded \cup Held(committing) ELSE discarded
    BY <1>2 DEF commit_batch
  <2>2. /\ IInv'
        /\ \A b \in Address :
              Visible'[b] = Visible[b] \/ (failed' /\ phase # "idle" /\ committing[b] # NoEntry)
    BY <1>2, <1>t, CommitStep DEF commit_batch
  <2>3. failed' /\ phase # "idle" => Held(committing) \subseteq discarded'
    BY <1>t, <2>1 DEF ErrorIsRecorded
  <2>4. phase = "idle" => ~failed'
    BY <1>2 DEF commit_batch, commit_internal, commit_drain, commit_put_batch, commit_put,
       commit_puts_done, commit_delete, commit_done
  <2>5. phase # "idle" /\ phase' # "idle" => committing' = committing
    BY <1>2 DEF commit_batch, commit_internal, commit_drain, commit_put_batch, commit_put,
       commit_puts_done, commit_delete, commit_done
  <2>6. ErrorIsRecorded'
    BY <2>3, <2>4, <2>5 DEF ErrorIsRecorded, Held
  <2>7. discarded \subseteq discarded' /\ discarded' \subseteq Address
    BY <1>t, <2>1 DEF Held
  <2>8. \A b \in Address : b \notin discarded' => Visible'[b] = Visible[b]
    BY <2>2, <2>3 DEF Held
  <2> QED BY <1>t, <2>1, <2>2, <2>6, <2>7, <2>8, BatchStep
<1>3. CASE abort_batch
  <2>1. UNCHANGED <<cache, dirty, flushing, todo, forgotten, spoiled, unflushed>> /\ ~flushing
        /\ discarded' = discarded \cup Held(buffer) /\ abort_internal
    BY <1>3 DEF abort_batch, Quiet
  <2>2. /\ IInv' /\ phase' = "idle" /\ drained = EmptyBuffer
        /\ \A b \in Address :
              buffer[b] = NoEntry /\ drained[b] = NoEntry => Visible'[b] = Visible[b]
    BY <1>t, <2>1, Dropped DEF IInv, NothingLeftBehind, abort_internal
  <2>3. discarded' \subseteq Address /\ ErrorIsRecorded'
    BY <1>t, <2>1, <2>2 DEF Held, ErrorIsRecorded
  <2>4. \A b \in Address : b \notin discarded' => Visible'[b] = Visible[b]
    BY <2>1, <2>2 DEF Held, EmptyBuffer
  <2> QED BY <1>t, <2>1, <2>2, <2>3, <2>4, BatchStep
<1>4. CASE Reboot
  <2>1. cache' = NoCache /\ dirty' = {} /\ flushing' = FALSE /\ todo' = {}
        /\ discarded' = discarded \cup Held(buffer) \cup Held(drained)
        /\ UNCHANGED <<forgotten, spoiled, unflushed>> /\ Crash
    BY <1>4 DEF Reboot
  <2>2. /\ IInv' /\ phase' = "idle"
        /\ \A b \in Address :
              buffer[b] = NoEntry /\ drained[b] = NoEntry => Visible'[b] = Visible[b]
    BY <1>t, <2>1, Dropped DEF Crash
  <2>3. discarded' \subseteq Address /\ ErrorIsRecorded'
    BY <1>t, <2>1, <2>2 DEF Held, ErrorIsRecorded
  <2>4. \A b \in Address : b \notin discarded' => Visible'[b] = Visible[b]
    BY <2>1, <2>2 DEF Held
  <2> QED BY <2>1, <2>2, <2>3, <2>4, BatchStep
<1>5. CASE UNCHANGED allVars
  <2>1. UNCHANGED vars /\ UNCHANGED sessionVars
    BY <1>5 DEF allVars
  <2>2. IInv' /\ Visible' = Visible
    BY <1>t, <2>1, NoCall, BackendStep
  <2> QED
    BY <2>1, <2>2 DEF SInv, sessionVars, vars, SessionTypeOK, IInv, Cached, FlushInProgress,
       IsStored, CleanIsStored, ForgottenIsGone, IsGone, ErrorIsRecorded, Held
<1> QED
  BY <1>1, <1>2, <1>3, <1>4, <1>5, LoadStep, StoreStep, DeleteStep, DeleteAllStep,
     FlushBeginStep, FlushPutStep, FlushErrorStep, FlushDoneStep, ClearStep, ClearErrorStep
     DEF SessionNext

-----------------------------------------------------------------------------
(* The theorems.                                                           *)

(* The invariant holds in every reachable state. *)
THEOREM SessionInvariance == SessionSpec => []SInv
<1>1. SessionInit => SInv
  <2> SUFFICES ASSUME SessionInit PROVE SInv
    OBVIOUS
  <2>1. IInv
    BY DEF SessionInit, Init, IInv, TypeOK, NothingLeftBehind, ReplayInProgress, Store, Cell,
       Buffer, Entry, Phase, EmptyBuffer, EmptyStore
  <2>2. SessionTypeOK
    BY <2>1 DEF SessionInit, SessionTypeOK, IInv, NoCache, Cached
  <2> QED
    BY <2>1, <2>2 DEF SInv, SessionInit, Init, FlushInProgress, CleanIsStored, Cached, NoCache,
       ForgottenIsGone, ErrorIsRecorded
<1> QED BY <1>1, SessionStep, PTL DEF SessionSpec

(* The session layer's state has its types and a dirty session is cached,  *)
(* so flush_sessions never drops one as missing.                           *)
THEOREM SessionTypeCorrect == SessionSpec => []SessionTypeOK
BY SessionInvariance, PTL DEF SInv

(* A cached session that is not dirty is the one the backend holds, at     *)
(* every point of a flush and of a commit, unless a batched write of its   *)
(* peer was dropped or a direct write of it failed.                        *)
THEOREM CleanIsStoredHolds == SessionSpec => []CleanIsStored
BY SessionInvariance, PTL DEF SInv

(* A deleted session is not loaded again before it is stored again, as     *)
(* long as no batched write of its peer was dropped.                       *)
THEOREM DeletedStaysDeletedHolds == SessionSpec => []DeletedStaysDeleted
<1>1. SInv => DeletedStaysDeleted
  <2> SUFFICES ASSUME SInv, Quiet, NEW k \in forgotten, k[1] \notin discarded
               PROVE  Loads(k) = NoRecord
    BY DEF DeletedStaysDeleted
  <2>1. IsGone(k) /\ k[1] \in Address /\ k[2] \in Devices
    BY KeyIs DEF SInv, ForgottenIsGone, SessionTypeOK
  <2>2. get(k[1]) = Visible[k[1]] /\ Visible[k[1]] \in Cell
    BY <2>1, VisibleIsGet DEF SInv, Quiet, Store
  <2> QED BY <2>1, <2>2, BundleIs DEF IsGone, Loads, EmptyBundle
<1> QED BY <1>1, SessionInvariance, PTL

(* A ratchet step that is not flushed yet is replaced in the cache only by *)
(* a newer store_session.                                                  *)
THEOREM RatchetNeverRewindsHolds == SessionSpec => RatchetNeverRewinds
<1>1. SInv /\ [SessionNext]_allVars =>
        [\A k \in dirty \cap dirty' :
            cache'[k] # cache[k] => \E r \in Records : store_session(k, r)]_allVars
  <2> SUFFICES ASSUME SInv, SessionNext, NEW k \in dirty, k \in dirty', cache'[k] # cache[k]
               PROVE  \E r \in Records : store_session(k, r)
    OBVIOUS
  <2>1. k \in SessionKey /\ cache[k] # NoRecord /\ cache \in [SessionKey -> Records \cup {NoRecord}]
    BY DEF SInv, SessionTypeOK, Cached
  <2>2. ASSUME NEW j \in SessionKey, load_session(j) PROVE FALSE
    BY <2>1, <2>2 DEF load_session
  <2>3. ASSUME NEW j \in SessionKey, delete_session(j) PROVE FALSE
    BY <2>1, <2>3 DEF delete_session
  <2>4. ASSUME NEW j \in SessionKey, NEW r \in Records, store_session(j, r)
        PROVE  store_session(k, r)
    BY <2>1, <2>4 DEF store_session
  <2>5. ASSUME NEW a \in Address, delete_all_sessions(a) PROVE FALSE
    BY <2>1, <2>5 DEF delete_all_sessions
  <2>6. CASE UNCHANGED cache \/ dirty' = {}
    BY <2>6
  <2> QED
    BY <2>2, <2>3, <2>4, <2>5, <2>6 DEF SessionNext, flush_put, flush_error, flush_begin,
       flush_done, clear, clear_error, begin_send_batch, sessionVars, commit_batch, abort_batch,
       Reboot
<1> QED BY <1>1, SessionInvariance, PTL DEF SessionSpec, RatchetNeverRewinds
=============================================================================
