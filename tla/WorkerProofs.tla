---------------------------- MODULE WorkerProofs ----------------------------
(***************************************************************************)
(* Proofs about Worker for every set of accounts, every number of manager  *)
(* tasks alive at once and every capacity of an op channel.                *)
(***************************************************************************)
EXTENDS Worker, TLAPS

(* The dispatcher holds the sender of a task only while it serves an       *)
(* account, of which the task is, or was before it exited; it forwards     *)
(* only when it holds one, and a link under way has an account.            *)
Dispatching ==
    /\ manager_ops # NoTask => /\ cached_account_info # NoAccount
                               /\ account[manager_ops] \in {cached_account_info, NoAccount}
    /\ \A t \in Tasks : status[t] \in {"up", "sending", "retrying"} => account[t] \in Accounts
    /\ pc = "forwarding" => manager_ops # NoTask
    /\ pc = "linking" => linking \in Accounts
    /\ pc = "boot" => cached_account_info = NoAccount

(* NoMixing between two links as well: without an account to serve, memory *)
(* holds nothing and flash at most one registration, with no other         *)
(* account's keys beside it; a link starts on an empty store.              *)
Alone ==
    ~faulty /\ ~haunted =>
        /\ buffer["state"] = {}
        /\ cached_account_info # NoAccount =>
            /\ pc # "linking"
            /\ flash["state"] = {cached_account_info}
            /\ flash["protocol"] \cup buffer["protocol"] \cup dirty \subseteq {cached_account_info}
        /\ cached_account_info = NoAccount =>
            /\ buffer["protocol"] = {} /\ dirty = {}
            /\ \A x \in flash["state"], y \in flash["state"] \cup flash["protocol"] : x = y
        /\ pc = "linking" => \A k \in Kind : flash[k] = IF k \in linkWrote THEN {linking} ELSE {}

(* The inductive invariant of the worker. *)
IInv == TypeOK /\ Dispatching /\ Alone

(* First names one of the elements it chooses from. *)
LEMMA FirstIsOne == ASSUME NEW S, NEW x \in First(S) PROVE x \in S
BY DEF First

(* Writing a kind of data keeps the types of the store. *)
LEMMA PutTypes ==
    ASSUME flash \in [Kind -> SUBSET Accounts], buffer \in [Kind -> SUBSET Accounts],
           NEW k \in Kind, NEW S \in SUBSET Accounts, Put(k, S)
    PROVE  flash' \in [Kind -> SUBSET Accounts] /\ buffer' \in [Kind -> SUBSET Accounts]
BY DEF Put, Merge

(* What a spawn does: t was free, and the other tasks stay what they were, *)
(* the dead ones gone.                                                     *)
LEMMA SpawnIs ==
    ASSUME TypeOK, Dispatching, NEW t \in Tasks, NEW a \in Accounts, SpawnFor(t, a)
    PROVE  /\ manager_ops' = t /\ status' \in [Tasks -> Status]
           /\ account' \in [Tasks -> Accounts \cup {NoAccount}] /\ account'[t] = a
           /\ queue' \in [Tasks -> 0..OpCapacity]
           /\ \A u \in Tasks : status'[u] \in {"sending", "retrying"} <=>
                                    status[u] \in {"sending", "retrying"}
           /\ \A u \in Tasks : status'[u] \in {"up", "sending", "retrying"} =>
                                    account'[u] \in Accounts
<1>1. status[t] = "free"
  BY FirstIsOne DEF SpawnFor, First
<1>2. 0 \in 0..OpCapacity
  BY WorkerAssumption
<1>3. /\ manager_ops' = t /\ status' \in [Tasks -> Status]
      /\ \A u \in Tasks : status'[u] = IF u = t THEN "up"
                                       ELSE IF status[u] = "dead" THEN "free" ELSE status[u]
  BY DEF SpawnFor, TypeOK, Status
<1>4. /\ account' \in [Tasks -> Accounts \cup {NoAccount}]
      /\ \A u \in Tasks : account'[u] = IF u = t THEN a ELSE account[u]
  BY DEF SpawnFor, TypeOK
<1>5. queue' \in [Tasks -> 0..OpCapacity]
  BY <1>2 DEF SpawnFor, TypeOK
<1> QED BY <1>1, <1>3, <1>4, <1>5 DEF Dispatching

(* A restart with flash of the right type. *)
LEMMA LostTypes ==
    ASSUME TypeOK, MemoryLost, flash' \in [Kind -> SUBSET Accounts]
    PROVE  TypeOK'
<1>1. queue' \in [Tasks -> 0..OpCapacity]
  BY WorkerAssumption DEF MemoryLost
<1>2. status' \in [Tasks -> Status] /\ account' \in [Tasks -> Accounts \cup {NoAccount}]
      /\ buffer' \in [Kind -> SUBSET Accounts] /\ dirty' \subseteq Accounts
  BY DEF MemoryLost, Status, Nothing
<1>3. {t \in Tasks : status'[t] \in {"sending", "retrying"}} = {owner'} \ {NoTask}
  BY DEF MemoryLost
<1> QED BY <1>1, <1>2, <1>3 DEF TypeOK, MemoryLost

(* The history of let-go tasks is a truth value. *)
LEMMA HauntsIs == ASSUME haunted \in BOOLEAN, NEW t PROVE Haunts(t) \in BOOLEAN
BY DEF Haunts

(* The registration is of an account, and on flash unless a let-go task    *)
(* had a batch open.                                                       *)
LEMMA RegisteredIs ==
    ASSUME TypeOK, Alone
    PROVE  /\ Registered \subseteq Accounts
           /\ ~faulty /\ ~haunted => Registered = flash["state"]
BY DEF TypeOK, Alone, Registered, Kind

(* One account on flash is all there is on flash. *)
LEMMA OnlyRegistered ==
    ASSUME TypeOK, Alone, ~faulty, ~haunted, cached_account_info = NoAccount, NEW a \in Registered
    PROVE  /\ flash["state"] = {a}
           /\ flash["protocol"] \cup buffer["protocol"] \cup dirty \subseteq {a}
<1>1. a \in flash["state"]
  BY RegisteredIs
<1> QED BY <1>1 DEF Alone

(* A task that has not lost its op sender works for the account served. *)
LEMMA Serves ==
    ASSUME TypeOK, Dispatching, NEW t \in Tasks, ~Haunts(t),
           status[t] \in {"up", "sending", "retrying"}
    PROVE  t = manager_ops /\ account[t] = cached_account_info /\ ~haunted
           /\ cached_account_info # NoAccount
BY WorkerAssumption DEF Haunts, Dispatching

(* Every step keeps the invariant. *)
LEMMA Step == IInv /\ [Next]_vars => IInv'
<1> SUFFICES ASSUME TypeOK, Dispatching, Alone, [Next]_vars PROVE IInv'
  BY DEF IInv
<1> USE WorkerAssumption DEF dispatcherVars, taskVars, storeVars
<1>k. "state" \in Kind /\ "protocol" \in Kind
  BY DEF Kind
<1>1. ASSUME NEW t \in Tasks, boot_load(t) PROVE IInv'
  <2>a. CASE UNCHANGED <<cached_account_info, manager_ops, taskVars>>
    <3>1. TypeOK'
      BY <1>1, <2>a DEF boot_load, TypeOK, Registered, Status
    <3>2. Dispatching'
      BY <1>1, <2>a DEF boot_load, Dispatching
    <3>3. Alone'
      BY <1>1, <2>a DEF boot_load, Alone
    <3> QED BY <3>1, <3>2, <3>3 DEF IInv
  <2>b. ASSUME NEW a \in Registered, cached_account_info' = a, SpawnFor(t, a) PROVE IInv'
    <3>0. a \in Accounts
      BY RegisteredIs, <2>b
    <3>1. TypeOK'
      BY <1>1, <2>b, <3>0, SpawnIs DEF boot_load, TypeOK
    <3>2. Dispatching'
      BY <1>1, <2>b, <3>0, SpawnIs DEF boot_load, Dispatching
    <3>3. Alone'
      BY <1>1, <2>b, <3>0, OnlyRegistered DEF boot_load, Alone, Dispatching
    <3> QED BY <3>1, <3>2, <3>3 DEF IInv
  <2> QED BY <1>1, <2>a, <2>b DEF boot_load
<1>2. CASE forward_ok
  <2>0. manager_ops \in Tasks /\ queue' \in [Tasks -> 0..OpCapacity]
    BY <1>2 DEF forward_ok, TypeOK, Dispatching
  <2>1. TypeOK'
    BY <1>2, <2>0 DEF TypeOK, Status, forward_ok
  <2>2. Dispatching'
    BY <1>2 DEF TypeOK, Dispatching, Status, forward_ok
  <2>3. Alone'
    BY <1>2, <1>k DEF TypeOK, Dispatching, Alone, Kind, forward_ok
  <2> QED BY <2>1, <2>2, <2>3 DEF IInv
<1>3. CASE forward_err
  <2>1. TypeOK'
    BY <1>3 DEF TypeOK, Status, forward_err, DropSender
  <2>2. Dispatching'
    BY <1>3 DEF TypeOK, Dispatching, Status, forward_err, DropSender
  <2>3. Alone'
    BY <1>3, <1>k DEF TypeOK, Dispatching, Alone, Kind, forward_err, DropSender
  <2> QED BY <2>1, <2>2, <2>3 DEF IInv
<1>4. CASE link_err
  <2>1. TypeOK'
    BY <1>4 DEF TypeOK, Status, link_err
  <2>2. Dispatching'
    BY <1>4 DEF TypeOK, Dispatching, Status, link_err
  <2>3. Alone'
    BY <1>4, <1>k DEF TypeOK, Dispatching, Alone, Kind, link_err
  <2> QED BY <2>1, <2>2, <2>3 DEF IInv
<1>5. ASSUME NEW t \in Tasks, link_ok(t) PROVE IInv'
  <2>0. linking \in Accounts /\ SpawnFor(t, linking)
    BY <1>5 DEF link_ok, Dispatching
  <2>1. TypeOK'
    BY <1>5, <2>0, SpawnIs DEF TypeOK, Status, link_ok
  <2>2. Dispatching'
    BY <1>5, <2>0, SpawnIs DEF TypeOK, Dispatching, Status, link_ok
  <2>3. Alone'
    BY <1>5, <1>k, <2>0 DEF TypeOK, Dispatching, Alone, Kind, link_ok
  <2> QED BY <2>1, <2>2, <2>3 DEF IInv
<1>6. ASSUME NEW t \in Tasks, channel_closed(t) PROVE IInv'
  <2>1. TypeOK'
    BY <1>6 DEF TypeOK, Status, channel_closed
  <2>2. Dispatching'
    BY <1>6 DEF TypeOK, Dispatching, Status, channel_closed
  <2>3. Alone'
    BY <1>6, <1>k DEF TypeOK, Dispatching, Alone, Kind, channel_closed
  <2> QED BY <2>1, <2>2, <2>3 DEF IInv
<1>7. ASSUME NEW t \in Tasks, take_send(t) PROVE IInv'
  <2>0. queue' \in [Tasks -> 0..OpCapacity]
    BY <1>7 DEF take_send, TypeOK
  <2>h. haunted' \in BOOLEAN
    BY <1>7, HauntsIs DEF take_send, TypeOK
  <2>s. status' \in [Tasks -> Status] /\ owner' \in Tasks \cup {NoTask}
        /\ {u \in Tasks : status'[u] \in {"sending", "retrying"}} = {owner'} \ {NoTask}
    <3>1. CASE owner = NoTask
      <4>1. owner' = t /\ status' = [status EXCEPT ![t] = "sending"] /\ status \in [Tasks -> Status]
        BY <1>7, <3>1 DEF take_send, TypeOK
      <4>2. \A u \in Tasks : status[u] \notin {"sending", "retrying"}
        BY <3>1 DEF TypeOK
      <4>3. \A u \in Tasks : status'[u] \in {"sending", "retrying"} <=> u = t
        BY <4>1, <4>2
      <4> QED BY <4>1, <4>3 DEF Status
    <3>2. CASE owner # NoTask
      BY <1>7, <3>2 DEF take_send, TypeOK
    <3> QED BY <3>1, <3>2
  <2>a. ~haunted' => ~haunted
    BY <1>7 DEF take_send, Haunts
  <2>1. TypeOK'
    BY <1>7, <2>0, <2>h, <2>s DEF TypeOK, Status, take_send
  <2>2. Dispatching'
    BY <1>7 DEF TypeOK, Dispatching, Status, take_send
  <2>3. Alone'
    BY <1>7, <1>k, <2>a DEF TypeOK, Dispatching, Alone, Kind, take_send
  <2> QED BY <2>1, <2>2, <2>3 DEF IInv
<1>8. ASSUME NEW t \in Tasks, NEW S \in SUBSET Kind, send_ok(t, S) PROVE IInv'
  <2>f. flash' \in [Kind -> SUBSET Accounts]
    BY <1>8, <1>k DEF send_ok, TypeOK
  <2>s. status' \in [Tasks -> Status]
        /\ {u \in Tasks : status'[u] \in {"sending", "retrying"}} = {owner'} \ {NoTask}
    BY <1>8 DEF send_ok, TypeOK, Status
  <2>h. haunted' \in BOOLEAN
    BY <1>8, HauntsIs DEF send_ok, TypeOK
  <2>1. TypeOK'
    BY <1>8, <2>h, <2>f, <2>s DEF TypeOK, Status, send_ok, Nothing
  <2>2. Dispatching'
    BY <1>8 DEF TypeOK, Dispatching, Status, send_ok, Nothing
  <2>3. Alone'
    BY <1>8, <1>k, Serves DEF TypeOK, Dispatching, Alone, Kind, send_ok, Nothing
  <2> QED BY <2>1, <2>2, <2>3 DEF IInv
<1>9. ASSUME NEW t \in Tasks, send_wake(t) PROVE IInv'
  <2>h. haunted' \in BOOLEAN
    BY <1>9, HauntsIs DEF send_wake, TypeOK
  <2>1. TypeOK'
    BY <1>9, <2>h DEF TypeOK, Status, send_wake, Nothing
  <2>2. Dispatching'
    BY <1>9 DEF TypeOK, Dispatching, Status, send_wake, Nothing
  <2>3. Alone'
    BY <1>9, <1>k, Serves DEF TypeOK, Dispatching, Alone, Kind, send_wake, Nothing
  <2> QED BY <2>1, <2>2, <2>3 DEF IInv
<1>10. ASSUME NEW t \in Tasks, send_fails(t) PROVE IInv'
  <2>h. haunted' \in BOOLEAN
    BY <1>10, HauntsIs DEF send_fails, TypeOK
  <2>1. TypeOK'
    BY <1>10, <2>h DEF TypeOK, Status, send_fails, Nothing
  <2>2. Dispatching'
    BY <1>10 DEF TypeOK, Dispatching, Status, send_fails, Nothing
  <2>3. Alone'
    BY <1>10, <1>k, Serves DEF TypeOK, Dispatching, Alone, Kind, send_fails, Nothing
  <2> QED BY <2>1, <2>2, <2>3 DEF IInv
<1>11. ASSUME NEW t \in Tasks, task_exits(t) PROVE IInv'
  <2>1. TypeOK'
    BY <1>11 DEF TypeOK, Status, task_exits
  <2>2. Dispatching'
    BY <1>11 DEF TypeOK, Dispatching, Status, task_exits
  <2>3. Alone'
    BY <1>11, <1>k DEF TypeOK, Dispatching, Alone, Kind, task_exits
  <2> QED BY <2>1, <2>2, <2>3 DEF IInv
<1>12. ASSUME NEW t \in Tasks, receive(t) PROVE IInv'
  <2>0. account[t] \in Accounts
    BY <1>12 DEF receive, Dispatching
  <2>h. haunted' \in BOOLEAN
    BY <1>12, HauntsIs DEF receive, TypeOK
  <2>1. TypeOK'
    BY <1>12, <2>0, <2>h DEF TypeOK, Status, receive
  <2>2. Dispatching'
    BY <1>12 DEF TypeOK, Dispatching, Status, receive
  <2>3. Alone'
    BY <1>12, <1>k, Serves DEF TypeOK, Dispatching, Alone, Kind, receive
  <2> QED BY <2>1, <2>2, <2>3 DEF IInv
<1>13. ASSUME NEW t \in Tasks, receive_queue_empty(t) PROVE IInv'
  <2>h. haunted' \in BOOLEAN
    BY <1>13, HauntsIs DEF receive_queue_empty, TypeOK
  <2>0. flash' \in [Kind -> SUBSET Accounts] /\ buffer' \in [Kind -> SUBSET Accounts]
    BY <1>13, <1>k, PutTypes DEF receive_queue_empty, TypeOK
  <2>1. TypeOK'
    BY <1>13, <2>0, <2>h DEF TypeOK, Status, receive_queue_empty, Put, Merge
  <2>2. Dispatching'
    BY <1>13 DEF TypeOK, Dispatching, Status, receive_queue_empty, Put, Merge
  <2>3. Alone'
    BY <1>13, <1>k, Serves DEF TypeOK, Dispatching, Alone, Kind, receive_queue_empty, Put, Merge
  <2> QED BY <2>1, <2>2, <2>3 DEF IInv
<1>14. ASSUME NEW t \in Tasks, send_writes(t) PROVE IInv'
  <2>0. account[t] \in Accounts
    BY <1>14 DEF send_writes, Dispatching
  <2>h. haunted' \in BOOLEAN
    BY <1>14, HauntsIs DEF send_writes, TypeOK
  <2>1. TypeOK'
    BY <1>14, <2>0, <2>h DEF TypeOK, Status, send_writes
  <2>2. Dispatching'
    BY <1>14 DEF TypeOK, Dispatching, Status, send_writes
  <2>3. Alone'
    BY <1>14, <1>k, Serves DEF TypeOK, Dispatching, Alone, Kind, send_writes
  <2> QED BY <2>1, <2>2, <2>3 DEF IInv
<1>15. ASSUME NEW t \in Tasks, send_retry(t) PROVE IInv'
  <2>1. TypeOK'
    BY <1>15 DEF TypeOK, Status, send_retry
  <2>2. Dispatching'
    BY <1>15 DEF TypeOK, Dispatching, Status, send_retry
  <2>3. Alone'
    BY <1>15, <1>k DEF TypeOK, Dispatching, Alone, Kind, send_retry
  <2> QED BY <2>1, <2>2, <2>3 DEF IInv
<1>16. ASSUME NEW t \in Tasks, get_account_info(t) PROVE IInv'
  <2>a. PICK a \in Registered : cached_account_info' = a
    BY <1>16 DEF get_account_info
  <2>b. a \in Accounts /\ manager_ops = NoTask /\ SpawnFor(t, a)
    BY <1>16, <2>a, RegisteredIs DEF get_account_info, Dispatching
  <2>1. TypeOK'
    BY <1>16, <2>a, <2>b, SpawnIs DEF TypeOK, Status, get_account_info
  <2>2. Dispatching'
    BY <1>16, <2>a, <2>b, SpawnIs DEF TypeOK, Dispatching, Status, get_account_info
  <2>3. Alone'
    BY <1>16, <1>k, <2>a, <2>b, OnlyRegistered
       DEF TypeOK, Dispatching, Alone, Kind, get_account_info
  <2> QED BY <2>1, <2>2, <2>3 DEF IInv
<1>17. ASSUME NEW a \in First(Fresh), NEW failsOpen \in BOOLEAN, link_device(a, failsOpen)
       PROVE  IInv'
  <2>0. a \in Accounts
    BY FirstIsOne DEF Fresh
  <2>1. TypeOK'
    BY <1>17, <2>0 DEF TypeOK, Status, link_device, Wiped, has_account_state
  <2>2. Dispatching'
    BY <1>17, <2>0 DEF TypeOK, Dispatching, Status, link_device, Wiped, has_account_state
  <2>3. Alone'
    BY <1>17, <1>k, <2>0, RegisteredIs
       DEF TypeOK, Dispatching, Alone, Kind, link_device, Wiped, has_account_state
  <2> QED BY <2>1, <2>2, <2>3 DEF IInv
<1>18. ASSUME NEW k \in Kind, link_writes(k) PROVE IInv'
  <2>0. flash' \in [Kind -> SUBSET Accounts] /\ buffer' \in [Kind -> SUBSET Accounts]
    <3>1. {linking} \in SUBSET Accounts
      BY <1>18 DEF link_writes, Dispatching
    <3> QED BY <1>18, <3>1, PutTypes DEF link_writes, TypeOK
  <2>h. haunted' \in BOOLEAN
    BY <1>18 DEF link_writes, TypeOK
  <2>1. TypeOK'
    BY <1>18, <2>0, <2>h DEF TypeOK, Status, link_writes
  <2>2. Dispatching'
    BY <1>18 DEF TypeOK, Dispatching, Status, link_writes
  <2>3. Alone'
    BY <1>18, <1>k DEF TypeOK, Dispatching, Alone, Kind, link_writes, Put, Merge
  <2> QED BY <2>1, <2>2, <2>3 DEF IInv
<1>19. CASE link_cancel
  <2>1. TypeOK'
    BY <1>19 DEF TypeOK, Status, link_cancel
  <2>2. Dispatching'
    BY <1>19 DEF TypeOK, Dispatching, Status, link_cancel
  <2>3. Alone'
    BY <1>19, <1>k DEF TypeOK, Dispatching, Alone, Kind, link_cancel
  <2> QED BY <2>1, <2>2, <2>3 DEF IInv
<1>20. CASE forward
  <2>1. TypeOK'
    BY <1>20 DEF TypeOK, Status, forward
  <2>2. Dispatching'
    BY <1>20 DEF TypeOK, Dispatching, Status, forward
  <2>3. Alone'
    BY <1>20, <1>k DEF TypeOK, Dispatching, Alone, Kind, forward
  <2> QED BY <2>1, <2>2, <2>3 DEF IInv
<1>21. ASSUME NEW S \in SUBSET Kind, logout(S) PROVE IInv'
  <2>1. TypeOK'
    BY <1>21 DEF TypeOK, Status, logout, DropSender, Wiped
  <2>2. Dispatching'
    BY <1>21 DEF TypeOK, Dispatching, Status, logout, DropSender, Wiped
  <2>3. Alone'
    BY <1>21, <1>k DEF TypeOK, Dispatching, Alone, Kind, logout, DropSender, Wiped
  <2> QED BY <2>1, <2>2, <2>3 DEF IInv
<1>22. ASSUME NEW S \in SUBSET Kind, logout_cut(S) PROVE IInv'
  <2>1. TypeOK'
    BY <1>22, LostTypes DEF logout_cut, Wiped, TypeOK
  <2>2. Dispatching'
    BY <1>22 DEF TypeOK, Dispatching, Status, logout_cut, MemoryLost, Wiped, Nothing
  <2>3. Alone'
    BY <1>22, <1>k DEF TypeOK, Dispatching, Alone, Kind, logout_cut, MemoryLost, Wiped, Nothing
  <2> QED BY <2>1, <2>2, <2>3 DEF IInv
<1>23. CASE Reboot
  <2>1. TypeOK'
    BY <1>23, LostTypes DEF Reboot, TypeOK
  <2>2. Dispatching'
    BY <1>23 DEF TypeOK, Dispatching, Status, Reboot, MemoryLost, Nothing
  <2>3. Alone'
    BY <1>23, <1>k DEF TypeOK, Dispatching, Alone, Kind, Reboot, MemoryLost, Nothing
  <2> QED BY <2>1, <2>2, <2>3 DEF IInv
<1>24. CASE UNCHANGED vars
  <2>1. TypeOK'
    BY <1>24 DEF TypeOK, Status, vars
  <2>2. Dispatching'
    BY <1>24 DEF TypeOK, Dispatching, Status, vars
  <2>3. Alone'
    BY <1>24, <1>k DEF TypeOK, Dispatching, Alone, Kind, vars
  <2> QED BY <2>1, <2>2, <2>3 DEF IInv
<1> QED
  BY <1>1, <1>2, <1>3, <1>4, <1>5, <1>6, <1>7, <1>8, <1>9, <1>10, <1>11, <1>12, <1>13, <1>14,
     <1>15, <1>16, <1>17, <1>18, <1>19, <1>20, <1>21, <1>22, <1>23, <1>24
     DEF Next, DispatcherStep, TaskStep

(* The invariant holds in every reachable state. *)
THEOREM Invariance == Spec => []IInv
<1>1. Init => TypeOK
  <2> SUFFICES ASSUME Init PROVE TypeOK
    OBVIOUS
  <2>1. queue \in [Tasks -> 0..OpCapacity]
    BY WorkerAssumption DEF Init
  <2>2. {t \in Tasks : status[t] \in {"sending", "retrying"}} = {owner} \ {NoTask}
    BY DEF Init
  <2> QED BY <2>1, <2>2 DEF Init, TypeOK, Status, Nothing
<1>2. Init => Dispatching /\ Alone
  BY DEF Init, Dispatching, Alone, Nothing, Kind
<1>3. Init => IInv
  BY <1>1, <1>2 DEF IInv
<1> QED BY <1>3, Step, PTL DEF Spec

(* The worker's state has its types, and a batch is open exactly while the *)
(* task that opened it is inside handle_send.                              *)
THEOREM TypeCorrect == Spec => []TypeOK
BY Invariance, PTL DEF IInv

(* As long as no probe failed open, no wipe failed and no let-go task      *)
(* reached the store, the account served shares it with no other.          *)
THEOREM NoMixingHolds == Spec => []NoMixing
<1>1. IInv => NoMixing
  BY RegisteredIs DEF IInv, Alone, NoMixing
<1> QED BY <1>1, Invariance, PTL
=============================================================================
