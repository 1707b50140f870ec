------------------------------- MODULE Worker -------------------------------
(***************************************************************************)
(* The dispatcher of xous-signal-worker/src/lib.rs and what it shares with *)
(* the manager tasks it spawns: one PddbStore, of which every task, the    *)
(* dispatcher and a link under way hold clones.                            *)
(*                                                                         *)
(* Everything runs on one executor thread, so a step runs from one await   *)
(* to the next; Logout's wipe contains no await that waits.  Dropping the  *)
(* op sender only asks a task to end: a task in the middle of a send goes  *)
(* on, with its batch open, and so does what is still in its channel.      *)
(*                                                                         *)
(* Data is reduced to whose it is.  The dictionaries fall into two kinds   *)
(* by how link and the stale-store probe treat them: "state" (the          *)
(* registration) and "protocol".  The latter also stands for the contents  *)
(* dictionaries.  The probe does not list those; but Logout wipes them     *)
(* before the protocol's, so a wipe that leaves contents also leaves       *)
(* protocol keys for the probe to find.  Left out are the messages of the  *)
(* threads, which nothing here reads and Logout does not wipe.             *)
(* What one task does with Signal is ManagerTask's subject, what a commit  *)
(* does to single keys BufferingBackend's.                                 *)
(***************************************************************************)
EXTENDS Naturals

CONSTANTS
    Accounts,   \* bounds the accounts of which something is left at a time
    Tasks,      \* slots for manager tasks alive at the same time
    OpCapacity, \* capacity of an op channel (8 in the code)
    NoAccount,
    NoTask

ASSUME WorkerAssumption ==
    /\ OpCapacity \in Nat \ {0}
    /\ Accounts \subseteq Nat
    /\ Tasks \subseteq Nat
    /\ NoAccount \notin Accounts
    /\ NoTask \notin Tasks

Kind == {"state", "protocol"}

VARIABLES
    pc,         \* where the dispatcher waits
    manager_ops,            \* the task whose op sender the dispatcher holds
    cached_account_info,
    linking,    \* the account of the link under way
    linkWrote,  \* the kinds of data that link has written
    cancelling, \* LinkCancel was sent into the link
    status,     \* what each task is doing
    account,    \* whose Manager each task owns
    queue,      \* sends in each task's op channel
    flash,      \* accounts with durable data, per kind
    buffer,     \* accounts with data in the open batch, per kind
    owner,      \* the task whose BatchGuard is alive
    dirty,      \* accounts with dirty sessions in the shared cache
    faulty,     \* history: a probe failed open or a wipe returned an error
    haunted     \* history: a task without op sender reached the store, or a link met its batch

vars == <<pc, manager_ops, cached_account_info, linking, linkWrote, cancelling, status,
          account, queue, flash, buffer, owner, dirty, faulty, haunted>>

dispatcherVars == <<pc, manager_ops, cached_account_info, linking, linkWrote, cancelling>>
taskVars == <<status, account, queue>>
storeVars == <<flash, buffer, owner, dirty>>

(* "up" is parked or receiving, "retrying" sleeps between two attempts,    *)
(* "dead" has exited by itself while the dispatcher still holds a sender.  *)
Status == {"free", "up", "sending", "retrying", "dead"}

Nothing == [k \in Kind |-> {}]

(* The least element, as a set: names that play no role are handed out in  *)
(* order.                                                                  *)
First(S) == {x \in S : \A y \in S : x <= y}

Init ==
    /\ pc = "boot"
    /\ manager_ops = NoTask
    /\ cached_account_info = NoAccount
    /\ linking = NoAccount
    /\ linkWrote = {}
    /\ cancelling = FALSE
    /\ status = [t \in Tasks |-> "free"]
    /\ account = [t \in Tasks |-> NoAccount]
    /\ queue = [t \in Tasks |-> 0]
    /\ flash = Nothing
    /\ buffer = Nothing
    /\ owner = NoTask
    /\ dirty = {}
    /\ faulty = FALSE
    /\ haunted = FALSE

-----------------------------------------------------------------------------
(* The store.                                                              *)

(* The registration is one key; the other kinds hold one key set each.     *)
Registered == IF buffer["state"] # {} THEN buffer["state"] ELSE flash["state"]

Merge(m, k, S) == [m EXCEPT ![k] = IF k = "state" THEN S ELSE @ \cup S]

(* put through the shared backend: into whatever batch is open. *)
Put(k, S) ==
    /\ flash' = IF owner = NoTask THEN Merge(flash, k, S) ELSE flash
    /\ buffer' = IF owner = NoTask THEN buffer ELSE Merge(buffer, k, S)

has_account_state_registration_only == Registered # {}

has_account_state ==
    \/ Registered # {}
    \/ flash["protocol"] \cup buffer["protocol"] # {}

(* delete_dict of every dictionary of the kinds S. *)
Wiped(m, S) == [k \in Kind |-> IF k \in S THEN {} ELSE m[k]]

(* A task the dispatcher has let go of touches the shared store. *)
Haunts(t) == haunted \/ t # manager_ops

-----------------------------------------------------------------------------
(* Manager tasks.                                                          *)

(* Dropping the sender of the current task and holding that of t, spawned  *)
(* for account a; a task that had died before is gone for good now.        *)
SpawnFor(t, a) ==
    /\ t \in First({u \in Tasks : status[u] = "free"})
    /\ manager_ops' = t
    /\ status' = [u \in Tasks |-> IF u = t THEN "up"
                                  ELSE IF status[u] = "dead" THEN "free" ELSE status[u]]
    /\ account' = [account EXCEPT ![t] = a]
    /\ queue' = [queue EXCEPT ![t] = 0]

DropSender ==
    /\ manager_ops' = NoTask
    /\ status' = [u \in Tasks |-> IF status[u] = "dead" THEN "free" ELSE status[u]]

(* The channel is closed and drained. *)
channel_closed(t) ==
    /\ status[t] = "up"
    /\ t # manager_ops
    /\ queue[t] = 0
    /\ status' = [status EXCEPT ![t] = "free"]
    /\ account' = [account EXCEPT ![t] = NoAccount]
    /\ UNCHANGED <<queue, faulty, haunted>>
    /\ UNCHANGED <<dispatcherVars, storeVars>>

(* Gave up, conflicting device or expired credentials. *)
task_exits(t) ==
    /\ status[t] = "up"
    /\ status' = [status EXCEPT ![t] = IF t = manager_ops THEN "dead" ELSE "free"]
    /\ account' = [account EXCEPT ![t] = NoAccount]
    /\ queue' = [queue EXCEPT ![t] = 0]
    /\ UNCHANGED <<faulty, haunted>>
    /\ UNCHANGED <<dispatcherVars, storeVars>>

(* A received message: presage steps the session.  It cannot be decrypted  *)
(* without the identity key pair in the state dictionary.                  *)
receive(t) ==
    /\ status[t] = "up"
    /\ Registered # {}
    /\ dirty' = dirty \cup {account[t]}
    /\ haunted' = Haunts(t)
    /\ UNCHANGED <<flash, buffer, owner, faulty>>
    /\ UNCHANGED <<dispatcherVars, taskVars>>

(* QueueEmpty: flush_sessions; on error the dirty set stays. *)
receive_queue_empty(t) ==
    /\ status[t] = "up"
    /\ dirty # {}
    /\ Put("protocol", dirty)
    /\ dirty' = {}
    /\ haunted' = Haunts(t)
    /\ UNCHANGED <<owner, faulty>>
    /\ UNCHANGED <<dispatcherVars, taskVars>>

(* handle_send starts: begin_send_batch, or its refusal reported. *)
take_send(t) ==
    /\ status[t] = "up"
    /\ queue[t] > 0
    /\ queue' = [queue EXCEPT ![t] = @ - 1]
    /\ \/ /\ owner = NoTask
          /\ owner' = t
          /\ status' = [status EXCEPT ![t] = "sending"]
          /\ haunted' = Haunts(t)
       \/ /\ owner # NoTask
          /\ UNCHANGED <<owner, status, haunted>>
    /\ UNCHANGED <<account, flash, buffer, dirty, faulty>>
    /\ UNCHANGED dispatcherVars

(* send_message encrypts: sessions and identities are written, which takes *)
(* the identity key pair in the state dictionary.                          *)
send_writes(t) ==
    /\ status[t] = "sending"
    /\ Registered # {}
    /\ buffer' = [buffer EXCEPT !["protocol"] = @ \cup {account[t]}]
    /\ dirty' = dirty \cup {account[t]}
    /\ haunted' = Haunts(t)
    /\ UNCHANGED <<flash, owner, faulty>>
    /\ UNCHANGED <<dispatcherVars, taskVars>>

(* The message went out and send_message has stored it: flush_sessions     *)
(* into the batch, then commit; S are the kinds whose writes a failing     *)
(* commit, only logged, did not replay.                                    *)
send_ok(t, S) ==
    LET full == [buffer EXCEPT !["protocol"] = @ \cup dirty]
    IN  /\ status[t] = "sending"
        /\ flash' = [k \in Kind |-> IF k \in S THEN flash[k]
                                    ELSE IF k = "state" /\ full[k] # {} THEN full[k]
                                    ELSE flash[k] \cup full[k]]
        /\ buffer' = Nothing
        /\ owner' = NoTask
        /\ dirty' = {}
        /\ status' = [status EXCEPT ![t] = "up"]
        /\ haunted' = Haunts(t)
        /\ UNCHANGED <<account, queue, faulty>>
        /\ UNCHANGED dispatcherVars

(* "websocket closing": sleep with the guard of this attempt still alive. *)
send_retry(t) ==
    /\ status[t] = "sending"
    /\ status' = [status EXCEPT ![t] = "retrying"]
    /\ UNCHANGED <<account, queue, faulty, haunted>>
    /\ UNCHANGED <<dispatcherVars, storeVars>>

(* The guard is dropped, aborting the batch, and the next attempt begins   *)
(* one with no await in between.                                           *)
send_wake(t) ==
    /\ status[t] = "retrying"
    /\ status' = [status EXCEPT ![t] = "sending"]
    /\ buffer' = Nothing
    /\ haunted' = Haunts(t)
    /\ UNCHANGED <<account, queue, flash, owner, dirty, faulty>>
    /\ UNCHANGED dispatcherVars

send_fails_leaking_guard(t) ==
    /\ status[t] = "sending"
    /\ status' = [status EXCEPT ![t] = "up"]
    /\ UNCHANGED <<account, queue, faulty, haunted>>
    /\ UNCHANGED <<dispatcherVars, storeVars>>

(* SendError or deferral: the guard is dropped, the dirty sessions stay. *)
send_fails(t) ==
    /\ status[t] = "sending"
    /\ status' = [status EXCEPT ![t] = "up"]
    /\ buffer' = Nothing
    /\ owner' = NoTask
    /\ haunted' = Haunts(t)
    /\ UNCHANGED <<account, queue, flash, dirty, faulty>>
    /\ UNCHANGED dispatcherVars

-----------------------------------------------------------------------------
(* The dispatcher.                                                         *)

(* Startup: load_registered.  Without a registration, or after ten         *)
(* transient errors, the dispatcher starts unlinked.                       *)
boot_load(t) ==
    /\ pc = "boot"
    /\ pc' = "idle"
    /\ \/ \E a \in Registered :
            /\ cached_account_info' = a
            /\ SpawnFor(t, a)
       \/ UNCHANGED <<cached_account_info, manager_ops, taskVars>>
    /\ UNCHANGED <<linking, linkWrote, cancelling, faulty, haunted>>
    /\ UNCHANGED storeVars

(* Cmd::LinkDevice past the stale-store guard: the probe found nothing, or *)
(* could not read and failed open.  link_secondary_device then clears the  *)
(* registration.  A refused link changes nothing.                          *)
link_device(a, failsOpen) ==
    /\ pc = "idle"
    /\ ~has_account_state \/ failsOpen
    /\ pc' = "linking"
    /\ linking' = a
    /\ linkWrote' = {}
    /\ flash' = Wiped(flash, {"state"})
    /\ buffer' = Wiped(buffer, {"state"})
    /\ faulty' = (faulty \/ failsOpen)
    /\ UNCHANGED <<manager_ops, cached_account_info, cancelling, owner, dirty, haunted>>
    /\ UNCHANGED taskVars

(* link_secondary_device, external, writes the new keys and the            *)
(* registration in calls of their own, with awaits between; no order is    *)
(* assumed.                                                                *)
link_writes(k) ==
    /\ pc = "linking"
    /\ k \notin linkWrote
    /\ linkWrote' = linkWrote \cup {k}
    /\ Put(k, {linking})
    /\ haunted' = (haunted \/ owner # NoTask)
    /\ UNCHANGED <<pc, manager_ops, cached_account_info, linking, cancelling, owner, dirty,
                   faulty>>
    /\ UNCHANGED taskVars

(* LinkComplete; a cancel that comes too late changes nothing. *)
link_ok(t) ==
    /\ pc = "linking"
    /\ linkWrote = Kind
    /\ pc' = "idle"
    /\ cached_account_info' = linking
    /\ SpawnFor(t, linking)
    /\ linking' = NoAccount
    /\ linkWrote' = {}
    /\ cancelling' = FALSE
    /\ UNCHANGED <<faulty, haunted>>
    /\ UNCHANGED storeVars

(* LinkError, cancelled or not: what was written stays. *)
link_err ==
    /\ pc = "linking"
    /\ pc' = "idle"
    /\ linking' = NoAccount
    /\ linkWrote' = {}
    /\ cancelling' = FALSE
    /\ UNCHANGED <<manager_ops, cached_account_info, faulty, haunted>>
    /\ UNCHANGED <<taskVars, storeVars>>

(* Cmd::LinkCancel; any other command during a link is dropped. *)
link_cancel ==
    /\ pc = "linking"
    /\ cancelling' = TRUE
    /\ UNCHANGED <<pc, manager_ops, cached_account_info, linking, linkWrote, faulty, haunted>>
    /\ UNCHANGED <<taskVars, storeVars>>

(* Cmd::GetAccountInfo on a cache miss; a hit only answers. *)
get_account_info(t) ==
    /\ pc = "idle"
    /\ cached_account_info = NoAccount
    /\ \E a \in Registered :
        /\ cached_account_info' = a
        /\ \/ manager_ops = NoTask /\ SpawnFor(t, a)
           \/ manager_ops # NoTask /\ UNCHANGED <<manager_ops, taskVars>>
    /\ UNCHANGED <<pc, linking, linkWrote, cancelling, faulty, haunted>>
    /\ UNCHANGED storeVars

(* A command for the Manager: ops.send(..).await. *)
forward ==
    /\ pc = "idle"
    /\ manager_ops # NoTask
    /\ pc' = "forwarding"
    /\ UNCHANGED <<manager_ops, cached_account_info, linking, linkWrote, cancelling,
                   faulty, haunted>>
    /\ UNCHANGED <<taskVars, storeVars>>

forward_ok ==
    /\ pc = "forwarding"
    /\ status[manager_ops] # "dead"
    /\ queue[manager_ops] < OpCapacity
    /\ queue' = [queue EXCEPT ![manager_ops] = @ + 1]
    /\ pc' = "idle"
    /\ UNCHANGED <<manager_ops, cached_account_info, linking, linkWrote, cancelling, status,
                   account, faulty, haunted>>
    /\ UNCHANGED storeVars

forward_err_waiting ==
    /\ pc = "forwarding"
    /\ status[manager_ops] = "dead"
    /\ UNCHANGED vars

(* The receiver is gone: "manager task died". *)
forward_err ==
    /\ pc = "forwarding"
    /\ status[manager_ops] = "dead"
    /\ DropSender
    /\ pc' = "idle"
    /\ UNCHANGED <<cached_account_info, linking, linkWrote, cancelling, account, queue,
                   faulty, haunted>>
    /\ UNCHANGED storeVars

(* Cmd::Logout: the sender is dropped, then clear_registration and         *)
(* Store::clear, whose errors are only logged; S is what they wiped, in    *)
(* order up to the first error.  The session cache is emptied only when    *)
(* all of clear succeeds.                                                  *)
logout(S) ==
    /\ pc = "idle"
    /\ S \in {{}, {"state"}, {"state", "protocol"}}
    /\ DropSender
    /\ cached_account_info' = NoAccount
    /\ flash' = Wiped(flash, S)
    /\ buffer' = Wiped(buffer, S)
    /\ \/ /\ S = {"state", "protocol"}
          /\ dirty' = {}
          /\ UNCHANGED faulty
       \/ /\ faulty' = TRUE
          /\ UNCHANGED dirty
    /\ UNCHANGED <<pc, linking, linkWrote, cancelling, account, queue, owner, haunted>>

(* Only flash survives. *)
MemoryLost ==
    /\ pc' = "boot"
    /\ manager_ops' = NoTask
    /\ cached_account_info' = NoAccount
    /\ linking' = NoAccount
    /\ linkWrote' = {}
    /\ cancelling' = FALSE
    /\ status' = [t \in Tasks |-> "free"]
    /\ account' = [t \in Tasks |-> NoAccount]
    /\ queue' = [t \in Tasks |-> 0]
    /\ buffer' = Nothing
    /\ owner' = NoTask
    /\ dirty' = {}
    /\ UNCHANGED <<faulty, haunted>>

(* Power loss, process death, or Shutdown, after which no task is polled. *)
Reboot == MemoryLost /\ UNCHANGED flash

(* Power lost in the middle of Logout's wipe. *)
logout_cut(S) ==
    /\ pc = "idle"
    /\ S \in {{"state"}, {"state", "protocol"}}
    /\ flash' = Wiped(flash, S)
    /\ MemoryLost

-----------------------------------------------------------------------------
(* Accounts nothing is left of and nobody works for: the next link takes   *)
(* the first of them, as a spawn takes the first free slot.                *)
Fresh ==
    Accounts \ (dirty \cup {account[t] : t \in Tasks}
                \cup UNION {flash[k] \cup buffer[k] : k \in Kind})

TaskStep(t) ==
    \/ channel_closed(t)
    \/ take_send(t)
    \/ \E S \in SUBSET Kind : send_ok(t, S)
    \/ send_wake(t)
    \/ send_fails(t)

DispatcherStep ==
    \/ \E t \in Tasks : boot_load(t)
    \/ forward_ok
    \/ forward_err
    \/ cancelling /\ (link_err \/ \E t \in Tasks : link_ok(t))

Next ==
    \/ DispatcherStep
    \/ \E t \in Tasks : \/ TaskStep(t)
                        \/ task_exits(t)
                        \/ receive(t)
                        \/ receive_queue_empty(t)
                        \/ send_writes(t)
                        \/ send_retry(t)
                        \/ link_ok(t)
                        \/ get_account_info(t)
    \/ \E a \in First(Fresh) : \E failsOpen \in BOOLEAN : link_device(a, failsOpen)
    \/ \E k \in Kind : link_writes(k)
    \/ link_err
    \/ link_cancel
    \/ forward
    \/ \E S \in SUBSET Kind : logout(S) \/ logout_cut(S)
    \/ Reboot

(* Fairness: the executor polls every ready task and the dispatcher;       *)
(* attempts end, because the number of retries and the sleeps between them *)
(* are bounded (send_ok and send_fails taken if the task keeps trying).    *)
Fairness ==
    /\ WF_vars(DispatcherStep)
    /\ \A t \in Tasks :
        /\ WF_vars(TaskStep(t))
        /\ SF_vars(send_fails(t) \/ \E S \in SUBSET Kind : send_ok(t, S))
        /\ SF_vars(take_send(t))

Spec == Init /\ [][Next]_vars /\ Fairness

-----------------------------------------------------------------------------
(* Properties.                                                             *)

(* The types of the worker's state; a batch is open exactly while the task *)
(* that opened it is inside handle_send.                                   *)
TypeOK ==
    /\ pc \in {"boot", "idle", "linking", "forwarding"}
    /\ manager_ops \in Tasks \cup {NoTask}
    /\ cached_account_info \in Accounts \cup {NoAccount}
    /\ linking \in Accounts \cup {NoAccount}
    /\ linkWrote \subseteq Kind
    /\ cancelling \in BOOLEAN
    /\ status \in [Tasks -> Status]
    /\ account \in [Tasks -> Accounts \cup {NoAccount}]
    /\ queue \in [Tasks -> 0..OpCapacity]
    /\ flash \in [Kind -> SUBSET Accounts]
    /\ buffer \in [Kind -> SUBSET Accounts]
    /\ owner \in Tasks \cup {NoTask}
    /\ {t \in Tasks : status[t] \in {"sending", "retrying"}} = {owner} \ {NoTask}
    /\ dirty \subseteq Accounts
    /\ faulty \in BOOLEAN
    /\ haunted \in BOOLEAN

(* Accounts do not mix: as long as the stale-store probe worked, no wipe   *)
(* returned an error and no task that had lost its op sender reached the   *)
(* store, the account the worker runs shares the registration, the         *)
(* protocol dictionaries, the batch and the session cache with no other,   *)
(* through power losses during a wipe, cancelled links and dead tasks; and *)
(* what the next boot loads from flash is the account the UI is shown.     *)
NoMixing ==
    ~faulty /\ ~haunted /\ cached_account_info # NoAccount =>
        /\ flash["protocol"] \cup buffer["protocol"] \cup dirty \cup Registered
            \subseteq {cached_account_info}
        /\ flash["state"] = {cached_account_info}

(* An open batch is closed again: handle_send, zombie or not, never leaves *)
(* the shared backend diverting writes for good.                           *)
BatchCloses == owner # NoTask ~> owner = NoTask

(* The dispatcher comes back to its command loop from a full op channel,   *)
(* from a dead manager task and from a cancelled link.                     *)
DispatcherReturns == pc = "forwarding" \/ cancelling ~> pc \in {"idle", "boot"}

(* handle_link_device's documentation: on success the registration has     *)
(* been written to the store.  Stated for runs where no probe and no wipe  *)
(* failed.                                                                 *)
LinkedIsRegistered ==
    ~faulty /\ cached_account_info # NoAccount =>
        flash["state"] = {cached_account_info}
=============================================================================
