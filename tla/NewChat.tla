------------------------------ MODULE NewChat ------------------------------
(***************************************************************************)
(* New chat by username: the UI of xous-app-signal/src/gam_app.rs asks,    *)
(* the dispatcher of xous-signal-worker/src/lib.rs forwards to the manager *)
(* task it holds, the task answers, each in its own time.  A task that was *)
(* let go by a logout or replaced by a link still answers what is in its   *)
(* op channel; an answer carries no name, and the UI knows only that it is *)
(* waiting.                                                                *)
(*                                                                         *)
(* A name stands for the contact it belongs to.  Of the worker only what   *)
(* decides the fate of a lookup is kept (ManagerTask and Worker have the   *)
(* rest), of the screens only the thread a lookup opened: Home, where F1   *)
(* asks, can be reached from every other screen, linked or not.  One       *)
(* lookup at a time leaves room in the op channel.                         *)
(***************************************************************************)
EXTENDS Naturals, SequencesExt

CONSTANTS
    Names,      \* usernames
    NoName,
    MaxLinks,   \* bound of the model: tasks spawned, one after the other
    MaxCmds,    \* CHAN_CAP (16) of the command channel
    MaxEvents   \* bound of the model: events on their way to the UI

ASSUME NewChatAssumption ==
    /\ NoName \notin Names
    /\ Names \cap {"Logout", "LinkDevice"} = {}    \* a WorkerCmd is a lookup or it is not
    /\ {MaxLinks, MaxCmds, MaxEvents} \subseteq Nat \ {0}

VARIABLES
    username_lookup_in_progress,
    username_lookup_pending,
    chat,           \* the thread a lookup opened
    cmds,           \* UI to dispatcher: names, "Logout", "LinkDevice"
    events,         \* worker to UI
    linking,        \* the dispatcher waits for a link
    manager_ops,    \* the task it holds the op sender of; 0 is None
    tasks,          \* every task so far: is it running, its op channel
    asked,          \* history: a lookup was asked for since the last reset
    dropped,        \* history: a lookup the UI has dropped may still be answered
    lost            \* history: a lookup was dropped since the last was asked

uiVars == <<username_lookup_in_progress, username_lookup_pending, chat, asked, dropped>>
workerVars == <<linking, manager_ops, tasks>>
vars == <<uiVars, cmds, events, workerVars, lost>>

NoChat == [with |-> NoName, label |-> NoName, late |-> FALSE]
NewTask == [running |-> TRUE, ops |-> <<>>]

Answer(name, found) == [kind |-> "resolved", name |-> name, found |-> found]
Reset == [kind |-> "reset"]     \* LoggedOut, SignalAuthExpired, SignalConflictingDevice

Init ==
    /\ username_lookup_in_progress = FALSE
    /\ username_lookup_pending = NoName
    /\ chat = NoChat
    /\ cmds = <<>>
    /\ events = <<>>
    /\ linking = FALSE
    /\ manager_ops = 1
    /\ tasks = <<NewTask>>
    /\ asked = FALSE
    /\ dropped = FALSE
    /\ lost = FALSE

-----------------------------------------------------------------------------
(* gam_app.rs: keys.                                                       *)

SendCmd(c) ==
    /\ Len(cmds) < MaxCmds
    /\ cmds' = Append(cmds, c)

(* A lookup is with the dispatcher, in a task's channel, or answered. *)
InFlight ==
    \/ \E i \in DOMAIN cmds : cmds[i] \in Names
    \/ \E k \in DOMAIN tasks : tasks[k].ops # <<>>
    \/ \E i \in DOMAIN events : events[i] # Reset

(* "Already looking up a username; please wait." *)
drive_new_chat(name) ==
    /\ ~username_lookup_in_progress
    /\ chat = NoChat
    /\ SendCmd(name)
    /\ username_lookup_in_progress' = TRUE
    /\ username_lookup_pending' = name
    /\ asked' = TRUE
    /\ dropped' = (dropped /\ InFlight)
    /\ lost' = FALSE
    /\ UNCHANGED <<chat, events, workerVars>>

(* Logout or Wipe, and Link. *)
drive(c) ==
    /\ c \notin ToSet(cmds)
    /\ SendCmd(c)
    /\ UNCHANGED <<uiVars, events, workerVars, lost>>

close_thread ==
    /\ chat # NoChat
    /\ chat' = NoChat
    /\ UNCHANGED <<username_lookup_in_progress, username_lookup_pending, asked, dropped>>
    /\ UNCHANGED <<cmds, events, workerVars, lost>>

-----------------------------------------------------------------------------
(* gam_app.rs: worker events.                                              *)

(* What is not found leaves a banner, and the name where it was. *)
handle_username_resolve_result(a) ==
    \/ /\ ~username_lookup_in_progress
       /\ UNCHANGED uiVars
    \/ /\ username_lookup_in_progress
       /\ username_lookup_in_progress' = FALSE
       /\ IF a.found
          THEN /\ chat' = [with |-> a.name, label |-> username_lookup_pending,
                           late |-> dropped]
               /\ username_lookup_pending' = NoName
          ELSE UNCHANGED <<chat, username_lookup_pending>>
       /\ UNCHANGED <<asked, dropped>>

reset_to_unlinked_still_waiting ==
    /\ chat' = NoChat
    /\ asked' = FALSE
    /\ dropped' = (dropped \/ username_lookup_in_progress)
    /\ UNCHANGED <<username_lookup_in_progress, username_lookup_pending>>

reset_to_unlinked ==
    /\ chat' = NoChat
    /\ asked' = FALSE
    /\ dropped' = (dropped \/ username_lookup_in_progress)
    /\ username_lookup_in_progress' = FALSE
    /\ username_lookup_pending' = NoName

handle_worker_event ==
    /\ events # <<>>
    /\ events' = Tail(events)
    /\ \/ Head(events) # Reset /\ handle_username_resolve_result(Head(events))
       \/ Head(events) = Reset /\ reset_to_unlinked
    /\ UNCHANGED <<cmds, workerVars, lost>>

-----------------------------------------------------------------------------
(* The dispatcher.                                                         *)

Emits(e) ==
    /\ Len(events) < MaxEvents
    /\ events' = Append(events, e)

resolve_forwarded(name) ==
    /\ manager_ops # 0
    /\ tasks[manager_ops].running
    /\ tasks' = [tasks EXCEPT ![manager_ops].ops = Append(@, name)]
    /\ UNCHANGED <<events, linking, manager_ops, lost>>

resolve_died_silent(name) ==
    /\ manager_ops # 0
    /\ ~tasks[manager_ops].running
    /\ manager_ops' = 0
    /\ UNCHANGED <<events, linking, tasks, lost>>

(* "manager task died": the first send it fails drops manager_ops. *)
resolve_died(name) ==
    /\ manager_ops # 0
    /\ ~tasks[manager_ops].running
    /\ manager_ops' = 0
    /\ Emits(Answer(name, FALSE))
    /\ UNCHANGED <<linking, tasks, lost>>

(* "not linked yet". *)
resolve_unlinked(name) ==
    /\ manager_ops = 0
    /\ Emits(Answer(name, FALSE))
    /\ UNCHANGED <<workerVars, lost>>

resolve_username(name) ==
    \/ resolve_forwarded(name)
    \/ resolve_died(name)
    \/ resolve_unlinked(name)

logout ==
    /\ manager_ops' = 0
    /\ Emits(Reset)
    /\ UNCHANGED <<linking, tasks, lost>>

(* Refused (StaleStoreDetected, no event of this module), or started. *)
link_device ==
    /\ linking' \in BOOLEAN
    /\ UNCHANGED <<events, manager_ops, tasks, lost>>

(* While a link is in flight every command but LinkCancel is dropped. *)
cmd_dropped ==
    /\ linking
    /\ lost' = (lost \/ Head(cmds) \in Names)
    /\ UNCHANGED <<events, workerVars>>

dispatch ==
    /\ cmds # <<>>
    /\ cmds' = Tail(cmds)
    /\ \/ cmd_dropped
       \/ /\ ~linking
          /\ \/ Head(cmds) \in Names /\ resolve_username(Head(cmds))
             \/ Head(cmds) = "Logout" /\ logout
             \/ Head(cmds) = "LinkDevice" /\ link_device
    /\ UNCHANGED uiVars

(* A new task takes the place of the one held, if any; or LinkError. *)
link_ends ==
    /\ linking
    /\ linking' = FALSE
    /\ \/ /\ Len(tasks) < MaxLinks
          /\ tasks' = Append(tasks, NewTask)
          /\ manager_ops' = Len(tasks) + 1
       \/ UNCHANGED <<manager_ops, tasks>>
    /\ UNCHANGED <<uiVars, cmds, events, lost>>

-----------------------------------------------------------------------------
(* The manager tasks, held or let go.                                      *)

handle_resolve_username(k) ==
    /\ tasks[k].running
    /\ tasks[k].ops # <<>>
    /\ tasks' = [tasks EXCEPT ![k].ops = Tail(@)]
    /\ \E found \in BOOLEAN : Emits(Answer(Head(tasks[k].ops), found))
    /\ UNCHANGED <<uiVars, cmds, linking, manager_ops, lost>>

Exits(k) ==
    /\ tasks[k].running
    /\ tasks' = [tasks EXCEPT ![k] = [running |-> FALSE, ops |-> <<>>]]
    /\ lost' = (lost \/ tasks[k].ops # <<>>)
    /\ UNCHANGED <<uiVars, cmds, linking, manager_ops>>

(* The server has closed the socket with 4401 or 4409. *)
task_rejected(k) == Exits(k) /\ Emits(Reset)

(* The retry budget of the receive loop is spent: a banner. *)
task_gives_up(k) == Exits(k) /\ UNCHANGED events

-----------------------------------------------------------------------------

Ui ==
    \/ \E name \in Names : drive_new_chat(name)
    \/ \E c \in {"Logout", "LinkDevice"} : drive(c)
    \/ close_thread

Next ==
    \/ Ui
    \/ handle_worker_event
    \/ dispatch
    \/ link_ends
    \/ \E k \in DOMAIN tasks :
        handle_resolve_username(k) \/ task_rejected(k) \/ task_gives_up(k)

(* The main loop wakes for every event, the dispatcher for every command;   *)
(* a link ends and a lookup returns.  The user and the exits owe nothing.   *)
Spec ==
    /\ Init
    /\ [][Next]_vars
    /\ WF_vars(handle_worker_event)
    /\ WF_vars(dispatch)
    /\ WF_vars(link_ends)
    /\ \A k \in 1 .. MaxLinks : WF_vars(k \in DOMAIN tasks /\ handle_resolve_username(k))

-----------------------------------------------------------------------------

(* A thread opens for the contact that was asked for, under the name that   *)
(* was typed, and never by an answer to a lookup that a reset has dropped:  *)
(* no order of lookups, logouts, links, exits and their late answers opens  *)
(* one the user has not asked for ("Suppresses concurrent lookups",         *)
(* gam_app.rs:300-304; the comment of reset_to_unlinked, 325-329).  The one *)
(* exception: a reset drops a lookup without recalling it, and its answer   *)
(* may be taken for that of a lookup asked for meanwhile.                   *)
ChatIsTheOneAskedFor ==
    chat # NoChat => asked /\ (chat.with = chat.label \/ chat.late)

(* A lookup ends: the task answers it, the dispatcher answers for a task    *)
(* that died or was never there, or a reset drops it.  The exceptions, in   *)
(* which "please wait" stays until the next reset: a task exits with the    *)
(* lookup in its channel, or the command is dropped because a link is in    *)
(* flight.                                                                  *)
LookupEnds == username_lookup_in_progress ~> ~username_lookup_in_progress \/ lost
=============================================================================
