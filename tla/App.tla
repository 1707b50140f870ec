-------------------------------- MODULE App --------------------------------
(***************************************************************************)
(* The screens of xous-app-signal/src/gam_app.rs and the worker they talk  *)
(* to over the command and the event channel: what the user is shown       *)
(* against what the dispatcher of xous-signal-worker/src/lib.rs is doing.  *)
(*                                                                         *)
(* A step of the UI is one key, one focus change or one worker event: the  *)
(* main loop handles them one at a time.  A dialog or notification of a    *)
(* key is part of the key's step; one that an event opens blocks the loop  *)
(* until a key dismisses it (modal).  Only commands and events that move a *)
(* screen are kept: those of the link, account, wipe and username flows    *)
(* (NewChat has the last one's names).  The others are answered by banners *)
(* and message rows, MessageStore's subject.  What is drawn is left out.   *)
(* The worker lives as long as the app, so a send on the command channel   *)
(* never fails.                                                            *)
(***************************************************************************)
EXTENDS Naturals, SequencesExt

CONSTANTS
    MaxCmds,    \* CHAN_CAP (16) of the command channel
    MaxEvents,  \* bound of the model: events on their way to the UI, which the
                \* forwarder thread collects without a bound
    MaxLookups  \* bound of the model: lookups on their way to an answer, at most one

ASSUME AppAssumption ==
    /\ MaxCmds \in Nat \ {0}
    /\ MaxEvents \in Nat \ {0}
    /\ MaxLookups \in {0, 1}

Screen == {"Menu", "About", "Linking", "Wiping", "Linked", "Home", "Thread", "Settings",
           "Profile", "Help", "NoInternet Link", "NoInternet Home"}
MenuItem == {"Link", "About", "Help", "WipeSettings"}

Cmd == {"LinkDevice", "LinkCancel", "GetAccountInfo", "Logout", "ResolveUsername"}
Event == {"LinkUrl", "LinkComplete", "LinkError", "StaleStoreDetected",
          "AccountInfo Ok", "AccountInfo Err", "LoggedOut", "SignalAuthExpired",
          "UsernameResolveResult"}

VARIABLES
    screen,
    selected,               \* the cursor of the Menu
    linked,
    linking_in_progress,
    account_known,          \* account_aci is Some
    username_lookup_in_progress,
    modal,                  \* a notification blocks the main loop until a key
    cmds,                   \* the command channel
    events,                 \* the event channel and the forwarder's deque
    worker,                 \* where the dispatcher waits
    store,                  \* what the PDDB holds of an account
    cached,                 \* the dispatcher's cached_account_info is Some
    task,                   \* the manager task behind manager_ops
    ghost,                  \* a task whose op sender was dropped has not ended yet
    looking_up,             \* a task that runs was given a lookup
    expired,                \* history: the cached account was rejected by the server
    haunted                 \* history: a task expired after its op sender was dropped

lookupVars == <<username_lookup_in_progress, modal>>
uiVars == <<screen, selected, linked, linking_in_progress, account_known, lookupVars>>
workerVars == <<worker, store, cached, task, ghost, looking_up>>
historyVars == <<expired, haunted>>
vars == <<uiVars, cmds, events, workerVars, historyVars>>

Init ==
    /\ screen = "Menu"
    /\ selected = "Link"
    /\ linked = FALSE
    /\ linking_in_progress = FALSE
    /\ account_known = FALSE
    /\ username_lookup_in_progress = FALSE
    /\ modal = FALSE
    /\ cmds = <<>>
    /\ events = <<>>
    /\ worker = "boot"
    /\ store \in {"empty", "leftovers", "registered"}
    /\ cached = FALSE
    /\ task = "none"
    /\ ghost = FALSE
    /\ looking_up = FALSE
    /\ expired = FALSE
    /\ haunted = FALSE

-----------------------------------------------------------------------------
(* Keys.                                                                   *)

(* cmd_tx.send_blocking: the UI waits while the channel is full. *)
SendCmd(c) ==
    /\ Len(cmds) < MaxCmds
    /\ cmds' = Append(cmds, c)

Show(s) == screen' = s

menu_items == IF linked THEN {"About", "Help"} ELSE MenuItem

move_cursor(item) ==
    /\ screen = "Menu"
    /\ item \in menu_items
    /\ selected' = item
    /\ UNCHANGED <<screen, linked, linking_in_progress, account_known>>
    /\ UNCHANGED <<lookupVars, cmds, events, workerVars, historyVars>>

(* The link is asked for, or the device-name dialog fails. *)
drive_link ==
    \/ /\ Show("Linking")
       /\ linking_in_progress' = TRUE
       /\ SendCmd("LinkDevice")
    \/ /\ Show("Linked")
       /\ UNCHANGED <<linking_in_progress, cmds>>

(* Declined, or the wipe is asked for. *)
drive_wipe_settings ==
    \/ Show("Wiping") /\ SendCmd("Logout")
    \/ UNCHANGED <<screen, cmds>>

(* Enter on the Menu; a link first checks for a network. *)
menu_enter ==
    /\ screen = "Menu"
    /\ \/ selected = "Link" /\ drive_link
       \/ selected = "Link" /\ Show("NoInternet Link") /\ UNCHANGED <<linking_in_progress, cmds>>
       \/ /\ selected \in {"About", "Help"}
          /\ Show(selected)
          /\ UNCHANGED <<linking_in_progress, cmds>>
       \/ selected = "WipeSettings" /\ drive_wipe_settings /\ UNCHANGED linking_in_progress
    /\ UNCHANGED <<selected, linked, account_known>>
    /\ UNCHANGED <<lookupVars, events, workerVars, historyVars>>

(* Keys that only change the screen: Enter, Esc, Menu and F1 to F4. *)
Targets ==
    CASE screen = "About"    -> {IF linked THEN "Home" ELSE "Menu"}
      [] screen = "Home"     -> {"Thread", "Settings", "Help"}
      [] screen = "Thread"   -> {"Home", "Settings", "Help"}
      [] screen = "Settings" -> {"Home", "Help", "About"}
      [] screen = "Profile"  -> {"Settings"}
      [] screen = "Help"     -> {"Home"}
      [] OTHER               -> {}

navigate ==
    /\ \E s \in Targets : Show(s)
    /\ UNCHANGED <<selected, linked, linking_in_progress, account_known>>
    /\ UNCHANGED <<lookupVars, cmds, events, workerVars, historyVars>>

menu_esc ==
    /\ screen = "Menu"
    /\ linked
    /\ Show("Home")
    /\ selected' = "About"
    /\ UNCHANGED <<linked, linking_in_progress, account_known>>
    /\ UNCHANGED <<lookupVars, cmds, events, workerVars, historyVars>>

linked_enter ==
    /\ screen = "Linked"
    /\ \/ linked /\ screen' \in {"Home", "NoInternet Home"} /\ UNCHANGED selected
       \/ ~linked /\ Show("Menu") /\ selected' = "Link"
    /\ UNCHANGED <<linked, linking_in_progress, account_known>>
    /\ UNCHANGED <<lookupVars, cmds, events, workerVars, historyVars>>

(* Enter retries the check, and goes on if there is a network now. *)
no_internet_enter ==
    /\ \/ screen = "NoInternet Link" /\ drive_link
       \/ screen = "NoInternet Home" /\ Show("Home") /\ UNCHANGED <<linking_in_progress, cmds>>
    /\ UNCHANGED <<selected, linked, account_known>>
    /\ UNCHANGED <<lookupVars, events, workerVars, historyVars>>

no_internet_esc ==
    /\ screen \in {"NoInternet Link", "NoInternet Home"}
    /\ Show(IF linked THEN "Home" ELSE "Menu")
    /\ selected' = "Link"
    /\ UNCHANGED <<linked, linking_in_progress, account_known>>
    /\ UNCHANGED <<lookupVars, cmds, events, workerVars, historyVars>>

linking_esc ==
    /\ screen = "Linking"
    /\ SendCmd("LinkCancel")
    /\ linking_in_progress' = FALSE
    /\ Show("Menu")
    /\ selected' = "Link"
    /\ UNCHANGED <<linked, account_known>>
    /\ UNCHANGED <<lookupVars, events, workerVars, historyVars>>

(* A second lookup on its way, after a reset has dropped the first, is      *)
(* NewChat's subject.                                                       *)
MayLookUp == MaxLookups = 1 /\ ~looking_up /\ "ResolveUsername" \notin ToSet(cmds)

(* F1 on Home with a username; a UUID opens its thread, other input only a  *)
(* notification.                                                            *)
drive_new_chat ==
    /\ screen = "Home"
    /\ ~username_lookup_in_progress
    /\ MayLookUp
    /\ SendCmd("ResolveUsername")
    /\ username_lookup_in_progress' = TRUE
    /\ UNCHANGED <<screen, selected, linked, linking_in_progress, account_known>>
    /\ UNCHANGED <<modal, events, workerVars, historyVars>>

(* Any key on a notification: the main loop goes on. *)
dismiss_modal ==
    /\ modal
    /\ modal' = FALSE
    /\ UNCHANGED <<screen, selected, linked, linking_in_progress, account_known>>
    /\ UNCHANGED <<username_lookup_in_progress, cmds, events, workerVars, historyVars>>

(* Enter on the Profile row of Settings. *)
open_profile ==
    /\ screen = "Settings"
    /\ Show("Profile")
    /\ IF account_known THEN UNCHANGED cmds ELSE SendCmd("GetAccountInfo")
    /\ UNCHANGED <<selected, linked, linking_in_progress, account_known>>
    /\ UNCHANGED <<lookupVars, events, workerVars, historyVars>>

(* Enter on the Logout row, confirmed: the screen waits for LoggedOut. *)
drive_logout ==
    /\ screen = "Settings"
    /\ SendCmd("Logout")
    /\ UNCHANGED <<uiVars, events, workerVars, historyVars>>

(* The app comes to the foreground, whatever its screen. *)
focus_foreground ==
    /\ ~linked
    /\ ~account_known
    /\ SendCmd("GetAccountInfo")
    /\ UNCHANGED <<uiVars, events, workerVars, historyVars>>

-----------------------------------------------------------------------------
(* handle_worker_event.  StartReceive, which two of the arms send, moves no *)
(* screen.                                                                  *)

HandlesEvent(kind) ==
    /\ ~modal
    /\ events # <<>>
    /\ Head(events) = kind
    /\ events' = Tail(events)
    /\ UNCHANGED <<cmds, workerVars>>

reset_to_unlinked_keeping_account ==
    /\ linked' = FALSE
    /\ linking_in_progress' = FALSE
    /\ username_lookup_in_progress' = FALSE
    /\ Show("Menu")
    /\ selected' = "Link"
    /\ UNCHANGED <<account_known, modal>>

reset_to_unlinked ==
    /\ linked' = FALSE
    /\ linking_in_progress' = FALSE
    /\ account_known' = FALSE
    /\ username_lookup_in_progress' = FALSE
    /\ Show("Menu")
    /\ selected' = "Link"
    /\ UNCHANGED modal

(* Skipped if the modals server cannot be reached. *)
show_notification == modal' \in BOOLEAN

(* The QR code; not opened for a link that was cancelled. *)
on_link_url ==
    /\ HandlesEvent("LinkUrl")
    /\ IF linking_in_progress THEN show_notification ELSE UNCHANGED modal
    /\ UNCHANGED <<screen, selected, linked, linking_in_progress, account_known>>
    /\ UNCHANGED <<username_lookup_in_progress, historyVars>>

on_link_complete_guarded ==
    /\ HandlesEvent("LinkComplete")
    /\ IF linking_in_progress
       THEN /\ linked' = TRUE
            /\ account_known' = TRUE
            /\ Show("Linked")
       ELSE UNCHANGED <<linked, account_known, screen>>
    /\ linking_in_progress' = FALSE
    /\ UNCHANGED <<selected, lookupVars, historyVars>>

on_link_complete ==
    /\ HandlesEvent("LinkComplete")
    /\ linked' = TRUE
    /\ linking_in_progress' = FALSE
    /\ account_known' = TRUE
    /\ Show("Linked")
    /\ UNCHANGED <<selected, lookupVars, historyVars>>

on_link_error_screen_only ==
    /\ HandlesEvent("LinkError")
    /\ IF linking_in_progress THEN Show("Linked") ELSE UNCHANGED screen
    /\ UNCHANGED <<selected, linked, linking_in_progress, account_known, lookupVars, historyVars>>

(* Late, after an Esc: ignored. *)
on_link_error ==
    /\ HandlesEvent("LinkError")
    /\ IF linking_in_progress THEN Show("Linked") ELSE UNCHANGED screen
    /\ linking_in_progress' = FALSE
    /\ UNCHANGED <<selected, linked, account_known, lookupVars, historyVars>>

on_stale_store_detected ==
    /\ HandlesEvent("StaleStoreDetected")
    /\ linking_in_progress' = FALSE
    /\ Show("Menu")
    /\ show_notification
    /\ UNCHANGED <<selected, linked, account_known, username_lookup_in_progress, historyVars>>

on_account_info_ok ==
    /\ HandlesEvent("AccountInfo Ok")
    /\ account_known' = TRUE
    /\ linked' = TRUE
    /\ IF linked THEN UNCHANGED screen ELSE Show("Home")
    /\ UNCHANGED <<selected, linking_in_progress, lookupVars, historyVars>>

on_account_info_err ==
    /\ HandlesEvent("AccountInfo Err")
    /\ UNCHANGED <<uiVars, historyVars>>

on_logged_out ==
    /\ HandlesEvent("LoggedOut")
    /\ reset_to_unlinked
    /\ UNCHANGED <<expired, haunted>>

(* SignalAuthExpired and SignalConflictingDevice. *)
on_auth_expired ==
    /\ HandlesEvent("SignalAuthExpired")
    /\ reset_to_unlinked
    /\ UNCHANGED <<expired, haunted>>

(* An answer nobody waits for any more is dropped; a contact opens its      *)
(* thread, whatever the screen; no contact or an error leaves a banner.     *)
handle_username_resolve_result ==
    /\ HandlesEvent("UsernameResolveResult")
    /\ username_lookup_in_progress' = FALSE
    /\ \/ username_lookup_in_progress /\ Show("Thread")
       \/ UNCHANGED screen
    /\ UNCHANGED <<selected, linked, linking_in_progress, account_known, modal, historyVars>>

handle_worker_event ==
    \/ on_link_url
    \/ on_link_complete
    \/ on_link_error
    \/ on_stale_store_detected
    \/ on_account_info_ok
    \/ on_account_info_err
    \/ on_logged_out
    \/ on_auth_expired
    \/ handle_username_resolve_result

-----------------------------------------------------------------------------
(* The dispatcher.                                                          *)

Emit(e) ==
    /\ Len(events) < MaxEvents
    /\ events' = Append(events, e)

Receives(kind) ==
    /\ cmds # <<>>
    /\ Head(cmds) = kind
    /\ cmds' = Tail(cmds)

spawn_manager_task == task' = "alive"

(* load_registered at startup: an account, none, or ten errors. *)
boot_load ==
    /\ worker = "boot"
    /\ worker' = "idle"
    /\ \/ /\ store = "registered"
          /\ cached' = TRUE
          /\ spawn_manager_task
          /\ Emit("LinkComplete")
       \/ UNCHANGED <<cached, task, events>>
    /\ UNCHANGED <<uiVars, cmds, store, ghost, looking_up, historyVars>>

(* The probes of has_account_state fail open. *)
link_refused ==
    /\ worker = "idle"
    /\ Receives("LinkDevice")
    /\ store # "empty"
    /\ Emit("StaleStoreDetected")
    /\ UNCHANGED <<uiVars, workerVars, historyVars>>

link_device ==
    /\ worker = "idle"
    /\ Receives("LinkDevice")
    /\ worker' = "linking"
    /\ store' = IF store = "registered" THEN "leftovers" ELSE store
    /\ UNCHANGED <<uiVars, events, cached, task, ghost, looking_up, historyVars>>

(* handle_link_device hands out the provisioning URL and waits on. *)
link_url ==
    /\ worker = "linking"
    /\ worker' = "offered"
    /\ Emit("LinkUrl")
    /\ UNCHANGED <<uiVars, cmds, store, cached, task, ghost, looking_up, historyVars>>

InLink == worker \in {"linking", "offered"}

(* The outcome of the link future: a new account, in place of any task. *)
LinkOk ==
    /\ worker = "offered"
    /\ worker' = "idle"
    /\ store' = "registered"
    /\ cached' = TRUE
    /\ ghost' = (ghost \/ task = "alive")
    /\ spawn_manager_task
    /\ Emit("LinkComplete")
    /\ expired' = FALSE
    /\ UNCHANGED looking_up

LinkErr ==
    /\ worker' = "idle"
    /\ store' \in {store, "leftovers", "registered"}
    /\ Emit("LinkError")
    /\ UNCHANGED <<cached, task, ghost, looking_up, expired>>

link_ends ==
    /\ InLink
    /\ LinkOk \/ LinkErr
    /\ UNCHANGED <<uiVars, cmds, haunted>>

(* A link that is done by then wins over the cancellation. *)
link_cancel ==
    /\ InLink
    /\ Receives("LinkCancel")
    /\ LinkOk \/ LinkErr
    /\ UNCHANGED <<uiVars, haunted>>

link_cancel_idle ==
    /\ worker = "idle"
    /\ Receives("LinkCancel")
    /\ UNCHANGED <<uiVars, events, workerVars, historyVars>>

(* Any other command is dropped while a link is in flight. *)
cmd_dropped ==
    /\ InLink
    /\ \E kind \in {"LinkDevice", "GetAccountInfo", "Logout", "ResolveUsername"} : Receives(kind)
    /\ UNCHANGED <<uiVars, events, workerVars, historyVars>>

(* The cache, or a load that may fail. *)
get_account_info ==
    /\ worker = "idle"
    /\ Receives("GetAccountInfo")
    /\ \/ /\ cached
          /\ Emit("AccountInfo Ok")
          /\ UNCHANGED <<cached, task>>
       \/ /\ ~cached
          /\ store = "registered"
          /\ cached' = TRUE
          /\ IF task = "none" THEN spawn_manager_task ELSE UNCHANGED task
          /\ Emit("AccountInfo Ok")
       \/ /\ ~cached
          /\ Emit("AccountInfo Err")
          /\ UNCHANGED <<cached, task>>
    /\ UNCHANGED <<uiVars, worker, store, ghost, looking_up, historyVars>>

(* To the task, or answered at once: "not linked yet", "manager task died". *)
resolve_username ==
    /\ worker = "idle"
    /\ Receives("ResolveUsername")
    /\ \/ /\ task = "alive"
          /\ looking_up' = TRUE
          /\ UNCHANGED <<task, events>>
       \/ /\ task # "alive"
          /\ task' = "none"
          /\ Emit("UsernameResolveResult")
          /\ UNCHANGED looking_up
    /\ UNCHANGED <<uiVars, worker, store, cached, ghost, historyVars>>

logout_quiet_on_error ==
    /\ worker = "idle"
    /\ Receives("Logout")
    /\ ghost' = (ghost \/ task = "alive")
    /\ task' = "none"
    /\ cached' = FALSE
    /\ expired' = FALSE
    /\ \/ store' = "empty" /\ Emit("LoggedOut")
       \/ UNCHANGED <<store, events>>
    /\ UNCHANGED <<uiVars, worker, looking_up, haunted>>

(* The wipe may fail part way; LoggedOut is sent all the same. *)
logout ==
    /\ worker = "idle"
    /\ Receives("Logout")
    /\ ghost' = (ghost \/ task = "alive")
    /\ task' = "none"
    /\ store' \in {"empty", store} \cup {s \in {"leftovers"} : store = "registered"}
    /\ cached' = FALSE
    /\ expired' = FALSE
    /\ Emit("LoggedOut")
    /\ UNCHANGED <<uiVars, worker, looking_up, haunted>>

-----------------------------------------------------------------------------
(* The manager task, and a task that was let go while it was busy.          *)

(* The server closed the socket with 4401 or 4409. *)
task_expires ==
    /\ task = "alive"
    /\ task' = "dead"
    /\ looking_up' = (looking_up /\ ghost)
    /\ expired' = TRUE
    /\ Emit("SignalAuthExpired")
    /\ UNCHANGED <<uiVars, cmds, worker, store, cached, ghost, haunted>>

(* The retry budget of the receive loop is spent. *)
task_gives_up ==
    /\ task = "alive"
    /\ task' = "dead"
    /\ looking_up' = (looking_up /\ ghost)
    /\ UNCHANGED <<uiVars, cmds, events, worker, store, cached, ghost, historyVars>>

(* It finds its channel closed only once it has run what was still in it,   *)
(* and may be rejected by the server before that.                           *)
ghost_expires ==
    /\ ghost
    /\ ghost' = FALSE
    /\ looking_up' = (looking_up /\ task = "alive")
    /\ haunted' = TRUE
    /\ Emit("SignalAuthExpired")
    /\ UNCHANGED <<uiVars, cmds, worker, store, cached, task, expired>>

ghost_ends ==
    /\ ghost
    /\ ghost' = FALSE
    /\ looking_up' = (looking_up /\ task = "alive")
    /\ UNCHANGED <<uiVars, cmds, events, worker, store, cached, task, historyVars>>

(* handle_resolve_username, by the task or by the one that was let go. *)
task_answers ==
    /\ looking_up
    /\ looking_up' = FALSE
    /\ Emit("UsernameResolveResult")
    /\ UNCHANGED <<uiVars, cmds, worker, store, cached, task, ghost, historyVars>>

-----------------------------------------------------------------------------

Keys ==
    \/ \E item \in MenuItem : move_cursor(item)
    \/ menu_enter
    \/ menu_esc
    \/ navigate
    \/ linked_enter
    \/ no_internet_enter
    \/ no_internet_esc
    \/ linking_esc
    \/ open_profile
    \/ drive_logout
    \/ drive_new_chat

Dispatcher ==
    \/ boot_load
    \/ link_refused
    \/ link_device
    \/ link_cancel
    \/ link_cancel_idle
    \/ cmd_dropped
    \/ get_account_info
    \/ resolve_username
    \/ logout

Tasks ==
    \/ task_expires
    \/ task_gives_up
    \/ ghost_expires
    \/ ghost_ends
    \/ task_answers

Next ==
    \/ ~modal /\ Keys
    \/ ~modal /\ focus_foreground
    \/ dismiss_modal
    \/ handle_worker_event
    \/ Dispatcher
    \/ link_url
    \/ link_ends
    \/ Tasks

(* The main loop wakes for every event, the dispatcher takes every command, *)
(* and a link ends: the server closes a provisioning socket nobody scans.   *)
(* The user owes one thing: a key on a notification, the QR code's too,     *)
(* which the main loop waits for.  The server's verdicts owe nothing.       *)
Spec ==
    /\ Init
    /\ [][Next]_vars
    /\ WF_vars(dismiss_modal)
    /\ WF_vars(handle_worker_event)
    /\ WF_vars(Dispatcher)
    /\ WF_vars(link_ends)

-----------------------------------------------------------------------------

LinkingEvents == {"LinkComplete", "AccountInfo Ok"}
UnlinkingEvents == {"LoggedOut", "SignalAuthExpired"}

(* What the UI will think once it has handled what is on its way: the last  *)
(* event that settles it does.                                              *)
LinkedAfter ==
    \/ linked /\ \A i \in DOMAIN events : events[i] \notin UnlinkingEvents
    \/ \E i \in DOMAIN events :
          /\ events[i] \in LinkingEvents
          /\ \A j \in DOMAIN events : j > i => events[j] \notin UnlinkingEvents

(* Types of the UI state, both channels and the worker's state; account     *)
(* data is shown exactly while the device is shown as linked.               *)
TypeOK ==
    /\ screen \in Screen
    /\ selected \in MenuItem
    /\ {linked, linking_in_progress, account_known, cached, ghost} \subseteq BOOLEAN
    /\ {username_lookup_in_progress, modal, looking_up} \subseteq BOOLEAN
    /\ cmds \in Seq(Cmd) /\ Len(cmds) <= MaxCmds
    /\ events \in Seq(Event) /\ Len(events) <= MaxEvents
    /\ worker \in {"boot", "idle", "linking", "offered"}
    /\ store \in {"empty", "leftovers", "registered"}
    /\ task \in {"none", "alive", "dead"}
    /\ {expired, haunted} \subseteq BOOLEAN
    /\ account_known = linked

(* Once the events on their way are handled, the UI shows a linked device   *)
(* exactly if the dispatcher serves an account the server has not rejected: *)
(* no order of a cancelled link, a logout, a refocus and their late events  *)
(* leaves the one linked and the other not.  A rejected account the UI has  *)
(* asked for again, and the expiry of a let-go task, are the exceptions.    *)
LinkedAgrees ==
    /\ LinkedAfter => cached
    /\ cached /\ ~expired /\ ~haunted => LinkedAfter

(* A device that waits for a link stops waiting, if the user dismisses the  *)
(* QR code: until then the loop handles no event.                           *)
LinkingEnds == linking_in_progress ~> ~linking_in_progress

(* A wipe the worker hears of is answered: its LoggedOut, sent whether or   *)
(* not the clear succeeded, gets to the head of the UI's queue, whatever    *)
(* events of earlier links, lookups, refocuses and expired tasks come first *)
(* and whatever screen they have put in the place of Wiping by then.  A     *)
(* Logout that reaches the dispatcher during a link is dropped there and is *)
(* the exception.                                                           *)
HeardWipeEnds ==
    (/\ screen = "Wiping"
     /\ "Logout" \in ToSet(cmds)
     /\ ~InLink
     /\ "LinkDevice" \notin ToSet(cmds))
        ~> (events # <<>> /\ Head(events) = "LoggedOut")
=============================================================================
