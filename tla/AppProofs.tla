------------------------------ MODULE AppProofs ------------------------------
(***************************************************************************)
(* Proofs about App for every length of the command channel and of the     *)
(* event queue.                                                            *)
(***************************************************************************)
EXTENDS App, TLAPS

-----------------------------------------------------------------------------
(* What a queue of events makes of the UI.                                 *)

(* The verdict of one event on a UI that thinks b. *)
Settled(b, e) == e \in LinkingEvents \/ (b /\ e \notin UnlinkingEvents)

(* LinkedAfter, of any queue and any state of the UI. *)
After(b, s) ==
    \/ b /\ \A i \in 1..Len(s) : s[i] \notin UnlinkingEvents
    \/ \E i \in 1..Len(s) :
          /\ s[i] \in LinkingEvents
          /\ \A j \in 1..Len(s) : j > i => s[j] \notin UnlinkingEvents

(* LinkedAfter is After of what the UI thinks and the events it has not     *)
(* handled.                                                                *)
LEMMA LinkedAfterIs == ASSUME events \in Seq(Event) PROVE LinkedAfter <=> After(linked, events)
<1>1. DOMAIN events = 1..Len(events)
  OBVIOUS
<1> QED BY <1>1 DEF LinkedAfter, After

(* No event both links and unlinks. *)
LEMMA Opposed == \A e : ~(e \in LinkingEvents /\ e \in UnlinkingEvents)
BY DEF LinkingEvents, UnlinkingEvents

(* An event added has the last word. *)
LEMMA AfterAppend ==
    ASSUME NEW b \in BOOLEAN, NEW s \in Seq(Event), NEW e \in Event
    PROVE  After(b, Append(s, e)) <=> Settled(After(b, s), e)
<1> DEFINE r == Append(s, e)
<1>1. /\ Len(s) \in Nat /\ Len(r) = Len(s) + 1 /\ r[Len(s) + 1] = e
      /\ \A i \in 1..Len(s) : r[i] = s[i]
  OBVIOUS
<1>2. /\ \A i \in 1..Len(r) : i \in 1..Len(s) \/ i = Len(s) + 1
      /\ \A i \in 1..Len(s) : i \in 1..Len(r) /\ Len(s) + 1 > i /\ ~(i > Len(s) + 1)
      /\ Len(s) + 1 \in 1..Len(r) /\ ~(Len(s) + 1 > Len(s) + 1)
  BY <1>1
<1> HIDE DEF r
<1>3. CASE e \in LinkingEvents
  BY <1>1, <1>2, <1>3, Opposed DEF After, Settled
<1>4. CASE e \in UnlinkingEvents
  BY <1>1, <1>2, <1>4, Opposed DEF After, Settled
<1>5. CASE e \notin LinkingEvents /\ e \notin UnlinkingEvents
  BY <1>1, <1>2, <1>5 DEF After, Settled
<1> QED BY <1>3, <1>4, <1>5 DEF r

(* Handling the first event does not change what all of them come to. *)
LEMMA AfterTail ==
    ASSUME NEW b \in BOOLEAN, NEW s \in Seq(Event), s # <<>>
    PROVE  After(b, s) <=> After(Settled(b, Head(s)), Tail(s))
<1> DEFINE r == Tail(s)
           e == Head(s)
<1>1. /\ Len(s) \in Nat \ {0} /\ Len(r) = Len(s) - 1 /\ Len(r) \in Nat /\ s[1] = e
      /\ \A i \in 1..Len(r) : r[i] = s[i + 1]
  OBVIOUS
<1>2. /\ 1 \in 1..Len(s)
      /\ \A i \in 1..Len(s) : i = 1 \/ (i - 1 \in 1..Len(r) /\ r[i - 1] = s[i])
      /\ \A i \in 1..Len(r) : i + 1 \in 1..Len(s)
  BY <1>1
<1> HIDE DEF r, e
<1>3. (\A i \in 1..Len(s) : s[i] \notin UnlinkingEvents) <=>
        e \notin UnlinkingEvents /\ \A i \in 1..Len(r) : r[i] \notin UnlinkingEvents
  BY <1>1, <1>2
<1> DEFINE LastIn(q, i) == /\ q[i] \in LinkingEvents
                           /\ \A j \in 1..Len(q) : j > i => q[j] \notin UnlinkingEvents
<1>4. LastIn(s, 1) <=> e \in LinkingEvents /\ \A i \in 1..Len(r) : r[i] \notin UnlinkingEvents
  <2>1. \A i \in 1..Len(r) : i + 1 > 1
    BY <1>1
  <2>2. \A j \in 1..Len(s) : j > 1 => j - 1 \in 1..Len(r)
    BY <1>1
  <2> QED BY <1>1, <1>2, <2>1, <2>2
<1>5. ASSUME NEW i \in 1..Len(r) PROVE LastIn(s, i + 1) <=> LastIn(r, i)
  <2>1. \A j \in 1..Len(r) : j + 1 > i + 1 <=> j > i
    BY <1>1
  <2>2. \A j \in 1..Len(s) : j > i + 1 => j - 1 \in 1..Len(r) /\ j - 1 > i /\ r[j - 1] = s[j]
    BY <1>1, <1>2
  <2> QED BY <1>1, <1>2, <2>1, <2>2
<1> HIDE DEF LastIn
<1>6. (\E i \in 1..Len(s) : LastIn(s, i)) <=> LastIn(s, 1) \/ \E i \in 1..Len(r) : LastIn(r, i)
  <2>1. ASSUME NEW i \in 1..Len(s), LastIn(s, i), i # 1
        PROVE LastIn(r, i - 1) /\ i - 1 \in 1..Len(r)
    <3>1. i - 1 \in 1..Len(r) /\ (i - 1) + 1 = i
      BY <1>1, <2>1
    <3> QED BY <1>5, <2>1, <3>1
  <2>2. ASSUME NEW i \in 1..Len(r), LastIn(r, i) PROVE \E k \in 1..Len(s) : LastIn(s, k)
    <3>1. i + 1 \in 1..Len(s)
      BY <1>2
    <3> QED BY <1>5, <2>2, <3>1
  <2> QED BY <1>2, <2>1, <2>2
<1> QED BY <1>3, <1>4, <1>6 DEF After, Settled, r, e, LastIn

-----------------------------------------------------------------------------
(* The channels.                                                           *)

(* The state by name, for the provers. *)
Typed ==
    /\ screen \in Screen /\ selected \in MenuItem
    /\ linked \in BOOLEAN /\ linking_in_progress \in BOOLEAN /\ account_known = linked
    /\ username_lookup_in_progress \in BOOLEAN /\ modal \in BOOLEAN /\ looking_up \in BOOLEAN
    /\ cached \in BOOLEAN /\ ghost \in BOOLEAN /\ expired \in BOOLEAN /\ haunted \in BOOLEAN
    /\ worker \in {"boot", "idle", "linking", "offered"}
    /\ store \in {"empty", "leftovers", "registered"}
    /\ task \in {"none", "alive", "dead"}

CmdsTyped == cmds \in Seq(Cmd) /\ Len(cmds) <= MaxCmds
EventsTyped == events \in Seq(Event) /\ Len(events) <= MaxEvents

(* TypeOK in three parts, so that a step needs only those it disturbs. *)
LEMMA TypeOKIs == TypeOK <=> Typed /\ CmdsTyped /\ EventsTyped
BY DEF TypeOK, Typed, CmdsTyped, EventsTyped

(* A command sent keeps the channel's type and bound. *)
LEMMA CmdSent ==
    ASSUME CmdsTyped, NEW c \in Cmd, SendCmd(c) PROVE CmdsTyped'
BY AppAssumption DEF CmdsTyped, SendCmd

(* So does a command received. *)
LEMMA CmdReceived ==
    ASSUME CmdsTyped, NEW kind, Receives(kind) PROVE CmdsTyped'
BY AppAssumption DEF CmdsTyped, Receives

(* So does a step that neither sends nor receives one. *)
LEMMA CmdsUntouched == ASSUME CmdsTyped, UNCHANGED cmds PROVE CmdsTyped'
BY DEF CmdsTyped

(* A step without an event leaves the queue and what it comes to. *)
LEMMA EventsUntouched ==
    ASSUME EventsTyped, UNCHANGED <<events, linked>>
    PROVE  EventsTyped' /\ (LinkedAfter' <=> LinkedAfter)
BY DEF EventsTyped, LinkedAfter

(* An event of the worker's has the last word in what the UI will think. *)
LEMMA Emitted ==
    ASSUME EventsTyped, linked \in BOOLEAN, NEW e \in Event, Emit(e), UNCHANGED linked
    PROVE  /\ EventsTyped'
           /\ LinkedAfter' <=> e \in LinkingEvents \/ (LinkedAfter /\ e \notin UnlinkingEvents)
<1>1. EventsTyped'
  BY AppAssumption DEF EventsTyped, Emit
<1>2. After(linked, events') <=> Settled(After(linked, events), e)
  BY AfterAppend DEF EventsTyped, Emit
<1>3. LinkedAfter <=> After(linked, events)
  BY LinkedAfterIs DEF EventsTyped
<1>4. LinkedAfter' <=> After(linked', events')
  <2>1. events' \in Seq(Event) /\ DOMAIN events' = 1..Len(events')
    BY <1>1 DEF EventsTyped
  <2> QED BY <2>1 DEF LinkedAfter, After
<1> QED BY <1>1, <1>2, <1>3, <1>4 DEF Settled

(* A handler that does with an event what LinkedAfter says leaves what the *)
(* UI will think as it was.                                                *)
LEMMA Handled ==
    ASSUME EventsTyped, linked \in BOOLEAN, NEW kind, HandlesEvent(kind),
           linked' = Settled(linked, kind)
    PROVE  EventsTyped' /\ (LinkedAfter' <=> LinkedAfter)
<1>1. EventsTyped' /\ events # <<>> /\ kind = Head(events) /\ events' = Tail(events)
  BY AppAssumption DEF EventsTyped, HandlesEvent
<1>2. After(linked, events) <=> After(Settled(linked, kind), events')
  BY <1>1, AfterTail DEF EventsTyped
<1>3. LinkedAfter <=> After(linked, events)
  BY LinkedAfterIs DEF EventsTyped
<1>4. LinkedAfter' <=> After(linked', events')
  <2>1. events' \in Seq(Event) /\ DOMAIN events' = 1..Len(events')
    BY <1>1 DEF EventsTyped
  <2> QED BY <2>1 DEF LinkedAfter, After
<1> QED BY <1>1, <1>2, <1>3, <1>4

-----------------------------------------------------------------------------
(* The steps.                                                              *)

(* The inductive invariant. *)
IInv == TypeOK /\ LinkedAgrees

(* A key, on a notification too, or a focus change: the events and the worker are left alone. *)
LEMMA UiStep ==
    ASSUME IInv, Keys \/ focus_foreground \/ dismiss_modal
    PROVE  IInv'
<1>0. Typed /\ CmdsTyped /\ EventsTyped
  BY TypeOKIs DEF IInv
<1>1. UNCHANGED <<events, linked, account_known, workerVars, historyVars>>
  BY DEF Keys, focus_foreground, drive_new_chat, dismiss_modal, move_cursor, menu_enter,
     menu_esc, navigate, linked_enter, no_internet_enter, no_internet_esc, linking_esc,
     open_profile, drive_logout, uiVars, lookupVars
<1>2. CmdsTyped'
  <2>1. UNCHANGED cmds \/ \E c \in Cmd : SendCmd(c)
    BY DEF Keys, focus_foreground, drive_new_chat, dismiss_modal, move_cursor, menu_enter,
       menu_esc, navigate, linked_enter, no_internet_enter, no_internet_esc, linking_esc,
       open_profile, drive_logout, drive_link, drive_wipe_settings, Cmd
  <2> QED BY <1>0, <2>1, CmdSent, CmdsUntouched
<1>3. screen' \in Screen /\ selected' \in MenuItem /\ linking_in_progress' \in BOOLEAN
  <2> USE <1>0 DEF Typed, Screen, MenuItem, Show
  <2>1. ASSUME NEW x \in MenuItem, move_cursor(x)
        PROVE  screen' \in Screen /\ selected' \in MenuItem /\ linking_in_progress' \in BOOLEAN
    BY <2>1 DEF move_cursor
  <2>2. CASE menu_enter
    BY <2>2 DEF menu_enter, drive_link, drive_wipe_settings
  <2>3. CASE menu_esc \/ linked_enter \/ no_internet_enter \/ no_internet_esc \/ linking_esc
    BY <2>3 DEF menu_esc, linked_enter, no_internet_enter, no_internet_esc, linking_esc, drive_link
  <2>4. CASE navigate
    <3>1. Targets \subseteq Screen
      BY DEF Targets
    <3> QED BY <2>4, <3>1 DEF navigate
  <2>5. CASE open_profile \/ drive_logout \/ focus_foreground \/ drive_new_chat \/ dismiss_modal
    BY <2>5 DEF open_profile, drive_logout, focus_foreground, drive_new_chat, dismiss_modal, uiVars
  <2> QED BY <2>1, <2>2, <2>3, <2>4, <2>5 DEF Keys
<1>l. username_lookup_in_progress' \in BOOLEAN /\ modal' \in BOOLEAN
  BY <1>0 DEF Keys, focus_foreground, drive_new_chat, dismiss_modal, move_cursor, menu_enter,
     menu_esc, navigate, linked_enter, no_internet_enter, no_internet_esc, linking_esc,
     open_profile, drive_logout, uiVars, lookupVars, Typed
<1>4. Typed'
  BY <1>0, <1>1, <1>3, <1>l DEF Typed, workerVars, historyVars
<1>5. EventsTyped' /\ (LinkedAfter' <=> LinkedAfter)
  BY <1>0, <1>1, EventsUntouched
<1>6. LinkedAgrees'
  BY <1>1, <1>5 DEF IInv, LinkedAgrees, workerVars, historyVars
<1>7. TypeOK'
  <2> HIDE DEF Typed
  <2>1. Typed' /\ CmdsTyped' /\ EventsTyped'
    BY <1>2, <1>4, <1>5
  <2> QED BY <2>1 DEF TypeOK, Typed, CmdsTyped, EventsTyped
<1> QED BY <1>6, <1>7 DEF IInv

(* An event handled by the UI. *)
LEMMA EventStep ==
    ASSUME IInv, handle_worker_event
    PROVE  IInv'
<1>0. Typed /\ CmdsTyped /\ EventsTyped
  BY TypeOKIs DEF IInv
<1>1. PICK kind \in Event : HandlesEvent(kind) /\ linked' = Settled(linked, kind)
  BY <1>0 DEF handle_worker_event, on_link_complete, on_link_error, on_stale_store_detected,
     on_account_info_ok, on_account_info_err, on_logged_out, on_auth_expired, reset_to_unlinked,
     on_link_url, handle_username_resolve_result, uiVars, Typed, Settled, LinkingEvents,
     UnlinkingEvents, Event
<1>2. UNCHANGED <<cmds, workerVars>>
  BY <1>1 DEF HandlesEvent
<1>3. EventsTyped' /\ (LinkedAfter' <=> LinkedAfter)
  BY <1>0, <1>1, Handled DEF Typed
<1>4. CmdsTyped'
  BY <1>0, <1>2, CmdsUntouched
<1>5. /\ screen' \in Screen /\ selected' \in MenuItem /\ linked' \in BOOLEAN
      /\ linking_in_progress' \in BOOLEAN /\ account_known' = linked'
      /\ username_lookup_in_progress' \in BOOLEAN /\ modal' \in BOOLEAN
      /\ UNCHANGED historyVars
  BY <1>0 DEF handle_worker_event, on_link_complete, on_link_error, on_stale_store_detected,
     on_account_info_ok, on_account_info_err, on_logged_out, on_auth_expired, reset_to_unlinked,
     on_link_url, handle_username_resolve_result, show_notification, uiVars, lookupVars,
     historyVars, Typed, Show, Screen, MenuItem
<1>6. Typed'
  BY <1>0, <1>2, <1>5 DEF Typed, workerVars, historyVars
<1>7. LinkedAgrees'
  BY <1>2, <1>3, <1>5 DEF IInv, LinkedAgrees, workerVars, historyVars
<1>8. TypeOK'
  BY <1>3, <1>4, <1>6 DEF TypeOK, Typed, CmdsTyped, EventsTyped
<1> QED BY <1>7, <1>8 DEF IInv

(* The worker takes a command, ends a link or loses a task. *)
LEMMA WorkerStep ==
    ASSUME IInv, Dispatcher \/ link_url \/ link_ends \/ Tasks
    PROVE  IInv'
<1>0. Typed /\ CmdsTyped /\ EventsTyped /\ linked \in BOOLEAN
  BY TypeOKIs DEF IInv, Typed
<1>1. UNCHANGED uiVars
  BY DEF Dispatcher, link_ends, Tasks, boot_load, link_refused, link_device, link_cancel,
     link_cancel_idle, cmd_dropped, get_account_info, logout, task_expires, task_gives_up,
     ghost_expires, ghost_ends, task_answers, resolve_username, link_url
<1>2. CmdsTyped'
  <2>1. UNCHANGED cmds \/ \E kind : Receives(kind)
    BY DEF Dispatcher, link_ends, Tasks, boot_load, link_refused, link_device, link_cancel,
       link_cancel_idle, cmd_dropped, get_account_info, logout, task_expires, task_gives_up,
       ghost_expires, ghost_ends, task_answers, resolve_username, link_url
  <2> QED BY <1>0, <2>1, CmdReceived, CmdsUntouched
<1>3. EventsTyped' /\ Typed' /\ LinkedAgrees'
  <2> USE DEF workerVars, historyVars
  <2>u. linked' = linked /\ LinkedAgrees /\ Typed
    BY <1>0, <1>1 DEF IInv, uiVars
  <2>e. /\ {"LinkUrl", "LinkComplete", "LinkError", "StaleStoreDetected", "AccountInfo Ok",
           "AccountInfo Err", "LoggedOut", "SignalAuthExpired", "UsernameResolveResult"} \subseteq Event
        /\ "LinkComplete" \in LinkingEvents /\ "AccountInfo Ok" \in LinkingEvents
        /\ "LoggedOut" \in UnlinkingEvents /\ "SignalAuthExpired" \in UnlinkingEvents
        /\ "LoggedOut" \notin LinkingEvents /\ "SignalAuthExpired" \notin LinkingEvents
        /\ \A e \in {"LinkUrl", "LinkError", "StaleStoreDetected", "AccountInfo Err",
                   "UsernameResolveResult"} :
              e \notin LinkingEvents /\ e \notin UnlinkingEvents
    BY DEF Event, LinkingEvents, UnlinkingEvents
  <2>1. CASE boot_load
    <3>1. EventsTyped' /\ LinkedAgrees'
      <4>1. CASE UNCHANGED <<cached, task, events>>
        BY <2>1, <4>1, <1>0, <2>u, EventsUntouched DEF LinkedAgrees, boot_load
      <4>2. CASE cached' = TRUE /\ Emit("LinkComplete")
        <5>1. EventsTyped' /\ LinkedAfter'
          BY <4>2, <1>0, <2>u, <2>e, Emitted
        <5> QED BY <2>1, <4>2, <5>1 DEF LinkedAgrees
      <4> QED BY <2>1, <4>1, <4>2 DEF boot_load
    <3>2. Typed'
      BY <2>1, <1>1, <2>u DEF Typed, uiVars, lookupVars, boot_load, spawn_manager_task
    <3> QED BY <3>1, <3>2
  <2>2. CASE link_refused
    <3>1. EventsTyped' /\ LinkedAgrees'
      BY <2>2, <1>0, <2>u, <2>e, Emitted DEF LinkedAgrees, link_refused
    <3>2. Typed'
      BY <2>2, <1>1, <2>u DEF Typed, uiVars, lookupVars, link_refused
    <3> QED BY <3>1, <3>2
  <2>3. CASE link_device
    <3>1. EventsTyped' /\ LinkedAgrees'
      BY <2>3, <1>0, <2>u, <2>e, EventsUntouched DEF LinkedAgrees, link_device
    <3>2. Typed'
      BY <2>3, <1>1, <2>u DEF Typed, uiVars, lookupVars, link_device
    <3> QED BY <3>1, <3>2
  <2>4. CASE link_cancel
    <3>1. EventsTyped' /\ LinkedAgrees'
      <4>1. CASE LinkOk
        <5>1. EventsTyped' /\ LinkedAfter'
          BY <4>1, <1>0, <2>u, <2>e, Emitted DEF LinkOk
        <5> QED BY <4>1, <5>1 DEF LinkOk, LinkedAgrees
      <4>2. CASE LinkErr
        <5>1. EventsTyped' /\ (LinkedAfter' <=> LinkedAfter)
          BY <4>2, <1>0, <2>u, <2>e, Emitted DEF LinkErr
        <5> QED BY <2>4, <4>2, <5>1, <2>u DEF link_cancel, LinkErr, LinkedAgrees
      <4> QED BY <2>4, <4>1, <4>2 DEF link_cancel
    <3>2. Typed'
      BY <2>4, <1>1, <2>u DEF Typed, uiVars, lookupVars, link_cancel, LinkOk, LinkErr,
         spawn_manager_task
    <3> QED BY <3>1, <3>2
  <2>5. CASE link_ends
    <3>1. EventsTyped' /\ LinkedAgrees'
      <4>1. CASE LinkOk
        <5>1. EventsTyped' /\ LinkedAfter'
          BY <4>1, <1>0, <2>u, <2>e, Emitted DEF LinkOk
        <5> QED BY <4>1, <5>1 DEF LinkOk, LinkedAgrees
      <4>2. CASE LinkErr
        <5>1. EventsTyped' /\ (LinkedAfter' <=> LinkedAfter)
          BY <4>2, <1>0, <2>u, <2>e, Emitted DEF LinkErr
        <5> QED BY <2>5, <4>2, <5>1, <2>u DEF link_ends, LinkErr, LinkedAgrees
      <4> QED BY <2>5, <4>1, <4>2 DEF link_ends
    <3>2. Typed'
      BY <2>5, <1>1, <2>u DEF Typed, uiVars, lookupVars, link_ends, LinkOk, LinkErr,
         spawn_manager_task
    <3> QED BY <3>1, <3>2
  <2>6. CASE link_cancel_idle
    <3>1. EventsTyped' /\ LinkedAgrees'
      BY <2>6, <1>0, <2>u, <2>e, EventsUntouched DEF LinkedAgrees, link_cancel_idle
    <3>2. Typed'
      BY <2>6, <1>1, <2>u DEF Typed, uiVars, lookupVars, link_cancel_idle
    <3> QED BY <3>1, <3>2
  <2>7. CASE cmd_dropped
    <3>1. EventsTyped' /\ LinkedAgrees'
      BY <2>7, <1>0, <2>u, <2>e, EventsUntouched DEF LinkedAgrees, cmd_dropped
    <3>2. Typed'
      BY <2>7, <1>1, <2>u DEF Typed, uiVars, lookupVars, cmd_dropped
    <3> QED BY <3>1, <3>2
  <2>8. CASE get_account_info
    <3>1. EventsTyped' /\ LinkedAgrees'
      <4>1. CASE cached' = TRUE /\ Emit("AccountInfo Ok")
        <5>1. EventsTyped' /\ LinkedAfter'
          BY <4>1, <1>0, <2>u, <2>e, Emitted
        <5> QED BY <4>1, <5>1 DEF LinkedAgrees
      <4>2. CASE ~cached /\ Emit("AccountInfo Err") /\ UNCHANGED <<cached, task>>
        <5>1. EventsTyped' /\ (LinkedAfter' <=> LinkedAfter)
          BY <4>2, <1>0, <2>u, <2>e, Emitted
        <5> QED BY <4>2, <5>1, <2>u DEF LinkedAgrees
      <4> QED BY <2>8, <2>u, <4>1, <4>2 DEF get_account_info, Typed
    <3>2. Typed'
      BY <2>8, <1>1, <2>u DEF Typed, uiVars, lookupVars, get_account_info, spawn_manager_task
    <3> QED BY <3>1, <3>2
  <2>9. CASE logout
    <3>1. EventsTyped' /\ LinkedAgrees'
      BY <2>9, <1>0, <2>u, <2>e, Emitted DEF LinkedAgrees, logout
    <3>2. Typed'
      BY <2>9, <1>1, <2>u DEF Typed, uiVars, lookupVars, logout
    <3> QED BY <3>1, <3>2
  <2>10. CASE task_expires
    <3>1. EventsTyped' /\ LinkedAgrees'
      BY <2>10, <1>0, <2>u, <2>e, Emitted DEF LinkedAgrees, task_expires
    <3>2. Typed'
      BY <2>10, <1>1, <2>u DEF Typed, uiVars, lookupVars, task_expires
    <3> QED BY <3>1, <3>2
  <2>11. CASE task_gives_up
    <3>1. EventsTyped' /\ LinkedAgrees'
      BY <2>11, <1>0, <2>u, <2>e, EventsUntouched DEF LinkedAgrees, task_gives_up
    <3>2. Typed'
      BY <2>11, <1>1, <2>u DEF Typed, uiVars, lookupVars, task_gives_up
    <3> QED BY <3>1, <3>2
  <2>12. CASE ghost_expires
    <3>1. EventsTyped' /\ LinkedAgrees'
      BY <2>12, <1>0, <2>u, <2>e, Emitted DEF LinkedAgrees, ghost_expires
    <3>2. Typed'
      BY <2>12, <1>1, <2>u DEF Typed, uiVars, lookupVars, ghost_expires
    <3> QED BY <3>1, <3>2
  <2>13. CASE ghost_ends
    <3>1. EventsTyped' /\ LinkedAgrees'
      BY <2>13, <1>0, <2>u, <2>e, EventsUntouched DEF LinkedAgrees, ghost_ends
    <3>2. Typed'
      BY <2>13, <1>1, <2>u DEF Typed, uiVars, lookupVars, ghost_ends
    <3> QED BY <3>1, <3>2
  <2>14. CASE link_url
    <3>1. EventsTyped' /\ LinkedAgrees'
      BY <2>14, <1>0, <2>u, <2>e, Emitted DEF LinkedAgrees, link_url
    <3>2. Typed'
      BY <2>14, <1>1, <2>u DEF Typed, uiVars, lookupVars, link_url
    <3> QED BY <3>1, <3>2
  <2>15. CASE resolve_username
    <3>1. EventsTyped' /\ LinkedAgrees'
      <4>1. CASE UNCHANGED events
        BY <2>15, <4>1, <1>0, <2>u, EventsUntouched DEF LinkedAgrees, resolve_username
      <4>2. CASE Emit("UsernameResolveResult")
        <5>1. EventsTyped' /\ (LinkedAfter' <=> LinkedAfter)
          BY <4>2, <1>0, <2>u, <2>e, Emitted
        <5> QED BY <2>15, <5>1, <2>u DEF LinkedAgrees, resolve_username
      <4> QED BY <2>15, <4>1, <4>2 DEF resolve_username
    <3>2. Typed'
      BY <2>15, <1>1, <2>u DEF Typed, uiVars, lookupVars, resolve_username
    <3> QED BY <3>1, <3>2
  <2>16. CASE task_answers
    <3>1. EventsTyped' /\ (LinkedAfter' <=> LinkedAfter)
      BY <2>16, <1>0, <2>u, <2>e, Emitted DEF task_answers
    <3>2. LinkedAgrees'
      BY <2>16, <3>1, <2>u DEF LinkedAgrees, task_answers
    <3>3. Typed'
      BY <2>16, <1>1, <2>u DEF Typed, uiVars, lookupVars, task_answers
    <3> QED BY <3>1, <3>2, <3>3
  <2> QED BY <2>1, <2>2, <2>3, <2>4, <2>5, <2>6, <2>7, <2>8, <2>9, <2>10, <2>11, <2>12,
             <2>13, <2>14, <2>15, <2>16 DEF Dispatcher, Tasks
<1>4. TypeOK'
  BY <1>2, <1>3 DEF TypeOK, Typed, CmdsTyped, EventsTyped
<1> QED BY <1>3, <1>4 DEF IInv

-----------------------------------------------------------------------------
(* The theorems.                                                           *)

(* The inductive invariant holds in every reachable state. *)
THEOREM Invariance == Spec => []IInv
<1>1. Init => IInv
  <2> SUFFICES ASSUME Init PROVE IInv
    OBVIOUS
  <2>1. Typed
    BY DEF Init, Typed, Screen, MenuItem
  <2>2. CmdsTyped /\ EventsTyped
    BY AppAssumption DEF Init, CmdsTyped, EventsTyped
  <2>3. ~LinkedAfter
    BY DEF Init, LinkedAfter
  <2> QED BY <2>1, <2>2, <2>3, TypeOKIs DEF Init, IInv, LinkedAgrees
<1>2. IInv /\ [Next]_vars => IInv'
  <2> SUFFICES ASSUME IInv, [Next]_vars PROVE IInv'
    OBVIOUS
  <2>1. CASE UNCHANGED vars
    BY <2>1 DEF vars, uiVars, lookupVars, workerVars, historyVars, IInv, TypeOK, LinkedAgrees,
       LinkedAfter
  <2> QED BY <2>1, UiStep, EventStep, WorkerStep DEF Next
<1> QED BY <1>1, <1>2, PTL DEF Spec

(* The UI, both channels and the worker have their types; account data is  *)
(* shown exactly while the device is shown as linked.                      *)
THEOREM TypeCorrect == Spec => []TypeOK
BY Invariance, PTL DEF IInv

(* Once the events on their way are handled, the UI shows a linked device  *)
(* exactly if the dispatcher serves an account the server has not          *)
(* rejected.                                                               *)
THEOREM LinkedAgreesHolds == Spec => []LinkedAgrees
BY Invariance, PTL DEF IInv
=============================================================================
