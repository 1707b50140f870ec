---------------------------- MODULE MessageStore ----------------------------
(***************************************************************************)
(* The message rows of the UI: MessageStore of xous-app-signal/src/        *)
(* store.rs, the per-conversation summaries of dialogue.rs that it caches, *)
(* and the handlers of gam_app.rs that drive it.  The rows live in RAM, at *)
(* most Capacity of them for all conversations together.                   *)
(*                                                                         *)
(* A body is left out, a label is "raw" (a UUID nobody has resolved),      *)
(* "named" or "You".  A group's thread is filed under a UUID computed from *)
(* its key, which is no contact's.  Sends take distinct, rising timestamps *)
(* (unix_now_ms of a clock that is set); a sender's timestamps are his own.*)
(***************************************************************************)
EXTENDS Naturals, SequencesExt

CONSTANTS
    Contacts,
    Groups,     \* pseudo-thread UUIDs
    NoThread,
    Capacity,   \* INBOX_CAPACITY (5)
    MaxTime     \* bound of the model: timestamps are 0 .. MaxTime

ASSUME MessageStoreAssumption ==
    /\ Capacity \in Nat \ {0}
    /\ MaxTime \in Nat
    /\ Contacts \cap Groups = {}
    /\ NoThread \notin Contacts \cup Groups

Threads == Contacts \cup Groups
Times == 0 .. MaxTime
SendStatus == {"Pending", "Sent", "Delivered", "Failed"}

ThreadMessage ==
    [uuid : Threads, outgoing : BOOLEAN, timestamp : Times, status : SendStatus,
     read : BOOLEAN, label : {"raw", "named", "You"}, group : BOOLEAN]

DialogueSummary ==
    [display_name : {"raw", "named"}, last_msg_ts : Times, last_msg_outgoing : BOOLEAN,
     last_msg_status : SendStatus, unread_count : 0 .. Capacity, is_group : BOOLEAN]

VARIABLES
    messages,   \* the rows, oldest first
    dialogues,  \* the cached summaries, by UUID; their order on Home is left out
    open,       \* the thread on the screen
    outcome     \* history: what became of the send of each timestamp

vars == <<messages, dialogues, open, outcome>>

Init ==
    /\ messages = <<>>
    /\ dialogues = <<>>
    /\ open = NoThread
    /\ outcome = [t \in Times |-> "unsent"]

-----------------------------------------------------------------------------
(* dialogue.rs.                                                            *)

(* or_insert_with *)
NewSummary ==
    [display_name |-> "raw", last_msg_ts |-> 0, last_msg_outgoing |-> FALSE,
     last_msg_status |-> "Sent", unread_count |-> 0, is_group |-> FALSE]

IsLatest_strict(d, m) == m.timestamp > d.last_msg_ts

IsLatest(d, m) == m.timestamp >= d.last_msg_ts

(* One row into the summary of its conversation. *)
Summarised(d, m) ==
    [display_name |-> IF m.outgoing THEN d.display_name ELSE m.label,
     last_msg_ts |-> IF IsLatest(d, m) THEN m.timestamp ELSE d.last_msg_ts,
     last_msg_outgoing |-> IF IsLatest(d, m) THEN m.outgoing ELSE d.last_msg_outgoing,
     last_msg_status |-> IF IsLatest(d, m) THEN m.status ELSE d.last_msg_status,
     unread_count |-> IF ~m.outgoing /\ m.status = "Sent" /\ ~m.read
                      THEN d.unread_count + 1 ELSE d.unread_count,
     is_group |-> d.is_group \/ m.group]

(* One row into the summaries: the entry of its UUID, new or not. *)
Counted(by_uuid, m) ==
    [u \in DOMAIN by_uuid \cup {m.uuid} |->
        LET d == IF u \in DOMAIN by_uuid THEN by_uuid[u] ELSE NewSummary
        IN  IF u = m.uuid THEN Summarised(d, m) ELSE d]

(* by_uuid[n] is the map after the first n rows. *)
rebuild_summaries(rows) ==
    LET by_uuid[n \in 0 .. Len(rows)] ==
            IF n = 0 THEN <<>> ELSE Counted(by_uuid[n - 1], rows[n])
    IN  by_uuid[Len(rows)]

-----------------------------------------------------------------------------
(* store.rs.                                                               *)

Store(rows) ==
    /\ messages' = rows
    /\ dialogues' = rebuild_summaries(rows)

evict_if_full ==
    IF Len(messages) >= Capacity THEN Tail(messages) ELSE messages

Incoming(uuid, timestamp, label) ==
    [uuid |-> uuid, outgoing |-> FALSE, timestamp |-> timestamp, status |-> "Sent",
     read |-> FALSE, label |-> label, group |-> uuid \in Groups]

Outgoing(uuid, timestamp) ==
    [uuid |-> uuid, outgoing |-> TRUE, timestamp |-> timestamp, status |-> "Pending",
     read |-> TRUE, label |-> "You", group |-> FALSE]

is_group_thread_by_newest(uuid) ==
    /\ messages # <<>>
    /\ Last(messages).uuid = uuid
    /\ Last(messages).group

is_group_thread(uuid) == uuid \in DOMAIN dialogues /\ dialogues[uuid].is_group

Matching_any_direction(timestamp) ==
    {i \in DOMAIN messages : messages[i].timestamp = timestamp}

Matching(timestamp) ==
    {i \in DOMAIN messages : messages[i].outgoing /\ messages[i].timestamp = timestamp}

(* The newest outgoing row of that timestamp, if there is one. *)
set_outgoing_status(timestamp, status) ==
    IF Matching(timestamp) = {}
    THEN UNCHANGED <<messages, dialogues>>
    ELSE Store([messages EXCEPT ![Max(Matching(timestamp))].status = status])

(* Rows that do not change leave the summaries alone. *)
Rewritten(rows) ==
    IF rows = messages THEN UNCHANGED <<messages, dialogues>> ELSE Store(rows)

mark_thread_read(uuid) ==
    Rewritten([i \in DOMAIN messages |->
                  IF messages[i].uuid = uuid THEN [messages[i] EXCEPT !.read = TRUE]
                  ELSE messages[i]])

resolve_author_labels(uuid) ==
    Rewritten([i \in DOMAIN messages |->
                  IF messages[i].uuid = uuid /\ messages[i].label = "raw"
                  THEN [messages[i] EXCEPT !.label = "named"]
                  ELSE messages[i]])

-----------------------------------------------------------------------------
(* gam_app.rs: worker events.                                              *)

push_incoming(uuid, timestamp, label) ==
    /\ Store(Append(evict_if_full, Incoming(uuid, timestamp, label)))
    /\ UNCHANGED <<open, outcome>>

send_complete(timestamp) ==
    /\ outcome[timestamp] = "Pending"
    /\ outcome' = [outcome EXCEPT ![timestamp] = "Delivered"]
    /\ set_outgoing_status(timestamp, "Delivered")
    /\ UNCHANGED open

send_error(timestamp) ==
    /\ outcome[timestamp] = "Pending"
    /\ outcome' = [outcome EXCEPT ![timestamp] = "Failed"]
    /\ set_outgoing_status(timestamp, "Failed")
    /\ UNCHANGED open

contact_resolved(uuid) ==
    /\ resolve_author_labels(uuid)
    /\ UNCHANGED <<open, outcome>>

(* reset_to_unlinked *)
clear ==
    /\ messages' = <<>>
    /\ dialogues' = <<>>
    /\ open' = NoThread
    /\ UNCHANGED outcome

-----------------------------------------------------------------------------
(* gam_app.rs: keys.                                                       *)

(* Enter on a row of Home. *)
open_thread(uuid) ==
    /\ open = NoThread
    /\ uuid \in DOMAIN dialogues
    /\ mark_thread_read(uuid)
    /\ open' = uuid
    /\ UNCHANGED outcome

(* F1 on Home: by UUID, or by a username whose answer opens the thread     *)
(* from any screen and names its rows.                                     *)
new_chat(uuid) ==
    /\ \/ open = NoThread /\ UNCHANGED <<messages, dialogues>>
       \/ resolve_author_labels(uuid)
    /\ open' = uuid
    /\ UNCHANGED outcome

close_thread ==
    /\ open # NoThread
    /\ open' = NoThread
    /\ UNCHANGED <<messages, dialogues, outcome>>

(* Enter or F1 with text in the compose box.  In a group thread nothing    *)
(* but the banner changes.                                                 *)
send_compose(timestamp) ==
    /\ open # NoThread
    /\ ~is_group_thread(open)
    /\ \A t \in Times : t >= timestamp => outcome[t] = "unsent"
    /\ outcome' = [outcome EXCEPT ![timestamp] = "Pending"]
    /\ Store(Append(evict_if_full, Outgoing(open, timestamp)))
    /\ UNCHANGED open

-----------------------------------------------------------------------------

Next ==
    \/ \E u \in Threads, t \in Times, label \in {"raw", "named"} : push_incoming(u, t, label)
    \/ \E t \in Times : send_complete(t) \/ send_error(t) \/ send_compose(t)
    \/ \E u \in Threads : open_thread(u)
    \/ \E u \in Contacts : contact_resolved(u) \/ new_chat(u)
    \/ close_thread
    \/ clear

Spec == Init /\ [][Next]_vars

-----------------------------------------------------------------------------

RowsOf(u) == {i \in DOMAIN messages : messages[i].uuid = u}
IncomingOf(u) == {i \in RowsOf(u) : ~messages[i].outgoing}
NewestOf(u) ==
    Max({i \in RowsOf(u) : \A j \in RowsOf(u) : messages[j].timestamp <= messages[i].timestamp})

(* What Home shows is what the rows say, after every handler, the ones that *)
(* skip the rebuild included: one summary per conversation, with the state  *)
(* of its latest message (the last to arrive among equal timestamps,        *)
(* whatever the order the rest arrived in), the name its last incoming      *)
(* message gives it, and a count of exactly the unread incoming rows, of    *)
(* which the buffer holds no more than its capacity.                        *)
SummariesAreTrue ==
    /\ Len(messages) <= Capacity
    /\ DOMAIN dialogues = {messages[i].uuid : i \in DOMAIN messages}
    /\ \A u \in DOMAIN dialogues :
        LET d == dialogues[u]
            newest == messages[NewestOf(u)]
        IN  /\ d.last_msg_ts = newest.timestamp
            /\ d.last_msg_outgoing = newest.outgoing
            /\ d.last_msg_status = newest.status
            /\ d.display_name = IF IncomingOf(u) = {} THEN "raw"
                                ELSE messages[Max(IncomingOf(u))].label
            /\ d.unread_count = Cardinality({i \in IncomingOf(u) : ~messages[i].read})
            /\ d.is_group = \E i \in RowsOf(u) : messages[i].group

(* A row the user wrote shows what became of its own send: no outcome, late *)
(* after evictions, reopened threads or a wipe, lands on another row, and   *)
(* none is lost while its row is there.                                     *)
OutcomeShown ==
    \A i \in DOMAIN messages :
        messages[i].status = IF messages[i].outgoing THEN outcome[messages[i].timestamp]
                             ELSE "Sent"

(* The reply block ("outgoing rows are 1:1 only", store.rs:113-114): no row *)
(* was written into a conversation while the buffer held a group message of *)
(* it.  Once other conversations have evicted the last one, while the       *)
(* thread stays open, nothing tells the thread from a contact's and a reply *)
(* goes out to the group's own UUID.                                        *)
ReplyBlockHolds ==
    \A i, j \in DOMAIN messages :
        i < j /\ messages[i].group /\ messages[i].uuid = messages[j].uuid
            => ~messages[j].outgoing
=============================================================================
