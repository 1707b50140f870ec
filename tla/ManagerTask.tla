----------------------------- MODULE ManagerTask -----------------------------
(***************************************************************************)
(* manager_task of xous-signal-worker/src/lib.rs: the task that owns the   *)
(* linked Manager and multiplexes the receive stream with the operations   *)
(* the dispatcher forwards, with process_received, handle_send and         *)
(* sweep_expired_pending_sends.                                            *)
(*                                                                         *)
(* The task is one coroutine: a step runs from one await to the next.      *)
(* Signal's answers, the close code of a dead websocket and the passing of *)
(* a grace deadline are the environment's choice.  Message text and names  *)
(* are left out, and so is a UI that drops its event receiver: the app     *)
(* never does.                                                             *)
(***************************************************************************)
EXTENDS Naturals, Sequences

CONSTANTS
    Senders,        \* who is not a known contact and sends a profile key
    Timestamps,     \* the client timestamps of the sends, each used once
    OpCapacity,     \* capacity of the op channel (8 in the code)
    MaxFailures,    \* MAX_CONSECUTIVE_FAILURES (20)
    MaxReauth403s,  \* MAX_REAUTH_403S (3)
    MaxAttempts     \* SEND_MAX_ATTEMPTS (6)

ASSUME LimitAssumption ==
    /\ OpCapacity \in Nat \ {0}
    /\ MaxFailures \in Nat \ {0}
    /\ MaxReauth403s \in Nat \ {0}
    /\ MaxAttempts \in Nat \ {0}

(* WorkerOp: Send carries its timestamp; SyncContacts and ResolveUsername  *)
(* are answered in place and behave alike here.                            *)
StartReceive == [kind |-> "start"]
OtherOp == [kind |-> "other"]
SendOp(ts) == [kind |-> "send", ts |-> ts]
WorkerOp == {StartReceive, OtherOp} \cup {SendOp(ts) : ts \in Timestamps}

(* PumpExit: the op, the reopening or the end that waits for the profile   *)
(* lookups.                                                                *)
NotLeaving == [kind |-> "none"]
Reopen == [kind |-> "reopen"]
Shutdown == [kind |-> "shutdown"]
PumpExit == {Reopen, Shutdown} \cup (WorkerOp \ {StartReceive})

(* last_identified_close_code: what the task tells apart. *)
CloseCode == {"none", "idle", "reauth", "conflict"}

VARIABLES
    ops,            \* the op channel
    connected,      \* the dispatcher still holds the op sender
    leaving,        \* the PumpExit, while profiles are looked up
    fetches,        \* pending_profile_fetches
    tried,          \* fetched_or_failed
    pc,             \* where the task waits
    receiving,      \* StartReceive has been seen
    failures,       \* consecutive_failures
    reauth403s,     \* consecutive_reauth_403s
    closeCode,      \* close code of the last identified websocket
    attempt,        \* handle_send: the attempt under way
    sending,        \* handle_send: its timestamp, a set of at most one
    pending,        \* pending_unconfirmed_sends
    accepted,       \* history: timestamps put into the op channel
    completes,      \* history: SendComplete events per timestamp
    errors,         \* history: SendError events per timestamp
    exit            \* history: why the task ended

vars == <<ops, connected, leaving, fetches, tried, pc, receiving, failures, reauth403s, closeCode, attempt, sending,
          pending, accepted, completes, errors, exit>>

channelVars == <<ops, connected, accepted>>
profileVars == <<leaving, fetches, tried>>
streamVars == <<receiving, failures, reauth403s, closeCode>>
sendVars == <<attempt, sending, pending, completes, errors>>

Pc == {"park", "backoff", "opening", "pump", "profiles", "attempt", "retry", "exited"}

Init ==
    /\ ops = <<>>
    /\ connected = TRUE
    /\ leaving = NotLeaving
    /\ fetches = {}
    /\ tried = {}
    /\ pc = "park"
    /\ receiving = FALSE
    /\ failures = 0
    /\ reauth403s = 0
    /\ closeCode = "none"
    /\ attempt = 0
    /\ sending = {}
    /\ pending = {}
    /\ accepted = {}
    /\ completes = [ts \in Timestamps |-> 0]
    /\ errors = [ts \in Timestamps |-> 0]
    /\ exit = "running"

-----------------------------------------------------------------------------
(* The dispatcher's end of the channel.                                    *)

(* ops.send(..).await: waits while the channel is full. *)
Forward(op) ==
    /\ connected
    /\ pc # "exited"
    /\ Len(ops) < OpCapacity
    /\ op.kind = "send" => op.ts \notin accepted
    /\ ops' = Append(ops, op)
    /\ accepted' = IF op.kind = "send" THEN accepted \cup {op.ts} ELSE accepted
    /\ UNCHANGED <<connected, pc, exit>>
    /\ UNCHANGED <<profileVars, streamVars, sendVars>>

(* Logout, Shutdown, or a new task: the sender is dropped. *)
Disconnect ==
    /\ connected
    /\ connected' = FALSE
    /\ UNCHANGED <<ops, accepted, pc, exit>>
    /\ UNCHANGED <<profileVars, streamVars, sendVars>>

-----------------------------------------------------------------------------
(* The top of the outer loop.                                              *)

(* Park until StartReceive; afterwards back off after a failure, else open. *)
LoopTop(r, f) == IF ~r THEN "park" ELSE IF f > 0 THEN "backoff" ELSE "opening"

(* Taking one op with the Manager free: handle_send starts, the others are *)
(* answered at once.  The websocket may have died while the op ran.        *)
RunOp(op) ==
    \/ /\ op.kind = "send"
       /\ pc' = "attempt"
       /\ attempt' = 1
       /\ sending' = {op.ts}
       /\ UNCHANGED closeCode
    \/ /\ op.kind = "other"
       /\ pc' = LoopTop(receiving, failures)
       /\ closeCode' \in CloseCode
       /\ UNCHANGED <<attempt, sending>>

park_recv ==
    /\ pc = "park"
    /\ ops # <<>>
    /\ ops' = Tail(ops)
    /\ \/ /\ Head(ops).kind = "start"
          /\ receiving' = TRUE
          /\ pc' = LoopTop(TRUE, failures)
          /\ UNCHANGED <<closeCode, attempt, sending>>
       \/ RunOp(Head(ops)) /\ UNCHANGED receiving
    /\ UNCHANGED <<connected, accepted, failures, reauth403s, pending,
                   completes, errors, exit>>
    /\ UNCHANGED profileVars

channel_closed_while_parked ==
    /\ pc = "park"
    /\ ops = <<>>
    /\ ~connected
    /\ pc' = "exited"
    /\ exit' = "shutdown"
    /\ UNCHANGED channelVars
    /\ UNCHANGED <<profileVars, streamVars, sendVars>>

(* Leaving the pump: the stream is dropped, profiles are looked up next. *)
Leaves(how) ==
    /\ pc' = "profiles"
    /\ leaving' = how

(* The channel is closed and drained. *)
channel_closed ==
    /\ ops = <<>>
    /\ ~connected
    /\ \/ pc = "park" /\ pc' = "exited" /\ exit' = "shutdown" /\ UNCHANGED leaving
       \/ pc = "pump" /\ Leaves(Shutdown) /\ UNCHANGED exit
    /\ UNCHANGED <<fetches, tried>>
    /\ UNCHANGED <<channelVars, streamVars, sendVars>>

backoff_without_limit ==
    /\ pc = "backoff"
    /\ pc' = "opening"
    /\ UNCHANGED exit
    /\ UNCHANGED channelVars
    /\ UNCHANGED <<profileVars, streamVars, sendVars>>

backoff ==
    /\ pc = "backoff"
    /\ \/ /\ failures >= MaxFailures
          /\ pc' = "exited"
          /\ exit' = "gave up"
          /\ ops' = <<>>
       \/ /\ failures < MaxFailures
          /\ pc' = "opening"
          /\ UNCHANGED <<exit, ops>>
    /\ UNCHANGED <<connected, accepted>>
    /\ UNCHANGED <<profileVars, streamVars, sendVars>>

-----------------------------------------------------------------------------
(* receive_messages().                                                     *)

open_ok ==
    /\ pc = "opening"
    /\ pc' = "pump"
    /\ closeCode' = "none"
    /\ UNCHANGED <<receiving, failures, reauth403s, exit>>
    /\ UNCHANGED <<channelVars, profileVars, sendVars>>

(* The open fails; is403 is whether the handshake was answered 403.  The   *)
(* exits drop the receiver, and the queued ops with it.                    *)
open_err(is403) ==
    LET counts == closeCode = "reauth" /\ is403
        reauth == IF counts THEN reauth403s + 1 ELSE reauth403s
    IN  /\ pc = "opening"
        /\ failures' = failures + 1
        /\ \/ /\ closeCode = "conflict"
              /\ pc' = "exited"
              /\ exit' = "conflict"
              /\ ops' = <<>>
              /\ UNCHANGED reauth403s
           \/ /\ closeCode # "conflict"
              /\ counts
              /\ reauth >= MaxReauth403s
              /\ pc' = "exited"
              /\ exit' = "auth expired"
              /\ ops' = <<>>
              /\ reauth403s' = reauth
           \/ /\ closeCode # "conflict"
              /\ ~(counts /\ reauth >= MaxReauth403s)
              /\ pc' = "backoff"
              /\ reauth403s' = reauth
              /\ UNCHANGED <<ops, exit>>
        /\ UNCHANGED <<receiving, closeCode, connected, accepted>>
        /\ UNCHANGED <<profileVars, sendVars>>

-----------------------------------------------------------------------------
(* The pump.                                                               *)

stream_item_keeping_pending(S, F) ==
    /\ pc = "pump"
    /\ fetches' = fetches \cup F
    /\ failures' = 0
    /\ reauth403s' = 0
    /\ completes' = [ts \in Timestamps |->
                        IF ts \in S \cap pending THEN completes[ts] + 1 ELSE completes[ts]]
    /\ UNCHANGED <<pc, receiving, closeCode, attempt, sending, pending, errors, exit>>
    /\ UNCHANGED <<channelVars, leaving, tried>>

(* One stream item: progress, so both counters are cleared, then           *)
(* process_received; S is what a DELIVERY receipt names, F the sender      *)
(* whose profile is to be looked up, both empty otherwise.                 *)
stream_item(S, F) ==
    /\ pc = "pump"
    /\ fetches' = fetches \cup F
    /\ failures' = 0
    /\ reauth403s' = 0
    /\ pending' = pending \ S
    /\ completes' = [ts \in Timestamps |->
                        IF ts \in S \cap pending THEN completes[ts] + 1 ELSE completes[ts]]
    /\ UNCHANGED <<pc, receiving, closeCode, attempt, sending, errors, exit>>
    /\ UNCHANGED <<channelVars, leaving, tried>>

stream_end(code) ==
    /\ pc = "pump"
    /\ closeCode' = code
    /\ Leaves(Reopen)
    /\ UNCHANGED <<receiving, failures, reauth403s, exit, fetches, tried>>
    /\ UNCHANGED <<channelVars, sendVars>>

(* An op while streaming: StartReceive is dropped, any other drops the     *)
(* stream and is kept while profiles are looked up.                        *)
pump_op ==
    /\ pc = "pump"
    /\ ops # <<>>
    /\ ops' = Tail(ops)
    /\ IF Head(ops).kind = "start" THEN UNCHANGED <<pc, leaving>> ELSE Leaves(Head(ops))
    /\ UNCHANGED <<connected, accepted, exit, fetches, tried>>
    /\ UNCHANGED <<streamVars, sendVars>>

(* One lookup over the websocket, found or not; who was tried before is    *)
(* passed over.                                                            *)
fetch_profile(s) ==
    /\ pc = "profiles"
    /\ s \in fetches \ tried
    /\ tried' = tried \cup {s}
    /\ closeCode' \in CloseCode
    /\ UNCHANGED <<leaving, fetches, pc, exit, receiving, failures, reauth403s>>
    /\ UNCHANGED <<channelVars, sendVars>>

(* The queue is empty: what the pump was left for is done. *)
pump_left ==
    /\ pc = "profiles"
    /\ fetches \subseteq tried
    /\ fetches' = {}
    /\ leaving' = NotLeaving
    /\ \/ leaving \in WorkerOp /\ RunOp(leaving) /\ UNCHANGED <<failures, exit>>
       \/ /\ leaving = Reopen
          /\ failures' = failures + 1
          /\ pc' = "backoff"
          /\ UNCHANGED <<closeCode, attempt, sending, exit>>
       \/ /\ leaving = Shutdown
          /\ pc' = "exited"
          /\ exit' = "shutdown"
          /\ UNCHANGED <<failures, closeCode, attempt, sending>>
    /\ UNCHANGED <<tried, receiving, reauth403s, pending, completes, errors>>
    /\ UNCHANGED channelVars

sweep_while_pumping(ts) ==
    /\ pc = "pump"
    /\ ts \in pending
    /\ pending' = pending \ {ts}
    /\ errors' = [errors EXCEPT ![ts] = @ + 1]
    /\ UNCHANGED <<pc, attempt, sending, completes, exit>>
    /\ UNCHANGED <<channelVars, profileVars, streamVars>>

(* sweep_expired_pending_sends: the grace of ts has passed. *)
sweep(ts) ==
    /\ pc \in {"park", "pump"}
    /\ ts \in pending
    /\ pending' = pending \ {ts}
    /\ errors' = [errors EXCEPT ![ts] = @ + 1]
    /\ UNCHANGED <<pc, attempt, sending, completes, exit>>
    /\ UNCHANGED <<channelVars, profileVars, streamVars>>

-----------------------------------------------------------------------------
(* handle_send.                                                            *)

SendReturns ==
    /\ pc' = LoopTop(receiving, failures)
    /\ closeCode' \in CloseCode
    /\ sending' = {}
    /\ attempt' = 0

(* The message went out; the flush and the commit only log their errors. *)
send_ok(ts) ==
    /\ pc = "attempt"
    /\ ts \in sending
    /\ completes' = [completes EXCEPT ![ts] = @ + 1]
    /\ SendReturns
    /\ UNCHANGED <<receiving, failures, reauth403s, pending, errors, exit>>
    /\ UNCHANGED <<channelVars, profileVars>>

(* handle_send reports the error and returns. *)
SendErrs(ts) ==
    /\ pc = "attempt"
    /\ ts \in sending
    /\ errors' = [errors EXCEPT ![ts] = @ + 1]
    /\ SendReturns
    /\ UNCHANGED <<receiving, failures, reauth403s, pending, completes, exit>>
    /\ UNCHANGED <<channelVars, profileVars>>

(* The recipient is no UUID, an unknown phone number, or the contacts      *)
(* cannot be read: refused before the first attempt.                       *)
send_refused(ts) == attempt = 1 /\ SendErrs(ts)

(* An attempt meets a refused batch, a panic, or any error but a closing   *)
(* websocket.                                                              *)
send_failed(ts) == SendErrs(ts)

(* "websocket closing" with attempts left: sleep, then try again. *)
send_retry ==
    /\ pc = "attempt"
    /\ attempt < MaxAttempts
    /\ pc' = "retry"
    /\ UNCHANGED <<attempt, sending, pending, completes, errors, exit>>
    /\ UNCHANGED <<channelVars, profileVars, streamVars>>

send_wake ==
    /\ pc = "retry"
    /\ pc' = "attempt"
    /\ attempt' = attempt + 1
    /\ UNCHANGED <<sending, pending, completes, errors, exit>>
    /\ UNCHANGED <<channelVars, profileVars, streamVars>>

send_deferred_unrecorded(ts) ==
    /\ pc = "attempt"
    /\ attempt >= MaxAttempts
    /\ ts \in sending
    /\ SendReturns
    /\ UNCHANGED <<receiving, failures, reauth403s, pending, completes, errors, exit>>
    /\ UNCHANGED <<channelVars, profileVars>>

(* Out of attempts: wait for a delivery receipt instead of an event. *)
send_deferred(ts) ==
    /\ pc = "attempt"
    /\ attempt >= MaxAttempts
    /\ ts \in sending
    /\ pending' = pending \cup {ts}
    /\ SendReturns
    /\ UNCHANGED <<receiving, failures, reauth403s, completes, errors, exit>>
    /\ UNCHANGED <<channelVars, profileVars>>

-----------------------------------------------------------------------------
Task ==
    \/ park_recv
    \/ channel_closed
    \/ backoff
    \/ open_ok
    \/ \E is403 \in BOOLEAN : open_err(is403)
    \/ pump_op
    \/ \E s \in Senders : fetch_profile(s)
    \/ pump_left
    \/ \E ts \in Timestamps : send_ok(ts) \/ send_refused(ts) \/ send_failed(ts) \/ send_deferred(ts)
    \/ send_retry
    \/ send_wake

(* What Signal and the clock do to a pumping task. *)
World ==
    \/ \E S \in SUBSET Timestamps : stream_item(S, {})
    \/ \E s \in Senders : stream_item({}, {s})
    \/ \E code \in CloseCode : stream_end(code)
    \/ \E ts \in Timestamps : sweep(ts)

Next ==
    \/ \E op \in WorkerOp : Forward(op)
    \/ Disconnect
    \/ Task
    \/ World

(* Fairness: the executor polls every ready task (WF of Task: an awaited   *)
(* call returns or fails); select! picks pseudo-randomly among ready arms, *)
(* so its op_rx arm is taken if the pump comes back often enough; the      *)
(* sweep runs every second and deadlines pass.                             *)
Fairness ==
    /\ WF_vars(Task)
    /\ SF_vars(pump_op \/ channel_closed)
    /\ \A ts \in Timestamps : SF_vars(sweep(ts))

Spec == Init /\ [][Next]_vars /\ Fairness

-----------------------------------------------------------------------------
(* Properties.                                                             *)

(* The types of the task's state; the counters stay within their limits. *)
TypeOK ==
    /\ ops \in Seq(WorkerOp) /\ Len(ops) <= OpCapacity
    /\ connected \in BOOLEAN
    /\ pc \in Pc
    /\ leaving \in PumpExit \cup {NotLeaving} /\ (leaving = NotLeaving <=> pc # "profiles")
    /\ fetches \subseteq Senders /\ tried \subseteq Senders
    /\ receiving \in BOOLEAN
    /\ failures \in 0..MaxFailures
    /\ reauth403s \in 0..MaxReauth403s
    /\ closeCode \in CloseCode
    /\ attempt \in 0..MaxAttempts
    /\ sending \subseteq Timestamps
    /\ pending \subseteq Timestamps
    /\ accepted \subseteq Timestamps
    /\ completes \in [Timestamps -> Nat]
    /\ errors \in [Timestamps -> Nat]
    /\ exit \in {"running", "shutdown", "gave up", "conflict", "auth expired"}

(* In the channel, or taken from it and kept until the lookups are done. *)
Queued == {ts \in Timestamps : leaving = SendOp(ts) \/ \E i \in 1..Len(ops) : ops[i] = SendOp(ts)}

(* A send is reported at most once, whatever mix of retries, deferral,     *)
(* late delivery receipts and expired grace windows it went through, and   *)
(* a send still waiting (queued, under way or deferred) has no report yet. *)
OneOutcome ==
    \A ts \in Timestamps :
        /\ completes[ts] + errors[ts] <= 1
        /\ ts \in Queued \cup sending \cup pending => completes[ts] + errors[ts] = 0

(* No accepted send is forgotten while the task lives: it is queued, under *)
(* way, deferred, or reported.                                             *)
NoSendForgotten ==
    pc # "exited" =>
        \A ts \in accepted :
            ts \in Queued \cup sending \cup pending \/ completes[ts] + errors[ts] = 1

(* Every accepted send is reported, or the task ends.  Needs the op        *)
(* channel to be served in every state of the receive loop and the grace   *)
(* window to be swept while parked as well as while pumping.               *)
AnsweredOrExited ==
    \A ts \in Timestamps :
        ts \in accepted ~> (completes[ts] + errors[ts] > 0 \/ pc = "exited")

(* Once the dispatcher has dropped the sender (Logout, Shutdown), the task *)
(* ends, in whatever state of the receive loop or of a send it was.        *)
DisconnectEnds == ~connected ~> pc = "exited"
=============================================================================
