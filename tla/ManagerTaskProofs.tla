------------------------- MODULE ManagerTaskProofs -------------------------
(***************************************************************************)
(* Theorems about ManagerTask, for every set of sends and senders and      *)
(* every limit: the task's types and counters, one outcome per send, and   *)
(* no send forgotten.                                                      *)
(***************************************************************************)
EXTENDS ManagerTask, TLAPS

-----------------------------------------------------------------------------
(* Where a send can wait.                                                  *)

(* In the channel s. *)
Channel(s) == {ts \in Timestamps : \E i \in 1..Len(s) : s[i] = SendOp(ts)}

(* Taken from the channel, kept until the lookups are done. *)
Held == {ts \in Timestamps : leaving = SendOp(ts)}

Waiting == Channel(ops) \cup Held \cup sending \cup pending

Unique(s) ==
    \A i, j \in 1..Len(s) : s[i] = s[j] /\ s[i].kind = "send" => i = j

(* A send waits in one place, and handle_send runs for one at a time. *)
Apart ==
    /\ Unique(ops)
    /\ Channel(ops) \cap Held = {}
    /\ (Channel(ops) \cup Held) \cap (sending \cup pending) = {}
    /\ sending \cap pending = {}
    /\ \A t, u \in sending : t = u
    /\ pc \notin {"attempt", "retry"} => sending = {}

(* What has been reported of a send, by where it is. *)
Counted ==
    \A ts \in Timestamps :
        /\ completes[ts] + errors[ts] <= 1
        /\ ts \notin accepted \/ ts \in Waiting => completes[ts] + errors[ts] = 0
        /\ ts \in Waiting => ts \in accepted
        /\ pc # "exited" /\ ts \in accepted /\ ts \notin Waiting => completes[ts] + errors[ts] = 1

(* Room for one more failure, one more 403, one more attempt. *)
Limits ==
    /\ pc \in {"opening", "pump", "profiles"} => failures < MaxFailures
    /\ pc # "exited" => reauth403s < MaxReauth403s
    /\ pc = "retry" => attempt < MaxAttempts

(* The inductive invariant. *)
IInv == TypeOK /\ Limits /\ Apart /\ Counted

-----------------------------------------------------------------------------
(* Operations and channels.                                                *)

(* The sends an op or a PumpExit stands for: one, or none. *)
Only(op) == {ts \in Timestamps : op = SendOp(ts)}

(* Ops are told apart by their kind, sends by their timestamp, and none is  *)
(* mistaken for another reason to leave the pump.                           *)
LEMMA OpKinds ==
    /\ \A op \in WorkerOp : op.kind \in {"start", "other", "send"}
    /\ \A op \in WorkerOp : op.kind = "send" =>
          op.ts \in Timestamps /\ op = SendOp(op.ts) /\ Only(op) = {op.ts}
    /\ \A op \in WorkerOp : op.kind # "send" => Only(op) = {}
    /\ \A op \in WorkerOp : op.kind # "start" => op \in PumpExit
    /\ \A op \in PumpExit : op # NotLeaving
    /\ \A op \in PumpExit \cap WorkerOp : op # Reopen /\ op # Shutdown /\ op.kind # "start"
    /\ Reopen \in PumpExit /\ Shutdown \in PumpExit /\ Reopen # Shutdown
    /\ Only(NotLeaving) = {} /\ Only(Reopen) = {} /\ Only(Shutdown) = {}
<1>1. \A ts \in Timestamps : SendOp(ts).kind = "send" /\ SendOp(ts).ts = ts
  BY DEF SendOp
<1>2. /\ NotLeaving.kind = "none" /\ Reopen.kind = "reopen" /\ Shutdown.kind = "shutdown"
      /\ StartReceive.kind = "start" /\ OtherOp.kind = "other"
  BY DEF NotLeaving, Reopen, Shutdown, StartReceive, OtherOp
<1>3. \A op \in WorkerOp : op = StartReceive \/ op = OtherOp
      \/ \E ts \in Timestamps : op = SendOp(ts)
  BY DEF WorkerOp
<1> HIDE DEF SendOp, NotLeaving, Reopen, Shutdown, StartReceive, OtherOp
<1>4. \A op \in WorkerOp : op.kind \in {"start", "other", "send"}
  BY <1>1, <1>2, <1>3
<1>5. \A op \in WorkerOp : op.kind = "send" =>
          op.ts \in Timestamps /\ op = SendOp(op.ts) /\ Only(op) = {op.ts}
  BY <1>1, <1>2, <1>3 DEF Only
<1>6. \A op \in WorkerOp : op.kind # "send" => Only(op) = {}
  BY <1>1 DEF Only
<1>7. \A op \in WorkerOp : op.kind # "start" => op \in PumpExit
  BY <1>2 DEF PumpExit
<1>8. \A op \in PumpExit : op # NotLeaving
  BY <1>1, <1>2, <1>3 DEF PumpExit
<1>9. \A op \in PumpExit \cap WorkerOp : op # Reopen /\ op # Shutdown /\ op.kind # "start"
  BY <1>1, <1>2, <1>3 DEF PumpExit
<1>10. Reopen \in PumpExit /\ Shutdown \in PumpExit /\ Reopen # Shutdown
  BY <1>2 DEF PumpExit
<1>11. Only(NotLeaving) = {} /\ Only(Reopen) = {} /\ Only(Shutdown) = {}
  BY <1>1, <1>2 DEF Only
<1> QED BY <1>4, <1>5, <1>6, <1>7, <1>8, <1>9, <1>10, <1>11

(* An empty channel holds no send. *)
LEMMA ChannelEmpty == Channel(<<>>) = {} /\ Unique(<<>>) /\ <<>> \in Seq(WorkerOp) /\ Len(<<>>) = 0
BY DEF Channel, Unique

(* What a channel holds after a send into it. *)
LEMMA ChannelAppend ==
    ASSUME NEW s \in Seq(WorkerOp), NEW op \in WorkerOp
    PROVE  /\ Channel(Append(s, op)) = Channel(s) \cup Only(op)
           /\ Unique(s) /\ Only(op) \cap Channel(s) = {} => Unique(Append(s, op))
<1> DEFINE r == Append(s, op)
<1>1. /\ Len(r) = Len(s) + 1 /\ Len(s) \in Nat
      /\ \A i \in 1..Len(s) : r[i] = s[i] /\ s[i] \in WorkerOp
      /\ r[Len(s) + 1] = op
  OBVIOUS
<1>2. Channel(r) = Channel(s) \cup Only(op)
  <2>1. ASSUME NEW ts \in Channel(r) PROVE ts \in Channel(s) \cup Only(op)
    <3>1. PICK i \in 1..Len(r) : r[i] = SendOp(ts)
      BY <2>1 DEF Channel
    <3>2. i \in 1..Len(s) \/ i = Len(s) + 1
      BY <1>1
    <3> QED BY <1>1, <2>1, <3>1, <3>2 DEF Channel, Only
  <2>2. ASSUME NEW ts \in Channel(s) PROVE ts \in Channel(r)
    <3>1. PICK i \in 1..Len(s) : s[i] = SendOp(ts)
      BY <2>2 DEF Channel
    <3>2. i \in 1..Len(r) /\ r[i] = SendOp(ts)
      BY <1>1, <3>1
    <3> QED BY <2>2, <3>2 DEF Channel
  <2>3. ASSUME NEW ts \in Only(op) PROVE ts \in Channel(r)
    <3>1. Len(s) + 1 \in 1..Len(r) /\ r[Len(s) + 1] = SendOp(ts)
      BY <1>1, <2>3 DEF Only
    <3> QED BY <2>3, <3>1 DEF Channel, Only
  <2> QED BY <2>1, <2>2, <2>3
<1>3. ASSUME Unique(s), Only(op) \cap Channel(s) = {} PROVE Unique(r)
  <2> SUFFICES ASSUME NEW i \in 1..Len(r), NEW j \in 1..Len(r), r[i] = r[j], r[i].kind = "send"
               PROVE  i = j
    BY DEF Unique
  <2>1. ASSUME NEW k \in 1..Len(s), r[k] = op PROVE op.kind # "send"
    <3> SUFFICES ASSUME op.kind = "send" PROVE FALSE
      OBVIOUS
    <3>1. op.ts \in Only(op) /\ op = SendOp(op.ts) /\ op.ts \in Timestamps
      BY OpKinds
    <3>2. op.ts \in Channel(s)
      BY <1>1, <2>1, <3>1 DEF Channel
    <3> QED BY <1>3, <3>1, <3>2
  <2>2. (i \in 1..Len(s) \/ i = Len(s) + 1) /\ (j \in 1..Len(s) \/ j = Len(s) + 1)
    BY <1>1
  <2> QED BY <1>1, <1>3, <2>1, <2>2 DEF Unique
<1> QED BY <1>2, <1>3

(* What a channel holds before its first op is taken. *)
LEMMA ChannelTail ==
    ASSUME NEW s \in Seq(WorkerOp), s # <<>>
    PROVE  /\ Head(s) \in WorkerOp /\ Tail(s) \in Seq(WorkerOp) /\ Len(Tail(s)) = Len(s) - 1
           /\ Channel(s) = Only(Head(s)) \cup Channel(Tail(s))
           /\ Unique(s) => Unique(Tail(s)) /\ Only(Head(s)) \cap Channel(Tail(s)) = {}
<1> DEFINE r == Tail(s)
<1>1. /\ Head(s) \in WorkerOp /\ r \in Seq(WorkerOp)
      /\ Len(s) \in Nat \ {0} /\ Len(r) = Len(s) - 1 /\ s[1] = Head(s)
      /\ \A i \in 1..Len(r) : r[i] = s[i + 1]
  OBVIOUS
<1>2. \A i \in 2..Len(s) : i - 1 \in 1..Len(r) /\ r[i - 1] = s[i]
  BY <1>1
<1>3. Channel(s) = Only(Head(s)) \cup Channel(r)
  <2>1. ASSUME NEW ts \in Channel(s) PROVE ts \in Only(Head(s)) \cup Channel(r)
    <3>1. PICK i \in 1..Len(s) : s[i] = SendOp(ts)
      BY <2>1 DEF Channel
    <3>2. i = 1 \/ i \in 2..Len(s)
      BY <1>1
    <3> QED BY <1>1, <1>2, <2>1, <3>1, <3>2 DEF Channel, Only
  <2>2. ASSUME NEW ts \in Only(Head(s)) PROVE ts \in Channel(s)
    <3>1. 1 \in 1..Len(s) /\ s[1] = SendOp(ts)
      BY <1>1, <2>2 DEF Only
    <3> QED BY <2>2, <3>1 DEF Channel, Only
  <2>3. ASSUME NEW ts \in Channel(r) PROVE ts \in Channel(s)
    <3>1. PICK i \in 1..Len(r) : r[i] = SendOp(ts)
      BY <2>3 DEF Channel
    <3>2. i + 1 \in 1..Len(s) /\ s[i + 1] = SendOp(ts)
      BY <1>1, <3>1
    <3> QED BY <2>3, <3>2 DEF Channel
  <2> QED BY <2>1, <2>2, <2>3
<1>4. ASSUME Unique(s) PROVE Unique(r)
  <2> SUFFICES ASSUME NEW i \in 1..Len(r), NEW j \in 1..Len(r), r[i] = r[j], r[i].kind = "send"
               PROVE  i = j
    BY DEF Unique
  <2>1. i + 1 \in 1..Len(s) /\ j + 1 \in 1..Len(s) /\ s[i + 1] = s[j + 1] /\ s[i + 1].kind = "send"
    BY <1>1
  <2>2. i + 1 = j + 1
    BY <1>4, <2>1 DEF Unique
  <2> QED BY <2>2, <1>1
<1>5. ASSUME Unique(s), NEW ts \in Only(Head(s)) PROVE ts \notin Channel(r)
  <2> SUFFICES ASSUME ts \in Channel(r) PROVE FALSE
    OBVIOUS
  <2>1. PICK i \in 1..Len(r) : r[i] = SendOp(ts)
    BY DEF Channel
  <2>2. i + 1 \in 1..Len(s) /\ 1 \in 1..Len(s) /\ s[i + 1] = s[1] /\ i + 1 # 1
    BY <1>1, <1>5, <2>1 DEF Only
  <2>3. s[1].kind = "send"
    BY <1>1, <1>5 DEF Only, SendOp
  <2> QED BY <1>5, <2>2, <2>3 DEF Unique
<1> QED BY <1>1, <1>3, <1>4, <1>5

-----------------------------------------------------------------------------
(* The types and the limits.                                               *)

ChannelTypes ==
    /\ ops \in Seq(WorkerOp) /\ Len(ops) <= OpCapacity /\ connected \in BOOLEAN
    /\ accepted \subseteq Timestamps

TaskTypes ==
    /\ pc \in Pc /\ receiving \in BOOLEAN /\ closeCode \in CloseCode
    /\ leaving \in PumpExit \cup {NotLeaving} /\ (leaving = NotLeaving <=> pc # "profiles")
    /\ fetches \subseteq Senders /\ tried \subseteq Senders
    /\ exit \in {"running", "shutdown", "gave up", "conflict", "auth expired"}

CounterTypes ==
    failures \in 0..MaxFailures /\ reauth403s \in 0..MaxReauth403s /\ attempt \in 0..MaxAttempts

SendTypes ==
    /\ sending \subseteq Timestamps /\ pending \subseteq Timestamps
    /\ completes \in [Timestamps -> Nat] /\ errors \in [Timestamps -> Nat]

(* Every action keeps the types and leaves room below the limits. *)
LEMMA TypeStep ==
    ASSUME TypeOK, Limits, [Next]_vars
    PROVE  TypeOK' /\ Limits'
<1> USE LimitAssumption
<1> DEFINE Types == ChannelTypes /\ TaskTypes /\ CounterTypes /\ Limits /\ SendTypes
<1>a. ChannelTypes
  BY DEF TypeOK, ChannelTypes
<1>c. TaskTypes
  BY DEF TypeOK, TaskTypes
<1>d. CounterTypes /\ Limits
  BY DEF TypeOK, CounterTypes
<1>e. SendTypes
  BY DEF TypeOK, SendTypes
<1>b. Types' => TypeOK' /\ Limits'
  BY DEF TypeOK, ChannelTypes, TaskTypes, CounterTypes, SendTypes
<1>0. CASE UNCHANGED vars
  <2>1. ChannelTypes'
    BY <1>0, <1>a DEF ChannelTypes, vars
  <2>2. TaskTypes'
    BY <1>0, <1>c DEF TaskTypes, vars
  <2>3. CounterTypes' /\ Limits'
    BY <1>0, <1>d DEF CounterTypes, Limits, vars
  <2>4. SendTypes'
    BY <1>0, <1>e DEF SendTypes, vars
  <2> QED BY <1>b, <2>1, <2>2, <2>3, <2>4
<1>1. ASSUME NEW op \in WorkerOp, Forward(op) PROVE Types'
  <2>1. ChannelTypes'
    BY <1>a, <1>1, OpKinds DEF ChannelTypes, Forward, profileVars, streamVars, sendVars
  <2>2. TaskTypes'
    BY <1>c, <1>1 DEF TaskTypes, Pc, CloseCode, Forward, profileVars, streamVars, sendVars
  <2>3. CounterTypes' /\ Limits'
    BY <1>d, <1>1 DEF CounterTypes, Limits, Forward, profileVars, streamVars, sendVars
  <2>4. SendTypes'
    BY <1>e, <1>1 DEF SendTypes, Forward, profileVars, streamVars, sendVars
  <2> QED BY <2>1, <2>2, <2>3, <2>4
<1>2. ASSUME Disconnect PROVE Types'
  <2>1. ChannelTypes'
    BY <1>a, <1>2 DEF ChannelTypes, Disconnect, profileVars, streamVars, sendVars
  <2>2. TaskTypes'
    BY <1>c, <1>2 DEF TaskTypes, Pc, CloseCode, Disconnect, profileVars, streamVars, sendVars
  <2>3. CounterTypes' /\ Limits'
    BY <1>d, <1>2 DEF CounterTypes, Limits, Disconnect, profileVars, streamVars, sendVars
  <2>4. SendTypes'
    BY <1>e, <1>2 DEF SendTypes, Disconnect, profileVars, streamVars, sendVars
  <2> QED BY <2>1, <2>2, <2>3, <2>4
<1>3. ASSUME park_recv PROVE Types'
  <2>1. ChannelTypes'
    BY <1>a, <1>3, ChannelTail DEF ChannelTypes, park_recv, RunOp, LoopTop, profileVars
  <2>2. TaskTypes'
    BY <1>c, <1>3 DEF TaskTypes, Pc, CloseCode, park_recv, RunOp, LoopTop, profileVars
  <2>3. CounterTypes' /\ Limits'
    BY <1>d, <1>3 DEF CounterTypes, Limits, park_recv, RunOp, LoopTop, profileVars
  <2>4. SendTypes'
    BY <1>e, <1>3, <1>a, ChannelTail, OpKinds
       DEF SendTypes, ChannelTypes, park_recv, RunOp, LoopTop, profileVars
  <2> QED BY <2>1, <2>2, <2>3, <2>4
<1>4. ASSUME channel_closed PROVE Types'
  <2>1. ChannelTypes'
    BY <1>a, <1>4 DEF ChannelTypes, channel_closed, Leaves, channelVars, streamVars, sendVars
  <2>2. TaskTypes'
    BY <1>c, <1>4, OpKinds
       DEF TaskTypes, Pc, CloseCode, channel_closed, Leaves, channelVars, streamVars, sendVars
  <2>3. CounterTypes' /\ Limits'
    BY <1>d, <1>4
       DEF CounterTypes, Limits, channel_closed, Leaves, channelVars, streamVars, sendVars
  <2>4. SendTypes'
    BY <1>e, <1>4 DEF SendTypes, channel_closed, Leaves, channelVars, streamVars, sendVars
  <2> QED BY <2>1, <2>2, <2>3, <2>4
<1>5. ASSUME backoff PROVE Types'
  <2>1. ChannelTypes'
    <3>1. ops' \in {ops, <<>>} /\ UNCHANGED <<connected, accepted>>
      BY <1>5 DEF backoff
    <3>2. ops' \in Seq(WorkerOp) /\ Len(ops') <= OpCapacity
      <4>1. CASE ops' = ops
        BY <1>a, <4>1 DEF ChannelTypes
      <4>2. CASE ops' = <<>>
        BY <4>2, ChannelEmpty
      <4> QED BY <3>1, <4>1, <4>2
    <3> QED BY <1>a, <3>1, <3>2 DEF ChannelTypes
  <2>2. TaskTypes'
    BY <1>c, <1>5 DEF TaskTypes, Pc, CloseCode, backoff, profileVars, streamVars, sendVars
  <2>3. CounterTypes' /\ Limits'
    BY <1>d, <1>5 DEF CounterTypes, Limits, backoff, profileVars, streamVars, sendVars
  <2>4. SendTypes'
    BY <1>e, <1>5 DEF SendTypes, backoff, profileVars, streamVars, sendVars
  <2> QED BY <2>1, <2>2, <2>3, <2>4
<1>6. ASSUME open_ok PROVE Types'
  <2>1. ChannelTypes'
    BY <1>a, <1>6 DEF ChannelTypes, open_ok, channelVars, profileVars, sendVars
  <2>2. TaskTypes'
    BY <1>c, <1>6 DEF TaskTypes, Pc, CloseCode, open_ok, channelVars, profileVars, sendVars
  <2>3. CounterTypes' /\ Limits'
    BY <1>d, <1>6 DEF CounterTypes, Limits, open_ok, channelVars, profileVars, sendVars
  <2>4. SendTypes'
    BY <1>e, <1>6 DEF SendTypes, open_ok, channelVars, profileVars, sendVars
  <2> QED BY <2>1, <2>2, <2>3, <2>4
<1>7. ASSUME NEW is403 \in BOOLEAN, open_err(is403) PROVE Types'
  <2>1. ChannelTypes'
    <3>1. ops' \in {ops, <<>>} /\ UNCHANGED <<connected, accepted>>
      BY <1>7 DEF open_err
    <3>2. ops' \in Seq(WorkerOp) /\ Len(ops') <= OpCapacity
      <4>1. CASE ops' = ops
        BY <1>a, <4>1 DEF ChannelTypes
      <4>2. CASE ops' = <<>>
        BY <4>2, ChannelEmpty
      <4> QED BY <3>1, <4>1, <4>2
    <3> QED BY <1>a, <3>1, <3>2 DEF ChannelTypes
  <2>2. TaskTypes'
    BY <1>c, <1>7 DEF TaskTypes, Pc, CloseCode, open_err, profileVars, sendVars
  <2>3. CounterTypes' /\ Limits'
    <3>1. /\ failures' = failures + 1 /\ failures < MaxFailures /\ reauth403s < MaxReauth403s
          /\ pc' \in {"exited", "backoff"} /\ UNCHANGED attempt
      BY <1>d, <1>7 DEF Limits, open_err, sendVars
    <3>2. CASE closeCode = "reauth" /\ is403
      <4>1. \/ pc' = "exited" /\ reauth403s' \in {reauth403s, reauth403s + 1}
            \/ ~(reauth403s + 1 >= MaxReauth403s) /\ reauth403s' = reauth403s + 1
        BY <1>7, <3>2 DEF open_err
      <4> QED BY <1>d, <3>1, <4>1 DEF CounterTypes, Limits
    <3>3. CASE ~(closeCode = "reauth" /\ is403)
      <4>1. reauth403s' = reauth403s
        BY <1>7, <3>3 DEF open_err
      <4> QED BY <1>d, <3>1, <4>1 DEF CounterTypes, Limits
    <3> QED BY <3>2, <3>3
  <2>4. SendTypes'
    BY <1>e, <1>7 DEF SendTypes, open_err, profileVars, sendVars
  <2> QED BY <2>1, <2>2, <2>3, <2>4
<1>8. ASSUME pump_op PROVE Types'
  <2>1. ChannelTypes'
    BY <1>a, <1>8, ChannelTail DEF ChannelTypes, pump_op, Leaves, streamVars, sendVars
  <2>2. TaskTypes'
    <3>1. Head(ops) \in WorkerOp
      BY <1>a, <1>8, ChannelTail DEF ChannelTypes, pump_op
    <3>2. CASE Head(ops).kind = "start"
      BY <1>c, <1>8, <3>2 DEF TaskTypes, pump_op, streamVars, sendVars
    <3>3. CASE Head(ops).kind # "start"
      <4>1. Head(ops) \in PumpExit /\ Head(ops) # NotLeaving
        BY <3>1, <3>3, OpKinds
      <4>2. leaving' = Head(ops) /\ pc' = "profiles"
        BY <1>8, <3>3 DEF pump_op, Leaves
      <4> QED BY <1>c, <1>8, <4>1, <4>2 DEF TaskTypes, Pc, pump_op, streamVars, sendVars
    <3> QED BY <3>2, <3>3
  <2>3. CounterTypes' /\ Limits'
    BY <1>d, <1>8 DEF CounterTypes, Limits, pump_op, Leaves, streamVars, sendVars
  <2>4. SendTypes'
    BY <1>e, <1>8 DEF SendTypes, pump_op, Leaves, streamVars, sendVars
  <2> QED BY <2>1, <2>2, <2>3, <2>4
<1>9. ASSUME NEW s \in Senders, fetch_profile(s) PROVE Types'
  <2>1. ChannelTypes'
    BY <1>a, <1>9 DEF ChannelTypes, fetch_profile, channelVars, sendVars
  <2>2. TaskTypes'
    BY <1>c, <1>9 DEF TaskTypes, Pc, CloseCode, fetch_profile, channelVars, sendVars
  <2>3. CounterTypes' /\ Limits'
    BY <1>d, <1>9 DEF CounterTypes, Limits, fetch_profile, channelVars, sendVars
  <2>4. SendTypes'
    BY <1>e, <1>9 DEF SendTypes, fetch_profile, channelVars, sendVars
  <2> QED BY <2>1, <2>2, <2>3, <2>4
<1>10. ASSUME pump_left PROVE Types'
  <2>1. ChannelTypes'
    BY <1>a, <1>10 DEF ChannelTypes, pump_left, RunOp, LoopTop, channelVars
  <2>2. TaskTypes'
    BY <1>c, <1>10, OpKinds DEF TaskTypes, Pc, CloseCode, pump_left, RunOp, LoopTop, channelVars
  <2>3. CounterTypes' /\ Limits'
    BY <1>d, <1>10 DEF CounterTypes, Limits, pump_left, RunOp, LoopTop, channelVars
  <2>4. SendTypes'
    BY <1>e, <1>10, <1>c, OpKinds DEF SendTypes, pump_left, RunOp, LoopTop, channelVars
  <2> QED BY <2>1, <2>2, <2>3, <2>4
<1>11. ASSUME NEW ts \in Timestamps, send_ok(ts) PROVE Types'
  <2>1. ChannelTypes'
    BY <1>a, <1>11 DEF ChannelTypes, send_ok, SendReturns, LoopTop, channelVars, profileVars
  <2>2. TaskTypes'
    BY <1>c, <1>11
       DEF TaskTypes, Pc, CloseCode, send_ok, SendReturns, LoopTop, channelVars, profileVars
  <2>3. CounterTypes' /\ Limits'
    BY <1>d, <1>11 DEF CounterTypes, Limits, send_ok, SendReturns, LoopTop, channelVars, profileVars
  <2>4. SendTypes'
    BY <1>e, <1>11 DEF SendTypes, send_ok, SendReturns, LoopTop, channelVars, profileVars
  <2> QED BY <2>1, <2>2, <2>3, <2>4
<1>12. ASSUME NEW ts \in Timestamps, SendErrs(ts) PROVE Types'
  <2>1. ChannelTypes'
    BY <1>a, <1>12 DEF ChannelTypes, SendErrs, SendReturns, LoopTop, channelVars, profileVars
  <2>2. TaskTypes'
    BY <1>c, <1>12
       DEF TaskTypes, Pc, CloseCode, SendErrs, SendReturns, LoopTop, channelVars, profileVars
  <2>3. CounterTypes' /\ Limits'
    BY <1>d, <1>12
       DEF CounterTypes, Limits, SendErrs, SendReturns, LoopTop, channelVars, profileVars
  <2>4. SendTypes'
    BY <1>e, <1>12 DEF SendTypes, SendErrs, SendReturns, LoopTop, channelVars, profileVars
  <2> QED BY <2>1, <2>2, <2>3, <2>4
<1>13. ASSUME NEW ts \in Timestamps, send_deferred(ts) PROVE Types'
  <2>1. ChannelTypes'
    BY <1>a, <1>13 DEF ChannelTypes, send_deferred, SendReturns, LoopTop, channelVars, profileVars
  <2>2. TaskTypes'
    BY <1>c, <1>13
       DEF TaskTypes, Pc, CloseCode, send_deferred, SendReturns, LoopTop, channelVars, profileVars
  <2>3. CounterTypes' /\ Limits'
    BY <1>d, <1>13
       DEF CounterTypes, Limits, send_deferred, SendReturns, LoopTop, channelVars, profileVars
  <2>4. SendTypes'
    BY <1>e, <1>13 DEF SendTypes, send_deferred, SendReturns, LoopTop, channelVars, profileVars
  <2> QED BY <2>1, <2>2, <2>3, <2>4
<1>14. ASSUME send_retry PROVE Types'
  <2>1. ChannelTypes'
    BY <1>a, <1>14 DEF ChannelTypes, send_retry, channelVars, profileVars, streamVars
  <2>2. TaskTypes'
    BY <1>c, <1>14 DEF TaskTypes, Pc, CloseCode, send_retry, channelVars, profileVars, streamVars
  <2>3. CounterTypes' /\ Limits'
    BY <1>d, <1>14 DEF CounterTypes, Limits, send_retry, channelVars, profileVars, streamVars
  <2>4. SendTypes'
    BY <1>e, <1>14 DEF SendTypes, send_retry, channelVars, profileVars, streamVars
  <2> QED BY <2>1, <2>2, <2>3, <2>4
<1>15. ASSUME send_wake PROVE Types'
  <2>1. ChannelTypes'
    BY <1>a, <1>15 DEF ChannelTypes, send_wake, channelVars, profileVars, streamVars
  <2>2. TaskTypes'
    BY <1>c, <1>15 DEF TaskTypes, Pc, CloseCode, send_wake, channelVars, profileVars, streamVars
  <2>3. CounterTypes' /\ Limits'
    BY <1>d, <1>15 DEF CounterTypes, Limits, send_wake, channelVars, profileVars, streamVars
  <2>4. SendTypes'
    BY <1>e, <1>15 DEF SendTypes, send_wake, channelVars, profileVars, streamVars
  <2> QED BY <2>1, <2>2, <2>3, <2>4
<1>16. ASSUME NEW S \in SUBSET Timestamps, NEW F \in SUBSET Senders, stream_item(S, F) PROVE Types'
  <2>1. ChannelTypes'
    BY <1>a, <1>16 DEF ChannelTypes, stream_item, channelVars
  <2>2. TaskTypes'
    BY <1>c, <1>16 DEF TaskTypes, Pc, CloseCode, stream_item, channelVars
  <2>3. CounterTypes' /\ Limits'
    BY <1>d, <1>16 DEF CounterTypes, Limits, stream_item, channelVars
  <2>4. SendTypes'
    BY <1>e, <1>16 DEF SendTypes, stream_item, channelVars
  <2> QED BY <2>1, <2>2, <2>3, <2>4
<1>17. ASSUME NEW code \in CloseCode, stream_end(code) PROVE Types'
  <2>1. ChannelTypes'
    BY <1>a, <1>17 DEF ChannelTypes, stream_end, Leaves, channelVars, sendVars
  <2>2. TaskTypes'
    BY <1>c, <1>17, OpKinds DEF TaskTypes, Pc, CloseCode, stream_end, Leaves, channelVars, sendVars
  <2>3. CounterTypes' /\ Limits'
    BY <1>d, <1>17 DEF CounterTypes, Limits, stream_end, Leaves, channelVars, sendVars
  <2>4. SendTypes'
    BY <1>e, <1>17 DEF SendTypes, stream_end, Leaves, channelVars, sendVars
  <2> QED BY <2>1, <2>2, <2>3, <2>4
<1>18. ASSUME NEW ts \in Timestamps, sweep(ts) PROVE Types'
  <2>1. ChannelTypes'
    BY <1>a, <1>18 DEF ChannelTypes, sweep, channelVars, profileVars, streamVars
  <2>2. TaskTypes'
    BY <1>c, <1>18 DEF TaskTypes, Pc, CloseCode, sweep, channelVars, profileVars, streamVars
  <2>3. CounterTypes' /\ Limits'
    BY <1>d, <1>18 DEF CounterTypes, Limits, sweep, channelVars, profileVars, streamVars
  <2>4. SendTypes'
    BY <1>e, <1>18 DEF SendTypes, sweep, channelVars, profileVars, streamVars
  <2> QED BY <2>1, <2>2, <2>3, <2>4
<1> QED BY <1>b, <1>0, <1>1, <1>2, <1>3, <1>4, <1>5, <1>6, <1>7, <1>8, <1>9, <1>10,
           <1>11, <1>12, <1>13, <1>14, <1>15, <1>16, <1>17, <1>18
   DEF Next, Task, World, send_refused, send_failed

-----------------------------------------------------------------------------
(* One outcome per send.                                                   *)

(* No send moves and none is reported. *)
Still ==
    /\ Channel(ops') = Channel(ops) /\ Unique(ops') /\ Held' = Held
    /\ UNCHANGED <<sending, pending, accepted, completes, errors>>
    /\ pc' \notin {"attempt", "retry"} => pc \notin {"attempt", "retry"}
    /\ pc' # "exited" => pc # "exited"

(* The task ends and drops the queued sends with the channel. *)
Ends ==
    /\ pc' = "exited" /\ ops' = <<>> /\ Held' = Held
    /\ pc \notin {"attempt", "retry"}
    /\ UNCHANGED <<sending, pending, accepted, completes, errors>>

(* Every action keeps the places of a send apart and its reports counted.  *)
LEMMA SendsStep ==
    ASSUME IInv, [Next]_vars
    PROVE  Apart' /\ Counted'
<1> DEFINE Sends == Apart /\ Counted
<1>a. ops \in Seq(WorkerOp) /\ SendTypes /\ accepted \subseteq Timestamps
  BY DEF IInv, TypeOK, SendTypes
<1>b. Apart
  BY DEF IInv
<1>c. Counted
  BY DEF IInv
<1>h. Held = Only(leaving) /\ Held' = Only(leaving')
  BY DEF Held, Only
<1>l. leaving \in PumpExit \cup {NotLeaving} /\ (leaving = NotLeaving <=> pc # "profiles")
  BY DEF IInv, TypeOK
<1>s. ASSUME Still PROVE Sends'
  <2>1. Apart'
    BY <1>b, <1>s DEF Apart, Still
  <2>2. Counted'
    BY <1>c, <1>s DEF Counted, Waiting, Still
  <2> QED BY <2>1, <2>2
<1>e. ASSUME Ends PROVE Sends'
  <2>0. Channel(ops') = {} /\ Unique(ops')
    BY <1>e, ChannelEmpty DEF Ends
  <2>1. Apart'
    BY <1>b, <1>e, <2>0 DEF Apart, Ends
  <2>2. Counted'
    BY <1>c, <1>e, <2>0 DEF Counted, Waiting, Ends
  <2> QED BY <2>1, <2>2
<1>0. CASE UNCHANGED vars
  <2>1. Still
    BY <1>0, <1>b, <1>h DEF Still, Apart, vars
  <2> QED BY <1>s, <2>1
<1>1. ASSUME NEW op \in WorkerOp, Forward(op) PROVE Sends'
  <2>0. /\ ops' = Append(ops, op) /\ pc # "exited" /\ Held' = Held
        /\ UNCHANGED <<pc, sending, pending, completes, errors>>
    BY <1>1, <1>h DEF Forward, profileVars, sendVars
  <2>1. /\ Only(op) \cap accepted = {} /\ accepted' = accepted \cup Only(op)
        /\ Only(op) \subseteq Timestamps
    BY <1>1, OpKinds DEF Forward
  <2>2. Only(op) \cap Waiting = {}
    BY <1>c, <2>1 DEF Counted
  <2>3. Channel(ops') = Channel(ops) \cup Only(op) /\ Unique(ops')
    BY <1>a, <1>b, <2>0, <2>2, ChannelAppend DEF Apart, Waiting
  <2>4. Apart'
    BY <1>b, <2>0, <2>2, <2>3 DEF Apart, Waiting
  <2>5. Counted'
    BY <1>c, <2>0, <2>1, <2>2, <2>3 DEF Counted, Waiting
  <2> QED BY <2>4, <2>5
<1>2. ASSUME Disconnect PROVE Sends'
  <2>1. Still
    BY <1>2, <1>b, <1>h DEF Still, Apart, Disconnect, profileVars, sendVars
  <2> QED BY <1>s, <2>1
<1>r. ASSUME NEW op \in WorkerOp, RunOp(op), pc \notin {"attempt", "retry", "exited"},
             Unique(ops'), Channel(ops) \cup Held = Channel(ops') \cup Held' \cup Only(op),
             Channel(ops') \cap Held' = {}, (Channel(ops') \cup Held') \cap Only(op) = {},
             UNCHANGED <<pending, accepted, completes, errors>>
      PROVE  Sends'
  <2>0. sending = {} /\ Only(op) \cap pending = {} /\ (Channel(ops') \cup Held') \cap pending = {}
    BY <1>b, <1>r DEF Apart
  <2>1. CASE op.kind = "send"
    <3>1. pc' = "attempt" /\ sending' = Only(op) /\ \A t, u \in Only(op) : t = u
      BY <1>r, <2>1, OpKinds DEF RunOp
    <3>2. Waiting' = Waiting
      BY <1>r, <2>0, <3>1 DEF Waiting
    <3>3. Apart'
      BY <1>r, <2>0, <3>1 DEF Apart
    <3>4. Counted'
      BY <1>c, <1>r, <3>1, <3>2 DEF Counted
    <3> QED BY <3>3, <3>4
  <2>2. CASE op.kind # "send"
    <3>1. pc' \in {"park", "backoff", "opening"} /\ sending' = {} /\ Only(op) = {}
      BY <1>r, <2>0, <2>2, OpKinds DEF RunOp, LoopTop
    <3>2. Waiting' = Waiting
      BY <1>r, <2>0, <3>1 DEF Waiting
    <3>3. Apart'
      BY <1>r, <2>0, <3>1 DEF Apart
    <3>4. Counted'
      BY <1>c, <1>r, <3>1, <3>2 DEF Counted
    <3> QED BY <3>3, <3>4
  <2> QED BY <2>1, <2>2
<1>3. ASSUME park_recv PROVE Sends'
  <2>0. /\ ops # <<>> /\ ops' = Tail(ops) /\ pc = "park" /\ Held' = Held
        /\ UNCHANGED <<pending, accepted, completes, errors>>
    BY <1>3, <1>h DEF park_recv, profileVars
  <2>1. /\ Head(ops) \in WorkerOp /\ Channel(ops) = Only(Head(ops)) \cup Channel(ops')
        /\ Unique(ops') /\ Only(Head(ops)) \cap Channel(ops') = {}
    BY <1>a, <1>b, <2>0, ChannelTail DEF Apart
  <2>2. CASE Head(ops).kind = "start"
    <3>1. Only(Head(ops)) = {} /\ pc' \in {"park", "backoff", "opening"} /\ sending' = sending
      BY <1>3, <2>1, <2>2, OpKinds DEF park_recv, RunOp, LoopTop
    <3>2. Still
      BY <2>0, <2>1, <3>1 DEF Still
    <3> QED BY <1>s, <3>2
  <2>3. CASE Head(ops).kind # "start"
    <3>1. RunOp(Head(ops))
      BY <1>3, <2>3 DEF park_recv
    <3>2. Channel(ops') \cap Held' = {} /\ (Channel(ops') \cup Held') \cap Only(Head(ops)) = {}
      BY <1>b, <2>0, <2>1 DEF Apart
    <3> QED BY <1>r, <2>0, <2>1, <3>1, <3>2
  <2> QED BY <2>2, <2>3
<1>4. ASSUME channel_closed PROVE Sends'
  <2>1. Held' = Held
    BY <1>4, <1>h, <1>l, OpKinds DEF channel_closed, Leaves
  <2>2. Still
    BY <1>4, <1>b, <2>1 DEF Still, Apart, channel_closed, Leaves, channelVars, sendVars
  <2> QED BY <1>s, <2>2
<1>5. ASSUME backoff PROVE Sends'
  <2>1. Still \/ Ends
    BY <1>5, <1>b, <1>h DEF Still, Ends, Apart, backoff, profileVars, sendVars
  <2> QED BY <1>s, <1>e, <2>1
<1>6. ASSUME open_ok PROVE Sends'
  <2>1. Still
    BY <1>6, <1>b, <1>h DEF Still, Apart, open_ok, channelVars, profileVars, sendVars
  <2> QED BY <1>s, <2>1
<1>7. ASSUME NEW is403 \in BOOLEAN, open_err(is403) PROVE Sends'
  <2>1. Still \/ Ends
    BY <1>7, <1>b, <1>h DEF Still, Ends, Apart, open_err, profileVars, sendVars
  <2> QED BY <1>s, <1>e, <2>1
<1>8. ASSUME pump_op PROVE Sends'
  <2>0. /\ ops # <<>> /\ ops' = Tail(ops) /\ pc = "pump" /\ Held = {}
        /\ pc' \in {"pump", "profiles"}
        /\ UNCHANGED <<sending, pending, accepted, completes, errors>>
    BY <1>8, <1>h, <1>l, OpKinds DEF pump_op, Leaves, sendVars
  <2>1. /\ Head(ops) \in WorkerOp /\ Channel(ops) = Only(Head(ops)) \cup Channel(ops')
        /\ Unique(ops') /\ Only(Head(ops)) \cap Channel(ops') = {}
    BY <1>a, <1>b, <2>0, ChannelTail DEF Apart
  <2>2. Held' = Only(Head(ops))
    <3>1. CASE Head(ops).kind = "start"
      BY <1>8, <1>h, <2>0, <2>1, <3>1, OpKinds DEF pump_op
    <3>2. CASE Head(ops).kind # "start"
      BY <1>8, <1>h, <3>2 DEF pump_op, Leaves
    <3> QED BY <3>1, <3>2
  <2>3. Waiting' = Waiting
    BY <2>0, <2>1, <2>2 DEF Waiting
  <2>4. Apart'
    BY <1>b, <2>0, <2>1, <2>2 DEF Apart
  <2>5. Counted'
    BY <1>c, <2>0, <2>3 DEF Counted
  <2> QED BY <2>4, <2>5
<1>9. ASSUME NEW s \in Senders, fetch_profile(s) PROVE Sends'
  <2>1. Still
    BY <1>9, <1>b, <1>h DEF Still, Apart, fetch_profile, channelVars, sendVars
  <2> QED BY <1>s, <2>1
<1>10. ASSUME pump_left PROVE Sends'
  <2>0. /\ pc = "profiles" /\ Held' = {} /\ Channel(ops') = Channel(ops) /\ Unique(ops')
        /\ UNCHANGED <<pending, accepted, completes, errors>>
    BY <1>10, <1>b, <1>h, OpKinds DEF pump_left, Apart, channelVars
  <2>1. CASE leaving \in WorkerOp
    <3>1. RunOp(leaving)
      BY <1>10, <1>l, <2>0, <2>1, OpKinds DEF pump_left
    <3> QED BY <1>b, <1>h, <1>r, <2>0, <2>1, <3>1 DEF Apart
  <2>2. CASE leaving \notin WorkerOp
    <3>1. Held = {}
      BY <1>h, <1>10, <2>2, OpKinds DEF pump_left
    <3>2. pc' \in {"backoff", "exited"} /\ sending' = sending
      BY <1>10, <2>2 DEF pump_left
    <3>3. Still
      BY <2>0, <3>1, <3>2 DEF Still
    <3> QED BY <1>s, <3>3
  <2> QED BY <2>1, <2>2
<1>v. ASSUME NEW ts \in Timestamps, pc = "attempt", ts \in sending, SendReturns,
             UNCHANGED <<ops, leaving, pending, accepted>>,
             \/ completes' = [completes EXCEPT ![ts] = @ + 1] /\ errors' = errors
             \/ errors' = [errors EXCEPT ![ts] = @ + 1] /\ completes' = completes
      PROVE  Sends'
  <2>0. sending = {ts} /\ ts \notin Channel(ops) \cup Held \cup pending
    BY <1>b, <1>v DEF Apart
  <2>1. /\ sending' = {} /\ Held' = Held /\ Channel(ops') = Channel(ops) /\ Unique(ops')
        /\ pc' \in {"park", "backoff", "opening"}
    BY <1>b, <1>h, <1>v DEF Apart, SendReturns, LoopTop
  <2>2. Waiting' = Waiting \ {ts} /\ ts \in Waiting
    BY <1>v, <2>0, <2>1 DEF Waiting
  <2>3. /\ \A u \in Timestamps : u # ts => completes'[u] = completes[u] /\ errors'[u] = errors[u]
        /\ completes[ts] + errors[ts] = 0 /\ completes'[ts] + errors'[ts] = 1 /\ ts \in accepted
    BY <1>a, <1>c, <1>v, <2>2 DEF Counted, SendTypes
  <2>4. Apart'
    BY <1>b, <1>v, <2>0, <2>1 DEF Apart
  <2>5. Counted'
    BY <1>c, <1>v, <2>1, <2>2, <2>3 DEF Counted
  <2> QED BY <2>4, <2>5
<1>11. ASSUME NEW ts \in Timestamps, send_ok(ts) PROVE Sends'
  BY <1>v, <1>11 DEF send_ok, channelVars, profileVars
<1>12. ASSUME NEW ts \in Timestamps, SendErrs(ts) PROVE Sends'
  BY <1>v, <1>12 DEF SendErrs, channelVars, profileVars
<1>13. ASSUME NEW ts \in Timestamps, send_deferred(ts) PROVE Sends'
  <2>0. sending = {ts} /\ ts \notin Channel(ops) \cup Held \cup pending
    BY <1>b, <1>13 DEF Apart, send_deferred
  <2>1. /\ sending' = {} /\ pending' = pending \cup {ts} /\ Held' = Held
        /\ Channel(ops') = Channel(ops) /\ Unique(ops') /\ pc = "attempt"
        /\ pc' \in {"park", "backoff", "opening"} /\ UNCHANGED <<accepted, completes, errors>>
    BY <1>b, <1>h, <1>13 DEF Apart, send_deferred, SendReturns, LoopTop, channelVars, profileVars
  <2>2. Waiting' = Waiting
    BY <2>0, <2>1 DEF Waiting
  <2>3. Apart'
    BY <1>b, <2>0, <2>1 DEF Apart
  <2>4. Counted'
    BY <1>c, <2>1, <2>2 DEF Counted
  <2> QED BY <2>3, <2>4
<1>14. ASSUME send_retry PROVE Sends'
  <2>1. Still
    BY <1>14, <1>b, <1>h DEF Still, Apart, send_retry, channelVars, profileVars
  <2> QED BY <1>s, <2>1
<1>15. ASSUME send_wake PROVE Sends'
  <2>1. Still
    BY <1>15, <1>b, <1>h DEF Still, Apart, send_wake, channelVars, profileVars
  <2> QED BY <1>s, <2>1
<1>16. ASSUME NEW S \in SUBSET Timestamps, NEW F \in SUBSET Senders, stream_item(S, F) PROVE Sends'
  <2>1. /\ pending' = pending \ S /\ Held' = Held /\ Channel(ops') = Channel(ops) /\ Unique(ops')
        /\ pc = "pump" /\ UNCHANGED <<pc, sending, accepted, errors>>
    BY <1>16, <1>b, <1>h DEF Apart, stream_item, channelVars
  <2>2. \A u \in Timestamps :
           completes'[u] = IF u \in S \cap pending THEN completes[u] + 1 ELSE completes[u]
    BY <1>16 DEF stream_item
  <2>3. (S \cap pending) \cap (Channel(ops) \cup Held \cup sending) = {}
    BY <1>b DEF Apart
  <2>4. Waiting' = Waiting \ (S \cap pending) /\ pending \subseteq Waiting
    BY <2>1, <2>3 DEF Waiting
  <2>5. Apart'
    BY <1>b, <2>1 DEF Apart
  <2>6. Counted'
    <3> SUFFICES ASSUME NEW u \in Timestamps
                 PROVE  /\ completes'[u] + errors'[u] <= 1
                        /\ u \notin accepted' \/ u \in Waiting' => completes'[u] + errors'[u] = 0
                        /\ u \in Waiting' => u \in accepted'
                        /\ pc' # "exited" /\ u \in accepted' /\ u \notin Waiting' =>
                             completes'[u] + errors'[u] = 1
      BY DEF Counted
    <3>1. completes[u] \in Nat /\ errors[u] \in Nat
      BY <1>a DEF SendTypes
    <3>2. CASE u \in S \cap pending
      BY <1>c, <2>1, <2>2, <2>4, <3>1, <3>2 DEF Counted
    <3>3. CASE u \notin S \cap pending
      BY <1>c, <2>1, <2>2, <2>4, <3>1, <3>3 DEF Counted
    <3> QED BY <3>2, <3>3
  <2> QED BY <2>5, <2>6
<1>17. ASSUME NEW code \in CloseCode, stream_end(code) PROVE Sends'
  <2>1. Held' = Held
    BY <1>17, <1>h, <1>l, OpKinds DEF stream_end, Leaves
  <2>2. Still
    BY <1>17, <1>b, <2>1 DEF Still, Apart, stream_end, Leaves, channelVars, sendVars
  <2> QED BY <1>s, <2>2
<1>18. ASSUME NEW ts \in Timestamps, sweep(ts) PROVE Sends'
  <2>1. /\ pending' = pending \ {ts} /\ ts \in pending /\ Held' = Held
        /\ Channel(ops') = Channel(ops)
        /\ Unique(ops') /\ UNCHANGED <<pc, sending, accepted, completes>>
        /\ errors' = [errors EXCEPT ![ts] = @ + 1]
    BY <1>18, <1>b, <1>h DEF Apart, sweep, channelVars, profileVars
  <2>2. Waiting' = Waiting \ {ts} /\ ts \in Waiting
    BY <1>b, <2>1 DEF Waiting, Apart
  <2>3. /\ \A u \in Timestamps : u # ts => completes'[u] = completes[u] /\ errors'[u] = errors[u]
        /\ completes[ts] + errors[ts] = 0 /\ completes'[ts] + errors'[ts] = 1 /\ ts \in accepted
    BY <1>a, <1>c, <2>1, <2>2 DEF Counted, SendTypes
  <2>4. Apart'
    BY <1>b, <2>1 DEF Apart
  <2>5. Counted'
    BY <1>c, <2>1, <2>2, <2>3 DEF Counted
  <2> QED BY <2>4, <2>5
<1> QED BY <1>0, <1>1, <1>2, <1>3, <1>4, <1>5, <1>6, <1>7, <1>8, <1>9, <1>10, <1>11, <1>12, <1>13,
           <1>14, <1>15, <1>16, <1>17, <1>18 DEF Next, Task, World, send_refused, send_failed

-----------------------------------------------------------------------------
(* The theorems.                                                           *)

(* The inductive invariant holds in every reachable state. *)
THEOREM Invariance == Spec => []IInv
<1>1. Init => IInv
  <2> SUFFICES ASSUME Init PROVE IInv
    OBVIOUS
  <2>1. TypeOK
    <3>1. ops \in Seq(WorkerOp) /\ Len(ops) <= OpCapacity
      BY LimitAssumption, ChannelEmpty DEF Init
    <3>2. /\ failures \in 0..MaxFailures /\ reauth403s \in 0..MaxReauth403s
          /\ attempt \in 0..MaxAttempts
          /\ completes \in [Timestamps -> Nat] /\ errors \in [Timestamps -> Nat]
      BY LimitAssumption DEF Init
    <3> QED BY <3>1, <3>2 DEF Init, TypeOK, Pc, CloseCode
  <2>2. Limits
    BY LimitAssumption DEF Init, Limits
  <2>3. Channel(ops) = {} /\ Held = {} /\ Waiting = {}
    <3>1. Held = Only(NotLeaving)
      BY DEF Init, Held, Only
    <3> QED BY <3>1, ChannelEmpty, OpKinds DEF Init, Waiting
  <2>4. Apart
    BY <2>3, ChannelEmpty DEF Init, Apart
  <2>5. Counted
    BY <2>3 DEF Init, Counted
  <2> QED BY <2>1, <2>2, <2>4, <2>5 DEF IInv
<1>2. IInv /\ [Next]_vars => IInv'
  BY TypeStep, SendsStep DEF IInv
<1> QED BY <1>1, <1>2, PTL DEF Spec

(* manager_task's state keeps its types; the failure, 403 and attempt      *)
(* counters of the receive loop and of handle_send never pass the limits   *)
(* the code compares them with.                                            *)
THEOREM TypeCorrect == Spec => []TypeOK
<1>1. IInv => TypeOK
  BY DEF IInv
<1> QED BY <1>1, Invariance, PTL

(* The sends the specification calls queued are those in the channel and   *)
(* the one kept while the profiles are looked up.                          *)
LEMMA QueuedIs == Queued = Channel(ops) \cup Held
BY DEF Queued, Channel, Held

(* Every send has at most one SendComplete or SendError, and none while it *)
(* is still waiting somewhere.                                             *)
THEOREM OneOutcomeHolds == Spec => []OneOutcome
<1>1. IInv => OneOutcome
  BY QueuedIs DEF IInv, Counted, Waiting, OneOutcome
<1> QED BY <1>1, Invariance, PTL

(* While the task lives, an accepted send is waiting or reported. *)
THEOREM NoSendForgottenHolds == Spec => []NoSendForgotten
<1>1. IInv => NoSendForgotten
  BY QueuedIs DEF IInv, TypeOK, Counted, Waiting, NoSendForgotten
<1> QED BY <1>1, Invariance, PTL
=============================================================================
