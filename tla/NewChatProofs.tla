--------------------------- MODULE NewChatProofs ---------------------------
(***************************************************************************)
(* Theorems about NewChat, for every set of names and every length of the  *)
(* channels: no order of lookups, logouts, links, exits and late answers   *)
(* opens a thread the user has not asked for.                              *)
(***************************************************************************)
EXTENDS NewChat, TLAPS

-----------------------------------------------------------------------------
(* Members of a set in a queue.                                            *)

Carries(s, S) == \E i \in 1..Len(s) : s[i] \in S

(* At most one place of the queue holds a member. *)
Single(s, S) == \A i, j \in 1..Len(s) : s[i] \in S /\ s[j] \in S => i = j

(* An empty queue carries nothing. *)
LEMMA QueueEmpty ==
    ASSUME NEW S PROVE ~Carries(<<>>, S) /\ Single(<<>>, S)
BY DEF Carries, Single

(* What a queue carries after a message was put in. *)
LEMMA QueueAppend ==
    ASSUME NEW D, NEW s \in Seq(D), NEW x \in D, NEW S
    PROVE  /\ Append(s, x) \in Seq(D)
           /\ Carries(Append(s, x), S) <=> Carries(s, S) \/ x \in S
           /\ Single(s, S) /\ ~(Carries(s, S) /\ x \in S) => Single(Append(s, x), S)
<1> DEFINE r == Append(s, x)
<1>1. /\ r \in Seq(D) /\ Len(s) \in Nat /\ Len(r) = Len(s) + 1 /\ r[Len(s) + 1] = x
      /\ \A i \in 1..Len(s) : r[i] = s[i]
  OBVIOUS
<1>2. \A i \in 1..Len(r) : i \in 1..Len(s) \/ i = Len(s) + 1
  BY <1>1
<1>3. 1..Len(s) \subseteq 1..Len(r) /\ Len(s) + 1 \in 1..Len(r)
  BY <1>1
<1> HIDE DEF r
<1>4. Carries(r, S) <=> Carries(s, S) \/ x \in S
  BY <1>1, <1>2, <1>3 DEF Carries
<1>5. Single(s, S) /\ ~(Carries(s, S) /\ x \in S) => Single(r, S)
  BY <1>1, <1>2 DEF Single, Carries
<1> QED BY <1>1, <1>4, <1>5 DEF r

(* What a queue carried before its first message was taken. *)
LEMMA QueueTail ==
    ASSUME NEW D, NEW s \in Seq(D), s # <<>>, NEW S
    PROVE  /\ Head(s) \in D /\ Tail(s) \in Seq(D)
           /\ Carries(s, S) <=> Carries(Tail(s), S) \/ Head(s) \in S
           /\ Single(s, S) => Single(Tail(s), S) /\ ~(Carries(Tail(s), S) /\ Head(s) \in S)
<1> DEFINE r == Tail(s)
<1>1. /\ Head(s) \in D /\ r \in Seq(D) /\ Len(s) \in Nat \ {0} /\ Len(r) = Len(s) - 1
      /\ s[1] = Head(s) /\ \A i \in 1..Len(r) : r[i] = s[i + 1]
  OBVIOUS
<1>2. \A i \in 1..Len(s) : i = 1 \/ (i - 1 \in 1..Len(r) /\ r[i - 1] = s[i])
  BY <1>1
<1>3. 1 \in 1..Len(s) /\ \A i \in 1..Len(r) : i + 1 \in 1..Len(s) /\ i + 1 # 1
  BY <1>1
<1> HIDE DEF r
<1>4. Carries(s, S) <=> Carries(r, S) \/ Head(s) \in S
  BY <1>1, <1>2, <1>3 DEF Carries
<1>5. ASSUME Single(s, S) PROVE Single(r, S)
  <2> SUFFICES ASSUME NEW i \in 1..Len(r), NEW j \in 1..Len(r), r[i] \in S, r[j] \in S
               PROVE  i = j
    BY DEF Single
  <2>1. i + 1 = j + 1
    BY <1>1, <1>3, <1>5 DEF Single
  <2> QED BY <1>1, <2>1
<1>6. ASSUME Single(s, S), Carries(r, S), Head(s) \in S PROVE FALSE
  BY <1>1, <1>3, <1>6 DEF Single, Carries
<1> QED BY <1>1, <1>4, <1>5, <1>6 DEF r

-----------------------------------------------------------------------------
(* The inductive invariant.                                                *)

Answers(S) == [kind : {"resolved"}, name : S, found : BOOLEAN]
Cmd == Names \cup {"Logout", "LinkDevice"}
Event == Answers(Names) \cup {Reset}
Task == [running : BOOLEAN, ops : Seq(Names)]

Types ==
    /\ username_lookup_in_progress \in BOOLEAN /\ asked \in BOOLEAN /\ dropped \in BOOLEAN
    /\ username_lookup_pending \in Names \cup {NoName}
    /\ cmds \in Seq(Cmd) /\ events \in Seq(Event)
    /\ tasks \in Seq(Task) /\ manager_ops \in 0..Len(tasks)

(* A task has a lookup in its op channel, one of a name in S. *)
Busy(S) == \E k \in 1..Len(tasks) : Carries(tasks[k].ops, S)

(* At most one lookup is on its way: command, op or answer. *)
Lone ==
    /\ Single(cmds, Names) /\ Single(events, Answers(Names))
    /\ \A k \in 1..Len(tasks) : Single(tasks[k].ops, Names)
    /\ \A k, l \in 1..Len(tasks) :
          Carries(tasks[k].ops, Names) /\ Carries(tasks[l].ops, Names) => k = l
    /\ ~(Carries(cmds, Names) /\ Busy(Names))
    /\ ~(Carries(cmds, Names) /\ Carries(events, Answers(Names)))
    /\ ~(Busy(Names) /\ Carries(events, Answers(Names)))

Flying(S) == Carries(cmds, S) \/ Busy(S) \/ Carries(events, Answers(S))

(* Unless a reset has dropped a lookup that is still on its way, the only  *)
(* one on its way is the one the UI waits for.                             *)
Expected ==
    ~dropped =>
        /\ Lone
        /\ Flying(Names) => username_lookup_in_progress
        /\ ~Flying(Names \ {username_lookup_pending})

(* A lookup is waited for, and a thread opened, only once asked for. *)
Asked ==
    /\ username_lookup_in_progress => asked
    /\ chat # NoChat => asked /\ (chat.with = chat.label \/ chat.late)

IInv == Types /\ Expected /\ Asked

-----------------------------------------------------------------------------
(* Facts about the state.                                                  *)

(* Replacing one task leaves the others. *)
LEMMA TaskUpdate ==
    ASSUME NEW q \in Seq(Task), NEW m \in 1..Len(q), NEW t \in Task
    PROVE  LET r == [q EXCEPT ![m] = t]
           IN  /\ r \in Seq(Task) /\ Len(r) = Len(q) /\ r[m] = t
               /\ \A k \in 1..Len(q) : k # m => r[k] = q[k]
OBVIOUS

(* A new task has nothing to do. *)
LEMMA TaskAppend ==
    ASSUME NEW q \in Seq(Task)
    PROVE  LET r == Append(q, NewTask)
           IN  /\ r \in Seq(Task) /\ Len(r) = Len(q) + 1 /\ r[Len(q) + 1].ops = <<>>
               /\ \A k \in 1..Len(q) : r[k] = q[k]
<1>1. NewTask \in Task /\ NewTask.ops = <<>>
  BY DEF NewTask, Task
<1> HIDE DEF NewTask, Task
<1> QED BY <1>1

(* A task has a channel of names. *)
LEMMA TaskHas ==
    ASSUME NEW q \in Seq(Task), NEW k \in 1..Len(q)
    PROVE  q[k] \in Task /\ q[k].ops \in Seq(Names)
<1>1. q[k] \in Task
  OBVIOUS
<1> QED BY <1>1 DEF Task

(* An answer names what it answers and is no reset. *)
LEMMA AnswerIs ==
    /\ \A n \in Names : \A f \in BOOLEAN : \A S \in SUBSET Names :
          /\ Answer(n, f) \in Event /\ Answer(n, f) # Reset
          /\ Answer(n, f) \in Answers(S) <=> n \in S
    /\ \A e \in Event : e # Reset <=> e \in Answers(Names)
    /\ \A e \in Answers(Names) : \A S \in SUBSET Names : e \in Answers(S) <=> e.name \in S
    /\ \A e \in Answers(Names) : e.name \in Names
    /\ \A S : Reset \notin Answers(S)
    /\ Reset \in Event
BY DEF Answer, Answers, Event, Reset

(* What drive_new_chat sees on its way is what flies. *)
LEMMA InFlightIs == Types => (InFlight <=> Flying(Names))
<1> SUFFICES ASSUME Types PROVE InFlight <=> Flying(Names)
  OBVIOUS
<1>1. DOMAIN cmds = 1..Len(cmds) /\ DOMAIN tasks = 1..Len(tasks) /\ DOMAIN events = 1..Len(events)
  BY DEF Types
<1>2. \A i \in 1..Len(events) : events[i] # Reset <=> events[i] \in Answers(Names)
  BY AnswerIs DEF Types
<1>3. ASSUME NEW k \in 1..Len(tasks)
      PROVE  tasks[k].ops # <<>> <=> Carries(tasks[k].ops, Names)
  <2>1. tasks[k].ops \in Seq(Names)
    BY TaskHas DEF Types
  <2>2. ASSUME NEW o \in Seq(Names) PROVE o # <<>> <=> Carries(o, Names)
    <3>1. CASE o = <<>>
      BY <3>1, QueueEmpty
    <3>2. CASE o # <<>>
      <4>1. 1 \in 1..Len(o) /\ o[1] \in Names
        BY <3>2
      <4> QED BY <3>2, <4>1 DEF Carries
    <3> QED BY <3>1, <3>2
  <2> QED BY <2>1, <2>2
<1> QED BY <1>1, <1>2, <1>3 DEF InFlight, Flying, Busy, Carries

(* The lookups of the tasks are left alone. *)
TasksStill ==
    /\ \A S : Busy(S)' <=> Busy(S)
    /\ (\A k \in 1..Len(tasks) : Single(tasks[k].ops, Names)) =>
          (\A k \in 1..Len(tasks) : Single(tasks[k].ops, Names))'
    /\ (\A k, l \in 1..Len(tasks) :
          Carries(tasks[k].ops, Names) /\ Carries(tasks[l].ops, Names) => k = l) =>
       (\A k, l \in 1..Len(tasks) :
          Carries(tasks[k].ops, Names) /\ Carries(tasks[l].ops, Names) => k = l)'

(* An event e is put on its way to the UI. *)
LEMMA Emitted ==
    ASSUME Types, NEW e \in Event, Emits(e)
    PROVE  /\ events' \in Seq(Event)
           /\ \A S \in SUBSET Names :
                 Carries(events', Answers(S)) <=> Carries(events, Answers(S)) \/ e \in Answers(S)
           /\ Single(events, Answers(Names))
              /\ ~(Carries(events, Answers(Names)) /\ e \in Answers(Names)) =>
                 Single(events', Answers(Names))
BY QueueAppend DEF Types, Emits

(* The first command is taken. *)
LEMMA CmdTaken ==
    ASSUME Types, cmds # <<>>, cmds' = Tail(cmds)
    PROVE  /\ Head(cmds) \in Cmd /\ cmds' \in Seq(Cmd)
           /\ \A S \in SUBSET Names : Carries(cmds, S) <=> Carries(cmds', S) \/ Head(cmds) \in S
           /\ Single(cmds, Names) =>
                 Single(cmds', Names) /\ ~(Carries(cmds', Names) /\ Head(cmds) \in Names)
BY QueueTail DEF Types

-----------------------------------------------------------------------------
(* The steps.                                                              *)

(* Every step keeps the lookup on its way the one that is waited for. *)
LEMMA Step == IInv /\ [Next]_vars => IInv'
<1> SUFFICES ASSUME IInv, [Next]_vars PROVE IInv'
  OBVIOUS
<1>t. Types /\ Expected /\ Asked
  BY DEF IInv
<1>n. NoName \notin Names /\ "Logout" \notin Names /\ "LinkDevice" \notin Names
  BY NewChatAssumption
<1>u. ASSUME UNCHANGED tasks PROVE TasksStill
  BY <1>u DEF TasksStill, Busy
<1>0. CASE UNCHANGED vars
  BY <1>0, <1>t DEF IInv, Types, Expected, Asked, Lone, Flying, Busy, vars, uiVars, workerVars
<1>1. ASSUME NEW name \in Names, drive_new_chat(name) PROVE IInv'
  <2>0. /\ ~username_lookup_in_progress /\ cmds' = Append(cmds, name)
        /\ username_lookup_in_progress' = TRUE /\ username_lookup_pending' = name /\ asked' = TRUE
        /\ dropped' = (dropped /\ InFlight) /\ UNCHANGED <<chat, events, tasks, manager_ops>>
    BY <1>1 DEF drive_new_chat, SendCmd, workerVars
  <2>1. /\ cmds' \in Seq(Cmd)
        /\ \A S : Carries(cmds', S) <=> Carries(cmds, S) \/ name \in S
        /\ Single(cmds, Names) /\ ~Carries(cmds, Names) => Single(cmds', Names)
    <3>1. name \in Cmd /\ cmds \in Seq(Cmd)
      BY <1>t DEF Types, Cmd
    <3> QED BY <2>0, <3>1, QueueAppend
  <2>2. Types'
    BY <1>t, <2>0, <2>1 DEF Types
  <2>3. Asked'
    BY <1>t, <2>0 DEF Asked
  <2>4. Expected'
    <3> SUFFICES ASSUME ~dropped'
                 PROVE  /\ Lone' /\ username_lookup_in_progress'
                        /\ ~Flying(Names \ {username_lookup_pending})'
      BY DEF Expected
    <3>1. ~Flying(Names)
      BY <1>t, <2>0, InFlightIs DEF Expected
    <3>2. \A S \in SUBSET Names : Carries(events, Answers(S)) \/ Carries(cmds, S) \/ Busy(S) =>
          Flying(Names)
      BY DEF Flying, Busy, Carries, Answers
    <3>3. /\ Single(cmds, Names) /\ Single(events, Answers(Names))
          /\ \A k \in 1..Len(tasks) : Single(tasks[k].ops, Names)
      BY <3>1 DEF Flying, Busy, Carries, Single
    <3>4. TasksStill
      BY <1>u, <2>0
    <3>5. Lone'
      BY <2>0, <2>1, <3>1, <3>3, <3>4 DEF Lone, Flying, Busy, TasksStill
    <3>6. ~Flying(Names \ {name})'
      BY <2>0, <2>1, <3>1, <3>2, <3>4 DEF Flying, TasksStill
    <3> QED BY <2>0, <3>5, <3>6
  <2> QED BY <2>2, <2>3, <2>4 DEF IInv
<1>2. ASSUME NEW c \in {"Logout", "LinkDevice"}, drive(c) PROVE IInv'
  <2>0. cmds' = Append(cmds, c) /\ UNCHANGED <<uiVars, events, tasks, manager_ops>>
    BY <1>2 DEF drive, SendCmd, workerVars
  <2>1. /\ cmds' \in Seq(Cmd) /\ \A S \in SUBSET Names : Carries(cmds', S) <=> Carries(cmds, S)
        /\ Single(cmds, Names) => Single(cmds', Names)
    <3>1. c \in Cmd /\ cmds \in Seq(Cmd) /\ c \notin Names
      BY <1>t, <1>n DEF Types, Cmd
    <3> QED BY <2>0, <3>1, QueueAppend
  <2>2. TasksStill
    BY <1>u, <2>0
  <2>3. Types'
    BY <1>t, <2>0, <2>1 DEF Types, uiVars
  <2>4. Asked'
    BY <1>t, <2>0 DEF Asked, uiVars
  <2>5. Expected'
    BY <1>t, <2>0, <2>1, <2>2 DEF Expected, Lone, Flying, TasksStill, uiVars
  <2> QED BY <2>3, <2>4, <2>5 DEF IInv
<1>3. ASSUME close_thread PROVE IInv'
  BY <1>3, <1>t DEF close_thread, IInv, Types, Expected, Asked, Lone, Flying, Busy, workerVars
<1>4. ASSUME handle_worker_event PROVE IInv'
  <2>0. events # <<>> /\ events' = Tail(events) /\ UNCHANGED <<cmds, tasks, manager_ops>>
    BY <1>4 DEF handle_worker_event, workerVars
  <2>1. /\ Head(events) \in Event /\ events' \in Seq(Event)
        /\ \A S \in SUBSET Names : Carries(events, Answers(S)) <=>
              Carries(events', Answers(S)) \/ Head(events) \in Answers(S)
        /\ Single(events, Answers(Names)) =>
              /\ Single(events', Answers(Names))
              /\ ~(Carries(events', Answers(Names)) /\ Head(events) \in Answers(Names))
    BY <1>t, <2>0, QueueTail DEF Types
  <2>2. TasksStill
    BY <1>u, <2>0
  <2>3. Lone => Lone'
    BY <2>0, <2>1, <2>2 DEF Lone, TasksStill
  <2>4. \A S \in SUBSET Names : Flying(S)' => Flying(S)
    BY <2>0, <2>1, <2>2 DEF Flying, TasksStill
  <2>5. CASE Head(events) # Reset /\ ~username_lookup_in_progress
    <3>1. UNCHANGED uiVars
      BY <1>4, <2>5 DEF handle_worker_event, handle_username_resolve_result
    <3> QED BY <1>t, <2>0, <2>1, <2>3, <2>4, <3>1 DEF IInv, Types, Expected, Asked, uiVars
  <2>6. CASE Head(events) # Reset /\ username_lookup_in_progress
    <3>0. /\ username_lookup_in_progress' = FALSE /\ UNCHANGED <<asked, dropped>>
          /\ username_lookup_pending' \in {username_lookup_pending, NoName}
          /\ \/ UNCHANGED chat
             \/ chat' = [with |-> Head(events).name, label |-> username_lookup_pending,
                  late |-> dropped]
      BY <1>4, <2>6 DEF handle_worker_event, handle_username_resolve_result
    <3>1. Head(events) \in Answers(Names) /\ Head(events).name \in Names
      BY <2>1, <2>6, AnswerIs
    <3>2. Types'
      BY <1>t, <2>0, <2>1, <3>0 DEF Types
    <3>3. ASSUME ~dropped PROVE Head(events).name = username_lookup_pending
      <4>1. ~Carries(events, Answers(Names \ {username_lookup_pending}))
        BY <1>t, <3>3 DEF Expected, Flying
      <4>2. Head(events) \notin Answers(Names \ {username_lookup_pending})
        BY <2>1, <4>1
      <4> QED BY <3>1, <4>2, AnswerIs
    <3>4. dropped \in BOOLEAN
      BY <1>t DEF Types
    <3>5. Asked'
      <4>1. CASE UNCHANGED chat
        BY <1>t, <3>0, <4>1 DEF Asked
      <4>2. CASE chat' = [with |-> Head(events).name, label |-> username_lookup_pending,
                 late |-> dropped]
        <5>1. chat'.with = chat'.label \/ chat'.late
          BY <3>3, <4>2
        <5> QED BY <1>t, <2>6, <3>0, <5>1 DEF Asked
      <4> QED BY <3>0, <4>1, <4>2
    <3>6. ASSUME ~dropped PROVE Lone' /\ ~Flying(Names)'
      <4>1. Lone
        BY <1>t, <3>6 DEF Expected
      <4> QED BY <2>0, <2>1, <2>2, <2>3, <3>1, <4>1 DEF Lone, Flying, TasksStill
    <3>7. \A S \in SUBSET Names : Flying(S)' => Flying(Names)'
      BY DEF Flying, Busy, Carries, Answers
    <3>8. Expected'
      BY <3>0, <3>6, <3>7 DEF Expected
    <3> QED BY <3>2, <3>5, <3>8 DEF IInv
  <2>7. CASE Head(events) = Reset
    <3>0. /\ chat' = NoChat /\ asked' = FALSE /\ dropped' = (dropped \/ username_lookup_in_progress)
          /\ username_lookup_in_progress' = FALSE /\ username_lookup_pending' = NoName
      BY <1>4, <2>7 DEF handle_worker_event, reset_to_unlinked
    <3>1. Types'
      BY <1>t, <2>0, <2>1, <3>0 DEF Types
    <3>2. Asked'
      BY <3>0 DEF Asked
    <3>3. ASSUME ~dropped' PROVE Lone' /\ ~Flying(Names)'
      BY <1>t, <2>3, <2>4, <3>0, <3>3 DEF Expected
    <3>4. \A S \in SUBSET Names : Flying(S)' => Flying(Names)'
      BY DEF Flying, Busy, Carries, Answers
    <3>5. Expected'
      BY <3>0, <3>3, <3>4 DEF Expected
    <3> QED BY <3>1, <3>2, <3>5 DEF IInv
  <2> QED BY <2>5, <2>6, <2>7
<1>5. ASSUME dispatch PROVE IInv'
  <2>0. cmds # <<>> /\ cmds' = Tail(cmds) /\ UNCHANGED uiVars
    BY <1>5 DEF dispatch
  <2>1. Asked'
    BY <1>t, <2>0 DEF Asked, uiVars
  <2>2. /\ Head(cmds) \in Cmd /\ cmds' \in Seq(Cmd)
        /\ \A S \in SUBSET Names : Carries(cmds, S) <=> Carries(cmds', S) \/ Head(cmds) \in S
        /\ Single(cmds, Names) => Single(cmds', Names)
             /\ ~(Carries(cmds', Names) /\ Head(cmds) \in Names)
    BY <1>t, <2>0, CmdTaken
  <2>3. ASSUME Types', \A S \in SUBSET Names : Flying(S)' => Flying(S), Lone => Lone' PROVE IInv'
    BY <1>t, <2>0, <2>1, <2>3 DEF IInv, Expected, uiVars
  <2>4. CASE UNCHANGED <<events, tasks>> /\ manager_ops' \in {0, manager_ops}
    <3>1. TasksStill
      BY <1>u, <2>4
    <3>2. Types'
      BY <1>t, <2>0, <2>2, <2>4 DEF Types, uiVars
    <3>3. \A S \in SUBSET Names : Flying(S)' => Flying(S)
      BY <2>2, <2>4, <3>1 DEF Flying, TasksStill
    <3>4. Lone => Lone'
      BY <2>2, <2>4, <3>1 DEF Lone, TasksStill
    <3> QED BY <2>3, <3>2, <3>3, <3>4
  <2>5. CASE Head(cmds) \in Names /\ resolve_forwarded(Head(cmds))
    <3> DEFINE m == manager_ops
               t == [tasks[m] EXCEPT !.ops = Append(@, Head(cmds))]
    <3>1. m \in 1..Len(tasks) /\ tasks[m] \in Task /\ tasks[m].ops \in Seq(Names)
      <4>1. m \in 1..Len(tasks) /\ tasks \in Seq(Task)
        BY <1>t, <2>5 DEF Types, resolve_forwarded
      <4> QED BY <4>1, TaskHas
    <3>2. /\ Append(tasks[m].ops, Head(cmds)) \in Seq(Names)
          /\ \A S : Carries(Append(tasks[m].ops, Head(cmds)), S) <=>
               Carries(tasks[m].ops, S) \/ Head(cmds) \in S
          /\ Single(tasks[m].ops, Names) /\ ~Carries(tasks[m].ops, Names) =>
                Single(Append(tasks[m].ops, Head(cmds)), Names)
      BY <2>5, <3>1, QueueAppend
    <3>3. t \in Task /\ t.ops = Append(tasks[m].ops, Head(cmds))
      BY <3>1, <3>2 DEF Task
    <3>4. tasks' = [tasks EXCEPT ![m] = t] /\ UNCHANGED <<events, manager_ops>>
      BY <2>5 DEF resolve_forwarded
    <3> HIDE DEF m, t
    <3>5. /\ tasks' \in Seq(Task) /\ Len(tasks') = Len(tasks) /\ tasks'[m] = t
          /\ \A k \in 1..Len(tasks) : k # m => tasks'[k] = tasks[k]
      BY <1>t, <3>1, <3>3, <3>4, TaskUpdate DEF Types
    <3>6. Types'
      BY <1>t, <2>0, <2>2, <3>4, <3>5 DEF Types, uiVars
    <3>7. \A S : Busy(S)' <=> Busy(S) \/ Head(cmds) \in S
      BY <3>1, <3>2, <3>3, <3>5 DEF Busy
    <3>8. \A S \in SUBSET Names : Flying(S)' => Flying(S)
      BY <2>2, <3>4, <3>7 DEF Flying
    <3>9. ASSUME Lone PROVE Lone'
      <4>1. /\ Carries(cmds, Names) /\ ~Busy(Names) /\ ~Carries(events, Answers(Names))
            /\ ~Carries(cmds', Names)
        BY <2>2, <2>5, <3>9 DEF Lone
      <4>2. \A k \in 1..Len(tasks) : ~Carries(tasks[k].ops, Names) /\ Single(tasks[k].ops, Names)
        BY <3>9, <4>1 DEF Busy, Lone
      <4>3. (\A k \in 1..Len(tasks) : Single(tasks[k].ops, Names))'
        BY <3>1, <3>2, <3>3, <3>5, <4>2
      <4>4. (\A k, l \in 1..Len(tasks) :
                Carries(tasks[k].ops, Names) /\ Carries(tasks[l].ops, Names) => k = l)'
        BY <3>5, <4>2
      <4> QED BY <2>2, <3>4, <3>9, <4>1, <4>3, <4>4 DEF Lone
    <3> QED BY <2>3, <3>6, <3>8, <3>9
  <2>6. CASE /\ Head(cmds) \in Names /\ Emits(Answer(Head(cmds), FALSE))
             /\ manager_ops' \in {0, manager_ops} /\ UNCHANGED tasks
    <3>1. /\ Answer(Head(cmds), FALSE) \in Event
          /\ \A S \in SUBSET Names : Answer(Head(cmds), FALSE) \in Answers(S) <=> Head(cmds) \in S
      BY <2>6, AnswerIs
    <3>2. /\ events' \in Seq(Event)
          /\ \A S \in SUBSET Names : Carries(events', Answers(S)) <=>
               Carries(events, Answers(S)) \/ Head(cmds) \in S
          /\ Single(events, Answers(Names)) /\ ~Carries(events, Answers(Names)) =>
               Single(events', Answers(Names))
      BY <1>t, <2>6, <3>1, Emitted
    <3>3. TasksStill
      BY <1>u, <2>6
    <3>4. Types'
      BY <1>t, <2>0, <2>2, <2>6, <3>2 DEF Types, uiVars
    <3>5. \A S \in SUBSET Names : Flying(S)' => Flying(S)
      BY <2>2, <3>2, <3>3 DEF Flying, TasksStill
    <3>6. Lone => Lone'
      BY <2>2, <2>6, <3>2, <3>3 DEF Lone, TasksStill
    <3> QED BY <2>3, <3>4, <3>5, <3>6
  <2>7. CASE Head(cmds) = "Logout" /\ logout
    <3>1. manager_ops' = 0 /\ Emits(Reset) /\ UNCHANGED tasks
      BY <2>7 DEF logout
    <3>2. /\ events' \in Seq(Event)
          /\ \A S \in SUBSET Names : Carries(events', Answers(S)) <=> Carries(events, Answers(S))
          /\ Single(events, Answers(Names)) => Single(events', Answers(Names))
      BY <1>t, <3>1, Emitted, AnswerIs
    <3>3. TasksStill
      BY <1>u, <3>1
    <3>4. Types'
      BY <1>t, <2>0, <2>2, <3>1, <3>2 DEF Types, uiVars
    <3>5. \A S \in SUBSET Names : Flying(S)' => Flying(S)
      BY <2>2, <3>2, <3>3 DEF Flying, TasksStill
    <3>6. Lone => Lone'
      BY <2>2, <3>2, <3>3 DEF Lone, TasksStill
    <3> QED BY <2>3, <3>4, <3>5, <3>6
  <2> QED
    BY <1>5, <2>4, <2>5, <2>6, <2>7
       DEF dispatch, cmd_dropped, resolve_username, resolve_died, resolve_unlinked, link_device,
       workerVars
<1>6. ASSUME link_ends PROVE IInv'
  <2>0. UNCHANGED <<uiVars, cmds, events>>
    BY <1>6 DEF link_ends
  <2>1. CASE UNCHANGED <<manager_ops, tasks>>
    BY <1>t, <2>0, <2>1 DEF IInv, Types, Expected, Asked, Lone, Flying, Busy, uiVars
  <2>2. CASE tasks' = Append(tasks, NewTask) /\ manager_ops' = Len(tasks) + 1
    <3>1. /\ tasks' \in Seq(Task) /\ Len(tasks') = Len(tasks) + 1
          /\ tasks'[Len(tasks) + 1].ops = <<>>
          /\ \A k \in 1..Len(tasks) : tasks'[k] = tasks[k]
      BY <1>t, <2>2, TaskAppend DEF Types
    <3>2. Len(tasks) \in Nat
      BY <1>t DEF Types
    <3>3. \A S : ~Carries(tasks'[Len(tasks) + 1].ops, S) /\ Single(tasks'[Len(tasks) + 1].ops, S)
      BY <3>1, QueueEmpty
    <3>4. /\ \A k \in 1..Len(tasks') : k \in 1..Len(tasks) \/ k = Len(tasks) + 1
          /\ 1..Len(tasks) \subseteq 1..Len(tasks')
      BY <3>1, <3>2
    <3>5. TasksStill
      BY <3>1, <3>3, <3>4 DEF TasksStill, Busy
    <3>6. Types'
      BY <1>t, <2>0, <2>2, <3>1, <3>2 DEF Types, uiVars
    <3>7. Expected'
      BY <1>t, <2>0, <3>5 DEF Expected, Lone, Flying, TasksStill, uiVars
    <3>8. Asked'
      BY <1>t, <2>0 DEF Asked, uiVars
    <3> QED BY <3>6, <3>7, <3>8 DEF IInv
  <2> QED BY <1>6, <2>1, <2>2 DEF link_ends
<1>7. ASSUME NEW k \in DOMAIN tasks, handle_resolve_username(k) PROVE IInv'
  <2>0. /\ k \in 1..Len(tasks) /\ tasks[k] \in Task /\ tasks[k].ops \in Seq(Names)
        /\ tasks[k].ops # <<>>
    <3>1. k \in 1..Len(tasks) /\ tasks \in Seq(Task)
      BY <1>t, <1>7 DEF Types
    <3> QED BY <1>7, <3>1, TaskHas DEF handle_resolve_username
  <2> DEFINE n == Head(tasks[k].ops)
             t == [tasks[k] EXCEPT !.ops = Tail(@)]
  <2>1. /\ n \in Names /\ Tail(tasks[k].ops) \in Seq(Names)
        /\ \A S : Carries(tasks[k].ops, S) <=> Carries(Tail(tasks[k].ops), S) \/ n \in S
        /\ Single(tasks[k].ops, Names) =>
              Single(Tail(tasks[k].ops), Names) /\ ~Carries(Tail(tasks[k].ops), Names)
    BY <2>0, QueueTail
  <2>2. t \in Task /\ t.ops = Tail(tasks[k].ops)
    BY <2>0, <2>1 DEF Task
  <2>3. PICK found \in BOOLEAN : Emits(Answer(n, found))
    BY <1>7 DEF handle_resolve_username
  <2>4. tasks' = [tasks EXCEPT ![k] = t] /\ UNCHANGED <<uiVars, cmds, manager_ops>>
    BY <1>7 DEF handle_resolve_username
  <2> HIDE DEF n, t
  <2>5. /\ tasks' \in Seq(Task) /\ Len(tasks') = Len(tasks) /\ tasks'[k] = t
        /\ \A l \in 1..Len(tasks) : l # k => tasks'[l] = tasks[l]
    BY <1>t, <2>0, <2>2, <2>4, TaskUpdate DEF Types
  <2>6. /\ Answer(n, found) \in Event
        /\ \A S \in SUBSET Names : Answer(n, found) \in Answers(S) <=> n \in S
    BY <2>1, AnswerIs
  <2>7. /\ events' \in Seq(Event)
        /\ \A S \in SUBSET Names : Carries(events', Answers(S)) <=>
             Carries(events, Answers(S)) \/ n \in S
        /\ Single(events, Answers(Names)) /\ ~Carries(events, Answers(Names)) =>
             Single(events', Answers(Names))
    BY <1>t, <2>1, <2>3, <2>6, Emitted
  <2>8. Types'
    BY <1>t, <2>4, <2>5, <2>7 DEF Types, uiVars
  <2>9. \A S : Busy(S) <=> Busy(S)' \/ n \in S
    BY <2>0, <2>1, <2>2, <2>5 DEF Busy
  <2>10. \A S \in SUBSET Names : Flying(S)' => Flying(S)
    BY <2>4, <2>7, <2>9 DEF Flying
  <2>11. ASSUME Lone PROVE Lone'
    <3>1. ~Carries(cmds, Names) /\ ~Carries(events, Answers(Names)) /\ Carries(tasks[k].ops, Names)
      BY <2>1, <2>9, <2>11 DEF Lone
    <3>2. \A l \in 1..Len(tasks) : ~Carries(tasks'[l].ops, Names) /\ Single(tasks'[l].ops, Names)
      BY <2>0, <2>1, <2>2, <2>5, <2>11, <3>1 DEF Lone
    <3>3. ~Busy(Names)'
      BY <2>5, <3>2 DEF Busy
    <3> QED BY <2>4, <2>5, <2>7, <2>11, <3>1, <3>2, <3>3 DEF Lone
  <2>12. Asked'
    BY <1>t, <2>4 DEF Asked, uiVars
  <2>13. Expected'
    BY <1>t, <2>4, <2>10, <2>11 DEF Expected, uiVars
  <2> QED BY <2>8, <2>12, <2>13 DEF IInv
<1>8. ASSUME NEW k \in DOMAIN tasks, Exits(k), UNCHANGED events \/ Emits(Reset) PROVE IInv'
  <2> DEFINE t == [running |-> FALSE, ops |-> <<>>]
  <2>0. /\ k \in 1..Len(tasks) /\ tasks' = [tasks EXCEPT ![k] = t]
        /\ UNCHANGED <<uiVars, cmds, manager_ops>>
    BY <1>t, <1>8 DEF Types, Exits
  <2>1. t \in Task /\ t.ops = <<>>
    BY DEF Task
  <2> HIDE DEF t
  <2>2. /\ tasks' \in Seq(Task) /\ Len(tasks') = Len(tasks) /\ tasks'[k] = t
        /\ \A l \in 1..Len(tasks) : l # k => tasks'[l] = tasks[l]
    BY <1>t, <2>0, <2>1, TaskUpdate DEF Types
  <2>3. /\ events' \in Seq(Event)
        /\ \A S \in SUBSET Names : Carries(events', Answers(S)) <=> Carries(events, Answers(S))
        /\ Single(events, Answers(Names)) => Single(events', Answers(Names))
    <3>1. CASE UNCHANGED events
      BY <1>t, <3>1 DEF Types
    <3>2. CASE Emits(Reset)
      BY <1>t, <3>2, Emitted, AnswerIs
    <3> QED BY <1>8, <3>1, <3>2
  <2>4. \A S : ~Carries(tasks'[k].ops, S) /\ Single(tasks'[k].ops, S)
    BY <2>1, <2>2, QueueEmpty
  <2>5. \A S : Busy(S)' => Busy(S)
    BY <2>0, <2>2, <2>4 DEF Busy
  <2>6. Types'
    BY <1>t, <2>0, <2>2, <2>3 DEF Types, uiVars
  <2>7. \A S \in SUBSET Names : Flying(S)' => Flying(S)
    BY <2>0, <2>3, <2>5 DEF Flying
  <2>8. Lone => Lone'
    BY <2>0, <2>2, <2>3, <2>4, <2>5 DEF Lone
  <2>9. Asked'
    BY <1>t, <2>0 DEF Asked, uiVars
  <2>10. Expected'
    BY <1>t, <2>0, <2>7, <2>8 DEF Expected, uiVars
  <2> QED BY <2>6, <2>9, <2>10 DEF IInv
<1> QED
  BY <1>0, <1>1, <1>2, <1>3, <1>4, <1>5, <1>6, <1>7, <1>8
     DEF Next, Ui, task_rejected, task_gives_up

(* A thread opens only for a lookup the user has asked for, and for the    *)
(* contact of the name that was typed, unless a reset has dropped a lookup *)
(* whose answer was still on its way.                                      *)
THEOREM ChatIsTheOneAskedForHolds == Spec => []ChatIsTheOneAskedFor
<1>1. Init => IInv
  <2> SUFFICES ASSUME Init PROVE IInv
    OBVIOUS
  <2>1. NewTask \in Task /\ NewTask.ops = <<>>
    BY DEF NewTask, Task
  <2>2. tasks = <<NewTask>> /\ tasks \in Seq(Task) /\ Len(tasks) = 1 /\ tasks[1].ops = <<>>
    BY <2>1 DEF Init
  <2>3. Types
    <3>1. cmds \in Seq(Cmd) /\ events \in Seq(Event)
      BY DEF Init
    <3>2. tasks \in Seq(Task) /\ manager_ops \in 0..Len(tasks)
      <4>1. manager_ops = 1
        BY DEF Init
      <4> QED BY <2>2, <4>1
    <3>3. /\ username_lookup_in_progress \in BOOLEAN /\ asked \in BOOLEAN /\ dropped \in BOOLEAN
          /\ username_lookup_pending \in Names \cup {NoName}
      BY DEF Init
    <3> QED BY <3>1, <3>2, <3>3 DEF Types
  <2>4. /\ \A S : ~Carries(cmds, S) /\ ~Carries(events, S) /\ Single(cmds, S) /\ Single(events, S)
        /\ \A S : \A k \in 1..Len(tasks) : ~Carries(tasks[k].ops, S) /\ Single(tasks[k].ops, S)
    BY <2>2, QueueEmpty DEF Init
  <2>5. \A S : ~Busy(S)
    BY <2>4 DEF Busy
  <2>6. Expected
    BY <2>4, <2>5 DEF Expected, Lone, Flying
  <2>7. Asked
    BY DEF Init, Asked
  <2> QED BY <2>3, <2>6, <2>7 DEF IInv
<1>2. IInv => ChatIsTheOneAskedFor
  BY DEF IInv, Asked, ChatIsTheOneAskedFor
<1> QED BY <1>1, <1>2, Step, PTL DEF Spec
=============================================================================
