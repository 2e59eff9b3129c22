-------------------------- MODULE CommunicationProofs --------------------------
(***************************************************************************)
(* Theorems about Communication, for both platforms and any number of      *)
(* workers, operations, functions, tasks and runs: the port is closed      *)
(* behind its work thread, and a coroutine is resumed at most once.        *)
(***************************************************************************)
EXTENDS Communication, FiniteSetTheorems, TLAPS

------------------------------------------------------------------------------
(* The inductive invariant *)

In(x, q) == \E i \in 1..Len(q) : q[i] = x

Once(x, q) == \A i, j \in 1..Len(q) : q[i] = x /\ q[j] = x => i = j

\* What a worker has in hand where it looks at it.
Hands ==
    /\ cur = [w \in Workers |-> cur[w]]
    /\ \A w \in Workers :
          /\ wpc[w] = "task" => \E t \in {"work"} \cup UserTasks : cur[w] = <<t>>
          /\ wpc[w] \in {"packet", "answer"} => \E o \in Ops : cur[w] = <<o>>

\* The work task: taken by w and not over.
Works(w) == wpc[w] \in InWork \/ (wpc[w] = "task" /\ cur[w] = <<"work">>)

\* There is one work task at most, queued or at work, and only where Run still has
\* a notice to wait for.
OneWork ==
    /\ Once("work", tasks_)
    /\ \A w, v \in Workers : Works(w) /\ Works(v) => w = v
    /\ In("work", tasks_) => \A w \in Workers : ~Works(w)

Turn ==
    /\ In("work", tasks_) \/ (\E w \in Workers : Works(w)) =>
          cpc \in {"await", "clear", "tell", "join"} /\ times_ = 1
    /\ cpc = "create" => times_ = 1
    /\ stop_wait => cpc = "await"
    /\ notice_wait => cpc = "join"

Carries(w, o) == wpc[w] \in {"packet", "answer"} /\ cur[w] = <<o>>

\* A packet tells of an operation that is done, and there is one of it.
PacketOf(o) ==
    /\ Once(o, packets)
    /\ In(o, packets) => /\ io[o] \in {"success", "fail"} /\ ~finish_flag_[o]
                         /\ \A w \in Workers : ~Carries(w, o)
    /\ \A w \in Workers :
          Carries(w, o) =>
             /\ io[o] \notin {"none", "pending"}
             /\ wpc[w] = "packet" => ~finish_flag_[o]
             /\ wpc[w] = "answer" => finish_flag_[o] /\ resumes[o] = 0
    /\ io[o] \in {"none", "pending"} => ~finish_flag_[o]

Packets == \A o \in Ops : PacketOf(o)

\* Packet and timeout exclude each other, and who was first resumes the coroutine.
AnswerOf(o) ==
    /\ ~(finish_flag_[o] /\ timeout_flag_[o])
    /\ spc[o] = "idle" => io[o] = "none" /\ resumes[o] = 0
    /\ spc[o] = "start_task" => io[o] # "none"
    /\ task[o] # "none" => spc[o] = "done" /\ io[o] # "none"
    /\ timeout_flag_[o] <=> task[o] = "answer" \/ (task[o] = "over" /\ ~finish_flag_[o])
    /\ task[o] = "answer" => resumes[o] = 0
    /\ resumes[o] # 0 =>
          /\ resumes[o] = 1 /\ spc[o] # "idle"
          /\ \/ io[o] = "none" /\ spc[o] = "done"
             \/ finish_flag_[o] /\ \A w \in Workers : ~Carries(w, o)
             \/ timeout_flag_[o] /\ task[o] = "over"

Answers == \A o \in Ops : AnswerOf(o)

CommInv == TypeOK /\ Hands /\ OneWork /\ Turn /\ Packets /\ Answers

------------------------------------------------------------------------------
(* Queues *)

\* What was appended is the only thing that is new, and there is one of it.
LEMMA PushOne ==
    ASSUME NEW S, NEW q \in Seq(S), NEW e \in S
    PROVE  /\ Append(q, e) \in Seq(S)
           /\ \A x : In(x, Append(q, e)) <=> In(x, q) \/ x = e
           /\ \A x : Once(x, q) /\ (x # e \/ ~In(x, q)) => Once(x, Append(q, e))
<1> DEFINE r == Append(q, e)
<1>1. /\ r \in Seq(S) /\ Len(r) = Len(q) + 1 /\ r[Len(q) + 1] = e /\ Len(q) \in Nat
      /\ \A i \in 1..Len(q) : r[i] = q[i]
  OBVIOUS
<1> HIDE DEF r
<1>2. \A i \in 1..Len(r) : i \in 1..Len(q) \/ i = Len(q) + 1 BY <1>1
<1>3. \A i \in 1..Len(q) : i \in 1..Len(r) BY <1>1
<1>4. Len(q) + 1 \in 1..Len(r) BY <1>1
<1>5. ASSUME NEW x PROVE In(x, r) <=> In(x, q) \/ x = e
  <2>1. In(x, r) => In(x, q) \/ x = e BY <1>1, <1>2 DEF In
  <2>2. In(x, q) => In(x, r) BY <1>1, <1>3 DEF In
  <2>3. x = e => In(x, r) BY <1>1, <1>4 DEF In
  <2>4. QED BY <2>1, <2>2, <2>3
<1>6. ASSUME NEW x, Once(x, q), x # e \/ ~In(x, q) PROVE Once(x, r)
  BY <1>1, <1>2, <1>6 DEF In, Once
<1>7. QED BY <1>1, <1>5, <1>6 DEF r

\* What was taken from the front was there once and is no longer.
LEMMA PopOne ==
    ASSUME NEW S, NEW q \in Seq(S), q # << >>
    PROVE  /\ Tail(q) \in Seq(S) /\ Head(q) \in S /\ In(Head(q), q)
           /\ \A x : In(x, Tail(q)) => In(x, q)
           /\ \A x : Once(x, q) => Once(x, Tail(q)) /\ (x = Head(q) => ~In(x, Tail(q)))
<1> DEFINE r == Tail(q)
           h == Head(q)
<1>1. /\ r \in Seq(S) /\ Len(r) = Len(q) - 1 /\ Len(q) \in Nat \ {0} /\ h \in S /\ h = q[1]
      /\ \A i \in 1..Len(r) : r[i] = q[i + 1]
  OBVIOUS
<1> HIDE DEF r, h
<1>2. /\ 1 \in 1..Len(q)
      /\ \A i \in 1..Len(r) : i + 1 \in 1..Len(q) /\ i + 1 # 1
      /\ \A i, j \in 1..Len(r) : i + 1 = j + 1 => i = j
  BY <1>1
<1>3. In(h, q) BY <1>1, <1>2 DEF In
<1>4. ASSUME NEW x, In(x, r) PROVE In(x, q) BY <1>1, <1>2, <1>4 DEF In
<1>5. ASSUME NEW x, Once(x, q) PROVE Once(x, r) BY <1>1, <1>2, <1>5 DEF Once
<1>6. ASSUME NEW x, Once(x, q), x = h PROVE ~In(x, r) BY <1>1, <1>2, <1>6 DEF In, Once
<1>7. QED BY <1>1, <1>3, <1>4, <1>5, <1>6 DEF r, h

------------------------------------------------------------------------------
(* Types *)

Tasks == {"work"} \cup UserTasks

\* A worker that gets something else into its hand.
LEMMA ChangedHand ==
    ASSUME NEW f, f = [w \in Workers |-> f[w]], NEW v \in Workers, NEW x
    PROVE  /\ [f EXCEPT ![v] = x] = [w \in Workers |-> [f EXCEPT ![v] = x][w]]
           /\ [f EXCEPT ![v] = x][v] = x
           /\ \A w \in Workers : w # v => [f EXCEPT ![v] = x][w] = f[w]
OBVIOUS

\* What goes with where the worker goes.
LEMMA HandMoved ==
    ASSUME TypeOK, Hands, NEW v \in Workers, NEW l, NEW x,
           wpc' = [wpc EXCEPT ![v] = l], cur' = [cur EXCEPT ![v] = x],
           l = "task" => \E t \in Tasks : x = <<t>>,
           l \in {"packet", "answer"} => \E o \in Ops : x = <<o>>
    PROVE  Hands'
<1>1. cur = [w \in Workers |-> cur[w]] BY DEF Hands
<1>2. /\ cur' = [w \in Workers |-> cur'[w]]
      /\ cur'[v] = x
      /\ \A w \in Workers : w # v => cur'[w] = cur[w]
      BY <1>1, ChangedHand
<1>3. wpc'[v] = l /\ \A w \in Workers : w # v => wpc'[w] = wpc[w] BY DEF TypeOK
<1>4. ASSUME NEW w \in Workers
      PROVE  /\ wpc'[w] = "task" => \E t \in Tasks : cur'[w] = <<t>>
             /\ wpc'[w] \in {"packet", "answer"} => \E o \in Ops : cur'[w] = <<o>>
  <2>1. CASE w = v BY <1>2, <1>3, <2>1
  <2>2. CASE w # v
    <3>1. wpc'[w] = wpc[w] /\ cur'[w] = cur[w] BY <1>2, <1>3, <2>2
    <3>2. QED BY <3>1 DEF Hands, Tasks
  <2>3. QED BY <2>1, <2>2
<1>5. QED BY <1>2, <1>4 DEF Hands, Tasks

\* Posting a task wakes a sleeping worker, and nobody else notices.
LEMMA PostStep ==
    ASSUME TypeOK, NEW t \in Tasks, Post(t)
    PROVE  /\ tasks_' \in Seq(Tasks)
           /\ \A x : In(x, tasks_') <=> In(x, tasks_) \/ x = t
           /\ \A x : Once(x, tasks_) /\ (x # t \/ ~In(x, tasks_)) => Once(x, tasks_')
           /\ wpc' \in [Workers -> InWork \cup {"test", "lock", "asleep", "task", "resuming", "gone"}]
           /\ \A w \in Workers : wpc'[w] = wpc[w] \/ wpc'[w] = "lock"
<1>1. tasks_ \in Seq(Tasks) BY DEF TypeOK, Tasks
<1>2. tasks_' = Append(tasks_, t) BY DEF Post
<1>3. wpc \in [Workers -> InWork \cup {"test", "lock", "asleep", "task", "resuming", "gone"}]
      BY DEF TypeOK
<1>4. \/ UNCHANGED wpc
      \/ \E w \in Workers : wpc' = [wpc EXCEPT ![w] = "lock"]
      BY DEF Post, Awakened
<1>5. /\ wpc' \in [Workers -> InWork \cup {"test", "lock", "asleep", "task", "resuming", "gone"}]
      /\ \A w \in Workers : wpc'[w] = wpc[w] \/ wpc'[w] = "lock"
      BY <1>3, <1>4
<1>6. QED BY <1>1, <1>2, <1>5, PushOne

\* The type invariant, and what the workers have in hand.
LEMMA TypeStep ==
    ASSUME CommunicationAssumption, TypeOK, Hands, [Next]_vars
    PROVE  TypeOK' /\ Hands'
<1>1. ASSUME RunBegin PROVE TypeOK' /\ Hands'
      BY <1>1, CommunicationAssumption, TypeOK, Hands DEF RunBegin, poolVars, windowsVars,
         opVars, WorkThreads, TypeOK, Hands, InWork
<1>2. ASSUME CreateWorkThread PROVE TypeOK' /\ Hands'
  <2>1. "work" \in Tasks BY DEF Tasks
  <2>2. Post("work") BY <1>2 DEF CreateWorkThread
  <2>3. /\ tasks_' \in Seq(Tasks)
        /\ wpc' \in [Workers -> InWork \cup {"test", "lock", "asleep", "task", "resuming", "gone"}]
        /\ \A w \in Workers : wpc'[w] = wpc[w] \/ wpc'[w] = "lock"
        BY <2>1, <2>2, PostStep
  <2>4. TypeOK' BY <1>2, <2>3, TypeOK
        DEF CreateWorkThread, TypeOK, Tasks, linuxVars, windowsVars, opVars
  <2>5. cur' = cur BY <1>2 DEF CreateWorkThread
  <2>6. QED BY <2>3, <2>4, <2>5, Hands DEF Hands
<1>3. ASSUME AwaitStop PROVE TypeOK' /\ Hands'
      BY <1>3, CommunicationAssumption, TypeOK, Hands DEF AwaitStop, poolVars, linuxVars,
         windowsVars, opVars, TypeOK, Hands, InWork
<1>4. ASSUME ClearRunFlag PROVE TypeOK' /\ Hands'
      BY <1>4, CommunicationAssumption, TypeOK, Hands DEF ClearRunFlag, poolVars,
         linuxVars, windowsVars, opVars, TypeOK, Hands, InWork
<1>5. ASSUME TellWorkThread PROVE TypeOK' /\ Hands'
  <2>1. /\ stop_fd_' = stop_fd_ \/ stop_fd_' = stop_fd_ + 1
        /\ packets' = packets \/ packets' = Append(packets, "wake")
        BY <1>5 DEF TellWorkThread
  <2>2. "wake" \in {"wake"} \cup Ops /\ packets \in Seq({"wake"} \cup Ops) BY TypeOK DEF TypeOK
  <2>3. packets' \in Seq({"wake"} \cup Ops) BY <2>1, <2>2, PushOne
  <2>4. stop_fd_' \in Nat BY <2>1, TypeOK DEF TypeOK
  <2>5. QED BY <1>5, <2>3, <2>4, TypeOK, Hands
        DEF TellWorkThread, TypeOK, Hands, poolVars, opVars
<1>6. ASSUME AwaitNotices PROVE TypeOK' /\ Hands'
      BY <1>6, CommunicationAssumption, TypeOK, Hands DEF AwaitNotices, poolVars,
         linuxVars, windowsVars, opVars, TypeOK, Hands, InWork
<1>7. ASSUME Close PROVE TypeOK' /\ Hands'
      BY <1>7, CommunicationAssumption, TypeOK, Hands DEF Close, poolVars, linuxVars,
         opVars, TypeOK, Hands, InWork
<1>8. ASSUME Stop PROVE TypeOK' /\ Hands'
      BY <1>8, CommunicationAssumption, TypeOK, Hands DEF Stop, poolVars, linuxVars,
         windowsVars, opVars, TypeOK, Hands, InWork
<1>9. ASSUME PoolStop PROVE TypeOK' /\ Hands'
      BY <1>9, CommunicationAssumption, TypeOK, Hands DEF PoolStop, runVars, linuxVars,
         windowsVars, opVars, TypeOK, Hands, InWork
<1>10. ASSUME PoolNotify PROVE TypeOK' /\ Hands'
      BY <1>10, CommunicationAssumption, TypeOK, Hands DEF PoolNotify, runVars, linuxVars,
         windowsVars, opVars, StopNotified, AllAwakened, TypeOK, Hands, InWork
<1>11. ASSUME PoolJoin PROVE TypeOK' /\ Hands'
      BY <1>11, CommunicationAssumption, TypeOK, Hands DEF PoolJoin, runVars, linuxVars,
         windowsVars, opVars, TypeOK, Hands, InWork
<1>12. ASSUME CloseSocket PROVE TypeOK' /\ Hands'
      BY <1>12, CommunicationAssumption, TypeOK, Hands DEF CloseSocket, runVars, poolVars,
         linuxVars, opVars, TypeOK, Hands, InWork
<1>13. ASSUME NEW w \in Workers, TestStop(w) PROVE TypeOK' /\ Hands'
      BY <1>13, CommunicationAssumption, TypeOK, Hands DEF TestStop, runVars, linuxVars,
         windowsVars, opVars, GotoWorker, TypeOK, Hands, InWork
<1>14. ASSUME NEW w \in Workers, TakeTask(w) PROVE TypeOK' /\ Hands'
  <2>1. CASE wpc' = [wpc EXCEPT ![w] = "gone"] /\ UNCHANGED <<tasks_, cur>>
        BY <1>14, <2>1, TypeOK, Hands
        DEF TakeTask, TypeOK, Hands, InWork, runVars, linuxVars, windowsVars, opVars
  <2>2. CASE wpc' = [wpc EXCEPT ![w] = "asleep"] /\ UNCHANGED <<tasks_, cur>>
        BY <1>14, <2>2, TypeOK, Hands
        DEF TakeTask, TypeOK, Hands, InWork, runVars, linuxVars, windowsVars, opVars
  <2>3. CASE /\ tasks_ # << >> /\ tasks_' = Tail(tasks_)
             /\ cur' = [cur EXCEPT ![w] = <<Head(tasks_)>>]
             /\ wpc' = [wpc EXCEPT ![w] = "task"]
    <3>1. tasks_' \in Seq(Tasks) /\ Head(tasks_) \in Tasks
          BY <2>3, PopOne, TypeOK DEF TypeOK, Tasks
    <3>2. TypeOK' BY <1>14, <2>3, <3>1, TypeOK
          DEF TakeTask, TypeOK, Tasks, InWork, runVars, linuxVars, windowsVars, opVars
    <3>3. Hands' BY <2>3, <3>1, TypeOK, Hands, HandMoved
    <3>4. QED BY <3>2, <3>3
  <2>4. QED BY <1>14, <2>1, <2>2, <2>3 DEF TakeTask, GotoWorker
<1>15. ASSUME NEW w \in Workers, CallTask(w) PROVE TypeOK' /\ Hands'
  <2>1. PICK t \in Tasks : cur[w] = <<t>> BY <1>15, Hands DEF CallTask, Hands, Tasks
  <2>2. Head(cur[w]) = t BY <2>1
  <2>3. cur[w] # <<"work">> => t \in UserTasks BY <2>1 DEF Tasks
  <2>4. done' \subseteq UserTasks BY <1>15, <2>2, <2>3, TypeOK DEF CallTask, TypeOK
  <2>5. \E l \in {"loop", "test"} : wpc' = [wpc EXCEPT ![w] = l]
        BY <1>15 DEF CallTask, GotoWorker
  <2>6. TypeOK' BY <1>15, <2>4, <2>5, TypeOK
        DEF CallTask, TypeOK, InWork, runVars, linuxVars, windowsVars, opVars
  <2>7. Hands'
    <3>1. PICK l \in {"loop", "test"} : wpc' = [wpc EXCEPT ![w] = l] BY <2>5
    <3>2. cur' = [cur EXCEPT ![w] = << >>] BY <1>15 DEF CallTask
    <3>3. QED BY <3>1, <3>2, TypeOK, Hands, HandMoved
  <2>8. QED BY <2>6, <2>7
<1>16. ASSUME NEW w \in Workers, WorkLoop(w) PROVE TypeOK' /\ Hands'
      BY <1>16, CommunicationAssumption, TypeOK, Hands DEF WorkLoop, runVars, linuxVars,
         windowsVars, opVars, GotoWorker, TypeOK, Hands, InWork
<1>f. ASSUME NEW w \in Workers, EpollWaitFails(w) PROVE TypeOK' /\ Hands'
      BY <1>f, CommunicationAssumption, TypeOK, Hands DEF EpollWaitFails, runVars, linuxVars,
         windowsVars, opVars, GotoWorker, TypeOK, Hands, InWork
<1>17. ASSUME NEW w \in Workers, EpollWait(w) PROVE TypeOK' /\ Hands'
  <2>1. /\ wpc' = [wpc EXCEPT ![w] = "batch"]
        /\ \E batch : cur' = [cur EXCEPT ![w] = batch]
        BY <1>17 DEF EpollWait, GotoWorker
  <2>2. TypeOK' BY <1>17, <2>1, TypeOK
        DEF EpollWait, TypeOK, InWork, runVars, linuxVars, windowsVars, opVars
  <2>3. PICK batch : cur' = [cur EXCEPT ![w] = batch] BY <2>1
  <2>4. Hands' BY <2>1, <2>3, TypeOK, Hands, HandMoved
  <2>5. QED BY <2>2, <2>4
<1>18. ASSUME NEW w \in Workers, CallEvent(w) PROVE TypeOK' /\ Hands'
  <2>1. /\ \E l \in {"loop", "run_funs", "batch"} : wpc' = [wpc EXCEPT ![w] = l]
        /\ cur' = cur \/ cur' = [cur EXCEPT ![w] = Tail(cur[w])]
        /\ funs_fd_' \in Nat
        BY <1>18, TypeOK DEF CallEvent, GotoWorker, TypeOK
  <2>2. TypeOK' BY <1>18, <2>1, TypeOK
        DEF CallEvent, TypeOK, InWork, runVars, windowsVars, opVars
  <2>3. Hands' BY <2>1, TypeOK, Hands, ChangedHand DEF TypeOK, Hands
  <2>4. QED BY <2>2, <2>3
<1>19. ASSUME NEW w \in Workers, OnRunFuns(w) PROVE TypeOK' /\ Hands'
      BY <1>19, CommunicationAssumption, TypeOK, Hands DEF OnRunFuns, runVars, windowsVars,
         opVars, GotoWorker, TypeOK, Hands, InWork
<1>20. ASSUME NEW w \in Workers, GetPacket(w) PROVE TypeOK' /\ Hands'
  <2>1. packets' \in Seq({"wake"} \cup Ops) /\ Head(packets) \in {"wake"} \cup Ops
        BY <1>20, PopOne, TypeOK DEF GetPacket, TypeOK
  <2>2. \/ wpc' = [wpc EXCEPT ![w] = "loop"] /\ cur' = cur
        \/ /\ wpc' = [wpc EXCEPT ![w] = "packet"] /\ Head(packets) \in Ops
           /\ cur' = [cur EXCEPT ![w] = <<Head(packets)>>]
        BY <1>20, <2>1 DEF GetPacket, GotoWorker
  <2>3. wpc' \in [Workers -> InWork \cup {"test", "lock", "asleep", "task", "resuming", "gone"}]
        BY <2>2, TypeOK DEF TypeOK, InWork
  <2>4. TypeOK' BY <1>20, <2>1, <2>3, TypeOK DEF GetPacket, TypeOK, runVars, linuxVars, opVars
  <2>5. CASE cur' = cur /\ wpc' = [wpc EXCEPT ![w] = "loop"]
        BY <2>4, <2>5, TypeOK, Hands DEF TypeOK, Hands
  <2>6. CASE /\ wpc' = [wpc EXCEPT ![w] = "packet"] /\ Head(packets) \in Ops
             /\ cur' = [cur EXCEPT ![w] = <<Head(packets)>>]
        BY <2>4, <2>6, TypeOK, Hands, HandMoved
  <2>7. QED BY <2>2, <2>5, <2>6
<1>21. ASSUME NEW w \in Workers, IoCallback(w) PROVE TypeOK' /\ Hands'
  <2>1. PICK o \in Ops : cur[w] = <<o>> BY <1>21, Hands DEF IoCallback, Hands
  <2>2. Head(cur[w]) = o BY <2>1
  <2>3. finish_flag_' = finish_flag_ \/ finish_flag_' = [finish_flag_ EXCEPT ![o] = TRUE]
        BY <1>21, <2>2 DEF IoCallback
  <2>4. \/ wpc' = [wpc EXCEPT ![w] = "loop"] /\ cur' = [cur EXCEPT ![w] = << >>]
        \/ wpc' = [wpc EXCEPT ![w] = "answer"] /\ cur' = cur
        BY <1>21 DEF IoCallback, GotoWorker
  <2>5. wpc' \in [Workers -> InWork \cup {"test", "lock", "asleep", "task", "resuming", "gone"}]
        BY <2>4, TypeOK DEF TypeOK, InWork
  <2>6. finish_flag_' \in [Ops -> BOOLEAN] BY <2>3, TypeOK DEF TypeOK
  <2>7. TypeOK' BY <1>21, <2>5, <2>6, TypeOK DEF IoCallback, TypeOK, runVars, linuxVars
  <2>8. wpc[w] = "packet" BY <1>21 DEF IoCallback
  <2>9. Hands' BY <2>4, <2>8, TypeOK, Hands, ChangedHand DEF TypeOK, Hands
  <2>10. QED BY <2>7, <2>9
<1>22. ASSUME NEW w \in Workers, IoAnswer(w) PROVE TypeOK' /\ Hands'
  <2>1. PICK o \in Ops : cur[w] = <<o>> BY <1>22, Hands DEF IoAnswer, Hands
  <2>2. Head(cur[w]) = o BY <2>1
  <2>3. /\ task' = [task EXCEPT ![o] = IF @ = "started" THEN "stopped" ELSE @]
        /\ resumes' = [resumes EXCEPT ![o] = @ + 1]
        BY <1>22, <2>2 DEF IoAnswer, Resume
  <2>4. /\ task' \in [Ops -> {"none", "started", "stopped", "answer", "over"}]
        /\ resumes' \in [Ops -> Nat]
        BY <2>3, TypeOK DEF TypeOK
  <2>5. wpc' = [wpc EXCEPT ![w] = "loop"] /\ cur' = [cur EXCEPT ![w] = << >>]
        BY <1>22 DEF IoAnswer, GotoWorker
  <2>6. TypeOK' BY <1>22, <2>4, <2>5, TypeOK
        DEF IoAnswer, TypeOK, InWork, runVars, linuxVars
  <2>7. Hands' BY <2>5, TypeOK, Hands, HandMoved
  <2>8. QED BY <2>6, <2>7
<1>23. ASSUME NEW w \in Workers, NotifyFinish(w) PROVE TypeOK' /\ Hands'
  <2>1. /\ \E l \in {"resuming", "test"} : wpc' = [wpc EXCEPT ![w] = l]
        /\ cpc' = "close" \/ cpc' = cpc
        /\ notice_wait' \in BOOLEAN
        BY <1>23, TypeOK DEF NotifyFinish, GotoWorker, TypeOK
  <2>2. times_' \in Nat BY <1>23, TypeOK DEF NotifyFinish, TypeOK
  <2>3. TypeOK' BY <1>23, <2>1, <2>2, TypeOK
        DEF NotifyFinish, TypeOK, InWork, linuxVars, windowsVars, opVars
  <2>4. Hands' BY <1>23, <2>1, TypeOK, Hands DEF NotifyFinish, TypeOK, Hands
  <2>5. QED BY <2>3, <2>4
<1>24. ASSUME NEW w \in Workers, ResumeReturns(w) PROVE TypeOK' /\ Hands'
      BY <1>24, CommunicationAssumption, TypeOK, Hands DEF ResumeReturns, runVars,
         linuxVars, windowsVars, opVars, GotoWorker, TypeOK, Hands, InWork
<1>25. ASSUME NEW w \in Workers, SpuriousWake(w) PROVE TypeOK' /\ Hands'
      BY <1>25, CommunicationAssumption, TypeOK, Hands DEF SpuriousWake, runVars,
         linuxVars, windowsVars, opVars, Awakened, TypeOK, Hands, InWork
<1>26. ASSUME NEW w \in Workers, PoolJoinsItself(w) PROVE TypeOK' /\ Hands'
      BY <1>26, CommunicationAssumption, TypeOK, Hands DEF PoolJoinsItself, runVars,
         linuxVars, windowsVars, opVars, TypeOK, Hands, InWork
<1>27. ASSUME NEW t \in UserTasks, UserPosts(t) PROVE TypeOK' /\ Hands'
  <2>1. t \in Tasks BY DEF Tasks
  <2>2. Post(t) BY <1>27 DEF UserPosts
  <2>3. /\ tasks_' \in Seq(Tasks)
        /\ wpc' \in [Workers -> InWork \cup {"test", "lock", "asleep", "task", "resuming", "gone"}]
        /\ \A w \in Workers : wpc'[w] = wpc[w] \/ wpc'[w] = "lock"
        BY <2>1, <2>2, PostStep
  <2>4. TypeOK' BY <1>27, <2>3, TypeOK
        DEF UserPosts, TypeOK, Tasks, runVars, linuxVars, windowsVars, opVars
  <2>5. cur' = cur BY <1>27 DEF UserPosts
  <2>6. QED BY <2>3, <2>4, <2>5, Hands DEF Hands
<1>28. ASSUME NEW f \in Funs, AddFun(f) PROVE TypeOK' /\ Hands'
      BY <1>28, CommunicationAssumption, TypeOK, Hands DEF AddFun, runVars, poolVars,
         windowsVars, opVars, TypeOK, Hands, InWork
<1>29. ASSUME NEW f \in Funs, RingFuns(f) PROVE TypeOK' /\ Hands'
      BY <1>29, CommunicationAssumption, TypeOK, Hands DEF RingFuns, runVars, poolVars,
         windowsVars, opVars, Rung, TypeOK, Hands, InWork
<1>30. ASSUME NEW o \in Ops, OperateFails(o) PROVE TypeOK' /\ Hands'
      BY <1>30, CommunicationAssumption, TypeOK, Hands DEF OperateFails, runVars, poolVars,
         linuxVars, Resume, TypeOK, Hands, InWork
<1>31. ASSUME NEW o \in Ops, DoOperate(o) PROVE TypeOK' /\ Hands'
      BY <1>31, CommunicationAssumption, TypeOK, Hands DEF DoOperate, runVars, poolVars,
         linuxVars, TypeOK, Hands, InWork
<1>32. ASSUME NEW o \in Ops, StartTask(o) PROVE TypeOK' /\ Hands'
      BY <1>32, CommunicationAssumption, TypeOK, Hands DEF StartTask, runVars, poolVars,
         linuxVars, Armed, TypeOK, Hands, InWork
<1>33. ASSUME NEW o \in Ops, Complete(o) PROVE TypeOK' /\ Hands'
  <2>1. PICK r \in {"success", "fail"} :
           \/ io' = [io EXCEPT ![o] = r] /\ packets' = Append(packets, o)
           \/ io' = [io EXCEPT ![o] = "lost"] /\ packets' = packets
        BY <1>33 DEF Complete
  <2>2. Append(packets, o) \in Seq({"wake"} \cup Ops) BY PushOne, TypeOK DEF TypeOK
  <2>3. packets' \in Seq({"wake"} \cup Ops) BY <2>1, <2>2, TypeOK DEF TypeOK
  <2>4. io' \in [Ops -> {"none", "pending", "success", "fail", "lost"}] BY <2>1, TypeOK DEF TypeOK
  <2>5. QED BY <1>33, <2>3, <2>4, TypeOK, Hands
        DEF Complete, TypeOK, Hands, runVars, poolVars, linuxVars, opVars
<1>34. ASSUME NEW o \in Ops, OnTimeout(o) PROVE TypeOK' /\ Hands'
  <2>1. \E l \in {"over", "answer"} : task' = [task EXCEPT ![o] = l]
        BY <1>34 DEF OnTimeout
  <2>2. timeout_flag_' = timeout_flag_ \/ timeout_flag_' = [timeout_flag_ EXCEPT ![o] = TRUE]
        BY <1>34 DEF OnTimeout
  <2>3. task' \in [Ops -> {"none", "started", "stopped", "answer", "over"}] BY <2>1, TypeOK DEF TypeOK
  <2>4. timeout_flag_' \in [Ops -> BOOLEAN] BY <2>2, TypeOK DEF TypeOK
  <2>5. QED BY <1>34, <2>3, <2>4, TypeOK, Hands DEF OnTimeout, TypeOK, Hands, runVars, poolVars, linuxVars
<1>35. ASSUME NEW o \in Ops, TimeoutAnswer(o) PROVE TypeOK' /\ Hands'
      BY <1>35, CommunicationAssumption, TypeOK, Hands DEF TimeoutAnswer, runVars,
         poolVars, linuxVars, Resume, TypeOK, Hands, InWork
<1>36. CASE UNCHANGED vars
      BY <1>36, CommunicationAssumption, TypeOK, Hands DEF vars, runVars, poolVars,
         linuxVars, windowsVars, opVars, TypeOK, Hands, InWork
<1>37. QED
      BY <1>f, <1>1, <1>2, <1>3, <1>4, <1>5, <1>6, <1>7, <1>8, <1>9, <1>10, <1>11, <1>12, <1>13,
         <1>14, <1>15, <1>16, <1>17, <1>18, <1>19, <1>20, <1>21, <1>22, <1>23, <1>24,
         <1>25, <1>26, <1>27, <1>28, <1>29, <1>30, <1>31, <1>32, <1>33, <1>34, <1>35, <1>36
         DEF Next, RunStep, PoolStep, Worker, WorkStep, TimerStep

------------------------------------------------------------------------------
(* The work task *)

\* Nothing that is at work begins or is queued, and Run stays where it is.
LEMMA WorkFrame ==
    ASSUME OneWork, Turn, UNCHANGED <<tasks_, cpc, times_, stop_wait, notice_wait>>,
           \A w \in Workers : Works(w)' => Works(w)
    PROVE  OneWork' /\ Turn'
BY DEF OneWork, Turn

\* A worker that moves on begins no work.
LEMMA WorkerMoves ==
    ASSUME TypeOK, Hands, NEW w \in Workers, NEW l, wpc' = [wpc EXCEPT ![w] = l], l # "task",
           l \in InWork => Works(w),
           cur' = cur \/ \E x : cur' = [cur EXCEPT ![w] = x]
    PROVE  \A v \in Workers : Works(v)' => Works(v)
<1>1. cur = [v \in Workers |-> cur[v]] BY DEF Hands
<1>2. \A v \in Workers : v # w => cur'[v] = cur[v]
  <2>1. CASE cur' = cur BY <2>1
  <2>2. CASE cur' # cur
    <3>1. PICK x : cur' = [cur EXCEPT ![w] = x] BY <2>2
    <3>2. QED BY <1>1, <3>1, ChangedHand
  <2>3. QED BY <2>1, <2>2
<1>3. wpc'[w] = l /\ \A v \in Workers : v # w => wpc'[v] = wpc[v] BY DEF TypeOK
<1>4. Works(w)' => Works(w) BY <1>3 DEF Works
<1>5. \A v \in Workers : v # w => (Works(v)' => Works(v)) BY <1>2, <1>3 DEF Works
<1>6. QED BY <1>4, <1>5

\* The work task, its place and its count.
LEMMA WorkTaskStep ==
    ASSUME CommunicationAssumption, TypeOK, Hands, OneWork, Turn, [Next]_vars
    PROVE  OneWork' /\ Turn'
<1>1. ASSUME RunBegin PROVE OneWork' /\ Turn'
      BY <1>1, OneWork, Turn DEF RunBegin, poolVars, windowsVars, opVars, WorkThreads,
         OneWork, Turn, Works
<1>2. ASSUME CreateWorkThread PROVE OneWork' /\ Turn'
  <2>1. "work" \in Tasks BY DEF Tasks
  <2>2. Post("work") /\ cpc = "create" /\ cpc' = "await"
        /\ UNCHANGED <<cur, times_, stop_wait, notice_wait>>
        BY <1>2 DEF CreateWorkThread
  <2>3. ~In("work", tasks_) /\ (\A w \in Workers : ~Works(w)) /\ times_ = 1
        BY <2>2, Turn DEF Turn
  <2>4. \A w \in Workers : ~Works(w)' BY <2>1, <2>2, <2>3, PostStep, TypeOK DEF Works, InWork
  <2>5. Once("work", tasks_') BY <2>1, <2>2, <2>3, PostStep, TypeOK, OneWork DEF OneWork
  <2>6. QED BY <2>2, <2>3, <2>4, <2>5, Turn DEF OneWork, Turn
<1>3. ASSUME AwaitStop PROVE OneWork' /\ Turn'
      BY <1>3, OneWork, Turn DEF AwaitStop, poolVars, linuxVars, windowsVars, opVars,
         OneWork, Turn, Works
<1>4. ASSUME ClearRunFlag PROVE OneWork' /\ Turn'
      BY <1>4, OneWork, Turn DEF ClearRunFlag, poolVars, linuxVars, windowsVars, opVars,
         OneWork, Turn, Works
<1>5. ASSUME TellWorkThread PROVE OneWork' /\ Turn'
      BY <1>5, OneWork, Turn DEF TellWorkThread, poolVars, opVars, OneWork, Turn, Works
<1>6. ASSUME AwaitNotices PROVE OneWork' /\ Turn'
      BY <1>6, OneWork, Turn DEF AwaitNotices, poolVars, linuxVars, windowsVars, opVars,
         OneWork, Turn, Works
<1>7. ASSUME Close PROVE OneWork' /\ Turn'
      BY <1>7, OneWork, Turn DEF Close, poolVars, linuxVars, opVars, OneWork, Turn, Works
<1>8. ASSUME Stop PROVE OneWork' /\ Turn'
      BY <1>8, OneWork, Turn DEF Stop, poolVars, linuxVars, windowsVars, opVars, OneWork,
         Turn, Works
<1>9. ASSUME PoolStop PROVE OneWork' /\ Turn'
      BY <1>9, OneWork, Turn DEF PoolStop, runVars, linuxVars, windowsVars, opVars,
         OneWork, Turn, Works
<1>10. ASSUME PoolNotify PROVE OneWork' /\ Turn'
  <2>1. UNCHANGED <<cur, tasks_, cpc, times_, stop_wait, notice_wait>>
        BY <1>10 DEF PoolNotify, runVars
  <2>2. \A w \in Workers : wpc'[w] = wpc[w] \/ wpc'[w] = "lock"
        BY <1>10 DEF PoolNotify, StopNotified, AllAwakened
  <2>3. \A w \in Workers : Works(w)' => Works(w) BY <2>1, <2>2 DEF Works, InWork
  <2>4. QED BY <2>1, <2>3, OneWork, Turn, WorkFrame
<1>11. ASSUME PoolJoin PROVE OneWork' /\ Turn'
      BY <1>11, OneWork, Turn DEF PoolJoin, runVars, linuxVars, windowsVars, opVars,
         OneWork, Turn, Works
<1>12. ASSUME CloseSocket PROVE OneWork' /\ Turn'
      BY <1>12, OneWork, Turn DEF CloseSocket, runVars, poolVars, linuxVars, opVars,
         OneWork, Turn, Works
<1>13. ASSUME NEW w \in Workers, TestStop(w) PROVE OneWork' /\ Turn'
  <2>1. /\ \E l \in {"gone", "lock"} : wpc' = [wpc EXCEPT ![w] = l]
        /\ cur' = cur \/ \E x : cur' = [cur EXCEPT ![w] = x]
        BY <1>13 DEF TestStop, GotoWorker
  <2>2. {"gone", "lock"} \cap InWork = {} BY DEF InWork
  <2>3. \A v \in Workers : Works(v)' => Works(v)
    <3>1. PICK l \in {"gone", "lock"} : wpc' = [wpc EXCEPT ![w] = l] BY <2>1
    <3>2. QED BY <2>1, <2>2, <3>1, TypeOK, Hands, WorkerMoves DEF InWork
  <2>4. UNCHANGED <<tasks_, cpc, times_, stop_wait, notice_wait>>
        BY <1>13 DEF TestStop, runVars
  <2>5. QED BY <2>3, <2>4, OneWork, Turn, WorkFrame
<1>14. ASSUME NEW w \in Workers, TakeTask(w) PROVE OneWork' /\ Turn'
  <2>1. UNCHANGED <<cpc, times_, stop_wait, notice_wait>> /\ wpc[w] = "lock"
        BY <1>14 DEF TakeTask, runVars
  <2>2. ~Works(w) BY <2>1 DEF Works, InWork
  <2>3. CASE UNCHANGED <<tasks_, cur>> /\ \E l \in {"gone", "asleep"} : wpc' = [wpc EXCEPT ![w] = l]
    <3>1. PICK l \in {"gone", "asleep"} : wpc' = [wpc EXCEPT ![w] = l] BY <2>3
    <3>2. \A v \in Workers : Works(v)' => Works(v)
          BY <2>3, <3>1, TypeOK, Hands, WorkerMoves DEF InWork
    <3>3. QED BY <2>1, <2>3, <3>2, OneWork, Turn, WorkFrame
  <2>4. CASE /\ tasks_ # << >> /\ tasks_' = Tail(tasks_)
             /\ cur' = [cur EXCEPT ![w] = <<Head(tasks_)>>]
             /\ wpc' = [wpc EXCEPT ![w] = "task"]
    <3>1. tasks_ \in Seq(Tasks) /\ cur = [v \in Workers |-> cur[v]]
          BY TypeOK, Hands DEF TypeOK, Tasks, Hands
    <3>2. /\ In(Head(tasks_), tasks_)
          /\ In("work", tasks_') => In("work", tasks_)
          /\ Once("work", tasks_')
          /\ Head(tasks_) = "work" => ~In("work", tasks_')
          BY <2>4, <3>1, PopOne, OneWork DEF OneWork
    <3>3. cur'[w] = <<Head(tasks_)>> /\ \A v \in Workers : v # w => cur'[v] = cur[v]
          BY <2>4, <3>1, ChangedHand
    <3>4. wpc'[w] = "task" /\ \A v \in Workers : v # w => wpc'[v] = wpc[v]
          BY <2>4, TypeOK DEF TypeOK
    <3>5. \A v \in Workers : v # w => (Works(v)' <=> Works(v)) BY <3>3, <3>4 DEF Works
    <3>6. Works(w)' <=> Head(tasks_) = "work" BY <3>3, <3>4 DEF Works, InWork
    <3>7. CASE Head(tasks_) = "work"
      <4>1. In("work", tasks_) /\ \A v \in Workers : ~Works(v) BY <3>2, <3>7, OneWork DEF OneWork
      <4>2. ~In("work", tasks_') /\ \A v \in Workers : Works(v)' => v = w
            BY <3>2, <3>5, <3>7, <4>1
      <4>3. OneWork' BY <3>2, <4>2 DEF OneWork
      <4>4. Turn' BY <2>1, <4>1, Turn DEF Turn
      <4>5. QED BY <4>3, <4>4
    <3>8. CASE Head(tasks_) # "work"
      <4>1. \A v \in Workers : Works(v)' => Works(v) BY <3>5, <3>6, <3>8
      <4>2. OneWork' BY <3>2, <4>1, OneWork DEF OneWork
      <4>3. Turn' BY <2>1, <3>2, <4>1, Turn DEF Turn
      <4>4. QED BY <4>2, <4>3
    <3>9. QED BY <3>7, <3>8
  <2>5. QED BY <1>14, <2>3, <2>4 DEF TakeTask, GotoWorker
<1>15. ASSUME NEW w \in Workers, CallTask(w) PROVE OneWork' /\ Turn'
  <2>1. cur' = [cur EXCEPT ![w] = << >>] /\ UNCHANGED <<tasks_, cpc, times_, stop_wait, notice_wait>>
        BY <1>15 DEF CallTask, runVars
  <2>2. \/ wpc' = [wpc EXCEPT ![w] = "loop"] /\ Works(w)
        \/ wpc' = [wpc EXCEPT ![w] = "test"]
        BY <1>15 DEF CallTask, GotoWorker, Works
  <2>3. "loop" # "task" /\ "test" # "task" /\ "test" \notin InWork BY DEF InWork
  <2>4. \A v \in Workers : Works(v)' => Works(v)
    <3>1. CASE wpc' = [wpc EXCEPT ![w] = "loop"] /\ Works(w)
          BY <2>1, <2>3, <3>1, TypeOK, Hands, WorkerMoves
    <3>2. CASE wpc' = [wpc EXCEPT ![w] = "test"]
          BY <2>1, <2>3, <3>2, TypeOK, Hands, WorkerMoves
    <3>3. QED BY <2>2, <3>1, <3>2
  <2>5. QED BY <2>1, <2>4, OneWork, Turn, WorkFrame
<1>16. ASSUME NEW w \in Workers, WorkLoop(w) PROVE OneWork' /\ Turn'
  <2>1. /\ \E l \in {"get", "notify"} : wpc' = [wpc EXCEPT ![w] = l]
        /\ cur' = cur \/ \E x : cur' = [cur EXCEPT ![w] = x]
        BY <1>16 DEF WorkLoop, GotoWorker
  <2>2. Works(w) BY <1>16 DEF WorkLoop, Works, InWork
  <2>3. \A v \in Workers : Works(v)' => Works(v)
    <3>1. PICK l \in {"get", "notify"} : wpc' = [wpc EXCEPT ![w] = l] BY <2>1
    <3>2. QED BY <2>1, <2>2, <3>1, TypeOK, Hands, WorkerMoves DEF InWork
  <2>4. UNCHANGED <<tasks_, cpc, times_, stop_wait, notice_wait>>
        BY <1>16 DEF WorkLoop, runVars
  <2>5. QED BY <2>3, <2>4, OneWork, Turn, WorkFrame
<1>f. ASSUME NEW w \in Workers, EpollWaitFails(w) PROVE OneWork' /\ Turn'
  <2>1. /\ \E l \in {"get", "notify"} : wpc' = [wpc EXCEPT ![w] = l]
        /\ cur' = cur \/ \E x : cur' = [cur EXCEPT ![w] = x]
        BY <1>f DEF EpollWaitFails, GotoWorker
  <2>2. Works(w) BY <1>f DEF EpollWaitFails, Works, InWork
  <2>3. \A v \in Workers : Works(v)' => Works(v)
    <3>1. PICK l \in {"get", "notify"} : wpc' = [wpc EXCEPT ![w] = l] BY <2>1
    <3>2. QED BY <2>1, <2>2, <3>1, TypeOK, Hands, WorkerMoves DEF InWork
  <2>4. UNCHANGED <<tasks_, cpc, times_, stop_wait, notice_wait>>
        BY <1>f DEF EpollWaitFails, runVars
  <2>5. QED BY <2>3, <2>4, OneWork, Turn, WorkFrame
<1>17. ASSUME NEW w \in Workers, EpollWait(w) PROVE OneWork' /\ Turn'
  <2>1. /\ \E l \in {"batch"} : wpc' = [wpc EXCEPT ![w] = l]
        /\ cur' = cur \/ \E x : cur' = [cur EXCEPT ![w] = x]
        BY <1>17 DEF EpollWait, GotoWorker
  <2>2. Works(w) BY <1>17 DEF EpollWait, Works, InWork
  <2>3. \A v \in Workers : Works(v)' => Works(v)
    <3>1. PICK l \in {"batch"} : wpc' = [wpc EXCEPT ![w] = l] BY <2>1
    <3>2. QED BY <2>1, <2>2, <3>1, TypeOK, Hands, WorkerMoves DEF InWork
  <2>4. UNCHANGED <<tasks_, cpc, times_, stop_wait, notice_wait>>
        BY <1>17 DEF EpollWait, runVars
  <2>5. QED BY <2>3, <2>4, OneWork, Turn, WorkFrame
<1>18. ASSUME NEW w \in Workers, CallEvent(w) PROVE OneWork' /\ Turn'
  <2>1. /\ \E l \in {"loop", "run_funs", "batch"} : wpc' = [wpc EXCEPT ![w] = l]
        /\ cur' = cur \/ \E x : cur' = [cur EXCEPT ![w] = x]
        BY <1>18, TypeOK DEF CallEvent, GotoWorker, TypeOK
  <2>2. Works(w) BY <1>18 DEF CallEvent, Works, InWork
  <2>3. \A v \in Workers : Works(v)' => Works(v)
    <3>1. PICK l \in {"loop", "run_funs", "batch"} : wpc' = [wpc EXCEPT ![w] = l] BY <2>1
    <3>2. QED BY <2>1, <2>2, <3>1, TypeOK, Hands, WorkerMoves DEF InWork
  <2>4. UNCHANGED <<tasks_, cpc, times_, stop_wait, notice_wait>>
        BY <1>18 DEF CallEvent, runVars
  <2>5. QED BY <2>3, <2>4, OneWork, Turn, WorkFrame
<1>19. ASSUME NEW w \in Workers, OnRunFuns(w) PROVE OneWork' /\ Turn'
  <2>1. /\ \E l \in {"batch"} : wpc' = [wpc EXCEPT ![w] = l]
        /\ cur' = cur \/ \E x : cur' = [cur EXCEPT ![w] = x]
        BY <1>19 DEF OnRunFuns, GotoWorker
  <2>2. Works(w) BY <1>19 DEF OnRunFuns, Works, InWork
  <2>3. \A v \in Workers : Works(v)' => Works(v)
    <3>1. PICK l \in {"batch"} : wpc' = [wpc EXCEPT ![w] = l] BY <2>1
    <3>2. QED BY <2>1, <2>2, <3>1, TypeOK, Hands, WorkerMoves DEF InWork
  <2>4. UNCHANGED <<tasks_, cpc, times_, stop_wait, notice_wait>>
        BY <1>19 DEF OnRunFuns, runVars
  <2>5. QED BY <2>3, <2>4, OneWork, Turn, WorkFrame
<1>20. ASSUME NEW w \in Workers, GetPacket(w) PROVE OneWork' /\ Turn'
  <2>1. /\ \E l \in {"loop", "packet"} : wpc' = [wpc EXCEPT ![w] = l]
        /\ cur' = cur \/ \E x : cur' = [cur EXCEPT ![w] = x]
        BY <1>20 DEF GetPacket, GotoWorker
  <2>2. Works(w) BY <1>20 DEF GetPacket, Works, InWork
  <2>3. \A v \in Workers : Works(v)' => Works(v)
    <3>1. PICK l \in {"loop", "packet"} : wpc' = [wpc EXCEPT ![w] = l] BY <2>1
    <3>2. QED BY <2>1, <2>2, <3>1, TypeOK, Hands, WorkerMoves DEF InWork
  <2>4. UNCHANGED <<tasks_, cpc, times_, stop_wait, notice_wait>>
        BY <1>20 DEF GetPacket, runVars
  <2>5. QED BY <2>3, <2>4, OneWork, Turn, WorkFrame
<1>21. ASSUME NEW w \in Workers, IoCallback(w) PROVE OneWork' /\ Turn'
  <2>1. /\ \E l \in {"loop", "answer"} : wpc' = [wpc EXCEPT ![w] = l]
        /\ cur' = cur \/ \E x : cur' = [cur EXCEPT ![w] = x]
        BY <1>21 DEF IoCallback, GotoWorker
  <2>2. Works(w) BY <1>21 DEF IoCallback, Works, InWork
  <2>3. \A v \in Workers : Works(v)' => Works(v)
    <3>1. PICK l \in {"loop", "answer"} : wpc' = [wpc EXCEPT ![w] = l] BY <2>1
    <3>2. QED BY <2>1, <2>2, <3>1, TypeOK, Hands, WorkerMoves DEF InWork
  <2>4. UNCHANGED <<tasks_, cpc, times_, stop_wait, notice_wait>>
        BY <1>21 DEF IoCallback, runVars
  <2>5. QED BY <2>3, <2>4, OneWork, Turn, WorkFrame
<1>22. ASSUME NEW w \in Workers, IoAnswer(w) PROVE OneWork' /\ Turn'
  <2>1. /\ \E l \in {"loop"} : wpc' = [wpc EXCEPT ![w] = l]
        /\ cur' = cur \/ \E x : cur' = [cur EXCEPT ![w] = x]
        BY <1>22 DEF IoAnswer, GotoWorker
  <2>2. Works(w) BY <1>22 DEF IoAnswer, Works, InWork
  <2>3. \A v \in Workers : Works(v)' => Works(v)
    <3>1. PICK l \in {"loop"} : wpc' = [wpc EXCEPT ![w] = l] BY <2>1
    <3>2. QED BY <2>1, <2>2, <3>1, TypeOK, Hands, WorkerMoves DEF InWork
  <2>4. UNCHANGED <<tasks_, cpc, times_, stop_wait, notice_wait>>
        BY <1>22 DEF IoAnswer, runVars
  <2>5. QED BY <2>3, <2>4, OneWork, Turn, WorkFrame
<1>23. ASSUME NEW w \in Workers, NotifyFinish(w) PROVE OneWork' /\ Turn'
  <2>1. Works(w) /\ UNCHANGED <<cur, tasks_, stop_wait>>
        BY <1>23 DEF NotifyFinish, Works, InWork
  <2>2. PICK l \in {"resuming", "test"} : wpc' = [wpc EXCEPT ![w] = l]
        BY <1>23 DEF NotifyFinish, GotoWorker
  <2>3. wpc'[w] = l /\ \A v \in Workers : v # w => wpc'[v] = wpc[v] BY <2>2, TypeOK DEF TypeOK
  <2>4. ~In("work", tasks_) /\ \A v \in Workers : v # w => ~Works(v)
        BY <2>1, OneWork DEF OneWork
  <2>5. \A v \in Workers : ~Works(v)'
    <3>1. ~Works(w)' BY <2>3 DEF Works, InWork
    <3>2. \A v \in Workers : v # w => ~Works(v)' BY <2>1, <2>3, <2>4 DEF Works
    <3>3. QED BY <3>1, <3>2
  <2>6. OneWork' BY <2>1, <2>4, <2>5, OneWork DEF OneWork
  <2>7. \/ notice_wait /\ notice_wait' = FALSE /\ cpc' = "close"
        \/ UNCHANGED <<notice_wait, cpc>>
        BY <1>23 DEF NotifyFinish, Wakes
  <2>8. cpc \in {"await", "clear", "tell", "join"} BY <2>1, Turn DEF Turn
  <2>9. Turn' BY <2>1, <2>4, <2>5, <2>7, <2>8, Turn DEF Turn
  <2>10. QED BY <2>6, <2>9
<1>24. ASSUME NEW w \in Workers, ResumeReturns(w) PROVE OneWork' /\ Turn'
  <2>1. /\ \E l \in {"test"} : wpc' = [wpc EXCEPT ![w] = l]
        /\ cur' = cur \/ \E x : cur' = [cur EXCEPT ![w] = x]
        BY <1>24 DEF ResumeReturns, GotoWorker
  <2>2. {"test"} \cap InWork = {} BY DEF InWork
  <2>3. \A v \in Workers : Works(v)' => Works(v)
    <3>1. PICK l \in {"test"} : wpc' = [wpc EXCEPT ![w] = l] BY <2>1
    <3>2. QED BY <2>1, <2>2, <3>1, TypeOK, Hands, WorkerMoves DEF InWork
  <2>4. UNCHANGED <<tasks_, cpc, times_, stop_wait, notice_wait>>
        BY <1>24 DEF ResumeReturns, runVars
  <2>5. QED BY <2>3, <2>4, OneWork, Turn, WorkFrame
<1>25. ASSUME NEW w \in Workers, SpuriousWake(w) PROVE OneWork' /\ Turn'
  <2>1. /\ \E l \in {"lock"} : wpc' = [wpc EXCEPT ![w] = l]
        /\ cur' = cur \/ \E x : cur' = [cur EXCEPT ![w] = x]
        BY <1>25 DEF SpuriousWake, Awakened
  <2>2. {"lock"} \cap InWork = {} BY DEF InWork
  <2>3. \A v \in Workers : Works(v)' => Works(v)
    <3>1. PICK l \in {"lock"} : wpc' = [wpc EXCEPT ![w] = l] BY <2>1
    <3>2. QED BY <2>1, <2>2, <3>1, TypeOK, Hands, WorkerMoves DEF InWork
  <2>4. UNCHANGED <<tasks_, cpc, times_, stop_wait, notice_wait>>
        BY <1>25 DEF SpuriousWake, runVars
  <2>5. QED BY <2>3, <2>4, OneWork, Turn, WorkFrame
<1>26. ASSUME NEW w \in Workers, PoolJoinsItself(w) PROVE OneWork' /\ Turn'
      BY <1>26, OneWork, Turn DEF PoolJoinsItself, runVars, linuxVars, windowsVars, opVars,
         OneWork, Turn, Works
<1>27. ASSUME NEW t \in UserTasks, UserPosts(t) PROVE OneWork' /\ Turn'
  <2>1. t \in Tasks /\ t # "work" BY CommunicationAssumption DEF Tasks, CommunicationAssumption
  <2>2. Post(t) /\ UNCHANGED <<cur, cpc, times_, stop_wait, notice_wait>>
        BY <1>27 DEF UserPosts, runVars
  <2>3. /\ In("work", tasks_') => In("work", tasks_)
        /\ Once("work", tasks_) => Once("work", tasks_')
        BY <2>1, <2>2, PostStep, TypeOK
  <2>4. \A w \in Workers : Works(w)' => Works(w)
        BY <2>1, <2>2, PostStep, TypeOK DEF Works, InWork
  <2>5. QED BY <2>2, <2>3, <2>4, OneWork, Turn DEF OneWork, Turn
<1>28. ASSUME NEW f \in Funs, AddFun(f) PROVE OneWork' /\ Turn'
      BY <1>28, OneWork, Turn DEF AddFun, runVars, poolVars, windowsVars, opVars, OneWork,
         Turn, Works
<1>29. ASSUME NEW f \in Funs, RingFuns(f) PROVE OneWork' /\ Turn'
      BY <1>29, OneWork, Turn DEF RingFuns, runVars, poolVars, windowsVars, opVars, Rung,
         OneWork, Turn, Works
<1>30. ASSUME NEW o \in Ops, OperateFails(o) PROVE OneWork' /\ Turn'
      BY <1>30, OneWork, Turn DEF OperateFails, runVars, poolVars, linuxVars, Resume,
         OneWork, Turn, Works
<1>31. ASSUME NEW o \in Ops, DoOperate(o) PROVE OneWork' /\ Turn'
      BY <1>31, OneWork, Turn DEF DoOperate, runVars, poolVars, linuxVars, OneWork, Turn,
         Works
<1>32. ASSUME NEW o \in Ops, StartTask(o) PROVE OneWork' /\ Turn'
      BY <1>32, OneWork, Turn DEF StartTask, runVars, poolVars, linuxVars, Armed, OneWork,
         Turn, Works
<1>33. ASSUME NEW o \in Ops, Complete(o) PROVE OneWork' /\ Turn'
      BY <1>33, OneWork, Turn DEF Complete, runVars, poolVars, linuxVars, opVars, OneWork,
         Turn, Works
<1>34. ASSUME NEW o \in Ops, OnTimeout(o) PROVE OneWork' /\ Turn'
      BY <1>34, OneWork, Turn DEF OnTimeout, runVars, poolVars, linuxVars, OneWork, Turn,
         Works
<1>35. ASSUME NEW o \in Ops, TimeoutAnswer(o) PROVE OneWork' /\ Turn'
      BY <1>35, OneWork, Turn DEF TimeoutAnswer, runVars, poolVars, linuxVars, Resume,
         OneWork, Turn, Works
<1>36. CASE UNCHANGED vars
      BY <1>36, OneWork, Turn DEF vars, runVars, poolVars, linuxVars, windowsVars, opVars,
         OneWork, Turn, Works
<1>37. QED
      BY <1>f, <1>1, <1>2, <1>3, <1>4, <1>5, <1>6, <1>7, <1>8, <1>9, <1>10, <1>11, <1>12, <1>13,
         <1>14, <1>15, <1>16, <1>17, <1>18, <1>19, <1>20, <1>21, <1>22, <1>23, <1>24,
         <1>25, <1>26, <1>27, <1>28, <1>29, <1>30, <1>31, <1>32, <1>33, <1>34, <1>35, <1>36
         DEF Next, RunStep, PoolStep, Worker, WorkStep, TimerStep

------------------------------------------------------------------------------
(* Packets and answers *)

\* Nothing that is answered changes, and no packet comes into a hand.
LEMMA AnswerFrame ==
    ASSUME Packets, Answers,
           UNCHANGED <<packets, io, spc, finish_flag_, timeout_flag_, task, resumes>>,
           \A w \in Workers, o \in Ops : Carries(w, o)' => Carries(w, o) /\ wpc'[w] = wpc[w]
    PROVE  Packets' /\ Answers'
<1> SUFFICES ASSUME NEW o \in Ops PROVE PacketOf(o)' /\ AnswerOf(o)'
    BY DEF Packets, Answers
<1>1. PacketOf(o) /\ AnswerOf(o) BY DEF Packets, Answers
<1>2. PacketOf(o)' BY <1>1 DEF PacketOf
<1>3. AnswerOf(o)' BY <1>1 DEF AnswerOf
<1>4. QED BY <1>2, <1>3

\* A worker that moves to where no packet is looked at.
LEMMA HandEmpties ==
    ASSUME TypeOK, Hands, NEW w \in Workers, NEW l, wpc' = [wpc EXCEPT ![w] = l],
           l \notin {"packet", "answer"},
           cur' = cur \/ \E x : cur' = [cur EXCEPT ![w] = x]
    PROVE  \A v \in Workers, o \in Ops :
              /\ Carries(v, o)' => Carries(v, o) /\ wpc'[v] = wpc[v]
              /\ ~Carries(w, o)'
<1>1. cur = [v \in Workers |-> cur[v]] BY DEF Hands
<1>2. \A v \in Workers : v # w => cur'[v] = cur[v]
  <2>1. CASE cur' = cur BY <2>1
  <2>2. CASE cur' # cur
    <3>1. PICK x : cur' = [cur EXCEPT ![w] = x] BY <2>2
    <3>2. QED BY <1>1, <3>1, ChangedHand
  <2>3. QED BY <2>1, <2>2
<1>3. wpc'[w] = l /\ \A v \in Workers : v # w => wpc'[v] = wpc[v] BY DEF TypeOK
<1>4. QED BY <1>2, <1>3 DEF Carries

\* The one packet that is worked on is in one hand.
LEMMA OneCarries ==
    ASSUME OneWork, NEW w \in Workers, wpc[w] \in InWork, NEW v \in Workers, v # w
    PROVE  wpc[v] \notin InWork /\ \A o \in Ops : ~Carries(v, o)
BY DEF OneWork, Works, Carries, InWork

\* The packets, and who answers an operation.
LEMMA AnswerStep ==
    ASSUME CommunicationAssumption, TypeOK, Hands, OneWork, Packets, Answers, [Next]_vars
    PROVE  Packets' /\ Answers'
<1>1. ASSUME RunBegin PROVE Packets' /\ Answers'
      BY <1>1, Packets, Answers, AnswerFrame DEF RunBegin, poolVars, windowsVars, opVars,
         WorkThreads, Carries
<1>2. ASSUME CreateWorkThread PROVE Packets' /\ Answers'
  <2>1. "work" \in Tasks BY DEF Tasks
  <2>2. Post("work") /\ cur' = cur BY <1>2 DEF CreateWorkThread
  <2>3. \A w \in Workers : wpc'[w] = wpc[w] \/ wpc'[w] = "lock" BY <2>1, <2>2, PostStep, TypeOK
  <2>4. UNCHANGED <<packets, io, spc, finish_flag_, timeout_flag_, task, resumes>>
        BY <1>2 DEF CreateWorkThread, windowsVars, opVars
  <2>5. \A w \in Workers, o \in Ops : Carries(w, o)' => Carries(w, o) /\ wpc'[w] = wpc[w]
        BY <2>2, <2>3 DEF Carries
  <2>6. QED BY <2>4, <2>5, Packets, Answers, AnswerFrame
<1>3. ASSUME AwaitStop PROVE Packets' /\ Answers'
      BY <1>3, Packets, Answers, AnswerFrame DEF AwaitStop, poolVars, linuxVars,
         windowsVars, opVars, Carries
<1>4. ASSUME ClearRunFlag PROVE Packets' /\ Answers'
      BY <1>4, Packets, Answers, AnswerFrame DEF ClearRunFlag, poolVars, linuxVars,
         windowsVars, opVars, Carries
<1>5. ASSUME TellWorkThread PROVE Packets' /\ Answers'
  <2>1. UNCHANGED <<wpc, cur, io, spc, finish_flag_, timeout_flag_, task, resumes>>
        BY <1>5 DEF TellWorkThread, poolVars, opVars
  <2>2. packets' = packets \/ packets' = Append(packets, "wake") BY <1>5 DEF TellWorkThread
  <2>3. "wake" \in {"wake"} \cup Ops /\ packets \in Seq({"wake"} \cup Ops) BY TypeOK DEF TypeOK
  <2>5. SUFFICES ASSUME NEW o \in Ops PROVE PacketOf(o)' /\ AnswerOf(o)'
        BY DEF Packets, Answers
  <2>6. /\ In(o, packets') => In(o, packets)
        /\ Once(o, packets) => Once(o, packets')
    <3>1. o # "wake" BY CommunicationAssumption DEF CommunicationAssumption
    <3>2. CASE packets' = packets BY <3>2
    <3>3. CASE packets' = Append(packets, "wake") BY <2>3, <3>1, <3>3, PushOne
    <3>4. QED BY <2>2, <3>2, <3>3
  <2>7. PacketOf(o) /\ AnswerOf(o) BY Packets, Answers DEF Packets, Answers
  <2>8. PacketOf(o)' BY <2>1, <2>6, <2>7 DEF PacketOf, Carries
  <2>9. AnswerOf(o)' BY <2>1, <2>7 DEF AnswerOf, Carries
  <2>10. QED BY <2>8, <2>9
<1>6. ASSUME AwaitNotices PROVE Packets' /\ Answers'
      BY <1>6, Packets, Answers, AnswerFrame DEF AwaitNotices, poolVars, linuxVars,
         windowsVars, opVars, Carries
<1>7. ASSUME Close PROVE Packets' /\ Answers'
  <2>1. UNCHANGED <<wpc, cur, spc, finish_flag_, timeout_flag_, task, resumes>> /\ packets' = << >>
        BY <1>7 DEF Close, poolVars, opVars
  <2>2. SUFFICES ASSUME NEW o \in Ops PROVE PacketOf(o)' /\ AnswerOf(o)'
        BY DEF Packets, Answers
  <2>3. PacketOf(o) /\ AnswerOf(o) BY Packets, Answers DEF Packets, Answers
  <2>4. io'[o] = io[o] \/ (io'[o] = "lost" /\ io[o] \in {"success", "fail"}) BY <1>7 DEF Close
  <2>5. Len(packets') = 0 BY <2>1
  <2>6. ~In(o, packets') /\ Once(o, packets') BY <2>5 DEF In, Once
  <2>7. PacketOf(o)' BY <2>1, <2>3, <2>4, <2>6 DEF PacketOf, Carries
  <2>8. AnswerOf(o)' BY <2>1, <2>3, <2>4 DEF AnswerOf, Carries
  <2>9. QED BY <2>7, <2>8
<1>8. ASSUME Stop PROVE Packets' /\ Answers'
      BY <1>8, Packets, Answers, AnswerFrame DEF Stop, poolVars, linuxVars, windowsVars,
         opVars, Carries
<1>9. ASSUME PoolStop PROVE Packets' /\ Answers'
      BY <1>9, Packets, Answers, AnswerFrame DEF PoolStop, runVars, linuxVars, windowsVars,
         opVars, Carries
<1>10. ASSUME PoolNotify PROVE Packets' /\ Answers'
  <2>1. /\ \A w \in Workers : wpc'[w] = wpc[w] \/ wpc'[w] = "lock"
        /\ cur' = cur
        BY <1>10 DEF PoolNotify, StopNotified, AllAwakened
  <2>2. UNCHANGED <<packets, io, spc, finish_flag_, timeout_flag_, task, resumes>>
        BY <1>10 DEF PoolNotify, windowsVars, opVars
  <2>3. \A w \in Workers, o \in Ops : Carries(w, o)' => Carries(w, o) /\ wpc'[w] = wpc[w]
        BY <2>1 DEF Carries
  <2>4. QED BY <2>2, <2>3, Packets, Answers, AnswerFrame
<1>11. ASSUME PoolJoin PROVE Packets' /\ Answers'
      BY <1>11, Packets, Answers, AnswerFrame DEF PoolJoin, runVars, linuxVars,
         windowsVars, opVars, Carries
<1>12. ASSUME CloseSocket PROVE Packets' /\ Answers'
      BY <1>12, Packets, Answers, AnswerFrame DEF CloseSocket, runVars, poolVars,
         linuxVars, opVars, Carries
<1>13. ASSUME NEW w \in Workers, TestStop(w) PROVE Packets' /\ Answers'
  <2>1. /\ \E l \in {"gone", "lock"} : wpc' = [wpc EXCEPT ![w] = l]
        /\ cur' = cur \/ \E x : cur' = [cur EXCEPT ![w] = x]
        BY <1>13 DEF TestStop, GotoWorker
  <2>2. UNCHANGED <<packets, io, spc, finish_flag_, timeout_flag_, task, resumes>>
        BY <1>13 DEF TestStop, windowsVars, opVars
  <2>3. PICK l \in {"gone", "lock"} : wpc' = [wpc EXCEPT ![w] = l] BY <2>1
  <2>4. QED BY <2>1, <2>2, <2>3, TypeOK, Hands, Packets, Answers, HandEmpties, AnswerFrame
<1>14. ASSUME NEW w \in Workers, TakeTask(w) PROVE Packets' /\ Answers'
  <2>1. /\ \E l \in {"gone", "asleep", "task"} : wpc' = [wpc EXCEPT ![w] = l]
        /\ cur' = cur \/ \E x : cur' = [cur EXCEPT ![w] = x]
        BY <1>14 DEF TakeTask, GotoWorker
  <2>2. UNCHANGED <<packets, io, spc, finish_flag_, timeout_flag_, task, resumes>>
        BY <1>14 DEF TakeTask, windowsVars, opVars
  <2>3. PICK l \in {"gone", "asleep", "task"} : wpc' = [wpc EXCEPT ![w] = l] BY <2>1
  <2>4. QED BY <2>1, <2>2, <2>3, TypeOK, Hands, Packets, Answers, HandEmpties, AnswerFrame
<1>15. ASSUME NEW w \in Workers, CallTask(w) PROVE Packets' /\ Answers'
  <2>1. /\ \E l \in {"loop", "test"} : wpc' = [wpc EXCEPT ![w] = l]
        /\ cur' = cur \/ \E x : cur' = [cur EXCEPT ![w] = x]
        BY <1>15 DEF CallTask, GotoWorker
  <2>2. UNCHANGED <<packets, io, spc, finish_flag_, timeout_flag_, task, resumes>>
        BY <1>15 DEF CallTask, windowsVars, opVars
  <2>3. PICK l \in {"loop", "test"} : wpc' = [wpc EXCEPT ![w] = l] BY <2>1
  <2>4. QED BY <2>1, <2>2, <2>3, TypeOK, Hands, Packets, Answers, HandEmpties, AnswerFrame
<1>16. ASSUME NEW w \in Workers, WorkLoop(w) PROVE Packets' /\ Answers'
  <2>1. /\ \E l \in {"get", "notify"} : wpc' = [wpc EXCEPT ![w] = l]
        /\ cur' = cur \/ \E x : cur' = [cur EXCEPT ![w] = x]
        BY <1>16 DEF WorkLoop, GotoWorker
  <2>2. UNCHANGED <<packets, io, spc, finish_flag_, timeout_flag_, task, resumes>>
        BY <1>16 DEF WorkLoop, windowsVars, opVars
  <2>3. PICK l \in {"get", "notify"} : wpc' = [wpc EXCEPT ![w] = l] BY <2>1
  <2>4. QED BY <2>1, <2>2, <2>3, TypeOK, Hands, Packets, Answers, HandEmpties, AnswerFrame
<1>f. ASSUME NEW w \in Workers, EpollWaitFails(w) PROVE Packets' /\ Answers'
  <2>1. /\ \E l \in {"get", "notify"} : wpc' = [wpc EXCEPT ![w] = l]
        /\ cur' = cur \/ \E x : cur' = [cur EXCEPT ![w] = x]
        BY <1>f DEF EpollWaitFails, GotoWorker
  <2>2. UNCHANGED <<packets, io, spc, finish_flag_, timeout_flag_, task, resumes>>
        BY <1>f DEF EpollWaitFails, windowsVars, opVars
  <2>3. PICK l \in {"get", "notify"} : wpc' = [wpc EXCEPT ![w] = l] BY <2>1
  <2>4. QED BY <2>1, <2>2, <2>3, TypeOK, Hands, Packets, Answers, HandEmpties, AnswerFrame
<1>17. ASSUME NEW w \in Workers, EpollWait(w) PROVE Packets' /\ Answers'
  <2>1. /\ \E l \in {"batch"} : wpc' = [wpc EXCEPT ![w] = l]
        /\ cur' = cur \/ \E x : cur' = [cur EXCEPT ![w] = x]
        BY <1>17 DEF EpollWait, GotoWorker
  <2>2. UNCHANGED <<packets, io, spc, finish_flag_, timeout_flag_, task, resumes>>
        BY <1>17 DEF EpollWait, windowsVars, opVars
  <2>3. PICK l \in {"batch"} : wpc' = [wpc EXCEPT ![w] = l] BY <2>1
  <2>4. QED BY <2>1, <2>2, <2>3, TypeOK, Hands, Packets, Answers, HandEmpties, AnswerFrame
<1>18. ASSUME NEW w \in Workers, CallEvent(w) PROVE Packets' /\ Answers'
  <2>1. /\ \E l \in {"loop", "run_funs", "batch"} : wpc' = [wpc EXCEPT ![w] = l]
        /\ cur' = cur \/ \E x : cur' = [cur EXCEPT ![w] = x]
        BY <1>18, TypeOK DEF CallEvent, GotoWorker, TypeOK
  <2>2. UNCHANGED <<packets, io, spc, finish_flag_, timeout_flag_, task, resumes>>
        BY <1>18 DEF CallEvent, windowsVars, opVars
  <2>3. PICK l \in {"loop", "run_funs", "batch"} : wpc' = [wpc EXCEPT ![w] = l] BY <2>1
  <2>4. QED BY <2>1, <2>2, <2>3, TypeOK, Hands, Packets, Answers, HandEmpties, AnswerFrame
<1>19. ASSUME NEW w \in Workers, OnRunFuns(w) PROVE Packets' /\ Answers'
  <2>1. /\ \E l \in {"batch"} : wpc' = [wpc EXCEPT ![w] = l]
        /\ cur' = cur \/ \E x : cur' = [cur EXCEPT ![w] = x]
        BY <1>19 DEF OnRunFuns, GotoWorker
  <2>2. UNCHANGED <<packets, io, spc, finish_flag_, timeout_flag_, task, resumes>>
        BY <1>19 DEF OnRunFuns, windowsVars, opVars
  <2>3. PICK l \in {"batch"} : wpc' = [wpc EXCEPT ![w] = l] BY <2>1
  <2>4. QED BY <2>1, <2>2, <2>3, TypeOK, Hands, Packets, Answers, HandEmpties, AnswerFrame
<1>20. ASSUME NEW w \in Workers, GetPacket(w) PROVE Packets' /\ Answers'
  <2>1. /\ UNCHANGED <<io, spc, finish_flag_, timeout_flag_, task, resumes>>
        /\ packets # << >> /\ packets' = Tail(packets) /\ wpc[w] = "get"
        BY <1>20 DEF GetPacket, opVars
  <2>2. packets \in Seq({"wake"} \cup Ops) /\ cur = [v \in Workers |-> cur[v]]
        BY TypeOK, Hands DEF TypeOK, Hands
  <2>3. /\ In(Head(packets), packets) /\ Head(packets) \in {"wake"} \cup Ops
        /\ \A x : In(x, packets') => In(x, packets)
        /\ \A x : Once(x, packets) => Once(x, packets') /\ (x = Head(packets) => ~In(x, packets'))
        BY <2>1, <2>2, PopOne
  <2>4. \A v \in Workers : v # w => \A o \in Ops : ~Carries(v, o)
        BY <2>1, OneWork, OneCarries DEF InWork
  <2>5. \A o \in Ops : ~Carries(w, o) BY <2>1 DEF Carries
  <2>6. \A v \in Workers, o \in Ops :
           Carries(v, o)' => v = w /\ wpc'[v] = "packet" /\ o = Head(packets)
    <3>1. CASE wpc' = [wpc EXCEPT ![w] = "loop"] /\ cur' = cur
          BY <2>4, <3>1, TypeOK, Hands, HandEmpties
    <3>2. CASE /\ wpc' = [wpc EXCEPT ![w] = "packet"]
               /\ cur' = [cur EXCEPT ![w] = <<Head(packets)>>]
      <4>1. cur'[w] = <<Head(packets)>> /\ \A v \in Workers : v # w => cur'[v] = cur[v]
            BY <2>2, <3>2, ChangedHand
      <4>2. wpc'[w] = "packet" /\ \A v \in Workers : v # w => wpc'[v] = wpc[v]
            BY <3>2, TypeOK DEF TypeOK
      <4>3. \A v \in Workers, o \in Ops : v # w => ~Carries(v, o)'
            BY <2>4, <4>1, <4>2 DEF Carries
      <4>4. \A o \in Ops : Carries(w, o)' => o = Head(packets) BY <4>1 DEF Carries
      <4>5. QED BY <4>2, <4>3, <4>4
    <3>3. QED BY <1>20, <3>1, <3>2 DEF GetPacket, GotoWorker
  <2>7. SUFFICES ASSUME NEW o \in Ops PROVE PacketOf(o)' /\ AnswerOf(o)'
        BY DEF Packets, Answers
  <2>8. PacketOf(o) /\ AnswerOf(o) BY Packets, Answers DEF Packets, Answers
  <2>9. CASE o = Head(packets)
    <3>1. In(o, packets) /\ ~In(o, packets') /\ Once(o, packets') BY <2>3, <2>8, <2>9 DEF PacketOf
    <3>2. io[o] \in {"success", "fail"} /\ ~finish_flag_[o] BY <2>8, <3>1 DEF PacketOf
    <3>3. PacketOf(o)' BY <2>1, <2>6, <3>1, <3>2 DEF PacketOf
    <3>4. AnswerOf(o)' BY <2>1, <2>8, <3>2 DEF AnswerOf
    <3>5. QED BY <3>3, <3>4
  <2>10. CASE o # Head(packets)
    <3>1. \A v \in Workers : ~Carries(v, o)' BY <2>6, <2>10
    <3>2. PacketOf(o)' BY <2>1, <2>3, <2>8, <3>1 DEF PacketOf
    <3>3. AnswerOf(o)' BY <2>1, <2>8, <3>1 DEF AnswerOf
    <3>4. QED BY <3>2, <3>3
  <2>11. QED BY <2>9, <2>10
<1>21. ASSUME NEW w \in Workers, IoCallback(w) PROVE Packets' /\ Answers'
  <2>1. wpc[w] = "packet" BY <1>21 DEF IoCallback
  <2>2. PICK o \in Ops : cur[w] = <<o>> BY <2>1, Hands DEF Hands
  <2>3. Carries(w, o) /\ Head(cur[w]) = o BY <2>1, <2>2 DEF Carries
  <2>4. UNCHANGED <<packets, io, spc, timeout_flag_, task, resumes>> BY <1>21 DEF IoCallback
  <2>5. CASE /\ timeout_flag_[o] /\ wpc' = [wpc EXCEPT ![w] = "loop"]
             /\ cur' = [cur EXCEPT ![w] = << >>] /\ UNCHANGED finish_flag_
    <3>1. \A v \in Workers, p \in Ops : Carries(v, p)' => Carries(v, p) /\ wpc'[v] = wpc[v]
      <4>1. "loop" \notin {"packet", "answer"} /\ \E x : cur' = [cur EXCEPT ![w] = x] BY <2>5
      <4>2. wpc' = [wpc EXCEPT ![w] = "loop"] BY <2>5
      <4>3. QED BY <4>1, <4>2, TypeOK, Hands, HandEmpties
    <3>2. QED BY <2>4, <2>5, <3>1, Packets, Answers, AnswerFrame
  <2>6. CASE /\ ~timeout_flag_[o] /\ wpc' = [wpc EXCEPT ![w] = "answer"] /\ UNCHANGED cur
             /\ finish_flag_' = [finish_flag_ EXCEPT ![o] = TRUE]
    <3>1. wpc'[w] = "answer" /\ \A v \in Workers : v # w => wpc'[v] = wpc[v]
          BY <2>6, TypeOK DEF TypeOK
    <3>2. \A v \in Workers : v # w => \A p \in Ops : ~Carries(v, p)
          BY <2>1, OneWork, OneCarries DEF InWork
    <3>3. \A v \in Workers, p \in Ops : Carries(v, p)' => v = w /\ p = o /\ wpc'[v] = "answer"
          BY <2>2, <2>6, <3>1, <3>2 DEF Carries
    <3>4. finish_flag_'[o] /\ \A p \in Ops : p # o => finish_flag_'[p] = finish_flag_[p]
          BY <2>6, TypeOK DEF TypeOK
    <3>5. /\ ~In(o, packets) /\ io[o] \notin {"none", "pending"} /\ ~finish_flag_[o]
          /\ Once(o, packets)
          BY <2>1, <2>3, Packets DEF Packets, PacketOf
    <3>6. /\ resumes[o] = 0 /\ task[o] \notin {"answer", "over"}
          BY <2>6, <3>5, Answers, TypeOK DEF Answers, AnswerOf, TypeOK
    <3>7. PacketOf(o)' BY <2>4, <3>3, <3>4, <3>5, <3>6 DEF PacketOf
    <3>8. AnswerOf(o)' BY <2>4, <2>6, <3>4, <3>5, <3>6, Answers DEF Answers, AnswerOf
    <3>9. ASSUME NEW p \in Ops, p # o PROVE PacketOf(p)' /\ AnswerOf(p)'
      <4>1. finish_flag_'[p] = finish_flag_[p] /\ \A v \in Workers : ~Carries(v, p)'
            BY <3>3, <3>4, <3>9
      <4>2. PacketOf(p) /\ AnswerOf(p) BY Packets, Answers DEF Packets, Answers
      <4>3. PacketOf(p)' BY <2>4, <4>1, <4>2 DEF PacketOf
      <4>4. AnswerOf(p)' BY <2>4, <4>1, <4>2 DEF AnswerOf
      <4>5. QED BY <4>3, <4>4
    <3>10. QED BY <3>7, <3>8, <3>9 DEF Packets, Answers
  <2>7. QED BY <1>21, <2>3, <2>5, <2>6 DEF IoCallback, GotoWorker, TimedOut
<1>22. ASSUME NEW w \in Workers, IoAnswer(w) PROVE Packets' /\ Answers'
  <2>1. wpc[w] = "answer" /\ UNCHANGED <<packets, io, spc, finish_flag_, timeout_flag_>>
        BY <1>22 DEF IoAnswer
  <2>2. PICK o \in Ops : cur[w] = <<o>> BY <2>1, Hands DEF Hands
  <2>3. Carries(w, o) /\ Head(cur[w]) = o BY <2>1, <2>2 DEF Carries
  <2>4. /\ task' = [task EXCEPT ![o] = IF @ = "started" THEN "stopped" ELSE @]
        /\ resumes' = [resumes EXCEPT ![o] = @ + 1]
        /\ wpc' = [wpc EXCEPT ![w] = "loop"] /\ cur' = [cur EXCEPT ![w] = << >>]
        BY <1>22, <2>3 DEF IoAnswer, Resume, GotoWorker
  <2>5. \A v \in Workers : v # w => \A p \in Ops : ~Carries(v, p)
        BY <2>1, OneWork, OneCarries DEF InWork
  <2>6. \A v \in Workers, p \in Ops : ~Carries(v, p)'
        BY <2>4, <2>5, TypeOK, Hands, HandEmpties
  <2>7. /\ ~In(o, packets) /\ Once(o, packets) /\ io[o] \notin {"none", "pending"}
        /\ finish_flag_[o] /\ resumes[o] = 0
        BY <2>1, <2>3, Packets DEF Packets, PacketOf
  <2>8. /\ resumes'[o] = 1 /\ task'[o] = IF task[o] = "started" THEN "stopped" ELSE task[o]
        /\ \A p \in Ops : p # o => resumes'[p] = resumes[p] /\ task'[p] = task[p]
        BY <2>4, <2>7, TypeOK DEF TypeOK
  <2>9. PacketOf(o)' BY <2>1, <2>6, <2>7 DEF PacketOf
  <2>10. AnswerOf(o)' BY <2>1, <2>6, <2>7, <2>8, Answers DEF Answers, AnswerOf
  <2>11. ASSUME NEW p \in Ops, p # o PROVE PacketOf(p)' /\ AnswerOf(p)'
    <3>1. resumes'[p] = resumes[p] /\ task'[p] = task[p] BY <2>8, <2>11
    <3>2. PacketOf(p) /\ AnswerOf(p) BY Packets, Answers DEF Packets, Answers
    <3>3. PacketOf(p)' BY <2>1, <2>6, <3>1, <3>2 DEF PacketOf
    <3>4. AnswerOf(p)' BY <2>1, <2>6, <3>1, <3>2 DEF AnswerOf
    <3>5. QED BY <3>3, <3>4
  <2>12. QED BY <2>9, <2>10, <2>11 DEF Packets, Answers
<1>23. ASSUME NEW w \in Workers, NotifyFinish(w) PROVE Packets' /\ Answers'
  <2>1. /\ \E l \in {"resuming", "test"} : wpc' = [wpc EXCEPT ![w] = l]
        /\ cur' = cur \/ \E x : cur' = [cur EXCEPT ![w] = x]
        BY <1>23 DEF NotifyFinish, GotoWorker
  <2>2. UNCHANGED <<packets, io, spc, finish_flag_, timeout_flag_, task, resumes>>
        BY <1>23 DEF NotifyFinish, windowsVars, opVars
  <2>3. PICK l \in {"resuming", "test"} : wpc' = [wpc EXCEPT ![w] = l] BY <2>1
  <2>4. QED BY <2>1, <2>2, <2>3, TypeOK, Hands, Packets, Answers, HandEmpties, AnswerFrame
<1>24. ASSUME NEW w \in Workers, ResumeReturns(w) PROVE Packets' /\ Answers'
  <2>1. /\ \E l \in {"test"} : wpc' = [wpc EXCEPT ![w] = l]
        /\ cur' = cur \/ \E x : cur' = [cur EXCEPT ![w] = x]
        BY <1>24 DEF ResumeReturns, GotoWorker
  <2>2. UNCHANGED <<packets, io, spc, finish_flag_, timeout_flag_, task, resumes>>
        BY <1>24 DEF ResumeReturns, windowsVars, opVars
  <2>3. PICK l \in {"test"} : wpc' = [wpc EXCEPT ![w] = l] BY <2>1
  <2>4. QED BY <2>1, <2>2, <2>3, TypeOK, Hands, Packets, Answers, HandEmpties, AnswerFrame
<1>25. ASSUME NEW w \in Workers, SpuriousWake(w) PROVE Packets' /\ Answers'
  <2>1. /\ \E l \in {"lock"} : wpc' = [wpc EXCEPT ![w] = l]
        /\ cur' = cur \/ \E x : cur' = [cur EXCEPT ![w] = x]
        BY <1>25 DEF SpuriousWake, Awakened
  <2>2. UNCHANGED <<packets, io, spc, finish_flag_, timeout_flag_, task, resumes>>
        BY <1>25 DEF SpuriousWake, windowsVars, opVars
  <2>3. PICK l \in {"lock"} : wpc' = [wpc EXCEPT ![w] = l] BY <2>1
  <2>4. QED BY <2>1, <2>2, <2>3, TypeOK, Hands, Packets, Answers, HandEmpties, AnswerFrame
<1>26. ASSUME NEW w \in Workers, PoolJoinsItself(w) PROVE Packets' /\ Answers'
      BY <1>26, Packets, Answers, AnswerFrame DEF PoolJoinsItself, runVars, linuxVars,
         windowsVars, opVars, Carries
<1>27. ASSUME NEW t \in UserTasks, UserPosts(t) PROVE Packets' /\ Answers'
  <2>1. t \in Tasks BY DEF Tasks
  <2>2. Post(t) /\ cur' = cur BY <1>27 DEF UserPosts
  <2>3. \A w \in Workers : wpc'[w] = wpc[w] \/ wpc'[w] = "lock" BY <2>1, <2>2, PostStep, TypeOK
  <2>4. UNCHANGED <<packets, io, spc, finish_flag_, timeout_flag_, task, resumes>>
        BY <1>27 DEF UserPosts, windowsVars, opVars
  <2>5. \A w \in Workers, o \in Ops : Carries(w, o)' => Carries(w, o) /\ wpc'[w] = wpc[w]
        BY <2>2, <2>3 DEF Carries
  <2>6. QED BY <2>4, <2>5, Packets, Answers, AnswerFrame
<1>28. ASSUME NEW f \in Funs, AddFun(f) PROVE Packets' /\ Answers'
      BY <1>28, Packets, Answers, AnswerFrame DEF AddFun, runVars, poolVars, windowsVars,
         opVars, Carries
<1>29. ASSUME NEW f \in Funs, RingFuns(f) PROVE Packets' /\ Answers'
      BY <1>29, Packets, Answers, AnswerFrame DEF RingFuns, runVars, poolVars, windowsVars,
         opVars, Rung, Carries
<1>30. ASSUME NEW o \in Ops, OperateFails(o) PROVE Packets' /\ Answers'
  <2>1. UNCHANGED <<wpc, cur, packets, io, finish_flag_, timeout_flag_, task>>
        BY <1>30 DEF OperateFails, poolVars, windowsVars, opVars
  <2>2. spc[o] = "idle" /\ spc'[o] = "done" /\ resumes'[o] = resumes[o] + 1
        BY <1>30, TypeOK DEF OperateFails, TypeOK, Resume
  <2>3. \A p \in Ops : p # o => spc'[p] = spc[p] /\ resumes'[p] = resumes[p]
        BY <1>30, TypeOK DEF OperateFails, TypeOK, Resume
  <2>4. \A p \in Ops : PacketOf(p) /\ AnswerOf(p) BY Packets, Answers DEF Packets, Answers
  <2>5. io[o] \in {"none", "pending", "success", "fail", "lost"} /\ resumes[o] \in Nat
        BY TypeOK DEF TypeOK
  <2>6. PacketOf(o)' BY <2>1, <2>2, <2>4, <2>5 DEF PacketOf, AnswerOf, Carries
  <2>7. AnswerOf(o)' BY <2>1, <2>2, <2>4, <2>5 DEF PacketOf, AnswerOf, Carries
  <2>8. ASSUME NEW p \in Ops, p # o PROVE PacketOf(p)' /\ AnswerOf(p)'
    <3>1. PacketOf(p) /\ AnswerOf(p) BY <2>4
    <3>2. PacketOf(p)' BY <2>1, <2>3, <2>8, <3>1 DEF PacketOf, Carries
    <3>3. AnswerOf(p)' BY <2>1, <2>3, <2>8, <3>1 DEF AnswerOf, Carries
    <3>4. QED BY <3>2, <3>3
  <2>9. QED BY <2>6, <2>7, <2>8 DEF Packets, Answers
<1>31. ASSUME NEW o \in Ops, DoOperate(o) PROVE Packets' /\ Answers'
  <2>1. UNCHANGED <<wpc, cur, packets, finish_flag_, timeout_flag_, task, resumes>>
        BY <1>31 DEF DoOperate, poolVars, windowsVars, opVars
  <2>2. spc[o] = "idle" /\ spc'[o] = "start_task" /\ io'[o] = "pending"
        BY <1>31, TypeOK DEF DoOperate, TypeOK
  <2>3. \A p \in Ops : p # o => spc'[p] = spc[p] /\ io'[p] = io[p]
        BY <1>31, TypeOK DEF DoOperate, TypeOK
  <2>4. \A p \in Ops : PacketOf(p) /\ AnswerOf(p) BY Packets, Answers DEF Packets, Answers
  <2>5. io[o] \in {"none", "pending", "success", "fail", "lost"} /\ resumes[o] \in Nat
        BY TypeOK DEF TypeOK
  <2>6. PacketOf(o)' BY <2>1, <2>2, <2>4, <2>5 DEF PacketOf, AnswerOf, Carries
  <2>7. AnswerOf(o)' BY <2>1, <2>2, <2>4, <2>5 DEF PacketOf, AnswerOf, Carries
  <2>8. ASSUME NEW p \in Ops, p # o PROVE PacketOf(p)' /\ AnswerOf(p)'
    <3>1. PacketOf(p) /\ AnswerOf(p) BY <2>4
    <3>2. PacketOf(p)' BY <2>1, <2>3, <2>8, <3>1 DEF PacketOf, Carries
    <3>3. AnswerOf(p)' BY <2>1, <2>3, <2>8, <3>1 DEF AnswerOf, Carries
    <3>4. QED BY <3>2, <3>3
  <2>9. QED BY <2>6, <2>7, <2>8 DEF Packets, Answers
<1>32. ASSUME NEW o \in Ops, StartTask(o) PROVE Packets' /\ Answers'
  <2>1. UNCHANGED <<wpc, cur, packets, io, finish_flag_, timeout_flag_, resumes>>
        BY <1>32 DEF StartTask, poolVars, windowsVars, opVars
  <2>2. spc[o] = "start_task" /\ spc'[o] = "done" /\ task'[o] = "started"
        BY <1>32, TypeOK DEF StartTask, TypeOK, Armed
  <2>3. \A p \in Ops : p # o => spc'[p] = spc[p] /\ task'[p] = task[p]
        BY <1>32, TypeOK DEF StartTask, TypeOK, Armed
  <2>4. \A p \in Ops : PacketOf(p) /\ AnswerOf(p) BY Packets, Answers DEF Packets, Answers
  <2>5. io[o] \in {"none", "pending", "success", "fail", "lost"} /\ resumes[o] \in Nat
        BY TypeOK DEF TypeOK
  <2>6. PacketOf(o)' BY <2>1, <2>2, <2>4, <2>5 DEF PacketOf, AnswerOf, Carries
  <2>7. AnswerOf(o)' BY <2>1, <2>2, <2>4, <2>5 DEF PacketOf, AnswerOf, Carries
  <2>8. ASSUME NEW p \in Ops, p # o PROVE PacketOf(p)' /\ AnswerOf(p)'
    <3>1. PacketOf(p) /\ AnswerOf(p) BY <2>4
    <3>2. PacketOf(p)' BY <2>1, <2>3, <2>8, <3>1 DEF PacketOf, Carries
    <3>3. AnswerOf(p)' BY <2>1, <2>3, <2>8, <3>1 DEF AnswerOf, Carries
    <3>4. QED BY <3>2, <3>3
  <2>9. QED BY <2>6, <2>7, <2>8 DEF Packets, Answers
<1>33. ASSUME NEW o \in Ops, Complete(o) PROVE Packets' /\ Answers'
  <2>1. /\ io[o] = "pending"
        /\ UNCHANGED <<wpc, cur, spc, finish_flag_, timeout_flag_, task, resumes>>
        BY <1>33 DEF Complete, poolVars, opVars
  <2>2. PICK r \in {"success", "fail", "lost"} :
           /\ io' = [io EXCEPT ![o] = r]
           /\ packets' = packets \/ (r # "lost" /\ packets' = Append(packets, o))
        BY <1>33 DEF Complete
  <2>3. io'[o] = r /\ \A p \in Ops : p # o => io'[p] = io[p] BY <2>2, TypeOK DEF TypeOK
  <2>4. /\ ~In(o, packets) /\ Once(o, packets) /\ ~finish_flag_[o]
        /\ \A w \in Workers : ~Carries(w, o)
        BY <2>1, Packets DEF Packets, PacketOf
  <2>5. packets \in Seq({"wake"} \cup Ops) /\ o \in {"wake"} \cup Ops BY TypeOK DEF TypeOK
  <2>6. Once(o, packets') /\ (In(o, packets') => r # "lost")
    <3>1. CASE packets' = packets BY <2>4, <3>1
    <3>2. CASE r # "lost" /\ packets' = Append(packets, o) BY <2>4, <2>5, <3>2, PushOne
    <3>3. QED BY <2>2, <3>1, <3>2
  <2>7. \A p \in Ops : PacketOf(p) /\ AnswerOf(p) BY Packets, Answers DEF Packets, Answers
  <2>8. PacketOf(o)' BY <2>1, <2>3, <2>4, <2>6 DEF PacketOf, Carries
  <2>9. AnswerOf(o)' BY <2>1, <2>3, <2>7 DEF AnswerOf, Carries
  <2>10. ASSUME NEW p \in Ops, p # o PROVE PacketOf(p)' /\ AnswerOf(p)'
    <3>1. PacketOf(p) /\ AnswerOf(p) BY <2>7
    <3>2. /\ io'[p] = io[p]
          /\ In(p, packets') => In(p, packets)
          /\ Once(p, packets) => Once(p, packets')
      <4>1. io'[p] = io[p] BY <2>3, <2>10
      <4>2. CASE packets' = packets BY <4>1, <4>2
      <4>3. CASE packets' = Append(packets, o) BY <2>5, <2>10, <4>1, <4>3, PushOne
      <4>4. QED BY <2>2, <4>2, <4>3
    <3>3. PacketOf(p)' BY <2>1, <3>1, <3>2 DEF PacketOf, Carries
    <3>4. AnswerOf(p)' BY <2>1, <3>1, <3>2 DEF AnswerOf, Carries
    <3>5. QED BY <3>3, <3>4
  <2>11. QED BY <2>8, <2>9, <2>10 DEF Packets, Answers
<1>34. ASSUME NEW o \in Ops, OnTimeout(o) PROVE Packets' /\ Answers'
  <2>1. UNCHANGED <<wpc, cur, packets, io, spc, finish_flag_, resumes>>
        BY <1>34 DEF OnTimeout, poolVars, windowsVars, opVars
  <2>2. /\ task[o] \in {"started", "stopped"}
        /\ \/ finish_flag_[o] /\ task'[o] = "over" /\ timeout_flag_'[o] = timeout_flag_[o]
           \/ ~finish_flag_[o] /\ task'[o] = "answer" /\ timeout_flag_'[o]
        BY <1>34, TypeOK DEF OnTimeout, TypeOK
  <2>3. \A p \in Ops : p # o => task'[p] = task[p] /\ timeout_flag_'[p] = timeout_flag_[p]
        BY <1>34, TypeOK DEF OnTimeout, TypeOK
  <2>4. \A p \in Ops : PacketOf(p) /\ AnswerOf(p) BY Packets, Answers DEF Packets, Answers
  <2>5. io[o] \in {"none", "pending", "success", "fail", "lost"} /\ resumes[o] \in Nat
        BY TypeOK DEF TypeOK
  <2>6. PacketOf(o)' BY <2>1, <2>2, <2>4, <2>5 DEF PacketOf, AnswerOf, Carries
  <2>7. AnswerOf(o)' BY <2>1, <2>2, <2>4, <2>5 DEF PacketOf, AnswerOf, Carries
  <2>8. ASSUME NEW p \in Ops, p # o PROVE PacketOf(p)' /\ AnswerOf(p)'
    <3>1. PacketOf(p) /\ AnswerOf(p) BY <2>4
    <3>2. PacketOf(p)' BY <2>1, <2>3, <2>8, <3>1 DEF PacketOf, Carries
    <3>3. AnswerOf(p)' BY <2>1, <2>3, <2>8, <3>1 DEF AnswerOf, Carries
    <3>4. QED BY <3>2, <3>3
  <2>9. QED BY <2>6, <2>7, <2>8 DEF Packets, Answers
<1>35. ASSUME NEW o \in Ops, TimeoutAnswer(o) PROVE Packets' /\ Answers'
  <2>1. UNCHANGED <<wpc, cur, packets, io, spc, finish_flag_, timeout_flag_>>
        BY <1>35 DEF TimeoutAnswer, poolVars, windowsVars, opVars
  <2>2. task[o] = "answer" /\ task'[o] = "over" /\ resumes'[o] = resumes[o] + 1
        BY <1>35, TypeOK DEF TimeoutAnswer, TypeOK, Resume
  <2>3. \A p \in Ops : p # o => task'[p] = task[p] /\ resumes'[p] = resumes[p]
        BY <1>35, TypeOK DEF TimeoutAnswer, TypeOK, Resume
  <2>4. \A p \in Ops : PacketOf(p) /\ AnswerOf(p) BY Packets, Answers DEF Packets, Answers
  <2>5. io[o] \in {"none", "pending", "success", "fail", "lost"} /\ resumes[o] \in Nat
        BY TypeOK DEF TypeOK
  <2>6. PacketOf(o)' BY <2>1, <2>2, <2>4, <2>5 DEF PacketOf, AnswerOf, Carries
  <2>7. AnswerOf(o)' BY <2>1, <2>2, <2>4, <2>5 DEF PacketOf, AnswerOf, Carries
  <2>8. ASSUME NEW p \in Ops, p # o PROVE PacketOf(p)' /\ AnswerOf(p)'
    <3>1. PacketOf(p) /\ AnswerOf(p) BY <2>4
    <3>2. PacketOf(p)' BY <2>1, <2>3, <2>8, <3>1 DEF PacketOf, Carries
    <3>3. AnswerOf(p)' BY <2>1, <2>3, <2>8, <3>1 DEF AnswerOf, Carries
    <3>4. QED BY <3>2, <3>3
  <2>9. QED BY <2>6, <2>7, <2>8 DEF Packets, Answers
<1>36. CASE UNCHANGED vars
      BY <1>36, Packets, Answers, AnswerFrame DEF vars, runVars, poolVars, linuxVars,
         windowsVars, opVars, Carries
<1>37. QED
      BY <1>f, <1>1, <1>2, <1>3, <1>4, <1>5, <1>6, <1>7, <1>8, <1>9, <1>10, <1>11, <1>12, <1>13,
         <1>14, <1>15, <1>16, <1>17, <1>18, <1>19, <1>20, <1>21, <1>22, <1>23, <1>24,
         <1>25, <1>26, <1>27, <1>28, <1>29, <1>30, <1>31, <1>32, <1>33, <1>34, <1>35, <1>36
         DEF Next, RunStep, PoolStep, Worker, WorkStep, TimerStep

------------------------------------------------------------------------------
(* The theorems *)

\* Nothing has begun.
LEMMA CommInit == Init => CommInv
<1> SUFFICES ASSUME Init PROVE CommInv
    OBVIOUS
<1>1. TypeOK
  <2>1. 0 \in 0..MaxRuns BY CommunicationAssumption DEF CommunicationAssumption
  <2>2. << >> \in Seq({"work"} \cup UserTasks) /\ << >> \in Seq({"wake"} \cup Ops)
        OBVIOUS
  <2>3. QED BY <2>1, <2>2 DEF Init, TypeOK, InWork
<1>2. Hands BY DEF Init, Hands
<1>3. \A w \in Workers : ~Works(w) BY DEF Init, Works, InWork
<1>4. \A x : ~In(x, tasks_) /\ Once(x, tasks_) /\ ~In(x, packets) /\ Once(x, packets)
  <2>1. tasks_ = << >> /\ packets = << >> BY DEF Init
  <2>2. Len(tasks_) = 0 /\ Len(packets) = 0 BY <2>1
  <2>3. QED BY <2>2 DEF In, Once
<1>5. OneWork BY <1>3, <1>4 DEF OneWork
<1>6. Turn BY <1>3, <1>4 DEF Init, Turn
<1>7. \A w \in Workers, o \in Ops : ~Carries(w, o) BY DEF Init, Carries
<1>8. Packets BY <1>4, <1>7 DEF Init, Packets, PacketOf
<1>9. Answers BY DEF Init, Answers, AnswerOf
<1>10. QED BY <1>1, <1>2, <1>5, <1>6, <1>8, <1>9 DEF CommInv

\* Every step keeps the invariant.
LEMMA CommNext == CommInv /\ [Next]_vars => CommInv'
<1> SUFFICES ASSUME CommInv, [Next]_vars PROVE CommInv'
    OBVIOUS
<1>1. CommunicationAssumption BY CommunicationAssumption
<1>2. TypeOK /\ Hands /\ OneWork /\ Turn /\ Packets /\ Answers BY DEF CommInv
<1>3. TypeOK' /\ Hands' BY <1>1, <1>2, TypeStep
<1>4. OneWork' /\ Turn' BY <1>1, <1>2, WorkTaskStep
<1>5. Packets' /\ Answers' BY <1>1, <1>2, AnswerStep
<1>6. QED BY <1>3, <1>4, <1>5 DEF CommInv

\* It holds in every state.
LEMMA CommAlways == Spec => []CommInv
BY CommInit, CommNext, PTL DEF Spec

\* The variables keep their types, for both platforms and every instance.
THEOREM CommunicationTypes == Spec => []TypeOK
<1>1. CommInv => TypeOK BY DEF CommInv
<1>2. QED BY <1>1, CommAlways, PTL

\* The port is closed, and a Run that follows begins, behind the work thread: the
\* work task is one, and Run goes on to close only when its notice has come.
THEOREM CommunicationPortOutlivesWorkThread == Spec => []PortOutlivesWorkThread
<1>1. CommInv => PortOutlivesWorkThread
  <2> SUFFICES ASSUME CommInv PROVE PortOutlivesWorkThread
      OBVIOUS
  <2> DEFINE working == {w \in Workers : wpc[w] \in InWork}
  <2>1. OneWork /\ Turn BY DEF CommInv
  <2>2. cpc \in {"close", "over"} => \A w \in Workers : wpc[w] \notin InWork
        BY <2>1 DEF Turn, Works
  <2>3. \A w, v \in working : w = v BY <2>1 DEF OneWork, Works
  <2>4. CASE working = {}
    <3>1. Cardinality(working) = 0 BY <2>4, FS_EmptySet
    <3>2. QED BY <2>2, <3>1 DEF PortOutlivesWorkThread
  <2>5. CASE working # {}
    <3>1. PICK w : w \in working BY <2>5
    <3>2. working = {w} BY <2>3, <3>1
    <3> HIDE DEF working
    <3>3. Cardinality(working) = 1 BY <3>2, FS_Singleton
    <3>4. Cardinality(working) <= 1 BY <3>3
    <3>5. QED BY <2>2, <3>4 DEF PortOutlivesWorkThread, working
  <2>6. QED BY <2>4, <2>5
<1>2. QED BY <1>1, CommAlways, PTL

\* A coroutine is resumed once at most, by its packet, by its timeout, or at once
\* by a call that failed.
THEOREM CommunicationAnsweredOnce == Spec => []AnsweredOnce
<1>1. CommInv => AnsweredOnce
  <2> SUFFICES ASSUME CommInv, NEW o \in Ops PROVE resumes[o] <= 1
      BY DEF AnsweredOnce
  <2>1. resumes[o] \in Nat /\ (resumes[o] # 0 => resumes[o] = 1)
        BY DEF CommInv, TypeOK, Answers, AnswerOf
  <2>2. QED BY <2>1
<1>2. QED BY <1>1, CommAlways, PTL

===============================================================================
