---------------------------- MODULE HelperProofs ----------------------------
(***************************************************************************)
(* Theorems about ChannelReadWriteHelper, for any number of operations,    *)
(* lengths and bytes.                                                      *)
(*                                                                         *)
(* The argument: until it is finished or has timed out an operation is in  *)
(* one place - once in one of the queues, or in the hands of one thread in *)
(* EndAllOperate - and so only one thread can finish it.  From then on one *)
(* thread only has it to call.  finish_flag_ and timeout_flag_ exclude     *)
(* each other because a thread sets either only after it has seen that the *)
(* other is not set, under CommunData::mutex_.                             *)
(***************************************************************************)
EXTENDS ChannelReadWriteHelper, SequenceTheorems, FiniteSetTheorems, TLAPS

NoDuplicates(q) == \A i, j \in 1..Len(q) : q[i] = q[j] => i = j

\* What an actor holds where, and what the descriptor can have.
Control ==
    /\ \A a \in Actors : pc[a] \in {"io", "blocked", "end_call"} => cur[a] \in Ops
    /\ pc[Clock] \in {"idle", "timeout", "timeout_resume"}
    /\ pc[Clock] # "idle" => cur[Clock] \in Ops
    /\ available <= sent /\ sent <= MaxBytes

Types == TypeOK /\ Control

\* Only the holder of operate_mutex_ is in the loop, and it transfers what is
\* first in the queue and has not timed out.
Loop ==
    \A a \in Actors :
        /\ pc[a] \in {"loop", "io", "blocked"} => operate_mutex_ = a
        /\ Transferring(a) => /\ operate_queue_ # << >> /\ cur[a] = Head(operate_queue_)
                              /\ ~timeout_flag_[cur[a]]

\* a has yet to end operation o, or to call it.
Ending(a, o) == pc[a] \in {"end", "end_call"} /\ o \in todo[a]
Calling(a, o) == \/ pc[a] \notin {"end", "end_call"} /\ o \in todo[a]
                 \/ pc[a] = "end_call" /\ cur[a] = o

\* Where a thread holds no operations.
Empty == {"idle", "event", "stop", "end_lock", "timeout", "timeout_resume"}

\* An operation that is queued or being ended is in that one place only.
OnePlace ==
    /\ NoDuplicates(ready_operate_queue_) /\ NoDuplicates(operate_queue_)
    /\ Elems(ready_operate_queue_) \cap Elems(operate_queue_) = {}
    /\ \A o \in Ops :
          /\ o \in Queued \/ finish_flag_[o] => pc[o] # "idle"
          /\ o \in Queued => ~finish_flag_[o]
          /\ \A a \in Actors : Ending(a, o) =>
                /\ pc[o] # "idle" /\ ~finish_flag_[o] /\ o \notin Queued
                /\ \A b \in Actors : Ending(b, o) => b = a
    /\ \A a \in Actors : pc[a] \in Empty => todo[a] = {}

\* A finished operation that was not called yet is in the hands of one thread.
Answering ==
    \A o \in Ops :
        /\ ~(finish_flag_[o] /\ timeout_flag_[o])
        /\ resumed[o] <= 1
        /\ resumed[o] > 0 => finish_flag_[o] \/ timeout_flag_[o]
        /\ \A a \in Actors : Calling(a, o) =>
              /\ finish_flag_[o] /\ resumed[o] = 0
              /\ \A b \in Actors : Calling(b, o) => b = a
        /\ finish_flag_[o] /\ resumed[o] = 0 => \E a \in Actors : Calling(a, o)
        /\ len[o] # 0 => finish_flag_[o] /\ state[o] = "CRS_SUCCESS"

\* A task function is called once, after await_suspend has started the task.
Timing ==
    \A o \in Ops :
        /\ timer[o] # "idle" <=> pc[o] = "suspended"
        /\ timer[o] # "fired" => /\ ~timeout_flag_[o]
                                 /\ pc[Clock] # "idle" => cur[Clock] # o
        /\ pc[Clock] = "timeout" /\ cur[Clock] = o => ~timeout_flag_[o]
        /\ timeout_flag_[o] /\ resumed[o] = 0 <=> pc[Clock] = "timeout_resume" /\ cur[Clock] = o
        /\ timer[o] = "stopped" => finish_flag_[o]
        /\ timer[o] = "fired" => \/ finish_flag_[o] \/ timeout_flag_[o]
                                 \/ pc[Clock] = "timeout" /\ cur[Clock] = o

HelperInv == Types /\ Loop /\ OnePlace /\ Answering /\ Timing

------------------------------------------------------------------------------
(* Queues *)

\* push_back adds its operation at the end.
LEMMA AppendQueue ==
    ASSUME NEW S, NEW q \in Seq(S), NEW e \in S
    PROVE  /\ Append(q, e) \in Seq(S)
           /\ Elems(Append(q, e)) = Elems(q) \cup {e}
           /\ NoDuplicates(q) /\ e \notin Elems(q) => NoDuplicates(Append(q, e))
<1>1. /\ Append(q, e) \in Seq(S) /\ Len(Append(q, e)) = Len(q) + 1 /\ Len(q) \in Nat
      /\ \A i \in 1..Len(q) : Append(q, e)[i] = q[i]
      /\ Append(q, e)[Len(q) + 1] = e
      BY AppendProperties, LenProperties
<1>2. 1..(Len(q) + 1) = 1..Len(q) \cup {Len(q) + 1} BY <1>1
<1>3. Elems(Append(q, e)) = Elems(q) \cup {e} BY <1>1, <1>2 DEF Elems
<1>4. ASSUME NoDuplicates(q), e \notin Elems(q) PROVE NoDuplicates(Append(q, e))
      BY <1>1, <1>2, <1>4 DEF Elems, NoDuplicates
<1>5. QED BY <1>1, <1>3, <1>4

\* erase(begin()) takes the first operation away, and only that.
LEMMA TailQueue ==
    ASSUME NEW S, NEW q \in Seq(S), q # << >>
    PROVE  /\ Tail(q) \in Seq(S) /\ Head(q) \in Elems(q) /\ Head(q) \in S
           /\ Elems(q) = Elems(Tail(q)) \cup {Head(q)}
           /\ NoDuplicates(q) => NoDuplicates(Tail(q)) /\ Head(q) \notin Elems(Tail(q))
<1>1. /\ Tail(q) \in Seq(S) /\ Len(Tail(q)) = Len(q) - 1 /\ Len(q) \in Nat \ {0}
      /\ \A i \in 1..(Len(q) - 1) : Tail(q)[i] = q[i + 1]
      /\ Head(q) = q[1] /\ Head(q) \in S
      BY HeadTailProperties, LenProperties, EmptySeq
<1>2. \A i \in 1..Len(q) : i = 1 \/ (i - 1 \in 1..(Len(q) - 1) /\ q[i] = Tail(q)[i - 1])
      BY <1>1
<1>3. /\ 1 \in 1..Len(q)
      /\ \A i \in 1..(Len(q) - 1) : i + 1 \in 1..Len(q)
      BY <1>1
<1>4. Elems(q) = Elems(Tail(q)) \cup {Head(q)}
  <2>1. ASSUME NEW x \in Elems(q) PROVE x \in Elems(Tail(q)) \cup {Head(q)}
    <3>1. PICK i \in 1..Len(q) : q[i] = x BY <2>1 DEF Elems
    <3>2. CASE i = 1 BY <1>1, <3>1, <3>2
    <3>3. CASE i # 1
      <4>1. i - 1 \in 1..(Len(q) - 1) /\ x = Tail(q)[i - 1] BY <1>2, <3>1, <3>3
      <4>2. x \in Elems(Tail(q)) BY <1>1, <4>1 DEF Elems
      <4>3. QED BY <4>2
    <3>4. QED BY <3>2, <3>3
  <2>2. ASSUME NEW x \in Elems(Tail(q)) PROVE x \in Elems(q)
        BY <1>1, <1>3, <2>2 DEF Elems
  <2>3. Head(q) \in Elems(q) BY <1>1, <1>3 DEF Elems
  <2>4. QED BY <2>1, <2>2, <2>3
<1>5. Head(q) \in Elems(q) BY <1>4
<1>6. ASSUME NoDuplicates(q)
      PROVE  NoDuplicates(Tail(q)) /\ Head(q) \notin Elems(Tail(q))
  <2>1. NoDuplicates(Tail(q)) BY <1>1, <1>3, <1>6 DEF NoDuplicates
  <2>2. ASSUME NEW i \in 1..(Len(q) - 1), Tail(q)[i] = Head(q) PROVE FALSE
    <3>1. i + 1 \in 1..Len(q) /\ q[i + 1] = q[1] BY <1>1, <2>2
    <3>2. i + 1 = 1 BY <1>3, <1>6, <3>1 DEF NoDuplicates
    <3>3. QED BY <3>2
  <2>3. Head(q) \notin Elems(Tail(q)) BY <1>1, <2>2 DEF Elems
  <2>4. QED BY <2>1, <2>3
<1>7. QED BY <1>1, <1>4, <1>5, <1>6

\* splice puts one queue behind the other.
LEMMA SpliceQueue ==
    ASSUME NEW S, NEW q \in Seq(S), NEW r \in Seq(S)
    PROVE  /\ q \o r \in Seq(S)
           /\ Elems(q \o r) = Elems(q) \cup Elems(r)
           /\ NoDuplicates(q) /\ NoDuplicates(r) /\ Elems(q) \cap Elems(r) = {}
                => NoDuplicates(q \o r)
<1>1. /\ q \o r \in Seq(S) /\ Len(q \o r) = Len(q) + Len(r) /\ Len(q) \in Nat /\ Len(r) \in Nat
      /\ \A i \in 1..Len(q) : (q \o r)[i] = q[i]
      /\ \A i \in 1..Len(r) : (q \o r)[Len(q) + i] = r[i]
      BY ConcatProperties, LenProperties
<1>2. \A i \in 1..(Len(q) + Len(r)) :
          \/ i \in 1..Len(q) /\ (q \o r)[i] = q[i]
          \/ i - Len(q) \in 1..Len(r) /\ (q \o r)[i] = r[i - Len(q)]
      <2> TAKE i \in 1..(Len(q) + Len(r))
      <2>1. CASE i \in 1..Len(q) BY <1>1, <2>1
      <2>2. CASE i \notin 1..Len(q)
        <3>1. i - Len(q) \in 1..Len(r) BY <1>1, <2>2
        <3>2. (q \o r)[Len(q) + (i - Len(q))] = r[i - Len(q)] BY <1>1, <3>1
        <3>3. Len(q) + (i - Len(q)) = i BY <1>1
        <3>4. QED BY <3>1, <3>2, <3>3
      <2>3. QED BY <2>1, <2>2
<1>3. /\ \A i \in 1..Len(q) : i \in 1..(Len(q) + Len(r))
      /\ \A i \in 1..Len(r) : Len(q) + i \in 1..(Len(q) + Len(r))
      BY <1>1
<1>4. Elems(q \o r) = Elems(q) \cup Elems(r) BY <1>1, <1>2, <1>3 DEF Elems
<1>5. ASSUME NoDuplicates(q), NoDuplicates(r), Elems(q) \cap Elems(r) = {}
      PROVE  NoDuplicates(q \o r)
  <2>1. SUFFICES ASSUME NEW i \in 1..(Len(q) + Len(r)), NEW j \in 1..(Len(q) + Len(r)),
                        (q \o r)[i] = (q \o r)[j]
                 PROVE  i = j
        BY <1>1 DEF NoDuplicates
  <2>2. ~(\E k \in 1..Len(q), l \in 1..Len(r) : q[k] = r[l]) BY <1>5 DEF Elems
  <2>3. QED BY <1>1, <1>2, <1>5, <2>1, <2>2 DEF NoDuplicates
<1>6. QED BY <1>1, <1>4, <1>5

\* A queue of operations holds operations.
LEMMA QueueElements ==
    ASSUME NEW S, NEW q \in Seq(S)
    PROVE  Elems(q) \subseteq S
BY ElementOfSeq DEF Elems

\* An empty queue holds nothing.
LEMMA EmptyQueue == Elems(<< >>) = {} /\ NoDuplicates(<< >>)
BY DEF Elems, NoDuplicates

------------------------------------------------------------------------------
(* Types *)

\* The initial states have the types.
LEMMA TypesInit == Init => Types
<1> SUFFICES ASSUME Init PROVE Types OBVIOUS
<1> USE HelperAssumption, EmptySeq
<1>1. Control BY DEF Init, Control, Actors
<1>2. ready_operate_queue_ \in Seq(Ops) /\ operate_queue_ \in Seq(Ops) BY DEF Init
<1>3. /\ turn \in [Ops -> Nat] /\ need_len_ \in [Ops -> Needs] /\ pos \in [Ops -> Nat]
      /\ len \in [Ops -> 0..(SizeModulus - 1)] /\ resumed \in [Ops -> Nat]
      BY DEF Init
<1>4. /\ state \in [Ops -> States] /\ timer \in [Ops -> {"idle", "timed", "stopped", "fired"}]
      /\ timeout_flag_ \in [Ops -> BOOLEAN] /\ finish_flag_ \in [Ops -> BOOLEAN]
      BY DEF Init, States
<1>5. /\ pc \in [Actors -> Places] /\ todo \in [Actors -> SUBSET Ops]
      /\ cur \in [Actors -> Ops \cup {NoOp}]
      BY DEF Init, Places
<1>6. QED BY <1>1, <1>2, <1>3, <1>4, <1>5 DEF Types, TypeOK, Init

\* Every step keeps them; Operate needs that the queue it works on is not empty.
LEMMA TypesNext == Types /\ Loop /\ [Next]_vars => Types'
<1> SUFFICES ASSUME Types, Loop, [Next]_vars PROVE Types' OBVIOUS
<1> USE HelperAssumption DEF Types, TypeOK, Control, Actors, Goto, At, Places, States,
        queueVars, flagVars, dataVars, callVars, actorVars, kernelVars
<1>1. ASSUME NEW o \in Ops, AwaitSuspend(o) PROVE Types'
  <2>1. Append(ready_operate_queue_, o) \in Seq(Ops) BY AppendQueue
  <2>2. Cardinality({p \in Ops : turn[p] > 0}) \in Nat BY FS_Subset, FS_CardinalityType
  <2> DEFINE n == Cardinality({p \in Ops : turn[p] > 0})
  <2>3. n \in Nat /\ turn' = [turn EXCEPT ![o] = 1 + n] BY <1>1, <2>2 DEF AwaitSuspend
  <2> HIDE DEF n
  <2>4. turn' \in [Ops -> Nat] BY <2>3
  <2>5. QED BY <1>1, <2>1, <2>4 DEF AwaitSuspend, QueuedBack
<1>2. ASSUME NEW o \in Ops, ReadFlag(o) PROVE Types'
      BY <1>2 DEF ReadFlag
<1>3. ASSUME NEW o \in Ops, ArmTimeout(o) PROVE Types'
      BY <1>3 DEF ArmTimeout, StartTask
<1>4. CASE EpollWait BY <1>4 DEF EpollWait
<1>5. CASE PeekEnd BY <1>5 DEF PeekEnd
<1>6. CASE OnOperate BY <1>6 DEF OnOperate
<1>s. CASE Start BY <1>s DEF Start
<1>7. CASE CloseDescriptor BY <1>7 DEF CloseDescriptor
<1>8. CASE Stop BY <1>8 DEF Stop
<1>9. CASE Fire BY <1>9 DEF Fire
<1>10. CASE OnTimeout
  <2>1. cur[Clock] \in Ops BY <1>10 DEF OnTimeout
  <2>2. CASE Finished(cur[Clock]) BY <1>10, <2>1, <2>2 DEF OnTimeout
  <2>3. CASE ~Finished(cur[Clock]) BY <1>10, <2>1, <2>3 DEF OnTimeout
  <2>4. QED BY <2>2, <2>3
<1>11. CASE ResumeTimedOut BY <1>11 DEF ResumeTimedOut
<1>12. CASE Arrive BY <1>12 DEF Arrive
<1>13. CASE PeerClose BY <1>13 DEF PeerClose
<1>14. CASE OtherEvent BY <1>14 DEF OtherEvent
<1>15. ASSUME NEW a \in Actors, DoOperate(a) PROVE Types'
      BY <1>15 DEF DoOperate
<1>16. ASSUME NEW a \in Actors, LockOperate(a) PROVE Types'
      BY <1>16 DEF LockOperate
<1>17. ASSUME NEW a \in Actors, LoopEmpty(a) PROVE Types'
      BY <1>17 DEF LoopEmpty
<1>18. ASSUME NEW a \in Actors, LoopDrop(a) PROVE Types'
  <2>1. Tail(operate_queue_) \in Seq(Ops) BY <1>18, TailQueue DEF LoopDrop
  <2>2. QED BY <1>18, <2>1 DEF LoopDrop
<1>19. ASSUME NEW a \in Actors, LoopTake(a) PROVE Types'
  <2>1. Head(operate_queue_) \in Ops BY <1>19, TailQueue DEF LoopTake
  <2>2. QED BY <1>19, <2>1 DEF LoopTake, TimedOut
<1>20. ASSUME NEW a \in Actors, Block(a) PROVE Types'
      BY <1>20 DEF Block
<1>21. ASSUME NEW a \in Actors, OperateNothing(a) PROVE Types'
      BY <1>21 DEF OperateNothing, Transferring
<1>22. ASSUME NEW a \in Actors, Operate(a) PROVE Types'
  <2>1. cur[a] \in Ops /\ a \in Actors BY <1>22 DEF Operate, Transferring
  <2>2. PICK n \in Returns(a) \ {0} :
           /\ len' = [len EXCEPT ![cur[a]] = n]
           /\ IF n = MinusOne THEN UNCHANGED <<pos, available>>
              ELSE /\ pos' = [pos EXCEPT ![cur[a]] = sent - available]
                   /\ available' = available - n
           /\ operate_queue_' = Tail(operate_queue_)
           /\ finish_flag_' = [finish_flag_ EXCEPT ![cur[a]] = TRUE]
           /\ state' = [state EXCEPT ![cur[a]] = "CRS_SUCCESS"]
           /\ todo' = [todo EXCEPT ![a] = @ \cup {cur[a]}]
           /\ cur' = [cur EXCEPT ![a] = NoOp]
           /\ IF n < need_len_[cur[a]]
              THEN operate_mutex_' = Nobody /\ pc' = [pc EXCEPT ![a] = "calls"]
              ELSE operate_mutex_' = operate_mutex_ /\ pc' = [pc EXCEPT ![a] = "loop"]
        BY <1>22 DEF Operate
  <2>3. n \in 0..(SizeModulus - 1) /\ (n # MinusOne => n <= available)
        BY <2>1 DEF Returns, MinusOne
  <2>4. Tail(operate_queue_) \in Seq(Ops) BY <1>22, TailQueue DEF Operate, Loop
  <2>5. /\ UNCHANGED <<ready_operate_queue_, turn, run_flag_, operateable_flag_, need_len_>>
        /\ UNCHANGED <<timeout_flag_, timer, resumed, blocking, open, eof, edge, sent, others>>
        BY <1>22 DEF Operate
  <2>6. available' \in Nat /\ available' <= sent /\ pos' \in [Ops -> Nat]
    <3>1. CASE n = MinusOne BY <2>2, <3>1
    <3>2. CASE n # MinusOne
      <4>1. n \in Nat /\ n <= available /\ sent - available \in Nat BY <2>3, <3>2
      <4>2. available' = available - n /\ pos' = [pos EXCEPT ![cur[a]] = sent - available]
            BY <2>2, <3>2
      <4>3. available' \in Nat /\ available' <= sent BY <4>1, <4>2
      <4>4. PICK p \in Nat : pos' = [pos EXCEPT ![cur[a]] = p] BY <4>1, <4>2
      <4>5. QED BY <4>3, <4>4
    <3>3. QED BY <3>1, <3>2
  <2>7. len' \in [Ops -> 0..(SizeModulus - 1)]
    <3> DEFINE lengths == 0..(SizeModulus - 1)
    <3>1. len \in [Ops -> lengths] /\ n \in lengths BY <2>3
    <3> HIDE DEF lengths
    <3>2. len' \in [Ops -> lengths] BY <2>2, <3>1
    <3>3. QED BY <3>2 DEF lengths
  <2>8. state' \in [Ops -> States] /\ finish_flag_' \in [Ops -> BOOLEAN] BY <2>2
  <2>9. todo' \in [Actors -> SUBSET Ops] /\ cur' \in [Actors -> Ops \cup {NoOp}]
        BY <2>1, <2>2
  <2>10. /\ operate_mutex_' \in Actors \cup {Nobody}
         /\ pc' = [pc EXCEPT ![a] = "calls"] \/ pc' = [pc EXCEPT ![a] = "loop"]
         BY <2>2
  <2>11. pc' \in [Actors -> Places] BY <2>10
  <2>12. TypeOK' BY <2>2, <2>4, <2>5, <2>6, <2>7, <2>8, <2>9, <2>10, <2>11
  <2>13. a # Clock BY <1>22 DEF Operate, Transferring
  <2>14. Control' BY <2>2, <2>5, <2>6, <2>10, <2>13
  <2>15. QED BY <2>12, <2>14
<1>23. ASSUME NEW a \in Actors, SetOperateable(a) PROVE Types'
      BY <1>23 DEF SetOperateable
<1>24. ASSUME NEW a \in Actors, CallFinished(a) PROVE Types'
  <2>1. PICK o \in todo[a] : IoCallback(o) /\ todo' = [todo EXCEPT ![a] = @ \ {o}]
        BY <1>24 DEF CallFinished
  <2>2. timer' \in [Ops -> {"idle", "timed", "stopped", "fired"}] /\ resumed' \in [Ops -> Nat]
        BY <2>1 DEF IoCallback, StopTask
  <2>3. QED BY <1>24, <2>1, <2>2 DEF CallFinished
<1>25. ASSUME NEW a \in Actors, CheckRun(a) PROVE Types'
      BY <1>25 DEF CheckRun, After
<1>26. ASSUME NEW a \in Actors, EndAllOperate(a) PROVE Types'
  <2>1. Elems(operate_queue_) \cup Elems(ready_operate_queue_) \subseteq Ops BY QueueElements
  <2>2. << >> \in Seq(Ops) OBVIOUS
  <2>3. QED BY <1>26, <2>1, <2>2 DEF EndAllOperate, Swapped
<1>27. ASSUME NEW a \in Actors, EndDrop(a) PROVE Types'
  <2>1. PICK o \in todo[a] : todo' = [todo EXCEPT ![a] = @ \ {o}] BY <1>27 DEF EndDrop
  <2>2. QED BY <1>27, <2>1 DEF EndDrop
<1>28. ASSUME NEW a \in Actors, EndOne(a) PROVE Types'
  <2>1. PICK o \in todo[a] : /\ todo' = [todo EXCEPT ![a] = @ \ {o}]
                             /\ finish_flag_' = [finish_flag_ EXCEPT ![o] = TRUE]
                             /\ state' = [state EXCEPT ![o] = "CRS_CHANNEL_DISCONNECTED"]
                             /\ cur' = [cur EXCEPT ![a] = o]
        BY <1>28 DEF EndOne
  <2>2. finish_flag_' \in [Ops -> BOOLEAN] BY <2>1
  <2>3. state' \in [Ops -> States] BY <2>1 DEF States
  <2>4. QED BY <1>28, <2>1, <2>2, <2>3 DEF EndOne
<1>29. ASSUME NEW a \in Actors, EndCall(a) PROVE Types'
  <2>1. cur[a] \in Ops BY <1>29 DEF EndCall
  <2>2. timer' \in [Ops -> {"idle", "timed", "stopped", "fired"}] /\ resumed' \in [Ops -> Nat]
        BY <1>29, <2>1 DEF EndCall, IoCallback, StopTask
  <2>3. QED BY <1>29, <2>1, <2>2 DEF EndCall
<1>30. ASSUME NEW a \in Actors, EndReturn(a) PROVE Types'
      BY <1>30 DEF EndReturn, After
<1>31. CASE UNCHANGED vars BY <1>31 DEF vars
<1>32. QED
      BY <1>s, <1>1, <1>2, <1>3, <1>4, <1>5, <1>6, <1>7, <1>8, <1>9, <1>10, <1>11, <1>12, <1>13,
         <1>14, <1>15, <1>16, <1>17, <1>18, <1>19, <1>20, <1>21, <1>22, <1>23, <1>24, <1>25,
         <1>26, <1>27, <1>28, <1>29, <1>30, <1>31
         DEF Next, Await, Dispatch, TimerWorker, Kernel, Perform

------------------------------------------------------------------------------
(* The loop under operate_mutex_ *)

\* Nobody begins or changes a transfer but the holder of the mutex, and an
\* operation that is being transferred does not time out.
LEMMA LoopNext == Types /\ Loop /\ [Next]_vars => Loop'
<1> SUFFICES ASSUME Types, Loop, [Next]_vars PROVE Loop' OBVIOUS
<1>a. /\ pc \in [Actors -> Places] /\ cur \in [Actors -> Ops \cup {NoOp}]
      /\ timeout_flag_ \in [Ops -> BOOLEAN] /\ Nobody \notin Actors
      /\ Clock \in Actors /\ Epoll \in Actors /\ Stopper \in Actors
      /\ \A o \in Ops : o \in Actors
      BY HelperAssumption DEF Types, TypeOK, Actors
<1> USE <1>a DEF Goto, queueVars, flagVars, dataVars, callVars, actorVars, kernelVars
<1>0. ASSUME UNCHANGED <<operate_queue_, operate_mutex_, timeout_flag_>>,
             \A b \in Actors : \/ pc'[b] = pc[b] /\ cur'[b] = cur[b]
                               \/ pc'[b] \notin {"loop", "io", "blocked"}
      PROVE  Loop'
      BY <1>0 DEF Loop, Transferring
<1>1. ASSUME NEW o \in Ops, AwaitSuspend(o) PROVE Loop'
      BY <1>1, <1>0 DEF AwaitSuspend, QueuedBack, At
<1>2. ASSUME NEW o \in Ops, ReadFlag(o) PROVE Loop'
      BY <1>2, <1>0 DEF ReadFlag, At
<1>3. ASSUME NEW o \in Ops, ArmTimeout(o) PROVE Loop'
      BY <1>3, <1>0 DEF ArmTimeout, StartTask, At
<1>4. CASE EpollWait BY <1>4, <1>0 DEF EpollWait, At
<1>5. CASE PeekEnd BY <1>5, <1>0 DEF PeekEnd, At
<1>6. CASE OnOperate BY <1>6, <1>0 DEF OnOperate, At
<1>s. CASE Start BY <1>s, <1>0 DEF Start, At
<1>7. CASE CloseDescriptor BY <1>7, <1>0 DEF CloseDescriptor, At
<1>8. CASE Stop BY <1>8, <1>0 DEF Stop, At
<1>9. CASE Fire BY <1>9, <1>0 DEF Fire, At
<1>10. CASE OnTimeout
  <2>1. \A b \in Actors : Transferring(b) => cur[b] # cur[Clock]
        BY <1>10 DEF OnTimeout, DataMutexFree
  <2>2. \A b \in Actors : Transferring(b) => timeout_flag_'[cur[b]] = timeout_flag_[cur[b]]
        BY <1>10, <2>1 DEF OnTimeout, Types, TypeOK, Control, Transferring
  <2>3. UNCHANGED <<operate_queue_, operate_mutex_>>
        BY <1>10 DEF OnTimeout, queueVars
  <2>4. \A b \in Actors : b = Clock \/ (pc'[b] = pc[b] /\ cur'[b] = cur[b])
        BY <1>10 DEF OnTimeout
  <2>5. pc'[Clock] \notin {"loop", "io", "blocked"} BY <1>10 DEF OnTimeout, At
  <2>6. QED BY <2>2, <2>3, <2>4, <2>5 DEF Loop, Transferring
<1>11. CASE ResumeTimedOut BY <1>11, <1>0 DEF ResumeTimedOut, At
<1>12. CASE Arrive BY <1>12, <1>0 DEF Arrive, At
<1>13. CASE PeerClose BY <1>13, <1>0 DEF PeerClose, At
<1>14. CASE OtherEvent BY <1>14, <1>0 DEF OtherEvent, At
<1>15. ASSUME NEW a \in Actors, DoOperate(a) PROVE Loop'
      BY <1>15, <1>0 DEF DoOperate, At
<1>16. ASSUME NEW a \in Actors, LockOperate(a) PROVE Loop'
  <2>1. \A b \in Actors : pc[b] \notin {"loop", "io", "blocked"}
        BY <1>16 DEF LockOperate, Loop
  <2>2. QED BY <1>16, <2>1 DEF LockOperate, Loop, Transferring, At
<1>17. ASSUME NEW a \in Actors, LoopEmpty(a) PROVE Loop'
  <2>1. \A b \in Actors : b # a => pc[b] \notin {"loop", "io", "blocked"}
        BY <1>17 DEF LoopEmpty, Loop, At
  <2>2. QED BY <1>17, <2>1 DEF LoopEmpty, Loop, Transferring, At
<1>18. ASSUME NEW a \in Actors, LoopDrop(a) PROVE Loop'
  <2>1. \A b \in Actors : b # a => pc[b] \notin {"loop", "io", "blocked"}
        BY <1>18 DEF LoopDrop, Loop, At
  <2>2. QED BY <1>18, <2>1 DEF LoopDrop, Loop, Transferring, At, actorVars
<1>19. ASSUME NEW a \in Actors, LoopTake(a) PROVE Loop'
  <2>1. \A b \in Actors : b # a => pc[b] \notin {"loop", "io", "blocked"}
        BY <1>19 DEF LoopTake, Loop, At
  <2>2. pc'[a] = "io" /\ cur'[a] = Head(operate_queue_) /\ operate_queue_ # << >>
        /\ ~timeout_flag_[Head(operate_queue_)] /\ operate_mutex_ = a
        BY <1>19 DEF LoopTake, TimedOut, Loop, At
  <2>3. UNCHANGED <<operate_queue_, operate_mutex_, timeout_flag_>> BY <1>19 DEF LoopTake
  <2>4. \A b \in Actors : b # a => pc'[b] = pc[b] BY <1>19 DEF LoopTake
  <2>5. QED BY <2>1, <2>2, <2>3, <2>4 DEF Loop, Transferring
<1>20. ASSUME NEW a \in Actors, Block(a) PROVE Loop'
      BY <1>20 DEF Block, Loop, Transferring, At
<1>21. ASSUME NEW a \in Actors, OperateNothing(a) PROVE Loop'
  <2>1. \A b \in Actors : b # a => pc[b] \notin {"loop", "io", "blocked"}
        BY <1>21 DEF OperateNothing, Loop, At, Transferring
  <2>2. QED BY <1>21, <2>1 DEF OperateNothing, Loop, Transferring, At
<1>22. ASSUME NEW a \in Actors, Operate(a) PROVE Loop'
  <2>1. \A b \in Actors : b # a => pc[b] \notin {"loop", "io", "blocked"}
        BY <1>22 DEF Operate, Loop, Transferring
  <2>2. /\ operate_mutex_ = a
        /\ pc' = [pc EXCEPT ![a] = "calls"]
           \/ (pc' = [pc EXCEPT ![a] = "loop"] /\ operate_mutex_' = operate_mutex_)
        BY <1>22 DEF Operate, Loop, Transferring
  <2>3. QED BY <2>1, <2>2 DEF Loop, Transferring
<1>23. ASSUME NEW a \in Actors, SetOperateable(a) PROVE Loop'
      BY <1>23, <1>0 DEF SetOperateable, At
<1>24. ASSUME NEW a \in Actors, CallFinished(a) PROVE Loop'
      BY <1>24, <1>0 DEF CallFinished, At
<1>25. ASSUME NEW a \in Actors, CheckRun(a) PROVE Loop'
      BY <1>25, <1>0 DEF CheckRun, After, At
<1>26. ASSUME NEW a \in Actors, EndAllOperate(a) PROVE Loop'
  <2>1. \A b \in Actors : pc[b] \notin {"loop", "io", "blocked"}
        BY <1>26 DEF EndAllOperate, Loop
  <2>2. QED BY <1>26, <2>1 DEF EndAllOperate, Loop, Transferring, At
<1>27. ASSUME NEW a \in Actors, EndDrop(a) PROVE Loop'
      BY <1>27, <1>0 DEF EndDrop, At
<1>28. ASSUME NEW a \in Actors, EndOne(a) PROVE Loop'
      BY <1>28, <1>0 DEF EndOne, At
<1>29. ASSUME NEW a \in Actors, EndCall(a) PROVE Loop'
      BY <1>29, <1>0 DEF EndCall, At
<1>30. ASSUME NEW a \in Actors, EndReturn(a) PROVE Loop'
      BY <1>30, <1>0 DEF EndReturn, After, At
<1>31. CASE UNCHANGED vars BY <1>31, <1>0 DEF vars
<1>32. QED
      BY <1>s, <1>1, <1>2, <1>3, <1>4, <1>5, <1>6, <1>7, <1>8, <1>9, <1>10, <1>11, <1>12, <1>13,
         <1>14, <1>15, <1>16, <1>17, <1>18, <1>19, <1>20, <1>21, <1>22, <1>23, <1>24, <1>25,
         <1>26, <1>27, <1>28, <1>29, <1>30, <1>31
         DEF Next, Await, Dispatch, TimerWorker, Kernel, Perform

------------------------------------------------------------------------------
(* Where an unfinished operation is *)

\* No step puts an operation in two places, and what leaves the queues to be
\* ended was not finished before.
LEMMA OnePlaceNext == Types /\ Loop /\ OnePlace /\ [Next]_vars => OnePlace'
<1> SUFFICES ASSUME Types, Loop, OnePlace, [Next]_vars PROVE OnePlace' OBVIOUS
<1>a. /\ pc \in [Actors -> Places] /\ cur \in [Actors -> Ops \cup {NoOp}]
      /\ todo \in [Actors -> SUBSET Ops] /\ finish_flag_ \in [Ops -> BOOLEAN]
      /\ ready_operate_queue_ \in Seq(Ops) /\ operate_queue_ \in Seq(Ops)
      /\ Clock \in Actors /\ Epoll \in Actors /\ Stopper \in Actors
      /\ Clock \notin Ops /\ Epoll \notin Ops /\ Stopper \notin Ops
      /\ \A o \in Ops : o \in Actors
      BY HelperAssumption DEF Types, TypeOK, Actors
<1> USE <1>a DEF Goto, At, queueVars, flagVars, dataVars, callVars, actorVars, kernelVars
\* Most steps leave the queues and the flags alone and take nothing to be ended.
<1>0. ASSUME UNCHANGED <<ready_operate_queue_, operate_queue_, finish_flag_>>,
             \A b \in Actors : /\ todo'[b] \subseteq todo[b]
                               /\ pc'[b] \in {"end", "end_call"} => pc[b] \in {"end", "end_call"}
                               /\ pc'[b] \in Empty => todo'[b] = {},
             \A o \in Ops : pc[o] # "idle" => pc'[o] # "idle"
      PROVE  OnePlace'
  <2>1. Queued' = Queued BY <1>0 DEF Queued
  <2>2. \A b \in Actors, o \in Ops : Ending(b, o)' => Ending(b, o) BY <1>0 DEF Ending
  <2>3. QED BY <1>0, <2>1, <2>2 DEF OnePlace
<1>1. ASSUME NEW o \in Ops, AwaitSuspend(o) PROVE OnePlace'
  <2>1. /\ ready_operate_queue_' = Append(ready_operate_queue_, o)
        /\ UNCHANGED <<operate_queue_, finish_flag_, todo>>
        /\ pc[o] = "idle" /\ pc' = [pc EXCEPT ![o] = "flag"]
        BY <1>1 DEF AwaitSuspend, QueuedBack
  <2>2. /\ o \notin Queued /\ ~finish_flag_[o]
        /\ \A a \in Actors : ~Ending(a, o)
        BY <2>1 DEF OnePlace
  <2>3. /\ Elems(ready_operate_queue_') = Elems(ready_operate_queue_) \cup {o}
        /\ NoDuplicates(ready_operate_queue_')
        BY <2>1, <2>2, AppendQueue DEF OnePlace, Queued
  <2>4. Queued' = Queued \cup {o} BY <2>1, <2>3 DEF Queued
  <2>5. \A a \in Actors, p \in Ops : Ending(a, p)' <=> Ending(a, p)
        BY <2>1 DEF Ending, OnePlace, Empty
  <2>6. \A p \in Ops : pc'[p] # "idle" <=> pc[p] # "idle" \/ p = o BY <2>1
  <2>7. QED BY <2>1, <2>2, <2>3, <2>4, <2>5, <2>6 DEF OnePlace, Empty, Queued
<1>2. ASSUME NEW o \in Ops, ReadFlag(o) PROVE OnePlace'
      BY <1>2, <1>0 DEF OnePlace, Empty, ReadFlag
<1>3. ASSUME NEW o \in Ops, ArmTimeout(o) PROVE OnePlace'
      BY <1>3, <1>0 DEF OnePlace, Empty, ArmTimeout, StartTask
<1>4. CASE EpollWait BY <1>4, <1>0 DEF OnePlace, Empty, EpollWait
<1>5. CASE PeekEnd BY <1>5, <1>0 DEF OnePlace, Empty, PeekEnd
<1>6. CASE OnOperate BY <1>6, <1>0 DEF OnePlace, Empty, OnOperate
<1>s. CASE Start BY <1>s, <1>0 DEF OnePlace, Empty, Start
<1>7. CASE CloseDescriptor BY <1>7, <1>0 DEF OnePlace, Empty, CloseDescriptor
<1>8. CASE Stop BY <1>8, <1>0 DEF OnePlace, Empty, Stop
<1>9. CASE Fire BY <1>9, <1>0 DEF OnePlace, Empty, Fire
<1>10. CASE OnTimeout BY <1>10, <1>0 DEF OnePlace, Empty, OnTimeout, Finished
<1>11. CASE ResumeTimedOut BY <1>11, <1>0 DEF OnePlace, Empty, ResumeTimedOut
<1>12. CASE Arrive BY <1>12, <1>0 DEF OnePlace, Empty, Arrive
<1>13. CASE PeerClose BY <1>13, <1>0 DEF OnePlace, Empty, PeerClose
<1>14. CASE OtherEvent BY <1>14, <1>0 DEF OnePlace, Empty, OtherEvent
<1>15. ASSUME NEW a \in Actors, DoOperate(a) PROVE OnePlace'
      BY <1>15, <1>0 DEF OnePlace, Empty, DoOperate
<1>16. ASSUME NEW a \in Actors, LockOperate(a) PROVE OnePlace'
  <2>1. /\ operate_queue_' = operate_queue_ \o ready_operate_queue_ /\ ready_operate_queue_' = << >>
        /\ UNCHANGED <<finish_flag_, todo>>
        /\ pc[a] = "lock" /\ pc' = [pc EXCEPT ![a] = "loop"]
        BY <1>16 DEF LockOperate
  <2>2. /\ Elems(operate_queue_') = Queued /\ NoDuplicates(operate_queue_')
        /\ Elems(ready_operate_queue_') = {} /\ NoDuplicates(ready_operate_queue_')
        BY <2>1, SpliceQueue, EmptyQueue DEF OnePlace, Queued
  <2>3. Queued' = Queued BY <2>2 DEF Queued
  <2>4. \A b \in Actors, p \in Ops : Ending(b, p)' <=> Ending(b, p) BY <2>1 DEF Ending
  <2>5. QED BY <2>1, <2>2, <2>3, <2>4 DEF OnePlace, Empty
<1>17. ASSUME NEW a \in Actors, LoopEmpty(a) PROVE OnePlace'
      BY <1>17, <1>0 DEF OnePlace, Empty, LoopEmpty
<1>18. ASSUME NEW a \in Actors, LoopDrop(a) PROVE OnePlace'
  <2>1. /\ operate_queue_' = Tail(operate_queue_) /\ operate_queue_ # << >>
        /\ UNCHANGED <<ready_operate_queue_, finish_flag_, todo, pc>>
        BY <1>18 DEF LoopDrop
  <2>2. Elems(operate_queue_') \subseteq Elems(operate_queue_) /\ NoDuplicates(operate_queue_')
        BY <2>1, TailQueue DEF OnePlace
  <2>3. Queued' \subseteq Queued BY <2>1, <2>2 DEF Queued
  <2>4. QED BY <2>1, <2>2, <2>3 DEF OnePlace, Ending
<1>19. ASSUME NEW a \in Actors, LoopTake(a) PROVE OnePlace'
      BY <1>19, <1>0 DEF OnePlace, Empty, LoopTake, TimedOut
<1>20. ASSUME NEW a \in Actors, Block(a) PROVE OnePlace'
      BY <1>20, <1>0 DEF OnePlace, Empty, Block
<1>21. ASSUME NEW a \in Actors, OperateNothing(a) PROVE OnePlace'
      BY <1>21, <1>0 DEF OnePlace, Empty, OperateNothing, Transferring
<1>22. ASSUME NEW a \in Actors, Operate(a) PROVE OnePlace'
  <2> DEFINE o == cur[a]
  <2>1. /\ operate_queue_' = Tail(operate_queue_) /\ UNCHANGED ready_operate_queue_
        /\ finish_flag_' = [finish_flag_ EXCEPT ![o] = TRUE]
        /\ todo' = [todo EXCEPT ![a] = @ \cup {o}]
        /\ pc[a] \in {"io", "blocked"}
        /\ pc' = [pc EXCEPT ![a] = "calls"] \/ pc' = [pc EXCEPT ![a] = "loop"]
        BY <1>22 DEF Operate, Transferring
  <2>2. operate_queue_ # << >> /\ o = Head(operate_queue_)
        BY <2>1 DEF Loop, Transferring
  <2> HIDE DEF o
  <2>3. /\ o \in Ops /\ o \in Elems(operate_queue_)
        /\ Elems(operate_queue_') = Elems(operate_queue_) \ {o} /\ NoDuplicates(operate_queue_')
        BY <2>1, <2>2, TailQueue DEF OnePlace
  <2>4. o \in Queued /\ Queued' = Queued \ {o} BY <2>1, <2>3 DEF OnePlace, Queued
  <2>5. \A b \in Actors, p \in Ops : Ending(b, p)' <=> Ending(b, p) BY <2>1 DEF Ending
  <2>6. \A p \in Ops : finish_flag_'[p] <=> finish_flag_[p] \/ p = o BY <2>1, <2>3
  <2>7. \A p \in Ops : pc[p] # "idle" => pc'[p] # "idle" BY <2>1
  <2>8. \A b \in Actors : pc'[b] \in Empty => todo'[b] = {} BY <2>1 DEF OnePlace, Empty
  <2>9. /\ Elems(ready_operate_queue_') \cap Elems(operate_queue_') = {}
        /\ NoDuplicates(ready_operate_queue_')
        BY <2>1, <2>3 DEF OnePlace
  <2>10. QED BY <2>3, <2>4, <2>5, <2>6, <2>7, <2>8, <2>9 DEF OnePlace
<1>23. ASSUME NEW a \in Actors, SetOperateable(a) PROVE OnePlace'
      BY <1>23, <1>0 DEF OnePlace, Empty, SetOperateable
<1>24. ASSUME NEW a \in Actors, CallFinished(a) PROVE OnePlace'
  <2>1. /\ UNCHANGED <<ready_operate_queue_, operate_queue_, finish_flag_, pc>>
        /\ \A b \in Actors : todo'[b] \subseteq todo[b]
        BY <1>24 DEF CallFinished
  <2>2. QED BY <2>1, <1>0 DEF OnePlace
<1>25. ASSUME NEW a \in Actors, CheckRun(a) PROVE OnePlace'
      BY <1>25, <1>0 DEF OnePlace, Empty, CheckRun, After
<1>26. ASSUME NEW a \in Actors, EndAllOperate(a) PROVE OnePlace'
  <2>1. /\ operate_queue_' = << >> /\ ready_operate_queue_' = << >>
        /\ UNCHANGED finish_flag_
        /\ todo' = [todo EXCEPT ![a] = Queued]
        /\ pc[a] = "end_lock" /\ pc' = [pc EXCEPT ![a] = "end"]
        BY <1>26 DEF EndAllOperate, Swapped, Queued
  <2>2. /\ Elems(operate_queue_') = {} /\ NoDuplicates(operate_queue_')
        /\ Elems(ready_operate_queue_') = {} /\ NoDuplicates(ready_operate_queue_')
        BY <2>1, EmptyQueue
  <2>3. Queued' = {} BY <2>2 DEF Queued
  <2>4. \A b \in Actors, p \in Ops : Ending(b, p)' <=> Ending(b, p) \/ (b = a /\ p \in Queued)
        BY <2>1 DEF Ending
  <2>5. \A b \in Actors : pc'[b] \in Empty => todo'[b] = {} BY <2>1 DEF OnePlace, Empty
  <2>6. \A p \in Ops : pc[p] # "idle" => pc'[p] # "idle" BY <2>1
  <2>7. QED BY <2>1, <2>2, <2>3, <2>4, <2>5, <2>6 DEF OnePlace
<1>27. ASSUME NEW a \in Actors, EndDrop(a) PROVE OnePlace'
  <2>1. /\ UNCHANGED <<ready_operate_queue_, operate_queue_, finish_flag_, pc>>
        /\ \A b \in Actors : todo'[b] \subseteq todo[b]
        BY <1>27 DEF EndDrop
  <2>2. QED BY <2>1, <1>0 DEF OnePlace
<1>28. ASSUME NEW a \in Actors, EndOne(a) PROVE OnePlace'
  <2>1. PICK o \in todo[a] :
           /\ todo' = [todo EXCEPT ![a] = @ \ {o}]
           /\ finish_flag_' = [finish_flag_ EXCEPT ![o] = TRUE]
        BY <1>28 DEF EndOne
  <2>2. /\ UNCHANGED <<ready_operate_queue_, operate_queue_>>
        /\ pc[a] = "end" /\ pc' = [pc EXCEPT ![a] = "end_call"]
        BY <1>28 DEF EndOne
  <2>3. o \in Ops /\ Ending(a, o) BY <2>2 DEF Ending
  <2>4. \A b \in Actors, p \in Ops : Ending(b, p)' <=> Ending(b, p) /\ p # o
        BY <2>1, <2>2, <2>3 DEF Ending, OnePlace
  <2>5. \A p \in Ops : finish_flag_'[p] <=> finish_flag_[p] \/ p = o BY <2>1, <2>3
  <2>6. \A b \in Actors : pc'[b] \in Empty => todo'[b] = {} BY <2>1, <2>2 DEF OnePlace, Empty
  <2>7. \A p \in Ops : pc[p] # "idle" => pc'[p] # "idle" BY <2>2
  <2>8. Queued' = Queued BY <2>2 DEF Queued
  <2>9. QED BY <2>2, <2>3, <2>4, <2>5, <2>6, <2>7, <2>8 DEF OnePlace
<1>29. ASSUME NEW a \in Actors, EndCall(a) PROVE OnePlace'
      BY <1>29, <1>0 DEF OnePlace, Empty, EndCall
<1>30. ASSUME NEW a \in Actors, EndReturn(a) PROVE OnePlace'
      BY <1>30, <1>0 DEF OnePlace, Empty, EndReturn, After
<1>31. CASE UNCHANGED vars BY <1>31, <1>0 DEF OnePlace, vars
<1>32. QED
      BY <1>s, <1>1, <1>2, <1>3, <1>4, <1>5, <1>6, <1>7, <1>8, <1>9, <1>10, <1>11, <1>12, <1>13,
         <1>14, <1>15, <1>16, <1>17, <1>18, <1>19, <1>20, <1>21, <1>22, <1>23, <1>24, <1>25,
         <1>26, <1>27, <1>28, <1>29, <1>30, <1>31
         DEF Next, Await, Dispatch, TimerWorker, Kernel, Perform

------------------------------------------------------------------------------
(* Answers *)

\* No step answers an operation twice or forgets one that it has finished.
LEMMA AnsweringNext == Types /\ Loop /\ OnePlace /\ Answering /\ Timing /\ [Next]_vars => Answering'
<1> SUFFICES ASSUME Types, Loop, OnePlace, Answering, Timing, [Next]_vars PROVE Answering' OBVIOUS
<1>a. /\ pc \in [Actors -> Places] /\ cur \in [Actors -> Ops \cup {NoOp}]
      /\ todo \in [Actors -> SUBSET Ops]
      /\ finish_flag_ \in [Ops -> BOOLEAN] /\ timeout_flag_ \in [Ops -> BOOLEAN]
      /\ resumed \in [Ops -> Nat] /\ state \in [Ops -> States]
      /\ DOMAIN len = Ops
      /\ Clock \in Actors /\ Epoll \in Actors /\ Stopper \in Actors
      /\ Clock \notin Ops /\ Epoll \notin Ops /\ Stopper \notin Ops
      /\ \A o \in Ops : o \in Actors
      BY HelperAssumption DEF Types, TypeOK, Actors
<1> USE <1>a DEF Goto, At, queueVars, flagVars, dataVars, callVars, actorVars, kernelVars
\* Most steps change no answer, and nobody's obligation to call.
<1>0. ASSUME UNCHANGED <<finish_flag_, timeout_flag_, resumed, len, state>>,
             \A b \in Actors, o \in Ops : Calling(b, o)' <=> Calling(b, o)
      PROVE  Answering'
      BY <1>0 DEF Answering
<1>1. ASSUME NEW o \in Ops, AwaitSuspend(o) PROVE Answering'
      BY <1>1, <1>0 DEF AwaitSuspend, Calling, QueuedBack
<1>2. ASSUME NEW o \in Ops, ReadFlag(o) PROVE Answering'
      BY <1>2, <1>0 DEF ReadFlag, Calling
<1>3. ASSUME NEW o \in Ops, ArmTimeout(o) PROVE Answering'
      BY <1>3, <1>0 DEF ArmTimeout, Calling, StartTask
<1>4. CASE EpollWait
      BY <1>4, <1>0 DEF EpollWait, Calling
<1>5. CASE PeekEnd
      BY <1>5, <1>0 DEF PeekEnd, Calling
<1>6. CASE OnOperate
      BY <1>6, <1>0 DEF OnOperate, Calling
<1>s. CASE Start
      BY <1>s, <1>0 DEF Start, Calling
<1>7. CASE CloseDescriptor
      BY <1>7, <1>0 DEF CloseDescriptor, Calling
<1>8. CASE Stop
      BY <1>8, <1>0 DEF Stop, Calling
<1>9. CASE Fire
      BY <1>9, <1>0 DEF Fire, Calling
<1>10. CASE OnTimeout
  <2> DEFINE o == cur[Clock]
  <2>1. /\ pc[Clock] = "timeout" /\ UNCHANGED <<finish_flag_, resumed, len, todo>>
        /\ pc' = [pc EXCEPT ![Clock] = "idle"] \/ pc' = [pc EXCEPT ![Clock] = "timeout_resume"]
        /\ \A b \in Actors : b # Clock => cur'[b] = cur[b]
        BY <1>10 DEF OnTimeout
  <2>2. \A b \in Actors, p \in Ops : Calling(b, p)' <=> Calling(b, p)
        BY <2>1 DEF Calling
  <2>3. CASE finish_flag_[o]
    <3>1. UNCHANGED <<timeout_flag_, state>> BY <1>10, <2>3 DEF OnTimeout, Finished
    <3>2. QED BY <1>0, <2>1, <2>2, <3>1
  <2>4. CASE ~finish_flag_[o]
    <3>1. /\ timeout_flag_' = [timeout_flag_ EXCEPT ![o] = TRUE]
          /\ state' = [state EXCEPT ![o] = "CRS_TIMEOUT"]
          BY <1>10, <2>4 DEF OnTimeout, Finished
    <3>2. o \in Ops BY <2>1 DEF Types, Control
    <3> HIDE DEF o
    <3>3. len[o] = 0 BY <2>4, <3>2 DEF Answering
    <3>4. \A p \in Ops : p # o => timeout_flag_'[p] = timeout_flag_[p] /\ state'[p] = state[p]
          BY <3>1
    <3>5. timeout_flag_'[o] BY <3>1, <3>2
    <3>6. QED BY <2>1, <2>2, <2>4, <3>2, <3>3, <3>4, <3>5 DEF Answering
  <2>5. QED BY <2>3, <2>4
<1>11. CASE ResumeTimedOut
  <2> DEFINE o == cur[Clock]
  <2>1. /\ resumed' = [resumed EXCEPT ![o] = @ + 1]
        /\ cur' = [cur EXCEPT ![Clock] = NoOp]
        /\ pc[Clock] = "timeout_resume" /\ pc' = [pc EXCEPT ![Clock] = "idle"]
        /\ UNCHANGED <<finish_flag_, timeout_flag_, len, state, todo>>
        BY <1>11 DEF ResumeTimedOut
  <2>2. o \in Ops BY <2>1 DEF Types, Control
  <2>3. timeout_flag_[o] /\ resumed[o] = 0 BY <2>1, <2>2 DEF Timing
  <2> HIDE DEF o
  <2>4. ~finish_flag_[o] /\ \A b \in Actors : ~Calling(b, o) BY <2>2, <2>3 DEF Answering
  <2>5. \A b \in Actors, p \in Ops : Calling(b, p)' <=> Calling(b, p) BY <2>1 DEF Calling
  <2>6. resumed'[o] = 1 /\ \A p \in Ops : p # o => resumed'[p] = resumed[p] BY <2>1, <2>2, <2>3
  <2>7. QED BY <2>1, <2>2, <2>3, <2>4, <2>5, <2>6 DEF Answering
<1>12. CASE Arrive
      BY <1>12, <1>0 DEF Arrive, Calling
<1>13. CASE PeerClose
      BY <1>13, <1>0 DEF PeerClose, Calling
<1>14. CASE OtherEvent
      BY <1>14, <1>0 DEF OtherEvent, Calling
<1>15. ASSUME NEW a \in Actors, DoOperate(a) PROVE Answering'
      BY <1>15, <1>0 DEF DoOperate, Calling
<1>16. ASSUME NEW a \in Actors, LockOperate(a) PROVE Answering'
      BY <1>16, <1>0 DEF LockOperate, Calling
<1>17. ASSUME NEW a \in Actors, LoopEmpty(a) PROVE Answering'
      BY <1>17, <1>0 DEF LoopEmpty, Calling
<1>18. ASSUME NEW a \in Actors, LoopDrop(a) PROVE Answering'
      BY <1>18, <1>0 DEF LoopDrop, Calling, TimedOut
<1>19. ASSUME NEW a \in Actors, LoopTake(a) PROVE Answering'
      BY <1>19, <1>0 DEF LoopTake, Calling, TimedOut
<1>20. ASSUME NEW a \in Actors, Block(a) PROVE Answering'
      BY <1>20, <1>0 DEF Block, Calling
<1>21. ASSUME NEW a \in Actors, OperateNothing(a) PROVE Answering'
      BY <1>21, <1>0 DEF OperateNothing, Calling, Transferring
<1>22. ASSUME NEW a \in Actors, Operate(a) PROVE Answering'
  <2> DEFINE o == cur[a]
  <2>1. PICK n : /\ n # 0
                 /\ len' = [len EXCEPT ![o] = n]
                 /\ finish_flag_' = [finish_flag_ EXCEPT ![o] = TRUE]
                 /\ state' = [state EXCEPT ![o] = "CRS_SUCCESS"]
                 /\ todo' = [todo EXCEPT ![a] = @ \cup {o}]
                 /\ cur' = [cur EXCEPT ![a] = NoOp]
                 /\ pc' = [pc EXCEPT ![a] = "calls"] \/ pc' = [pc EXCEPT ![a] = "loop"]
        BY <1>22 DEF Operate
  <2>2. /\ UNCHANGED <<timeout_flag_, resumed>>
        /\ pc[a] \in {"io", "blocked"}
        BY <1>22 DEF Operate, Transferring
  <2>3. /\ operate_queue_ # << >> /\ o = Head(operate_queue_) /\ ~timeout_flag_[o]
        BY <2>2 DEF Loop, Transferring
  <2> HIDE DEF o
  <2>4. o \in Ops /\ o \in Queued
    <3>1. operate_queue_ \in Seq(Ops) BY DEF Types, TypeOK
    <3>2. o \in Ops /\ o \in Elems(operate_queue_) BY <2>3, <3>1, TailQueue
    <3>3. QED BY <3>2 DEF Queued
  <2>5. ~finish_flag_[o] /\ resumed[o] = 0 /\ \A b \in Actors : ~Calling(b, o)
        BY <2>3, <2>4 DEF OnePlace, Answering
  <2>6. \A b \in Actors, p \in Ops : Calling(b, p)' <=> Calling(b, p) \/ (b = a /\ p = o)
        BY <2>1, <2>2, <2>4 DEF Calling
  <2>7. \A p \in Ops : p # o => /\ finish_flag_'[p] = finish_flag_[p] /\ state'[p] = state[p]
                                /\ len'[p] = len[p]
        BY <2>1
  <2>8. finish_flag_'[o] /\ state'[o] = "CRS_SUCCESS" BY <2>1, <2>4
  <2>9. QED BY <2>2, <2>3, <2>4, <2>5, <2>6, <2>7, <2>8 DEF Answering
<1>23. ASSUME NEW a \in Actors, SetOperateable(a) PROVE Answering'
      BY <1>23, <1>0 DEF SetOperateable, Calling
<1>24. ASSUME NEW a \in Actors, CallFinished(a) PROVE Answering'
  <2>1. PICK o \in todo[a] : /\ resumed' = [resumed EXCEPT ![o] = @ + 1]
                             /\ todo' = [todo EXCEPT ![a] = @ \ {o}]
        BY <1>24 DEF CallFinished, IoCallback
  <2>2. pc[a] = "calls" /\ UNCHANGED <<finish_flag_, timeout_flag_, len, state, pc, cur>>
        BY <1>24 DEF CallFinished
  <2>3. o \in Ops /\ Calling(a, o) BY <2>2 DEF Calling
  <2>4. finish_flag_[o] /\ resumed[o] = 0 /\ \A b \in Actors : Calling(b, o) => b = a
        BY <2>3 DEF Answering
  <2>5. \A b \in Actors, p \in Ops : Calling(b, p)' <=> Calling(b, p) /\ p # o
        BY <2>1, <2>2, <2>3, <2>4 DEF Calling
  <2>6. resumed'[o] = 1 /\ \A p \in Ops : p # o => resumed'[p] = resumed[p] BY <2>1, <2>3, <2>4
  <2>7. QED BY <2>2, <2>3, <2>4, <2>5, <2>6 DEF Answering
<1>25. ASSUME NEW a \in Actors, CheckRun(a) PROVE Answering'
      BY <1>25, <1>0 DEF CheckRun, Calling, After
<1>26. ASSUME NEW a \in Actors, EndAllOperate(a) PROVE Answering'
      BY <1>26, <1>0 DEF EndAllOperate, Calling, OnePlace, Empty
<1>27. ASSUME NEW a \in Actors, EndDrop(a) PROVE Answering'
      BY <1>27, <1>0 DEF EndDrop, Calling, TimedOut
<1>28. ASSUME NEW a \in Actors, EndOne(a) PROVE Answering'
  <2>1. PICK o \in todo[a] :
           /\ ~timeout_flag_[o]
           /\ todo' = [todo EXCEPT ![a] = @ \ {o}]
           /\ finish_flag_' = [finish_flag_ EXCEPT ![o] = TRUE]
           /\ state' = [state EXCEPT ![o] = "CRS_CHANNEL_DISCONNECTED"]
           /\ cur' = [cur EXCEPT ![a] = o]
        BY <1>28 DEF EndOne, TimedOut
  <2>2. /\ UNCHANGED <<timeout_flag_, resumed, len>>
        /\ pc[a] = "end" /\ pc' = [pc EXCEPT ![a] = "end_call"]
        BY <1>28 DEF EndOne
  <2>3. o \in Ops /\ Ending(a, o) BY <2>2 DEF Ending
  <2>4. ~finish_flag_[o] /\ resumed[o] = 0 /\ len[o] = 0 /\ \A b \in Actors : ~Calling(b, o)
        BY <2>1, <2>3 DEF OnePlace, Answering
  <2>5. \A b \in Actors, p \in Ops : Calling(b, p)' <=> Calling(b, p) \/ (b = a /\ p = o)
        BY <2>1, <2>2, <2>3 DEF Calling
  <2>6. \A p \in Ops : p # o => finish_flag_'[p] = finish_flag_[p] /\ state'[p] = state[p]
        BY <2>1
  <2>7. finish_flag_'[o] BY <2>1, <2>3
  <2>8. QED BY <2>1, <2>2, <2>3, <2>4, <2>5, <2>6, <2>7 DEF Answering
<1>29. ASSUME NEW a \in Actors, EndCall(a) PROVE Answering'
  <2> DEFINE o == cur[a]
  <2>1. /\ resumed' = [resumed EXCEPT ![o] = @ + 1]
        /\ cur' = [cur EXCEPT ![a] = NoOp]
        /\ pc[a] = "end_call" /\ pc' = [pc EXCEPT ![a] = "end"]
        /\ UNCHANGED <<finish_flag_, timeout_flag_, len, state, todo>>
        BY <1>29 DEF EndCall, IoCallback
  <2>2. o \in Ops /\ Calling(a, o) BY <2>1 DEF Calling, Types, Control
  <2>3. \A p \in Ops : Calling(a, p) => p = o BY <2>1 DEF Calling
  <2> HIDE DEF o
  <2>4. finish_flag_[o] /\ resumed[o] = 0 /\ \A b \in Actors : Calling(b, o) => b = a
        BY <2>2 DEF Answering
  <2>5. \A b \in Actors, p \in Ops : Calling(b, p)' <=> Calling(b, p) /\ b # a
        BY <2>1 DEF Calling
  <2>6. resumed'[o] = 1 /\ \A p \in Ops : p # o => resumed'[p] = resumed[p] BY <2>1, <2>2, <2>4
  <2>7. QED BY <2>1, <2>2, <2>3, <2>4, <2>5, <2>6 DEF Answering
<1>30. ASSUME NEW a \in Actors, EndReturn(a) PROVE Answering'
      BY <1>30, <1>0 DEF EndReturn, Calling, After
<1>31. CASE UNCHANGED vars BY <1>31, <1>0 DEF vars, Calling
<1>32. QED
      BY <1>s, <1>1, <1>2, <1>3, <1>4, <1>5, <1>6, <1>7, <1>8, <1>9, <1>10, <1>11, <1>12, <1>13,
         <1>14, <1>15, <1>16, <1>17, <1>18, <1>19, <1>20, <1>21, <1>22, <1>23, <1>24, <1>25,
         <1>26, <1>27, <1>28, <1>29, <1>30, <1>31
         DEF Next, Await, Dispatch, TimerWorker, Kernel, Perform

------------------------------------------------------------------------------
(* Timeouts *)

\* The timeout's function runs once for every operation, and answers the
\* operation if nobody else does.
LEMMA TimingNext == Types /\ Loop /\ OnePlace /\ Answering /\ Timing /\ [Next]_vars => Timing'
<1> SUFFICES ASSUME Types, Loop, OnePlace, Answering, Timing, [Next]_vars PROVE Timing' OBVIOUS
<1>a. /\ pc \in [Actors -> Places] /\ cur \in [Actors -> Ops \cup {NoOp}]
      /\ todo \in [Actors -> SUBSET Ops]
      /\ finish_flag_ \in [Ops -> BOOLEAN] /\ timeout_flag_ \in [Ops -> BOOLEAN]
      /\ resumed \in [Ops -> Nat]
      /\ timer \in [Ops -> {"idle", "timed", "stopped", "fired"}]
      /\ pc[Clock] \in {"idle", "timeout", "timeout_resume"}
      /\ Clock \in Actors /\ Epoll \in Actors /\ Stopper \in Actors
      /\ Clock \notin Ops /\ Epoll \notin Ops /\ Stopper \notin Ops
      /\ Epoll # Clock /\ Stopper # Clock
      /\ \A o \in Ops : o \in Actors /\ o # Clock
      BY HelperAssumption DEF Types, TypeOK, Control, Actors
<1> USE <1>a DEF Goto, At, queueVars, flagVars, dataVars, callVars, actorVars, kernelVars
\* Most steps neither touch the timer nor answer an operation.
<1>0. ASSUME UNCHANGED <<timer, timeout_flag_, resumed>>,
             pc'[Clock] = pc[Clock], cur'[Clock] = cur[Clock],
             \A o \in Ops : /\ finish_flag_[o] => finish_flag_'[o]
                            /\ pc'[o] = "suspended" <=> pc[o] = "suspended"
      PROVE  Timing'
      BY <1>0 DEF Timing
<1>1. ASSUME NEW o \in Ops, AwaitSuspend(o) PROVE Timing'
      BY <1>1, <1>0 DEF AwaitSuspend, QueuedBack
<1>2. ASSUME NEW o \in Ops, ReadFlag(o) PROVE Timing'
      BY <1>2, <1>0 DEF ReadFlag
<1>3. ASSUME NEW o \in Ops, ArmTimeout(o) PROVE Timing'
  <2>1. /\ timer' = [timer EXCEPT ![o] = "timed"]
        /\ pc[o] = "start" /\ pc' = [pc EXCEPT ![o] = "suspended"]
        /\ UNCHANGED <<timeout_flag_, finish_flag_, resumed, cur>>
        BY <1>3 DEF ArmTimeout, StartTask
  <2>2. timer[o] = "idle" BY <2>1 DEF Timing
  <2>3. \A p \in Ops : p # o => timer'[p] = timer[p] /\ pc'[p] = pc[p] BY <2>1
  <2>4. timer'[o] = "timed" /\ pc'[o] = "suspended" /\ pc'[Clock] = pc[Clock] BY <2>1
  <2>5. QED BY <2>1, <2>2, <2>3, <2>4 DEF Timing
<1>4. CASE EpollWait
      BY <1>4, <1>0 DEF EpollWait
<1>5. CASE PeekEnd
      BY <1>5, <1>0 DEF PeekEnd
<1>6. CASE OnOperate
      BY <1>6, <1>0 DEF OnOperate
<1>s. CASE Start
      BY <1>s, <1>0 DEF Start
<1>7. CASE CloseDescriptor
      BY <1>7, <1>0 DEF CloseDescriptor
<1>8. CASE Stop
      BY <1>8, <1>0 DEF Stop
<1>9. CASE Fire
  <2>1. PICK o \in Ops : /\ timer[o] \in {"timed", "stopped"}
                         /\ timer' = [timer EXCEPT ![o] = "fired"]
                         /\ cur' = [cur EXCEPT ![Clock] = o]
        BY <1>9 DEF Fire
  <2>2. /\ pc[Clock] = "idle" /\ pc' = [pc EXCEPT ![Clock] = "timeout"]
        /\ UNCHANGED <<timeout_flag_, finish_flag_, resumed>>
        BY <1>9 DEF Fire
  <2>3. /\ timer'[o] = "fired" /\ \A p \in Ops : p # o => timer'[p] = timer[p]
        /\ pc'[Clock] = "timeout" /\ cur'[Clock] = o
        /\ \A p \in Ops : pc'[p] = pc[p]
        BY <2>1, <2>2
  <2>4. ~timeout_flag_[o] /\ pc[o] = "suspended" BY <2>1 DEF Timing
  <2>5. QED BY <2>2, <2>3, <2>4 DEF Timing
<1>10. CASE OnTimeout
  <2> DEFINE o == cur[Clock]
  <2>1. /\ pc[Clock] = "timeout" /\ UNCHANGED <<finish_flag_, resumed, timer>>
        BY <1>10 DEF OnTimeout
  <2>2. o \in Ops BY <2>1 DEF Types, Control
  <2>3. timer[o] = "fired" /\ ~timeout_flag_[o] BY <2>1, <2>2 DEF Timing
  <2>4. CASE finish_flag_[o]
    <3>1. /\ UNCHANGED timeout_flag_ /\ pc' = [pc EXCEPT ![Clock] = "idle"]
          BY <1>10, <2>4 DEF OnTimeout, Finished
    <3> HIDE DEF o
    <3>2. pc'[Clock] = "idle" /\ \A p \in Ops : pc'[p] = pc[p] BY <3>1
    <3>3. \A p \in Ops : pc[Clock] = "timeout" /\ cur[Clock] = p => p = o BY DEF o
    <3>4. QED BY <2>1, <2>2, <2>3, <2>4, <3>1, <3>2, <3>3 DEF Timing
  <2>5. CASE ~finish_flag_[o]
    <3>1. /\ timeout_flag_' = [timeout_flag_ EXCEPT ![o] = TRUE]
          /\ pc' = [pc EXCEPT ![Clock] = "timeout_resume"] /\ cur' = cur
          BY <1>10, <2>5 DEF OnTimeout, Finished
    <3>2. cur[Clock] = o /\ cur'[Clock] = o BY <3>1
    <3> HIDE DEF o
    <3>3. /\ pc'[Clock] = "timeout_resume" /\ \A p \in Ops : pc'[p] = pc[p]
          /\ timeout_flag_'[o] /\ \A p \in Ops : p # o => timeout_flag_'[p] = timeout_flag_[p]
          BY <2>2, <3>1
    <3>4. resumed[o] = 0 BY <2>2, <2>3, <2>5 DEF Answering
    <3>5. QED BY <2>1, <2>2, <2>3, <2>5, <3>2, <3>3, <3>4 DEF Timing
  <2>6. QED BY <2>4, <2>5
<1>11. CASE ResumeTimedOut
  <2> DEFINE o == cur[Clock]
  <2>1. /\ resumed' = [resumed EXCEPT ![o] = @ + 1]
        /\ pc[Clock] = "timeout_resume" /\ pc' = [pc EXCEPT ![Clock] = "idle"]
        /\ UNCHANGED <<finish_flag_, timeout_flag_, timer>>
        BY <1>11 DEF ResumeTimedOut
  <2>2. o \in Ops BY <2>1 DEF Types, Control
  <2>3. cur[Clock] = o OBVIOUS
  <2> HIDE DEF o
  <2>4. /\ pc'[Clock] = "idle" /\ \A p \in Ops : pc'[p] = pc[p]
        /\ resumed'[o] # 0 /\ \A p \in Ops : p # o => resumed'[p] = resumed[p]
        BY <2>1, <2>2
  <2>5. QED BY <2>1, <2>2, <2>3, <2>4 DEF Timing
<1>12. CASE Arrive
      BY <1>12, <1>0 DEF Arrive
<1>13. CASE PeerClose
      BY <1>13, <1>0 DEF PeerClose
<1>14. CASE OtherEvent
      BY <1>14, <1>0 DEF OtherEvent
<1>15. ASSUME NEW a \in Actors, DoOperate(a) PROVE Timing'
      BY <1>15, <1>0 DEF DoOperate
<1>16. ASSUME NEW a \in Actors, LockOperate(a) PROVE Timing'
      BY <1>16, <1>0 DEF LockOperate
<1>17. ASSUME NEW a \in Actors, LoopEmpty(a) PROVE Timing'
      BY <1>17, <1>0 DEF LoopEmpty
<1>18. ASSUME NEW a \in Actors, LoopDrop(a) PROVE Timing'
      BY <1>18, <1>0 DEF LoopDrop, TimedOut
<1>19. ASSUME NEW a \in Actors, LoopTake(a) PROVE Timing'
      BY <1>19, <1>0 DEF LoopTake, TimedOut
<1>20. ASSUME NEW a \in Actors, Block(a) PROVE Timing'
      BY <1>20, <1>0 DEF Block
<1>21. ASSUME NEW a \in Actors, OperateNothing(a) PROVE Timing'
      BY <1>21, <1>0 DEF OperateNothing, Transferring
<1>22. ASSUME NEW a \in Actors, Operate(a) PROVE Timing'
  <2>1. /\ pc[a] \in {"io", "blocked"}
        /\ pc' = [pc EXCEPT ![a] = "calls"] \/ pc' = [pc EXCEPT ![a] = "loop"]
        /\ cur' = [cur EXCEPT ![a] = NoOp]
        /\ finish_flag_' = [finish_flag_ EXCEPT ![cur[a]] = TRUE]
        /\ UNCHANGED <<timer, timeout_flag_, resumed>>
        BY <1>22 DEF Operate, Transferring
  <2>2. \A o \in Ops : finish_flag_[o] => finish_flag_'[o] BY <2>1
  <2>3. QED BY <1>0, <2>1, <2>2
<1>23. ASSUME NEW a \in Actors, SetOperateable(a) PROVE Timing'
      BY <1>23, <1>0 DEF SetOperateable
<1>24. ASSUME NEW a \in Actors, CallFinished(a) PROVE Timing'
  <2>1. PICK o \in todo[a] : /\ resumed' = [resumed EXCEPT ![o] = @ + 1]
                             /\ timer' = StopTask(o)
        BY <1>24 DEF CallFinished, IoCallback
  <2>2. pc[a] = "calls" /\ UNCHANGED <<finish_flag_, timeout_flag_, pc, cur>>
        BY <1>24 DEF CallFinished
  <2>3. o \in Ops /\ Calling(a, o) BY <2>2 DEF Calling
  <2>4. finish_flag_[o] /\ ~timeout_flag_[o] BY <2>3 DEF Answering
  <2>5. \A p \in Ops : p # o => timer'[p] = timer[p] /\ resumed'[p] = resumed[p]
        BY <2>1 DEF StopTask
  <2>6. timer'[o] = timer[o] \/ (timer[o] = "timed" /\ timer'[o] = "stopped")
        BY <2>1, <2>3 DEF StopTask
  <2>7. QED BY <2>2, <2>3, <2>4, <2>5, <2>6 DEF Timing
<1>25. ASSUME NEW a \in Actors, CheckRun(a) PROVE Timing'
  <2>1. After(a) \in {"start", "idle", "done"} BY DEF After
  <2>2. QED BY <1>25, <1>0, <2>1 DEF CheckRun
<1>26. ASSUME NEW a \in Actors, EndAllOperate(a) PROVE Timing'
      BY <1>26, <1>0 DEF EndAllOperate
<1>27. ASSUME NEW a \in Actors, EndDrop(a) PROVE Timing'
      BY <1>27, <1>0 DEF EndDrop, TimedOut
<1>28. ASSUME NEW a \in Actors, EndOne(a) PROVE Timing'
  <2>1. PICK o \in todo[a] : /\ finish_flag_' = [finish_flag_ EXCEPT ![o] = TRUE]
                             /\ cur' = [cur EXCEPT ![a] = o]
        BY <1>28 DEF EndOne
  <2>2. /\ pc[a] = "end" /\ pc' = [pc EXCEPT ![a] = "end_call"]
        /\ UNCHANGED <<timer, timeout_flag_, resumed>>
        BY <1>28 DEF EndOne
  <2>3. QED BY <1>0, <2>1, <2>2
<1>29. ASSUME NEW a \in Actors, EndCall(a) PROVE Timing'
  <2> DEFINE o == cur[a]
  <2>1. /\ resumed' = [resumed EXCEPT ![o] = @ + 1] /\ timer' = StopTask(o)
        /\ cur' = [cur EXCEPT ![a] = NoOp]
        /\ pc[a] = "end_call" /\ pc' = [pc EXCEPT ![a] = "end"]
        /\ UNCHANGED <<finish_flag_, timeout_flag_>>
        BY <1>29 DEF EndCall, IoCallback
  <2>2. o \in Ops /\ Calling(a, o) BY <2>1 DEF Calling, Types, Control
  <2> HIDE DEF o
  <2>3. finish_flag_[o] /\ ~timeout_flag_[o] BY <2>2 DEF Answering
  <2>4. \A p \in Ops : p # o => timer'[p] = timer[p] /\ resumed'[p] = resumed[p]
        BY <2>1 DEF StopTask
  <2>5. timer'[o] = timer[o] \/ (timer[o] = "timed" /\ timer'[o] = "stopped")
        BY <2>1, <2>2 DEF StopTask
  <2>6. /\ pc'[Clock] = pc[Clock] /\ cur'[Clock] = cur[Clock]
        /\ \A p \in Ops : pc'[p] = "suspended" <=> pc[p] = "suspended"
        BY <2>1
  <2>7. QED BY <2>1, <2>2, <2>3, <2>4, <2>5, <2>6 DEF Timing
<1>30. ASSUME NEW a \in Actors, EndReturn(a) PROVE Timing'
  <2>1. After(a) \in {"start", "idle", "done"} BY DEF After
  <2>2. QED BY <1>30, <1>0, <2>1 DEF EndReturn
<1>31. CASE UNCHANGED vars BY <1>31, <1>0 DEF vars
<1>32. QED
      BY <1>s, <1>1, <1>2, <1>3, <1>4, <1>5, <1>6, <1>7, <1>8, <1>9, <1>10, <1>11, <1>12, <1>13,
         <1>14, <1>15, <1>16, <1>17, <1>18, <1>19, <1>20, <1>21, <1>22, <1>23, <1>24, <1>25,
         <1>26, <1>27, <1>28, <1>29, <1>30, <1>31
         DEF Next, Await, Dispatch, TimerWorker, Kernel, Perform

------------------------------------------------------------------------------
(* The invariant and what follows from it *)

\* The initial states satisfy the invariant.
LEMMA HelperInvInit == Init => HelperInv
<1> SUFFICES ASSUME Init PROVE HelperInv OBVIOUS
<1> USE HelperAssumption DEF Init
<1>1. Types BY TypesInit
<1>2. Loop BY DEF Loop, Transferring
<1>3. Queued = {} BY EmptyQueue DEF Queued
<1>4. OnePlace BY <1>3, EmptyQueue DEF OnePlace, Ending, Actors
<1>5. Answering BY DEF Answering, Calling
<1>6. Timing BY DEF Timing, Actors
<1>7. QED BY <1>1, <1>2, <1>4, <1>5, <1>6 DEF HelperInv

\* Every step keeps it.
LEMMA HelperInvNext == HelperInv /\ [Next]_vars => HelperInv'
BY TypesNext, LoopNext, OnePlaceNext, AnsweringNext, TimingNext DEF HelperInv

\* The inductive invariant holds in every reachable state.
THEOREM HelperInvariant == Spec => []HelperInv
BY HelperInvInit, HelperInvNext, PTL DEF Spec

\* The state of the helper, its operations and its threads has the types of
\* the program's variables; in particular a length is a size_t.
THEOREM HelperTypes == Spec => []TypeOK
<1>1. HelperInv => TypeOK BY DEF HelperInv, Types
<1>2. QED BY <1>1, HelperInvariant, PTL

\* Whatever threads complete operations, time them out and stop the helper, a
\* coroutine is resumed at most once, and no operation both finishes and times
\* out.
THEOREM HelperAnsweredOnce == Spec => []AnsweredOnce
<1>1. HelperInv => AnsweredOnce BY DEF HelperInv, Answering, AnsweredOnce
<1>2. QED BY <1>1, HelperInvariant, PTL

\* An awaiting coroutine that was not resumed is always owed its resumption by
\* somebody: a thread that has finished the operation, the timer's worker, or
\* the timer.
THEOREM HelperNobodyForgotten == Spec => []NobodyForgotten
<1>1. ASSUME HelperInv, NEW o \in Ops, resumed[o] = 0 PROVE Owed(o)
  <2>1. CASE finish_flag_[o]
    <3>1. PICK a \in Actors : Calling(a, o) BY <1>1, <2>1 DEF HelperInv, Answering
    <3>2. QED BY <2>1, <3>1 DEF Calling, Owed, At
  <2>2. CASE ~finish_flag_[o] /\ timeout_flag_[o]
        BY <1>1, <2>2 DEF HelperInv, Timing, Owed, At
  <2>3. CASE ~finish_flag_[o] /\ ~timeout_flag_[o]
    <3>1. timer[o] \in {"idle", "timed", "stopped", "fired"}
          BY <1>1 DEF HelperInv, Types, TypeOK
    <3>2. QED BY <1>1, <2>3, <3>1 DEF HelperInv, Timing, Owed, At
  <2>4. QED BY <2>1, <2>2, <2>3
<1>2. HelperInv => NobodyForgotten BY <1>1 DEF NobodyForgotten
<1>3. QED BY <1>2, HelperInvariant, PTL

\* read() and write() are only given the buffer of a coroutine that still waits.
THEOREM HelperNoUseOfDeadBuffer == Spec => []NoUseOfDeadBuffer
<1>1. ASSUME HelperInv, NEW a \in Actors, Transferring(a)
      PROVE  resumed[cur[a]] = 0 /\ ~timeout_flag_[cur[a]]
  <2>1. operate_queue_ # << >> /\ cur[a] = Head(operate_queue_) /\ ~timeout_flag_[cur[a]]
        BY <1>1 DEF HelperInv, Loop
  <2>2. operate_queue_ \in Seq(Ops) BY <1>1 DEF HelperInv, Types, TypeOK
  <2>3. cur[a] \in Ops /\ cur[a] \in Queued BY <2>1, <2>2, TailQueue DEF Queued
  <2>4. ~finish_flag_[cur[a]] BY <1>1, <2>3 DEF HelperInv, OnePlace
  <2>5. resumed[cur[a]] \in Nat BY <1>1, <2>3 DEF HelperInv, Types, TypeOK
  <2>6. QED BY <1>1, <2>1, <2>3, <2>4, <2>5 DEF HelperInv, Answering
<1>2. HelperInv => NoUseOfDeadBuffer BY <1>1 DEF NoUseOfDeadBuffer
<1>3. QED BY <1>2, HelperInvariant, PTL

\* An operation that took bytes off the descriptor is answered with success.
THEOREM HelperTakenIsDelivered == Spec => []TakenIsDelivered
<1>1. HelperInv => TakenIsDelivered
      BY DEF HelperInv, Answering, TakenIsDelivered
<1>2. QED BY <1>1, HelperInvariant, PTL

\* Once a coroutine was resumed no thread writes its result again: who still
\* writes has seen that it is neither finished nor timed out.
THEOREM HelperResultIsFinal == Spec => ResultIsFinal
<1> DEFINE Final == \A o \in Ops : resumed[o] > 0 => state'[o] = state[o] /\ len'[o] = len[o]
<1>1. ASSUME HelperInv, Next PROVE Final
  <2> SUFFICES ASSUME NEW o \in Ops, resumed[o] > 0
               PROVE  state'[o] = state[o] /\ len'[o] = len[o]
      OBVIOUS
  <2>1. finish_flag_[o] \/ timeout_flag_[o] BY <1>1 DEF HelperInv, Answering
  <2>2. ASSUME NEW a \in Actors, Operate(a) PROVE state'[o] = state[o] /\ len'[o] = len[o]
    <3>1. Transferring(a) BY <2>2 DEF Operate
    <3>2. operate_queue_ # << >> /\ cur[a] = Head(operate_queue_) /\ ~timeout_flag_[cur[a]]
          BY <1>1, <3>1 DEF HelperInv, Loop
    <3>3. operate_queue_ \in Seq(Ops) BY <1>1 DEF HelperInv, Types, TypeOK
    <3>4. cur[a] \in Ops /\ cur[a] \in Queued BY <3>2, <3>3, TailQueue DEF Queued
    <3>5. ~finish_flag_[cur[a]] BY <1>1, <3>4 DEF HelperInv, OnePlace
    <3>6. cur[a] # o BY <2>1, <3>2, <3>5
    <3>7. PICK n : /\ len' = [len EXCEPT ![cur[a]] = n]
                   /\ state' = [state EXCEPT ![cur[a]] = "CRS_SUCCESS"]
          BY <2>2 DEF Operate
    <3>8. QED BY <3>6, <3>7
  <2>3. ASSUME NEW a \in Actors, EndOne(a) PROVE state'[o] = state[o] /\ len'[o] = len[o]
    <3>1. PICK p \in todo[a] : /\ ~timeout_flag_[p]
                               /\ state' = [state EXCEPT ![p] = "CRS_CHANNEL_DISCONNECTED"]
          BY <2>3 DEF EndOne, TimedOut
    <3>2. p \in Ops BY <1>1, <3>1 DEF HelperInv, Types, TypeOK
    <3>3. Ending(a, p) /\ UNCHANGED len BY <2>3, <3>1 DEF EndOne, Ending, At
    <3>4. ~finish_flag_[p] BY <1>1, <3>2, <3>3 DEF HelperInv, OnePlace
    <3>5. p # o BY <2>1, <3>1, <3>4
    <3>6. QED BY <3>1, <3>3, <3>5
  <2>4. CASE OnTimeout
    <3>1. UNCHANGED len BY <2>4 DEF OnTimeout
    <3>2. CASE finish_flag_[cur[Clock]] BY <2>4, <3>1, <3>2 DEF OnTimeout, Finished
    <3>3. CASE ~finish_flag_[cur[Clock]]
      <4>1. state' = [state EXCEPT ![cur[Clock]] = "CRS_TIMEOUT"]
            BY <2>4, <3>3 DEF OnTimeout, Finished
      <4>2. cur[Clock] # o
            BY <1>1, <2>1, <2>4, <3>3 DEF HelperInv, Timing, OnTimeout, At
      <4>3. QED BY <3>1, <4>1, <4>2
    <3>4. QED BY <3>2, <3>3
  <2>5. CASE \E p \in Ops : AwaitSuspend(p) \/ Await(p)
        BY <2>5 DEF AwaitSuspend, Await, ReadFlag, ArmTimeout, dataVars
  <2>6. CASE Dispatch \/ Start \/ CloseDescriptor \/ Stop \/ Fire \/ ResumeTimedOut \/ Kernel
        BY <2>6 DEF Dispatch, EpollWait, PeekEnd, OnOperate, Start, CloseDescriptor, Stop, Fire,
           ResumeTimedOut, Kernel, Arrive, PeerClose, OtherEvent, dataVars
  <2>7. ASSUME NEW a \in Actors, Perform(a), ~Operate(a), ~EndOne(a)
        PROVE  state'[o] = state[o] /\ len'[o] = len[o]
        BY <2>7 DEF Perform, DoOperate, LockOperate, LoopEmpty, LoopDrop, LoopTake, Block,
           OperateNothing, SetOperateable, CallFinished, CheckRun, EndAllOperate, EndDrop,
           EndCall, EndReturn, dataVars
  <2>8. QED BY <1>1, <2>2, <2>3, <2>4, <2>5, <2>6, <2>7 DEF Next, TimerWorker
<1>2. HelperInv /\ [Next]_vars => [Final]_vars BY <1>1
<1>3. QED BY <1>2, HelperInvariant, PTL DEF Spec, ResultIsFinal

------------------------------------------------------------------------------
(* The order of the stream *)

\* A queue in which every operation was awaited before the next; f is turn.
Ascending(f, q) == \A i, j \in 1..Len(q) : i < j => f[q[i]] < f[q[j]]

\* The bytes o was given; -1 is no length.
Got(o) == len[o] \in 1..(MinusOne - 1)

\* The queues are in the order of the turns, and whoever got bytes was awaited
\* before what is still queued and got them before what is still available.
Order ==
    /\ Ascending(turn, operate_queue_) /\ Ascending(turn, ready_operate_queue_)
    /\ \A o \in Elems(operate_queue_), p \in Elems(ready_operate_queue_) : turn[o] < turn[p]
    /\ \A o \in Ops :
          /\ turn[o] <= Cardinality({p \in Ops : turn[p] > 0})
          /\ turn[o] > 0 => pc[o] # "idle"
          /\ Got(o) => /\ \A p \in Queued : turn[o] < turn[p]
                       /\ pos[o] + len[o] <= sent - available
    /\ InOrder

\* push_back of a later turn.
LEMMA AscendingAppend ==
    ASSUME NEW S, NEW f \in [S -> Nat], NEW q \in Seq(S), NEW e \in S,
           Ascending(f, q), \A x \in Elems(q) : f[x] < f[e]
    PROVE  Ascending(f, Append(q, e))
<1>1. /\ Len(Append(q, e)) = Len(q) + 1 /\ Len(q) \in Nat
      /\ \A i \in 1..Len(q) : Append(q, e)[i] = q[i]
      /\ Append(q, e)[Len(q) + 1] = e
      BY AppendProperties, LenProperties
<1>2. \A i \in 1..Len(q) : f[q[i]] < f[e] BY DEF Elems
<1>3. ASSUME NEW i \in 1..(Len(q) + 1), NEW j \in 1..(Len(q) + 1), i < j
      PROVE  f[Append(q, e)[i]] < f[Append(q, e)[j]]
  <2>1. i \in 1..Len(q) /\ Append(q, e)[i] = q[i] BY <1>1, <1>3
  <2>2. CASE j = Len(q) + 1 BY <1>1, <1>2, <2>1, <2>2
  <2>3. CASE j \in 1..Len(q) BY <1>1, <1>3, <2>1, <2>3 DEF Ascending
  <2>4. QED BY <1>1, <2>2, <2>3
<1>4. QED BY <1>1, <1>3 DEF Ascending

\* The first of a queue in order was awaited before the rest.
LEMMA AscendingTail ==
    ASSUME NEW S, NEW f \in [S -> Nat], NEW q \in Seq(S), q # << >>, Ascending(f, q)
    PROVE  /\ Ascending(f, Tail(q))
           /\ \A x \in Elems(Tail(q)) : f[Head(q)] < f[x]
<1>1. /\ Len(Tail(q)) = Len(q) - 1 /\ Len(q) \in Nat \ {0}
      /\ \A i \in 1..(Len(q) - 1) : Tail(q)[i] = q[i + 1]
      /\ Head(q) = q[1]
      BY HeadTailProperties, LenProperties, EmptySeq
<1>2. \A i \in 1..(Len(q) - 1) : i + 1 \in 1..Len(q) /\ 1 \in 1..Len(q) /\ 1 < i + 1
      BY <1>1
<1>3. \A i \in 1..(Len(q) - 1) : f[Head(q)] < f[Tail(q)[i]]
      BY <1>1, <1>2 DEF Ascending
<1>4. ASSUME NEW i \in 1..(Len(q) - 1), NEW j \in 1..(Len(q) - 1), i < j
      PROVE  f[Tail(q)[i]] < f[Tail(q)[j]]
  <2>1. i + 1 < j + 1 BY <1>4
  <2>2. QED BY <1>1, <1>2, <2>1 DEF Ascending
<1>5. QED BY <1>1, <1>3, <1>4 DEF Ascending, Elems

\* splice of what was awaited later.
LEMMA AscendingSplice ==
    ASSUME NEW S, NEW f \in [S -> Nat], NEW q \in Seq(S), NEW r \in Seq(S),
           Ascending(f, q), Ascending(f, r), \A x \in Elems(q), y \in Elems(r) : f[x] < f[y]
    PROVE  Ascending(f, q \o r)
<1> DEFINE s == q \o r
<1>1. /\ Len(s) = Len(q) + Len(r) /\ Len(q) \in Nat /\ Len(r) \in Nat
      /\ \A i \in 1..Len(q) : s[i] = q[i]
      /\ \A i \in 1..Len(r) : s[Len(q) + i] = r[i]
      BY ConcatProperties, LenProperties
<1> HIDE DEF s
<1>2. \A i \in 1..Len(q), j \in 1..Len(r) : f[q[i]] < f[r[j]] BY DEF Elems
<1>3. ASSUME NEW i \in 1..Len(s), i \notin 1..Len(q)
      PROVE  i - Len(q) \in 1..Len(r) /\ s[i] = r[i - Len(q)]
  <2>1. i - Len(q) \in 1..Len(r) /\ Len(q) + (i - Len(q)) = i BY <1>1, <1>3
  <2>2. QED BY <1>1, <2>1
<1>4. ASSUME NEW i \in 1..Len(s), NEW j \in 1..Len(s), i < j PROVE f[s[i]] < f[s[j]]
  <2>1. CASE j \in 1..Len(q)
    <3>1. i \in 1..Len(q) BY <1>1, <1>4, <2>1
    <3>2. QED BY <1>1, <1>4, <2>1, <3>1 DEF Ascending
  <2>2. CASE i \in 1..Len(q) /\ j \notin 1..Len(q) BY <1>1, <1>2, <1>3, <2>2
  <2>3. CASE i \notin 1..Len(q)
    <3>1. j \notin 1..Len(q) BY <1>1, <1>4, <2>3
    <3>2. i - Len(q) < j - Len(q) BY <1>1, <1>4
    <3>3. QED BY <1>1, <1>3, <2>3, <3>1, <3>2 DEF Ascending
  <2>4. QED BY <2>1, <2>2, <2>3
<1>5. QED BY <1>4 DEF Ascending, s

\* Nothing gets ahead of what was awaited before it.
LEMMA OrderNext == HelperInv /\ Order /\ [Next]_vars => Order'
<1> SUFFICES ASSUME HelperInv, Order, [Next]_vars PROVE Order' OBVIOUS
<1>a. /\ pc \in [Actors -> Places] /\ cur \in [Actors -> Ops \cup {NoOp}]
      /\ ready_operate_queue_ \in Seq(Ops) /\ operate_queue_ \in Seq(Ops)
      /\ turn \in [Ops -> Nat] /\ len \in [Ops -> 0..(SizeModulus - 1)] /\ pos \in [Ops -> Nat]
      /\ available \in Nat /\ sent \in Nat /\ available <= sent
      /\ SizeModulus \in Nat /\ IsFiniteSet(Ops)
      /\ Clock \in Actors /\ Epoll \in Actors /\ Stopper \in Actors
      /\ Clock \notin Ops /\ Epoll \notin Ops /\ Stopper \notin Ops
      /\ \A o \in Ops : o \in Actors
      BY HelperAssumption DEF HelperInv, Types, TypeOK, Control, Actors
<1> USE <1>a DEF Goto, queueVars, flagVars, dataVars, callVars, actorVars, kernelVars
<1>b. /\ Elems(operate_queue_) \subseteq Ops /\ Elems(ready_operate_queue_) \subseteq Ops
      /\ Queued = Elems(ready_operate_queue_) \cup Elems(operate_queue_)
      BY QueueElements DEF Queued
<1>0. ASSUME UNCHANGED <<operate_queue_, ready_operate_queue_, turn, len, pos, available, sent>>,
             \A o \in Ops : pc[o] # "idle" => pc'[o] # "idle"
      PROVE  Order'
      BY <1>0 DEF Order, Got, InOrder, Queued
<1>1. ASSUME NEW o \in Ops, ReadFlag(o) PROVE Order'
      BY <1>1, <1>0 DEF ReadFlag, At
<1>2. ASSUME NEW o \in Ops, ArmTimeout(o) PROVE Order'
      BY <1>2, <1>0 DEF ArmTimeout, At
<1>3. CASE EpollWait BY <1>3, <1>0 DEF EpollWait, At
<1>4. CASE PeekEnd BY <1>4, <1>0 DEF PeekEnd, At
<1>5. CASE OnOperate BY <1>5, <1>0 DEF OnOperate, At
<1>s. CASE Start BY <1>s, <1>0 DEF Start, At
<1>6. CASE CloseDescriptor BY <1>6, <1>0 DEF CloseDescriptor, At
<1>7. CASE Stop BY <1>7, <1>0 DEF Stop, At
<1>8. CASE Fire BY <1>8, <1>0 DEF Fire, At
<1>9. CASE OnTimeout BY <1>9, <1>0 DEF OnTimeout, At
<1>10. CASE ResumeTimedOut BY <1>10, <1>0 DEF ResumeTimedOut, At
<1>11. CASE PeerClose BY <1>11, <1>0 DEF PeerClose, At
<1>12. CASE OtherEvent BY <1>12, <1>0 DEF OtherEvent, At
<1>13. ASSUME NEW a \in Actors, DoOperate(a) PROVE Order'
      BY <1>13, <1>0 DEF DoOperate, At
<1>14. ASSUME NEW a \in Actors, LoopEmpty(a) PROVE Order'
      BY <1>14, <1>0 DEF LoopEmpty, At
<1>15. ASSUME NEW a \in Actors, LoopTake(a) PROVE Order'
      BY <1>15, <1>0 DEF LoopTake, At
<1>16. ASSUME NEW a \in Actors, Block(a) PROVE Order'
      BY <1>16, <1>0 DEF Block, At
<1>17. ASSUME NEW a \in Actors, OperateNothing(a) PROVE Order'
      BY <1>17, <1>0 DEF OperateNothing, At
<1>18. ASSUME NEW a \in Actors, SetOperateable(a) PROVE Order'
      BY <1>18, <1>0 DEF SetOperateable, At
<1>19. ASSUME NEW a \in Actors, CallFinished(a) PROVE Order'
      BY <1>19, <1>0 DEF CallFinished, At
<1>20. ASSUME NEW a \in Actors, CheckRun(a) PROVE Order'
      BY <1>20, <1>0 DEF CheckRun, At, After
<1>21. ASSUME NEW a \in Actors, EndDrop(a) PROVE Order'
      BY <1>21, <1>0 DEF EndDrop, At
<1>22. ASSUME NEW a \in Actors, EndOne(a) PROVE Order'
      BY <1>22, <1>0 DEF EndOne, At
<1>23. ASSUME NEW a \in Actors, EndCall(a) PROVE Order'
      BY <1>23, <1>0 DEF EndCall, At
<1>24. ASSUME NEW a \in Actors, EndReturn(a) PROVE Order'
      BY <1>24, <1>0 DEF EndReturn, At, After
<1>30. CASE Arrive
  <2>1. PICK n \in 1..(MaxBytes - sent) : available' = available + n /\ sent' = sent + n
        BY <1>30 DEF Arrive
  <2>2. UNCHANGED <<operate_queue_, ready_operate_queue_, turn, len, pos, pc>>
        BY <1>30 DEF Arrive
  <2>3. sent' - available' = sent - available BY <2>1, HelperAssumption
  <2>4. QED BY <2>2, <2>3 DEF Order, Got, InOrder, Queued
<1>31. ASSUME NEW a \in Actors, LockOperate(a) PROVE Order'
  <2>1. /\ operate_queue_' = operate_queue_ \o ready_operate_queue_ /\ ready_operate_queue_' = << >>
        /\ UNCHANGED <<turn, len, pos, available, sent>>
        /\ \A o \in Ops : pc[o] # "idle" => pc'[o] # "idle"
        BY <1>31 DEF LockOperate
  <2>2. Queued' = Queued /\ Elems(ready_operate_queue_') = {}
        BY <1>b, <2>1, SpliceQueue, EmptyQueue DEF Queued
  <2>3. Ascending(turn, operate_queue_ \o ready_operate_queue_)
        BY AscendingSplice DEF Order
  <2>4. Ascending(turn, << >>) BY DEF Ascending
  <2>5. Ascending(turn, operate_queue_') /\ Ascending(turn, ready_operate_queue_')
        BY <2>1, <2>3, <2>4
  <2>6. QED BY <2>1, <2>2, <2>5 DEF Order, Got, InOrder
<1>32. ASSUME NEW a \in Actors, LoopDrop(a) PROVE Order'
  <2>1. /\ operate_queue_ # << >> /\ operate_queue_' = Tail(operate_queue_)
        /\ UNCHANGED <<ready_operate_queue_, turn, len, pos, available, sent, pc>>
        BY <1>32 DEF LoopDrop
  <2>2. Elems(operate_queue_') \subseteq Elems(operate_queue_) /\ Queued' \subseteq Queued
        BY <1>b, <2>1, TailQueue DEF Queued
  <2>3. Ascending(turn, operate_queue_') BY <2>1, AscendingTail DEF Order
  <2>4. QED BY <2>1, <2>2, <2>3 DEF Order, Got, InOrder
<1>33. ASSUME NEW a \in Actors, EndAllOperate(a) PROVE Order'
  <2>1. /\ operate_queue_' = << >> /\ ready_operate_queue_' = << >>
        /\ UNCHANGED <<turn, len, pos, available, sent>>
        /\ \A o \in Ops : pc[o] # "idle" => pc'[o] # "idle"
        BY <1>33 DEF EndAllOperate
  <2>2. Queued' = {} /\ Elems(operate_queue_') = {} BY <2>1, EmptyQueue DEF Queued
  <2>3. Ascending(turn, operate_queue_') /\ Ascending(turn, ready_operate_queue_')
        BY <2>1 DEF Ascending
  <2>4. QED BY <2>1, <2>2, <2>3 DEF Order, Got, InOrder
<1>34. ASSUME NEW o \in Ops, AwaitSuspend(o) PROVE Order'
  <2> DEFINE Turned == {p \in Ops : turn[p] > 0}
             n == Cardinality(Turned)
  <2>1. IsFiniteSet(Turned) /\ n \in Nat BY FS_Subset, FS_CardinalityType
  <2>2. /\ ready_operate_queue_' = Append(ready_operate_queue_, o)
        /\ turn' = [turn EXCEPT ![o] = 1 + n]
        /\ UNCHANGED <<operate_queue_, len, pos, available, sent>>
        /\ pc[o] = "idle" /\ pc' = [pc EXCEPT ![o] = "flag"]
        BY <1>34 DEF AwaitSuspend, QueuedBack, At
  <2>3. o \notin Queued /\ ~Got(o) /\ o \notin Turned
    <3>1. ~finish_flag_[o] /\ o \notin Queued BY <2>2 DEF HelperInv, OnePlace
    <3>2. len[o] = 0 BY <3>1 DEF HelperInv, Answering
    <3>3. QED BY <2>2, <3>1, <3>2 DEF Order, Got
  <2>4. {p \in Ops : turn'[p] > 0} = Turned \cup {o}
    <3> HIDE DEF n
    <3>1. \A p \in Ops : turn'[p] > 0 <=> (p = o \/ turn[p] > 0) BY <2>1, <2>2
    <3>2. QED BY <3>1
  <2>5. Cardinality({p \in Ops : turn'[p] > 0}) = n + 1 BY <2>1, <2>3, <2>4, FS_AddElement
  <2>6. \A p \in Ops : p # o => turn'[p] = turn[p] /\ turn[p] <= n BY <2>2 DEF Order
  <2>7. turn'[o] = n + 1 /\ turn' \in [Ops -> Nat] BY <2>1, <2>2
  <2> HIDE DEF n, Turned
  <2>8. Elems(ready_operate_queue_') = Elems(ready_operate_queue_) \cup {o}
        BY <2>2, AppendQueue
  <2>9. \A p \in Queued : p \in Ops /\ p # o /\ turn'[p] = turn[p] /\ turn'[p] < turn'[o]
        BY <1>b, <2>1, <2>3, <2>6, <2>7
  <2>10. Ascending(turn', ready_operate_queue_)
    <3>1. \A i \in 1..Len(ready_operate_queue_) : ready_operate_queue_[i] \in Queued
          BY <1>b DEF Elems
    <3>2. QED BY <2>9, <3>1 DEF Order, Ascending
  <2>11. Ascending(turn', operate_queue_)
    <3>1. \A i \in 1..Len(operate_queue_) : operate_queue_[i] \in Queued
          BY <1>b DEF Elems
    <3>2. QED BY <2>9, <3>1 DEF Order, Ascending
  <2>12. Ascending(turn', ready_operate_queue_')
        BY <1>b, <2>2, <2>7, <2>9, <2>10, AscendingAppend
  <2>13. \A p \in Elems(operate_queue_), q \in Elems(ready_operate_queue_') : turn'[p] < turn'[q]
        BY <1>b, <2>8, <2>9 DEF Order
  <2>14. Queued' = Queued \cup {o} BY <1>b, <2>2, <2>8 DEF Queued
  <2>15. ASSUME NEW p \in Ops, Got(p)
         PROVE  /\ \A q \in Queued' : turn'[p] < turn'[q]
                /\ p # o /\ turn'[p] = turn[p]
    <3>1. p # o /\ turn'[p] = turn[p] /\ turn[p] <= n BY <2>3, <2>6, <2>15
    <3>2. \A q \in Queued : turn'[p] < turn'[q] BY <2>9, <2>15, <3>1 DEF Order
    <3>3. turn'[p] < turn'[o] BY <2>1, <2>7, <3>1
    <3>4. QED BY <2>14, <3>1, <3>2, <3>3
  <2>16. \A p \in Ops : /\ turn'[p] <= n + 1
                        /\ turn'[p] > 0 => pc'[p] # "idle"
    <3>1. \A p \in Ops : turn[p] > 0 => pc[p] # "idle" BY DEF Order
    <3>2. pc'[o] # "idle" /\ \A p \in Ops : p # o => pc'[p] = pc[p] BY <2>2
    <3>3. ASSUME NEW p \in Ops PROVE turn'[p] <= n + 1
      <4>1. CASE p = o BY <2>1, <2>7, <4>1
      <4>2. CASE p # o
        <5>1. turn'[p] = turn[p] /\ turn[p] <= n BY <2>6, <4>2
        <5>2. QED BY <2>1, <5>1
      <4>3. QED BY <4>1, <4>2
    <3>4. ASSUME NEW p \in Ops, turn'[p] > 0 PROVE pc'[p] # "idle"
          BY <2>6, <3>1, <3>2, <3>4
    <3>5. QED BY <3>3, <3>4
  <2>17. InOrder' BY <2>2, <2>15 DEF Order, InOrder, Got
  <2>18. QED BY <2>2, <2>5, <2>11, <2>12, <2>13, <2>15, <2>16, <2>17 DEF Order, Got
<1>35. ASSUME NEW a \in Actors, Operate(a) PROVE Order'
  <2>1. operate_queue_ # << >> /\ cur[a] = Head(operate_queue_)
        BY <1>35 DEF Operate, HelperInv, Loop
  <2>2. PICK o \in Ops : o = cur[a] BY <2>1, TailQueue
  <2>3. o \in Queued /\ Elems(operate_queue_') \subseteq Elems(operate_queue_)
        /\ Queued' \subseteq Queued /\ Ascending(turn, operate_queue_')
        /\ o \notin Queued' /\ (\A p \in Queued' : turn[o] < turn[p])
    <3>1. operate_queue_' = Tail(operate_queue_) /\ ready_operate_queue_' = ready_operate_queue_
          BY <1>35 DEF Operate
    <3>2. o \in Elems(operate_queue_) /\ Elems(operate_queue_') \subseteq Elems(operate_queue_)
          BY <2>1, <2>2, <3>1, TailQueue
    <3>3. Ascending(turn, operate_queue_') /\ \A p \in Elems(operate_queue_') : turn[o] < turn[p]
          BY <2>1, <2>2, <3>1, AscendingTail DEF Order
    <3>4. \A p \in Elems(ready_operate_queue_) : turn[o] < turn[p] BY <3>2 DEF Order
    <3>5. \A p \in Queued' : turn[o] < turn[p] BY <3>1, <3>3, <3>4 DEF Queued
    <3>6. o \notin Queued' BY <3>5
    <3>7. QED BY <1>b, <3>1, <3>2, <3>3, <3>5, <3>6 DEF Queued
  <2>4. ASSUME NEW p \in Ops, Got(p)
        PROVE  p # o /\ turn[p] < turn[o] /\ pos[p] + len[p] <= sent - available
    <3>1. turn[p] < turn[o] /\ pos[p] + len[p] <= sent - available BY <2>3, <2>4 DEF Order
    <3>2. ~(turn[o] < turn[o]) OBVIOUS
    <3>3. QED BY <3>1, <3>2
  <2>5. PICK n \in Returns(a) \ {0} :
          /\ len' = [len EXCEPT ![o] = n]
          /\ IF n = MinusOne THEN UNCHANGED <<pos, available>>
             ELSE pos' = [pos EXCEPT ![o] = sent - available] /\ available' = available - n
        BY <1>35, <2>2 DEF Operate
  <2>6. n = MinusOne \/ (n \in Nat /\ n <= available)
    <3>1. need_len_[o] \in Nat BY HelperAssumption DEF HelperInv, Types, TypeOK
    <3>2. QED BY <2>2, <2>5, <3>1 DEF Returns
  <2>7. UNCHANGED <<turn, sent, ready_operate_queue_>>
        /\ \A p \in Ops : pc[p] # "idle" => pc'[p] # "idle"
        BY <1>35 DEF Operate
  <2>8. \A p \in Ops : p # o => len'[p] = len[p] /\ pos'[p] = pos[p] /\ (Got(p)' <=> Got(p))
        BY <2>5, <2>7 DEF Got
  <2>9. sent - available <= sent' - available' BY <2>5, <2>6, <2>7 DEF MinusOne
  <2>10. Got(o)' => pos'[o] = sent - available /\ pos'[o] + len'[o] = sent' - available'
        BY <2>5, <2>6, <2>7 DEF Got, MinusOne
  <2>11. ASSUME NEW p \in Ops, Got(p)'
         PROVE  /\ \A q \in Queued' : turn'[p] < turn'[q]
                /\ pos'[p] + len'[p] <= sent' - available'
    <3>1. CASE p = o
      <4>1. pos'[o] + len'[o] = sent' - available' BY <2>10, <2>11, <3>1
      <4>2. sent' \in Nat /\ available' \in Int BY <2>5, <2>6, <2>7 DEF MinusOne
      <4>3. QED BY <2>3, <2>7, <3>1, <4>1, <4>2
    <3>2. CASE p # o
      <4>1. Got(p) /\ pos'[p] + len'[p] <= sent - available BY <2>4, <2>8, <2>11, <3>2
      <4>2. sent' \in Nat /\ available' \in Nat /\ pos'[p] + len'[p] \in Nat
            BY <2>5, <2>6, <2>7, <2>8, <3>2
      <4>3. pos'[p] + len'[p] <= sent' - available' BY <2>9, <4>1, <4>2
      <4>4. \A q \in Queued' : turn'[p] < turn'[q] BY <2>3, <2>7, <4>1 DEF Order
      <4>5. QED BY <4>3, <4>4
    <3>3. QED BY <3>1, <3>2
  <2>12. InOrder'
    <3>1. SUFFICES ASSUME NEW p \in Ops, NEW q \in Ops, Got(p)', Got(q)', turn'[p] < turn'[q]
                   PROVE  pos'[p] + len'[p] <= pos'[q]
          BY DEF InOrder, Got
    <3>2. p # o
      <4>1. p = o => q # o /\ Got(q) /\ turn[q] < turn[o] BY <2>4, <2>7, <2>8, <3>1
      <4>2. QED BY <2>7, <3>1, <4>1
    <3>3. CASE q = o BY <2>4, <2>8, <2>10, <3>1, <3>2, <3>3
    <3>4. CASE q # o BY <2>7, <2>8, <3>1, <3>2, <3>4 DEF Order, InOrder, Got
    <3>5. QED BY <3>3, <3>4
  <2>13. QED BY <2>3, <2>7, <2>11, <2>12 DEF Order
<1>36. CASE UNCHANGED vars BY <1>36, <1>0 DEF vars
<1>37. QED
      BY <1>s, <1>1, <1>2, <1>3, <1>4, <1>5, <1>6, <1>7, <1>8, <1>9, <1>10, <1>11, <1>12, <1>13, <1>14, <1>15, <1>16, <1>17, <1>18, <1>19, <1>20, <1>21, <1>22, <1>23, <1>24, <1>30, <1>31, <1>32, <1>33, <1>34, <1>35, <1>36
         DEF Next, Await, Dispatch, TimerWorker, Kernel, Perform

\* Operations get the bytes of the stream in the order they were awaited, whatever
\* threads work the queue (channel_read_write_helper.cpp:69-70, 110-114).
THEOREM HelperInOrder == Spec => []InOrder
<1>1. Init => Order
  <2> SUFFICES ASSUME Init PROVE Order OBVIOUS
  <2>1. Queued = {} /\ Elems(operate_queue_) = {} BY EmptyQueue DEF Init, Queued
  <2>2. Ascending(turn, operate_queue_) /\ Ascending(turn, ready_operate_queue_)
        BY DEF Init, Ascending
  <2>3. \A o \in Ops : ~Got(o) BY DEF Init, Got
  <2>4. Cardinality({p \in Ops : turn[p] > 0}) \in Nat
        BY HelperAssumption, FS_Subset, FS_CardinalityType
  <2>5. \A o \in Ops : turn[o] <= Cardinality({p \in Ops : turn[p] > 0}) /\ ~(turn[o] > 0)
    <3> DEFINE n == Cardinality({p \in Ops : turn[p] > 0})
    <3>1. n \in Nat BY <2>4
    <3> HIDE DEF n
    <3>2. \A o \in Ops : turn[o] <= n /\ ~(turn[o] > 0) BY <3>1 DEF Init
    <3>3. QED BY <3>2 DEF n
  <2>6. InOrder BY <2>3 DEF InOrder, Got
  <2>7. QED BY <2>1, <2>2, <2>3, <2>5, <2>6 DEF Order
<1>2. HelperInv /\ Order /\ [Next]_vars => Order' BY OrderNext
<1>3. Spec => []Order BY <1>1, <1>2, HelperInvariant, PTL DEF Spec
<1>4. Order => InOrder BY DEF Order
<1>5. QED BY <1>3, <1>4, PTL
==============================================================================
