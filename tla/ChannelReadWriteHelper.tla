------------------------ MODULE ChannelReadWriteHelper ------------------------
(***************************************************************************)
(* jaf::comm::ChannelReadWriteHelper and RWAwaitable                       *)
(* (Communication/impl/linux/channel_read_write_helper.cpp): one direction *)
(* of a channel.  Coroutines await operations; the thread of an awaiting   *)
(* coroutine, the epoll thread, the timer thread and the thread that stops *)
(* the channel complete them concurrently.                                 *)
(*                                                                         *)
(* An operation stands for one RWAwaitable and its CommunData, and for the *)
(* thread that awaits it until await_suspend returns.  A coroutine that    *)
(* awaits its next operation from inside the resumption of the last one    *)
(* does what another thread may do at that moment.  The timer is used      *)
(* through what TimerService promises.                                     *)
(***************************************************************************)
EXTENDS Naturals, Sequences, FiniteSets

CONSTANTS
    Ops,                  \* operations awaited on this helper
    Epoll,                \* the thread in Communication::WorkThreadRun
    Clock,                \* the worker of the timer
    Stopper,              \* the thread in Channel::Run, before and behind its wait
    Needs,                \* values of need_len_
    MaxBytes,             \* bound on what the peer makes available in all
    MaxOthers,            \* bound on events raised by the other direction
    PeerCloses,           \* the peer may close the connection
    Modes,                \* may the descriptor lack O_NONBLOCK (accept() gives such)
    SizeModulus           \* 2^64, the modulus of size_t

Actors == Ops \cup {Epoll, Clock, Stopper}
Nobody == "nobody"        \* an unlocked mutex
NoOp == "none"            \* no operation in hand

ASSUME HelperAssumption ==
    /\ IsFiniteSet(Ops)
    /\ Epoll \notin Ops /\ Clock \notin Ops /\ Stopper \notin Ops
    /\ Epoll # Clock /\ Epoll # Stopper /\ Clock # Stopper
    /\ Nobody \notin Actors /\ NoOp \notin Ops
    /\ Needs \subseteq Nat \ {0}
    /\ MaxBytes \in Nat /\ MaxOthers \in Nat
    /\ PeerCloses \in BOOLEAN /\ Modes \subseteq BOOLEAN
    /\ SizeModulus \in Nat /\ SizeModulus > MaxBytes + 1
    /\ \A n \in Needs : n < SizeModulus - 1

VARIABLES
    run_flag_, operateable_flag_,
    ready_operate_queue_, operate_queue_,
    operate_mutex_,       \* who holds it
    \* per operation: its CommunData
    need_len_, len, state, timeout_flag_, finish_flag_,
    timer,                \* what the timer made of timeout_task_
    resumed,              \* how often handle_ was resumed
    turn, pos,            \* history: when it was queued, where its bytes begin
    \* per actor
    pc,
    todo,                 \* finish_operate_datas, or what EndAllOperate took
    cur,                  \* the operation in hand
    \* the descriptor
    blocking,             \* it has no O_NONBLOCK
    open,                 \* not closed by this side
    eof,                  \* closed by the peer
    available,            \* bytes that can be read without waiting
    edge,                 \* an event epoll_wait has not reported yet
    sent, others          \* bytes and other events so far

queueVars == <<ready_operate_queue_, operate_queue_, operate_mutex_, turn>>
flagVars == <<run_flag_, operateable_flag_>>
dataVars == <<need_len_, len, state, timeout_flag_, finish_flag_, pos>>
callVars == <<timer, resumed>>
actorVars == <<pc, todo, cur>>
kernelVars == <<blocking, open, eof, available, edge, sent, others>>
vars == <<queueVars, flagVars, dataVars, callVars, actorVars, kernelVars>>

States == {"CRS_UNKNOWN", "CRS_SUCCESS", "CRS_TIMEOUT", "CRS_CHANNEL_DISCONNECTED"}

Elems(s) == {s[i] : i \in 1..Len(s)}
At(a, l) == pc[a] = l
Goto(a, l) == pc' = [pc EXCEPT ![a] = l]

Queued == Elems(ready_operate_queue_) \cup Elems(operate_queue_)
Transferring(a) == pc[a] \in {"io", "blocked"}

\* CommunData::mutex_ is held across the read or write.
DataMutexFree(o) == \A a \in Actors : Transferring(a) => cur[a] # o

\* The result -1 of read() or write(), stored in the size_t SChannelResult::len.
MinusOne == SizeModulus - 1

Init ==
    /\ run_flag_ = FALSE /\ operateable_flag_ = FALSE
    /\ ready_operate_queue_ = << >> /\ operate_queue_ = << >>
    /\ operate_mutex_ = Nobody
    /\ turn = [o \in Ops |-> 0]
    /\ need_len_ \in [Ops -> Needs]
    /\ len = [o \in Ops |-> 0] /\ pos = [o \in Ops |-> 0]
    /\ state = [o \in Ops |-> "CRS_UNKNOWN"]
    /\ timeout_flag_ = [o \in Ops |-> FALSE]
    /\ finish_flag_ = [o \in Ops |-> FALSE]
    /\ timer = [o \in Ops |-> "idle"]
    /\ resumed = [o \in Ops |-> 0]
    /\ pc = [a \in Actors |-> "idle"]
    /\ todo = [a \in Actors |-> {}]
    /\ cur = [a \in Actors |-> NoOp]
    /\ blocking \in Modes
    /\ open = TRUE /\ eof = FALSE /\ available = 0
    /\ edge = FALSE /\ sent = 0 /\ others = 0

------------------------------------------------------------------------------
\* Where an actor goes on when DoOperate or EndAllOperate returns to it.
After(a) == IF a \in Ops THEN "start" ELSE IF a = Epoll THEN "idle" ELSE "done"

\* Mutant: push_front.
QueuedFront(q, o) == <<o>> \o q

QueuedBack(q, o) == Append(q, o)

\* The descriptor is registered, and events come, before the helper is started.
Start ==
    /\ At(Stopper, "idle") /\ ~run_flag_
    /\ run_flag_' = TRUE
    /\ UNCHANGED <<queueVars, operateable_flag_, dataVars, callVars, actorVars, kernelVars>>

Started == run_flag_ \/ ~At(Stopper, "idle")

\* await_suspend: AddOperateData queues the operation ...  Coroutines are given
\* the channel when its Run has come to the wait.
AwaitSuspend(o) ==
    /\ At(o, "idle") /\ Started
    /\ ready_operate_queue_' = QueuedBack(ready_operate_queue_, o)
    /\ turn' = [turn EXCEPT ![o] = 1 + Cardinality({p \in Ops : turn[p] > 0})]
    /\ Goto(o, "flag")
    /\ UNCHANGED <<operate_queue_, operate_mutex_, flagVars, dataVars, callVars, todo, cur,
                   kernelVars>>

\* ... and works the queue itself when the descriptor is said to be operable.
ReadFlag(o) ==
    /\ At(o, "flag")
    /\ Goto(o, IF operateable_flag_ THEN "operate" ELSE "start")
    /\ UNCHANGED <<queueVars, flagVars, dataVars, callVars, todo, cur, kernelVars>>

\* Mutant: the operation's timeout is never armed.
NoStartTask(o) == timer

StartTask(o) == [timer EXCEPT ![o] = "timed"]

\* The end of await_suspend, which may run after the operation was answered.
ArmTimeout(o) ==
    /\ At(o, "start")
    /\ timer' = StartTask(o)
    /\ Goto(o, "suspended")
    /\ UNCHANGED <<queueVars, flagVars, dataVars, resumed, todo, cur, kernelVars>>

\* epoll_wait reports an edge; the event carries EPOLLIN while the descriptor
\* is readable (an end of file is readable too).
EpollWait ==
    /\ At(Epoll, "idle") /\ edge
    /\ edge' = FALSE
    /\ Goto(Epoll, IF open /\ (available > 0 \/ eof) THEN "event" ELSE "idle")
    /\ UNCHANGED <<queueVars, flagVars, dataVars, callVars, todo, cur, blocking, open, eof,
                   available, sent, others>>

\* Channel::OnEpoll peeks first; at the end of file it asks the channel to stop.
PeekEnd ==
    /\ At(Epoll, "event")
    /\ open /\ available = 0 /\ eof
    /\ Goto(Epoll, "idle")
    /\ UNCHANGED <<queueVars, flagVars, dataVars, callVars, todo, cur, kernelVars>>

OnOperate ==
    /\ At(Epoll, "event")
    /\ ~open \/ available > 0 \/ (~eof /\ ~blocking)
    /\ operateable_flag_' = TRUE
    /\ Goto(Epoll, "operate")
    /\ UNCHANGED <<queueVars, run_flag_, dataVars, callVars, todo, cur, kernelVars>>

------------------------------------------------------------------------------
(* DoOperate *)

DoOperate(a) ==
    /\ At(a, "operate")
    /\ operateable_flag_' = FALSE
    /\ Goto(a, "lock")
    /\ UNCHANGED <<queueVars, run_flag_, dataVars, callVars, todo, cur, kernelVars>>

LockOperate(a) ==
    /\ At(a, "lock")
    /\ operate_mutex_ = Nobody
    /\ operate_mutex_' = a
    /\ operate_queue_' = operate_queue_ \o ready_operate_queue_
    /\ ready_operate_queue_' = << >>
    /\ Goto(a, "loop")
    /\ UNCHANGED <<turn, flagVars, dataVars, callVars, todo, cur, kernelVars>>

LoopEmpty(a) ==
    /\ At(a, "loop")
    /\ operate_queue_ = << >>
    /\ operate_mutex_' = Nobody
    /\ Goto(a, "operateable")
    /\ UNCHANGED <<ready_operate_queue_, operate_queue_, turn, flagVars, dataVars, callVars, todo,
                   cur, kernelVars>>

\* Mutant: the loop does not look whether the operation has timed out.
NeverTimedOut(o) == FALSE

TimedOut(o) == timeout_flag_[o]

LoopDrop(a) ==
    /\ At(a, "loop")
    /\ operate_queue_ # << >>
    /\ TimedOut(Head(operate_queue_))
    /\ operate_queue_' = Tail(operate_queue_)
    /\ UNCHANGED <<ready_operate_queue_, operate_mutex_, turn, flagVars, dataVars, callVars,
                   actorVars, kernelVars>>

LoopTake(a) ==
    /\ At(a, "loop")
    /\ operate_queue_ # << >>
    /\ ~TimedOut(Head(operate_queue_))
    /\ cur' = [cur EXCEPT ![a] = Head(operate_queue_)]
    /\ Goto(a, "io")
    /\ UNCHANGED <<queueVars, flagVars, dataVars, callVars, todo, kernelVars>>

Block(a) ==
    /\ At(a, "io")
    /\ blocking /\ open /\ available = 0 /\ ~eof
    /\ Goto(a, "blocked")
    /\ UNCHANGED <<queueVars, flagVars, dataVars, callVars, todo, cur, kernelVars>>

\* What the system call can return now: as much as is there, 0 at the end of
\* file, -1 (EAGAIN; EBADF once closed).  A blocked call outlives close().
Returns(a) ==
    IF At(a, "io") /\ ~open THEN {MinusOne}
    ELSE IF available > 0
         THEN {n \in {need_len_[cur[a]], available} : n <= need_len_[cur[a]] /\ n <= available}
    ELSE IF eof THEN {0}
    ELSE IF blocking THEN {} ELSE {MinusOne}

\* At 0 the operation stays in the queue, unanswered.
OperateNothing(a) ==
    /\ Transferring(a)
    /\ 0 \in Returns(a)
    /\ operate_mutex_' = Nobody
    /\ cur' = [cur EXCEPT ![a] = NoOp]
    /\ Goto(a, "calls")
    /\ UNCHANGED <<ready_operate_queue_, operate_queue_, turn, flagVars, dataVars, callVars, todo,
                   kernelVars>>

\* Anything else finishes it: len is unsigned, so the test for a negative
\* result is never true and -1 counts as a success that was long enough.
Operate(a) ==
    /\ Transferring(a)
    /\ \E n \in Returns(a) \ {0} : LET o == cur[a] IN
        /\ len' = [len EXCEPT ![o] = n]
        /\ IF n = MinusOne THEN UNCHANGED <<pos, available>>
           ELSE /\ pos' = [pos EXCEPT ![o] = sent - available]
                /\ available' = available - n
        /\ operate_queue_' = Tail(operate_queue_)
        /\ finish_flag_' = [finish_flag_ EXCEPT ![o] = TRUE]
        /\ state' = [state EXCEPT ![o] = "CRS_SUCCESS"]
        /\ todo' = [todo EXCEPT ![a] = @ \cup {o}]
        /\ cur' = [cur EXCEPT ![a] = NoOp]
        /\ IF n < need_len_[o]
           THEN operate_mutex_' = Nobody /\ Goto(a, "calls")
           ELSE operate_mutex_' = operate_mutex_ /\ Goto(a, "loop")
    /\ UNCHANGED <<ready_operate_queue_, turn, flagVars, need_len_, timeout_flag_, callVars,
                   blocking, open, eof, edge, sent, others>>

SetOperateable(a) ==
    /\ At(a, "operateable")
    /\ operateable_flag_' = TRUE
    /\ Goto(a, "calls")
    /\ UNCHANGED <<queueVars, run_flag_, dataVars, callVars, todo, cur, kernelVars>>

\* StopTask does nothing to a task that is not being timed.
StopTask(o) == IF timer[o] = "timed" THEN [timer EXCEPT ![o] = "stopped"] ELSE timer

\* IoCallback: the timeout task is stopped and the coroutine resumed.
IoCallback(o) ==
    /\ timer' = StopTask(o)
    /\ resumed' = [resumed EXCEPT ![o] = @ + 1]

CallFinished(a) ==
    /\ At(a, "calls")
    /\ \E o \in todo[a] : IoCallback(o) /\ todo' = [todo EXCEPT ![a] = @ \ {o}]
    /\ UNCHANGED <<queueVars, flagVars, dataVars, pc, cur, kernelVars>>

CheckRun(a) ==
    /\ At(a, "calls") /\ todo[a] = {}
    /\ Goto(a, IF run_flag_ THEN After(a) ELSE "end_lock")
    /\ UNCHANGED <<queueVars, flagVars, dataVars, callVars, todo, cur, kernelVars>>

------------------------------------------------------------------------------
(* Stop, EndAllOperate *)

\* Channel::Run after its wait: the descriptor is closed ...
CloseDescriptor ==
    /\ At(Stopper, "idle") /\ run_flag_
    /\ open' = FALSE
    /\ Goto(Stopper, "stop")
    /\ UNCHANGED <<queueVars, flagVars, dataVars, callVars, todo, cur, blocking, eof, available,
                   edge, sent, others>>

\* ... and the helper stopped.
Stop ==
    /\ At(Stopper, "stop")
    /\ run_flag_' = FALSE
    /\ Goto(Stopper, "end_lock")
    /\ UNCHANGED <<queueVars, operateable_flag_, dataVars, callVars, todo, cur, kernelVars>>

Swapped(q, r) == Elems(q) \cup Elems(r)

EndAllOperate(a) ==
    /\ At(a, "end_lock")
    /\ operate_mutex_ = Nobody
    /\ todo' = [todo EXCEPT ![a] = Swapped(operate_queue_, ready_operate_queue_)]
    /\ operate_queue_' = << >> /\ ready_operate_queue_' = << >>
    /\ Goto(a, "end")
    /\ UNCHANGED <<operate_mutex_, turn, flagVars, dataVars, callVars, cur, kernelVars>>

EndDrop(a) ==
    /\ At(a, "end")
    /\ \E o \in todo[a] : /\ TimedOut(o)
                          /\ todo' = [todo EXCEPT ![a] = @ \ {o}]
    /\ UNCHANGED <<queueVars, flagVars, dataVars, callVars, pc, cur, kernelVars>>

EndOne(a) ==
    /\ At(a, "end")
    /\ \E o \in todo[a] :
         /\ DataMutexFree(o)
         /\ ~TimedOut(o)
         /\ todo' = [todo EXCEPT ![a] = @ \ {o}]
         /\ finish_flag_' = [finish_flag_ EXCEPT ![o] = TRUE]
         /\ state' = [state EXCEPT ![o] = "CRS_CHANNEL_DISCONNECTED"]
         /\ cur' = [cur EXCEPT ![a] = o]
    /\ Goto(a, "end_call")
    /\ UNCHANGED <<queueVars, flagVars, need_len_, len, timeout_flag_, pos, callVars, kernelVars>>

EndCall(a) ==
    /\ At(a, "end_call")
    /\ IoCallback(cur[a])
    /\ cur' = [cur EXCEPT ![a] = NoOp]
    /\ Goto(a, "end")
    /\ UNCHANGED <<queueVars, flagVars, dataVars, todo, kernelVars>>

EndReturn(a) ==
    /\ At(a, "end") /\ todo[a] = {}
    /\ Goto(a, After(a))
    /\ UNCHANGED <<queueVars, flagVars, dataVars, callVars, todo, cur, kernelVars>>

------------------------------------------------------------------------------
(* The timer's worker *)

\* A started task has its function called once, stopped or not.
Fire ==
    /\ At(Clock, "idle")
    /\ \E o \in Ops : /\ timer[o] \in {"timed", "stopped"}
                      /\ timer' = [timer EXCEPT ![o] = "fired"]
                      /\ cur' = [cur EXCEPT ![Clock] = o]
    /\ Goto(Clock, "timeout")
    /\ UNCHANGED <<queueVars, flagVars, dataVars, resumed, todo, kernelVars>>

\* Mutant: OnTimeout does not look whether the operation has finished.
NeverFinished(o) == FALSE

Finished(o) == finish_flag_[o]

\* The function ignores why it is called; the flags tell.
OnTimeout ==
    /\ At(Clock, "timeout")
    /\ DataMutexFree(cur[Clock])
    /\ IF Finished(cur[Clock])
       THEN /\ cur' = [cur EXCEPT ![Clock] = NoOp]
            /\ Goto(Clock, "idle")
            /\ UNCHANGED <<timeout_flag_, state>>
       ELSE /\ timeout_flag_' = [timeout_flag_ EXCEPT ![cur[Clock]] = TRUE]
            /\ state' = [state EXCEPT ![cur[Clock]] = "CRS_TIMEOUT"]
            /\ Goto(Clock, "timeout_resume")
            /\ UNCHANGED cur
    /\ UNCHANGED <<queueVars, flagVars, need_len_, len, finish_flag_, pos, callVars, todo,
                   kernelVars>>

ResumeTimedOut ==
    /\ At(Clock, "timeout_resume")
    /\ resumed' = [resumed EXCEPT ![cur[Clock]] = @ + 1]
    /\ cur' = [cur EXCEPT ![Clock] = NoOp]
    /\ Goto(Clock, "idle")
    /\ UNCHANGED <<queueVars, flagVars, dataVars, timer, todo, kernelVars>>

------------------------------------------------------------------------------
(* The peer and the kernel *)

Arrive ==
    /\ open \/ \E a \in Actors : At(a, "blocked")
    /\ ~eof
    /\ \E n \in 1..(MaxBytes - sent) : available' = available + n /\ sent' = sent + n
    /\ edge' = TRUE
    /\ UNCHANGED <<queueVars, flagVars, dataVars, callVars, actorVars, blocking, open, eof,
                   others>>

PeerClose ==
    /\ PeerCloses /\ open /\ ~eof
    /\ eof' = TRUE /\ edge' = TRUE
    /\ UNCHANGED <<queueVars, flagVars, dataVars, callVars, actorVars, blocking, open, available,
                   sent, others>>

\* An event of the other direction reports this one again.
OtherEvent ==
    /\ others < MaxOthers
    /\ others' = others + 1
    /\ edge' = TRUE
    /\ UNCHANGED <<queueVars, flagVars, dataVars, callVars, actorVars, blocking, open, eof,
                   available, sent>>

Kernel == Arrive \/ PeerClose \/ OtherEvent

\* DoOperate and EndAllOperate, wherever they were called from.
Perform(a) ==
    \/ DoOperate(a) \/ LockOperate(a) \/ LoopEmpty(a) \/ LoopDrop(a) \/ LoopTake(a)
    \/ Block(a) \/ OperateNothing(a) \/ Operate(a) \/ SetOperateable(a) \/ CallFinished(a)
    \/ CheckRun(a)
    \/ EndAllOperate(a) \/ EndDrop(a) \/ EndOne(a) \/ EndCall(a) \/ EndReturn(a)

Await(o) == ReadFlag(o) \/ ArmTimeout(o)
Dispatch == EpollWait \/ PeekEnd \/ OnOperate
TimerWorker == Fire \/ OnTimeout \/ ResumeTimedOut

Next ==
    \/ \E o \in Ops : AwaitSuspend(o) \/ Await(o)
    \/ Dispatch \/ Start \/ CloseDescriptor \/ Stop \/ TimerWorker \/ Kernel
    \/ \E a \in Actors : Perform(a)

Spec == Init /\ [][Next]_vars

\* Every thread inside the helper is scheduled.
ThreadsFair ==
    /\ \A a \in Actors : WF_vars(Perform(a))
    /\ \A o \in Ops : WF_vars(Await(o))
    /\ WF_vars(Dispatch) /\ WF_vars(Stop) /\ WF_vars(OnTimeout \/ ResumeTimedOut)

FairSpec == Spec /\ ThreadsFair

------------------------------------------------------------------------------
Places == {"idle", "flag", "start", "suspended", "event", "operate", "lock", "loop", "io",
           "blocked", "operateable", "calls", "stop", "end_lock", "end", "end_call", "done",
            "timeout", "timeout_resume"}

TypeOK ==
    /\ run_flag_ \in BOOLEAN /\ operateable_flag_ \in BOOLEAN
    /\ ready_operate_queue_ \in Seq(Ops) /\ operate_queue_ \in Seq(Ops)
    /\ operate_mutex_ \in Actors \cup {Nobody}
    /\ turn \in [Ops -> Nat]
    /\ need_len_ \in [Ops -> Needs]
    /\ len \in [Ops -> 0..(SizeModulus - 1)]
    /\ state \in [Ops -> States]
    /\ timeout_flag_ \in [Ops -> BOOLEAN] /\ finish_flag_ \in [Ops -> BOOLEAN]
    /\ timer \in [Ops -> {"idle", "timed", "stopped", "fired"}]
    /\ resumed \in [Ops -> Nat] /\ pos \in [Ops -> Nat]
    /\ pc \in [Actors -> Places]
    /\ todo \in [Actors -> SUBSET Ops]
    /\ cur \in [Actors -> Ops \cup {NoOp}]
    /\ blocking \in BOOLEAN /\ open \in BOOLEAN /\ eof \in BOOLEAN /\ edge \in BOOLEAN
    /\ available \in Nat /\ sent \in Nat /\ others \in Nat

\* A completion by any of the threads and the timeout exclude each other, and
\* the coroutine is resumed at most once (channel_read_write_helper.cpp:128-142,
\* 178-185, 238-246).
AnsweredOnce ==
    \A o \in Ops : resumed[o] <= 1 /\ ~(finish_flag_[o] /\ timeout_flag_[o])

\* Somebody still has to resume the coroutine of o: a thread that finished the
\* operation, the timeout that fired, or the timeout that is yet to come.
Owed(o) ==
    IF finish_flag_[o]
    THEN \E a \in Actors : \/ o \in todo[a]
                           \/ cur[a] = o /\ At(a, "end_call")
    ELSE IF timeout_flag_[o] THEN At(Clock, "timeout_resume") /\ cur[Clock] = o
    ELSE \/ pc[o] # "suspended"
         \/ timer[o] = "timed"
         \/ timer[o] = "fired" /\ At(Clock, "timeout") /\ cur[Clock] = o

\* No interleaving of await_suspend, the event loop, EndAllOperate and the
\* timeout leaves a coroutine that nobody will resume (67-106, 164-190, 217-252).
NobodyForgotten == \A o \in Ops : turn[o] > 0 /\ resumed[o] = 0 => Owed(o)

\* read() and write() are never given the buffer of a coroutine that has been
\* answered: the buffer lives in that coroutine (127-142, 223-251).
NoUseOfDeadBuffer ==
    \A a \in Actors : Transferring(a) => resumed[cur[a]] = 0 /\ ~timeout_flag_[cur[a]]

\* Bytes taken off the descriptor reach their reader: an operation that took
\* some is not answered as timed out or disconnected (127-156, 178-187).
TakenIsDelivered ==
    \A o \in Ops : len[o] \in 1..(MinusOne - 1) => state[o] = "CRS_SUCCESS" /\ ~timeout_flag_[o]

\* Operations get the bytes of the stream in the order they were awaited, from
\* whatever threads (69-70, 110-114).
InOrder ==
    \A o, p \in Ops :
        len[o] \in 1..(MinusOne - 1) /\ len[p] \in 1..(MinusOne - 1) /\ turn[o] < turn[p]
            => pos[o] + len[o] <= pos[p]

\* The result a resumed coroutine reads does not change under its feet: the
\* writes of state and len outside the mutex come before call_ (148-157, 187).
ResultIsFinal ==
    [][\A o \in Ops : resumed[o] > 0 => state'[o] = state[o] /\ len'[o] = len[o]]_vars

\* Every awaited operation is answered, at the latest by its timeout, provided
\* the timer calls its functions (TimerService).
EveryOperationAnswered == WF_vars(Fire) => \A o \in Ops : turn[o] > 0 ~> resumed[o] = 1
===============================================================================
