-------------------------------- MODULE Timer --------------------------------
(***************************************************************************)
(* jaf::time::Timer (Time/impl/timer.cpp): one worker thread sleeps on a   *)
(* condition variable until the earliest task is due and calls the task    *)
(* functions; any thread, and the functions themselves, start and stop     *)
(* tasks.                                                                  *)
(*                                                                         *)
(* A step is one section under tasks_mutex_, or one access to the fields   *)
(* STimerTask::timer_data_ and STimerParaInter::timer_task, which the code *)
(* reads and writes outside the mutex.  An STimerParaInter is named by the *)
(* value next_task_id_ had when it was made.                               *)
(***************************************************************************)
EXTENDS Naturals, FiniteSets

CONSTANTS
    Tasks,                \* the STimerTask objects the clients own
    Threads,              \* threads that call StartTask and StopTask
    Worker,               \* run_thread_, when a task function calls the timer
    MaxStarts,            \* bound on next_task_id_
    MaxTime,              \* bound on the clock
    Intervals,            \* the values of STimerTask::interval
    Leads,                \* the values of lead_time_
    GuardedTasks,         \* tasks whose function takes a lock their StopTask callers
                          \* hold (CoAwaitTime does it, RWAwaitable does not)
    Reload                \* the build reads timer_data_ twice in StopTask

ASSUME TimerAssumption ==
    /\ Tasks # {}
    /\ Worker \notin Threads
    /\ MaxStarts \in Nat
    /\ MaxTime \in Nat
    /\ Intervals \subseteq Nat
    /\ Leads \subseteq Nat /\ Leads # {}
    /\ GuardedTasks \subseteq Tasks
    /\ Reload \in BOOLEAN

NoId == 0                 \* nullptr
Ids == 1..MaxStarts
Actors == Threads \cup {Worker}
Outcomes == {"TRT_SUCCESS", "TRT_TASK_STOP", "TRT_TIMER_STOP"}

VARIABLES
    now,                  \* GetNowTime()
    run_flag_,
    lead_time_,
    next_task_id_,
    tasks_time_,          \* the tree; ordered by time, then by insertion
    tasks_stop_,
    timer_data_,          \* [Tasks -> id or NoId]
    timer_task,           \* [Ids -> task still recorded in the STimerParaInter?]
    owner, time,          \* the task and time each STimerParaInter was made for
    timing_flag_,
    \* the worker thread
    wpc,                  \* where Work is
    notified,             \* m_workCondition was notified during the wait
    wake_time,            \* when a timed wait ends
    need_execute, need_stop,
    residue,              \* residue_tasks_time_time
    cur, cur_result,      \* the task function being called
    spent,                \* called, but still owned by the lists of Work
    \* calls in progress, per actor
    pc, arg, due, ptr,
    \* history: the calls made of each task function and their result, and the
    \* starts that a call from behind the loop put where nobody looks again
    calls, result, abandoned

clientVars == <<pc, arg, due, ptr>>
timerVars == <<run_flag_, lead_time_, next_task_id_, tasks_time_, tasks_stop_>>
interVars == <<timer_data_, timer_task, owner, time, timing_flag_>>
workVars == <<wpc, need_execute, need_stop, residue, cur, cur_result, spent>>
waitVars == <<notified, wake_time>>
histVars == <<calls, result, abandoned>>

vars == <<now, clientVars, timerVars, interVars, workVars, waitVars, histVars>>

AnyTask == CHOOSE t \in Tasks : TRUE

Started == {i \in Ids : i < next_task_id_}
Owed(t) == \E i \in Started : owner[i] = t /\ calls[i] = 0

\* Work has left its loop (147-167).
Final == wpc \in {"final", "final_detach", "final_fun", "done"}
InFun == wpc \in {"fun", "final_fun"}

\* Objects some list or tree of the timer keeps alive.
Alive(i) == i \in tasks_time_ \cup tasks_stop_ \cup need_execute \cup need_stop
                  \cup residue \cup spent \cup {cur}

\* Tree order: by time; equal keys in insertion order.
First(S) == {i \in S : \A j \in S : time[i] < time[j] \/ (time[i] = time[j] /\ i <= j)}

------------------------------------------------------------------------------
Init ==
    /\ now = 0
    /\ run_flag_ = TRUE
    /\ lead_time_ \in Leads
    /\ next_task_id_ = 1
    /\ tasks_time_ = {} /\ tasks_stop_ = {}
    /\ timer_data_ = [t \in Tasks |-> NoId]
    /\ timer_task = [i \in Ids |-> FALSE]
    /\ owner = [i \in Ids |-> AnyTask]
    /\ time = [i \in Ids |-> 0]
    /\ timing_flag_ = [i \in Ids |-> FALSE]
    /\ wpc = "enter" /\ notified = FALSE /\ wake_time = 0
    /\ need_execute = {} /\ need_stop = {} /\ residue = {} /\ spent = {}
    /\ cur = NoId /\ cur_result = "TRT_SUCCESS"
    /\ pc = [a \in Actors |-> "idle"]
    /\ arg = [a \in Actors |-> AnyTask]
    /\ due = [a \in Actors |-> 0]
    /\ ptr = [a \in Actors |-> NoId]
    /\ calls = [i \in Ids |-> 0]
    /\ result = [i \in Ids |-> "TRT_SUCCESS"]
    /\ abandoned = {}

Tick ==
    /\ now < MaxTime
    /\ now' = now + 1
    /\ UNCHANGED <<clientVars, timerVars, interVars, workVars, waitVars, histVars>>

SetLeadTime(l) ==
    /\ run_flag_
    /\ lead_time_' = l
    /\ UNCHANGED <<now, clientVars, run_flag_, next_task_id_, tasks_time_, tasks_stop_,
                   interVars, workVars, waitVars, histVars>>

\* Who may call: a thread while the Timer object is not being destroyed, a
\* task function while it runs, behind the loop of Work too (the assert on
\* run_flag_ in StartTask is one of a debug build).
MayCall(a) ==
    /\ pc[a] = "idle"
    /\ IF a = Worker THEN InFun ELSE run_flag_

\* Behind the loop nobody looks into tasks_time_ or tasks_stop_ again.
Left(i) == abandoned' = IF Final THEN abandoned \cup {i} ELSE abandoned

Return(a) ==
    /\ pc' = [pc EXCEPT ![a] = "idle"]
    /\ arg' = [arg EXCEPT ![a] = AnyTask]
    /\ due' = [due EXCEPT ![a] = 0]
    /\ ptr' = [ptr EXCEPT ![a] = NoId]

\* Mutant: notify_all is forgotten.
NotifyNobody == UNCHANGED notified

\* m_workCondition.notify_all(): only a waiting worker notices.
Notify == notified' = (notified \/ wpc \in {"wait", "wait_for"})

NewId == next_task_id_

\* StartTask up to the lock: the clock is read outside it.  A task is started
\* again only once its function has been called.
StartRead(a, t, d) ==
    /\ MayCall(a)
    /\ ~Owed(t)
    /\ \A b \in Actors : pc[b] = "start" => arg[b] # t
    /\ next_task_id_ + Cardinality({b \in Actors : pc[b] = "start"}) <= MaxStarts
    /\ pc' = [pc EXCEPT ![a] = "start"]
    /\ arg' = [arg EXCEPT ![a] = t]
    /\ due' = [due EXCEPT ![a] = now + d]
    /\ UNCHANGED <<ptr, now, timerVars, interVars, workVars, waitVars, histVars>>

StartLocked(a) ==
    /\ pc[a] = "start"
    /\ next_task_id_ <= MaxStarts
    /\ LET i == NewId IN
       /\ next_task_id_' = i + 1
       /\ owner' = [owner EXCEPT ![i] = arg[a]]
       /\ time' = [time EXCEPT ![i] = due[a]]
       /\ timer_task' = [timer_task EXCEPT ![i] = TRUE]
       /\ timing_flag_' = [timing_flag_ EXCEPT ![i] = TRUE]
       /\ timer_data_' = [timer_data_ EXCEPT ![arg[a]] = i]
       /\ tasks_time_' = tasks_time_ \cup {i}
       /\ Left(i)
    /\ Notify
    /\ Return(a)
    /\ UNCHANGED <<now, run_flag_, lead_time_, tasks_stop_, workVars, wake_time, calls, result>>

\* StopTask: the early return on a null timer_data_ ...
StopTest(a, t) ==
    /\ MayCall(a)
    /\ \A b \in Actors : pc[b] = "start" => arg[b] # t
    /\ timer_data_[t] # NoId
    /\ pc' = [pc EXCEPT ![a] = "load"]
    /\ arg' = [arg EXCEPT ![a] = t]
    /\ ptr' = [ptr EXCEPT ![a] = timer_data_[t]]
    /\ UNCHANGED <<due, now, timerVars, interVars, workVars, waitVars, histVars>>

\* ... the cast of timer_data_, which an unoptimised build reads again ...
StopLoad(a) ==
    /\ pc[a] = "load"
    /\ pc' = [pc EXCEPT ![a] = "assert"]
    /\ ptr' = [ptr EXCEPT ![a] = IF Reload THEN timer_data_[arg[a]] ELSE @]
    /\ UNCHANGED <<arg, due, now, timerVars, interVars, workVars, waitVars, histVars>>

\* ... the asserts (another caller or the worker may be ahead) ...
StopAssert(a) ==
    /\ pc[a] = "assert"
    /\ ptr[a] # NoId
    /\ pc' = [pc EXCEPT ![a] = "stop"]
    /\ UNCHANGED <<arg, due, ptr, now, timerVars, interVars, workVars, waitVars, histVars>>

StillTimed(i) == timing_flag_[i]

\* Mutant: tasks_stop_ does not keep the object.
NotKept(i) == tasks_stop_ \ {i}

Erased(S, i) == S \ {i}
Kept(i) == tasks_stop_ \cup {i}

\* ... and the section under the lock: an object no longer timed is left
\* alone, a timed one leaves whatever tree its node is linked in.  What a
\* freed object would give is undefined; NoUseAfterFree says when none is read.
StopLocked(a) ==
    /\ pc[a] = "stop"
    /\ Alive(ptr[a])
    /\ LET i == ptr[a] IN
       \/ /\ ~StillTimed(i)
          /\ UNCHANGED <<tasks_time_, tasks_stop_, residue, timing_flag_, notified, abandoned>>
       \/ /\ StillTimed(i)
          /\ timing_flag_' = [timing_flag_ EXCEPT ![i] = FALSE]
          /\ tasks_stop_' = Kept(i)
          /\ tasks_time_' = Erased(tasks_time_, i)
          /\ residue' = Erased(residue, i)
          /\ Left(i)
          /\ Notify
    /\ Return(a)
    /\ UNCHANGED <<now, run_flag_, lead_time_, next_task_id_, timer_data_, timer_task, owner,
                   time, wpc, need_execute, need_stop, cur, cur_result, spent, wake_time,
                   calls, result>>

\* ~Timer up to the join: no thread is inside the object any more.
Destroy ==
    /\ run_flag_
    /\ \A a \in Threads : pc[a] = "idle"
    /\ run_flag_' = FALSE
    /\ Notify
    /\ UNCHANGED <<now, clientVars, lead_time_, next_task_id_, tasks_time_, tasks_stop_,
                   interVars, workVars, wake_time, histVars>>

------------------------------------------------------------------------------
\* Mutants: one millisecond too much; tasks_stop_ is cleared, not swapped.
DueTooEarly(i) == time[i] <= now + lead_time_ + 1
StopsForgotten == tasks_stop_ \cap {}

\* UpperBound(now + lead_time_): the moment itself is included.
Due(i) == time[i] <= now + lead_time_

\* std::swap(need_stop_tasks, tasks_stop_), with need_stop_tasks empty
TakenStops == tasks_stop_

\* GainNeedExecuteTasks: everything due within lead_time_ leaves the tree, and
\* the stopped tasks leave tasks_stop_ (both lists of Work are empty by then).
GainNeedExecuteTasks ==
    LET ready == {i \in tasks_time_ : Due(i)} IN
    /\ need_execute' = ready
    /\ tasks_time_' = tasks_time_ \ ready
    /\ timing_flag_' = [i \in Ids |-> timing_flag_[i] /\ i \notin ready]
    /\ need_stop' = TakenStops
    /\ tasks_stop_' = {}
    /\ wpc' = "execute"
    /\ UNCHANGED <<now, clientVars, run_flag_, lead_time_, next_task_id_, timer_data_, timer_task,
                   owner, time, residue, cur, cur_result, histVars>>

Enter ==
    /\ wpc = "enter"
    /\ GainNeedExecuteTasks
    /\ UNCHANGED <<spent, waitVars>>

\* The loop after the calls: both lists are cleared, which frees what they
\* hold, and one locked section decides how to go on.
LoopReady == wpc = "execute" /\ need_execute = {} /\ need_stop = {}

LoopExit ==
    /\ LoopReady
    /\ ~run_flag_
    /\ wpc' = "swap"
    /\ spent' = {}
    /\ UNCHANGED <<now, clientVars, timerVars, interVars, need_execute, need_stop, residue,
                   cur, cur_result, waitVars, histVars>>

LoopGain ==
    /\ LoopReady
    /\ run_flag_
    /\ tasks_stop_ # {}
    /\ GainNeedExecuteTasks
    /\ spent' = {}
    /\ UNCHANGED waitVars

\* wait(ul) with nothing to time, else wait_for(begin.time - now); a time
\* already past wraps to a negative duration, which ends the wait at once.
LoopWait ==
    /\ LoopReady
    /\ run_flag_
    /\ tasks_stop_ = {}
    /\ notified' = FALSE
    /\ spent' = {}
    /\ \/ tasks_time_ = {} /\ wpc' = "wait" /\ UNCHANGED wake_time
       \/ \E i \in First(tasks_time_) : wpc' = "wait_for" /\ wake_time' = time[i]
    /\ UNCHANGED <<now, clientVars, timerVars, interVars, need_execute, need_stop, residue,
                   cur, cur_result, histVars>>

\* The wait ends: a notification, the time, or no reason at all.
WaitOver == \/ wpc = "wait" /\ notified
            \/ wpc = "wait_for" /\ (notified \/ now >= wake_time)

WakeExit ==
    /\ wpc \in {"wait", "wait_for"}
    /\ ~run_flag_
    /\ wpc' = "swap"
    /\ notified' = FALSE /\ wake_time' = 0
    /\ UNCHANGED <<now, clientVars, timerVars, interVars, need_execute, need_stop, residue,
                   cur, cur_result, spent, histVars>>

WakeGain ==
    /\ wpc \in {"wait", "wait_for"}
    /\ run_flag_
    /\ GainNeedExecuteTasks
    /\ notified' = FALSE /\ wake_time' = 0
    /\ UNCHANGED spent

\* Behind the loop: what is left is taken over under the lock.
SwapResidue ==
    /\ wpc = "swap"
    /\ residue' = tasks_time_
    /\ tasks_time_' = {}
    /\ need_stop' = TakenStops
    /\ tasks_stop_' = {}
    /\ wpc' = "final"
    /\ UNCHANGED <<now, clientVars, run_flag_, lead_time_, next_task_id_, interVars, need_execute,
                   cur, cur_result, spent, waitVars, histVars>>

\* ExecuteTasks and the residue loop: which task is next, and with which
\* result.  need_stop is a FIFO list in the code; its order is left open.
NextCall(i, r) ==
    \/ wpc = "execute" /\ i \in First(need_execute) /\ r = "TRT_SUCCESS"
    \/ wpc = "execute" /\ need_execute = {} /\ i \in need_stop /\ r = "TRT_TASK_STOP"
    \/ wpc = "final" /\ i \in need_stop /\ r = "TRT_TASK_STOP"
    \/ wpc = "final" /\ need_stop = {} /\ i \in First(residue) /\ r = "TRT_TIMER_STOP"

\* timer_task->timer_data_ = nullptr
DetachTask(i, r) ==
    /\ NextCall(i, r)
    /\ cur' = i /\ cur_result' = r
    /\ need_execute' = need_execute \ {i}
    /\ need_stop' = need_stop \ {i}
    /\ residue' = residue \ {i}
    /\ timer_data_' = [timer_data_ EXCEPT ![owner[i]] = NoId]
    /\ wpc' = IF wpc = "execute" THEN "detach" ELSE "final_detach"
    /\ UNCHANGED <<now, clientVars, timerVars, timer_task, owner, time, timing_flag_,
                   spent, waitVars, histVars>>

\* it->timer_task = nullptr, then the function is called
CallFun ==
    /\ wpc \in {"detach", "final_detach"}
    /\ timer_task' = [timer_task EXCEPT ![cur] = FALSE]
    /\ calls' = [calls EXCEPT ![cur] = @ + 1]
    /\ result' = [result EXCEPT ![cur] = cur_result]
    /\ wpc' = IF wpc = "detach" THEN "fun" ELSE "final_fun"
    /\ UNCHANGED <<now, clientVars, timerVars, timer_data_, owner, time, timing_flag_,
                   need_execute, need_stop, residue, cur, cur_result, spent, waitVars, abandoned>>

\* A task function returns; that of a guarded task not while a thread that
\* holds the lock it needs is inside StopTask for this very object.
ReturnFun ==
    /\ InFun
    /\ pc[Worker] = "idle"
    /\ owner[cur] \in GuardedTasks => \A a \in Threads : ptr[a] # cur
    /\ spent' = spent \cup {cur}
    /\ cur' = NoId
    /\ cur_result' = "TRT_SUCCESS"
    /\ wpc' = IF wpc = "fun" THEN "execute" ELSE "final"
    /\ UNCHANGED <<now, clientVars, timerVars, interVars, need_execute, need_stop, residue,
                   waitVars, histVars>>

Exit ==
    /\ wpc = "final" /\ need_stop = {} /\ residue = {}
    /\ wpc' = "done"
    /\ UNCHANGED <<now, clientVars, timerVars, interVars, need_execute, need_stop, residue,
                   cur, cur_result, spent, waitVars, histVars>>

------------------------------------------------------------------------------
Work ==
    \/ Enter \/ LoopExit \/ LoopGain \/ LoopWait
    \/ (WaitOver /\ (WakeExit \/ WakeGain))
    \/ SwapResidue \/ CallFun \/ Exit
    \/ \E i \in Ids, r \in Outcomes : DetachTask(i, r)

SpuriousWake == ~WaitOver /\ WakeGain

\* The rest of a call that has begun.
Proceed(a) == StartLocked(a) \/ StopLoad(a) \/ StopAssert(a) \/ StopLocked(a)

Request(a) ==
    \E t \in Tasks : StopTest(a, t) \/ \E d \in Intervals : StartRead(a, t, d)

Next ==
    \/ Tick
    \/ \E l \in Leads : SetLeadTime(l)
    \/ \E a \in Actors : Request(a) \/ Proceed(a)
    \/ Destroy
    \/ Work \/ SpuriousWake \/ ReturnFun

Spec == Init /\ [][Next]_vars

\* What the code's scheduling gives: the worker thread and the threads inside
\* a call are scheduled, time passes, and a task function returns.  The last
\* is strong: a function that keeps calling StopTask is, between two calls,
\* able to return again and again.
FairSpec ==
    /\ Spec
    /\ WF_vars(Tick) /\ WF_vars(Work) /\ SF_vars(ReturnFun)
    /\ \A a \in Actors : WF_vars(Proceed(a))

------------------------------------------------------------------------------
WorkPlaces == {"enter", "execute", "detach", "fun", "wait", "wait_for", "swap",
               "final", "final_detach", "final_fun", "done"}

TypeOK ==
    /\ now \in Nat
    /\ run_flag_ \in BOOLEAN
    /\ lead_time_ \in Leads
    /\ next_task_id_ \in 1..(MaxStarts + 1)
    /\ tasks_time_ \subseteq Ids /\ tasks_stop_ \subseteq Ids
    /\ timer_data_ \in [Tasks -> Ids \cup {NoId}]
    /\ timer_task \in [Ids -> BOOLEAN]
    /\ owner \in [Ids -> Tasks]
    /\ time \in [Ids -> Nat]
    /\ timing_flag_ \in [Ids -> BOOLEAN]
    /\ wpc \in WorkPlaces
    /\ notified \in BOOLEAN
    /\ wake_time \in Nat
    /\ need_execute \subseteq Ids /\ need_stop \subseteq Ids
    /\ residue \subseteq Ids /\ spent \subseteq Ids \cup {NoId}
    /\ cur \in Ids \cup {NoId}
    /\ cur_result \in Outcomes
    /\ pc \in [Actors -> {"idle", "start", "load", "assert", "stop"}]
    /\ arg \in [Actors -> Tasks]
    /\ due \in [Actors -> Nat]
    /\ ptr \in [Actors -> Ids \cup {NoId}]
    /\ calls \in [Ids -> Nat]
    /\ result \in [Ids -> Outcomes]
    /\ abandoned \subseteq Ids

\* The start whose function is about to be called.
InHand == IF wpc \in {"detach", "final_detach"} THEN {cur} ELSE {}

\* Between StartTask and the call of its function a task is in exactly one
\* collection of the timer, and its function is never called twice: no path
\* through StopTask, GainNeedExecuteTasks, the swaps and the two loops loses
\* a task or keeps it twice (i_timer.h:57, timer.cpp:78-203).
OneHome ==
    /\ \A i \in Ids : calls[i] <= 1
    /\ {i \in Started : calls[i] = 0} = tasks_time_ \cup tasks_stop_ \cup need_execute
                                         \cup need_stop \cup residue \cup InHand
    /\ tasks_time_ \cap (tasks_stop_ \cup need_execute \cup need_stop \cup residue \cup InHand) = {}
    /\ tasks_stop_ \cap (need_execute \cup need_stop \cup residue \cup InHand) = {}
    /\ need_execute \cap (need_stop \cup residue \cup InHand) = {}
    /\ need_stop \cap (residue \cup InHand) = {}
    /\ residue \cap InHand = {}

\* No function is called twice; when the worker thread ends, and with it
\* ~Timer, the function of every task StartTask accepted has been called
\* (i_timer.h:57), but for those a task function started, or stopped with
\* effect, from behind the loop (timer.cpp:95 reached from 155-167): what such
\* a call puts into tasks_time_ or tasks_stop_ nobody takes out.
RunsExactlyOnce ==
    /\ \A i \in Ids : calls[i] <= 1
    /\ wpc = "done" => \A i \in Started \ abandoned : calls[i] = 1

\* While the worker sleeps un-notified there is nothing it should be doing:
\* no stopped task to report, no stop of the timer to notice, and no task due
\* before the moment it will wake by itself (timer.cpp:66-73, 88-97, 117-137).
NoLostWakeup ==
    wpc \in {"wait", "wait_for"} /\ ~notified =>
        /\ run_flag_
        /\ tasks_stop_ = {}
        /\ IF wpc = "wait" THEN tasks_time_ = {}
           ELSE \A i \in tasks_time_ : wake_time <= time[i]

\* StopTask works on an STimerParaInter it found without the lock; the object
\* is still owned by the timer while it does (timer.cpp:84-97, 115-116), if the
\* task is guarded.  A caller that does not exclude the function has no such
\* guarantee.
NoUseAfterFree ==
    \A a \in Actors :
        arg[a] \in GuardedTasks /\ pc[a] # "idle" /\ ptr[a] # NoId => Alive(ptr[a])

\* A function is called with TRT_SUCCESS only within the lead time of its
\* moment, and with TRT_TIMER_STOP only while the timer is being destroyed.
NeverEarly ==
    \A i \in Started : calls[i] > 0 =>
        /\ result[i] = "TRT_SUCCESS" => \E l \in Leads : time[i] <= now + l
        /\ result[i] = "TRT_TIMER_STOP" => ~run_flag_

\* A task that came due while the clock still runs is answered, whatever else
\* is started and stopped meanwhile (timer.cpp:100-145), or is one that a call
\* from behind the loop abandoned.
DueIsAnswered ==
    \A i \in Ids :
        (i \in tasks_time_ /\ time[i] <= MaxTime) ~> (calls[i] = 1 \/ i \in abandoned)

\* The destructor comes to an end: the join at timer.cpp:54 returns.
DestroyEnds == ~run_flag_ ~> wpc = "done"

------------------------------------------------------------------------------
\* The timer implements the service its interface promises.
Fate(i) ==
    IF i >= next_task_id_ THEN "idle"
    ELSE IF calls[i] > 0 THEN result[i]
    ELSE IF i \in tasks_time_ \cup residue THEN "pending"
    ELSE IF i \in tasks_stop_ \cup need_stop THEN "stopping"
    ELSE IF i \in need_execute THEN "expiring"
    ELSE CASE cur_result = "TRT_SUCCESS" -> "expiring"
           [] cur_result = "TRT_TASK_STOP" -> "stopping"
           [] OTHER -> "pending"

Service == INSTANCE TimerService WITH fate <- [i \in Ids |-> Fate(i)], open <- run_flag_

\* Every step of the timer is a step of the service or none (i_timer.h:55-57).
ImplementsService == Service!ServiceSafety
==============================================================================
