----------------------------- MODULE TimerProofs -----------------------------
(***************************************************************************)
(* Theorems about Timer, for any tasks, threads, clock bound, intervals    *)
(* and number of starts.                                                   *)
(***************************************************************************)
EXTENDS Timer, TLAPS

\* Where the worker is, and what it holds there.
Holding == wpc \in {"detach", "fun", "final_detach", "final_fun"}

Control ==
    /\ Holding => cur \in Ids
    /\ ~Holding => cur = NoId
    /\ \A a \in Actors : pc[a] = "stop" => ptr[a] \in Ids

TypeInv == TypeOK /\ Control

\* AnyTask is a task.
LEMMA AnyTaskType == AnyTask \in Tasks
  BY TimerAssumption DEF AnyTask

\* The initial states have the types.
LEMMA TypeInit == Init => TypeInv
  <1> SUFFICES ASSUME Init PROVE TypeInv
    OBVIOUS
  <1> USE DEF NoId
  <1>1. /\ run_flag_ \in BOOLEAN /\ lead_time_ \in Leads /\ wpc \in WorkPlaces
        /\ notified \in BOOLEAN /\ wake_time \in Nat /\ now \in Nat
        /\ cur \in Ids \cup {NoId} /\ cur_result \in Outcomes
    BY DEF Init, WorkPlaces, Outcomes
  <1>6. next_task_id_ \in 1..(MaxStarts + 1)
    BY TimerAssumption DEF Init
  <1>2. /\ tasks_time_ \subseteq Ids /\ tasks_stop_ \subseteq Ids
        /\ need_execute \subseteq Ids /\ need_stop \subseteq Ids
        /\ residue \subseteq Ids /\ spent \subseteq Ids \cup {NoId}
    BY DEF Init
  <1>3. /\ timer_data_ \in [Tasks -> Ids \cup {NoId}]
        /\ timer_task \in [Ids -> BOOLEAN] /\ owner \in [Ids -> Tasks]
        /\ time \in [Ids -> Nat] /\ timing_flag_ \in [Ids -> BOOLEAN]
        /\ calls \in [Ids -> Nat] /\ result \in [Ids -> Outcomes] /\ abandoned \subseteq Ids
    BY AnyTaskType DEF Init, Outcomes
  <1>4. /\ pc \in [Actors -> {"idle", "start", "load", "assert", "stop"}]
        /\ arg \in [Actors -> Tasks] /\ due \in [Actors -> Nat]
        /\ ptr \in [Actors -> Ids \cup {NoId}]
    BY AnyTaskType DEF Init
  <1>5. Control
    BY DEF Init, Control, Holding
  <1> QED
    BY <1>1, <1>2, <1>3, <1>4, <1>5, <1>6 DEF TypeInv, TypeOK

\* What GainNeedExecuteTasks takes and leaves are sets of ids.
LEMMA TypeGain ==
  ASSUME TypeInv, GainNeedExecuteTasks, ~Holding,
         spent' \subseteq Ids \cup {NoId}, notified' \in BOOLEAN, wake_time' \in Nat
  PROVE  TypeInv'
  BY DEF TypeInv, TypeOK, Control, Holding, GainNeedExecuteTasks, Due, TakenStops,
         WorkPlaces, clientVars, histVars

\* Every step keeps the types.
LEMMA TypeNext == TypeInv /\ [Next]_vars => TypeInv'
  <1> SUFFICES ASSUME TypeInv, [Next]_vars PROVE TypeInv'
    OBVIOUS
  <1> USE TimerAssumption DEF NoId
  <1>1. CASE Tick
    BY <1>1 DEF Tick, TypeInv, TypeOK, Control, Holding, clientVars, timerVars, interVars,
                workVars, waitVars, histVars
  <1>2. ASSUME NEW l \in Leads, SetLeadTime(l) PROVE TypeInv'
    BY <1>2 DEF SetLeadTime, TypeInv, TypeOK, Control, Holding, clientVars, interVars,
                workVars, waitVars, histVars
  <1>3. ASSUME NEW a \in Actors, NEW t \in Tasks, NEW d \in Intervals, StartRead(a, t, d)
        PROVE TypeInv'
    <2>1. now + d \in Nat
      BY <1>3 DEF TypeInv, TypeOK
    <2> QED
      BY <1>3, <2>1 DEF StartRead, MayCall, TypeInv, TypeOK, Control, Holding, timerVars,
                  interVars, workVars, waitVars, histVars
  <1>4. ASSUME NEW a \in Actors, StartLocked(a) PROVE TypeInv'
    <2>1. next_task_id_ \in Ids /\ next_task_id_ + 1 \in 1..(MaxStarts + 1)
      BY <1>4 DEF StartLocked, TypeInv, TypeOK, Ids
    <2> QED
      BY <1>4, <2>1, AnyTaskType
      DEF StartLocked, NewId, Left, Return, Notify, TypeInv, TypeOK, Control, Holding, workVars
  <1>5. ASSUME NEW a \in Actors, NEW t \in Tasks, StopTest(a, t) PROVE TypeInv'
    BY <1>5 DEF StopTest, MayCall, TypeInv, TypeOK, Control, Holding, timerVars,
                interVars, workVars, waitVars, histVars
  <1>6. ASSUME NEW a \in Actors, StopLoad(a) PROVE TypeInv'
    BY <1>6 DEF StopLoad, TypeInv, TypeOK, Control, Holding, timerVars,
                interVars, workVars, waitVars, histVars
  <1>7. ASSUME NEW a \in Actors, StopAssert(a) PROVE TypeInv'
    BY <1>7 DEF StopAssert, TypeInv, TypeOK, Control, Holding, timerVars,
                interVars, workVars, waitVars, histVars
  <1>8. ASSUME NEW a \in Actors, StopLocked(a) PROVE TypeInv'
    <2>1. ptr[a] \in Ids
      BY <1>8 DEF StopLocked, TypeInv, Control
    <2> QED
      BY <1>8, <2>1, AnyTaskType
      DEF StopLocked, StillTimed, Kept, Erased, Left, Return, Notify, TypeInv, TypeOK, Control, Holding
  <1>9. CASE Destroy
    BY <1>9 DEF Destroy, Notify, TypeInv, TypeOK, Control, Holding, clientVars, interVars,
                workVars, histVars
  <1>10. CASE Enter
    BY <1>10, TypeGain DEF Enter, waitVars, TypeInv, TypeOK, Holding
  <1>11. CASE LoopExit
    BY <1>11 DEF LoopExit, LoopReady, TypeInv, TypeOK, Control, Holding, WorkPlaces, clientVars,
                 timerVars, interVars, waitVars, histVars
  <1>12. CASE LoopGain
    BY <1>12, TypeGain DEF LoopGain, LoopReady, waitVars, TypeInv, TypeOK, Holding
  <1>13. CASE LoopWait
    BY <1>13 DEF LoopWait, LoopReady, First, TypeInv, TypeOK, Control, Holding, WorkPlaces,
                 clientVars, timerVars, interVars, histVars
  <1>14. CASE WakeExit
    BY <1>14 DEF WakeExit, TypeInv, TypeOK, Control, Holding, WorkPlaces, clientVars,
                 timerVars, interVars, histVars
  <1>15. CASE WakeGain
    BY <1>15, TypeGain DEF WakeGain, TypeInv, TypeOK, Holding
  <1>16. CASE SwapResidue
    BY <1>16 DEF SwapResidue, TakenStops, TypeInv, TypeOK, Control, Holding, WorkPlaces, clientVars,
                 interVars, waitVars, histVars
  <1>17. ASSUME NEW i \in Ids, NEW r \in Outcomes, DetachTask(i, r) PROVE TypeInv'
    <2>1. wpc' \in {"detach", "final_detach"} /\ cur' = i /\ cur_result' = r
      BY <1>17 DEF DetachTask
    <2>2. Control'
      BY <1>17, <2>1 DEF DetachTask, TypeInv, TypeOK, Control, Holding, clientVars
    <2>3. TypeOK'
      BY <1>17, <2>1 DEF DetachTask, TypeInv, TypeOK, WorkPlaces, clientVars, timerVars, waitVars, histVars
    <2> QED
      BY <2>2, <2>3 DEF TypeInv
  <1>18. CASE CallFun
    BY <1>18 DEF CallFun, TypeInv, TypeOK, Control, Holding, WorkPlaces, clientVars,
                 timerVars, waitVars
  <1>19. CASE ReturnFun
    BY <1>19 DEF ReturnFun, InFun, TypeInv, TypeOK, Control, Holding, WorkPlaces, Outcomes,
                 clientVars, timerVars, interVars, waitVars, histVars
  <1>20. CASE Exit
    BY <1>20 DEF Exit, TypeInv, TypeOK, Control, Holding, WorkPlaces, clientVars,
                 timerVars, interVars, waitVars, histVars
  <1>21. CASE UNCHANGED vars
    BY <1>21 DEF vars, TypeInv, TypeOK, Control, Holding, clientVars, timerVars, interVars,
                 workVars, waitVars, histVars
  <1> QED
    BY <1>1, <1>2, <1>3, <1>4, <1>5, <1>6, <1>7, <1>8, <1>9, <1>10, <1>11, <1>12, <1>13,
       <1>14, <1>15, <1>16, <1>17, <1>18, <1>19, <1>20, <1>21
    DEF Next, Request, Proceed, Work, SpuriousWake

\* Every variable of the timer keeps its type, whatever the constants are.
THEOREM TimerTypes == Spec => []TypeOK
  <1>1. TypeInv => TypeOK
    BY DEF TypeInv
  <1> QED
    BY TypeInit, TypeNext, <1>1, PTL DEF Spec

------------------------------------------------------------------------------
(***************************************************************************)
(* No wakeup is lost.  Nothing but TypeInv is needed: everything that      *)
(* gives the sleeping worker something to do happens under the lock that   *)
(* the sleep was entered with, and notifies.                               *)
(***************************************************************************)
LEMMA WakeupNext == TypeInv /\ NoLostWakeup /\ [Next]_vars => NoLostWakeup'
  <1> SUFFICES ASSUME TypeInv, NoLostWakeup, [Next]_vars PROVE NoLostWakeup'
    OBVIOUS
  <1> DEFINE Asleep == wpc \in {"wait", "wait_for"} /\ ~notified
             Rest == <<wpc, notified, wake_time, run_flag_, tasks_stop_, tasks_time_, time>>
  <1>1. ASSUME UNCHANGED Rest PROVE NoLostWakeup'
    BY <1>1 DEF NoLostWakeup
  <1>2. ASSUME ~Asleep' PROVE NoLostWakeup'
    BY <1>2 DEF NoLostWakeup
  <1>3. ASSUME NEW a \in Actors, StartLocked(a) PROVE ~Asleep'
    BY <1>3 DEF StartLocked, Notify, workVars, TypeInv, TypeOK
  <1>4. ASSUME NEW a \in Actors, StopLocked(a) PROVE ~Asleep' \/ UNCHANGED Rest
    BY <1>4 DEF StopLocked, Notify, TypeInv, TypeOK
  <1>5. CASE Destroy
    BY <1>2, <1>5 DEF Destroy, Notify, workVars, TypeInv, TypeOK
  <1>6. CASE LoopWait
    BY <1>6 DEF LoopWait, First, NoLostWakeup, TypeInv, TypeOK, timerVars, interVars
  <1>7. ASSUME wpc' \notin {"wait", "wait_for"} PROVE NoLostWakeup'
    BY <1>2, <1>7
  <1>8. CASE Enter \/ LoopExit \/ LoopGain \/ WakeExit \/ WakeGain \/ SwapResidue \/ CallFun \/ Exit
    BY <1>7, <1>8 DEF Enter, LoopExit, LoopGain, WakeExit, WakeGain, SwapResidue, CallFun, Exit,
                      GainNeedExecuteTasks
  <1>9. CASE ReturnFun \/ \E i \in Ids, r \in Outcomes : DetachTask(i, r)
    BY <1>7, <1>9 DEF ReturnFun, DetachTask
  <1>10. CASE Tick \/ (\E l \in Leads : SetLeadTime(l)) \/ UNCHANGED vars
    BY <1>1, <1>10 DEF Tick, SetLeadTime, vars, timerVars, interVars, workVars, waitVars
  <1>11. ASSUME NEW a \in Actors,
                Request(a) \/ StopLoad(a) \/ StopAssert(a)
         PROVE  NoLostWakeup'
    BY <1>1, <1>11 DEF Request, StopTest, StartRead, StopLoad, StopAssert, timerVars, interVars,
                       workVars, waitVars
  <1> HIDE DEF Asleep, Rest
  <1> QED
    BY <1>1, <1>2, <1>3, <1>4, <1>5, <1>6, <1>8, <1>9, <1>10, <1>11
    DEF Next, Proceed, Work, SpuriousWake

\* The worker never sleeps through a stopped task, the end of the timer or the
\* earliest moment in the tree, for any number of threads and tasks.
THEOREM TimerNoLostWakeup == Spec => []NoLostWakeup
  <1>1. Init => NoLostWakeup
    BY DEF Init, NoLostWakeup
  <1> QED
    BY TypeInit, TypeNext, WakeupNext, <1>1, PTL DEF Spec

------------------------------------------------------------------------------
(***************************************************************************)
(* No function is called early, and StopTask never uses what was freed.    *)
(***************************************************************************)

\* What the lists and trees of the timer hold.
Listed == tasks_time_ \cup tasks_stop_ \cup need_execute \cup need_stop \cup residue

\* Nothing has been called of what was never started.
Fresh == \A i \in Ids : i >= next_task_id_ => calls[i] = 0

\* Whatever is in use was handed out by StartTask.
Known ==
    /\ Listed \subseteq Started
    /\ Holding => cur \in Started
    /\ \A t \in Tasks : timer_data_[t] \in Started \cup {NoId}
    /\ \A a \in Actors : ptr[a] \in Started \cup {NoId}
    /\ Fresh

\* The lists Work fills are empty before it does, and it leaves its loop only
\* after the destructor has begun.
Drained ==
    /\ wpc \in {"enter", "wait", "wait_for", "swap"} => need_execute = {} /\ need_stop = {}
    /\ ~Final => residue = {}
    /\ Final => need_execute = {}
    /\ Final \/ wpc = "swap" => ~run_flag_

Came(i) == \E l \in Leads : time[i] <= now + l

\* What is to be called with TRT_SUCCESS has come due.
Timely ==
    /\ \A i \in need_execute : Came(i)
    /\ \A i \in InHand : /\ cur_result = "TRT_SUCCESS" => Came(i)
                         /\ cur_result = "TRT_TIMER_STOP" => ~run_flag_
    /\ NeverEarly

\* What a task points at is its own and in a list; what a caller of StopTask found
\* is the task's own and, if the task is guarded, at most being called.
Owned ==
    /\ \A t \in Tasks : timer_data_[t] # NoId =>
          timer_data_[t] \in Listed /\ owner[timer_data_[t]] = t
    /\ \A a \in Actors : ptr[a] # NoId =>
          /\ pc[a] # "idle" /\ owner[ptr[a]] = arg[a]
          /\ arg[a] \in GuardedTasks => ptr[a] \in Listed \cup {cur}
    /\ pc[Worker] # "idle" => InFun

UseInv == TypeInv /\ Known /\ Drained /\ Timely /\ Owned

\* Work leaves nothing behind in a list it is about to fill.
LEMMA DrainedNext == UseInv /\ [Next]_vars => Drained'
  <1> SUFFICES ASSUME UseInv, [Next]_vars PROVE Drained'
    OBVIOUS
  <1> USE DEF UseInv, Drained, Final, TypeInv, TypeOK
  <1> DEFINE Rest == <<wpc, need_execute, need_stop, residue, run_flag_>>
  <1>1. ASSUME UNCHANGED Rest PROVE Drained'
    BY <1>1
  <1>2. CASE Tick \/ (\E l \in Leads : SetLeadTime(l)) \/ UNCHANGED vars
    BY <1>1, <1>2 DEF Tick, SetLeadTime, vars, timerVars, workVars
  <1>3. ASSUME NEW a \in Actors, Request(a) \/ StopLoad(a) \/ StopAssert(a) PROVE Drained'
    BY <1>1, <1>3 DEF Request, StartRead, StopTest, StopLoad, StopAssert, timerVars, workVars
  <1>4. ASSUME NEW a \in Actors, StartLocked(a) PROVE Drained'
    BY <1>1, <1>4 DEF StartLocked, workVars
  <1>5. ASSUME NEW a \in Actors, StopLocked(a) PROVE Drained'
    BY <1>5 DEF StopLocked, Erased
  <1>6. CASE Enter \/ LoopGain \/ WakeGain
    BY <1>6 DEF Enter, LoopGain, LoopReady, WakeGain, GainNeedExecuteTasks
  <1>7. CASE LoopExit \/ LoopWait \/ WakeExit
    BY <1>7 DEF LoopExit, LoopWait, LoopReady, WakeExit, timerVars
  <1>8. CASE SwapResidue
    BY <1>8 DEF SwapResidue
  <1>9. CASE Exit \/ Destroy
    BY <1>9 DEF Exit, Destroy, timerVars, workVars
  <1>10. CASE CallFun
    BY <1>10 DEF CallFun, timerVars
  <1>11. CASE ReturnFun
    BY <1>11 DEF ReturnFun, InFun, timerVars
  <1>12. ASSUME NEW i \in Ids, NEW r \in Outcomes, DetachTask(i, r) PROVE Drained'
    BY <1>12 DEF DetachTask, NextCall, timerVars
  <1> HIDE DEF Rest
  <1> QED
    BY <1>2, <1>3, <1>4, <1>5, <1>6, <1>7, <1>8, <1>9, <1>10, <1>11, <1>12
    DEF Next, Proceed, Work, SpuriousWake

\* GainNeedExecuteTasks only moves what is listed.
LEMMA GainListed ==
  ASSUME UseInv, GainNeedExecuteTasks, need_execute = {}, need_stop = {}
  PROVE  Listed' = Listed
  BY DEF UseInv, TypeInv, TypeOK, Listed, GainNeedExecuteTasks, TakenStops

\* Nothing is used that StartTask has not handed out.
LEMMA KnownNext == UseInv /\ [Next]_vars => Known'
  <1> SUFFICES ASSUME UseInv, [Next]_vars PROVE Known'
    OBVIOUS
  <1> USE TimerAssumption DEF UseInv, Known, Fresh, Started, Holding, TypeInv, TypeOK, NoId
  <1> DEFINE Rest == <<Listed, wpc, cur, next_task_id_, timer_data_, ptr, calls>>
  <1>1. ASSUME UNCHANGED Rest PROVE Known'
    BY <1>1
  <1>2. CASE Tick \/ (\E l \in Leads : SetLeadTime(l)) \/ Destroy \/ UNCHANGED vars
    BY <1>1, <1>2 DEF Tick, SetLeadTime, Destroy, vars, clientVars, timerVars, interVars, workVars,
                      histVars, Listed
  <1>3. ASSUME NEW a \in Actors, Request(a) \/ StopLoad(a) \/ StopAssert(a) PROVE Known'
    <2>1. \A b \in Actors : ptr'[b] \in Started \cup {NoId}
      <3>1. ASSUME NEW t \in Tasks, NEW d \in Intervals, StartRead(a, t, d)
            PROVE \A b \in Actors : ptr'[b] \in Started \cup {NoId}
        BY <3>1 DEF StartRead
      <3>2. ASSUME NEW t \in Tasks, StopTest(a, t)
            PROVE \A b \in Actors : ptr'[b] \in Started \cup {NoId}
        BY <3>2 DEF StopTest
      <3>3. CASE StopLoad(a)
        BY <3>3 DEF StopLoad
      <3>4. CASE StopAssert(a)
        BY <3>4 DEF StopAssert
      <3> QED
        BY <1>3, <3>1, <3>2, <3>3, <3>4 DEF Request
    <2>2. UNCHANGED <<Listed, wpc, cur, next_task_id_, timer_data_, calls>>
      BY <1>3 DEF Request, StartRead, StopTest, StopLoad, StopAssert, timerVars, interVars,
                  workVars, histVars, Listed
    <2> QED
      BY <2>1, <2>2
  <1>4. ASSUME NEW a \in Actors, StartLocked(a) PROVE Known'
    <2> DEFINE n == next_task_id_
    <2>1. /\ next_task_id_' = n + 1 /\ n \in Ids /\ Listed' = Listed \cup {n}
          /\ timer_data_' = [timer_data_ EXCEPT ![arg[a]] = n]
          /\ ptr' = [ptr EXCEPT ![a] = NoId]
          /\ UNCHANGED <<cur, wpc, calls>>
      BY <1>4 DEF StartLocked, NewId, Return, workVars, histVars, Ids, Listed
    <2>2. \A i \in Ids : i < n + 1 <=> i < n \/ i = n
      BY <2>1 DEF Ids
    <2>3. \A i \in Ids : i >= n + 1 => i >= n
      BY <2>1 DEF Ids
    <2> QED
      BY <2>1, <2>2, <2>3
  <1>5. ASSUME NEW a \in Actors, StopLocked(a) PROVE Known'
    <2>1. ptr[a] \in Started
      BY <1>5 DEF StopLocked, Control
    <2>2. Listed' \subseteq Listed \cup {ptr[a]}
      BY <1>5 DEF StopLocked, Kept, Erased, Listed
    <2> QED
      BY <1>5, <2>1, <2>2 DEF StopLocked, Return, histVars
  <1>6. CASE Enter \/ LoopGain \/ WakeGain
    <2>1. need_execute = {} /\ need_stop = {} /\ GainNeedExecuteTasks
      BY <1>6 DEF Enter, LoopGain, LoopReady, WakeGain, Drained
    <2> QED
      BY <1>6, <2>1, GainListed
      DEF Enter, LoopGain, LoopReady, WakeGain, GainNeedExecuteTasks, clientVars, histVars
  <1>7. CASE LoopExit \/ LoopWait \/ WakeExit
    BY <1>7 DEF LoopExit, LoopWait, LoopReady, WakeExit, clientVars, timerVars, interVars, histVars,
                Listed
  <1>8. CASE SwapResidue
    BY <1>8 DEF SwapResidue, TakenStops, Drained, clientVars, interVars, histVars, Listed
  <1>9. CASE Exit
    BY <1>9 DEF Exit, clientVars, timerVars, interVars, histVars, Listed
  <1>10. CASE CallFun
    <2>1. cur \in Started /\ calls' = [calls EXCEPT ![cur] = @ + 1]
      BY <1>10 DEF CallFun
    <2>2. \A i \in Ids : i >= next_task_id_ => i # cur
      BY <2>1 DEF Ids
    <2>3. \A i \in Ids : i >= next_task_id_ => calls'[i] = 0
      BY <2>1, <2>2
    <2>4. UNCHANGED <<Listed, cur, next_task_id_, timer_data_, ptr>> /\ Holding'
      BY <1>10 DEF CallFun, clientVars, timerVars, Listed
    <2> QED
      BY <2>1, <2>3, <2>4
  <1>11. CASE ReturnFun
    BY <1>11 DEF ReturnFun, InFun, clientVars, timerVars, interVars, histVars, Listed
  <1>12. ASSUME NEW i \in Ids, NEW r \in Outcomes, DetachTask(i, r) PROVE Known'
    <2>1. i \in Started /\ Listed' \subseteq Listed
      BY <1>12 DEF DetachTask, NextCall, First, Listed, timerVars
    <2> QED
      BY <1>12, <2>1 DEF DetachTask, clientVars, timerVars, histVars
  <1> HIDE DEF Rest
  <1> QED
    BY <1>2, <1>3, <1>4, <1>5, <1>6, <1>7, <1>8, <1>9, <1>10, <1>11, <1>12
    DEF Next, Proceed, Work, SpuriousWake

\* The moments of what is due do not move, and the clock only advances.
LEMMA TimelyNext == UseInv /\ [Next]_vars => Timely'
  <1> SUFFICES ASSUME UseInv, [Next]_vars PROVE Timely'
    OBVIOUS
  <1> USE TimerAssumption DEF UseInv, Timely, Came, InHand, NeverEarly, Started, TypeInv, TypeOK
  <1> DEFINE Rest == <<need_execute, cur, cur_result, wpc, time, calls, result, next_task_id_>>
  <1>1. ASSUME UNCHANGED Rest, now' = now \/ now' = now + 1, run_flag_' = run_flag_ \/ run_flag_' = FALSE
        PROVE Timely'
    <2>1. \A i \in Ids : Came(i) => Came(i)'
      BY <1>1
    <2> HIDE DEF Came
    <2> QED
      BY <1>1, <2>1, Control DEF Control, Holding
  <1>2. CASE Tick \/ (\E l \in Leads : SetLeadTime(l)) \/ Destroy \/ UNCHANGED vars
    BY <1>1, <1>2 DEF Tick, SetLeadTime, Destroy, vars, timerVars, interVars, workVars, histVars
  <1>3. ASSUME NEW a \in Actors, Request(a) \/ StopLoad(a) \/ StopAssert(a) PROVE Timely'
    BY <1>1, <1>3 DEF Request, StartRead, StopTest, StopLoad, StopAssert, timerVars, interVars,
                workVars, histVars
  <1>4. ASSUME NEW a \in Actors, StartLocked(a) PROVE Timely'
    <2> DEFINE n == next_task_id_
    <2>1. /\ next_task_id_' = n + 1 /\ n \in Ids
          /\ time' = [time EXCEPT ![n] = due[a]]
          /\ UNCHANGED <<now, run_flag_, need_execute, cur, cur_result, wpc, calls, result>>
      BY <1>4 DEF StartLocked, NewId, workVars, histVars, Ids
    <2>2. calls[n] = 0
      BY <2>1 DEF Known, Fresh, Ids
    <2>3. \A i \in Started : i # n /\ time'[i] = time[i]
      BY <2>1 DEF Ids
    <2>4. \A i \in Started : Came(i) => Came(i)'
      BY <2>1, <2>3
    <2>5. need_execute \cup InHand \subseteq Started
      BY DEF Known, Listed, Holding
    <2>6. \A i \in Started' : i \in Started \/ i = n
      BY <2>1 DEF Ids
    <2> HIDE DEF Came
    <2>7. NeverEarly'
      <3> SUFFICES ASSUME NEW i \in Started', calls'[i] > 0
                   PROVE /\ result'[i] = "TRT_SUCCESS" => Came(i)'
                         /\ result'[i] = "TRT_TIMER_STOP" => ~run_flag_'
        BY DEF Came
      <3>1. i \in Started
        BY <2>1, <2>2, <2>6
      <3> QED
        BY <2>1, <2>4, <3>1 DEF Came
    <2> HIDE DEF NeverEarly
    <2> QED
      BY <2>1, <2>4, <2>5, <2>7
  <1>5. ASSUME NEW a \in Actors, StopLocked(a) PROVE Timely'
    BY <1>1, <1>5 DEF StopLocked, histVars
  <1>6. CASE Enter \/ LoopGain \/ WakeGain
    BY <1>6 DEF Enter, LoopGain, LoopReady, WakeGain, GainNeedExecuteTasks, Due, histVars
  <1>7. CASE LoopExit \/ LoopWait \/ WakeExit
    BY <1>7 DEF LoopExit, LoopWait, LoopReady, WakeExit, timerVars, interVars, histVars
  <1>8. CASE SwapResidue
    BY <1>8 DEF SwapResidue, interVars, histVars
  <1>9. CASE Exit
    BY <1>9 DEF Exit, timerVars, interVars, histVars
  <1>10. CASE CallFun
    <2>1. cur \in Ids /\ InHand = {cur} /\ InHand' = {}
      BY <1>10 DEF CallFun, Control, Holding
    <2>2. /\ calls' = [calls EXCEPT ![cur] = @ + 1] /\ result' = [result EXCEPT ![cur] = cur_result]
          /\ UNCHANGED <<now, run_flag_, need_execute, time, next_task_id_>>
      BY <1>10 DEF CallFun, timerVars
    <2> QED
      BY <2>1, <2>2
  <1>11. CASE ReturnFun
    BY <1>11 DEF ReturnFun, InFun, timerVars, interVars, histVars
  <1>12. ASSUME NEW i \in Ids, NEW r \in Outcomes, DetachTask(i, r) PROVE Timely'
    BY <1>12 DEF DetachTask, NextCall, First, Drained, Final, timerVars, histVars
  <1> HIDE DEF Rest
  <1> QED
    BY <1>2, <1>3, <1>4, <1>5, <1>6, <1>7, <1>8, <1>9, <1>10, <1>11, <1>12
    DEF Next, Proceed, Work, SpuriousWake

\* What StopTask may still use stays alive.
LEMMA OwnedNext == UseInv /\ [Next]_vars => Owned'
  <1> SUFFICES ASSUME UseInv, [Next]_vars PROVE Owned'
    OBVIOUS
  <1> USE TimerAssumption DEF UseInv, Owned, InFun, TypeInv, TypeOK, NoId
  <1> DEFINE Rest == <<timer_data_, owner, pc, ptr, arg, wpc>>
  <1>1. ASSUME UNCHANGED Rest, Listed \cup {cur} \subseteq Listed' \cup {cur'}, Listed \subseteq Listed'
        PROVE Owned'
    BY <1>1
  <1>2. CASE Tick \/ (\E l \in Leads : SetLeadTime(l)) \/ Destroy \/ UNCHANGED vars
    BY <1>1, <1>2 DEF Tick, SetLeadTime, Destroy, vars, clientVars, timerVars, interVars, workVars,
                      Listed
  <1>3. ASSUME NEW a \in Actors, Request(a) \/ StopLoad(a) \/ StopAssert(a) PROVE Owned'
    <2>1. UNCHANGED <<Listed, timer_data_, owner, cur, wpc>>
      BY <1>3 DEF Request, StartRead, StopTest, StopLoad, StopAssert, timerVars, interVars,
                  workVars, Listed
    <2>2. ASSUME NEW t \in Tasks, NEW d \in Intervals, StartRead(a, t, d) PROVE Owned'
      BY <2>1, <2>2 DEF StartRead, MayCall
    <2>3. ASSUME NEW t \in Tasks, StopTest(a, t) PROVE Owned'
      BY <2>1, <2>3 DEF StopTest, MayCall
    <2>4. CASE StopLoad(a)
      BY <2>1, <2>4 DEF StopLoad
    <2>5. CASE StopAssert(a)
      BY <2>1, <2>5 DEF StopAssert
    <2> QED
      BY <1>3, <2>2, <2>3, <2>4, <2>5 DEF Request
  <1>4. ASSUME NEW a \in Actors, StartLocked(a) PROVE Owned'
    <2> DEFINE n == next_task_id_
    <2>1. /\ n \in Ids /\ n \notin Started /\ Listed' = Listed \cup {n}
          /\ timer_data_' = [timer_data_ EXCEPT ![arg[a]] = n]
          /\ owner' = [owner EXCEPT ![n] = arg[a]]
          /\ ptr' = [ptr EXCEPT ![a] = NoId] /\ pc' = [pc EXCEPT ![a] = "idle"]
          /\ arg' = [arg EXCEPT ![a] = AnyTask]
          /\ UNCHANGED <<cur, wpc>>
      BY <1>4 DEF StartLocked, NewId, Return, workVars, Ids, Listed, Started
    <2>2. \A i \in Started : owner'[i] = owner[i]
      BY <2>1 DEF Started
    <2> HIDE DEF n
    <2>3. \A t \in Tasks : timer_data_'[t] # NoId =>
             timer_data_'[t] \in Listed' /\ owner'[timer_data_'[t]] = t
      BY <2>1, <2>2 DEF Known
    <2>4. \A b \in Actors : ptr'[b] # NoId =>
             /\ pc'[b] # "idle" /\ owner'[ptr'[b]] = arg'[b]
             /\ arg'[b] \in GuardedTasks => ptr'[b] \in Listed' \cup {cur'}
      BY <2>1, <2>2 DEF Known
    <2>5. pc'[Worker] # "idle" => InFun'
      BY <2>1 DEF Actors
    <2> QED
      BY <2>3, <2>4, <2>5
  <1>5. ASSUME NEW a \in Actors, StopLocked(a) PROVE Owned'
    <2>1. Listed \subseteq Listed'
      BY <1>5 DEF StopLocked, Kept, Erased, Listed
    <2>2. /\ ptr' = [ptr EXCEPT ![a] = NoId] /\ pc' = [pc EXCEPT ![a] = "idle"]
          /\ arg' = [arg EXCEPT ![a] = AnyTask]
          /\ UNCHANGED <<timer_data_, owner, cur, wpc>>
      BY <1>5 DEF StopLocked, Return
    <2> QED
      BY <2>1, <2>2 DEF Actors
  <1>6. CASE Enter \/ LoopGain \/ WakeGain
    <2>1. need_execute = {} /\ need_stop = {} /\ GainNeedExecuteTasks
      BY <1>6 DEF Enter, LoopGain, LoopReady, WakeGain, Drained
    <2>2. Listed' = Listed
      BY <2>1, GainListed
    <2>3. UNCHANGED <<timer_data_, owner, pc, ptr, arg, cur>> /\ ~InFun
      BY <1>6 DEF Enter, LoopGain, LoopReady, WakeGain, GainNeedExecuteTasks, clientVars
    <2> QED
      BY <2>2, <2>3
  <1>7. CASE LoopExit \/ LoopWait \/ WakeExit
    BY <1>7 DEF LoopExit, LoopWait, LoopReady, WakeExit, clientVars, timerVars, interVars, Listed
  <1>8. CASE SwapResidue
    BY <1>8 DEF SwapResidue, TakenStops, Drained, clientVars, interVars, Listed, Final
  <1>9. CASE Exit
    BY <1>9 DEF Exit, clientVars, timerVars, interVars, Listed
  <1>10. CASE CallFun
    BY <1>10 DEF CallFun, clientVars, timerVars, Listed
  <1>11. CASE ReturnFun
    <2>1. cur' = NoId /\ pc[Worker] = "idle" /\ UNCHANGED <<Listed, timer_data_, owner, pc, ptr, arg>>
      BY <1>11 DEF ReturnFun, clientVars, timerVars, interVars, Listed
    <2>2. \A b \in Actors : ptr[b] # NoId /\ arg[b] \in GuardedTasks => ptr[b] # cur
      BY <1>11 DEF ReturnFun, Actors
    <2> QED
      BY <2>1, <2>2
  <1>12. ASSUME NEW i \in Ids, NEW r \in Outcomes, DetachTask(i, r) PROVE Owned'
    <2>1. /\ cur' = i /\ cur = NoId /\ Listed \subseteq Listed' \cup {i}
          /\ timer_data_' = [timer_data_ EXCEPT ![owner[i]] = NoId]
          /\ UNCHANGED <<owner, pc, ptr, arg>> /\ ~InFun
      BY <1>12 DEF DetachTask, NextCall, Control, Holding, clientVars, timerVars, Listed
    <2>2. \A t \in Tasks : timer_data_'[t] # NoId => timer_data_'[t] = timer_data_[t] /\ timer_data_[t] # i
      BY <2>1
    <2> QED
      BY <2>1, <2>2
  <1> HIDE DEF Rest
  <1> QED
    BY <1>2, <1>3, <1>4, <1>5, <1>6, <1>7, <1>8, <1>9, <1>10, <1>11, <1>12
    DEF Next, Proceed, Work, SpuriousWake

\* The initial states satisfy UseInv ...
LEMMA UseInit == Init => UseInv
  <1> SUFFICES ASSUME Init PROVE UseInv
    OBVIOUS
  <1>1. Listed = {} /\ InHand = {}
    BY DEF Init, Listed, InHand
  <1>2. Known
    BY <1>1 DEF Init, Known, Holding, Fresh
  <1>3. Drained
    BY DEF Init, Drained, Final
  <1>4. Timely
    BY <1>1 DEF Init, Timely, NeverEarly, Started
  <1>5. Owned
    BY TimerAssumption DEF Init, Owned, Actors
  <1> QED
    BY TypeInit, <1>2, <1>3, <1>4, <1>5 DEF UseInv

\* ... and every step keeps it.
LEMMA UseNext == UseInv /\ [Next]_vars => UseInv'
  BY TypeNext, KnownNext, DrainedNext, TimelyNext, OwnedNext DEF UseInv

\* UseInv holds throughout.
LEMMA UseInductive == Spec => []UseInv
  BY UseInit, UseNext, PTL DEF Spec

\* A function is called with TRT_SUCCESS only within the lead time of its moment,
\* and with TRT_TIMER_STOP only once the timer is being destroyed.
THEOREM TimerNeverEarly == Spec => []NeverEarly
  <1>1. UseInv => NeverEarly
    BY DEF UseInv, Timely
  <1> QED
    BY <1>1, UseInductive, PTL

\* StopTask of a guarded task uses an object the timer still owns.
THEOREM TimerNoUseAfterFree == Spec => []NoUseAfterFree
  <1>1. UseInv => NoUseAfterFree
    BY DEF UseInv, Owned, NoUseAfterFree, Listed, Alive
  <1> QED
    BY <1>1, UseInductive, PTL

------------------------------------------------------------------------------
(***************************************************************************)
(* Every start is in one place until it is called, and is called once.     *)
(* Task functions may start and stop tasks at any time; behind the loop    *)
(* only they can, and only with what is still listed.                      *)
(***************************************************************************)

\* Once the destructor has begun no thread is inside the timer; what a task
\* function found for StopTask is in a list until it is done with it, for the
\* worker cannot go on meanwhile.
Quiet ==
    /\ ~run_flag_ => \A a \in Threads : pc[a] = "idle"
    /\ ptr[Worker] # NoId => ptr[Worker] \in Listed

\* Behind the loop the timer's own collections hold what was abandoned, and at
\* the end the worker's lists nothing.
Lists ==
    /\ Final => tasks_time_ \cup tasks_stop_ \subseteq abandoned
    /\ wpc = "done" => need_stop = {} /\ residue = {}

\* A task still marked as timed is in a tree, so that StopTask takes from there
\* what it puts into tasks_stop_.  The residue loop leaves the mark of those it
\* has taken out.
Timed ==
    \A i \in Ids : timing_flag_[i] => \/ i \in tasks_time_ \cup residue
                                      \/ Final /\ i \notin Listed

OnceInv == UseInv /\ Quiet /\ Lists /\ Timed /\ OneHome

\* A thread inside the timer means the worker has not left its loop.
LEMMA BusyNotFinal ==
  ASSUME UseInv, Quiet, NEW a \in Threads, pc[a] # "idle"
  PROVE  ~Final /\ run_flag_ = TRUE
  BY DEF UseInv, Drained, Quiet, TypeInv, TypeOK

\* StopTask takes out of a tree what it marks as stopped.
LEMMA StopTakes ==
  ASSUME OnceInv, NEW a \in Actors, StopLocked(a), timing_flag_[ptr[a]]
  PROVE  ptr[a] \in Ids /\ ptr[a] \in tasks_time_ \cup residue
  <1>1. ptr[a] \in Ids /\ ptr[a] # NoId /\ pc[a] # "idle"
    BY DEF StopLocked, OnceInv, UseInv, TypeInv, Control, Ids, NoId
  <1>2. CASE a = Worker
    BY <1>1, <1>2 DEF OnceInv, Quiet, Timed
  <1>3. CASE a \in Threads
    BY <1>1, <1>3, BusyNotFinal DEF OnceInv, Timed
  <1> QED
    BY <1>1, <1>2, <1>3 DEF Actors

\* Nobody enters once the destructor has begun but the worker, and the worker
\* stays where it is while one of its functions is inside StopTask.
LEMMA QuietNext == OnceInv /\ [Next]_vars => Quiet'
  <1> SUFFICES ASSUME OnceInv, [Next]_vars PROVE Quiet'
    OBVIOUS
  <1> USE TimerAssumption DEF OnceInv, Quiet, UseInv, TypeInv, TypeOK, Actors, NoId
  <1>1. ASSUME UNCHANGED <<run_flag_, pc, ptr>>, Listed \subseteq Listed' PROVE Quiet'
    BY <1>1
  <1>2. CASE Tick \/ (\E l \in Leads : SetLeadTime(l)) \/ UNCHANGED vars
    BY <1>1, <1>2 DEF Tick, SetLeadTime, vars, timerVars, workVars, clientVars, Listed
  <1>3. ASSUME NEW a \in Actors, NEW t \in Tasks, NEW d \in Intervals, StartRead(a, t, d)
        PROVE Quiet'
    BY <1>3 DEF StartRead, MayCall, timerVars, workVars, Listed
  <1>4. ASSUME NEW a \in Actors, NEW t \in Tasks, StopTest(a, t) PROVE Quiet'
    <2>1. UNCHANGED <<run_flag_, Listed>> /\ timer_data_[t] \in Listed
      BY <1>4 DEF StopTest, timerVars, workVars, Listed, Owned
    <2> QED
      BY <1>4, <2>1 DEF StopTest, MayCall
  <1>5. ASSUME NEW a \in Actors, StartLocked(a) PROVE Quiet'
    <2>1. UNCHANGED run_flag_ /\ Listed \subseteq Listed'
      BY <1>5 DEF StartLocked, workVars, Listed
    <2> QED
      BY <1>5, <2>1 DEF StartLocked, Return
  <1>6. ASSUME NEW a \in Actors, StopLoad(a) \/ StopAssert(a) PROVE Quiet'
    <2>1. UNCHANGED <<run_flag_, Listed>>
      BY <1>6 DEF StopLoad, StopAssert, timerVars, workVars, Listed
    <2>2. arg[a] \in Tasks /\ (timer_data_[arg[a]] # NoId => timer_data_[arg[a]] \in Listed)
      BY DEF Owned
    <2>3. CASE StopLoad(a)
      BY <2>1, <2>2, <2>3 DEF StopLoad
    <2>4. CASE StopAssert(a)
      BY <2>1, <2>4 DEF StopAssert
    <2> QED
      BY <1>6, <2>3, <2>4
  <1>7. ASSUME NEW a \in Actors, StopLocked(a) PROVE Quiet'
    <2>1. UNCHANGED run_flag_ /\ Listed \subseteq Listed'
      BY <1>7 DEF StopLocked, Kept, Erased, Listed
    <2> QED
      BY <1>7, <2>1 DEF StopLocked, Return
  <1>8. CASE Destroy
    BY <1>8 DEF Destroy, clientVars, workVars, Listed
  <1>9. ASSUME UNCHANGED <<run_flag_, pc, ptr>>, ~InFun PROVE Quiet'
    BY <1>9 DEF Owned
  <1>10. CASE Enter \/ LoopGain \/ WakeGain
    BY <1>9, <1>10
    DEF Enter, LoopGain, LoopReady, WakeGain, GainNeedExecuteTasks, clientVars, InFun
  <1>11. CASE LoopExit \/ LoopWait \/ WakeExit \/ SwapResidue \/ Exit \/ CallFun
    BY <1>9, <1>11 DEF LoopExit, LoopWait, LoopReady, WakeExit, SwapResidue, Exit, CallFun,
                       clientVars, timerVars, InFun
  <1>12. CASE ReturnFun
    BY <1>1, <1>12 DEF ReturnFun, clientVars, timerVars, Listed
  <1>13. ASSUME NEW i \in Ids, NEW r \in Outcomes, DetachTask(i, r) PROVE Quiet'
    BY <1>9, <1>13 DEF DetachTask, NextCall, clientVars, timerVars, InFun
  <1> QED
    BY <1>2, <1>3, <1>4, <1>5, <1>6, <1>7, <1>8, <1>10, <1>11, <1>12, <1>13
    DEF Next, Request, Proceed, Work, SpuriousWake

\* Behind the loop nothing gets into tasks_time_ or tasks_stop_ but what a call
\* abandons.
LEMMA ListsNext == OnceInv /\ [Next]_vars => Lists'
  <1> SUFFICES ASSUME OnceInv, [Next]_vars PROVE Lists'
    OBVIOUS
  <1> USE DEF OnceInv, Lists, Final, UseInv, TypeInv, TypeOK
  <1> DEFINE Rest == <<wpc, need_stop, residue, tasks_time_, tasks_stop_, abandoned>>
  <1>1. ASSUME UNCHANGED Rest PROVE Lists'
    BY <1>1
  <1>2. CASE Tick \/ (\E l \in Leads : SetLeadTime(l)) \/ Destroy \/ UNCHANGED vars
    BY <1>1, <1>2 DEF Tick, SetLeadTime, Destroy, vars, timerVars, workVars, histVars
  <1>3. ASSUME NEW a \in Actors, Request(a) \/ StopLoad(a) \/ StopAssert(a) PROVE Lists'
    BY <1>1, <1>3 DEF Request, StartRead, StopTest, StopLoad, StopAssert, timerVars, workVars,
                      histVars
  <1>4. ASSUME NEW a \in Actors, StartLocked(a) PROVE Lists'
    BY <1>4 DEF StartLocked, Left, workVars
  <1>5. ASSUME NEW a \in Actors, StopLocked(a) PROVE Lists'
    BY <1>5 DEF StopLocked, Kept, Erased, Left
  <1>6. CASE Enter \/ LoopGain \/ WakeGain
    BY <1>6 DEF Enter, LoopGain, WakeGain, GainNeedExecuteTasks
  <1>7. CASE LoopExit \/ LoopWait \/ WakeExit
    BY <1>7 DEF LoopExit, LoopWait, WakeExit
  <1>8. CASE SwapResidue
    BY <1>8 DEF SwapResidue
  <1>9. CASE Exit
    BY <1>9 DEF Exit, timerVars, histVars
  <1>10. CASE CallFun \/ ReturnFun
    BY <1>10 DEF CallFun, ReturnFun, InFun, timerVars, histVars
  <1>11. ASSUME NEW i \in Ids, NEW r \in Outcomes, DetachTask(i, r) PROVE Lists'
    BY <1>11 DEF DetachTask, NextCall, timerVars, histVars
  <1> HIDE DEF Rest
  <1> QED
    BY <1>2, <1>3, <1>4, <1>5, <1>6, <1>7, <1>8, <1>9, <1>10, <1>11
    DEF Next, Proceed, Work, SpuriousWake

\* The mark follows the trees.
LEMMA TimedNext == OnceInv /\ [Next]_vars => Timed'
  <1> SUFFICES ASSUME OnceInv, [Next]_vars PROVE Timed'
    OBVIOUS
  <1> USE DEF OnceInv, Timed, Final, UseInv, TypeInv, TypeOK
  <1> DEFINE Rest == <<wpc, Listed, residue, tasks_time_, timing_flag_>>
  <1>1. ASSUME UNCHANGED Rest PROVE Timed'
    BY <1>1
  <1>2. CASE Tick \/ (\E l \in Leads : SetLeadTime(l)) \/ Destroy \/ UNCHANGED vars
    BY <1>1, <1>2 DEF Tick, SetLeadTime, Destroy, vars, timerVars, workVars, interVars, Listed
  <1>3. ASSUME NEW a \in Actors, Request(a) \/ StopLoad(a) \/ StopAssert(a) PROVE Timed'
    BY <1>1, <1>3 DEF Request, StartRead, StopTest, StopLoad, StopAssert, timerVars, workVars,
                      interVars, Listed
  <1>4. ASSUME NEW a \in Actors, StartLocked(a) PROVE Timed'
    <2> DEFINE n == next_task_id_
    <2>1. /\ n \in Ids /\ Listed' = Listed \cup {n} /\ tasks_time_' = tasks_time_ \cup {n}
          /\ timing_flag_' = [timing_flag_ EXCEPT ![n] = TRUE] /\ UNCHANGED <<wpc, residue>>
      BY <1>4 DEF StartLocked, NewId, workVars, Ids, Listed
    <2> QED
      BY <2>1
  <1>5. ASSUME NEW a \in Actors, StopLocked(a) PROVE Timed'
    <2>1. CASE ~StillTimed(ptr[a])
      BY <1>1, <1>5, <2>1 DEF StopLocked, Listed
    <2>2. CASE StillTimed(ptr[a])
      <3>1. ptr[a] \in Ids
        BY <1>5, <2>2, StopTakes DEF StillTimed
      <3>2. /\ timing_flag_' = [timing_flag_ EXCEPT ![ptr[a]] = FALSE] /\ wpc' = wpc
            /\ tasks_time_' = tasks_time_ \ {ptr[a]} /\ residue' = residue \ {ptr[a]}
            /\ Listed' \subseteq Listed \cup {ptr[a]}
        BY <1>5, <2>2 DEF StopLocked, Kept, Erased, Listed
      <3> QED
        BY <3>1, <3>2
    <2> QED
      BY <2>1, <2>2
  <1>6. CASE Enter \/ LoopGain \/ WakeGain
    BY <1>6 DEF Enter, LoopGain, LoopReady, WakeGain, GainNeedExecuteTasks, Drained
  <1>7. CASE LoopExit \/ LoopWait \/ WakeExit
    BY <1>7 DEF LoopExit, LoopWait, LoopReady, WakeExit, timerVars, interVars
  <1>8. CASE SwapResidue
    BY <1>8 DEF SwapResidue, interVars, Drained
  <1>9. CASE Exit
    BY <1>9 DEF Exit, timerVars, interVars, Listed
  <1>10. CASE CallFun
    BY <1>10 DEF CallFun, timerVars, Listed
  <1>11. CASE ReturnFun
    BY <1>11 DEF ReturnFun, InFun, timerVars, interVars, Listed
  <1>12. ASSUME NEW i \in Ids, NEW r \in Outcomes, DetachTask(i, r) PROVE Timed'
    <2>1. /\ UNCHANGED <<tasks_time_, timing_flag_>> /\ residue' = residue \ {i}
          /\ Final' = Final /\ Listed' = Listed \ {i}
      BY <1>12 DEF DetachTask, NextCall, First, timerVars, Listed, OneHome
    <2>2. ~Final => i \in need_execute \cup need_stop
      BY <1>12 DEF DetachTask, NextCall, First
    <2>3. ~Final => i \notin tasks_time_ \cup residue
      BY <2>2 DEF OneHome
    <2> QED
      BY <2>1, <2>3
  <1> HIDE DEF Rest
  <1> QED
    BY <1>2, <1>3, <1>4, <1>5, <1>6, <1>7, <1>8, <1>9, <1>10, <1>11, <1>12
    DEF Next, Proceed, Work, SpuriousWake

\* GainNeedExecuteTasks takes from the tree, and loses nothing of it.
LEMMA GainHome ==
  ASSUME OnceInv, GainNeedExecuteTasks, need_execute = {}, need_stop = {}, ~Holding
  PROVE  OneHome'
  BY DEF OnceInv, OneHome, InHand, Started, UseInv, TypeInv, TypeOK, Holding,
         GainNeedExecuteTasks, TakenStops, histVars

\* Every step keeps an unanswered start in exactly one place.
LEMMA HomeNext == OnceInv /\ [Next]_vars => OneHome'
  <1> SUFFICES ASSUME OnceInv, [Next]_vars PROVE OneHome'
    OBVIOUS
  <1> USE TimerAssumption DEF OnceInv, OneHome, InHand, Started, UseInv, TypeInv, TypeOK
  <1> DEFINE Rest == <<wpc, need_execute, need_stop, residue, tasks_time_, tasks_stop_,
                       calls, next_task_id_, cur>>
  <1>1. ASSUME UNCHANGED Rest PROVE OneHome'
    BY <1>1
  <1>2. CASE Tick \/ (\E l \in Leads : SetLeadTime(l)) \/ Destroy \/ UNCHANGED vars
    BY <1>1, <1>2 DEF Tick, SetLeadTime, Destroy, vars, timerVars, workVars, histVars
  <1>3. ASSUME NEW a \in Actors, Request(a) \/ StopLoad(a) \/ StopAssert(a)
        PROVE OneHome'
    BY <1>1, <1>3 DEF Request, StartRead, StopTest, StopLoad, StopAssert, timerVars, workVars,
                      histVars
  <1>4. ASSUME NEW a \in Actors, StartLocked(a) PROVE OneHome'
    <2> DEFINE n == next_task_id_
    <2>1. /\ next_task_id_' = n + 1 /\ tasks_time_' = tasks_time_ \cup {n} /\ n \in Ids
          /\ UNCHANGED <<tasks_stop_, need_execute, need_stop, residue, cur, wpc, calls>>
      BY <1>4 DEF StartLocked, NewId, workVars, histVars, Ids
    <2>2. {i \in Ids : i < n + 1} = {i \in Ids : i < n} \cup {n}
      BY <2>1 DEF Ids
    <2>3. calls[n] = 0
      BY <2>1 DEF Known, Fresh, Ids
    <2> QED
      BY <2>1, <2>2, <2>3
  <1>5. ASSUME NEW a \in Actors, StopLocked(a) PROVE OneHome'
    <2>1. CASE ~StillTimed(ptr[a])
      BY <1>1, <1>5, <2>1 DEF StopLocked
    <2>2. CASE StillTimed(ptr[a])
      <3>1. ptr[a] \in tasks_time_ \cup residue /\ ptr[a] \in Ids
        BY <1>5, <2>2, StopTakes DEF StillTimed
      <3>2. /\ tasks_stop_' = tasks_stop_ \cup {ptr[a]}
            /\ tasks_time_' = tasks_time_ \ {ptr[a]} /\ residue' = residue \ {ptr[a]}
            /\ UNCHANGED <<need_execute, need_stop, wpc, cur, calls, next_task_id_>>
        BY <1>5, <2>2 DEF StopLocked, Kept, Erased
      <3> QED
        BY <3>1, <3>2
    <2> QED
      BY <2>1, <2>2
  <1>6. CASE Enter \/ LoopGain \/ WakeGain
    BY <1>6, GainHome DEF Enter, LoopGain, LoopReady, WakeGain, Drained, Holding
  <1>7. CASE LoopExit \/ LoopWait \/ WakeExit
    BY <1>7 DEF LoopExit, LoopWait, LoopReady, WakeExit, timerVars, histVars
  <1>8. CASE SwapResidue
    BY <1>8 DEF SwapResidue, TakenStops, Drained, Final, histVars
  <1>9. CASE Exit
    BY <1>9 DEF Exit, timerVars, histVars
  <1>10. CASE CallFun
    <2>1. /\ cur \in Ids /\ calls[cur] = 0 /\ cur < next_task_id_ /\ InHand = {cur}
      BY <1>10 DEF CallFun, Control, Holding
    <2>2. /\ InHand' = {} /\ calls'[cur] = 1 /\ calls' \in [Ids -> Nat]
          /\ \A i \in Ids : i # cur => calls'[i] = calls[i]
          /\ UNCHANGED <<need_execute, need_stop, residue, tasks_time_, tasks_stop_, next_task_id_>>
      BY <1>10, <2>1 DEF CallFun, timerVars
    <2>3. {i \in Started : calls[i] = 0}' = {i \in Started : calls[i] = 0} \ {cur}
      BY <2>1, <2>2
    <2>4. \A i \in Ids : calls'[i] <= 1
      <3>1. \A i \in Ids : calls[i] <= 1
        OBVIOUS
      <3> HIDE DEF InHand, Started, UseInv, TypeInv, TypeOK, OneHome, OnceInv
      <3> QED
        BY <2>2, <3>1
    <2>5. {i \in Started : calls[i] = 0}' = (tasks_time_ \cup tasks_stop_ \cup need_execute
                                             \cup need_stop \cup residue \cup InHand)'
      <3> HIDE DEF InHand, Started, TypeInv, TypeOK
      <3> QED
        BY <2>1, <2>2, <2>3
    <2> HIDE DEF InHand, Started
    <2> QED
      BY <2>1, <2>2, <2>4, <2>5
  <1>11. CASE ReturnFun
    BY <1>11 DEF ReturnFun, InFun, timerVars, histVars
  <1>12. ASSUME NEW i \in Ids, NEW r \in Outcomes, DetachTask(i, r) PROVE OneHome'
    BY <1>12 DEF DetachTask, NextCall, First, Drained, Final, timerVars, histVars
  <1> HIDE DEF Rest
  <1> QED
    BY <1>2, <1>3, <1>4, <1>5, <1>6, <1>7, <1>8, <1>9, <1>10, <1>11, <1>12
    DEF Next, Proceed, Work, SpuriousWake

\* The initial states satisfy the invariant.
\* The initial states satisfy the invariant.
LEMMA OnceInit == Init => OnceInv
  <1> SUFFICES ASSUME Init PROVE OnceInv
    OBVIOUS
  <1>1. Quiet /\ Lists /\ Timed
    BY TimerAssumption DEF Init, Quiet, Lists, Timed, Final, Actors
  <1>2. Started = {}
    BY DEF Init, Started, Ids
  <1>3. OneHome
    BY <1>2 DEF Init, OneHome, InHand
  <1> QED
    BY UseInit, <1>1, <1>3 DEF OnceInv

\* Every step keeps it.
LEMMA OnceNext == OnceInv /\ [Next]_vars => OnceInv'
  BY UseNext, QuietNext, ListsNext, TimedNext, HomeNext DEF OnceInv

\* A start that has not been answered is in exactly one of the timer's
\* collections, and no function is called twice.
THEOREM TimerOneHome == Spec => []OneHome
  <1>1. OnceInv => OneHome
    BY DEF OnceInv
  <1> QED
    BY OnceInit, OnceNext, <1>1, PTL DEF Spec

\* When the worker has ended the function of every start has been called, once,
\* but of those abandoned by a call from behind the loop.
THEOREM TimerRunsExactlyOnce == Spec => []RunsExactlyOnce
  <1>1. ASSUME OnceInv, wpc = "done", NEW i \in Started \ abandoned PROVE calls[i] = 1
    <2>1. i \in Ids /\ calls[i] <= 1 /\ calls[i] \in Nat
      BY <1>1 DEF OnceInv, OneHome, UseInv, TypeInv, TypeOK, Started
    <2>2. i \notin tasks_time_ \cup tasks_stop_ \cup need_execute \cup need_stop \cup residue \cup InHand
      BY <1>1 DEF OnceInv, Lists, UseInv, Drained, Final, InHand
    <2>3. calls[i] # 0
      BY <1>1, <2>1, <2>2 DEF OnceInv, OneHome
    <2> QED
      BY <2>1, <2>3
  <1>2. OnceInv => \A i \in Ids : calls[i] <= 1
    BY DEF OnceInv, OneHome
  <1>3. OnceInv => RunsExactlyOnce
    BY <1>1, <1>2 DEF RunsExactlyOnce
  <1> QED
    BY OnceInit, OnceNext, <1>3, PTL DEF Spec

(***************************************************************************)
(* The timer implements TimerService.                                      *)
(***************************************************************************)

FateNow == [j \in Ids |-> Fate(j)]

\* What Fate says of a start, by where it is.
FateFacts(i) ==
    /\ i >= next_task_id_ => Fate(i) = "idle"
    /\ i < next_task_id_ /\ calls[i] # 0 => Fate(i) = result[i]
    /\ i \in tasks_time_ \cup residue => Fate(i) = "pending"
    /\ i \in tasks_stop_ \cup need_stop => Fate(i) = "stopping"
    /\ i \in need_execute => Fate(i) = "expiring"
    /\ i \in InHand => Fate(i) = CASE cur_result = "TRT_SUCCESS" -> "expiring"
                                   [] cur_result = "TRT_TASK_STOP" -> "stopping"
                                   [] OTHER -> "pending"
    /\ \/ i >= next_task_id_
       \/ i < next_task_id_ /\ calls[i] # 0
       \/ i \in Listed
       \/ i \in InHand

\* Every start is somewhere, and its place gives its fate ...
LEMMA FateCases == OnceInv => \A i \in Ids : FateFacts(i)
  <1> SUFFICES ASSUME OnceInv, NEW i \in Ids PROVE FateFacts(i)
    OBVIOUS
  <1>1. /\ i \in Listed \cup InHand <=> i < next_task_id_ /\ calls[i] = 0
        /\ calls[i] \in Nat /\ next_task_id_ \in Nat
    BY DEF OnceInv, OneHome, Started, Listed, UseInv, TypeInv, TypeOK, Ids
  <1>2. i < next_task_id_ <=> ~(i >= next_task_id_)
    BY <1>1 DEF Ids
  <1>3. calls[i] > 0 <=> calls[i] # 0
    BY <1>1
  <1>4. /\ i \in InHand => i \notin Listed
        /\ i \in tasks_stop_ \cup need_stop => i \notin tasks_time_ \cup residue
        /\ i \in need_execute => i \notin tasks_time_ \cup residue \cup tasks_stop_ \cup need_stop
    BY DEF OnceInv, OneHome, Listed
  <1> QED
    BY <1>1, <1>2, <1>3, <1>4 DEF Fate, FateFacts, Listed

\* ... and after a step as well.
LEMMA FateCasesNext == OnceInv' => (\A i \in Ids : FateFacts(i))'
  BY FateCases, PTL

\* A start keeps its fate while it stays among its equals.
LEMMA FateKept ==
  ASSUME OnceInv, OnceInv', NEW i \in Ids,
         next_task_id_' = next_task_id_ \/ (next_task_id_' = next_task_id_ + 1 /\ i # next_task_id_),
         calls'[i] = calls[i], result'[i] = result[i],
         i \in tasks_time_ \cup residue => i \in (tasks_time_ \cup residue)',
         i \in tasks_stop_ \cup need_stop => i \in (tasks_stop_ \cup need_stop)',
         i \in need_execute => i \in need_execute',
         i \in InHand => i \in InHand' /\ cur_result' = cur_result
  PROVE  Fate(i)' = Fate(i)
  <1>1. FateFacts(i) /\ FateFacts(i)'
    BY FateCases, FateCasesNext
  <1>2. /\ i >= next_task_id_ => i >= next_task_id_'
        /\ i < next_task_id_ => i < next_task_id_'
    BY DEF Ids, OnceInv, UseInv, TypeInv, TypeOK
  <1> QED
    BY <1>1, <1>2 DEF FateFacts, Listed

\* A step that leaves every fate and the flag alone is none of the service.
LEMMA FateSame ==
  ASSUME \A j \in Ids : Fate(j)' = Fate(j), run_flag_' = run_flag_
  PROVE  UNCHANGED Service!serviceVars
  BY DEF Service!serviceVars

\* A step that changes one fate, as the service sees it.
LEMMA FateExcept ==
  ASSUME NEW i \in Ids, \A j \in Ids : j # i => Fate(j)' = Fate(j)
  PROVE  FateNow' = [FateNow EXCEPT ![i] = Fate(i)']
  BY DEF FateNow

\* Every step of the timer is a step of the service or none.
LEMMA ImplStep ==
  OnceInv /\ [Next]_vars => [Service!ServiceNext]_(Service!serviceVars)
  <1> SUFFICES ASSUME OnceInv, [Next]_vars
               PROVE  [Service!ServiceNext]_(Service!serviceVars)
    OBVIOUS
  <1>0. OnceInv /\ UseInv /\ OnceInv' /\ TypeInv
    BY OnceNext DEF OnceInv, UseInv
  <1> USE <1>0 DEF TypeInv, TypeOK
  <1>1. ASSUME UNCHANGED <<next_task_id_, calls, result, run_flag_>>,
               tasks_time_ \cup residue \subseteq (tasks_time_ \cup residue)',
               tasks_stop_ \cup need_stop \subseteq (tasks_stop_ \cup need_stop)',
               need_execute \subseteq need_execute',
               InHand \subseteq InHand', InHand = {} \/ cur_result' = cur_result
        PROVE  UNCHANGED Service!serviceVars
    BY <1>1, FateKept, FateSame
  <1>2. CASE Tick \/ (\E l \in Leads : SetLeadTime(l)) \/ UNCHANGED vars
    BY <1>1, <1>2 DEF Tick, SetLeadTime, vars, timerVars, workVars, histVars, InHand
  <1>3. ASSUME NEW a \in Actors, Request(a) \/ StopLoad(a) \/ StopAssert(a)
        PROVE  UNCHANGED Service!serviceVars
    BY <1>1, <1>3 DEF Request, StartRead, StopTest, StopLoad, StopAssert, timerVars, workVars,
                      histVars, InHand
  <1>4. CASE LoopExit \/ LoopWait \/ WakeExit \/ SwapResidue \/ Exit
    BY <1>1, <1>4 DEF LoopExit, LoopWait, LoopReady, WakeExit, SwapResidue, TakenStops, Exit, UseInv,
                Drained, Final, timerVars, histVars, InHand
  <1>5. CASE ReturnFun
    BY <1>1, <1>5 DEF ReturnFun, InFun, timerVars, histVars, InHand
  <1>6. ASSUME NEW a \in Actors, StartLocked(a), NEW n \in Ids, n = next_task_id_
        PROVE  Service!Begin(n)
    <2>1. /\ next_task_id_' = n + 1 /\ tasks_time_' = tasks_time_ \cup {n}
          /\ UNCHANGED <<run_flag_, tasks_stop_, need_execute, need_stop, residue, cur, cur_result,
                         wpc, calls, result>>
      BY <1>6 DEF StartLocked, NewId, workVars, histVars, Ids
    <2>2. ASSUME NEW j \in Ids, j # n PROVE Fate(j)' = Fate(j)
      <3>1. next_task_id_' = next_task_id_ + 1 /\ j # next_task_id_
        BY <1>6, <2>1, <2>2
      <3>2. InHand' = InHand
        BY <2>1 DEF InHand
      <3> HIDE DEF TypeInv, TypeOK
      <3> QED
        BY <2>1, <3>1, <3>2, FateKept
    <2>3. FateFacts(n) /\ FateFacts(n)'
      BY <2>1, FateCases, FateCasesNext
    <2>4. Fate(n) = "idle" /\ Fate(n)' = "pending"
      <3>1. n \in Nat /\ n >= next_task_id_
        BY <1>6, TimerAssumption DEF Ids
      <3>2. n \in (tasks_time_ \cup residue)'
        BY <2>1
      <3> QED
        BY <2>3, <3>1, <3>2 DEF FateFacts
    <2>5. FateNow' = [FateNow EXCEPT ![n] = "pending"]
      BY <2>1, <2>2, <2>4, FateExcept
    <2> QED
      BY <2>1, <2>4, <2>5 DEF FateNow, Service!Begin
  <1>7. ASSUME NEW a \in Actors, StopLocked(a), NEW i \in Ids, i = ptr[a]
        PROVE  UNCHANGED Service!serviceVars \/ Service!Cancel(i)
    <2>2. UNCHANGED <<next_task_id_, run_flag_, need_execute, need_stop, cur, cur_result, wpc, calls,
                      result>>
      BY <1>7 DEF StopLocked, histVars
    <2>3. CASE ~StillTimed(i)
      BY <1>1, <1>7, <2>2, <2>3 DEF StopLocked, InHand
    <2>4. CASE StillTimed(i)
      <3>1. i \in tasks_time_ \cup residue /\ tasks_stop_' = tasks_stop_ \cup {i}
            /\ tasks_time_' = tasks_time_ \ {i} /\ residue' = residue \ {i}
        BY <1>7, <2>4, StopTakes DEF StopLocked, StillTimed, Kept, Erased
      <3>2. \A j \in Ids : j # i => Fate(j)' = Fate(j)
        BY <2>2, <3>1, FateKept DEF InHand
      <3>3. Fate(i) = "pending" /\ Fate(i)' = "stopping"
        BY <3>1, FateCases, FateCasesNext DEF FateFacts
      <3>4. FateNow' = [FateNow EXCEPT ![i] = "stopping"]
        BY <3>2, <3>3, FateExcept
      <3> QED
        BY <2>2, <3>3, <3>4 DEF FateNow, Service!Cancel
    <2> QED
      BY <2>3, <2>4
  <1>8. CASE Enter \/ LoopGain \/ WakeGain
    <2>1. /\ need_execute = {} /\ need_stop = {} /\ InHand = {} /\ GainNeedExecuteTasks
      BY <1>8 DEF Enter, LoopGain, LoopReady, WakeGain, UseInv, Drained, InHand
    <2>2. /\ UNCHANGED <<next_task_id_, run_flag_, residue, calls, result>>
          /\ tasks_time_ = tasks_time_' \cup need_execute' /\ need_execute' \subseteq tasks_time_
          /\ need_stop' = tasks_stop_ /\ need_execute' \subseteq Ids
      BY <2>1 DEF GainNeedExecuteTasks, TakenStops, histVars
    <2>3. \A j \in Ids : j \notin need_execute' => Fate(j)' = Fate(j)
      BY <2>1, <2>2, FateKept
    <2>4. \A j \in need_execute' : Fate(j) = "pending" /\ Fate(j)' = "expiring"
      BY <2>2, FateCases, FateCasesNext DEF FateFacts
    <2>5. CASE need_execute' = {}
      BY <2>2, <2>3, <2>5, FateSame
    <2>6. CASE need_execute' # {}
      BY <2>2, <2>3, <2>4, <2>6 DEF Service!ServiceNext, Service!Expire
    <2> QED
      BY <2>5, <2>6
  <1>9. ASSUME NEW i \in Ids, NEW r \in Outcomes, DetachTask(i, r)
        PROVE  UNCHANGED Service!serviceVars
    <2>1. /\ UNCHANGED <<next_task_id_, run_flag_, tasks_time_, tasks_stop_, calls, result>>
          /\ need_execute' = need_execute \ {i} /\ need_stop' = need_stop \ {i}
          /\ residue' = residue \ {i} /\ cur_result' = r /\ InHand = {} /\ InHand' = {i}
      BY <1>9 DEF DetachTask, NextCall, InHand, timerVars, histVars
    <2>2. \A j \in Ids : j # i => Fate(j)' = Fate(j)
      BY <2>1, FateKept
    <2>3. \/ i \in need_execute /\ r = "TRT_SUCCESS"
          \/ i \in need_stop /\ r = "TRT_TASK_STOP"
          \/ i \in residue /\ r = "TRT_TIMER_STOP"
      BY <1>9 DEF DetachTask, NextCall, First
    <2>4. Fate(i)' = Fate(i)
      BY <2>1, <2>3, FateCases, FateCasesNext DEF FateFacts
    <2> QED
      BY <2>1, <2>2, <2>4, FateSame
  <1>10. ASSUME CallFun, NEW i \in Ids, i = cur PROVE Service!Deliver(i, cur_result)
    <2>1. /\ InHand = {i} /\ InHand' = {} /\ i < next_task_id_ /\ calls[i] = 0 /\ i \notin Listed
      BY <1>10 DEF CallFun, InHand, OnceInv, OneHome, Started, Listed
    <2>2. /\ calls' = [calls EXCEPT ![i] = @ + 1] /\ result' = [result EXCEPT ![i] = cur_result]
          /\ UNCHANGED <<next_task_id_, run_flag_, tasks_time_, tasks_stop_, need_execute, need_stop,
                         residue>>
      BY <1>10 DEF CallFun, timerVars
    <2>3. \A j \in Ids : j # i => Fate(j)' = Fate(j)
      BY <2>1, <2>2, FateKept
    <2>4. FateFacts(i) /\ FateFacts(i)'
      BY FateCases, FateCasesNext
    <2>5. calls'[i] # 0 /\ result'[i] = cur_result /\ i < next_task_id_'
      BY <2>1, <2>2
    <2>6. Fate(i)' = cur_result
      BY <2>4, <2>5 DEF FateFacts
    <2>7. \/ Fate(i) = "expiring" /\ cur_result = "TRT_SUCCESS"
          \/ Fate(i) = "stopping" /\ cur_result = "TRT_TASK_STOP"
          \/ Fate(i) = "pending" /\ ~run_flag_ /\ cur_result = "TRT_TIMER_STOP"
      BY <2>1, <2>4 DEF FateFacts, Outcomes, UseInv, Timely
    <2>8. FateNow' = [FateNow EXCEPT ![i] = cur_result]
      BY <2>3, <2>6, FateExcept
    <2> QED
      BY <2>2, <2>7, <2>8 DEF FateNow, Service!Deliver
  <1>11. CASE Destroy
    <2>1. UNCHANGED <<next_task_id_, tasks_time_, tasks_stop_, need_execute, need_stop, residue, wpc,
                      cur, cur_result, calls, result>>
      BY <1>11 DEF Destroy, workVars, histVars
    <2>2. \A j \in Ids : Fate(j)' = Fate(j)
      BY <2>1, FateKept DEF InHand
    <2>3. Service!Close
      BY <1>11, <2>2 DEF Destroy, Service!Close
    <2> QED
      BY <2>3 DEF Service!ServiceNext
  <1>12. ASSUME NEW a \in Actors, StartLocked(a) PROVE Service!ServiceNext
    <2>1. PICK n \in Ids : n = next_task_id_
      BY <1>12 DEF StartLocked, Ids
    <2> QED
      BY <1>6, <1>12, <2>1 DEF Service!ServiceNext
  <1>13. ASSUME NEW a \in Actors, StopLocked(a) PROVE [Service!ServiceNext]_(Service!serviceVars)
    <2>1. PICK i \in Ids : i = ptr[a]
      BY <1>13 DEF StopLocked, Control
    <2> QED
      BY <1>7, <1>13, <2>1 DEF Service!ServiceNext
  <1>14. ASSUME CallFun PROVE Service!ServiceNext
    <2>1. PICK i \in Ids : i = cur
      BY <1>14 DEF CallFun, Control, Holding
    <2>2. cur_result \in Service!Outcomes
      BY DEF Service!Outcomes, Outcomes
    <2> QED
      BY <1>10, <1>14, <2>1, <2>2 DEF Service!ServiceNext, Service!DeliverAny
  <1> QED
    BY <1>2, <1>3, <1>4, <1>5, <1>8, <1>9, <1>11, <1>12, <1>13, <1>14
    DEF Next, Proceed, Work, SpuriousWake

\* The timer implements the service its interface promises (i_timer.h:55-57).
THEOREM TimerImplementsService == Spec => ImplementsService
  <1>1. Init => Service!ServiceInit
    <2> SUFFICES ASSUME Init PROVE Service!ServiceInit
      OBVIOUS
    <2>1. \A i \in Ids : Fate(i) = "idle"
      BY DEF Init, Fate, Ids
    <2> QED
      BY <2>1 DEF Service!ServiceInit, Init
  <1>2. OnceInv /\ [Next]_vars => [Service!ServiceNext]_(Service!serviceVars)
    BY ImplStep
  <1>3. Spec => []OnceInv
    BY OnceInit, OnceNext, PTL DEF Spec
  <1> QED
    BY <1>1, <1>2, <1>3, PTL DEF Spec, ImplementsService, Service!ServiceSafety
==============================================================================
