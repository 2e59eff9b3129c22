---------------------------- MODULE TimedRunProofs ----------------------------
(***************************************************************************)
(* Theorems about TimedRun: the asserts of CoAwaitTime hold, a wait is     *)
(* ended once and while what it waits on is alive, and no agent is left in *)
(* the control.                                                            *)
(***************************************************************************)
EXTENDS TimedRun, TLAPS

------------------------------------------------------------------------------
(* The inductive invariant *)

\* Before the constructor of CoAwaitTime has run nothing has; Run launches the
\* object first.
Before ==
    /\ rpc = "construct" => ~registered /\ ~agent_funs /\ run_flag_ /\ spc["control"] = "idle"
    /\ rpc \in {"construct", "launch_object"} => kpc["object"] = "none"
    /\ rpc \in {"construct", "launch_object", "launch_time"} => kpc["time"] = "none"

\* The hand-over: a coroutine that is over has said so, and Run is suspended just
\* while the one it awaits is not over.
HandOver ==
    /\ \A k \in Children : final_flag_[k] <=> kpc[k] = "over"
    /\ parent["object"] => rpc = "suspended_object" \/ final_flag_["object"]
    /\ parent["time"] => rpc = "suspended_time" \/ final_flag_["time"]
    /\ rpc = "suspended_object" => parent["object"] /\ ~final_flag_["object"]
    /\ rpc = "suspended_time" => parent["time"] /\ ~final_flag_["time"]
    /\ rpc \in {"await_time", "suspended_time", "end", "done"} => final_flag_["object"]
    /\ rpc \in {"end", "done"} => final_flag_["time"]

\* WaitTimeout waits just while the timer has its task, and wait_flag_ is set from
\* before the task is started until the timer calls.
Waiting ==
    /\ kpc["time"] = "waiting" <=> task \notin {"none", "over"}
    /\ wait_flag_ <=> \/ kpc["time"] = "start_task"
                      \/ task \in {"started", "stopped", "taking", "calling"}
    /\ task = "none" => wakes = 0
    /\ wakes = 1 => task = "over"
    /\ wakes <= 1
    /\ kpc["time"] \in {"none", "await", "start_task"} => task = "none"
    /\ alive <=> rpc \notin {"construct", "done"}

\* The functions of the agent are in one hand: its own, or that of one stopper, and
\* until they are called nobody has switched the wait off.
InHand(s) == spc[s] \in {"unregister", "inter_stop"}

OneHand ==
    /\ \A s \in Stoppers : InHand(s) => ~agent_funs /\ run_flag_
    /\ agent_funs => run_flag_
    /\ ~(InHand("object") /\ InHand("control"))
    /\ kpc["object"] \in {"none", "awaiting", "stop_time", "stop_agent"} => spc["object"] = "idle"

\* The agent stays registered at most until the object's Stop has taken it out.
Registration ==
    /\ registered => /\ spc["control"] = "idle" /\ agent_
                     /\ \/ agent_funs /\ spc["object"] \in {"idle", "take"}
                        \/ spc["object"] = "unregister"
    /\ kpc["object"] \in {"final", "over"} => ~registered

TimedInv ==
    /\ TypeOK /\ Before /\ HandOver /\ Waiting /\ OneHand /\ Registration /\ AssertsHold

------------------------------------------------------------------------------
\* TimedInv holds at the start and is kept by every step.
LEMMA TimedInductive == Spec => []TimedInv
<1> USE DEF Children, Stoppers, InHand
<1>1. ASSUME Init PROVE TimedInv
  <2>1. TypeOK BY <1>1, TimedAssumption DEF Init, TypeOK
  <2>2. Before BY <1>1 DEF Init, Before
  <2>3. HandOver BY <1>1 DEF Init, HandOver
  <2>4. Waiting BY <1>1 DEF Init, Waiting
  <2>5. OneHand /\ Registration BY <1>1 DEF Init, OneHand, Registration
  <2>6. AssertsHold BY <1>1 DEF Init, AssertsHold
  <2>7. QED BY <2>1, <2>2, <2>3, <2>4, <2>5, <2>6 DEF TimedInv
<1>2. TimedInv /\ [Next]_vars => TimedInv'
  <2> SUFFICES ASSUME TimedInv, [Next]_vars PROVE TimedInv'
    OBVIOUS
  <2> USE DEF TimedInv, controlVars, timeVars, coVars, histVars, GotoStop, GotoChild
  <2>1. TypeOK'
    <3> USE DEF TypeOK
    <3>1. CASE Construct BY <3>1 DEF Construct
    <3>2. CASE LaunchObject BY <3>2 DEF LaunchObject
    <3>3. CASE LaunchTime BY <3>3 DEF LaunchTime
    <3>4. CASE AwaitChildren
      <4>1. parent' \in [Children -> BOOLEAN] BY <3>4 DEF AwaitChildren, Await, IsFinal
      <4>2. QED BY <3>4, <4>1 DEF AwaitChildren, Await, IsFinal
    <3>5. CASE RunEnds
      <4>1. alive' \in BOOLEAN BY <3>5 DEF RunEnds
      <4>2. QED BY <3>5, <4>1 DEF RunEnds
    <3>6. CASE StopTime BY <3>6 DEF StopTime
    <3>7. CASE StopTimeAgent
      <4>1. crashed' \in BOOLEAN BY <3>7 DEF StopTimeAgent
      <4>2. QED BY <3>7, <4>1 DEF StopTimeAgent
    <3>8. CASE TimeStopped BY <3>8 DEF TimeStopped
    <3>9. CASE AwaitTime
      <4>1. asserts' \in BOOLEAN BY <3>9 DEF AwaitTime, MutexFree
      <4>2. wait_flag_' \in BOOLEAN BY <3>9 DEF AwaitTime, MutexFree
      <4>3. timeout_flag_' \in BOOLEAN BY <3>9 DEF AwaitTime, MutexFree
      <4>4. QED BY <3>9, <4>1, <4>2, <4>3 DEF AwaitTime, MutexFree
    <3>10. CASE StopObject BY <3>10 DEF StopObject
    <3>11. CASE TimerCallback
      <4>1. asserts' \in BOOLEAN BY <3>11 DEF TimerCallback, MutexFree
      <4>2. wait_flag_' \in BOOLEAN BY <3>11 DEF TimerCallback, MutexFree
      <4>3. timeout_flag_' \in BOOLEAN BY <3>11 DEF TimerCallback, MutexFree
      <4>4. QED BY <3>11, <4>1, <4>2, <4>3 DEF TimerCallback, MutexFree
    <3>12. CASE TimerResume BY <3>12 DEF TimerResume
    <3>13. CASE ObjectEnds BY <3>13 DEF ObjectEnds
    <3>14. CASE ControlStop
      <4>1. control_run' \in BOOLEAN BY <3>14 DEF ControlStop
      <4>2. registered' \in BOOLEAN BY <3>14 DEF ControlStop
      <4>3. QED BY <3>14, <4>1, <4>2 DEF ControlStop
    <3>15. CASE FinalSuspend("object") BY <3>15 DEF FinalSuspend
    <3>16. CASE FinalSuspend("time") BY <3>16 DEF FinalSuspend
    <3>17. ASSUME NEW s \in Stoppers, TakeFuns(s) PROVE TypeOK'
      <4>1. agent_funs' \in BOOLEAN BY <3>17 DEF TakeFuns, Taken
      <4>2. QED BY <3>17, <4>1 DEF TakeFuns, Taken
    <3>18. ASSUME NEW s \in Stoppers, Unregister(s) PROVE TypeOK'
      <4>1. registered' \in BOOLEAN BY <3>18 DEF Unregister, Erased
      <4>2. QED BY <3>18, <4>1 DEF Unregister, Erased
    <3>19. ASSUME NEW s \in Stoppers, InterStop(s) PROVE TypeOK'
      <4>1. asserts' \in BOOLEAN BY <3>19 DEF InterStop, MutexFree
      <4>2. run_flag_' \in BOOLEAN BY <3>19 DEF InterStop, MutexFree
      <4>3. QED BY <3>19, <4>1, <4>2 DEF InterStop, MutexFree
    <3>20. ASSUME NEW s \in Stoppers, ClearAgent(s) PROVE TypeOK'
      <4>1. agent_' \in BOOLEAN BY <3>20 DEF ClearAgent
      <4>2. QED BY <3>20, <4>1 DEF ClearAgent
    <3>21. CASE StartTask BY <3>21 DEF StartTask, TasksMutexFree
    <3>22. CASE TimerTakes
      <4>1. due' \in BOOLEAN BY <3>22 DEF TimerTakes
      <4>2. QED BY <3>22, <4>1 DEF TimerTakes
    <3>23. CASE TimerUnlocks BY <3>23 DEF TimerUnlocks
    <3>24. ASSUME NEW s \in Stoppers, StopTask(s) PROVE TypeOK' BY <3>24 DEF StopTask, TasksMutexFree
    <3>25. CASE UNCHANGED vars BY <3>25 DEF vars
    <3>26. QED BY <3>1, <3>2, <3>3, <3>4, <3>5, <3>6, <3>7, <3>8, <3>9, <3>10, <3>11, <3>12, <3>13, <3>14, <3>15, <3>16, <3>17, <3>18, <3>19, <3>20, <3>21, <3>22, <3>23, <3>24, <3>25 DEF Next, RunStep, ObjectStep, TimeStep, TimerStep, AgentStop
  <2>2. Before'
    <3> USE DEF TypeOK, Before
    <3>1. CASE Construct BY <3>1 DEF Construct
    <3>2. CASE LaunchObject BY <3>2 DEF LaunchObject
    <3>3. CASE LaunchTime BY <3>3 DEF LaunchTime
    <3>4. CASE AwaitChildren BY <3>4 DEF AwaitChildren, Await, IsFinal
    <3>5. CASE RunEnds BY <3>5 DEF RunEnds
    <3>6. CASE StopTime BY <3>6 DEF StopTime
    <3>7. CASE StopTimeAgent BY <3>7 DEF StopTimeAgent
    <3>8. CASE TimeStopped BY <3>8 DEF TimeStopped
    <3>9. CASE AwaitTime BY <3>9 DEF AwaitTime, MutexFree
    <3>10. CASE StopObject BY <3>10 DEF StopObject
    <3>11. CASE TimerCallback BY <3>11 DEF TimerCallback, MutexFree
    <3>12. CASE TimerResume BY <3>12 DEF TimerResume
    <3>13. CASE ObjectEnds BY <3>13 DEF ObjectEnds
    <3>14. CASE ControlStop BY <3>14 DEF ControlStop
    <3>15. CASE FinalSuspend("object") BY <3>15 DEF FinalSuspend
    <3>16. CASE FinalSuspend("time") BY <3>16 DEF FinalSuspend
    <3>17. ASSUME NEW s \in Stoppers, TakeFuns(s) PROVE Before' BY <3>17 DEF TakeFuns, Taken
    <3>18. ASSUME NEW s \in Stoppers, Unregister(s) PROVE Before' BY <3>18 DEF Unregister, Erased
    <3>19. ASSUME NEW s \in Stoppers, InterStop(s) PROVE Before' BY <3>19 DEF InterStop, MutexFree, OneHand
    <3>20. ASSUME NEW s \in Stoppers, ClearAgent(s) PROVE Before' BY <3>20 DEF ClearAgent
    <3>21. CASE StartTask BY <3>21 DEF StartTask, TasksMutexFree
    <3>22. CASE TimerTakes BY <3>22 DEF TimerTakes
    <3>23. CASE TimerUnlocks BY <3>23 DEF TimerUnlocks
    <3>24. ASSUME NEW s \in Stoppers, StopTask(s) PROVE Before' BY <3>24 DEF StopTask, TasksMutexFree
    <3>25. CASE UNCHANGED vars BY <3>25 DEF vars
    <3>26. QED BY <3>1, <3>2, <3>3, <3>4, <3>5, <3>6, <3>7, <3>8, <3>9, <3>10, <3>11, <3>12, <3>13, <3>14, <3>15, <3>16, <3>17, <3>18, <3>19, <3>20, <3>21, <3>22, <3>23, <3>24, <3>25 DEF Next, RunStep, ObjectStep, TimeStep, TimerStep, AgentStop
  <2>3. HandOver'
    <3> USE DEF TypeOK, Before, HandOver
    <3>1. CASE Construct BY <3>1 DEF Construct
    <3>2. CASE LaunchObject BY <3>2 DEF LaunchObject
    <3>3. CASE LaunchTime BY <3>3 DEF LaunchTime
    <3>4. CASE AwaitChildren BY <3>4 DEF AwaitChildren, Await, IsFinal
    <3>5. CASE RunEnds BY <3>5 DEF RunEnds
    <3>6. CASE StopTime BY <3>6 DEF StopTime
    <3>7. CASE StopTimeAgent BY <3>7 DEF StopTimeAgent
    <3>8. CASE TimeStopped BY <3>8 DEF TimeStopped
    <3>9. CASE AwaitTime BY <3>9 DEF AwaitTime, MutexFree
    <3>10. CASE StopObject BY <3>10 DEF StopObject
    <3>11. CASE TimerCallback BY <3>11 DEF TimerCallback, MutexFree
    <3>12. CASE TimerResume BY <3>12 DEF TimerResume
    <3>13. CASE ObjectEnds BY <3>13 DEF ObjectEnds
    <3>14. CASE ControlStop BY <3>14 DEF ControlStop
    <3>15. CASE FinalSuspend("object")
      <4>1. kpc["object"] = "final" /\ kpc'["object"] = "over" /\ kpc'["time"] = kpc["time"]
        BY <3>15 DEF FinalSuspend
      <4>2. final_flag_'["object"] /\ (final_flag_'["time"] <=> final_flag_["time"]) /\ ~final_flag_["object"]
        BY <3>15 DEF FinalSuspend
      <4>3. \A j \in Children : final_flag_'[j] <=> kpc'[j] = "over"
        BY <4>1, <4>2
      <4>4. parent' = parent /\ (parent["object"] => rpc' = "await_time") /\ (~parent["object"] => rpc' = rpc)
        BY <3>15 DEF FinalSuspend
      <4>5. parent["object"] => rpc = "suspended_object"
        BY <4>2
      <4>6. CASE parent["object"] BY <4>2, <4>3, <4>4, <4>5, <4>6
      <4>7. CASE ~parent["object"] BY <4>2, <4>3, <4>4, <4>7
      <4>8. QED BY <4>6, <4>7
    <3>16. CASE FinalSuspend("time")
      <4>1. kpc["time"] = "final" /\ kpc'["time"] = "over" /\ kpc'["object"] = kpc["object"]
        BY <3>16 DEF FinalSuspend
      <4>2. final_flag_'["time"] /\ (final_flag_'["object"] <=> final_flag_["object"]) /\ ~final_flag_["time"]
        BY <3>16 DEF FinalSuspend
      <4>3. \A j \in Children : final_flag_'[j] <=> kpc'[j] = "over"
        BY <4>1, <4>2
      <4>4. parent' = parent /\ (parent["time"] => rpc' = "end") /\ (~parent["time"] => rpc' = rpc)
        BY <3>16 DEF FinalSuspend
      <4>5. parent["time"] => rpc = "suspended_time"
        BY <4>2
      <4>6. CASE parent["time"] BY <4>2, <4>3, <4>4, <4>5, <4>6
      <4>7. CASE ~parent["time"] BY <4>2, <4>3, <4>4, <4>7
      <4>8. QED BY <4>6, <4>7
    <3>17. ASSUME NEW s \in Stoppers, TakeFuns(s) PROVE HandOver' BY <3>17 DEF TakeFuns, Taken
    <3>18. ASSUME NEW s \in Stoppers, Unregister(s) PROVE HandOver' BY <3>18 DEF Unregister, Erased
    <3>19. ASSUME NEW s \in Stoppers, InterStop(s) PROVE HandOver' BY <3>19 DEF InterStop, MutexFree
    <3>20. ASSUME NEW s \in Stoppers, ClearAgent(s) PROVE HandOver' BY <3>20 DEF ClearAgent
    <3>21. CASE StartTask BY <3>21 DEF StartTask, TasksMutexFree
    <3>22. CASE TimerTakes BY <3>22 DEF TimerTakes
    <3>23. CASE TimerUnlocks BY <3>23 DEF TimerUnlocks
    <3>24. ASSUME NEW s \in Stoppers, StopTask(s) PROVE HandOver' BY <3>24 DEF StopTask, TasksMutexFree
    <3>25. CASE UNCHANGED vars BY <3>25 DEF vars
    <3>26. QED BY <3>1, <3>2, <3>3, <3>4, <3>5, <3>6, <3>7, <3>8, <3>9, <3>10, <3>11, <3>12, <3>13, <3>14, <3>15, <3>16, <3>17, <3>18, <3>19, <3>20, <3>21, <3>22, <3>23, <3>24, <3>25 DEF Next, RunStep, ObjectStep, TimeStep, TimerStep, AgentStop
  <2>4. Waiting'
    <3> USE DEF TypeOK, Before, HandOver, Waiting
    <3>1. CASE Construct BY <3>1 DEF Construct
    <3>2. CASE LaunchObject BY <3>2 DEF LaunchObject
    <3>3. CASE LaunchTime BY <3>3 DEF LaunchTime
    <3>4. CASE AwaitChildren BY <3>4 DEF AwaitChildren, Await, IsFinal
    <3>5. CASE RunEnds BY <3>5 DEF RunEnds
    <3>6. CASE StopTime BY <3>6 DEF StopTime
    <3>7. CASE StopTimeAgent BY <3>7 DEF StopTimeAgent
    <3>8. CASE TimeStopped BY <3>8 DEF TimeStopped
    <3>9. CASE AwaitTime BY <3>9 DEF AwaitTime, MutexFree
    <3>10. CASE StopObject BY <3>10 DEF StopObject
    <3>11. CASE TimerCallback BY <3>11 DEF TimerCallback, MutexFree
    <3>12. CASE TimerResume BY <3>12 DEF TimerResume
    <3>13. CASE ObjectEnds BY <3>13 DEF ObjectEnds
    <3>14. CASE ControlStop BY <3>14 DEF ControlStop
    <3>15. CASE FinalSuspend("object") BY <3>15 DEF FinalSuspend
    <3>16. CASE FinalSuspend("time") BY <3>16 DEF FinalSuspend
    <3>17. ASSUME NEW s \in Stoppers, TakeFuns(s) PROVE Waiting' BY <3>17 DEF TakeFuns, Taken
    <3>18. ASSUME NEW s \in Stoppers, Unregister(s) PROVE Waiting' BY <3>18 DEF Unregister, Erased
    <3>19. ASSUME NEW s \in Stoppers, InterStop(s) PROVE Waiting' BY <3>19 DEF InterStop, MutexFree
    <3>20. ASSUME NEW s \in Stoppers, ClearAgent(s) PROVE Waiting' BY <3>20 DEF ClearAgent
    <3>21. CASE StartTask BY <3>21 DEF StartTask, TasksMutexFree
    <3>22. CASE TimerTakes BY <3>22 DEF TimerTakes
    <3>23. CASE TimerUnlocks BY <3>23 DEF TimerUnlocks
    <3>24. ASSUME NEW s \in Stoppers, StopTask(s) PROVE Waiting' BY <3>24 DEF StopTask, TasksMutexFree
    <3>25. CASE UNCHANGED vars BY <3>25 DEF vars
    <3>26. QED BY <3>1, <3>2, <3>3, <3>4, <3>5, <3>6, <3>7, <3>8, <3>9, <3>10, <3>11, <3>12, <3>13, <3>14, <3>15, <3>16, <3>17, <3>18, <3>19, <3>20, <3>21, <3>22, <3>23, <3>24, <3>25 DEF Next, RunStep, ObjectStep, TimeStep, TimerStep, AgentStop
  <2>5. OneHand'
    <3> USE DEF TypeOK, Before, OneHand
    <3>1. CASE Construct BY <3>1 DEF Construct
    <3>2. CASE LaunchObject BY <3>2 DEF LaunchObject
    <3>3. CASE LaunchTime BY <3>3 DEF LaunchTime
    <3>4. CASE AwaitChildren BY <3>4 DEF AwaitChildren, Await, IsFinal
    <3>5. CASE RunEnds BY <3>5 DEF RunEnds
    <3>6. CASE StopTime BY <3>6 DEF StopTime
    <3>7. CASE StopTimeAgent BY <3>7 DEF StopTimeAgent
    <3>8. CASE TimeStopped BY <3>8 DEF TimeStopped
    <3>9. CASE AwaitTime BY <3>9 DEF AwaitTime, MutexFree
    <3>10. CASE StopObject BY <3>10 DEF StopObject
    <3>11. CASE TimerCallback BY <3>11 DEF TimerCallback, MutexFree
    <3>12. CASE TimerResume BY <3>12 DEF TimerResume
    <3>13. CASE ObjectEnds BY <3>13 DEF ObjectEnds
    <3>14. CASE ControlStop BY <3>14 DEF ControlStop
    <3>15. CASE FinalSuspend("object") BY <3>15 DEF FinalSuspend
    <3>16. CASE FinalSuspend("time") BY <3>16 DEF FinalSuspend
    <3>17. ASSUME NEW s \in Stoppers, TakeFuns(s) PROVE OneHand' BY <3>17 DEF TakeFuns, Taken
    <3>18. ASSUME NEW s \in Stoppers, Unregister(s) PROVE OneHand' BY <3>18 DEF Unregister, Erased
    <3>19. ASSUME NEW s \in Stoppers, InterStop(s) PROVE OneHand' BY <3>19 DEF InterStop, MutexFree
    <3>20. ASSUME NEW s \in Stoppers, ClearAgent(s) PROVE OneHand' BY <3>20 DEF ClearAgent
    <3>21. CASE StartTask BY <3>21 DEF StartTask, TasksMutexFree
    <3>22. CASE TimerTakes BY <3>22 DEF TimerTakes
    <3>23. CASE TimerUnlocks BY <3>23 DEF TimerUnlocks
    <3>24. ASSUME NEW s \in Stoppers, StopTask(s) PROVE OneHand' BY <3>24 DEF StopTask, TasksMutexFree
    <3>25. CASE UNCHANGED vars BY <3>25 DEF vars
    <3>26. QED BY <3>1, <3>2, <3>3, <3>4, <3>5, <3>6, <3>7, <3>8, <3>9, <3>10, <3>11, <3>12, <3>13, <3>14, <3>15, <3>16, <3>17, <3>18, <3>19, <3>20, <3>21, <3>22, <3>23, <3>24, <3>25 DEF Next, RunStep, ObjectStep, TimeStep, TimerStep, AgentStop
  <2>6. Registration'
    <3> USE DEF TypeOK, Before, OneHand, Registration
    <3>1. CASE Construct BY <3>1 DEF Construct
    <3>2. CASE LaunchObject BY <3>2 DEF LaunchObject
    <3>3. CASE LaunchTime BY <3>3 DEF LaunchTime
    <3>4. CASE AwaitChildren BY <3>4 DEF AwaitChildren, Await, IsFinal
    <3>5. CASE RunEnds BY <3>5 DEF RunEnds
    <3>6. CASE StopTime BY <3>6 DEF StopTime
    <3>7. CASE StopTimeAgent BY <3>7 DEF StopTimeAgent
    <3>8. CASE TimeStopped BY <3>8 DEF TimeStopped
    <3>9. CASE AwaitTime BY <3>9 DEF AwaitTime, MutexFree
    <3>10. CASE StopObject BY <3>10 DEF StopObject
    <3>11. CASE TimerCallback BY <3>11 DEF TimerCallback, MutexFree
    <3>12. CASE TimerResume BY <3>12 DEF TimerResume
    <3>13. CASE ObjectEnds BY <3>13 DEF ObjectEnds
    <3>14. CASE ControlStop BY <3>14 DEF ControlStop
    <3>15. CASE FinalSuspend("object") BY <3>15 DEF FinalSuspend
    <3>16. CASE FinalSuspend("time") BY <3>16 DEF FinalSuspend
    <3>17. ASSUME NEW s \in Stoppers, TakeFuns(s) PROVE Registration' BY <3>17 DEF TakeFuns, Taken
    <3>18. ASSUME NEW s \in Stoppers, Unregister(s) PROVE Registration' BY <3>18 DEF Unregister, Erased
    <3>19. ASSUME NEW s \in Stoppers, InterStop(s) PROVE Registration' BY <3>19 DEF InterStop, MutexFree
    <3>20. ASSUME NEW s \in Stoppers, ClearAgent(s) PROVE Registration' BY <3>20 DEF ClearAgent
    <3>21. CASE StartTask BY <3>21 DEF StartTask, TasksMutexFree
    <3>22. CASE TimerTakes BY <3>22 DEF TimerTakes
    <3>23. CASE TimerUnlocks BY <3>23 DEF TimerUnlocks
    <3>24. ASSUME NEW s \in Stoppers, StopTask(s) PROVE Registration' BY <3>24 DEF StopTask, TasksMutexFree
    <3>25. CASE UNCHANGED vars BY <3>25 DEF vars
    <3>26. QED BY <3>1, <3>2, <3>3, <3>4, <3>5, <3>6, <3>7, <3>8, <3>9, <3>10, <3>11, <3>12, <3>13, <3>14, <3>15, <3>16, <3>17, <3>18, <3>19, <3>20, <3>21, <3>22, <3>23, <3>24, <3>25 DEF Next, RunStep, ObjectStep, TimeStep, TimerStep, AgentStop
  <2>7. AssertsHold'
    <3> USE DEF TypeOK, Waiting, OneHand, AssertsHold
    <3>1. CASE Construct BY <3>1 DEF Construct
    <3>2. CASE LaunchObject BY <3>2 DEF LaunchObject
    <3>3. CASE LaunchTime BY <3>3 DEF LaunchTime
    <3>4. CASE AwaitChildren BY <3>4 DEF AwaitChildren, Await, IsFinal
    <3>5. CASE RunEnds BY <3>5 DEF RunEnds
    <3>6. CASE StopTime BY <3>6 DEF StopTime
    <3>7. CASE StopTimeAgent BY <3>7 DEF StopTimeAgent
    <3>8. CASE TimeStopped BY <3>8 DEF TimeStopped
    <3>9. CASE AwaitTime BY <3>9 DEF AwaitTime, MutexFree
    <3>10. CASE StopObject BY <3>10 DEF StopObject
    <3>11. CASE TimerCallback BY <3>11 DEF TimerCallback, MutexFree
    <3>12. CASE TimerResume BY <3>12 DEF TimerResume
    <3>13. CASE ObjectEnds BY <3>13 DEF ObjectEnds
    <3>14. CASE ControlStop BY <3>14 DEF ControlStop
    <3>15. CASE FinalSuspend("object") BY <3>15 DEF FinalSuspend
    <3>16. CASE FinalSuspend("time") BY <3>16 DEF FinalSuspend
    <3>17. ASSUME NEW s \in Stoppers, TakeFuns(s) PROVE AssertsHold' BY <3>17 DEF TakeFuns, Taken
    <3>18. ASSUME NEW s \in Stoppers, Unregister(s) PROVE AssertsHold' BY <3>18 DEF Unregister, Erased
    <3>19. ASSUME NEW s \in Stoppers, InterStop(s) PROVE AssertsHold' BY <3>19 DEF InterStop, MutexFree
    <3>20. ASSUME NEW s \in Stoppers, ClearAgent(s) PROVE AssertsHold' BY <3>20 DEF ClearAgent
    <3>21. CASE StartTask BY <3>21 DEF StartTask, TasksMutexFree
    <3>22. CASE TimerTakes BY <3>22 DEF TimerTakes
    <3>23. CASE TimerUnlocks BY <3>23 DEF TimerUnlocks
    <3>24. ASSUME NEW s \in Stoppers, StopTask(s) PROVE AssertsHold' BY <3>24 DEF StopTask, TasksMutexFree
    <3>25. CASE UNCHANGED vars BY <3>25 DEF vars
    <3>26. QED BY <3>1, <3>2, <3>3, <3>4, <3>5, <3>6, <3>7, <3>8, <3>9, <3>10, <3>11, <3>12, <3>13, <3>14, <3>15, <3>16, <3>17, <3>18, <3>19, <3>20, <3>21, <3>22, <3>23, <3>24, <3>25 DEF Next, RunStep, ObjectStep, TimeStep, TimerStep, AgentStop
  <2>8. QED BY <2>1, <2>2, <2>3, <2>4, <2>5, <2>6, <2>7
<1>3. QED BY <1>1, <1>2, PTL DEF Spec

\* No assert of CoAwaitTime fails, for a control that runs or does not
\* (co_await_time.h:71, 96, 114).
THEOREM TimedAssertsHold == Spec => []AssertsHold
<1>1. TimedInv => AssertsHold BY DEF TimedInv
<1>2. QED BY <1>1, TimedInductive, PTL

\* The wait is ended once, and Run does not destroy what the timer still has a
\* task of (co_await_time.h:88-120).
THEOREM TimedWokenOnce == Spec => []WokenOnce
<1>1. TimedInv => WokenOnce
  BY DEF TimedInv, Before, HandOver, Waiting, WokenOnce, Children
<1>2. QED BY <1>1, TimedInductive, PTL

\* When Run is over its agent is no longer in the control
\* (control_start_stop.h:83-104).
THEOREM TimedNoAgentLeft == Spec => []NoAgentLeft
<1>1. TimedInv => NoAgentLeft
  BY DEF TimedInv, HandOver, Registration, NoAgentLeft, Children
<1>2. QED BY <1>1, TimedInductive, PTL
===============================================================================
