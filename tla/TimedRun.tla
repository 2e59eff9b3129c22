------------------------------- MODULE TimedRun -------------------------------
(***************************************************************************)
(* A wait with a limit: RunWithTimeout (CommunicationTest/gtest/tool/      *)
(* run_with_timeout.h) over CoAwaitTime (global_timer/co_await_time.h),    *)
(* ControlStartStop and its Agent (util/control_start_stop.h) and the      *)
(* hand-over between coroutines (util/co_coroutine.h).                     *)
(*                                                                         *)
(* Run awaits two coroutines: one waits for an object and then stops the   *)
(* time, the other waits for the time and then stops the object.  The      *)
(* object, the timer, the thread that stops the control and Run itself are *)
(* all different threads; a step is one section under a mutex or one       *)
(* access to a member no mutex guards.  The object and the timer are       *)
(* external: the timer answers a started task once, TimerService's promise.*)
(***************************************************************************)
EXTENDS Naturals

CONSTANTS
    ControlRuns           \* the values ControlStartStop's run_flag_ may have at the start

ASSUME TimedAssumption == ControlRuns \subseteq BOOLEAN

\* The two coroutines Run launches, and the two that may stop the time.
Children == {"object", "time"}
Stoppers == {"object", "control"}

VARIABLES
    \* ControlStartStop and the one Agent
    control_run, registered,
    agent_funs,           \* fun_stop_ and fun_unregister_ are still set
    cpc,                  \* where the thread in ControlStartStop::Stop is
    \* CoAwaitTime
    agent_,               \* agent_ # nullptr
    run_flag_, wait_flag_, timeout_flag_,
    alive,                \* it has not been destroyed
    wait_flag_mutex_,     \* who holds it from one step to the next
    spc,                  \* per stopper: where it is in Agent::Stop and InterStop
    task,                 \* the timer's view of timeout_task_
    due,                  \* the result it calls with is TRT_SUCCESS
    \* the coroutines
    rpc,                  \* where Run is
    kpc,                  \* where RunAwaitObj ("object") and WaitTimeout ("time") are
    final_flag_, parent,  \* their promises
    object,               \* the awaited object
    crashed,              \* history: a null agent_ was followed
    wakes,                \* history: how often WaitTimeout was resumed
    asserts               \* history: every assert passed so far

controlVars == <<control_run, registered, agent_funs, cpc>>
timeVars == <<agent_, run_flag_, wait_flag_, timeout_flag_, alive, wait_flag_mutex_, task, due>>
coVars == <<rpc, kpc, final_flag_, parent, object>>
histVars == <<crashed, wakes, asserts>>
vars == <<controlVars, timeVars, spc, coVars, histVars>>

Init ==
    /\ control_run \in ControlRuns /\ registered = FALSE /\ agent_funs = FALSE /\ cpc = "idle"
    /\ agent_ = FALSE /\ run_flag_ = TRUE /\ wait_flag_ = FALSE /\ timeout_flag_ = FALSE
    /\ alive = FALSE /\ wait_flag_mutex_ = "free" /\ task = "none" /\ due = FALSE
    /\ spc = [s \in Stoppers |-> "idle"]
    /\ rpc = "construct"
    /\ kpc = [k \in Children |-> "none"]
    /\ final_flag_ = [k \in Children |-> FALSE] /\ parent = [k \in Children |-> FALSE]
    /\ object = "running"
    /\ crashed = FALSE /\ wakes = 0 /\ asserts = TRUE

GotoStop(s, l) == spc' = [spc EXCEPT ![s] = l]
GotoChild(k, l) == kpc' = [kpc EXCEPT ![k] = l]

------------------------------------------------------------------------------
(* Run *)

\* CoAwaitTime's constructor: Register answers nullptr when the control does not
\* run, and the wait is off.
Construct ==
    /\ rpc = "construct"
    /\ alive' = TRUE
    /\ registered' = control_run /\ agent_funs' = control_run
    /\ agent_' = control_run /\ run_flag_' = control_run
    /\ rpc' = "launch_object"
    /\ UNCHANGED <<control_run, cpc, wait_flag_, timeout_flag_, wait_flag_mutex_, task, due, spc, kpc,
                   final_flag_, parent, object, histVars>>

LaunchObject ==
    /\ rpc = "launch_object"
    /\ GotoChild("object", "awaiting")
    /\ rpc' = "launch_time"
    /\ UNCHANGED <<controlVars, timeVars, spc, final_flag_, parent, object, histVars>>

LaunchTime ==
    /\ rpc = "launch_time"
    /\ GotoChild("time", "await")
    /\ rpc' = "await_object"
    /\ UNCHANGED <<controlVars, timeVars, spc, final_flag_, parent, object, histVars>>

\* Mutant: the awaited coroutine is not waited for.
AlwaysFinal(k) == TRUE

\* Coroutine::await_suspend: under parent_handle_mutex.
IsFinal(k) == final_flag_[k]

Await(k, from, suspended, to) ==
    /\ rpc = from
    /\ IF IsFinal(k) THEN rpc' = to /\ UNCHANGED parent
                     ELSE rpc' = suspended /\ parent' = [parent EXCEPT ![k] = TRUE]
    /\ UNCHANGED <<controlVars, timeVars, spc, kpc, final_flag_, object, histVars>>

AwaitChildren ==
    \/ Await("object", "await_object", "suspended_object", "await_time")
    \/ Await("time", "await_time", "suspended_time", "end")

\* The end of the scope destroys await_time.
RunEnds ==
    /\ rpc = "end"
    /\ rpc' = "done"
    /\ alive' = FALSE
    /\ UNCHANGED <<controlVars, agent_, run_flag_, wait_flag_, timeout_flag_, wait_flag_mutex_, task,
                   due, spc, kpc, final_flag_, parent, object, histVars>>

\* final_suspend: the parent is resumed if it has come.
FinalSuspend(k) ==
    /\ kpc[k] = "final"
    /\ final_flag_' = [final_flag_ EXCEPT ![k] = TRUE]
    /\ rpc' = IF ~parent[k] THEN rpc ELSE IF k = "object" THEN "await_time" ELSE "end"
    /\ GotoChild(k, "over")
    /\ UNCHANGED <<controlVars, timeVars, spc, parent, object, histVars>>

------------------------------------------------------------------------------
(* RunAwaitObj and the object it awaits *)

\* The object ends by itself, or after it was stopped.
ObjectEnds ==
    /\ kpc["object"] = "awaiting"
    /\ object' = "ended"
    /\ GotoChild("object", "stop_time")
    /\ UNCHANGED <<controlVars, timeVars, spc, rpc, final_flag_, parent, histVars>>

\* CoAwaitTime::Stop: agent_ is looked at ...
StopTime ==
    /\ kpc["object"] = "stop_time"
    /\ GotoChild("object", IF agent_ THEN "stop_agent" ELSE "final")
    /\ UNCHANGED <<controlVars, timeVars, spc, rpc, final_flag_, parent, object, histVars>>

\* ... and followed: InterStop on another thread may have cleared it.
StopTimeAgent ==
    /\ kpc["object"] = "stop_agent"
    /\ IF agent_ THEN GotoStop("object", "take") /\ GotoChild("object", "stopping") /\ UNCHANGED crashed
                 ELSE crashed' = TRUE /\ GotoChild("object", "crashed") /\ UNCHANGED spc
    /\ UNCHANGED <<controlVars, timeVars, rpc, final_flag_, parent, object, wakes, asserts>>

TimeStopped ==
    /\ kpc["object"] = "stopping" /\ spc["object"] = "over"
    /\ GotoChild("object", "final")
    /\ UNCHANGED <<controlVars, timeVars, spc, rpc, final_flag_, parent, object, histVars>>

------------------------------------------------------------------------------
(* WaitTimeout and the timer *)

MutexFree == wait_flag_mutex_ = "free"

\* CoAwaitTime::await_suspend, under wait_flag_mutex_, ...
AwaitTime ==
    /\ kpc["time"] = "await" /\ MutexFree
    /\ IF run_flag_
       THEN /\ asserts' = (asserts /\ ~wait_flag_)
            /\ wait_flag_' = TRUE /\ wait_flag_mutex_' = "time"
            /\ GotoChild("time", "start_task")
            /\ UNCHANGED timeout_flag_
       ELSE /\ timeout_flag_' = FALSE
            /\ GotoChild("time", "stop_object")
            /\ UNCHANGED <<asserts, wait_flag_, wait_flag_mutex_>>
    /\ UNCHANGED <<controlVars, agent_, run_flag_, alive, task, due, spc, rpc, final_flag_, parent, object,
                   crashed, wakes>>

\* Mutant: the timer calls a task's function with tasks_mutex_ held.
MutexFreeOfCalls == task \notin {"taking", "calling"}

\* tasks_mutex_ of the timer, as far as this task goes: its worker has it while it
\* takes the task, and not while it calls the function.
TasksMutexFree == task # "taking"

\* ... which StartTask is called under.
StartTask ==
    /\ kpc["time"] = "start_task" /\ TasksMutexFree
    /\ task' = "started"
    /\ wait_flag_mutex_' = "free"
    /\ GotoChild("time", "waiting")
    /\ UNCHANGED <<controlVars, agent_, run_flag_, wait_flag_, timeout_flag_, alive, due, spc, rpc,
                   final_flag_, parent, object, histVars>>

\* The worker of the timer takes the task, its time come or the task stopped, ...
TimerTakes ==
    /\ task \in {"started", "stopped"}
    /\ due' = (task = "started")
    /\ task' = "taking"
    /\ UNCHANGED <<controlVars, agent_, run_flag_, wait_flag_, timeout_flag_, alive, wait_flag_mutex_,
                   spc, coVars, histVars>>

TimerUnlocks ==
    /\ task = "taking"
    /\ task' = "calling"
    /\ UNCHANGED <<controlVars, agent_, run_flag_, wait_flag_, timeout_flag_, alive, wait_flag_mutex_, due,
                   spc, coVars, histVars>>

\* ... and calls.
TimerCallback ==
    /\ task = "calling" /\ MutexFree
    /\ asserts' = (asserts /\ wait_flag_)
    /\ wait_flag_' = FALSE
    /\ timeout_flag_' = due
    /\ task' = "resume"
    /\ UNCHANGED <<controlVars, agent_, run_flag_, alive, wait_flag_mutex_, due, spc, coVars, crashed, wakes>>

TimerResume ==
    /\ task = "resume"
    /\ task' = "over"
    /\ wakes' = wakes + 1
    /\ GotoChild("time", IF kpc["time"] = "waiting" THEN "stop_object" ELSE kpc["time"])
    /\ UNCHANGED <<controlVars, agent_, run_flag_, wait_flag_, timeout_flag_, alive, wait_flag_mutex_, due,
                   spc, rpc, final_flag_, parent, object, crashed, asserts>>

\* await_obj_.Stop()
StopObject ==
    /\ kpc["time"] = "stop_object"
    /\ object' = IF object = "running" THEN "stopping" ELSE object
    /\ GotoChild("time", "final")
    /\ UNCHANGED <<controlVars, timeVars, spc, rpc, final_flag_, parent, histVars>>

------------------------------------------------------------------------------
(* ControlStartStop::Stop, Agent::Stop and InterStop *)

\* The set is swapped out; its agents are stopped one after the other.
ControlStop ==
    /\ cpc = "idle" /\ control_run /\ rpc # "construct"
    /\ control_run' = FALSE
    /\ registered' = FALSE
    /\ cpc' = "over"
    /\ GotoStop("control", IF registered THEN "take" ELSE "over")
    /\ UNCHANGED <<agent_funs, timeVars, coVars, histVars>>

\* Mutant: the functions stay.
Left(b) == b

\* The functions are replaced by empty ones.
Taken(b) == FALSE

\* Agent::Stop, under the agent's mutex: only the first finds the functions.
TakeFuns(s) ==
    /\ spc[s] = "take"
    /\ agent_funs' = Taken(agent_funs)
    /\ GotoStop(s, IF agent_funs THEN "unregister" ELSE "over")
    /\ UNCHANGED <<control_run, registered, cpc, timeVars, coVars, histVars>>

\* Mutant: the agent stays with the control.
Kept == registered

Erased == FALSE

\* Unregister, under the control's mutex.
Unregister(s) ==
    /\ spc[s] = "unregister"
    /\ registered' = Erased
    /\ GotoStop(s, "inter_stop")
    /\ UNCHANGED <<control_run, agent_funs, cpc, timeVars, coVars, histVars>>

\* InterStop, under wait_flag_mutex_, ...
InterStop(s) ==
    /\ spc[s] = "inter_stop" /\ (alive => MutexFree)
    /\ IF alive
       THEN /\ asserts' = (asserts /\ (~run_flag_ => ~wait_flag_))
            /\ run_flag_' = FALSE
            /\ IF wait_flag_
               THEN wait_flag_mutex_' = s /\ GotoStop(s, "stop_task")
               ELSE GotoStop(s, "over") /\ UNCHANGED wait_flag_mutex_
       ELSE GotoStop(s, "over") /\ UNCHANGED <<asserts, run_flag_, wait_flag_mutex_>>
    /\ UNCHANGED <<controlVars, agent_, wait_flag_, timeout_flag_, alive, task, due, coVars, crashed, wakes>>

\* ... which StopTask is called under; a task the timer has taken already has no use
\* for it.
StopTask(s) ==
    /\ spc[s] = "stop_task" /\ TasksMutexFree
    /\ task' = IF task = "started" THEN "stopped" ELSE task
    /\ wait_flag_mutex_' = "free"
    /\ GotoStop(s, "clear_agent")
    /\ UNCHANGED <<controlVars, agent_, run_flag_, wait_flag_, timeout_flag_, alive, due, coVars, histVars>>

\* agent_ = nullptr, outside the mutex.
ClearAgent(s) ==
    /\ spc[s] = "clear_agent"
    /\ agent_' = FALSE
    /\ GotoStop(s, "over")
    /\ UNCHANGED <<controlVars, run_flag_, wait_flag_, timeout_flag_, alive, wait_flag_mutex_, task, due,
                   coVars, histVars>>

AgentStop(s) ==
    TakeFuns(s) \/ Unregister(s) \/ InterStop(s) \/ StopTask(s) \/ ClearAgent(s)

RunStep == Construct \/ LaunchObject \/ LaunchTime \/ AwaitChildren \/ RunEnds

ObjectStep == StopTime \/ StopTimeAgent \/ TimeStopped \/ FinalSuspend("object")

TimeStep == AwaitTime \/ StartTask \/ StopObject \/ FinalSuspend("time")

TimerStep == TimerTakes \/ TimerUnlocks \/ TimerCallback \/ TimerResume

Next ==
    \/ RunStep \/ ObjectStep \/ TimeStep \/ TimerStep
    \/ ObjectEnds \/ ControlStop
    \/ \E s \in Stoppers : AgentStop(s)

Spec == Init /\ [][Next]_vars

\* Threads are scheduled; an object that was stopped ends.
FairSpec ==
    /\ Spec
    /\ WF_vars(RunStep) /\ WF_vars(ObjectStep) /\ WF_vars(TimeStep) /\ WF_vars(TimerStep)
    /\ \A s \in Stoppers : WF_vars(AgentStop(s))
    /\ WF_vars(object = "stopping" /\ ObjectEnds)

------------------------------------------------------------------------------
TypeOK ==
    /\ control_run \in BOOLEAN /\ registered \in BOOLEAN /\ agent_funs \in BOOLEAN
    /\ cpc \in {"idle", "over"}
    /\ agent_ \in BOOLEAN /\ run_flag_ \in BOOLEAN /\ wait_flag_ \in BOOLEAN
    /\ timeout_flag_ \in BOOLEAN /\ alive \in BOOLEAN
    /\ spc \in [Stoppers -> {"idle", "take", "unregister", "inter_stop", "stop_task", "clear_agent",
                          "over"}]
    /\ wait_flag_mutex_ \in {"free", "time"} \cup Stoppers
    /\ task \in {"none", "started", "stopped", "taking", "calling", "resume", "over"} /\ due \in BOOLEAN
    /\ rpc \in {"construct", "launch_object", "launch_time", "await_object", "suspended_object",
                "await_time", "suspended_time", "end", "done"}
    /\ kpc \in [Children -> {"none", "awaiting", "stop_time", "stop_agent", "stopping", "await",
                             "start_task", "waiting", "stop_object", "final", "over", "crashed"}]
    /\ final_flag_ \in [Children -> BOOLEAN] /\ parent \in [Children -> BOOLEAN]
    /\ object \in {"running", "stopping", "ended"}
    /\ crashed \in BOOLEAN /\ wakes \in Nat /\ asserts \in BOOLEAN

\* The asserts of CoAwaitTime: InterStop never finds a wait that is off already,
\* the timer never calls when nobody waits, nobody waits twice
\* (co_await_time.h:71, 96, 114) - whoever of the object, the control and the
\* timer comes first.
AssertsHold == asserts

\* A wait is ended once: by the time, or by one of those who may stop it, and not
\* after Run has destroyed what it waits on.
WokenOnce == wakes <= 1 /\ (task \notin {"none", "over"} => alive)

\* Run leaves no agent behind in the control: its functions hold `this` of a
\* CoAwaitTime that is gone (control_start_stop.h:83-104).
NoAgentLeft == rpc = "done" => ~registered

\* Run comes to its end, whatever comes first: those who stop the time, and the
\* timer that calls it, do not wait for each other with wait_flag_mutex_ and the
\* mutex of the timer in hand (co_await_time.h:77, 101, 113) - unless the
\* control is stopped just when the object ends, and agent_ is followed while it is
\* cleared (co_await_time.h:59-63, 79).
RunReturns == rpc = "launch_object" ~> (rpc = "done" \/ crashed)
===============================================================================
