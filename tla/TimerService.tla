---------------------------- MODULE TimerService ----------------------------
(***************************************************************************)
(* What ITimer promises its clients (Time/interface/i_timer.h): a task     *)
(* that was started has its function called exactly once, and the result   *)
(* it is called with says what became of it - the time came, somebody      *)
(* stopped the task, or the timer itself was stopped.                      *)
(*                                                                         *)
(* One identity of Ids stands for one successful StartTask.                *)
(***************************************************************************)

CONSTANT Ids                    \* one per StartTask

VARIABLES
    fate,                       \* what has become of each start
    open                        \* the timer has not been told to stop

serviceVars == <<fate, open>>

Outcomes == {"TRT_SUCCESS", "TRT_TASK_STOP", "TRT_TIMER_STOP"}

Fates == {"idle", "pending", "expiring", "stopping"} \cup Outcomes

ServiceTypeOK ==
    /\ fate \in [Ids -> Fates]
    /\ open \in BOOLEAN

ServiceInit ==
    /\ fate = [i \in Ids |-> "idle"]
    /\ open = TRUE

Begin(i) ==
    /\ fate[i] = "idle"
    /\ fate' = [fate EXCEPT ![i] = "pending"]
    /\ UNCHANGED open

\* StopTask has an effect only while the task is still being timed.
Cancel(i) ==
    /\ fate[i] = "pending"
    /\ fate' = [fate EXCEPT ![i] = "stopping"]
    /\ UNCHANGED open

\* Some of the pending starts come due together; no later StopTask undoes it.
Expire(S) ==
    /\ S # {}
    /\ \A i \in S : fate[i] = "pending"
    /\ fate' = [i \in Ids |-> IF i \in S THEN "expiring" ELSE fate[i]]
    /\ UNCHANGED open

Close ==
    /\ open
    /\ open' = FALSE
    /\ UNCHANGED fate

\* The function of start i is called with result r.
Deliver(i, r) ==
    /\ \/ fate[i] = "expiring" /\ r = "TRT_SUCCESS"
       \/ fate[i] = "stopping" /\ r = "TRT_TASK_STOP"
       \/ fate[i] = "pending" /\ ~open /\ r = "TRT_TIMER_STOP"
    /\ fate' = [fate EXCEPT ![i] = r]
    /\ UNCHANGED open

DeliverAny(i) == \E r \in Outcomes : Deliver(i, r)

ServiceNext ==
    \/ \E i \in Ids : Begin(i) \/ Cancel(i) \/ DeliverAny(i)
    \/ \E S \in SUBSET Ids : Expire(S)
    \/ Close

ServiceSafety == ServiceInit /\ [][ServiceNext]_serviceVars

\* Every call the service owes is eventually made.
ServiceSpec == ServiceSafety /\ \A i \in Ids : WF_serviceVars(DeliverAny(i))
=============================================================================
