----------------------------- MODULE ThreadsExec -----------------------------
(***************************************************************************)
(* jaf::ThreadsExec with its ConcurrentQueue, run by the threads of a      *)
(* MultiThreadsExec or by the one thread of a SimpleThreadExec             *)
(* (util/threads_exec.h, concurrent_queue.h, multi_threads_exec.h,         *)
(* single_thread_exec.h); which of the two it is, is chosen in Init.       *)
(*                                                                         *)
(* A step is one section under data_queue_mutex_, one notification, or one *)
(* read or write of stop_.  No mutex guards stop_, so a worker may read the*)
(* old value of it until it has locked data_queue_mutex_ behind the        *)
(* section of QuitAllWait.  A task is posted once, by a thread of its own, *)
(* through Post or through the awaitable of Switch.                        *)
(***************************************************************************)
EXTENDS Naturals, Sequences, FiniteSets

CONSTANTS
    Workers,              \* the threads one Start of a MultiThreadsExec creates
    Tasks,                \* tasks, each with the thread that posts it
    MaxStarts             \* bound on the calls of Start

None == "none"            \* an empty hand

ASSUME ExecAssumption ==
    /\ Workers # {} /\ IsFiniteSet(Workers)
    /\ None \notin Tasks
    /\ MaxStarts \in Nat

VARIABLES
    multi,                \* a MultiThreadsExec, not a SimpleThreadExec
    team,                 \* the threads one Start of this executor creates
    data_queue_, quit_wait_,
    waiting,              \* workers blocked on data_queue_cv_
    stop_, runing_,
    behind,               \* workers that may still read the old value of stop_
    threads_,             \* number of std::thread objects
    starts,               \* Starts so far
    cpc,                  \* where the controlling thread is in Start or Stop
    wpc, hand,            \* per worker: where it is, the task it took
    ppc,                  \* per task: where the thread posting it is
    ran,                  \* history: how often each task was run
    early                 \* history: tasks queued when Stop set stop_

classVars == <<multi, team>>
queueVars == <<data_queue_, quit_wait_, waiting>>
flagVars == <<stop_, runing_, behind, threads_, starts, cpc>>
workVars == <<wpc, hand>>
histVars == <<ran, early>>
vars == <<classVars, queueVars, flagVars, workVars, ppc, histVars>>

Elems(q) == {q[i] : i \in 1..Len(q)}

Init ==
    /\ \/ multi = TRUE /\ team = Workers
       \/ multi = FALSE /\ \E w \in Workers : team = {w}
    /\ data_queue_ = << >> /\ quit_wait_ = FALSE /\ waiting = {}
    /\ stop_ = FALSE /\ runing_ = FALSE /\ behind = {} /\ threads_ = 0
    /\ starts = 0 /\ cpc = "stopped"
    /\ wpc = [w \in Workers |-> "none"]
    /\ hand = [w \in Workers |-> None]
    /\ ppc = [t \in Tasks |-> "idle"]
    /\ ran = [t \in Tasks |-> 0]
    /\ early = {}

------------------------------------------------------------------------------
(* Start and Stop, by the thread that owns the executor *)

Start ==
    /\ cpc = "stopped" /\ ~runing_
    /\ starts < MaxStarts
    /\ starts' = starts + 1
    /\ runing_' = TRUE /\ stop_' = FALSE /\ behind' = {}
    /\ threads_' = IF multi THEN threads_ + Cardinality(team) ELSE 1
    /\ wpc' = [w \in Workers |-> IF w \in team THEN "test" ELSE "none"]
    /\ cpc' = "started"
    /\ UNCHANGED <<classVars, queueVars, hand, ppc, histVars>>

Stop ==
    /\ cpc = "started" /\ runing_
    /\ runing_' = FALSE /\ stop_' = TRUE /\ behind' = team
    /\ early' = Elems(data_queue_)
    /\ cpc' = "quit"
    /\ UNCHANGED <<classVars, queueVars, threads_, starts, workVars, ppc, ran>>

\* Mutant: notify_one instead.
WokenOne(S) == IF S = {} THEN {{}} ELSE {S \ {w} : w \in S}

\* notify_all
Woken(S) == {{}}

QuitAllWait ==
    /\ cpc = "quit"
    /\ quit_wait_' = TRUE
    /\ cpc' = "quit_notify"
    /\ UNCHANGED <<classVars, data_queue_, waiting, stop_, runing_, behind, threads_, starts,
                   workVars, ppc, histVars>>

QuitNotify ==
    /\ cpc = "quit_notify"
    /\ waiting' \in Woken(waiting)
    /\ cpc' = "join"
    /\ UNCHANGED <<classVars, data_queue_, quit_wait_, stop_, runing_, behind, threads_, starts,
                   workVars, ppc, histVars>>

\* threads_ begins with the threads of an earlier Start, which are joined.
JoinsTwice == threads_ > Cardinality(team)

Join ==
    /\ cpc = "join" /\ ~JoinsTwice
    /\ \A w \in team : wpc[w] = "exit"
    /\ cpc' = "stopped"
    /\ UNCHANGED <<classVars, queueVars, stop_, runing_, behind, threads_, starts, workVars, ppc,
                   histVars>>

\* Joining a std::thread a second time throws: the program ends, wherever its
\* workers are.
JoinThrows ==
    /\ cpc = "join" /\ JoinsTwice
    /\ cpc' = "terminated"
    /\ UNCHANGED <<classVars, queueVars, stop_, runing_, behind, threads_, starts, workVars, ppc,
                   histVars>>

------------------------------------------------------------------------------
(* Post, Switch *)

\* assert(!stop_); Post does not ask for runing_, and so may come before the
\* first Start.
PostAssert(t) ==
    /\ ppc[t] = "idle"
    /\ ~stop_
    /\ ppc' = [ppc EXCEPT ![t] = "push"]
    /\ UNCHANGED <<classVars, queueVars, flagVars, workVars, histVars>>

Push(t) ==
    /\ ppc[t] = "push"
    /\ data_queue_' = Append(data_queue_, t)
    /\ ppc' = [ppc EXCEPT ![t] = "notify"]
    /\ UNCHANGED <<classVars, quit_wait_, waiting, flagVars, workVars, histVars>>

\* Mutant: nobody is notified.
NotifyNobody(S) == {S}

\* notify_one: any one waiter, if there is one.
Notify(S) == IF S = {} THEN {{}} ELSE {S \ {w} : w \in S}

PushNotify(t) ==
    /\ ppc[t] = "notify"
    /\ waiting' \in Notify(waiting)
    /\ ppc' = [ppc EXCEPT ![t] = "posted"]
    /\ UNCHANGED <<classVars, data_queue_, quit_wait_, flagVars, workVars, histVars>>

------------------------------------------------------------------------------
(* WorkerRun *)

\* What a read of stop_ may give worker w.
SeenStop(w) == IF stop_ /\ w \in behind THEN BOOLEAN ELSE {stop_}

TestStop(w) ==
    /\ wpc[w] = "test"
    /\ \E seen \in SeenStop(w) :
          /\ wpc' = [wpc EXCEPT ![w] = IF seen THEN "drain" ELSE "pop"]
          /\ behind' = IF seen THEN behind \ {w} ELSE behind
    /\ UNCHANGED <<classVars, queueVars, stop_, runing_, threads_, starts, cpc, hand, ppc, histVars>>

\* Locking the mutex behind QuitAllWait makes its stop_ visible.
CatchUp(w) == behind' = IF cpc = "quit" THEN behind ELSE behind \ {w}

Popped(q) == Tail(q)

Take(w, next) ==
    /\ hand' = [hand EXCEPT ![w] = Head(data_queue_)]
    /\ data_queue_' = Popped(data_queue_)
    /\ wpc' = [wpc EXCEPT ![w] = next]

\* WaitAndPop, entered or woken.
PopTask(w) ==
    /\ wpc[w] = "pop" \/ (wpc[w] = "wait" /\ w \notin waiting)
    /\ data_queue_ # << >>
    /\ Take(w, "run")
    /\ CatchUp(w)
    /\ UNCHANGED <<classVars, quit_wait_, waiting, stop_, runing_, threads_, starts, cpc, ppc,
                   histVars>>

PopQuit(w) ==
    /\ wpc[w] = "pop" \/ (wpc[w] = "wait" /\ w \notin waiting)
    /\ data_queue_ = << >> /\ quit_wait_
    /\ wpc' = [wpc EXCEPT ![w] = "test"]
    /\ CatchUp(w)
    /\ UNCHANGED <<classVars, queueVars, stop_, runing_, threads_, starts, cpc, hand, ppc, histVars>>

PopWait(w) ==
    /\ wpc[w] = "pop" \/ (wpc[w] = "wait" /\ w \notin waiting)
    /\ data_queue_ = << >> /\ ~quit_wait_
    /\ waiting' = waiting \cup {w}
    /\ wpc' = [wpc EXCEPT ![w] = "wait"]
    /\ UNCHANGED <<classVars, data_queue_, quit_wait_, flagVars, hand, ppc, histVars>>

SpuriousWake(w) ==
    /\ w \in waiting
    /\ waiting' = waiting \ {w}
    /\ UNCHANGED <<classVars, data_queue_, quit_wait_, flagVars, workVars, ppc, histVars>>

RunTask(w) ==
    /\ wpc[w] \in {"run", "run_rest"}
    /\ ran' = [ran EXCEPT ![hand[w]] = @ + 1]
    /\ hand' = [hand EXCEPT ![w] = None]
    /\ wpc' = [wpc EXCEPT ![w] = IF wpc[w] = "run" THEN "test" ELSE "drain"]
    /\ UNCHANGED <<classVars, queueVars, flagVars, ppc, early>>

\* Mutant: the rest of the queue is not worked off.
NoRest(q) == << >>

\* TryPop after the loop has ended.
Rest(q) == q

DrainTask(w) ==
    /\ wpc[w] = "drain"
    /\ Rest(data_queue_) # << >>
    /\ Take(w, "run_rest")
    /\ UNCHANGED <<classVars, quit_wait_, waiting, flagVars, ppc, histVars>>

Exit(w) ==
    /\ wpc[w] = "drain"
    /\ Rest(data_queue_) = << >>
    /\ wpc' = [wpc EXCEPT ![w] = "exit"]
    /\ UNCHANGED <<classVars, queueVars, flagVars, hand, ppc, histVars>>

Alive == cpc # "terminated"

WorkerRun(w) ==
    /\ Alive
    /\ \/ TestStop(w) \/ PopTask(w) \/ PopQuit(w) \/ PopWait(w) \/ RunTask(w)
       \/ DrainTask(w) \/ Exit(w)

\* The rest of a Post once its assertion has passed.
Posting(t) == Alive /\ (Push(t) \/ PushNotify(t))

Stopping == QuitAllWait \/ QuitNotify \/ Join \/ JoinThrows

Next ==
    \/ Start \/ Stop \/ Stopping
    \/ \E t \in Tasks : Posting(t) \/ (Alive /\ PostAssert(t))
    \/ \E w \in Workers : WorkerRun(w) \/ (Alive /\ SpuriousWake(w))

Spec == Init /\ [][Next]_vars

\* The threads are scheduled; nobody has to call Start, Stop or Post.
FairSpec ==
    /\ Spec
    /\ WF_vars(Stopping)
    /\ \A w \in Workers : WF_vars(WorkerRun(w))
    /\ \A t \in Tasks : WF_vars(Posting(t))

------------------------------------------------------------------------------
TypeOK ==
    /\ multi \in BOOLEAN /\ team \subseteq Workers
    /\ data_queue_ \in Seq(Tasks)
    /\ quit_wait_ \in BOOLEAN
    /\ waiting \subseteq Workers
    /\ stop_ \in BOOLEAN /\ runing_ \in BOOLEAN /\ behind \subseteq Workers
    /\ threads_ \in Nat /\ starts \in Nat
    /\ cpc \in {"started", "quit", "quit_notify", "join", "stopped", "terminated"}
    /\ wpc \in [Workers -> {"none", "test", "pop", "wait", "run", "drain", "run_rest", "exit"}]
    /\ hand \in [Workers -> Tasks \cup {None}]
    /\ ppc \in [Tasks -> {"idle", "push", "notify", "posted"}]
    /\ ran \in [Tasks -> 0..1]
    /\ early \subseteq Tasks

\* A task that was pushed is in one place only - once in the queue, in the
\* hand of one worker, or run once - and never anywhere else
\* (concurrent_queue.h:33-77, threads_exec.h:121-139).
OneHome ==
    \A t \in Tasks :
        Cardinality({i \in 1..Len(data_queue_) : data_queue_[i] = t})
          + Cardinality({w \in Workers : hand[w] = t}) + ran[t]
            = IF ppc[t] \in {"notify", "posted"} THEN 1 ELSE 0

\* Workers that will look at the queue before they sleep or end.
Heading == {w \in Workers \ waiting : wpc[w] \in {"test", "pop", "wait", "drain"}}

\* No task is left to a busy worker while another one sleeps: while anybody
\* waits, every queued task has a worker or a notification on its way to the
\* queue (concurrent_queue.h:33-40, 62-77).
NoLostWakeup ==
    waiting # {} =>
        Len(data_queue_) <= Cardinality(Heading) + Cardinality({t \in Tasks : ppc[t] = "notify"})

\* When Stop has returned, every task queued before it began has been run
\* (threads_exec.h:56-60, 135-139).
StopRunsQueued == cpc = "stopped" /\ starts > 0 => \A t \in early : ran[t] = 1

\* Stop does its work: no worker misses being told to quit, though it may read
\* stop_ too early, and Stop returns.  The exception is what the code does with a
\* MultiThreadsExec that was started before: Stop throws, and the program ends
\* (threads_exec.h:56-60, 125-133, concurrent_queue.h:62-87,
\* multi_threads_exec.h:65-78, single_thread_exec.h:41-51).
StopReturns == cpc = "quit" ~> cpc = IF multi /\ starts > 1 THEN "terminated" ELSE "stopped"

\* A task in the queue of a started executor is run, be it pushed before Start,
\* behind it, or behind the last look of the workers of an earlier start - unless
\* the program is ended by the throwing Stop of a MultiThreadsExec started twice
\* (threads_exec.h:114-139, multi_threads_exec.h:44-78).
PostedIsRun ==
    \A t \in Tasks :
        ppc[t] \in {"notify", "posted"} /\ cpc = "started"
            ~> ran[t] = 1 \/ (multi /\ starts > 1 /\ cpc = "terminated")
==============================================================================
