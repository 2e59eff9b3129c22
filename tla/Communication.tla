----------------------------- MODULE Communication -----------------------------
(***************************************************************************)
(* jaf::comm::Communication on Linux and on Windows, with the thread pool  *)
(* its work thread runs on, and - on Windows - the operations the work     *)
(* thread completes: Communication/impl/linux and impl/windows,            *)
(* communication.cpp; impl/windows/channel_read_write_helper.cpp;          *)
(* util/simple_thread_pool.h, co_wait_notices.h.                           *)
(*                                                                         *)
(* Run posts one task to the pool and waits to be stopped; then it tells   *)
(* the work thread and waits for its notice.  On Linux the work thread     *)
(* takes batches of events, of which the two event descriptors are         *)
(* modelled here and the sockets in ChannelReadWriteHelper.  On Windows it *)
(* takes completion packets one by one.  A coroutine resumed inside a call *)
(* does what it may do on a thread of its own.                             *)
(***************************************************************************)
EXTENDS Naturals, Sequences, FiniteSets

CONSTANTS
    Platforms,            \* a subset of {"linux", "windows"}
    Workers,              \* the threads of the pool
    Ops,                  \* operations on one socket (Windows)
    Funs,                 \* functions given to AddFun (Linux)
    UserTasks,            \* tasks users post to the pool
    MaxRuns               \* bound: how often Run is called

ASSUME CommunicationAssumption ==
    /\ Platforms \subseteq {"linux", "windows"}
    /\ Workers # {} /\ IsFiniteSet(Workers)
    /\ "work" \notin UserTasks /\ "wake" \notin Ops
    /\ MaxRuns \in Nat

VARIABLES
    os,
    \* Communication
    cpc,                  \* where Run is
    runs,                 \* how often it was called
    run_flag_,
    stop_run, stop_wait,  \* wait_stop_
    times_, notice_wait,  \* wait_work_thread_finish_
    \* SimpleThreadPool
    pool,                 \* where Stop is: "up", "stopping", "joining", "joined", "terminated"
    tasks_,
    wpc,                  \* where each worker is
    cur,                  \* what it has in hand: a task, a packet, the events of a batch
    done,                 \* history: tasks of users that were run
    \* Linux
    stop_fd_, funs_fd_,   \* the two counters
    funs_, fpc,           \* AddFun: the list, and where each caller is
    ran,                  \* history: functions that were run
    \* Windows
    packets,              \* what the completion port holds
    socket,               \* "open", "closed"
    spc,                  \* where await_suspend is, per operation
    io,                   \* the operation in the kernel
    op_run,               \* the Run whose port the operation belongs to
    finish_flag_, timeout_flag_, cancelled,
    task,                 \* the timer's view of timeout_task_
    resumes               \* history: how often the coroutine was resumed

runVars == <<cpc, runs, run_flag_, stop_run, stop_wait, times_, notice_wait>>
poolVars == <<pool, tasks_, wpc, cur, done>>
linuxVars == <<stop_fd_, funs_fd_, funs_, fpc, ran>>
opVars == <<spc, op_run, finish_flag_, timeout_flag_, task, resumes>>
windowsVars == <<packets, socket, io, cancelled, opVars>>
vars == <<os, runVars, poolVars, linuxVars, windowsVars>>

Init ==
    /\ os \in Platforms
    /\ cpc = "idle" /\ runs = 0 /\ run_flag_ = FALSE
    /\ stop_run = FALSE /\ stop_wait = FALSE /\ times_ = 0 /\ notice_wait = FALSE
    /\ pool = "up" /\ tasks_ = << >>
    /\ wpc = [w \in Workers |-> "test"] /\ cur = [w \in Workers |-> << >>] /\ done = {}
    /\ stop_fd_ = 0 /\ funs_fd_ = 0 /\ funs_ = {} /\ fpc = [f \in Funs |-> "idle"] /\ ran = {}
    /\ packets = << >> /\ socket = "open"
    /\ spc = [o \in Ops |-> "idle"] /\ io = [o \in Ops |-> "none"] /\ op_run = [o \in Ops |-> 0]
    /\ finish_flag_ = [o \in Ops |-> FALSE] /\ timeout_flag_ = [o \in Ops |-> FALSE]
    /\ cancelled = [o \in Ops |-> FALSE] /\ task = [o \in Ops |-> "none"]
    /\ resumes = [o \in Ops |-> 0]

GotoWorker(w, l) == wpc' = [wpc EXCEPT ![w] = l]

\* The port, or the epoll set, is there.
PortOpen == cpc \notin {"idle", "over"}

------------------------------------------------------------------------------
(* SimpleThreadPool *)

\* notify_one and notify_all reach those who sleep.
Awakened(w) == [wpc EXCEPT ![w] = "lock"]

AllAwakened == [w \in Workers |-> IF wpc[w] = "asleep" THEN "lock" ELSE wpc[w]]

\* Mutant: one worker is told.
OneAwakened ==
    IF \E w \in Workers : wpc[w] = "asleep"
    THEN Awakened(CHOOSE w \in Workers : wpc[w] = "asleep") ELSE wpc

\* notify_all in Stop.
StopNotified == AllAwakened

\* Under queue_mutex_.
Post(t) ==
    /\ tasks_' = Append(tasks_, t)
    /\ IF \E w \in Workers : wpc[w] = "asleep"
       THEN \E w \in Workers : wpc[w] = "asleep" /\ wpc' = Awakened(w)
       ELSE UNCHANGED wpc

UserPosts(t) ==
    /\ pool = "up" /\ t \notin done /\ \A i \in DOMAIN tasks_ : tasks_[i] # t
    /\ \A w \in Workers : cur[w] # <<t>>
    /\ Post(t)
    /\ UNCHANGED <<os, runVars, pool, cur, done, linuxVars, windowsVars>>

\* What a read of stop_ may give: it is a plain bool, written without the mutex,
\* and only the mutex of the notification orders the two.
SeenStop == CASE pool = "up" -> {FALSE} [] pool = "stopping" -> BOOLEAN [] OTHER -> {TRUE}

\* while (!stop_)
TestStop(w) ==
    /\ wpc[w] = "test"
    /\ \E stop \in SeenStop : GotoWorker(w, IF stop THEN "gone" ELSE "lock")
    /\ UNCHANGED <<os, runVars, pool, tasks_, cur, done, linuxVars, windowsVars>>

\* The section under queue_mutex_: the wait, the test of stop_, the pop.
TakeTask(w) ==
    /\ wpc[w] = "lock"
    /\ \E stop \in SeenStop :
          IF stop THEN GotoWorker(w, "gone") /\ UNCHANGED <<tasks_, cur>>
          ELSE IF tasks_ = << >> THEN GotoWorker(w, "asleep") /\ UNCHANGED <<tasks_, cur>>
          ELSE /\ tasks_' = Tail(tasks_)
               /\ cur' = [cur EXCEPT ![w] = <<Head(tasks_)>>]
               /\ GotoWorker(w, "task")
    /\ UNCHANGED <<os, runVars, pool, done, linuxVars, windowsVars>>

SpuriousWake(w) ==
    /\ wpc[w] = "asleep"
    /\ wpc' = Awakened(w)
    /\ UNCHANGED <<os, runVars, pool, tasks_, cur, done, linuxVars, windowsVars>>

\* task()
CallTask(w) ==
    /\ wpc[w] = "task"
    /\ cur' = [cur EXCEPT ![w] = << >>]
    /\ IF cur[w] = <<"work">> THEN GotoWorker(w, "loop") /\ UNCHANGED done
       ELSE GotoWorker(w, "test") /\ done' = done \cup {Head(cur[w])}
    /\ UNCHANGED <<os, runVars, pool, tasks_, linuxVars, windowsVars>>

\* Stop, on the thread of the user that drops the last reference to the pool, when
\* Communication no longer runs ...
PoolStop ==
    /\ pool = "up" /\ cpc \in {"idle", "over"}
    /\ pool' = "stopping"
    /\ UNCHANGED <<os, runVars, tasks_, wpc, cur, done, linuxVars, windowsVars>>

PoolNotify ==
    /\ pool = "stopping"
    /\ pool' = "joining"
    /\ wpc' = StopNotified
    /\ UNCHANGED <<os, runVars, tasks_, cur, done, linuxVars, windowsVars>>

PoolJoin ==
    /\ pool = "joining"
    /\ \A w \in Workers : wpc[w] = "gone"
    /\ pool' = "joined"
    /\ UNCHANGED <<os, runVars, tasks_, wpc, cur, done, linuxVars, windowsVars>>

\* ... or on the worker where Run came to its end: the coroutine that awaited Run
\* goes on there, and when it lets go of a Communication that made the pool itself
\* the worker joins itself, which throws in a destructor.
PoolJoinsItself(w) ==
    /\ pool = "up" /\ cpc = "over" /\ wpc[w] = "resuming"
    /\ pool' = "terminated"
    /\ UNCHANGED <<os, runVars, tasks_, wpc, cur, done, linuxVars, windowsVars>>

------------------------------------------------------------------------------
(* Communication::Run and Stop *)

\* Mutant: no notice is waited for.
NoNotices == 0

\* One work thread, and so one task, one notice and one packet.
WorkThreads == 1

\* Up to CreateWorkThread.  Run is called by a user, on a thread that may be a
\* worker still inside Notify.
RunBegin ==
    /\ cpc \in {"idle", "over"} /\ runs < MaxRuns /\ pool = "up"
    /\ runs' = runs + 1
    /\ run_flag_' = TRUE
    /\ stop_run' = TRUE
    /\ times_' = WorkThreads
    /\ stop_fd_' = 0 /\ funs_fd_' = 0
    /\ cpc' = "create"
    /\ UNCHANGED <<os, stop_wait, notice_wait, poolVars, funs_, fpc, ran, windowsVars>>

CreateWorkThread ==
    /\ cpc = "create"
    /\ Post("work")
    /\ cpc' = "await"
    /\ UNCHANGED <<os, runs, run_flag_, stop_run, stop_wait, times_, notice_wait, pool, cur,
                   done, linuxVars, windowsVars>>

\* Mutant: await_suspend does not look whether Stop was there first.
AlwaysWaits == TRUE

Waits == stop_run

\* co_await wait_stop_.Wait()
AwaitStop ==
    /\ cpc = "await" /\ ~stop_wait
    /\ IF Waits THEN stop_wait' = TRUE /\ UNCHANGED cpc
                   ELSE cpc' = "clear" /\ UNCHANGED stop_wait
    /\ UNCHANGED <<os, runs, run_flag_, stop_run, times_, notice_wait, poolVars, linuxVars,
                   windowsVars>>

\* wait_stop_.Stop()
Stop ==
    /\ stop_run
    /\ stop_run' = FALSE /\ stop_wait' = FALSE
    /\ cpc' = IF stop_wait THEN "clear" ELSE cpc
    /\ UNCHANGED <<os, runs, run_flag_, times_, notice_wait, poolVars, linuxVars, windowsVars>>

ClearRunFlag ==
    /\ cpc = "clear"
    /\ run_flag_' = FALSE
    /\ cpc' = "tell"
    /\ UNCHANGED <<os, runs, stop_run, stop_wait, times_, notice_wait, poolVars, linuxVars,
                   windowsVars>>

\* A write to stop_fd_; a packet without an operation.
TellWorkThread ==
    /\ cpc = "tell"
    /\ IF os = "linux" THEN stop_fd_' = stop_fd_ + 1 /\ UNCHANGED packets
                       ELSE packets' = Append(packets, "wake") /\ UNCHANGED stop_fd_
    /\ cpc' = "join"
    /\ UNCHANGED <<os, runs, run_flag_, stop_run, stop_wait, times_, notice_wait, poolVars,
                   funs_fd_, funs_, fpc, ran, socket, io, cancelled, opVars>>

\* CoWaitNotices::await_suspend
AwaitNotices ==
    /\ cpc = "join" /\ ~notice_wait
    /\ IF times_ = 0 THEN cpc' = "close" /\ UNCHANGED notice_wait
                     ELSE notice_wait' = TRUE /\ UNCHANGED cpc
    /\ UNCHANGED <<os, runs, run_flag_, stop_run, stop_wait, times_, poolVars, linuxVars,
                   windowsVars>>

\* What the port still holds goes with it.
Close ==
    /\ cpc = "close"
    /\ cpc' = "over"
    /\ packets' = << >>
    /\ io' = [o \in Ops |-> IF io[o] \in {"success", "fail"} THEN "lost" ELSE io[o]]
    /\ UNCHANGED <<os, runs, run_flag_, stop_run, stop_wait, times_, notice_wait, poolVars,
                   linuxVars, socket, cancelled, opVars>>

------------------------------------------------------------------------------
(* WorkThreadRun *)

\* while (run_flag_): a plain bool too, but what is read late is followed by a
\* call that returns at once.
WorkLoop(w) ==
    /\ wpc[w] = "loop"
    /\ GotoWorker(w, IF run_flag_ THEN "get" ELSE "notify")
    /\ UNCHANGED <<os, runVars, pool, tasks_, cur, done, linuxVars, windowsVars>>

\* Linux: a batch of the events that are ready, in any order; both descriptors
\* are level triggered.
EpollWait(w) ==
    LET ready == (IF stop_fd_ > 0 THEN {"stop"} ELSE {}) \cup (IF funs_fd_ > 0 THEN {"funs"} ELSE {})
    IN  /\ os = "linux" /\ wpc[w] = "get"
        /\ ready # {}
        /\ \E batch \in [1..Cardinality(ready) -> ready] :
              /\ \A e \in ready : \E i \in DOMAIN batch : batch[i] = e
              /\ cur' = [cur EXCEPT ![w] = batch]
        /\ GotoWorker(w, "batch")
        /\ UNCHANGED <<os, runVars, pool, tasks_, done, linuxVars, windowsVars>>

\* Any other error than an interruption ends the loop.
EpollWaitFails(w) ==
    /\ os = "linux" /\ wpc[w] = "get"
    /\ GotoWorker(w, "notify")
    /\ UNCHANGED <<os, runVars, pool, tasks_, cur, done, linuxVars, windowsVars>>

\* call_ of the next event; that of stop_fd_ does nothing.
CallEvent(w) ==
    /\ wpc[w] = "batch"
    /\ IF cur[w] = << >> THEN GotoWorker(w, "loop") /\ UNCHANGED <<cur, funs_fd_>>
       ELSE /\ cur' = [cur EXCEPT ![w] = Tail(cur[w])]
            /\ IF Head(cur[w]) = "funs" THEN funs_fd_' = 0 /\ GotoWorker(w, "run_funs")
                                       ELSE UNCHANGED <<wpc, funs_fd_>>
    /\ UNCHANGED <<os, runVars, pool, tasks_, done, stop_fd_, funs_, fpc, ran, windowsVars>>

\* OnRunFuns behind its read: the list is swapped out and run.
OnRunFuns(w) ==
    /\ wpc[w] = "run_funs"
    /\ funs_' = {} /\ ran' = ran \cup funs_
    /\ GotoWorker(w, "batch")
    /\ UNCHANGED <<os, runVars, pool, tasks_, cur, done, stop_fd_, funs_fd_, fpc, windowsVars>>

\* AddFun: into the list, under funs_mutex_ ...
AddFun(f) ==
    /\ os = "linux" /\ fpc[f] = "idle" /\ PortOpen
    /\ funs_' = funs_ \cup {f}
    /\ fpc' = [fpc EXCEPT ![f] = "write"]
    /\ UNCHANGED <<os, runVars, poolVars, stop_fd_, funs_fd_, ran, windowsVars>>

\* Mutant: nothing is written.
NotRung == 0

Rung == funs_fd_ + 1

\* ... and a write to funs_fd_, which its assert wants open.
RingFuns(f) ==
    /\ fpc[f] = "write"
    /\ fpc' = [fpc EXCEPT ![f] = "added"]
    /\ funs_fd_' = IF PortOpen THEN Rung ELSE funs_fd_
    /\ UNCHANGED <<os, runVars, poolVars, stop_fd_, funs_, ran, windowsVars>>

\* Windows: GetQueuedCompletionStatus; a packet without an operation is passed
\* over.
GetPacket(w) ==
    /\ os = "windows" /\ wpc[w] = "get"
    /\ packets # << >>
    /\ packets' = Tail(packets)
    /\ IF Head(packets) = "wake" THEN GotoWorker(w, "loop") /\ UNCHANGED cur
       ELSE GotoWorker(w, "packet") /\ cur' = [cur EXCEPT ![w] = <<Head(packets)>>]
    /\ UNCHANGED <<os, runVars, pool, tasks_, done, linuxVars, socket, io, cancelled, opVars>>

Wakes(t) == t = 0 /\ notice_wait

\* FINALLY: CoWaitNotices::Notify.  Run, if it waits, goes on inside.
NotifyFinish(w) ==
    /\ wpc[w] = "notify"
    /\ times_' = IF times_ # 0 THEN times_ - 1 ELSE 0
    /\ IF Wakes(times_')
       THEN notice_wait' = FALSE /\ cpc' = "close" /\ GotoWorker(w, "resuming")
       ELSE GotoWorker(w, "test") /\ UNCHANGED <<notice_wait, cpc>>
    /\ UNCHANGED <<os, runs, run_flag_, stop_run, stop_wait, pool, tasks_, cur, done, linuxVars,
                   windowsVars>>

\* What was resumed has ended or waits for something else.
ResumeReturns(w) ==
    /\ wpc[w] = "resuming" /\ cpc # "close"
    /\ GotoWorker(w, "test")
    /\ UNCHANGED <<os, runVars, pool, tasks_, cur, done, linuxVars, windowsVars>>

------------------------------------------------------------------------------
(* RWAwaitable on Windows *)

Resume(o) == resumes' = [resumes EXCEPT ![o] = @ + 1]

\* await_suspend: DoOperate fails at once, and leaves CRS_UNKNOWN ...
OperateFails(o) ==
    /\ os = "windows" /\ spc[o] = "idle" /\ PortOpen
    /\ spc' = [spc EXCEPT ![o] = "done"]
    /\ Resume(o)
    /\ UNCHANGED <<os, runVars, poolVars, linuxVars, packets, socket, io, cancelled, op_run,
                   finish_flag_, timeout_flag_, task>>

\* ... or the kernel has the operation,
DoOperate(o) ==
    /\ os = "windows" /\ spc[o] = "idle" /\ PortOpen /\ socket = "open"
    /\ spc' = [spc EXCEPT ![o] = "start_task"]
    /\ io' = [io EXCEPT ![o] = "pending"]
    /\ op_run' = [op_run EXCEPT ![o] = runs]
    /\ UNCHANGED <<os, runVars, poolVars, linuxVars, packets, socket, cancelled, finish_flag_,
                   timeout_flag_, task, resumes>>

\* Mutant: the timeout is not armed.
NotArmed(o) == task

Armed(o) == [task EXCEPT ![o] = "started"]

\* and only then the timeout is armed.
StartTask(o) ==
    /\ spc[o] = "start_task"
    /\ spc' = [spc EXCEPT ![o] = "done"]
    /\ task' = Armed(o)
    /\ UNCHANGED <<os, runVars, poolVars, linuxVars, packets, socket, io, cancelled, op_run,
                   finish_flag_, timeout_flag_, resumes>>

\* The kernel: an operation of a closed socket or a cancelled one fails, unless
\* it was already done; a port that was closed takes no packet.
Complete(o) ==
    /\ io[o] = "pending"
    /\ \E r \in {"success", "fail"} :
          /\ r = "success" => socket = "open"
          /\ IF PortOpen /\ op_run[o] = runs
             THEN io' = [io EXCEPT ![o] = r] /\ packets' = Append(packets, o)
             ELSE io' = [io EXCEPT ![o] = "lost"] /\ UNCHANGED packets
    /\ UNCHANGED <<os, runVars, poolVars, linuxVars, socket, cancelled, opVars>>

\* closesocket, by the channel
CloseSocket ==
    /\ os = "windows" /\ socket = "open"
    /\ socket' = "closed"
    /\ UNCHANGED <<os, runVars, poolVars, linuxVars, packets, io, cancelled, opVars>>

\* Mutant: the timeout is not asked for.
NeverTimedOut(o) == FALSE

TimedOut(o) == timeout_flag_[o]

\* IoCallback on the work thread, up to the end of the section under the mutex.
IoCallback(w) ==
    /\ wpc[w] = "packet"
    /\ LET o == Head(cur[w])
       IN  IF TimedOut(o)
           THEN GotoWorker(w, "loop") /\ cur' = [cur EXCEPT ![w] = << >>] /\ UNCHANGED finish_flag_
           ELSE /\ finish_flag_' = [finish_flag_ EXCEPT ![o] = TRUE]
                /\ GotoWorker(w, "answer") /\ UNCHANGED cur
    /\ UNCHANGED <<os, runVars, pool, tasks_, done, linuxVars, packets, socket, io, cancelled,
                   spc, op_run, timeout_flag_, task, resumes>>

\* StopTask - of a task the timer may not have yet - and the result.
IoAnswer(w) ==
    /\ wpc[w] = "answer"
    /\ LET o == Head(cur[w])
       IN  /\ task' = [task EXCEPT ![o] = IF @ = "started" THEN "stopped" ELSE @]
           /\ Resume(o)
    /\ cur' = [cur EXCEPT ![w] = << >>]
    /\ GotoWorker(w, "loop")
    /\ UNCHANGED <<os, runVars, pool, tasks_, done, linuxVars, packets, socket, io, cancelled,
                   spc, op_run, finish_flag_, timeout_flag_>>

\* OnTimeout on the timer's thread, for a task that is due or was stopped, up to
\* the end of the section.
OnTimeout(o) ==
    /\ task[o] \in {"started", "stopped"}
    /\ IF finish_flag_[o] THEN task' = [task EXCEPT ![o] = "over"] /\ UNCHANGED timeout_flag_
       ELSE /\ task' = [task EXCEPT ![o] = "answer"]
            /\ timeout_flag_' = [timeout_flag_ EXCEPT ![o] = TRUE]
    /\ UNCHANGED <<os, runVars, poolVars, linuxVars, packets, socket, io, cancelled, spc, op_run,
                   finish_flag_, resumes>>

\* CancelIoEx, which does not wait for the kernel, and the result.
TimeoutAnswer(o) ==
    /\ task[o] = "answer"
    /\ task' = [task EXCEPT ![o] = "over"]
    /\ cancelled' = [cancelled EXCEPT ![o] = TRUE]
    /\ Resume(o)
    /\ UNCHANGED <<os, runVars, poolVars, linuxVars, packets, socket, io, spc, op_run,
                   finish_flag_, timeout_flag_>>

------------------------------------------------------------------------------
RunStep ==
    CreateWorkThread \/ AwaitStop \/ ClearRunFlag \/ TellWorkThread \/ AwaitNotices \/ Close

WorkStep(w) ==
    \/ WorkLoop(w) \/ EpollWait(w) \/ CallEvent(w) \/ OnRunFuns(w) \/ GetPacket(w) \/ IoCallback(w)
    \/ IoAnswer(w) \/ NotifyFinish(w) \/ ResumeReturns(w)

Worker(w) == TestStop(w) \/ TakeTask(w) \/ CallTask(w) \/ WorkStep(w)

PoolStep == PoolNotify \/ PoolJoin

TimerStep(o) == OnTimeout(o) \/ TimeoutAnswer(o)

\* std::terminate ends it all.
Next ==
    /\ pool # "terminated"
    /\ \/ RunBegin \/ RunStep \/ Stop
       \/ PoolStop \/ PoolStep \/ CloseSocket
       \/ \E w \in Workers : \/ Worker(w) \/ SpuriousWake(w) \/ EpollWaitFails(w)
                             \/ PoolJoinsItself(w)
       \/ \E t \in UserTasks : UserPosts(t)
       \/ \E f \in Funs : AddFun(f) \/ RingFuns(f)
       \/ \E o \in Ops : \/ OperateFails(o) \/ DoOperate(o) \/ StartTask(o) \/ Complete(o)
                         \/ TimerStep(o)

Spec == Init /\ [][Next]_vars

\* Threads are scheduled, the timer answers every task it was given, the kernel
\* completes what was cancelled or whose socket was closed.
FairSpec ==
    /\ Spec
    /\ WF_vars(RunStep \/ PoolStep)
    /\ \A w \in Workers : WF_vars(Worker(w))
    /\ \A f \in Funs : WF_vars(RingFuns(f))
    /\ \A o \in Ops : /\ WF_vars(StartTask(o) \/ TimerStep(o))
                      /\ WF_vars((cancelled[o] \/ socket = "closed") /\ Complete(o))

------------------------------------------------------------------------------
InWork == {"loop", "get", "batch", "run_funs", "packet", "answer", "notify"}

TypeOK ==
    /\ os \in Platforms
    /\ cpc \in {"idle", "create", "await", "clear", "tell", "join", "close", "over"}
    /\ runs \in 0..MaxRuns
    /\ run_flag_ \in BOOLEAN /\ stop_run \in BOOLEAN /\ stop_wait \in BOOLEAN
    /\ times_ \in Nat /\ notice_wait \in BOOLEAN
    /\ pool \in {"up", "stopping", "joining", "joined", "terminated"}
    /\ tasks_ \in Seq({"work"} \cup UserTasks) /\ done \subseteq UserTasks
    /\ wpc \in [Workers -> InWork \cup {"test", "lock", "asleep", "task", "resuming", "gone"}]
    /\ stop_fd_ \in Nat /\ funs_fd_ \in Nat /\ funs_ \subseteq Funs /\ ran \subseteq Funs
    /\ fpc \in [Funs -> {"idle", "write", "added"}]
    /\ packets \in Seq({"wake"} \cup Ops) /\ socket \in {"open", "closed"}
    /\ spc \in [Ops -> {"idle", "start_task", "done"}]
    /\ io \in [Ops -> {"none", "pending", "success", "fail", "lost"}]
    /\ op_run \in [Ops -> Nat]
    /\ finish_flag_ \in [Ops -> BOOLEAN] /\ timeout_flag_ \in [Ops -> BOOLEAN]
    /\ cancelled \in [Ops -> BOOLEAN]
    /\ task \in [Ops -> {"none", "started", "stopped", "answer", "over"}]
    /\ resumes \in [Ops -> Nat]

\* The port, or the epoll set, is closed only when the work thread has left its
\* loop: GetQueuedCompletionStatus fails with no operation otherwise, and
\* pPerIoData->err_ follows a null pointer (impl/windows/communication.cpp:138-141);
\* and a Run that follows meets no work thread of the last one.
PortOutlivesWorkThread ==
    /\ cpc \in {"close", "over"} => \A w \in Workers : wpc[w] \notin InWork
    /\ Cardinality({w \in Workers : wpc[w] \in InWork}) <= 1

\* Completion, timeout and the end of Communication resume a coroutine at most
\* once (impl/windows/channel_read_write_helper.cpp:90-135).
AnsweredOnce == \A o \in Ops : resumes[o] <= 1

\* An operation the kernel has is answered, by the timer at the latest: also when
\* the work thread leaves its loop with packets still in the port.
EveryOperationEnds ==
    \A o \in Ops : spc[o] = "start_task" ~> (resumes[o] = 1 \/ pool = "terminated")

\* Stop was called behind wait_stop_.Start(), and Run has not gone on yet.
StopAsked == cpc \in {"create", "await", "clear"} /\ ~stop_run

\* What was stopped comes to its end: Run, whoever of Stop and its await of
\* wait_stop_, and of the work thread and its await of the notice, is first
\* (impl/linux/communication.cpp:66-97), and the pool, whose workers read stop_
\* without the mutex (simple_thread_pool.h:62-75).  A Stop that comes before
\* wait_stop_.Start() does nothing, and nothing is said of it.
StoppedEnds ==
    (StopAsked \/ pool = "stopping") ~> ((cpc = "over" /\ pool = "up") \/ pool = "joined")

\* A task posted to the pool, and a function given to AddFun, is run, unless the
\* pool is destroyed, Communication stopped or its work thread gone before.
PostedIsRun ==
    /\ \A t \in UserTasks : (\E i \in DOMAIN tasks_ : tasks_[i] = t) ~> (t \in done \/ pool # "up")
    /\ \A f \in Funs : fpc[f] = "write" ~> (f \in ran \/ ~run_flag_ \/ times_ = 0)
===============================================================================
