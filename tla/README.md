# A TLA+ verification project for jaf

jaf is a C++20 library: a timer with a worker thread, coroutine helpers, thread
pools, a logger and a communication layer (TCP, UDP, serial ports) on epoll or
IOCP whose reads, writes and connects are awaitables. Nearly everything of it
runs on several threads at once - the threads of the user, the worker of the
timer, the threads in `epoll_wait` or `GetQueuedCompletionStatus` - and a
coroutine goes on on whatever thread resumes it. This directory holds TLA+
modules translated from the source, TLC configurations that check them on small
instances, and proofs that TLAPS checks for every instance.

Paths below are relative to `src/src/`; "Linux" and "Windows" are the
directories `Communication/impl/linux` and `Communication/impl/windows`. The
tree also holds `Communication/Impl`, a byte-identical copy of
`Communication/impl`; `PROJECT.json` maps to the lower-case one.

Contents: [1 Inventory](#1-inventory) - [2 Hazards](#2-hazards) -
[3 Plan](#3-plan) - [4 Modules and code](#4-modules-and-code) -
[5 Runs](#5-runs) - [6 Bounds](#6-bounds) - [7 Fairness](#7-fairness) -
[8 Findings](#8-findings) - [9 Proofs](#9-proofs) -
[10 Not modelled](#10-not-modelled) - [11 How to run it](#11-how-to-run-it)

## 1 Inventory

### 1.1 How the parts work together

```
 user coroutines ── co_await ──► TcpServer / TcpClient / Udp / SerialPort
        ▲                              │ one channel per connection
        │ resume                       ▼
        │                 Channel::Run, Read, Write ── wait_stop_ (CoWaitUtilStop)
        │                              │                wait_all_tasks_done_
        │        Linux: two ChannelReadWriteHelpers; Windows: RWAwaitable
        │                    ▲ OnEpoll,     │ StartTask / StopTask
        │                    │ IoCallback   ▼
        │        Communication::        Timer (one worker thread)
        │        WorkThreadRun, on         │ a RedBlackTree of tasks
        │        a SimpleThreadPool        │ task functions: OnTimeout
        └──────────────────────────────────┘
```

* A coroutine that reads or writes gives its operation to the channel's helper
  (Linux) or to the kernel (Windows) and arms a task on the timer. It is resumed
  by whoever completes the operation: the thread that queued it, the thread of
  `Communication`, the thread that stops the channel, or the worker of the timer.
* A `TcpServer` keeps a map of channels, counts the coroutines it has started
  and, to stop, stops every channel and waits for the count to reach zero.
  `TcpClient`, `Udp` and `SerialPort` do the same with one channel and one
  coroutine.
* The awaitables `CoWaitUtilStop`, `CoWaitAllTasksDone`, `CoWaitNotices`,
  `CoAwaitTime`, `Coroutine` and `ControlStartStop` are the glue: one coroutine
  waits, a call on another thread resumes it, and what can go wrong is the
  hand-over.
* Thread pools (`ThreadsExec`, `SimpleThreadPool`) run plain functions;
  `Communication` runs its work thread on the second.

### 1.2 The components

| component | state it keeps | operations | hard behaviour | correct when | module |
|---|---|---|---|---|---|
| **Timer** `Time/impl/timer.cpp` | tree of timed tasks, list of stopped ones, `run_flag_`, `lead_time_`, worker thread; per start an `STimerParaInter` shared with the task | `StartTask`, `StopTask`, `SetLeadTime`, destructor, worker loop | `StopTask` and the worker touch `timer_data_` and `timer_task` outside the mutex; wakeups; the end of the loop | every function accepted is called exactly once with the result that is true; the worker sleeps through nothing | `Timer` implements `TimerService` |
| **RedBlackTree** `util/red_black_tree.h` | nodes, root, first, last | `Insert`, `Erase...`, `Find`, bounds, iteration | rebalancing; equal keys; nodes keep their address | a search tree with red-black balance that lists the right nodes in the right order | `RedBlackTree` implements `OrderedNodes` |
| **ChannelReadWriteHelper, RWAwaitable** Linux | two queues, `operateable_flag_`, `run_flag_`, per operation `finish_flag_`, `timeout_flag_` | await, `OnOperate`, `DoOperate`, `OnTimeout`, `Start`, `Stop` | four kinds of threads complete operations; the timeout is armed after the operation may have been answered; blocking descriptors | one answer per operation, nobody forgotten, bytes in order and in live buffers | `ChannelReadWriteHelper` |
| **Channel** Linux, **TcpChannel, UdpChannel, SerialPortChannel** Windows, **UdpChannel** Linux | descriptor, `stop_flag_`, `wait_stop_`, count of running operations | `Run`, `Read...`, `Write...`, `Stop`, `OnEpoll` | stopped before, while and after it starts to wait; operations that come late | its `Run` ends after `Stop`, with every operation answered | `Endpoint`, `TcpServer` |
| **TcpServer** Linux and Windows | listening socket, map of channels, `run_flag_`, count of coroutines | `Run`, `Stop`, `Write`, `OnListen` or `Accept`, `RunSocket` | `Stop` races accepts and ends of connections; a peer returns from the same port; coroutines resumed under `channels_mutex_` | nothing outlives `Run`; `Run` ends after `Stop` | `TcpServer` |
| **TcpClient, Udp, SerialPort** Linux and Windows | descriptor, channel, `wait_stop_`; `TcpClient`: an awaitable of the connection with a timeout | `Run`, `Stop`, connect, `Write` | timeout of a connect races its completion; `Stop` during either; failures of opening and registering | one answer to a connect; nothing outlives `Run` | `Endpoint` |
| **Communication** Linux and Windows | epoll set or completion port, event descriptors, functions to run | `Run`, `Stop`, `AddFun`, `WorkThreadRun` | end of the work thread against events, packets and functions that come late | the port is closed behind the work thread; every function is run, every operation answered | `Communication` |
| **RWAwaitable** Windows | per operation an `IOCP_DATA`, `finish_flag_`, `timeout_flag_` | await, `IoCallback`, `OnTimeout` | packet and timeout meet; both may come before the end of `await_suspend` | one answer per operation | `Communication` |
| **SimpleThreadPool** | queue, `stop_`, threads, one condition variable | `Start`, `Stop`, `Post` | `stop_` outside the lock, tasks dropped at `Stop` | posted tasks run, `Stop` returns | `Communication` |
| **CoWaitNotices** | count of notices, wait flag, handle | `Start`, `Notify`, `co_await` | the last notice races the await | no notice lost | `Communication` |
| **CoWaitUtilStop, CoWaitAllTasksDone** | run flag or count, wait flag, handle | `Start`, `Stop`; `CountUp`, `CountDown`; `co_await` | the await races the last `Stop` or `CountDown`; `Stop` before `Start` | nobody waits for what has already come | `TcpServer`, `Endpoint`, `Communication` |
| **CoAwaitTime, CoSleep** `global_timer/` | timer task, wait flag, handle, agent | `await_suspend`, `InterStop`, timeout | timeout, notification and stop race; `InterStop` calls the timer under the mutex its callback takes | resumed once, no deadlock | `TimedRun` |
| **ControlStartStop, CoWaitUtilControlledStop** | set of agents, run flag; handle | register, unregister, `Stop` | an agent goes while it is stopped | each registered agent is stopped once | `TimedRun` (the first) |
| **Coroutine, CoroutineWithWait** | promise, handle of the awaiting coroutine, mutex | start, end, `co_await` | the end of one races the await of the other | resumed once | `TimedRun` (the first) |
| **ThreadsExec, MultiThreadsExec, SimpleThreadExec, ConcurrentQueue** `util/` | queue, `quit_wait_`, `stop_`, threads | `Start`, `Stop`, `Post`, `Switch` | notifications outside the mutex, `stop_` without one, restart | each posted task runs once; `Stop` returns and leaves nothing queued | `ThreadsExec` |
| **Timer2**, **Clocks**, **global timer**, **Latch**, **FINALLY and Stopwatch**, **RecvBuffer**, **Log**, **interfaces and values**, **demos, tests, googletest** | - | - | - | - | none, see section 10 |

`PROJECT.json` lists the same components with their status.

## 2 Hazards

`PROJECT.json` lists the hazards of this code at their lines, with the
properties that guard them. They come in seven families:

1. **Answer races** - completion, timeout and stop of one operation or task on
   three threads (`timer.cpp:182`, Linux `channel_read_write_helper.cpp:128`,
   Windows `channel_read_write_helper.cpp:95`, `tcp_client.cpp:157`,
   `co_await_time.h:77`).
2. **Hand-over races** - a coroutine begins to wait while the event it waits for
   happens (`co_wait_all_tasks_done.h:53`, `channel.cpp:75`,
   `co_coroutine.h:134`, `co_wait_notices.h:105`, `udp.cpp:96`).
3. **Lost wakeups** - notifications given outside the mutex, to a thread that is
   about to sleep (`timer.cpp:118`, `concurrent_queue.h:39`,
   `simple_thread_pool.h:64`).
4. **Ends** - what is queued, accepted or inserted while the owner stops
   (`timer.cpp:147`, `tcp_server.cpp:97`, `channel_read_write_helper.cpp:171`,
   `threads_exec.h:58`, Windows `communication.cpp:136`).
5. **Resumed under a lock** - a `Stop` with a mutex held resumes, on the same
   thread, a coroutine that takes the mutex (Windows `tcp_server.cpp:149`,
   Windows `serial_port.cpp:85`).
6. **Stale state** - flags and pointers read outside the mutex that guards them
   (`timer.cpp:86`, `co_await_time.h:63`, `control_start_stop.h:138`).
7. **Rebalancing** - a sequence of insertions and removals that reaches one of
   the rare cases of `red_black_tree.h:531`, or exchanges nodes of equal keys
   (`red_black_tree.h:225`).

Eleven of the list have no property, and a note that says why. The wall clock
that may be set back (`get_time_tick.cpp:35`), operations on a channel that is not
started yet (`channel.cpp:60`) and a batch of events that outlives what one of them
ended (`communication.cpp:200`) are not in the models. The others are, wholly or in
part, and what would catch them does not hold of the code or nothing in the
repository asks for it: the dead branch for failed calls and the result written
outside the mutex (Linux `channel_read_write_helper.cpp:144`, 154), the read that
blocks with two mutexes held (134), the store of `operateable_flag_` that comes too
late (94), a close that arrives with data (`channel.cpp:173`), the serial port on
Windows that locks itself (`serial_port.cpp:85`), `agent_` followed without a mutex
(`co_await_time.h:63`) and the agents stopped after their owner is done
(`control_start_stop.h:138`).

## 3 Plan

Modules that are named for the class they model hold its state, `Init`, one
action per handler or locked section, and its properties; `MC<name>` holds the
model values for TLC; `<name>Proofs` its theorems. No module with theorems, and
none it extends, declares a recursive operator.

| module | models | relation |
|---|---|---|
| `TimerService` | what `ITimer` promises | abstract specification |
| `Timer` | `jaf::time::Timer` | implements `TimerService` (checked and proved) |
| `OrderedNodes` | what users of the tree rely on | abstract specification |
| `RedBlackTree` | `jaf::RedBlackTree` | implements `OrderedNodes` (checked and proved); `Timer` uses it as that |
| `ChannelReadWriteHelper` | one direction of a Linux channel | uses the timer as `TimerService` |
| `TcpServer` | the server of both platforms, the life of its channels, `CoWaitUtilStop`, `CoWaitAllTasksDone` | composes them |
| `Endpoint` | `TcpClient`, `Udp`, `SerialPort` of both platforms with their channels | composes endpoint, connection, channel, operations |
| `Communication` | both platforms, with `SimpleThreadPool`, `CoWaitNotices`, and the operations on a completion port | composes pool, work thread, kernel, timer |
| `TimedRun` | `CoAwaitTime`, `ControlStartStop`, `Coroutine` | composes them as `RunWithTimeout` does |
| `ThreadsExec` | executors and `ConcurrentQueue` | - |
| `TimerProofs`, `HelperProofs`, `TcpServerProofs`, `CommunicationProofs`, `TimedRunProofs`, `ThreadsExecProofs`, `EndpointProofs`, `RedBlackTreeProofs` | theorems | extend their module |

What is left, most useful first:

1. Descriptor numbers: the double close of a Linux socket (`channel.cpp:79`,
   `tcp_server.cpp:262`) against a number that is used again, and the batch of
   ten events against the life of the `EpollData` it points to; a module that
   composes `Communication` and two channels.
2. `Timer2` as a second implementation of `TimerService`; `Latch`;
   `RecvBuffer` and the log filter as operators against reference definitions.

## 4 Modules and code

In every module a step is the longest piece of code that no other thread can
observe in the middle: a section under a mutex, one access to a field that no
mutex guards, or one call into another component. A coroutine that is resumed
inside a call does what it may do on a thread of its own at that moment, which
includes everything it does before the call returns; where the caller holds a
mutex the model says so (`MutexHeld`). `PROJECT.json` maps every definition to
the lines it stands for.

### 4.1 `TimerService`

The promise of `ITimer` (`Time/include/time/interface/i_timer.h`): each
successful `StartTask` is an identity with a `fate` - pending, expiring,
stopping, then one of the three results its function is called with. `Cancel`
has an effect only while the start is pending; `Expire` takes several starts at
once, as the worker does; `Close` is the destructor.

### 4.2 `Timer`

| code | model |
|---|---|
| `tasks_time_`, `tasks_stop_`, the two local lists of `Work`, `residue_tasks_time_time` | sets of ids; order is by `time` and id where the code orders |
| an `STimerParaInter` | an id: the value `next_task_id_` had; `owner`, `time`, `timing_flag_`, `timer_task` are its fields |
| `STimerTask::timer_data_` | `timer_data_[t]`, an id or `NoId` |
| `StartTask` | `StartRead` (reads the clock, outside the lock), `StartLocked` |
| `StopTask` | `StopTest` (null test), `StopLoad` (the cast), `StopAssert`, `StopLocked` |
| `~Timer` | `Destroy`, then whatever `Work` does up to `"done"`, the join |
| `Work`, `GainNeedExecuteTasks`, `ExecuteTasks` | `Enter`, `LoopExit`, `LoopGain`, `LoopWait`, `WakeExit`, `WakeGain`, `SwapResidue`, `DetachTask`, `CallFun`, `ReturnFun`, `Exit` |
| the condition variable | `notified`, `wake_time`, and `SpuriousWake` |
| a task function | from `CallFun` to `ReturnFun` the worker may call `StartTask` and `StopTask` like any thread |

Behind the loop of `Work` only task functions are left to call the timer, and
they may: they stop what is still to be called and, in a release build, where
the `assert(run_flag_)` of `StartTask` is gone, start anew. What such a call puts
into `tasks_stop_` or `tasks_time_` nobody takes out again; the history variable
`abandoned` collects it, and `RunsExactlyOnce` and `DueIsAnswered` name it as
their exception (section 8).

Two constants describe the environment:

* `GuardedTasks` are the tasks whose function takes a lock their `StopTask`
  callers hold, as `CoAwaitTime` does (`co_await_time.h:72-78`, 115-122).
  `RWAwaitable` and `ConnectAwaitable` hold none, and their `StopTask` can find
  the `STimerParaInter` freed: the model stops such a call where it would read
  it, and `NoUseAfterFree` speaks of guarded tasks only.
* `Reload` says whether the build reads `timer_data_` once or twice.

### 4.3 `OrderedNodes` and `RedBlackTree`

`OrderedNodes` is a list of nodes, ascending by key, those of equal keys in the
order they came; a node keeps its identity. `RedBlackTree` is the tree of the
code: a record with `root_`, `min_`, `max_`, `size_` and per node the links and
the colour. The code writes every case twice, for the left and for the right;
here the side is a parameter. Each operation is one step, as the tree has no
lock of its own, and the refinement says that the nodes an iterator visits are
the abstract list after the abstract operation. `Rotate`, the repainting of
`Insert` and the removal (exchange with the predecessor by links, not by value,
rebalance, unlink) are operators that stand for the functions of the same
purpose. A `while` of the code is `Rounds`, as many rounds as there are nodes, of
which those behind the end of the loop change nothing; a walk along links is a
recursive function over the nodes. The abstract `EraseKey` takes out one stretch
of the list, the nodes of the key, because the code erases from a lower to an
upper bound.

### 4.4 `ChannelReadWriteHelper`

| code | model |
|---|---|
| a `CommunData` with its `RWAwaitable` | an operation `o`: `need_len_`, `len`, `state`, `timeout_flag_`, `finish_flag_` |
| `Start`, behind the registration of the descriptor | `Start`; events come before it, operations do not (`Started`) |
| `await_suspend` | `AwaitSuspend` (queue), `ReadFlag`, `DoOperate...` if the flag is set, `ArmTimeout` |
| `Channel::OnEpoll`, `OnOperate` | `EpollWait`, `PeekEnd`, `OnOperate` |
| `DoOperate`, `DoOperateImp` | `DoOperate`, `LockOperate`, `LoopEmpty`, `LoopDrop`, `LoopTake`, `Block`, `OperateNothing`, `Operate`, `SetOperateable`, `CallFinished`, `CheckRun` |
| `Stop`, `EndAllOperate` | `CloseDescriptor` (the caller closes first), `Stop`, `EndAllOperate`, `EndDrop`, `EndOne`, `EndCall`, `EndReturn` |
| `OnTimeout` | `Fire` (the timer), `OnTimeout`, `ResumeTimedOut` |
| `IoCallback` | `IoCallback`: stops the timer task, resumes the coroutine |
| `operate_mutex_`, `CommunData::mutex_` | `operate_mutex_`, `DataMutexFree` |
| `read`, `write` | `Returns`: some or all of what is there, 0 at the end of file, -1 as the `size_t` it is stored in; `Block` on a descriptor without `O_NONBLOCK` |
| epoll, edge-triggered | `edge`, set by arriving bytes, the peer's close and the events of the other direction |

Several actors can be inside `DoOperate` at once, as in the code. The bytes are
a stream; an operation remembers where in it its own begin (`pos`), which is
what `InOrder` compares.

### 4.5 `TcpServer`

`platform` is chosen in `Init`; a guard on it marks what only one does.

| code | model |
|---|---|
| `TcpServer::Run` | `Run`, `AwaitStop`, `ClearRunFlag`, `CloseFirst` (Windows closes before it stops), `SwapChannels`, `StopOne`, `AwaitAllDone`, `RunEnds` |
| `Stop` | `Stop` |
| Linux `OnListen` | `Accept` |
| Windows `Accept`, `AcceptAwaitable` | per coroutine `acc`: `AcceptBegins`, `AllAccepting`, `AcceptEx`, `AcceptFails`, `AcceptTest`, `AcceptAgain`, `AcceptExit` |
| `RunSocket` | `CountUp`, `Insert`, `Refuse` (Windows registers first), then per connection `HandlerEnds`, `AwaitChannel`, `JoinChannel`, `Erase`, `CountDown` |
| `Run` and `Stop` of the channel | `ChannelRun`, `ChannelStart`, `ChannelWait`, `ChannelDrains`, `ChannelEnd`; `ChannelStop` |
| `channels_mutex_` held over the loop that stops the channels (Windows) | `MutexHeld`; `ending` is the channel whose `Run` that stop has resumed; `"self_lock"` where its `RunSocket` then locks again |
| `CoWaitUtilStop` | `stop_run`, `stop_wait` for the server; `chan_run`, `chan_wait` for a channel |
| `CoWaitAllTasksDone` | `count_`, `count_wait` |
| the peer's close found by `OnEpoll` or by a `Read` | `PeerClose`, `EndOfStream` |
| who has been told to stop (history) | `asked` for the server, `told` for a channel: not, before its `Start`, or behind it |
| `channels_`, keyed by "ip:port" | `channels_[key]`; `insert` leaves an existing entry alone; a peer that has closed may come back from the same port |

A server whose `Run` has ended, or whose `Init` failed, can be run again.

### 4.6 `Endpoint`

The six classes share a skeleton and differ in the order of its steps. So `Run`,
the coroutine it launches and the channel's `Run` are each a sequence of the
steps they have left, and a class is its sequences (`LinuxUdpRun`,
`WindowsUdpChannelRun`, ...), each mapped to the function it stands for; one
action interprets one kind of step. What opening may come to, and what an
operation makes of an empty or failed call, are values per class too.

| code | model |
|---|---|
| `Run`, `Stop` | `RunBegin`, `WaitStart`, `Open`, `Launch`, `AwaitStop`, `ClearRunFlag`, `StopFound`, `Unlock`, `CloseDescriptor`, `JoinExecute`; `Stop` |
| `ConnectAwaitable` Linux | `Connect`, `ConnectStartTask`, `OnConnect`, `OnConnectAnswer`, `OnConnectTimeout`, `OnConnectTimeoutAnswer` |
| `ConnectEx` Windows | `ConnectEx`, `ConnectExAnswer` |
| `Execute`, `RunSocket`, `RunSerialPort` | `TestRunFlag`, `TestConnected`, `Publish`, `ChannelRun`, `HandlerEnds`, `StopChannel`, `JoinChannel`, `Unpublish`, `StopOwnRun` |
| `Run` of the channel | `ChannelBegin`, `Register`, `ChannelStart`, `ChannelAwait`, `ChannelEnd`, `ChannelClose`, `EndOperations`, `JoinOperations` |
| `Read`, `Write`, `ReadFrom`, `WriteTo` | per caller `HandlerCalls` or `OutsiderWrites`, `CountUp`, `TestStopFlag`, `Operate`, `Answer`, `Finish`, `CountDown` |
| `channel_mutex_` held over the stop (Windows `SerialPort`) | `MutexHeld`, `"self_lock"` |
| a read on the Linux `Udp`, whose socket blocks | `Block`, `Unblock` when a datagram comes; while it waits (`BlockedRead`) `EndOperations` cannot take the mutexes it holds |

How an operation waits for its descriptor is left to `ChannelReadWriteHelper`
and `Communication`; `Answers` is every answer those can give.

### 4.7 `Communication`

| code | model |
|---|---|
| `SimpleThreadPool` | `TestStop`, `TakeTask`, `CallTask` per worker; `Post`; `PoolStop`, `PoolNotify`, `PoolJoin`. `stop_` is a plain `bool`: `SeenStop` is what a read of it may give |
| `Run`, `Stop` | `RunBegin`, `CreateWorkThread`, `AwaitStop`, `ClearRunFlag`, `TellWorkThread`, `AwaitNotices`, `Close`; `Stop` |
| Linux `WorkThreadRun`, `OnRunFuns`, `AddFun` | `WorkLoop`, `EpollWait` (a batch in any order), `EpollWaitFails`, `CallEvent`, `OnRunFuns`; `AddFun`, `RingFuns` |
| Windows `WorkThreadRun` | `WorkLoop`, `GetPacket` |
| `CoWaitNotices` | `times_`, `notice_wait`; `NotifyFinish` resumes `Run` on the worker |
| Windows `RWAwaitable` | `OperateFails`, `DoOperate`, `StartTask`, `IoCallback`, `IoAnswer`, `OnTimeout`, `TimeoutAnswer` |
| the kernel | `Complete`: a packet of success or failure, once; none for a port that is closed |

Nothing in the sources calls `AddFun`; it is modelled as it stands. `PoolJoinsItself` is the pool a `Communication` made for itself: it is destroyed
on its own worker, which throws in a destructor, and the program ends.

### 4.8 `TimedRun`

`RunWithTimeout` of the tests (`CommunicationTest/gtest/tool`) is the one place
that puts `CoAwaitTime`, `ControlStartStop` and two awaited coroutines together,
so the module composes them in that order: `Run` (`Construct`, `LaunchObject`,
`LaunchTime`, `AwaitChildren`, `RunEnds`), the two coroutines it awaits, the
timer (`TimerTakes`, `TimerUnlocks`, `TimerCallback`, `TimerResume`) and the two
that may stop the time - the coroutine whose object has ended, and a thread in
`ControlStartStop::Stop` - through `Agent::Stop` (`TakeFuns`, `Unregister`) and
`InterStop`, `StopTask`, `ClearAgent`. `Await` and `FinalSuspend` are the hand-over
of `co_coroutine.h`. `StopTime` and `StopTimeAgent` are two steps because `agent_`
is looked at and followed with no mutex.

`StartTask` and `StopTask` of the timer are called with `wait_flag_mutex_` held and
take the timer's `tasks_mutex_` (`co_await_time.h:77`, 101); the function the timer
calls takes `wait_flag_mutex_` (113). So `wait_flag_mutex_` is a variable, with its
holder, and `TasksMutexFree` is the timer's: its worker has it while it takes the
task (`TimerTakes` to `TimerUnlocks`) and not while it calls (`timer.cpp:182-205`).
Were it otherwise the two would wait for each other; the mutant of `RunReturns`
says so.

### 4.9 `ThreadsExec`

| code | model |
|---|---|
| which executor it is | `multi`, and `team`, the threads one `Start` creates, chosen in `Init` |
| `Start`, `Stop` of the executors and of `ThreadsExec` | `Start`; `Stop` (flags), `QuitAllWait`, `QuitNotify`, `Join`, `JoinThrows` |
| `stop_`, a plain `bool` no mutex guards | `stop_`; `behind` holds the workers that may still read its old value (`SeenStop`), until they lock the queue's mutex behind `QuitAllWait` (`CatchUp`) |
| `Post`, the awaitable of `Switch` | `PostAssert` (also before the first `Start`: `Post` asks for `stop_` only), `Push`, `PushNotify` |
| `WorkerRun` | `TestStop`, `PopTask`, `PopQuit`, `PopWait`, `RunTask`, `DrainTask`, `Exit` |
| the condition variable | `waiting`; a notification takes one waiter or all out of it; `SpuriousWake` |
| `threads_` of `MultiThreadsExec` | a count: a second `Stop` begins with threads that were joined (`JoinsTwice`), throws, and ends the program wherever its workers are (`"terminated"`) |

## 5 Runs

| run | specification, instance | shows |
|---|---|---|
| `timer_run` | `FairSpec`; 2 tasks, one of them guarded, 1 thread and the worker, 2 starts, clock 0..2, 2 lead times | `RunsExactlyOnce`: no path loses or doubles a start. `NoLostWakeup`: the worker does not sleep through anything. `NeverEarly`: a task reported as due was due. `NoUseAfterFree` (of the guarded task): the unlocked accesses find live objects. `ImplementsService`: each step is one of `TimerService`. `DueIsAnswered`, `DestroyEnds`: every call owed is made, the destructor returns |
| `tree_run` | `Spec`; every tree over 8 nodes, and removals from two trees of 14 | `WellLinked`: links, `min_`, `max_`, `size_` and order agree. `Balanced`: the colours are right. `LookupsRight`: `Find` and the bounds return the node a search of the list would. `ImplementsOrderedNodes` |
| `helper_safety` | `Spec`; 2 operations of 2 bytes, 2 bytes arriving in any portions, blocking and non-blocking | `AnsweredOnce`, `NobodyForgotten`, `NoUseOfDeadBuffer`, `TakenIsDelivered`, `InOrder`, `ResultIsFinal` |
| `helper_live` | `FairSpec`; 1 operation of 1 or 2 bytes, non-blocking, 1 event of the other direction | `EveryOperationAnswered` |
| `server_run` | `PeersLeaveSpec`; both platforms, 2 connections, 2 keys, equal or not | `ChannelsEmpty`, `NoHandlerOutlivesRun`, `NobodyWaitsInVain`, `EndsWhenPeersLeave` |
| `server_stop` | violated: `StopEndsRun` on Linux | finding 1 |
| `server_windows` | violated: `WindowsStopEndsRun` | finding 2 |
| `endpoint_run` | `FairSpec`; six classes | `ChannelJoinsOperations`, `NothingOutlivesRun`: no operation, coroutine or open descriptor behind the end of a `Run`, but for the leaked serial port and what somebody had begun on a channel that could not be registered. `ConnectAnsweredOnce`. `JoinedChannelWasStopped`: nobody joins a channel that waits on. `StoppedRunEnds`, but for the three ends it names |
| `client_connect` | violated: `ConnectDataAlive` | finding 3 |
| `communication_run` | `FairSpec`; both platforms, `Run` twice | `PortOutlivesWorkThread`, `AnsweredOnce`, `EveryOperationEnds` (also of packets nobody takes), `StoppedEnds`: both hand-overs of `Run`, and the pool's `Stop`. `PostedIsRun` |
| `timed_run` | `FairSpec`; the control running or not | `AssertsHold`, `WokenOnce`, `NoAgentLeft`. `RunReturns`: no hand-over is missed and no two threads wait for each other's mutex |
| `exec_run` | `FairSpec`; a `MultiThreadsExec` of 2 workers or a `SimpleThreadExec`, 2 tasks, 2 starts | `NoLostWakeup`, `StopRunsQueued`, `StopReturns`, `PostedIsRun` - the last two but for the second `Stop` of a `MultiThreadsExec`, which throws |

Each module has one type invariant, proved where the module has proofs.
Deadlock is not checked, except in `tree_run`: the systems may stop - a timer is
destroyed, a channel closed, an executor stopped, and the bounded clock and
numbers of starts and runs come to an end. That nobody is stuck who should not
be is what the liveness properties and `NoLostWakeup`, `NobodyForgotten`,
`NobodyWaitsInVain`, `JoinedChannelWasStopped` say. Every property of a passing
run has a mutant in `PROJECT.json`: a plausible bug in one definition that makes
TLC report exactly that property.

## 6 Bounds

* **Timer.** `MaxStarts` bounds `next_task_id_`, `MaxTime` the clock. Two starts
  give every pair of ids in the lists: same or different task, one stopped and
  one due, one restarted from its own function. With a clock of 0..2 and
  intervals 0 and 2 a task is due before, at and after the moment the worker
  looks, and the two lead times can change between. One thread and the worker
  are inside the timer at once; the theorems hold for any number of threads.
* **Tree.** All sequences of insertions and removals of 8 nodes, the fifth and
  sixth with equal keys, reach every shape such a tree can have; the loop of a
  removal goes up more than one level, and meets a red brother or a red parent,
  only in larger trees, so two of 14 nodes, filled upwards and downwards, are
  taken apart in every order; a node is inserted again only into trees of the
  nodes 1 to 8 (`Refills`).
* **Helper.** `MaxBytes` bounds what the peer sends, `MaxOthers` the events of
  the other direction. With two operations of two bytes and two bytes in all, one
  can take everything, a part, or nothing; the other then waits, times out, or is
  disconnected. The awaiting threads, the epoll thread, the timer's worker and
  the stopper make five actors. `SizeModulus = 16` stands for 2^64: larger than
  every length, which is all that matters.
* **Server.** With two connections one can be at every point of `RunSocket`
  while another is at any other, under one key or two. One `Accept` coroutine in
  `server_run`, two in `server_windows`; the theorems hold for any number.
* **Endpoint.** One `Run`, one handler and one outside writer with an operation
  each at a time: nothing in the code counts further than "one more" and "the
  last". `BaudRates` and `DataBits` hold one setting that is accepted and one
  that is not, and matter to the Linux serial port alone. Apart from them the
  state space is finite without a bound.
* **Communication.** `MaxRuns = 2` lets the second `Run` meet what the first left
  behind. Two workers: one in the work thread, one for the pool's other tasks;
  one operation, one function and one user task at a time, all independent of
  each other in the code. The theorems hold for any number of each.
* **TimedRun.** Finite as it stands.
* **Executor.** Two tasks and two workers: one busy with a task waiting and the
  other asleep, or both asleep with two notifications on their way. Two
  starts show what the first run leaves behind.

The proofs of section 9 lift the properties they cover to every bound.

## 7 Fairness

* **Timer, `FairSpec`.** Weak fairness of `Work` (the worker thread is scheduled
  unless its condition is false - `WaitOver` is in it, spurious wake-ups are not),
  of the rest of a call once begun (`Proceed`), and of `Tick`: time passes.
  Strong fairness of `ReturnFun`: a task function returns, although between two
  calls it makes it is able to go on calling. Nothing makes anybody call
  `StartTask`, `StopTask` or the destructor.
* **Helper, `FairSpec`.** Threads inside the helper are scheduled (`ThreadsFair`);
  the event loop reports an edge that is there. That a task function is called
  is an assumption of the property (`WF_vars(Fire) => ...`), because it is
  `TimerService`'s promise and not the helper's. The peer is never obliged to
  send or close.
* **Server.** `FairSpec`: coroutines that can go on do, a closed listen socket
  ends its `AcceptEx`, and a handler whose channel has ended comes to its end
  (its reads return an error at once). `PeersLeaveSpec` adds that peers close
  their connection some day - the condition under which `Run` of a stopped
  server is shown to end; `server_stop` shows that without it, it may not.
* **Endpoint.** `Run`, the launched coroutine, the channel, the connection and
  every begun operation go on; the last because each has a timeout, which the
  timer answers unless a read that blocks holds the mutex it needs: a
  `"blocked"` operation has no fairness (`Unblock`). A handler goes on calling
  until a call fails and then ends. Nobody has to call `Stop`, no peer has to do
  anything, no event has to come.
* **Communication.** `Run`, the pool's `Stop`, the workers and begun `AddFun`
  calls are scheduled; the timer answers each task it was given; the kernel
  completes an operation that was cancelled or whose socket was closed - others
  it need not. `epoll_wait` need not fail (`EpollWaitFails` has no fairness).
* **TimedRun.** Threads are scheduled once the mutex they want is free, the timer
  calls, an object that was stopped ends. An object nobody stops need not end.
* **Executor.** Workers and begun calls are scheduled. `PostedIsRun` needs no
  `Stop`, `StopReturns` no `Post`.

## 8 Findings

Each is a run whose property TLC finds violated; `PROJECT.json` quotes the line
of the repository that says otherwise.

1. **A `Stop` before `Start` is lost** (Linux `channel.cpp:75`, `server_stop`): a
   channel stopped after it entered the server's map and before
   `wait_stop_.Start()` waits as if nothing had happened, and the server's `Run`
   with it. The same holds for the channel of a Linux `TcpClient`, which the
   first exception of `Endpoint`'s `StoppedRunEnds` names, and for the Windows
   server.
2. **The Windows server locks itself** (Windows `tcp_server.cpp:149`,
   `server_windows`): `Run` stops the channels with `channels_mutex_` held;
   the stop resumes the channel's `Run`, and with it a `RunSocket` that awaits it
   already, on the same thread; `RunSocket` locks `channels_mutex_`.
3. **`OnConnect` after the timeout** (Linux `tcp_client.cpp:127`,
   `client_connect`): a connection that timed out stays in the epoll set until
   `Run` is stopped, while `Execute` has ended and destroyed the awaitable the
   event points to.

Known deviations. The modules contain the following behaviours too; no run is
about them, because no line of the repository says anything of them or the model
only names them.

* *Timer.* A task stopped from a function of the last two loops is never called,
  although the interface promises it (`i_timer.h:57`, `timer.h:63`): its
  `timing_flag_` is still set, so `StopTask` moves it to a list that nobody reads
  again (`timer.cpp:155-167`, 95). It is the `abandoned` of `RunsExactlyOnce`,
  which is violated without that exception. Such a `StopTask` also erases from
  `tasks_time_` a node of another tree: `size_` wraps and `root_` may afterwards
  point into the tree the loop walks (`red_black_tree.h:285-297`, 546); the
  model keeps the two apart. `StopTask` asserts on fields the worker clears
  (`timer.cpp:80-86` against 199-200). An interval near 2^64 wraps
  (`timer.cpp:63`).
* *Helper.* A failed read is a success of 2^64-1 bytes: the length tested for
  `< 0` is unsigned (`channel_read_write_helper.cpp:144`). A `read` that blocks
  holds the mutex `OnTimeout` takes, and the thread that waits for it is the
  worker of the timer (134); `EveryOperationAnswered` fails in blocking mode. An
  operation queued between the clearing of `stop_flag_` and `Start`
  (`channel.cpp:55-73`) may be tried on descriptor 0; the model has no operation
  there.
* *Executor.* A restarted executor spins, as `quit_wait_` is never reset
  (`multi_threads_exec.h:52`); a `Stop` after a second `Start` of a
  `MultiThreadsExec` joins threads a second time, which throws before the new
  workers have worked off the queue, and ends the program; `StopReturns` and
  `PostedIsRun` name it.
* *Endpoint.* `SerialPort` on Windows can lock itself like the server
  (`serial_port.cpp:85-88`, 177-182), the second exception of `StoppedRunEnds`. The
  third is the Linux `Udp`: its socket has no `O_NONBLOCK` (`udp.cpp:120-147`), a
  read of an empty socket waits in the system call with the mutexes `OnTimeout` and
  `Stop` need (`channel_read_write_helper.cpp:110`, 127-134), and `Run` of the
  stopped `Udp` waits until a datagram comes, if one does. A
  failed connect ends `Execute`, and `Run` goes on waiting for `Stop`. Linux
  `Udp` tests its socket with `< -1`, which the error value -1 passes; Windows
  `TcpClient` returns `false`, socket 0, for a failure; both run on with a
  descriptor that is none. A Linux serial port that opens but cannot be
  configured leaks its descriptor (`serial_port.cpp:125-164`). A channel that could
  not be registered waits for nobody, and an operation another user has begun on it
  may outlive `Run` (`channel.cpp:67-70`). Both are exceptions of
  `NothingOutlivesRun`. An empty datagram stops a Linux UDP channel.
  A Windows `UdpChannel` whose registration fails leaves `stop_flag_` false. A
  call that fails at once on Windows is answered with `CRS_UNKNOWN`.
* *Server.* A peer that returns from its old port while the old connection ends
  may have no entry in the map - `insert` does not replace, and `erase` goes by
  the key (`linux/tcp_server.cpp:245`, 260) - so `Stop` does not reach its channel
  and `Run` waits until that peer leaves. A connection that begins `CountUp` behind the final zero touches a
  server whose `Run` has returned (`tcp_server.cpp:221`). On Windows a failed
  `Init` is not looked at: `Run` never returns from the first `Accept`; and an
  accepted socket is not closed when `run_flag_` is false or it cannot be
  registered.
* *Tree.* `LastNode`, which only `operator--` uses, looks for the maximum in
  `right_child_` (`red_black_tree.h:439-441`); nothing calls it.
* *TimedRun.* `agent_` may be followed while it is cleared: `RunReturns` has that
  exception. `InterStop` may run on a `CoAwaitTime` that was destroyed.
  `~Coroutine` never destroys its frame.
* *Communication.* A pool that `Communication` made for itself is destroyed on its
  own worker (`PoolJoinsItself`). The Windows work thread leaves packets behind,
  whose operations are answered by their timeouts only. `OnTimeout` resumes
  without waiting for the kernel after `CancelIoEx`. A `Stop` that comes before
  `wait_stop_.Start()` is forgotten, as in finding 1. An `epoll_wait` that fails
  ends the work thread (`communication.cpp:189-197`), and nothing is reported any
  more; `Run` still ends when it is stopped.

## 9 Proofs

TLAPS checks the theorems below for every value of the constants that satisfies
the module's `ASSUME`: for `Timer`, that there is a task, that the worker is not
one of the threads, and that bounds, intervals and lead times are naturals; for
the helper, that the operations are finitely many, that the actors are distinct
and that `MaxBytes` fits in a `size_t`; for `TcpServer`, that
connections and `Accept` coroutines are finitely many; for `Communication`, that
the task and packet of its own are none of the users'; for `ThreadsExec`, that
there are workers, finitely many; for `RedBlackTree`, that nodes are finitely many,
keys integers and a node is filled in at most once.

**`TimerProofs`.**

* `TimerTypes` - `Spec => []TypeOK`. `TypeOK` is not inductive: `CallFun` and
  `ReturnFun` use `cur`, and `StopLocked` uses `ptr`, as ids. `TypeInv` adds
  `Control`, which says where each is one.
* `TimerNoLostWakeup` - `TypeInv /\ NoLostWakeup` is inductive. Every step
  that could give a sleeping worker something to do - `StartLocked`,
  `StopLocked`, `Destroy` - notifies it under the lock, and going to sleep
  (`LoopWait`) tests and waits in one section.
* `TimerNeverEarly`, `TimerNoUseAfterFree` - from `UseInv`: `Known` (what lists
  and callers hold was made), `Drained` (where each list is empty), `Timely`
  (what was taken as due was due) and `Owned` (which `STimerParaInter` a task
  points to, and who may free it while a guarded caller is between the test and
  the lock).
* `TimerOneHome`, `TimerRunsExactlyOnce` - from `OnceInv`, which adds three facts
  to `UseInv`. `Timed`: what `timing_flag_` marks is in a tree, so that
  `StopTask` moves an id and never adds a second copy; behind the loop the mark
  stays on what was taken out to be called. `Quiet`: threads are outside once
  the destructor has begun, and what a task function found for `StopTask` is
  still listed when it gets there, as the worker is busy with that function.
  `Lists`: behind the loop the timer's own collections hold only what is
  `abandoned`. `RunsExactlyOnce` follows because at `"done"` every other home is
  empty.
* `TimerImplementsService` - each step of `Timer` is a step of `TimerService` or
  leaves it alone; `FateFacts` relates the fate of an id to the list it is in.

**`HelperProofs`.** From `HelperInv`, the conjunction of

* `Types`: `TypeOK`, and what an actor has in hand where (`Control`);
* `Loop`: only the holder of `operate_mutex_` is in the loop of `DoOperate`, and
  what it transfers is first in the queue and has not timed out;
* `OnePlace`: an operation is at most once in one of the two queues, or in the
  list of one thread in `EndAllOperate`, and there it is not finished;
* `Answering`: a finished operation whose coroutine was not resumed is in the
  hands of exactly one thread; `finish_flag_` and `timeout_flag_` exclude each
  other; only a finished or timed-out operation was resumed, once; a length is
  set only together with `CRS_SUCCESS`;
* `Timing`: the timer's task is started by the end of `await_suspend`, its
  function is called at most once, and after that call the operation is finished
  or timed out, or the call is still on its way.

None is inductive alone: `Answering` needs `OnePlace` for the operation a thread
is about to finish (nobody else may) and `Timing` for the one the timer is about
to resume; `Timing` needs `Answering` for the tasks it may stop. The facts about
the queues (`AppendQueue`, `TailQueue`, `SpliceQueue`) are lemmas. The theorems:
`HelperTypes`, `HelperAnsweredOnce`, `HelperNobodyForgotten`,
`HelperNoUseOfDeadBuffer`, `HelperTakenIsDelivered`, and the action property
`HelperResultIsFinal`: the three steps that write a result act on an operation
that is neither finished nor timed out, so not on one that was resumed.
`HelperInOrder` adds `Order`: the turns of the operations ascend along the queue,
and what was delivered came before what is queued.

**`TcpServerProofs`.** `ServerTypes`, `ServerChannelsEmpty`,
`ServerNoHandlerOutlivesRun`, `ServerNobodyWaitsInVain`, for both platforms, all
from `ServerInv`. Its heart is `CountInv`: `count_` is the number of connections
between `CountUp` and `CountDown` and, on Windows, of `Accept` coroutines that
have begun. So `count_` is a natural, and when `Run` sees 0 behind the loop
nobody is in `RunSocket`. `Closed` says no connection is taken after `run_flag_`
was cleared, and which connection the map holds under its key; `Taken` ties a
connection's place to its channel's; `AllEnded` puts them together; `WaitInv` is
the hand-over of the two awaitables: the flag of a `wait_stop_` that is set was
set behind every `Stop` but an early one, whence `NobodyWaitsInVain` and its
exception, the channel stopped before its `Start` (finding 1).

**`CommunicationProofs`.** `CommunicationTypes`,
`CommunicationPortOutlivesWorkThread`, `CommunicationAnsweredOnce`, from

* `Hands`: what a worker holds where it looks at it;
* `OneWork`: the work task is at most once queued or at work, over any number of
  runs, workers and other tasks, and `Turn`: while it is, `Run` is between
  `CreateWorkThread` and the notice, and `times_` is 1. Closing the port needs
  `times_ = 0` or the notice itself, so there is no work task then - and, as
  there is one at most, no second work thread;
* `Packets`: an operation has one packet at most, in the port or in a hand, and
  its `finish_flag_` is set in that hand only; `Answers`: `finish_flag_` and
  `timeout_flag_` exclude each other, and `resumes` is 1 only behind the one that
  was first, or for a call that failed at once. `Packets` needs `OneWork`: with
  two work threads a packet could be in two hands.

**`TimedRunProofs`.** `TimedAssertsHold`, `TimedWokenOnce`, `TimedNoAgentLeft`,
from `TimedInv`: what has not happened before what (`Before`), the hand-over of
the two coroutines (`HandOver`), who may still resume the one that waits for the
time, and that `wait_flag_` is set from before the timer's task is started until the
timer calls (`Waiting`), that the agent's functions are in one hand (`OneHand`) and
that a registered agent has them or is being unregistered (`Registration`).

**`ThreadsExecProofs`.** `ExecTypes`, `ExecNoLostWakeup`, `ExecStopRunsQueued`,
from `ExecInv`: `Home` (a task is once in the queue or in a hand, or was run),
`Phases` (where the workers are while the executor runs, stops and has stopped), `EarlyKept` (what was
queued when `Stop` began is in a queue or a hand, or was run; a worker that ended
saw the queue without it) and `NoLostWakeup` itself, which is about tasks that are
queued; that no worker sleeps through a stop is `StopReturns`, which TLC checks.

**`EndpointProofs`.** `EndpointTypes`, `EndpointChannelJoinsOperations`,
`EndpointNothingOutlivesRun`, `EndpointConnectAnsweredOnce`,
`EndpointJoinedChannelWasStopped`, for any set of the six classes and any set of
serial settings. A class is three sequences of steps, so first the proof says
what the sequences are: `RunSteps`, `ExecSteps` and `ChanSteps` give, for every
class, the steps and which may follow which, and `SuffixMoves` carries that over
to what a coroutine has left (a `Tail` of a suffix is a suffix). From then on a
step is known by its name and its successors, the same for all classes.
`EndpointInv` is the conjunction of

* `Shapes`: `run`, `exec` and `chan` are suffixes of their class's sequences, or
  one of the ways out (an unlock before a close, a failed start, the lock a
  serial port on Windows may take twice);
* `Waits`: who is suspended stands at its `co_await`;
* `Nested`: the channel runs only inside the coroutine's part between the call
  of the channel's `Run` and its join, and that only behind `Launch`. It holds
  for the channel because the coroutine's steps before the join lead past
  `StopChannel`: `JoinedChannelWasStopped` is what carries it through;
* `Descriptor`: it is open only between `Open` and the close of `Run`, and leaked
  by the Linux `SerialPort` alone (`OpenLeaks`);
* `Handling`: the handler has an operation only while it runs;
* `Connecting`: of the answer and the timeout of a connection one has
  `callback_flag_` or `timeout_flag_`, and only that one resumes;
* `Counted`: `count_` is the number of operations between `CountUp` and
  `CountDown`. `CountUp` of an operation that comes too late is taken back, so
  the sum over the callers is needed, not a bound;
* `Joined`: a channel past its loop turns operations away, and one that is over
  has none.

**`RedBlackTreeProofs`.** `StaysLinked`, `StaysBalanced`, `KeysAreFound` and
`TreeIsOrderedList`, for every finite set of nodes and every assignment of integer
keys; the run stops at 14 nodes. That a structure of links is a tree is an inductive notion; the proof gets
by without induction over the tree by giving the nodes numbers. `Whole(t, K, pos)`
says that the `K` nodes can have the positions 1 to `K` such that

* `Shape`: every node has two *edges* around its position, a child's edges are one
  edge and the position of its parent (`Downwards`), the edges of the root are 0
  and `K + 1` (`Top`), a missing child leaves no position out (`Gapless`), and
  every other node is a child of its parent (`Upwards`). So the links make one
  tree without a cycle, and a node's `Width`, the distance of its edges, falls on
  every way down: `Lowest` and `Highest` are the induction over the tree, by the
  least width, and `Walks` and `Recurs` are the existence of the recursive
  functions of the model;
* `Even` and `NoTwoRed`: there are black heights that agree with the colours;
* `Sorted`: the keys ascend with the positions; `Ends`: `min_` and `max_` have the
  positions 1 and `K`; `Tidy`: a node outside the tree has no links.

A rotation changes two edges and no position (`RotateShape`), which is why the
order survives it; the double rotation is two of them. `Balance` allows one node
whose parent may be red (in `Insert`) and `Short` one whose ways down lack a black
node (in the removal); each round of a loop keeps these and moves the exception
up, and the width of the node it is at rises, so that `Rounds` are enough
(`AdjustKeeps`, `UpwardsKeeps`). The exchange of a node with its predecessor is the
renaming of one into the other (`SwapIsRenaming`) except for the parent of the
predecessor's left child when the two were neighbours: the code leaves that child
pointing to its old parent, and `CutOutKeeps` shows that the cases that can follow
put it right. `InsertKeeps`, `ErasedKeeps`, `ErasedKeyKeeps` state what each operation
does to the positions: one is put in, one is closed, a stretch is closed. With
`VisitedFacts` (the iteration goes through the positions) this is the refinement.

`TimerTypes`, `TimerOneHome` and the other type theorems state properties that no
run lists; the others name the property of the run that shows it on a small
instance.

What stays with TLC: liveness (`DueIsAnswered`, `DestroyEnds`,
`EveryOperationAnswered`, `EndsWhenPeersLeave`, `EveryOperationEnds`,
`StoppedEnds`, `StoppedRunEnds`, `RunReturns`, `StopReturns`, both `PostedIsRun`),
which this prover does not reach, and the three properties that section 8 finds
violated.

## 10 Not modelled

* **Timer2** (`Time/impl/timer2.cpp`): a second implementation of `ITimer` that
  nothing creates. **Clocks**: platform calls that return a number; the timer has
  the clock as an input that only advances. **Global timer**: one static object
  that owns a `Timer`.
* **Latch, RecvBuffer, Log, FINALLY, Stopwatch**: used by tests or the demo's
  parser, or without concurrent state of interest: a counter with a condition
  variable, the arithmetic of a receive window, formatting and a lock around a
  list of appenders, a scope guard. `FINALLY` is in the models where it runs.
* **CoSleep, CoTimer, CoWaitUtilControlledStop, CoroutineWithWait**: the waits of
  `TimedRun` without a stop from outside; helpers of the demo; a class nothing
  uses.
* **Of the modelled classes**: `Write` of `TcpServer` (calls `Write` of the
  channels in the map and changes nothing of the server), setters that are not
  allowed while something runs; the failures of `CreateEpoll`, which leak
  descriptors; a `GetQueuedCompletionStatus` that fails without an operation,
  whose null pointer is followed; `Empty`, `Reset` and `Clear` of
  `ConcurrentQueue`, `Stop` and `Reset` of `CoWaitNotices`, and `Swap`,
  `operator--` and the range removal of the tree, which nobody calls.
* **The end of `await_suspend`**: once `AddOperateData` has queued an operation
  another thread may answer it, and the coroutine may destroy its `RWAwaitable`
  before `await_suspend` reads `timer_` and `data_` for `StartTask` (Linux
  `channel_read_write_helper.cpp:220-221`). What then happens is undefined; the
  model lets the call go on as if the object were there. The same holds of the
  Windows one, and of its `result.code_`, written after the submission.
* **Edge-triggered ends**: a peer's close that arrives together with data can go
  unnoticed (`channel.cpp:173`). In the helper it is modelled: `PeekEnd` needs an
  empty buffer. The server assumes that a close is noticed.
* **Descriptor numbers**: the double close of a socket (`channel.cpp:79`,
  `tcp_server.cpp:262`), and the events of one batch whose `EpollData` an earlier
  one has ended (`communication.cpp:200`), need numbers and addresses that are
  used again.
* **Demos, tests, vendored googletest, interfaces and values**: read for what
  they expect; `RunWithTimeout` of the tests is in `TimedRun`.

The mapped lines are a small part of the tree for three reasons:
`Communication/Impl` repeats `Communication/impl`; logging, demos, tests and the
two spellings of every tree function for left and right are a large share of the
lines; and a definition is mapped to the lines it translates and no others.

## 11 How to run it

```
tlc -config MCTimer_run.cfg MCTimer      # and so on for each run of PROJECT.json
tlapm TimerProofs.tla                    # and the seven other proof modules
```

The runs take from a second to about two minutes with two workers; the proofs a
few minutes each from nothing, those of `RedBlackTreeProofs` about a quarter of an
hour.
