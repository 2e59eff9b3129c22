------------------------------- MODULE Endpoint -------------------------------
(***************************************************************************)
(* jaf::comm::TcpClient, Udp and SerialPort on Linux and on Windows, each  *)
(* with the channel it runs: Communication/impl/linux and impl/windows,    *)
(* tcp_client.cpp, udp.cpp, serial_port.cpp and the *_channel.cpp.         *)
(*                                                                         *)
(* The six classes share one skeleton.  Run opens a descriptor, launches a *)
(* coroutine that publishes a channel, runs it and calls the handler, and  *)
(* waits to be stopped; then it stops the channel, closes the descriptor   *)
(* and joins the coroutine.  They differ in the order of these steps, in   *)
(* what may fail and in how a failure is told.  So a coroutine is modelled *)
(* by the steps it has left, and each class by its sequences of steps; one *)
(* action interprets each kind of step.  A coroutine resumed inside a call *)
(* of another one does what it may do on a thread of its own.              *)
(*                                                                         *)
(* One Run of one endpoint.  How an operation waits for its descriptor is  *)
(* ChannelReadWriteHelper's and Communication's subject; here it is       *)
(* answered in every way those modules allow.                              *)
(***************************************************************************)
EXTENDS Naturals, Sequences

CONSTANTS
    Kinds,                \* the classes, a subset of AllKinds
    BaudRates,            \* settings a serial port is opened with
    DataBits

LinuxKinds == {"linux_tcp", "linux_udp", "linux_serial"}
WindowsKinds == {"windows_tcp", "windows_udp", "windows_serial"}
AllKinds == LinuxKinds \cup WindowsKinds
TcpKinds == {"linux_tcp", "windows_tcp"}

ASSUME EndpointAssumption ==
    /\ Kinds \subseteq AllKinds
    /\ BaudRates \subseteq Nat /\ DataBits \subseteq Nat

\* The handler of the channel, and a user of the endpoint's own Write.
Callers == {"handler", "outsider"}

------------------------------------------------------------------------------
(* Run of each class *)

LinuxTcpClientRun ==
    <<"start", "open", "launch", "await", "clear", "stop", "close", "join">>

\* Mutant: the coroutine is not awaited.
RunUnjoined == <<"open", "start", "launch", "await", "clear", "stop", "close">>

LinuxUdpRun ==
    <<"open", "start", "launch", "await", "clear", "stop", "close", "join">>

LinuxSerialPortRun ==
    <<"open", "start", "launch", "await", "clear", "stop", "close", "join">>

WindowsTcpClientRun ==
    <<"open", "start", "launch", "await", "clear", "stop", "close", "join">>

WindowsUdpRun ==
    <<"open", "start", "launch", "await", "clear", "stop", "close", "join">>

\* The channel is stopped with channel_mutex_ held.
WindowsSerialPortRun ==
    <<"open", "start", "launch", "await", "clear", "stop_locked", "close", "join">>

RunOf(k) ==
    CASE k = "linux_tcp" -> LinuxTcpClientRun
      [] k = "linux_udp" -> LinuxUdpRun
      [] k = "linux_serial" -> LinuxSerialPortRun
      [] k = "windows_tcp" -> WindowsTcpClientRun
      [] k = "windows_udp" -> WindowsUdpRun
      [] k = "windows_serial" -> WindowsSerialPortRun

(* What opening can come to: a descriptor; a failure Run reports ("failed"), *)
(* with the descriptor left open ("leaked"); a failure Run takes for a       *)
(* descriptor ("bad").                                                       *)

LinuxTcpOpen == {"open", "failed"}

\* CreateSocket answers -1, Run asks for < -1.
LinuxUdpOpen == {"open", "bad"}

\* Rates termios has a constant for; B0 is 0 and counts as none.
TransitionBaudRate(rate) ==
    IF rate \in {50, 75, 110, 134, 150, 200, 300, 600, 1200, 1800, 2400, 4800, 9600, 19200,
                 38400, 57600, 115200, 230400, 460800, 500000, 576000, 921600, 1000000,
                 1152000, 2000000, 3000000, 3500000, 4000000}
    THEN rate ELSE 0

\* A port that opens but cannot be set up is not closed again.
LinuxSerialOpen(rate, bits) ==
    IF TransitionBaudRate(rate) > 0 /\ bits \in 5..8
    THEN {"open", "failed", "leaked"} ELSE {"failed", "leaked"}

\* `return false` for a SOCKET is 0, not INVALID_SOCKET.
WindowsTcpOpen == {"open", "bad"}

WindowsUdpOpen == {"open", "failed"}

\* The results of setting the port up are not looked at.
WindowsSerialOpen == {"open", "failed"}

OpenOf(k) ==
    CASE k = "linux_tcp" -> LinuxTcpOpen
      [] k = "linux_udp" -> LinuxUdpOpen
      [] k = "linux_serial" -> UNION {LinuxSerialOpen(r, b) : r \in BaudRates, b \in DataBits}
      [] k = "windows_tcp" -> WindowsTcpOpen
      [] k = "windows_udp" -> WindowsUdpOpen
      [] k = "windows_serial" -> WindowsSerialOpen

------------------------------------------------------------------------------
(* The coroutine Run launches *)

LinuxTcpClientExecute ==
    <<"connect", "test_run", "test_connected", "publish", "channel_run", "handle", "stop_channel",
      "join_channel", "unpublish", "stop">>

LinuxUdpRunSocket ==
    <<"publish", "channel_run", "handle", "stop_channel", "join_channel", "unpublish", "stop">>

LinuxRunSerialPort ==
    <<"publish", "channel_run", "handle", "stop_channel", "join_channel", "unpublish", "stop">>

WindowsTcpClientExecute ==
    <<"connect", "test_run", "test_connected", "publish", "channel_run", "handle", "stop_channel",
      "join_channel", "unpublish", "stop">>

WindowsUdpRunSocket ==
    <<"publish", "channel_run", "handle", "stop_channel", "join_channel", "unpublish", "stop">>

\* Mutant: the channel is awaited and not stopped.
JoinUnstopped == <<"publish", "channel_run", "handle", "join_channel", "unpublish", "stop">>

WindowsRunSerialPort ==
    <<"publish", "channel_run", "handle", "stop_channel", "join_channel", "unpublish", "stop">>

ExecuteOf(k) ==
    CASE k = "linux_tcp" -> LinuxTcpClientExecute
      [] k = "linux_udp" -> LinuxUdpRunSocket
      [] k = "linux_serial" -> LinuxRunSerialPort
      [] k = "windows_tcp" -> WindowsTcpClientExecute
      [] k = "windows_udp" -> WindowsUdpRunSocket
      [] k = "windows_serial" -> WindowsRunSerialPort

(* Run of each class of channel *)

\* TcpChannel and SerialPortChannel are Channel.
LinuxChannelRun ==
    <<"begin", "register", "start", "await", "end", "close", "end_operations", "join">>

LinuxUdpChannelRun ==
    <<"begin", "register", "start", "await", "end", "close", "end_operations", "join">>

WindowsTcpChannelRun ==
    <<"begin", "start", "await", "end", "close", "join">>

WindowsUdpChannelRun ==
    <<"start", "begin", "register", "await", "end", "close", "join">>

\* Mutant: the operations are not awaited.
EndUnjoined == <<"begin", "register", "start", "await", "end">>

WindowsSerialPortChannelRun ==
    <<"begin", "register", "start", "await", "end", "join">>

ChannelRunOf(k) ==
    CASE k \in {"linux_tcp", "linux_serial"} -> LinuxChannelRun
      [] k = "linux_udp" -> LinuxUdpChannelRun
      [] k = "windows_tcp" -> WindowsTcpChannelRun
      [] k = "windows_udp" -> WindowsUdpChannelRun
      [] k = "windows_serial" -> WindowsSerialPortChannelRun

------------------------------------------------------------------------------
(* The operations of each class of channel: how often it is counted, what it *)
(* makes of a call that moved no bytes (Linux leaves it queued), and whether *)
(* an answer of that kind, or a failure, stops the channel.                  *)

Queued == [counts |-> 1, empty |-> "queued", emptyStops |-> FALSE, failStops |-> FALSE]

LinuxRead == Queued

LinuxWrite == Queued

LinuxUdpRead == Queued

LinuxUdpWrite == Queued

LinuxUdpReadFrom == Queued

LinuxUdpWriteTo == Queued

WindowsTcpRead ==
    [counts |-> 1, empty |-> "disconnected", emptyStops |-> TRUE, failStops |-> TRUE]

WindowsTcpWrite ==
    [counts |-> 1, empty |-> "success", emptyStops |-> FALSE, failStops |-> TRUE]

WindowsUdpRead ==
    [counts |-> 1, empty |-> "disconnected", emptyStops |-> FALSE, failStops |-> TRUE]

WindowsUdpWrite ==
    [counts |-> 1, empty |-> "disconnected", emptyStops |-> FALSE, failStops |-> TRUE]

WindowsUdpReadFrom ==
    [counts |-> 1, empty |-> "disconnected", emptyStops |-> FALSE, failStops |-> TRUE]

\* Counted twice, and counted down twice.
WindowsUdpWriteTo ==
    [counts |-> 2, empty |-> "disconnected", emptyStops |-> FALSE, failStops |-> TRUE]

WindowsSerialRead ==
    [counts |-> 1, empty |-> "success", emptyStops |-> FALSE, failStops |-> FALSE]

WindowsSerialWrite ==
    [counts |-> 1, empty |-> "success", emptyStops |-> FALSE, failStops |-> FALSE]

MethodsOf(k) ==
    CASE k \in {"linux_tcp", "linux_serial"} -> [read |-> LinuxRead, write |-> LinuxWrite]
      [] k = "linux_udp" -> [read |-> LinuxUdpRead, write |-> LinuxUdpWrite,
                             read_from |-> LinuxUdpReadFrom, write_to |-> LinuxUdpWriteTo]
      [] k = "windows_tcp" -> [read |-> WindowsTcpRead, write |-> WindowsTcpWrite]
      [] k = "windows_udp" -> [read |-> WindowsUdpRead, write |-> WindowsUdpWrite,
                               read_from |-> WindowsUdpReadFrom, write_to |-> WindowsUdpWriteTo]
      [] k = "windows_serial" -> [read |-> WindowsSerialRead, write |-> WindowsSerialWrite]

\* What the caller gets for the answer io, the channel having ended or not.
Result(m, io, ended) ==
    IF io = "success" THEN io
    ELSE IF io = "empty" THEN m.empty
    ELSE IF ended THEN "end" ELSE io

StopsChannel(m, io, ended) ==
    \/ io = "empty" /\ m.emptyStops
    \/ io \in {"fail", "unknown"} /\ ~ended /\ m.failStops

------------------------------------------------------------------------------
VARIABLES
    kind,                 \* which class this is
    \* the endpoint
    run, exec,            \* the steps Run and the coroutine it launches have left
    run_flag_,
    stop_run, stop_wait,  \* wait_stop_
    channel_,             \* what GetChannel returns: "empty" or "channel"
    fd,                   \* the descriptor
    \* TcpClient: the awaitable of the connection
    suspending,           \* where await_suspend is
    epolled,              \* connect_socket_ is in the epoll set for it
    timeout_task,         \* the timer's view of timeout_task_
    on_connect,           \* where the epoll thread is in OnConnect
    timeout_flag_, callback_flag_,
    connected,            \* connect_result_.success
    resumes,              \* history: how often it resumed Execute
    dead_call,            \* history: OnConnect was called on an awaitable that is gone
    \* the channel
    chan,                 \* the steps its Run has left
    stop_flag_,
    chan_run, chan_wait,  \* its wait_stop_
    told,                 \* history: its Stop was called
    count_, count_wait,   \* its wait_all_tasks_done_
    \* the operations on the channel, one at a time per caller
    opc, method,
    answer,               \* what the wait for the descriptor came to
    satisfied             \* the handler's last operation did not fail

stopVars == <<stop_run, stop_wait>>
runVars == <<kind, run, run_flag_, stopVars>>
connectVars == <<suspending, epolled, timeout_task, on_connect, timeout_flag_, callback_flag_,
                 connected, resumes, dead_call>>
chanStopVars == <<chan, chan_run, chan_wait, told>>
countVars == <<count_, count_wait>>
opVars == <<opc, method, answer, satisfied>>
vars == <<runVars, exec, channel_, fd, connectVars, stop_flag_, chanStopVars, countVars, opVars>>

\* The next step is one of S.
AtOne(steps, S) == steps # << >> /\ Head(steps) \in S

At(steps, s) == AtOne(steps, {s})

Linux == kind \in LinuxKinds

\* Run keeps the others from channel_ while it stops the channel; RunSocket, when
\* resumed on Run's thread, too.
MutexHeld == At(run, "unlock")
SelfLocked == At(exec, "self_lock")

Init ==
    /\ kind \in Kinds
    /\ run = <<"begin">> \o RunOf(kind) /\ exec = << >>
    /\ run_flag_ = FALSE /\ stop_run = FALSE /\ stop_wait = FALSE
    /\ channel_ = "empty" /\ fd = "none"
    /\ suspending = "no" /\ epolled = FALSE /\ timeout_task = "none" /\ on_connect = "idle"
    /\ timeout_flag_ = FALSE /\ callback_flag_ = FALSE /\ connected = FALSE
    /\ resumes = 0 /\ dead_call = FALSE
    /\ chan = << >> /\ stop_flag_ = TRUE
    /\ chan_run = FALSE /\ chan_wait = FALSE /\ told = FALSE
    /\ count_ = 0 /\ count_wait = FALSE
    /\ opc = [c \in Callers |-> "idle"] /\ method = [c \in Callers |-> "none"]
    /\ answer = [c \in Callers |-> "none"] /\ satisfied = TRUE

------------------------------------------------------------------------------
(* CoWaitUtilStop of the endpoint and of the channel *)

\* Who waits goes on; who comes later will not wait - unless Start is between.
StopRun ==
    /\ stop_run' = FALSE /\ stop_wait' = FALSE
    /\ run' = IF stop_wait THEN Tail(run) ELSE run

ChannelStop ==
    /\ chan_run' = FALSE /\ chan_wait' = FALSE /\ told' = TRUE
    /\ chan' = IF chan_wait THEN Tail(chan) ELSE chan

\* channel->Run() has come back to RunSocket: it waits, or will not wait.
ChannelReturned ==
    chan_wait \/ chan = << >> \/ AtOne(chan, {"failed", "end", "close", "end_operations", "join"})

\* RunSocket has come back to Run: it has been suspended, or it is over.
LaunchReturned ==
    CASE kind = "linux_tcp" -> suspending = "done"
      [] kind = "windows_tcp" -> ~At(exec, "connect") \/ suspending = "done"
      [] OTHER -> \/ ~AtOne(exec, {"publish", "channel_run", "handle"})
                  \/ At(exec, "handle") /\ ChannelReturned

------------------------------------------------------------------------------
(* Run and Stop *)

\* assert(!run_flag_); run_flag_ = true
RunBegin ==
    /\ At(run, "begin")
    /\ run_flag_' = TRUE
    /\ run' = Tail(run)
    /\ UNCHANGED <<kind, stopVars, exec, channel_, fd, connectVars, stop_flag_, chanStopVars, countVars, opVars>>

WaitStart ==
    /\ At(run, "start")
    /\ stop_run' = TRUE
    /\ run' = Tail(run)
    /\ UNCHANGED <<kind, run_flag_, stop_wait, exec, channel_, fd, connectVars, stop_flag_, chanStopVars,
                   countVars, opVars>>

Open ==
    /\ At(run, "open")
    /\ \/ \E r \in OpenOf(kind) \cap {"open", "bad"} :
             fd' = r /\ run' = Tail(run) /\ UNCHANGED run_flag_
       \/ \E r \in OpenOf(kind) \cap {"failed", "leaked"} :
             /\ fd' = IF r = "leaked" THEN "leaked" ELSE fd
             /\ run' = << >> /\ run_flag_' = FALSE
    /\ UNCHANGED <<kind, stopVars, exec, channel_, connectVars, stop_flag_, chanStopVars, countVars, opVars>>

Launch ==
    /\ At(run, "launch")
    /\ exec' = ExecuteOf(kind)
    /\ run' = Tail(run)
    /\ UNCHANGED <<kind, run_flag_, stopVars, channel_, fd, connectVars, stop_flag_, chanStopVars, countVars,
                   opVars>>

AwaitStop ==
    /\ At(run, "await") /\ ~stop_wait
    /\ LaunchReturned
    /\ IF stop_run THEN stop_wait' = TRUE /\ UNCHANGED run
                   ELSE run' = Tail(run) /\ UNCHANGED stop_wait
    /\ UNCHANGED <<kind, run_flag_, stop_run, exec, channel_, fd, connectVars, stop_flag_, chanStopVars,
                   countVars, opVars>>

\* Stop by a user; before wait_stop_.Start it is without effect.
Stop ==
    /\ stop_run
    /\ StopRun
    /\ UNCHANGED <<kind, run_flag_, exec, channel_, fd, connectVars, stop_flag_, chanStopVars, countVars, opVars>>

ClearRunFlag ==
    /\ At(run, "clear")
    /\ run_flag_' = FALSE
    /\ run' = Tail(run)
    /\ UNCHANGED <<kind, stopVars, exec, channel_, fd, connectVars, stop_flag_, chanStopVars, countVars, opVars>>

\* GetChannel()->Stop().  With channel_mutex_ held, and the channel waiting, the
\* channel's Run goes on inside the call.
StopFound ==
    /\ AtOne(run, {"stop", "stop_locked"})
    /\ IF channel_ = "channel" THEN ChannelStop ELSE UNCHANGED chanStopVars
    /\ run' = IF At(run, "stop_locked") /\ channel_ = "channel" /\ chan_wait
              THEN <<"unlock">> \o Tail(run) ELSE Tail(run)
    /\ UNCHANGED <<kind, run_flag_, stopVars, exec, channel_, fd, connectVars, stop_flag_, countVars, opVars>>

\* It comes back when the channel's Run waits for operations or has ended.
Unlock ==
    /\ MutexHeld /\ ~SelfLocked
    /\ chan = << >> \/ count_wait
    /\ run' = Tail(run)
    /\ UNCHANGED <<kind, run_flag_, stopVars, exec, channel_, fd, connectVars, stop_flag_, chanStopVars,
                   countVars, opVars>>

\* Closing a number that is closed already is not an error the code sees.
Closed(d) == IF d = "open" THEN "closed" ELSE d

CloseDescriptor ==
    /\ At(run, "close")
    /\ fd' = Closed(fd)
    /\ run' = Tail(run)
    /\ UNCHANGED <<kind, run_flag_, stopVars, exec, channel_, connectVars, stop_flag_, chanStopVars, countVars,
                   opVars>>

JoinExecute ==
    /\ At(run, "join") /\ exec = << >>
    /\ run' = Tail(run)
    /\ UNCHANGED <<kind, run_flag_, stopVars, exec, channel_, fd, connectVars, stop_flag_, chanStopVars,
                   countVars, opVars>>

------------------------------------------------------------------------------
(* The connection of a TcpClient *)

\* handle_.resume()
ResumeExecute ==
    /\ resumes' = resumes + 1
    /\ exec' = IF At(exec, "connect") THEN Tail(exec) ELSE exec

\* Linux, ConnectAwaitable::Connect: refused at once, or under way and in the
\* epoll set ...
Connect ==
    /\ kind = "linux_tcp"
    /\ At(exec, "connect") /\ suspending = "no"
    /\ \/ suspending' = "done" /\ exec' = Tail(exec) /\ UNCHANGED epolled
       \/ suspending' = "start" /\ epolled' = TRUE /\ UNCHANGED exec
    /\ UNCHANGED <<runVars, channel_, fd, timeout_task, on_connect, timeout_flag_, callback_flag_,
                   connected, resumes, dead_call, stop_flag_, chanStopVars, countVars, opVars>>

\* ... and only then is the task of the timeout started.
ConnectStartTask ==
    /\ suspending = "start"
    /\ suspending' = "done"
    /\ timeout_task' = "started"
    /\ UNCHANGED <<runVars, exec, channel_, fd, epolled, on_connect, timeout_flag_, callback_flag_,
                   connected, resumes, dead_call, stop_flag_, chanStopVars, countVars, opVars>>

\* The epoll thread, up to the end of the section under the mutex.  Execute ends
\* without taking the socket out of the epoll set when the timeout was first, and
\* destroys the awaitable; the shutdown then raises the event.  Of the outcomes
\* of that call the model takes the one that changes nothing else.
OnConnect ==
    /\ epolled /\ fd = "open" /\ on_connect = "idle"
    /\ epolled' = FALSE
    /\ IF exec = << >>
       THEN dead_call' = TRUE /\ UNCHANGED <<callback_flag_, on_connect>>
       ELSE /\ UNCHANGED dead_call
            /\ IF timeout_flag_ THEN UNCHANGED <<callback_flag_, on_connect>>
                                ELSE callback_flag_' = TRUE /\ on_connect' = "answer"
    /\ UNCHANGED <<runVars, exec, channel_, fd, suspending, timeout_task, timeout_flag_, connected,
                   resumes, stop_flag_, chanStopVars, countVars, opVars>>

\* A task the timer knows is called with TRT_TASK_STOP.
OnConnectAnswer ==
    /\ on_connect = "answer"
    /\ on_connect' = "idle"
    /\ timeout_task' = IF timeout_task = "started" THEN "stopped" ELSE timeout_task
    /\ connected' \in BOOLEAN
    /\ ResumeExecute
    /\ UNCHANGED <<runVars, channel_, fd, suspending, epolled, timeout_flag_, callback_flag_,
                   dead_call, stop_flag_, chanStopVars, countVars, opVars>>

\* Mutant: the answer is not asked for.
TimeoutAlways == TRUE

TimeoutIsFirst == ~callback_flag_

\* The timer thread, up to the end of the section under the mutex.
OnConnectTimeout ==
    /\ timeout_task \in {"started", "stopped"}
    /\ IF TimeoutIsFirst THEN timeout_flag_' = TRUE /\ timeout_task' = "answer"
                         ELSE timeout_task' = "over" /\ UNCHANGED timeout_flag_
    /\ UNCHANGED <<runVars, exec, channel_, fd, suspending, epolled, on_connect, callback_flag_,
                   connected, resumes, dead_call, stop_flag_, chanStopVars, countVars, opVars>>

OnConnectTimeoutAnswer ==
    /\ timeout_task = "answer"
    /\ timeout_task' = "over"
    /\ connected' = FALSE
    /\ ResumeExecute
    /\ UNCHANGED <<runVars, channel_, fd, suspending, epolled, on_connect, timeout_flag_,
                   callback_flag_, dead_call, stop_flag_, chanStopVars, countVars, opVars>>

\* Windows: ConnectEx through RWAwaitable; it fails at once on socket 0 ...
ConnectEx ==
    /\ kind = "windows_tcp"
    /\ At(exec, "connect") /\ suspending = "no"
    /\ suspending' = "done"
    /\ \/ exec' = Tail(exec)
       \/ fd = "open" /\ UNCHANGED exec
    /\ UNCHANGED <<runVars, channel_, fd, epolled, timeout_task, on_connect, timeout_flag_,
                   callback_flag_, connected, resumes, dead_call, stop_flag_, chanStopVars, countVars,
                   opVars>>

\* ... and otherwise is answered once; a closed socket has no success.
ConnectExAnswer ==
    /\ kind = "windows_tcp"
    /\ At(exec, "connect") /\ suspending = "done"
    /\ connected' \in IF fd = "open" THEN BOOLEAN ELSE {FALSE}
    /\ ResumeExecute
    /\ UNCHANGED <<runVars, channel_, fd, suspending, epolled, timeout_task, on_connect,
                   timeout_flag_, callback_flag_, dead_call, stop_flag_, chanStopVars, countVars,
                   opVars>>

------------------------------------------------------------------------------
(* Execute, RunSocket, RunSerialPort *)

\* if (!run_flag_) co_return; a failed connection ends Execute, and not Run.
TestRunFlag ==
    /\ At(exec, "test_run")
    /\ exec' = IF run_flag_ THEN Tail(exec) ELSE << >>
    /\ UNCHANGED <<runVars, channel_, fd, connectVars, stop_flag_, chanStopVars, countVars, opVars>>

TestConnected ==
    /\ At(exec, "test_connected")
    /\ exec' = IF connected THEN Tail(exec) ELSE << >>
    /\ UNCHANGED <<runVars, channel_, fd, connectVars, stop_flag_, chanStopVars, countVars, opVars>>

StillRuns == run_flag_

\* Under channel_mutex_.
Publish ==
    /\ At(exec, "publish")
    /\ IF StillRuns THEN channel_' = "channel" /\ exec' = Tail(exec)
                    ELSE exec' = << >> /\ UNCHANGED channel_
    /\ UNCHANGED <<runVars, fd, connectVars, stop_flag_, chanStopVars, countVars, opVars>>

ChannelRun ==
    /\ At(exec, "channel_run")
    /\ chan' = ChannelRunOf(kind)
    /\ exec' = Tail(exec)
    /\ UNCHANGED <<runVars, channel_, fd, connectVars, stop_flag_, chan_run, chan_wait, told, countVars,
                   opVars>>

\* handle_channel_ comes to its end between two operations.
HandlerEnds ==
    /\ At(exec, "handle") /\ ChannelReturned
    /\ opc["handler"] = "idle"
    /\ exec' = Tail(exec)
    /\ UNCHANGED <<runVars, channel_, fd, connectVars, stop_flag_, chanStopVars, countVars, opVars>>

StopChannel ==
    /\ At(exec, "stop_channel")
    /\ ChannelStop
    /\ exec' = Tail(exec)
    /\ UNCHANGED <<runVars, channel_, fd, connectVars, stop_flag_, countVars, opVars>>

JoinChannel ==
    /\ At(exec, "join_channel") /\ (chan = << >> \/ At(chan, "failed"))
    /\ exec' = Tail(exec)
    /\ UNCHANGED <<runVars, channel_, fd, connectVars, stop_flag_, chanStopVars, countVars, opVars>>

Unpublish ==
    /\ At(exec, "unpublish") /\ ~MutexHeld
    /\ channel_' = "empty"
    /\ exec' = Tail(exec)
    /\ UNCHANGED <<runVars, fd, connectVars, stop_flag_, chanStopVars, countVars, opVars>>

StopOwnRun ==
    /\ At(exec, "stop")
    /\ StopRun
    /\ exec' = Tail(exec)
    /\ UNCHANGED <<kind, run_flag_, channel_, fd, connectVars, stop_flag_, chanStopVars, countVars, opVars>>

------------------------------------------------------------------------------
(* Run of the channel *)

\* A read waits inside the system call.
BlockedRead == \E c \in Callers : opc[c] = "blocked"

ChannelBegin ==
    /\ At(chan, "begin")
    /\ stop_flag_' = FALSE
    /\ chan' = Tail(chan)
    /\ UNCHANGED <<runVars, exec, channel_, fd, connectVars, chan_run, chan_wait, told, countVars, opVars>>

\* epoll_ctl or CreateIoCompletionPort.  Where it fails Run returns: Linux closes
\* the descriptor, and all but the UdpChannel of Windows set stop_flag_ again.
Register ==
    /\ At(chan, "register")
    /\ \/ fd = "open" /\ chan' = Tail(chan) /\ UNCHANGED <<fd, stop_flag_>>
       \/ /\ chan' = <<"failed">>
          /\ fd' = IF Linux THEN Closed(fd) ELSE fd
          /\ stop_flag_' = (kind # "windows_udp")
    /\ UNCHANGED <<runVars, exec, channel_, connectVars, chan_run, chan_wait, told, countVars, opVars>>

ChannelStart ==
    /\ At(chan, "start")
    /\ chan_run' = TRUE
    /\ chan' = Tail(chan)
    /\ UNCHANGED <<runVars, exec, channel_, fd, connectVars, stop_flag_, chan_wait, told, countVars, opVars>>

ChannelAwait ==
    /\ At(chan, "await") /\ ~chan_wait
    /\ IF chan_run THEN chan_wait' = TRUE /\ UNCHANGED chan
                   ELSE chan' = Tail(chan) /\ UNCHANGED chan_wait
    /\ UNCHANGED <<runVars, exec, channel_, fd, connectVars, stop_flag_, chan_run, told, countVars, opVars>>

ChannelEnd ==
    /\ At(chan, "end")
    /\ stop_flag_' = TRUE
    /\ chan' = Tail(chan)
    /\ UNCHANGED <<runVars, exec, channel_, fd, connectVars, chan_run, chan_wait, told, countVars, opVars>>

ChannelClose ==
    /\ At(chan, "close")
    /\ fd' = Closed(fd)
    /\ chan' = Tail(chan)
    /\ UNCHANGED <<runVars, exec, channel_, connectVars, stop_flag_, chan_run, chan_wait, told, countVars,
                   opVars>>

\* Stop of the two helpers: what waits is answered.  It takes operate_mutex_ and the
\* mutex of each operation, which a read that blocks holds.
EndOperations ==
    /\ At(chan, "end_operations") /\ ~BlockedRead
    /\ opc' = [c \in Callers |-> IF opc[c] = "pending" THEN "answered" ELSE opc[c]]
    /\ answer' = [c \in Callers |-> IF opc[c] = "pending" THEN "disconnected" ELSE answer[c]]
    /\ chan' = Tail(chan)
    /\ UNCHANGED <<runVars, exec, channel_, fd, connectVars, stop_flag_, chan_run, chan_wait, told, countVars,
                   method, satisfied>>

\* co_await wait_all_tasks_done_.  If this is Run's thread, and RunSocket awaits
\* the channel already, RunSocket goes on to lock what its own thread holds.
JoinOperations ==
    /\ At(chan, "join") /\ ~count_wait
    /\ IF count_ = 0 THEN chan' = Tail(chan) /\ UNCHANGED count_wait
                     ELSE count_wait' = TRUE /\ UNCHANGED chan
    /\ \/ UNCHANGED exec
       \/ count_ = 0 /\ MutexHeld /\ At(exec, "join_channel") /\ exec' = <<"self_lock">>
    /\ UNCHANGED <<runVars, channel_, fd, connectVars, stop_flag_, chan_run, chan_wait, told, count_, opVars>>

\* A peek that finds no byte is the end of the connection ...
LinuxOnEpoll ==
    /\ kind = "linux_tcp"
    /\ chan_wait /\ fd = "open"
    /\ ChannelStop
    /\ UNCHANGED <<runVars, exec, channel_, fd, connectVars, stop_flag_, countVars, opVars>>

\* ... and, for UDP, an empty datagram.
LinuxUdpOnEpoll ==
    /\ kind = "linux_udp"
    /\ chan_wait /\ fd = "open"
    /\ ChannelStop
    /\ UNCHANGED <<runVars, exec, channel_, fd, connectVars, stop_flag_, countVars, opVars>>

------------------------------------------------------------------------------
(* The operations of the channel *)

GotoOp(c, l) == opc' = [opc EXCEPT ![c] = l]

\* A handler calls again after a success or a timeout, and gives up otherwise.
Told(c, res) == satisfied' = IF c = "handler" THEN res \in {"success", "timeout"} ELSE satisfied

HandlerCalls ==
    /\ At(exec, "handle") /\ ChannelReturned
    /\ opc["handler"] = "idle" /\ satisfied
    /\ GotoOp("handler", "count")
    /\ \E m \in DOMAIN MethodsOf(kind) : method' = [method EXCEPT !["handler"] = m]
    /\ UNCHANGED <<runVars, exec, channel_, fd, connectVars, stop_flag_, chanStopVars, countVars, answer, satisfied>>

\* Write and WriteTo of the endpoint: GetChannel()->Write; the empty channel
\* answers CRS_EMPTY at once.
OutsiderWrites ==
    /\ opc["outsider"] = "idle" /\ ~MutexHeld
    /\ channel_ = "channel"
    /\ GotoOp("outsider", "count")
    /\ \E m \in DOMAIN MethodsOf(kind) \cap {"write", "write_to"} :
          method' = [method EXCEPT !["outsider"] = m]
    /\ UNCHANGED <<runVars, exec, channel_, fd, connectVars, stop_flag_, chanStopVars, countVars, answer,
                   satisfied>>

Counts(c) == MethodsOf(kind)[method[c]].counts

CountUp(c) ==
    /\ opc[c] = "count"
    /\ count_' = count_ + Counts(c)
    /\ GotoOp(c, "test")
    /\ UNCHANGED <<runVars, exec, channel_, fd, connectVars, stop_flag_, chanStopVars, count_wait, method,
                   answer, satisfied>>

TestStopFlag(c) ==
    /\ opc[c] = "test"
    /\ IF stop_flag_ THEN GotoOp(c, "down") /\ Told(c, "end")
                     ELSE GotoOp(c, "operate") /\ UNCHANGED satisfied
    /\ UNCHANGED <<runVars, exec, channel_, fd, connectVars, stop_flag_, chanStopVars, countVars, method, answer>>

\* await_suspend: on Windows the call may fail at once, and leaves the state
\* CRS_UNKNOWN.
Operate(c) ==
    /\ opc[c] = "operate"
    /\ \/ /\ Linux \/ fd = "open"
          /\ GotoOp(c, "pending") /\ UNCHANGED answer
       \/ /\ ~Linux
          /\ GotoOp(c, "answered") /\ answer' = [answer EXCEPT ![c] = "unknown"]
    /\ UNCHANGED <<runVars, exec, channel_, fd, connectVars, stop_flag_, chanStopVars, countVars, method, satisfied>>

\* What the wait may come to: Linux takes a failed call for a success and leaves
\* an empty one queued; a handle that could not join the port has timeouts only.
Answers ==
    IF Linux THEN {"success", "timeout"}
    ELSE IF At(chan, "failed") THEN {"timeout"}
    ELSE {"fail", "timeout"} \cup (IF fd = "open" THEN {"success", "empty"} ELSE {})

Answer(c) ==
    /\ opc[c] = "pending"
    /\ GotoOp(c, "answered")
    /\ \E a \in Answers : answer' = [answer EXCEPT ![c] = a]
    /\ UNCHANGED <<runVars, exec, channel_, fd, connectVars, stop_flag_, chanStopVars, countVars, method, satisfied>>

\* The socket of the Linux Udp has no O_NONBLOCK: once operateable_flag_ is set, a
\* read of an empty socket waits in the system call, with operate_mutex_ and the
\* mutex of its CommunData locked, so that neither OnTimeout nor Stop answers it ...
Block(c) ==
    /\ kind = "linux_udp" /\ fd = "open"
    /\ opc[c] = "pending" /\ method[c] \in {"read", "read_from"}
    /\ GotoOp(c, "blocked")
    /\ UNCHANGED <<runVars, exec, channel_, fd, connectVars, stop_flag_, chanStopVars, countVars, method, answer,
                   satisfied>>

\* ... until a datagram comes, the closing of the descriptor notwithstanding.
Unblock(c) ==
    /\ opc[c] = "blocked"
    /\ GotoOp(c, "answered")
    /\ answer' = [answer EXCEPT ![c] = "success"]
    /\ UNCHANGED <<runVars, exec, channel_, fd, connectVars, stop_flag_, chanStopVars, countVars, method, satisfied>>

Finish(c) ==
    LET m == MethodsOf(kind)[method[c]]
    IN  /\ opc[c] = "answered"
        /\ IF StopsChannel(m, answer[c], stop_flag_) THEN ChannelStop ELSE UNCHANGED chanStopVars
        /\ Told(c, Result(m, answer[c], stop_flag_))
        /\ GotoOp(c, "down")
        /\ answer' = [answer EXCEPT ![c] = "none"]
        /\ UNCHANGED <<runVars, exec, channel_, fd, connectVars, stop_flag_, countVars, method>>

\* Mutant: the count is looked at before it is taken down.
WakesBefore(before, after) == before = 0 /\ count_wait

\* The last operation wakes the channel that waits for it.
Wakes(before, after) == after = 0 /\ count_wait

\* The end of the scope.
CountDown(c) ==
    /\ opc[c] = "down"
    /\ count_' = count_ - Counts(c)
    /\ IF Wakes(count_, count_') THEN count_wait' = FALSE /\ chan' = Tail(chan)
                                 ELSE UNCHANGED <<count_wait, chan>>
    /\ GotoOp(c, "idle")
    /\ method' = [method EXCEPT ![c] = "none"]
    /\ UNCHANGED <<runVars, exec, channel_, fd, connectVars, stop_flag_, chan_run, chan_wait, told, answer, satisfied>>

------------------------------------------------------------------------------
RunStep ==
    \/ RunBegin \/ WaitStart \/ Open \/ Launch \/ AwaitStop \/ ClearRunFlag \/ StopFound
    \/ Unlock \/ CloseDescriptor \/ JoinExecute

ConnectStep ==
    \/ Connect \/ ConnectStartTask \/ OnConnectAnswer \/ OnConnectTimeout \/ OnConnectTimeoutAnswer
    \/ ConnectEx \/ ConnectExAnswer

ExecuteStep ==
    \/ TestRunFlag \/ TestConnected \/ Publish \/ ChannelRun \/ StopChannel \/ JoinChannel
    \/ Unpublish \/ StopOwnRun

ChannelStep ==
    \/ ChannelBegin \/ Register \/ ChannelStart \/ ChannelAwait \/ ChannelEnd \/ ChannelClose
    \/ EndOperations \/ JoinOperations

Operation(c) ==
    CountUp(c) \/ TestStopFlag(c) \/ Operate(c) \/ Answer(c) \/ Finish(c) \/ CountDown(c)

Next ==
    \/ RunStep \/ Stop \/ ConnectStep \/ OnConnect \/ ExecuteStep \/ ChannelStep
    \/ LinuxOnEpoll \/ LinuxUdpOnEpoll
    \/ HandlerCalls \/ HandlerEnds \/ OutsiderWrites
    \/ \E c \in Callers : Operation(c) \/ Block(c) \/ Unblock(c)

Spec == Init /\ [][Next]_vars

\* Threads are scheduled, and the timer answers in the end every wait whose mutex
\* nobody holds; a handler keeps calling until a call fails, and then ends.  Nobody
\* has to call Stop, no peer has to do anything: a read that blocks may do so for
\* ever.
FairSpec ==
    /\ Spec
    /\ WF_vars(RunStep) /\ WF_vars(ConnectStep) /\ WF_vars(ExecuteStep) /\ WF_vars(ChannelStep)
    /\ WF_vars(HandlerCalls) /\ WF_vars(~satisfied /\ HandlerEnds)
    /\ \A c \in Callers : WF_vars(Operation(c))

------------------------------------------------------------------------------
Pending == {"operate", "pending", "blocked", "answered"}

TypeOK ==
    /\ kind \in Kinds
    /\ run_flag_ \in BOOLEAN /\ stop_run \in BOOLEAN /\ stop_wait \in BOOLEAN
    /\ channel_ \in {"empty", "channel"}
    /\ fd \in {"none", "open", "bad", "leaked", "closed"}
    /\ suspending \in {"no", "start", "done"}
    /\ epolled \in BOOLEAN
    /\ timeout_task \in {"none", "started", "stopped", "answer", "over"}
    /\ on_connect \in {"idle", "answer"}
    /\ timeout_flag_ \in BOOLEAN /\ callback_flag_ \in BOOLEAN /\ connected \in BOOLEAN
    /\ resumes \in Nat /\ dead_call \in BOOLEAN
    /\ stop_flag_ \in BOOLEAN /\ chan_run \in BOOLEAN /\ chan_wait \in BOOLEAN /\ told \in BOOLEAN
    /\ count_ \in Nat /\ count_wait \in BOOLEAN
    /\ satisfied \in BOOLEAN
    /\ opc \in [Callers -> {"idle", "count", "test", "down"} \cup Pending]

\* A channel whose Run has come to its end by a stop has no operation under way,
\* whoever called it (channel.cpp:83, udp_channel.cpp:85, and impl/windows): none
\* uses the descriptor or the buffer of its caller any more.  A Run that ends
\* because the channel could not be registered waits for nothing and is left out.
ChannelJoinsOperations == chan = << >> => \A c \in Callers : opc[c] \notin Pending

\* When Run has returned the coroutine it launched is over, its channel is
\* stopped and no longer handed out, no operation of the handler is under way and
\* the descriptor is closed, so that the endpoint may be destroyed or run again -
\* but for two leaks: the port a SerialPort on Linux has opened and could not set
\* up (serial_port.cpp:125-164), and what another user had begun on a channel that
\* could not be registered (channel.cpp:67-70), which nobody joins.
NothingOutlivesRun ==
    run = << >> =>
        /\ exec = << >> /\ (chan = << >> \/ At(chan, "failed"))
        /\ channel_ = "empty"
        /\ fd \in {"none", "bad", "closed"} \/ (fd = "leaked" /\ kind = "linux_serial")
        /\ \A c \in Callers : opc[c] \in Pending => c = "outsider" /\ At(chan, "failed")

\* The answer of the connection and its timeout never both resume Execute
\* (tcp_client.cpp:125-173).
ConnectAnsweredOnce == resumes <= 1

\* RunSocket never waits for a channel that nobody has stopped, and that would
\* take it, and Run with it, along for ever (tcp_client.cpp, udp.cpp and
\* serial_port.cpp stop it between their handler and their co_await).
JoinedChannelWasStopped == At(exec, "join_channel") => ~chan_wait

\* Stop has come, by a user or by the end of the handler, after wait_stop_.Start.
StopAsked == ~stop_run /\ AtOne(run, {"launch", "await", "clear"})

\* On Linux a channel not yet started when it is stopped starts all the same.
StopForgotten == kind = "linux_tcp" /\ told /\ chan_run

\* An endpoint that was stopped comes to the end of Run - except where, from some
\* moment on, one of three things keeps it: a channel whose Stop was forgotten,
\* which its handler or its peer only can end; SerialPort::Run on Windows having
\* locked itself, as TcpServer's there does; a read that blocks on the Linux Udp.
StoppedRunEnds ==
    StopAsked ~> (run = << >> \/ [](StopForgotten \/ SelfLocked \/ BlockedRead))

\* assert(connect_data_ != nullptr): OnConnect has an awaitable to work on
\* (tcp_client.cpp:127).
ConnectDataAlive == ~dead_call
===============================================================================
