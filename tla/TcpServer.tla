------------------------------ MODULE TcpServer ------------------------------
(***************************************************************************)
(* jaf::comm::TcpServer, on Linux and on Windows                           *)
(* (Communication/impl/{linux,windows}/tcp_server.cpp), with the life of   *)
(* its channels and the two awaitables that tie them together,             *)
(* CoWaitUtilStop and CoWaitAllTasksDone: connections are accepted, by the *)
(* epoll thread or by Accept coroutines on the completion port, while any  *)
(* thread stops the server, a peer closes or a handler ends.               *)
(*                                                                         *)
(* Every coroutine - TcpServer::Run, Accept and, per connection, RunSocket *)
(* and the channel's Run - is a process of its own.  A coroutine resumed   *)
(* inside a call of another one does what it may do on a thread of its     *)
(* own, except where the caller holds a mutex.  The operations of a        *)
(* channel are ChannelReadWriteHelper's, or Communication's on Windows.    *)
(***************************************************************************)
EXTENDS Naturals, FiniteSets

CONSTANTS
    Conns,                \* connections peers make
    Keys,                 \* "ip:port" of a peer
    SameKey,              \* a peer may come back from the port of its last connection
    Platforms,            \* which implementations
    Epoll,                \* Linux: the thread of Communication::WorkThreadRun
    Accepts               \* Windows: the accept_count_ coroutines of Accept

NoConn == "none"
Acceptors == Accepts \cup {Epoll}

ASSUME ServerAssumption ==
    /\ IsFiniteSet(Conns) /\ NoConn \notin Conns
    /\ SameKey \in BOOLEAN
    /\ Platforms \subseteq {"linux", "windows"}
    /\ IsFiniteSet(Accepts) /\ Accepts # {} /\ Epoll \notin Accepts

VARIABLES
    \* TcpServer
    spc,                  \* where Run is
    run_flag_,
    channels_,            \* [key -> connection or NoConn]
    stopping,             \* the channels Run has not stopped yet
    ending,               \* Windows: the channel whose Run that stop resumed
    count_, count_wait,   \* wait_all_tasks_done_
    stop_run, stop_wait,  \* wait_stop_
    listening,            \* listen_socket_ is open
    accepting,            \* the connection an acceptor is in RunSocket for
    platform,
    acc,                  \* Windows: where each Accept is
    \* per connection
    pc,                   \* where RunSocket is
    key, peer,            \* its peer, and what the peer has done
    inserted,             \* RunSocket saw run_flag_
    chan,                 \* where Channel::Run is
    chan_run, chan_wait,  \* wait_stop_ of the channel
    \* history: who has been told to stop, a channel before or behind its Start
    asked,                \* TcpServer::Stop in this Run
    told                  \* [connection -> "no", "early" or "yes"]

serverVars == <<spc, run_flag_, stopping, ending, listening>>
acceptVars == <<platform, acc>>
stopVars == <<stop_run, stop_wait, asked>>
countVars == <<count_, count_wait>>
chanVars == <<chan, chan_run, chan_wait, told>>
peerVars == <<key, peer>>
sockVars == <<pc, inserted, accepting>>
vars == <<serverVars, stopVars, countVars, channels_, chanVars, peerVars, sockVars,
          acceptVars>>

OnLinux == platform = "linux"
OnWindows == platform = "windows"

Init ==
    /\ platform \in Platforms
    /\ acc = [a \in Accepts |-> "off"]
    /\ spc = "idle" /\ run_flag_ = FALSE
    /\ channels_ = [k \in Keys |-> NoConn] /\ stopping = {} /\ ending = NoConn
    /\ count_ = 0 /\ count_wait = FALSE
    /\ stop_run = FALSE /\ stop_wait = FALSE
    /\ listening = FALSE /\ accepting = [a \in Acceptors |-> NoConn]
    /\ pc = [c \in Conns |-> "none"]
    /\ key \in [Conns -> Keys]
    /\ peer = [c \in Conns |-> "away"]
    /\ inserted = [c \in Conns |-> FALSE]
    /\ chan = [c \in Conns |-> "none"]
    /\ chan_run = [c \in Conns |-> FALSE] /\ chan_wait = [c \in Conns |-> FALSE]
    /\ asked = FALSE /\ told = [c \in Conns |-> "no"]

Goto(c, l) == pc' = [pc EXCEPT ![c] = l]

------------------------------------------------------------------------------
(* CoWaitUtilStop and CoWaitAllTasksDone *)

\* Stop: a coroutine that waits goes on, a later wait will not block - unless
\* Start comes between.
ChannelStop(c) ==
    /\ chan_run' = [chan_run EXCEPT ![c] = FALSE]
    /\ chan_wait' = [chan_wait EXCEPT ![c] = FALSE]
    /\ chan' = IF chan_wait[c] THEN [chan EXCEPT ![c] = "stopping"] ELSE chan
    /\ told' = [told EXCEPT ![c] = IF chan[c] \in {"none", "start"} THEN "early" ELSE "yes"]

\* ++count_, whatever update is
Up(n) == n + 1

\* Mutant: off by one.
ResumesAtOne(n) == n = 1 /\ count_wait

\* CountDown resumes the one that waits for the last task.
Resumes(n) == n = 0 /\ count_wait

TaskDone ==
    /\ count_' = count_ - 1
    /\ IF Resumes(count_ - 1)
       THEN count_wait' = FALSE /\ spc' = "join"
       ELSE UNCHANGED <<count_wait, spc>>

------------------------------------------------------------------------------
(* TcpServer::Run and Stop *)

\* Run up to its wait; Init may fail, which on Windows Run does not look at.
\* A server that has ended can run again.
Run ==
    /\ spc \in {"idle", "failed", "done"}
    /\ ~run_flag_
    /\ stop_run' = TRUE /\ asked' = FALSE
    /\ listening' \in BOOLEAN
    /\ run_flag_' = (OnWindows \/ listening')
    /\ spc' = IF OnWindows THEN "accepting" ELSE IF listening' THEN "await_stop" ELSE "failed"
    /\ UNCHANGED <<stopping, ending, stop_wait, countVars, channels_, chanVars, peerVars, sockVars,
                   acceptVars>>

\* Windows: Run calls Accept, which comes back at its first AcceptEx.  Nothing
\* Accept looks at changes before.  Without a listen socket it never does.
AcceptBegins(a) ==
    /\ spc = "accepting" /\ acc[a] = "off"
    /\ listening \/ \A b \in Accepts : acc[b] = "off"
    /\ count_' = Up(count_)
    /\ acc' = [acc EXCEPT ![a] = IF listening THEN "pending" ELSE "failed"]
    /\ UNCHANGED <<serverVars, stopVars, count_wait, channels_, chanVars, peerVars, sockVars,
                   platform>>

AllAccepting ==
    /\ spc = "accepting" /\ listening
    /\ \A a \in Accepts : acc[a] # "off"
    /\ spc' = "await_stop"
    /\ UNCHANGED <<run_flag_, stopping, ending, listening, stopVars, countVars, channels_, chanVars,
                   peerVars, sockVars, acceptVars>>

\* await_suspend of wait_stop_
AwaitStop ==
    /\ spc = "await_stop"
    /\ IF stop_run THEN spc' = "waiting" /\ stop_wait' = TRUE
                   ELSE spc' = "resumed" /\ stop_wait' = FALSE
    /\ UNCHANGED <<run_flag_, stopping, ending, listening, stop_run, asked, countVars, channels_, chanVars,
                   peerVars, sockVars, acceptVars>>

Stop ==
    /\ stop_run
    /\ stop_run' = FALSE /\ stop_wait' = FALSE /\ asked' = TRUE
    /\ spc' = IF stop_wait THEN "resumed" ELSE spc
    /\ UNCHANGED <<run_flag_, stopping, ending, listening, countVars, channels_, chanVars, peerVars,
                   sockVars, acceptVars>>

ClearRunFlag ==
    /\ spc = "resumed"
    /\ run_flag_' = FALSE
    /\ spc' = IF OnWindows THEN "close" ELSE "swap"
    /\ UNCHANGED <<stopping, ending, listening, stopVars, countVars, channels_, chanVars, peerVars,
                   sockVars, acceptVars>>

\* close(listen_socket_) resets the connections nobody accepted.
CloseListen ==
    /\ listening' = FALSE
    /\ pc' = [c \in Conns |-> IF pc[c] = "backlog" THEN "none" ELSE pc[c]]
    /\ peer' = [c \in Conns |-> IF pc[c] = "backlog" THEN "closed" ELSE peer[c]]

\* Windows closes before it stops the channels ...
CloseFirst ==
    /\ spc = "close"
    /\ CloseListen
    /\ spc' = "swap"
    /\ UNCHANGED <<run_flag_, stopping, ending, stopVars, countVars, channels_, chanVars, key,
                   inserted, accepting, acceptVars>>

\* ... and goes through the map under channels_mutex_; Linux empties it first.
SwapChannels ==
    /\ spc = "swap"
    /\ stopping' = {channels_[k] : k \in Keys} \ {NoConn}
    /\ channels_' = IF OnWindows THEN channels_ ELSE [k \in Keys |-> NoConn]
    /\ spc' = "stopping"
    /\ UNCHANGED <<run_flag_, ending, listening, stopVars, countVars, chanVars, peerVars, sockVars,
                   acceptVars>>

\* Run keeps the others out of the map while it stops the channels.
MutexHeld == OnWindows /\ spc = "stopping" /\ (stopping # {} \/ ending # NoConn)

\* The channel's Run goes on inside this call if it waits.
StopOne ==
    /\ spc = "stopping" /\ ending = NoConn
    /\ \E c \in stopping : /\ ChannelStop(c)
                           /\ stopping' = stopping \ {c}
                           /\ ending' = IF OnWindows /\ chan_wait[c] THEN c ELSE NoConn
    /\ UNCHANGED <<spc, run_flag_, listening, stopVars, countVars, channels_, peerVars, sockVars,
                   acceptVars>>

\* await_suspend of wait_all_tasks_done_
AwaitAllDone ==
    /\ spc = "stopping" /\ stopping = {} /\ ending = NoConn
    /\ IF count_ = 0 THEN spc' = "join" /\ count_wait' = FALSE
                     ELSE spc' = "joining" /\ count_wait' = TRUE
    /\ UNCHANGED <<run_flag_, stopping, ending, listening, stopVars, count_, channels_, chanVars,
                   peerVars, sockVars, acceptVars>>

\* assert(channels_.empty()), and Linux closes.
RunEnds ==
    /\ spc = "join"
    /\ CloseListen
    /\ spc' = "done"
    /\ UNCHANGED <<run_flag_, stopping, ending, stopVars, countVars, channels_, chanVars, key,
                   inserted, accepting, acceptVars>>

------------------------------------------------------------------------------
(* OnListen and Accept *)

\* Linux: the epoll thread takes the next connection when it is through with
\* the last one.
Accept(c) ==
    /\ OnLinux /\ accepting[Epoll] = NoConn
    /\ listening
    /\ pc[c] = "backlog"
    /\ accepting' = [accepting EXCEPT ![Epoll] = c]
    /\ Goto(c, "count_up")
    /\ UNCHANGED <<serverVars, stopVars, countVars, channels_, chanVars, peerVars, inserted,
                   acceptVars>>

\* Windows: AcceptEx completes with a connection ...
AcceptEx(a, c) ==
    /\ acc[a] = "pending" /\ pc[c] = "backlog"
    /\ acc' = [acc EXCEPT ![a] = "socket"]
    /\ accepting' = [accepting EXCEPT ![a] = c]
    /\ Goto(c, "count_up")
    /\ UNCHANGED <<serverVars, stopVars, countVars, channels_, chanVars, peerVars, inserted, platform>>

\* ... or fails, as it must when the listen socket is closed.
AcceptFails(a) ==
    /\ acc[a] = "pending"
    /\ acc' = [acc EXCEPT ![a] = "failed"]
    /\ UNCHANGED <<serverVars, stopVars, countVars, channels_, chanVars, peerVars, sockVars, platform>>

\* while (run_flag_), after RunSocket came back or no socket was accepted
AcceptTest(a) ==
    /\ acc[a] = "failed" \/ (acc[a] = "socket" /\ accepting[a] = NoConn)
    /\ acc' = [acc EXCEPT ![a] = IF run_flag_ THEN "accept" ELSE "exit"]
    /\ UNCHANGED <<serverVars, stopVars, countVars, channels_, chanVars, peerVars, sockVars, platform>>

\* await_suspend of AcceptAwaitable; the new socket or AcceptEx may fail.
AcceptAgain(a) ==
    /\ acc[a] = "accept"
    /\ \E l \in {"pending", "failed"} :
          /\ l = "pending" => listening
          /\ acc' = [acc EXCEPT ![a] = l]
    /\ UNCHANGED <<serverVars, stopVars, countVars, channels_, chanVars, peerVars, sockVars, platform>>

AcceptExit(a) ==
    /\ acc[a] = "exit"
    /\ TaskDone
    /\ acc' = [acc EXCEPT ![a] = "off"]
    /\ UNCHANGED <<run_flag_, stopping, ending, listening, stopVars, channels_, chanVars, peerVars,
                   sockVars, platform>>

------------------------------------------------------------------------------
(* RunSocket *)

\* Whoever accepted c goes back to its loop.
Release(c) == accepting' = [a \in Acceptors |-> IF accepting[a] = c THEN NoConn ELSE accepting[a]]

CountUp(c) ==
    /\ pc[c] = "count_up"
    /\ count_' = Up(count_)
    /\ Goto(c, "insert")
    /\ UNCHANGED <<serverVars, stopVars, count_wait, channels_, chanVars, peerVars, inserted,
                   accepting, acceptVars>>

\* Mutant: a connection is taken although the server is stopping.
AlwaysRuns == TRUE

StillRuns == run_flag_

\* Under channels_mutex_; std::map::insert does not replace.
Insert(c) ==
    /\ pc[c] = "insert" /\ ~MutexHeld
    /\ IF StillRuns
       THEN /\ inserted' = [inserted EXCEPT ![c] = TRUE]
            /\ channels_' = IF channels_[key[c]] = NoConn
                            THEN [channels_ EXCEPT ![key[c]] = c] ELSE channels_
            /\ Goto(c, "channel_run")
       ELSE /\ Goto(c, "close")
            /\ UNCHANGED <<inserted, channels_>>
    /\ UNCHANGED <<serverVars, stopVars, countVars, chanVars, peerVars, accepting, acceptVars>>

\* Windows: SO_UPDATE_ACCEPT_CONTEXT or CreateIoCompletionPort fails.
Refuse(c) ==
    /\ OnWindows /\ pc[c] = "insert"
    /\ Goto(c, "close")
    /\ UNCHANGED <<serverVars, stopVars, countVars, channels_, chanVars, peerVars, inserted,
                   accepting, acceptVars>>

\* The channel's Run.  Linux: the descriptor joins the epoll set, the helpers
\* start; a descriptor that cannot be added ends the channel at once ...
ChannelRun(c) ==
    /\ pc[c] = "channel_run"
    /\ \/ chan' = [chan EXCEPT ![c] = "start"] /\ Goto(c, "channel_start")
          /\ UNCHANGED accepting
       \/ OnLinux /\ chan' = [chan EXCEPT ![c] = "done"] /\ Goto(c, "handle")
          /\ Release(c)
    /\ UNCHANGED <<serverVars, stopVars, countVars, channels_, chan_run, chan_wait, told,
                   peerVars, inserted, acceptVars>>

\* ... wait_stop_.Start() ...
ChannelStart(c) ==
    /\ pc[c] = "channel_start" /\ chan[c] = "start"
    /\ chan_run' = [chan_run EXCEPT ![c] = TRUE]
    /\ chan' = [chan EXCEPT ![c] = "await_stop"]
    /\ Goto(c, "channel_wait")
    /\ UNCHANGED <<serverVars, stopVars, countVars, channels_, chan_wait, told, peerVars,
                   inserted, accepting, acceptVars>>

\* ... and the wait; then the handler is called, and the acceptor is free.
ChannelWait(c) ==
    /\ pc[c] = "channel_wait" /\ chan[c] = "await_stop"
    /\ IF chan_run[c]
       THEN chan' = [chan EXCEPT ![c] = "waiting"] /\ chan_wait' = [chan_wait EXCEPT ![c] = TRUE]
       ELSE chan' = [chan EXCEPT ![c] = "stopping"] /\ UNCHANGED chan_wait
    /\ Goto(c, "handle")
    /\ Release(c)
    /\ UNCHANGED <<serverVars, stopVars, countVars, channels_, chan_run, told, peerVars,
                   inserted, acceptVars>>

\* Windows: the channel's Run has to wait for operations in flight; who stopped
\* it goes on.
ChannelDrains(c) ==
    /\ OnWindows /\ chan[c] = "stopping"
    /\ chan' = [chan EXCEPT ![c] = "draining"]
    /\ ending' = IF ending = c THEN NoConn ELSE ending
    /\ UNCHANGED <<spc, run_flag_, stopping, listening, stopVars, countVars, channels_, chan_run,
                   chan_wait, told, peerVars, sockVars, acceptVars>>

\* The end of the channel's Run (stop_flag_, close, the operations) resumes the
\* RunSocket that awaits it on the same thread.  If that is Run's, which holds
\* channels_mutex_, RunSocket goes on to lock what its own thread has locked.
ChannelEnd(c) ==
    /\ chan[c] \in {"stopping", "draining"}
    /\ chan' = [chan EXCEPT ![c] = "done"]
    /\ IF ending = c /\ pc[c] = "join"
       THEN Goto(c, "self_lock") /\ UNCHANGED ending
       ELSE ending' = (IF ending = c THEN NoConn ELSE ending) /\ UNCHANGED pc
    /\ UNCHANGED <<spc, run_flag_, stopping, listening, stopVars, countVars, channels_, chan_run,
                   chan_wait, told, peerVars, inserted, accepting, acceptVars>>

\* handle_channel_ comes to its end, for reasons of its own or because its
\* operations return CRS_CHANNEL_END; RunSocket then stops the channel.
HandlerEnds(c) ==
    /\ pc[c] = "handle"
    /\ ChannelStop(c)
    /\ Goto(c, "await")
    /\ UNCHANGED <<serverVars, stopVars, countVars, channels_, peerVars, inserted, accepting,
                   acceptVars>>

\* co_await channel_run
AwaitChannel(c) ==
    /\ pc[c] = "await"
    /\ Goto(c, IF chan[c] = "done" THEN "erase" ELSE "join")
    /\ UNCHANGED <<serverVars, stopVars, countVars, channels_, chanVars, peerVars, inserted,
                   accepting, acceptVars>>

JoinChannel(c) ==
    /\ pc[c] = "join" /\ chan[c] = "done"
    /\ Goto(c, "erase")
    /\ UNCHANGED <<serverVars, stopVars, countVars, channels_, chanVars, peerVars, inserted,
                   accepting, acceptVars>>

Erase(c) ==
    /\ pc[c] = "erase" /\ ~MutexHeld
    /\ channels_' = [channels_ EXCEPT ![key[c]] = NoConn]
    /\ Goto(c, "close")
    /\ UNCHANGED <<serverVars, stopVars, countVars, chanVars, peerVars, inserted, accepting,
                   acceptVars>>

\* Linux: close(socket); then CountDown at the end of the scope.
CountDown(c) ==
    /\ pc[c] = "close"
    /\ TaskDone
    /\ Goto(c, "end")
    /\ Release(c)
    /\ UNCHANGED <<run_flag_, stopping, ending, listening, stopVars, channels_, chanVars, peerVars,
                   inserted, acceptVars>>

------------------------------------------------------------------------------
(* The peers *)

\* A port is free again once its last connection is closed by the peer.
Connect(c) ==
    /\ peer[c] = "away" /\ listening
    /\ \A d \in Conns : key[d] = key[c] => peer[d] # "open" /\ (peer[d] = "closed" => SameKey)
    /\ peer' = [peer EXCEPT ![c] = "open"]
    /\ Goto(c, "backlog")
    /\ UNCHANGED <<serverVars, stopVars, countVars, channels_, chanVars, key, inserted, accepting,
                   acceptVars>>

PeerClose(c) ==
    /\ peer[c] = "open"
    /\ peer' = [peer EXCEPT ![c] = "closed"]
    /\ UNCHANGED <<serverVars, stopVars, countVars, channels_, chanVars, key, sockVars, acceptVars>>

\* The end of the stream stops the channel: Channel::OnEpoll finds it on Linux,
\* a Read of the handler on Windows.
EndOfStream(c) ==
    /\ IF OnLinux THEN accepting[Epoll] = NoConn ELSE pc[c] = "handle"
    /\ peer[c] = "closed" /\ chan[c] = "waiting"
    /\ ChannelStop(c)
    /\ UNCHANGED <<serverVars, stopVars, countVars, channels_, peerVars, sockVars, acceptVars>>

RunSocket(c) ==
    \/ CountUp(c) \/ Insert(c) \/ Refuse(c) \/ ChannelRun(c) \/ ChannelStart(c) \/ ChannelWait(c)
    \/ AwaitChannel(c) \/ JoinChannel(c) \/ Erase(c) \/ CountDown(c)

ServerRun ==
    \/ AllAccepting \/ AwaitStop \/ ClearRunFlag \/ CloseFirst \/ SwapChannels \/ StopOne
    \/ AwaitAllDone \/ RunEnds

AcceptLoop(a) == AcceptTest(a) \/ AcceptAgain(a) \/ AcceptExit(a)

Next ==
    \/ Run \/ Stop \/ ServerRun
    \/ \E a \in Accepts : AcceptBegins(a) \/ AcceptFails(a) \/ AcceptLoop(a)
    \/ \E a \in Accepts, c \in Conns : AcceptEx(a, c)
    \/ \E c \in Conns :
          \/ Accept(c) \/ RunSocket(c) \/ ChannelDrains(c) \/ ChannelEnd(c) \/ HandlerEnds(c)
          \/ Connect(c) \/ PeerClose(c) \/ EndOfStream(c)

Spec == Init /\ [][Next]_vars

\* Threads are scheduled, coroutines that can go on do, a closed listen socket
\* ends its AcceptEx, and a handler whose channel has ended comes to its own end.
FairSpec ==
    /\ Spec
    /\ WF_vars(ServerRun)
    /\ \A a \in Accepts :
          /\ WF_vars(AcceptBegins(a)) /\ WF_vars(AcceptLoop(a))
          /\ WF_vars(~listening /\ AcceptFails(a))
    /\ \A c \in Conns :
          /\ WF_vars(RunSocket(c)) /\ WF_vars(ChannelEnd(c)) /\ WF_vars(EndOfStream(c))
          /\ WF_vars(chan[c] \in {"stopping", "draining", "done"} /\ HandlerEnds(c))

\* Peers that do not stay for ever.
PeersLeaveSpec == FairSpec /\ \A c \in Conns : WF_vars(PeerClose(c))

------------------------------------------------------------------------------
TypeOK ==
    /\ spc \in {"idle", "failed", "await_stop", "waiting", "resumed", "swap", "stopping", "joining",
                "join", "done", "accepting", "close"}
    /\ platform \in {"linux", "windows"}
    /\ acc \in [Accepts -> {"off", "pending", "socket", "failed", "accept", "exit"}]
    /\ ending \in Conns \cup {NoConn}
    /\ run_flag_ \in BOOLEAN /\ listening \in BOOLEAN
    /\ channels_ \in [Keys -> Conns \cup {NoConn}]
    /\ stopping \subseteq Conns
    /\ count_ \in Nat /\ count_wait \in BOOLEAN
    /\ stop_run \in BOOLEAN /\ stop_wait \in BOOLEAN
    /\ accepting \in [Acceptors -> Conns \cup {NoConn}]
    /\ pc \in [Conns -> {"none", "backlog", "count_up", "insert", "channel_run", "channel_start",
                         "channel_wait", "handle", "await", "join", "self_lock", "erase", "close",
                         "end"}]
    /\ key \in [Conns -> Keys]
    /\ peer \in [Conns -> {"away", "open", "closed"}]
    /\ inserted \in [Conns -> BOOLEAN]
    /\ chan \in [Conns -> {"none", "start", "await_stop", "waiting", "stopping", "draining", "done"}]
    /\ chan_run \in [Conns -> BOOLEAN] /\ chan_wait \in [Conns -> BOOLEAN]
    /\ asked \in BOOLEAN /\ told \in [Conns -> {"no", "early", "yes"}]

\* assert(channels_.empty()) when Run ends (linux/tcp_server.cpp:110,
\* windows/tcp_server.cpp:156): no connection slips into the map behind Run.
ChannelsEmpty == spc \in {"join", "done"} => \A k \in Keys : channels_[k] = NoConn

\* No handler runs, and no channel, when Run has returned and the server may
\* be destroyed (linux/tcp_server.cpp:109, 221-222, 249-260;
\* windows/tcp_server.cpp:155, 237-238, 266-267, 320-330).
NoHandlerOutlivesRun ==
    spc = "done" => \A c \in Conns : inserted[c] => pc[c] = "end" /\ chan[c] = "done"

\* RunSocket is between its CountUp and its CountDown.
InRunSocket(c) == pc[c] \notin {"none", "backlog", "count_up", "end"}

\* Run waits for the last task only while a RunSocket or an Accept is left to
\* count down, and neither Run nor a channel waits on after a Stop that came
\* behind its wait_stop_.Start(), whoever was first at the hand-over
\* (co_wait_all_tasks_done.h:45-84, co_wait_util_stop.h:76-108).  A channel
\* stopped before Start, told "early", is the exception: it waits
\* (linux/channel.cpp:75; StopEndsRun shows where that leads).
NobodyWaitsInVain ==
    /\ spc = "joining" => \/ \E c \in Conns : InRunSocket(c)
                          \/ \E a \in Accepts : acc[a] # "off"
    /\ spc = "waiting" => ~asked
    /\ \A c \in Conns : chan[c] = "waiting" => told[c] # "yes"

\* Windows: Run's thread waits for the mutex it holds itself.
SelfLocked == ending # NoConn /\ pc[ending] = "self_lock"

\* A stopped server comes to the end of Run once its peers have gone; but for
\* the self-lock, of which WindowsStopEndsRun tells.
EndsWhenPeersLeave == spc = "resumed" ~> spc = "done" \/ SelfLocked

\* Stop, then co_await Run, comes back (CommunicationTest/gtest/test_tcp.cpp:82-84).
StopEndsRun == spc = "resumed" ~> spc = "done"

\* The same of the Windows server whose clients leave
\* (CommunicationTest/gtest/test_tcp.cpp:81-84).
WindowsStopEndsRun == spc = "resumed" ~> spc = "done"
==============================================================================
