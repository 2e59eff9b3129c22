---------------------------- MODULE EndpointProofs ----------------------------
(***************************************************************************)
(* Theorems about Endpoint, for every set of its classes and of settings:  *)
(* what Run has waited for when it returns, and that a connection resumes  *)
(* its coroutine at most once.                                             *)
(***************************************************************************)
EXTENDS Endpoint, SequenceTheorems, TLAPS

------------------------------------------------------------------------------
(* The inductive invariant *)

\* The step a coroutine is at.
Pc(steps) == IF steps = << >> THEN "over" ELSE Head(steps)

Suffixes(steps) == {SubSeq(steps, i, Len(steps)) : i \in 1..Len(steps) + 1}

\* What Run, the coroutine it launches and the channel may have left to do.
Runs(k) ==
    LET left == Suffixes(<<"begin">> \o RunOf(k))
    IN  left \cup {<<"unlock">> \o q : q \in {r \in left : Pc(r) = "close"}}

Execs(k) == Suffixes(ExecuteOf(k)) \cup {<<"self_lock">>}

Chans(k) == Suffixes(ChannelRunOf(k)) \cup {<<"failed">>}

Shapes ==
    /\ run \in Runs(kind) /\ exec \in Execs(kind) /\ chan \in Chans(kind)

\* Who waits is where it waits, so that who wakes it moves it on from there.
Waits ==
    /\ stop_wait => Pc(run) = "await"
    /\ chan_wait => Pc(chan) = "await"
    /\ count_wait => Pc(chan) = "join"

\* The channel has been stopped, or could not start.
PastAwait == {"failed", "end", "close", "end_operations", "join", "over"}

\* The channel lives between the coroutine's call of its Run and the join of it,
\* and is published for a part of that time.
Nested ==
    /\ Pc(run) \in {"begin", "start", "open", "launch", "over"} => Pc(exec) = "over"
    /\ Pc(run) \in {"begin", "start", "open", "launch"} => Pc(chan) = "over"
    /\ Pc(exec) \in {"connect", "test_run", "test_connected", "publish", "channel_run"} =>
          Pc(chan) = "over"
    /\ Pc(exec) = "stop_channel" => chan_wait \/ Pc(chan) \in PastAwait
    /\ Pc(exec) \in {"join_channel", "self_lock"} => Pc(chan) \in PastAwait
    /\ Pc(exec) \in {"unpublish", "stop", "over"} => Pc(chan) \in {"failed", "over"}
    /\ Pc(exec) \in {"connect", "test_run", "test_connected", "publish", "stop", "over"} =>
          channel_ = "empty"

\* The descriptor is opened once and not open behind the close of Run; one class can
\* lose it.
Descriptor ==
    /\ Pc(run) \in {"begin", "open", "join", "over"} => fd # "open"
    /\ Pc(run) = "start" /\ kind = "linux_tcp" => fd # "open"
    /\ fd = "leaked" => kind = "linux_serial"

\* Only one of the two callbacks has the right to resume, and it does so once.
Connecting ==
    /\ resumes \in {0, 1}
    /\ Pc(run) \in {"begin", "start", "open", "launch"} => suspending = "no"
    /\ suspending = "no" => ~epolled /\ ~callback_flag_ /\ resumes = 0
    /\ suspending \in {"no", "start"} => timeout_task = "none"
    /\ ~(callback_flag_ /\ timeout_flag_) /\ ~(callback_flag_ /\ epolled)
    /\ on_connect = "answer" => callback_flag_ /\ resumes = 0
    /\ timeout_task \in {"none", "started", "stopped"} => ~timeout_flag_
    /\ timeout_task = "answer" => timeout_flag_ /\ resumes = 0
    /\ resumes = 1 => \/ kind = "windows_tcp" /\ Pc(exec) # "connect"
                      \/ callback_flag_ /\ on_connect = "idle"
                      \/ timeout_flag_ /\ timeout_task = "over"
    /\ kind # "linux_tcp" => /\ suspending # "start" /\ ~epolled
                             /\ timeout_task = "none" /\ on_connect = "idle"
                             /\ ~callback_flag_ /\ ~timeout_flag_

\* The count is that of the operations between CountUp and CountDown.
Taken(c) == IF opc[c] \in {"idle", "count"} THEN 0 ELSE Counts(c)

Counted ==
    /\ method = [c \in Callers |-> method[c]]
    /\ \A c \in Callers : opc[c] # "idle" => method[c] \in DOMAIN MethodsOf(kind)
    /\ count_ = Taken("handler") + Taken("outsider")

\* A channel that is past its loop turns new operations away, and one that is over
\* has none.
Joined ==
    /\ Pc(chan) \in {"close", "end_operations", "join", "over"} => stop_flag_
    /\ ChannelJoinsOperations

\* The handler has an operation only while it runs.
Handling == Pc(exec) # "handle" => opc["handler"] = "idle"

EndpointInv ==
    /\ TypeOK /\ Shapes /\ Waits /\ Nested /\ Descriptor
    /\ Connecting /\ Counted /\ Joined /\ Handling

------------------------------------------------------------------------------
(* Steps *)

\* Asking for the next step is asking where the coroutine is.
LEMMA AtPc == \A q, s : s # "over" => (At(q, s) <=> Pc(q) = s)
BY DEF At, AtOne, Pc

\* A coroutine with no step left is over.
LEMMA PcOver == Pc(<< >>) = "over"
BY DEF Pc

\* A step put in front of a sequence of steps is its head, the rest its tail.
LEMMA Pushed ==
    ASSUME NEW S, NEW x \in S, NEW q \in Seq(S)
    PROVE  /\ <<x>> \o q # << >> /\ <<x>> \o q \in Seq(S)
           /\ Head(<<x>> \o q) = x /\ Tail(<<x>> \o q) = q
<1> DEFINE r == <<x>> \o q
<1>1. /\ r \in Seq(S) /\ Len(r) = Len(q) + 1 /\ Len(q) \in Nat /\ r[1] = x
      /\ \A i \in 1..Len(q) : r[i + 1] = q[i]
  OBVIOUS
<1> HIDE DEF r
<1>2. r # << >> BY <1>1
<1>3. Head(r) = x /\ Tail(r) \in Seq(S) /\ Len(Tail(r)) = Len(q) BY <1>1, <1>2, HeadTailProperties
<1>4. \A i \in 1..Len(q) : Tail(r)[i] = q[i] BY <1>1, <1>2, <1>3, HeadTailProperties
<1>5. Tail(r) = q BY <1>3, <1>4, SeqEqual
<1>6. QED BY <1>1, <1>2, <1>3, <1>5 DEF r

\* A coroutine over a fixed list of steps stays on it as it goes on.
LEMMA SuffixMoves ==
    ASSUME NEW S, NEW R \in Seq(S), NEW q \in Suffixes(R)
    PROVE  /\ q \in Seq(S)
           /\ q # << >> => /\ Tail(q) \in Suffixes(R)
                           /\ \E i \in 1..Len(R) :
                                 /\ Pc(q) = R[i]
                                 /\ Pc(Tail(q)) = IF i = Len(R) THEN "over" ELSE R[i + 1]
<1>1. PICK i \in 1..Len(R) + 1 : q = SubSeq(R, i, Len(R)) BY DEF Suffixes
<1>2. Len(R) \in Nat /\ \A j \in 1..Len(R) : R[j] \in S OBVIOUS
<1>3. q \in Seq(S) /\ Len(q) = Len(R) - i + 1 /\ \A j \in 1..Len(q) : q[j] = R[i + j - 1]
  BY <1>1, <1>2, SubSeqProperties
<1>4. ASSUME q # << >>
      PROVE  /\ Tail(q) \in Suffixes(R)
             /\ \E j \in 1..Len(R) :
                   /\ Pc(q) = R[j]
                   /\ Pc(Tail(q)) = IF j = Len(R) THEN "over" ELSE R[j + 1]
  <2>1. i \in 1..Len(R) BY <1>2, <1>3, <1>4
  <2>2. Tail(q) = SubSeq(R, i + 1, Len(R)) BY <1>1, <1>2, <2>1, SubSeqRecursiveFirst, HeadTailOfSubSeq
  <2>3. Tail(q) \in Suffixes(R)
    <3>1. i + 1 \in 1..Len(R) + 1 BY <1>2, <2>1
    <3>2. QED BY <2>2, <3>1 DEF Suffixes
  <2>4. Head(q) = R[i] BY <1>1, <1>2, <2>1, HeadTailOfSubSeq
  <2>5. CASE i = Len(R)
    <3>1. Tail(q) = << >> BY <1>2, <2>2, <2>5
    <3>2. QED BY <1>4, <2>1, <2>3, <2>4, <2>5, <3>1 DEF Pc
  <2>6. CASE i # Len(R)
    <3>1. i + 1 \in 1..Len(R) /\ Len(R) \in i + 1..Len(R) BY <1>2, <2>1, <2>6
    <3>2. Head(Tail(q)) = R[i + 1] BY <2>2, <3>1, HeadTailOfSubSeq
    <3>3. Tail(q) # << >>
      <4>1. Tail(q) = <<R[i + 1]>> \o SubSeq(R, i + 1 + 1, Len(R))
        BY <2>2, <3>1, SubSeqRecursiveFirst
      <4>2. SubSeq(R, i + 1 + 1, Len(R)) \in Seq(S)
        BY <1>2, <3>1, SubSeqProperties
      <4>3. R[i + 1] \in S BY <1>2, <3>1
      <4>4. QED BY <4>1, <4>2, <4>3, Pushed
    <3>4. QED BY <1>4, <2>1, <2>3, <2>4, <2>6, <3>2, <3>3 DEF Pc
  <2>7. QED BY <2>5, <2>6
<1>5. QED BY <1>3, <1>4

RunNames ==
    {"begin", "start", "open", "launch", "await", "clear", "stop", "stop_locked", "close", "join"}

ExecNames ==
    {"connect", "test_run", "test_connected", "publish", "channel_run", "handle", "stop_channel",
     "join_channel", "unpublish", "stop"}

ChanNames ==
    {"begin", "register", "start", "await", "end", "close", "end_operations", "join"}

\* From which step of Run to which, where Runs differ by class only in the order of
\* "start" and "open".
RunSucc(k, p, q) ==
    \/ p = "begin" /\ q = (IF k = "linux_tcp" THEN "start" ELSE "open")
    \/ p = "start" /\ q = (IF k = "linux_tcp" THEN "open" ELSE "launch")
    \/ p = "open" /\ q = (IF k = "linux_tcp" THEN "launch" ELSE "start")
    \/ p = "launch" /\ q = "await"
    \/ p = "await" /\ q = "clear"
    \/ p = "clear" /\ q \in {"stop", "stop_locked"}
    \/ p \in {"stop", "stop_locked", "unlock"} /\ q = "close"
    \/ p = "close" /\ q = "join"
    \/ p = "join" /\ q = "over"

ExecSucc(p, q) ==
    \/ p = "connect" /\ q = "test_run"
    \/ p = "test_run" /\ q = "test_connected"
    \/ p = "test_connected" /\ q = "publish"
    \/ p = "publish" /\ q = "channel_run"
    \/ p = "channel_run" /\ q = "handle"
    \/ p = "handle" /\ q = "stop_channel"
    \/ p = "stop_channel" /\ q = "join_channel"
    \/ p = "join_channel" /\ q = "unpublish"
    \/ p = "unpublish" /\ q = "stop"
    \/ p \in {"stop", "self_lock"} /\ q = "over"

ChanSucc(p, q) ==
    \/ p = "begin" /\ q \in {"start", "register"}
    \/ p = "register" /\ q \in {"start", "await"}
    \/ p = "start" /\ q \in {"begin", "await"}
    \/ p = "await" /\ q = "end"
    \/ p = "end" /\ q \in {"close", "join"}
    \/ p = "close" /\ q \in {"end_operations", "join"}
    \/ p = "end_operations" /\ q = "join"
    \/ p \in {"join", "failed"} /\ q = "over"

\* Run of any class, step by step.
LEMMA RunSteps ==
    ASSUME NEW k \in AllKinds
    PROVE  LET Q == RunOf(k) IN
           /\ Q \in Seq(RunNames) /\ Len(Q) \in 1..10
           /\ Q[1] = (IF k = "linux_tcp" THEN "start" ELSE "open")
           /\ \A i \in 1..Len(Q) :
                 RunSucc(k, Q[i], IF i = Len(Q) THEN "over" ELSE Q[i + 1])
<1> DEFINE Q == RunOf(k)
<1>1. CASE k = "linux_tcp"
  <2>1. Q = LinuxTcpClientRun BY <1>1 DEF RunOf
  <2>2. Len(Q) = 8 BY <2>1 DEF LinuxTcpClientRun
  <2>3. Q \in Seq(RunNames) BY <2>1 DEF LinuxTcpClientRun, RunNames
  <2>4. /\ Q[1] = "start" /\ Q[2] = "open" /\ Q[3] = "launch" /\ Q[4] = "await"
        /\ Q[5] = "clear" /\ Q[6] = "stop" /\ Q[7] = "close" /\ Q[8] = "join"
    BY <2>1 DEF LinuxTcpClientRun
  <2> HIDE DEF Q
  <2>5. \A i \in 1..Len(Q) : i \in {1, 2, 3, 4, 5, 6, 7, 8} BY <2>2
  <2>6. \A i \in 1..Len(Q) : RunSucc(k, Q[i], IF i = Len(Q) THEN "over" ELSE Q[i + 1])
    BY <1>1, <2>2, <2>4, <2>5 DEF RunSucc
  <2>7. QED BY <1>1, <2>2, <2>3, <2>4, <2>6 DEF TcpKinds, Q
<1>2. CASE k = "linux_udp"
  <2>1. Q = LinuxUdpRun BY <1>2 DEF RunOf
  <2>2. Len(Q) = 8 BY <2>1 DEF LinuxUdpRun
  <2>3. Q \in Seq(RunNames) BY <2>1 DEF LinuxUdpRun, RunNames
  <2>4. /\ Q[1] = "open" /\ Q[2] = "start" /\ Q[3] = "launch" /\ Q[4] = "await"
        /\ Q[5] = "clear" /\ Q[6] = "stop" /\ Q[7] = "close" /\ Q[8] = "join"
    BY <2>1 DEF LinuxUdpRun
  <2> HIDE DEF Q
  <2>5. \A i \in 1..Len(Q) : i \in {1, 2, 3, 4, 5, 6, 7, 8} BY <2>2
  <2>6. \A i \in 1..Len(Q) : RunSucc(k, Q[i], IF i = Len(Q) THEN "over" ELSE Q[i + 1])
    BY <1>2, <2>2, <2>4, <2>5 DEF RunSucc
  <2>7. QED BY <1>2, <2>2, <2>3, <2>4, <2>6 DEF TcpKinds, Q
<1>3. CASE k = "linux_serial"
  <2>1. Q = LinuxSerialPortRun BY <1>3 DEF RunOf
  <2>2. Len(Q) = 8 BY <2>1 DEF LinuxSerialPortRun
  <2>3. Q \in Seq(RunNames) BY <2>1 DEF LinuxSerialPortRun, RunNames
  <2>4. /\ Q[1] = "open" /\ Q[2] = "start" /\ Q[3] = "launch" /\ Q[4] = "await"
        /\ Q[5] = "clear" /\ Q[6] = "stop" /\ Q[7] = "close" /\ Q[8] = "join"
    BY <2>1 DEF LinuxSerialPortRun
  <2> HIDE DEF Q
  <2>5. \A i \in 1..Len(Q) : i \in {1, 2, 3, 4, 5, 6, 7, 8} BY <2>2
  <2>6. \A i \in 1..Len(Q) : RunSucc(k, Q[i], IF i = Len(Q) THEN "over" ELSE Q[i + 1])
    BY <1>3, <2>2, <2>4, <2>5 DEF RunSucc
  <2>7. QED BY <1>3, <2>2, <2>3, <2>4, <2>6 DEF TcpKinds, Q
<1>4. CASE k = "windows_tcp"
  <2>1. Q = WindowsTcpClientRun BY <1>4 DEF RunOf
  <2>2. Len(Q) = 8 BY <2>1 DEF WindowsTcpClientRun
  <2>3. Q \in Seq(RunNames) BY <2>1 DEF WindowsTcpClientRun, RunNames
  <2>4. /\ Q[1] = "open" /\ Q[2] = "start" /\ Q[3] = "launch" /\ Q[4] = "await"
        /\ Q[5] = "clear" /\ Q[6] = "stop" /\ Q[7] = "close" /\ Q[8] = "join"
    BY <2>1 DEF WindowsTcpClientRun
  <2> HIDE DEF Q
  <2>5. \A i \in 1..Len(Q) : i \in {1, 2, 3, 4, 5, 6, 7, 8} BY <2>2
  <2>6. \A i \in 1..Len(Q) : RunSucc(k, Q[i], IF i = Len(Q) THEN "over" ELSE Q[i + 1])
    BY <1>4, <2>2, <2>4, <2>5 DEF RunSucc
  <2>7. QED BY <1>4, <2>2, <2>3, <2>4, <2>6 DEF TcpKinds, Q
<1>5. CASE k = "windows_udp"
  <2>1. Q = WindowsUdpRun BY <1>5 DEF RunOf
  <2>2. Len(Q) = 8 BY <2>1 DEF WindowsUdpRun
  <2>3. Q \in Seq(RunNames) BY <2>1 DEF WindowsUdpRun, RunNames
  <2>4. /\ Q[1] = "open" /\ Q[2] = "start" /\ Q[3] = "launch" /\ Q[4] = "await"
        /\ Q[5] = "clear" /\ Q[6] = "stop" /\ Q[7] = "close" /\ Q[8] = "join"
    BY <2>1 DEF WindowsUdpRun
  <2> HIDE DEF Q
  <2>5. \A i \in 1..Len(Q) : i \in {1, 2, 3, 4, 5, 6, 7, 8} BY <2>2
  <2>6. \A i \in 1..Len(Q) : RunSucc(k, Q[i], IF i = Len(Q) THEN "over" ELSE Q[i + 1])
    BY <1>5, <2>2, <2>4, <2>5 DEF RunSucc
  <2>7. QED BY <1>5, <2>2, <2>3, <2>4, <2>6 DEF TcpKinds, Q
<1>6. CASE k = "windows_serial"
  <2>1. Q = WindowsSerialPortRun BY <1>6 DEF RunOf
  <2>2. Len(Q) = 8 BY <2>1 DEF WindowsSerialPortRun
  <2>3. Q \in Seq(RunNames) BY <2>1 DEF WindowsSerialPortRun, RunNames
  <2>4. /\ Q[1] = "open" /\ Q[2] = "start" /\ Q[3] = "launch" /\ Q[4] = "await"
        /\ Q[5] = "clear" /\ Q[6] = "stop_locked" /\ Q[7] = "close" /\ Q[8] = "join"
    BY <2>1 DEF WindowsSerialPortRun
  <2> HIDE DEF Q
  <2>5. \A i \in 1..Len(Q) : i \in {1, 2, 3, 4, 5, 6, 7, 8} BY <2>2
  <2>6. \A i \in 1..Len(Q) : RunSucc(k, Q[i], IF i = Len(Q) THEN "over" ELSE Q[i + 1])
    BY <1>6, <2>2, <2>4, <2>5 DEF RunSucc
  <2>7. QED BY <1>6, <2>2, <2>3, <2>4, <2>6 DEF TcpKinds, Q
<1>7. QED BY <1>1, <1>2, <1>3, <1>4, <1>5, <1>6 DEF AllKinds, LinuxKinds, WindowsKinds

\* The coroutine Run launches, of any class.
LEMMA ExecSteps ==
    ASSUME NEW k \in AllKinds
    PROVE  LET Q == ExecuteOf(k) IN
           /\ Q \in Seq(ExecNames) /\ Len(Q) \in 1..10
           /\ Q[1] = (IF k \in TcpKinds THEN "connect" ELSE "publish")
           /\ \A i \in 1..Len(Q) :
                 ExecSucc(Q[i], IF i = Len(Q) THEN "over" ELSE Q[i + 1])
<1> DEFINE Q == ExecuteOf(k)
<1>1. CASE k = "linux_tcp"
  <2>1. Q = LinuxTcpClientExecute BY <1>1 DEF ExecuteOf
  <2>2. Len(Q) = 10 BY <2>1 DEF LinuxTcpClientExecute
  <2>3. Q \in Seq(ExecNames) BY <2>1 DEF LinuxTcpClientExecute, ExecNames
  <2>4. /\ Q[1] = "connect" /\ Q[2] = "test_run" /\ Q[3] = "test_connected" /\ Q[4] = "publish"
        /\ Q[5] = "channel_run" /\ Q[6] = "handle" /\ Q[7] = "stop_channel" /\ Q[8] = "join_channel"
        /\ Q[9] = "unpublish" /\ Q[10] = "stop"
    BY <2>1 DEF LinuxTcpClientExecute
  <2> HIDE DEF Q
  <2>5. \A i \in 1..Len(Q) : i \in {1, 2, 3, 4, 5, 6, 7, 8, 9, 10} BY <2>2
  <2>6. \A i \in 1..Len(Q) : ExecSucc(Q[i], IF i = Len(Q) THEN "over" ELSE Q[i + 1])
    BY <1>1, <2>2, <2>4, <2>5 DEF ExecSucc
  <2>7. QED BY <1>1, <2>2, <2>3, <2>4, <2>6 DEF TcpKinds, Q
<1>2. CASE k = "linux_udp"
  <2>1. Q = LinuxUdpRunSocket BY <1>2 DEF ExecuteOf
  <2>2. Len(Q) = 7 BY <2>1 DEF LinuxUdpRunSocket
  <2>3. Q \in Seq(ExecNames) BY <2>1 DEF LinuxUdpRunSocket, ExecNames
  <2>4. /\ Q[1] = "publish" /\ Q[2] = "channel_run" /\ Q[3] = "handle" /\ Q[4] = "stop_channel"
        /\ Q[5] = "join_channel" /\ Q[6] = "unpublish" /\ Q[7] = "stop"
    BY <2>1 DEF LinuxUdpRunSocket
  <2> HIDE DEF Q
  <2>5. \A i \in 1..Len(Q) : i \in {1, 2, 3, 4, 5, 6, 7} BY <2>2
  <2>6. \A i \in 1..Len(Q) : ExecSucc(Q[i], IF i = Len(Q) THEN "over" ELSE Q[i + 1])
    BY <1>2, <2>2, <2>4, <2>5 DEF ExecSucc
  <2>7. QED BY <1>2, <2>2, <2>3, <2>4, <2>6 DEF TcpKinds, Q
<1>3. CASE k = "linux_serial"
  <2>1. Q = LinuxRunSerialPort BY <1>3 DEF ExecuteOf
  <2>2. Len(Q) = 7 BY <2>1 DEF LinuxRunSerialPort
  <2>3. Q \in Seq(ExecNames) BY <2>1 DEF LinuxRunSerialPort, ExecNames
  <2>4. /\ Q[1] = "publish" /\ Q[2] = "channel_run" /\ Q[3] = "handle" /\ Q[4] = "stop_channel"
        /\ Q[5] = "join_channel" /\ Q[6] = "unpublish" /\ Q[7] = "stop"
    BY <2>1 DEF LinuxRunSerialPort
  <2> HIDE DEF Q
  <2>5. \A i \in 1..Len(Q) : i \in {1, 2, 3, 4, 5, 6, 7} BY <2>2
  <2>6. \A i \in 1..Len(Q) : ExecSucc(Q[i], IF i = Len(Q) THEN "over" ELSE Q[i + 1])
    BY <1>3, <2>2, <2>4, <2>5 DEF ExecSucc
  <2>7. QED BY <1>3, <2>2, <2>3, <2>4, <2>6 DEF TcpKinds, Q
<1>4. CASE k = "windows_tcp"
  <2>1. Q = WindowsTcpClientExecute BY <1>4 DEF ExecuteOf
  <2>2. Len(Q) = 10 BY <2>1 DEF WindowsTcpClientExecute
  <2>3. Q \in Seq(ExecNames) BY <2>1 DEF WindowsTcpClientExecute, ExecNames
  <2>4. /\ Q[1] = "connect" /\ Q[2] = "test_run" /\ Q[3] = "test_connected" /\ Q[4] = "publish"
        /\ Q[5] = "channel_run" /\ Q[6] = "handle" /\ Q[7] = "stop_channel" /\ Q[8] = "join_channel"
        /\ Q[9] = "unpublish" /\ Q[10] = "stop"
    BY <2>1 DEF WindowsTcpClientExecute
  <2> HIDE DEF Q
  <2>5. \A i \in 1..Len(Q) : i \in {1, 2, 3, 4, 5, 6, 7, 8, 9, 10} BY <2>2
  <2>6. \A i \in 1..Len(Q) : ExecSucc(Q[i], IF i = Len(Q) THEN "over" ELSE Q[i + 1])
    BY <1>4, <2>2, <2>4, <2>5 DEF ExecSucc
  <2>7. QED BY <1>4, <2>2, <2>3, <2>4, <2>6 DEF TcpKinds, Q
<1>5. CASE k = "windows_udp"
  <2>1. Q = WindowsUdpRunSocket BY <1>5 DEF ExecuteOf
  <2>2. Len(Q) = 7 BY <2>1 DEF WindowsUdpRunSocket
  <2>3. Q \in Seq(ExecNames) BY <2>1 DEF WindowsUdpRunSocket, ExecNames
  <2>4. /\ Q[1] = "publish" /\ Q[2] = "channel_run" /\ Q[3] = "handle" /\ Q[4] = "stop_channel"
        /\ Q[5] = "join_channel" /\ Q[6] = "unpublish" /\ Q[7] = "stop"
    BY <2>1 DEF WindowsUdpRunSocket
  <2> HIDE DEF Q
  <2>5. \A i \in 1..Len(Q) : i \in {1, 2, 3, 4, 5, 6, 7} BY <2>2
  <2>6. \A i \in 1..Len(Q) : ExecSucc(Q[i], IF i = Len(Q) THEN "over" ELSE Q[i + 1])
    BY <1>5, <2>2, <2>4, <2>5 DEF ExecSucc
  <2>7. QED BY <1>5, <2>2, <2>3, <2>4, <2>6 DEF TcpKinds, Q
<1>6. CASE k = "windows_serial"
  <2>1. Q = WindowsRunSerialPort BY <1>6 DEF ExecuteOf
  <2>2. Len(Q) = 7 BY <2>1 DEF WindowsRunSerialPort
  <2>3. Q \in Seq(ExecNames) BY <2>1 DEF WindowsRunSerialPort, ExecNames
  <2>4. /\ Q[1] = "publish" /\ Q[2] = "channel_run" /\ Q[3] = "handle" /\ Q[4] = "stop_channel"
        /\ Q[5] = "join_channel" /\ Q[6] = "unpublish" /\ Q[7] = "stop"
    BY <2>1 DEF WindowsRunSerialPort
  <2> HIDE DEF Q
  <2>5. \A i \in 1..Len(Q) : i \in {1, 2, 3, 4, 5, 6, 7} BY <2>2
  <2>6. \A i \in 1..Len(Q) : ExecSucc(Q[i], IF i = Len(Q) THEN "over" ELSE Q[i + 1])
    BY <1>6, <2>2, <2>4, <2>5 DEF ExecSucc
  <2>7. QED BY <1>6, <2>2, <2>3, <2>4, <2>6 DEF TcpKinds, Q
<1>7. QED BY <1>1, <1>2, <1>3, <1>4, <1>5, <1>6 DEF AllKinds, LinuxKinds, WindowsKinds

\* Run of the channel of any class.
LEMMA ChanSteps ==
    ASSUME NEW k \in AllKinds
    PROVE  LET Q == ChannelRunOf(k) IN
           /\ Q \in Seq(ChanNames) /\ Len(Q) \in 1..10
           /\ Q[1] = (IF k = "windows_udp" THEN "start" ELSE "begin")
           /\ \A i \in 1..Len(Q) :
                 ChanSucc(Q[i], IF i = Len(Q) THEN "over" ELSE Q[i + 1])
<1> DEFINE Q == ChannelRunOf(k)
<1>1. CASE k = "linux_tcp"
  <2>1. Q = LinuxChannelRun BY <1>1 DEF ChannelRunOf
  <2>2. Len(Q) = 8 BY <2>1 DEF LinuxChannelRun
  <2>3. Q \in Seq(ChanNames) BY <2>1 DEF LinuxChannelRun, ChanNames
  <2>4. /\ Q[1] = "begin" /\ Q[2] = "register" /\ Q[3] = "start" /\ Q[4] = "await"
        /\ Q[5] = "end" /\ Q[6] = "close" /\ Q[7] = "end_operations" /\ Q[8] = "join"
    BY <2>1 DEF LinuxChannelRun
  <2> HIDE DEF Q
  <2>5. \A i \in 1..Len(Q) : i \in {1, 2, 3, 4, 5, 6, 7, 8} BY <2>2
  <2>6. \A i \in 1..Len(Q) : ChanSucc(Q[i], IF i = Len(Q) THEN "over" ELSE Q[i + 1])
    BY <1>1, <2>2, <2>4, <2>5 DEF ChanSucc
  <2>7. QED BY <1>1, <2>2, <2>3, <2>4, <2>6 DEF TcpKinds, Q
<1>2. CASE k = "linux_udp"
  <2>1. Q = LinuxUdpChannelRun BY <1>2 DEF ChannelRunOf
  <2>2. Len(Q) = 8 BY <2>1 DEF LinuxUdpChannelRun
  <2>3. Q \in Seq(ChanNames) BY <2>1 DEF LinuxUdpChannelRun, ChanNames
  <2>4. /\ Q[1] = "begin" /\ Q[2] = "register" /\ Q[3] = "start" /\ Q[4] = "await"
        /\ Q[5] = "end" /\ Q[6] = "close" /\ Q[7] = "end_operations" /\ Q[8] = "join"
    BY <2>1 DEF LinuxUdpChannelRun
  <2> HIDE DEF Q
  <2>5. \A i \in 1..Len(Q) : i \in {1, 2, 3, 4, 5, 6, 7, 8} BY <2>2
  <2>6. \A i \in 1..Len(Q) : ChanSucc(Q[i], IF i = Len(Q) THEN "over" ELSE Q[i + 1])
    BY <1>2, <2>2, <2>4, <2>5 DEF ChanSucc
  <2>7. QED BY <1>2, <2>2, <2>3, <2>4, <2>6 DEF TcpKinds, Q
<1>3. CASE k = "linux_serial"
  <2>1. Q = LinuxChannelRun BY <1>3 DEF ChannelRunOf
  <2>2. Len(Q) = 8 BY <2>1 DEF LinuxChannelRun
  <2>3. Q \in Seq(ChanNames) BY <2>1 DEF LinuxChannelRun, ChanNames
  <2>4. /\ Q[1] = "begin" /\ Q[2] = "register" /\ Q[3] = "start" /\ Q[4] = "await"
        /\ Q[5] = "end" /\ Q[6] = "close" /\ Q[7] = "end_operations" /\ Q[8] = "join"
    BY <2>1 DEF LinuxChannelRun
  <2> HIDE DEF Q
  <2>5. \A i \in 1..Len(Q) : i \in {1, 2, 3, 4, 5, 6, 7, 8} BY <2>2
  <2>6. \A i \in 1..Len(Q) : ChanSucc(Q[i], IF i = Len(Q) THEN "over" ELSE Q[i + 1])
    BY <1>3, <2>2, <2>4, <2>5 DEF ChanSucc
  <2>7. QED BY <1>3, <2>2, <2>3, <2>4, <2>6 DEF TcpKinds, Q
<1>4. CASE k = "windows_tcp"
  <2>1. Q = WindowsTcpChannelRun BY <1>4 DEF ChannelRunOf
  <2>2. Len(Q) = 6 BY <2>1 DEF WindowsTcpChannelRun
  <2>3. Q \in Seq(ChanNames) BY <2>1 DEF WindowsTcpChannelRun, ChanNames
  <2>4. /\ Q[1] = "begin" /\ Q[2] = "start" /\ Q[3] = "await" /\ Q[4] = "end"
        /\ Q[5] = "close" /\ Q[6] = "join"
    BY <2>1 DEF WindowsTcpChannelRun
  <2> HIDE DEF Q
  <2>5. \A i \in 1..Len(Q) : i \in {1, 2, 3, 4, 5, 6} BY <2>2
  <2>6. \A i \in 1..Len(Q) : ChanSucc(Q[i], IF i = Len(Q) THEN "over" ELSE Q[i + 1])
    BY <1>4, <2>2, <2>4, <2>5 DEF ChanSucc
  <2>7. QED BY <1>4, <2>2, <2>3, <2>4, <2>6 DEF TcpKinds, Q
<1>5. CASE k = "windows_udp"
  <2>1. Q = WindowsUdpChannelRun BY <1>5 DEF ChannelRunOf
  <2>2. Len(Q) = 7 BY <2>1 DEF WindowsUdpChannelRun
  <2>3. Q \in Seq(ChanNames) BY <2>1 DEF WindowsUdpChannelRun, ChanNames
  <2>4. /\ Q[1] = "start" /\ Q[2] = "begin" /\ Q[3] = "register" /\ Q[4] = "await"
        /\ Q[5] = "end" /\ Q[6] = "close" /\ Q[7] = "join"
    BY <2>1 DEF WindowsUdpChannelRun
  <2> HIDE DEF Q
  <2>5. \A i \in 1..Len(Q) : i \in {1, 2, 3, 4, 5, 6, 7} BY <2>2
  <2>6. \A i \in 1..Len(Q) : ChanSucc(Q[i], IF i = Len(Q) THEN "over" ELSE Q[i + 1])
    BY <1>5, <2>2, <2>4, <2>5 DEF ChanSucc
  <2>7. QED BY <1>5, <2>2, <2>3, <2>4, <2>6 DEF TcpKinds, Q
<1>6. CASE k = "windows_serial"
  <2>1. Q = WindowsSerialPortChannelRun BY <1>6 DEF ChannelRunOf
  <2>2. Len(Q) = 6 BY <2>1 DEF WindowsSerialPortChannelRun
  <2>3. Q \in Seq(ChanNames) BY <2>1 DEF WindowsSerialPortChannelRun, ChanNames
  <2>4. /\ Q[1] = "begin" /\ Q[2] = "register" /\ Q[3] = "start" /\ Q[4] = "await"
        /\ Q[5] = "end" /\ Q[6] = "join"
    BY <2>1 DEF WindowsSerialPortChannelRun
  <2> HIDE DEF Q
  <2>5. \A i \in 1..Len(Q) : i \in {1, 2, 3, 4, 5, 6} BY <2>2
  <2>6. \A i \in 1..Len(Q) : ChanSucc(Q[i], IF i = Len(Q) THEN "over" ELSE Q[i + 1])
    BY <1>6, <2>2, <2>4, <2>5 DEF ChanSucc
  <2>7. QED BY <1>6, <2>2, <2>3, <2>4, <2>6 DEF TcpKinds, Q
<1>7. QED BY <1>1, <1>2, <1>3, <1>4, <1>5, <1>6 DEF AllKinds, LinuxKinds, WindowsKinds

(* What Run, the coroutine and the channel have left *)

\* A Run that has begun has all of its steps left.
LEMMA RunStarts ==
    ASSUME NEW k \in AllKinds
    PROVE  <<"begin">> \o RunOf(k) \in Runs(k) /\ Pc(<<"begin">> \o RunOf(k)) = "begin"
<1> DEFINE R == <<"begin">> \o RunOf(k)
<1>1. RunOf(k) \in Seq(RunNames) BY RunSteps
<1>2. R \in Seq(RunNames) /\ R # << >> /\ Head(R) = "begin"
  <2>1. "begin" \in RunNames BY DEF RunNames
  <2>2. QED BY <1>1, <2>1, Pushed
<1> HIDE DEF R
<1>3. R = SubSeq(R, 1, Len(R)) /\ 1 \in 1..Len(R) + 1 BY <1>2, SubSeqFull
<1>4. R \in Suffixes(R) BY <1>3 DEF Suffixes
<1>5. QED BY <1>2, <1>4 DEF R, Runs, Pc

\* All of the steps, and none of them, are suffixes.
LEMMA SuffixOfAll ==
    ASSUME NEW S, NEW R \in Seq(S)
    PROVE  R \in Suffixes(R) /\ << >> \in Suffixes(R)
<1>1. /\ R = SubSeq(R, 1, Len(R)) /\ 1 \in 1..Len(R) + 1
      /\ << >> = SubSeq(R, Len(R) + 1, Len(R)) /\ Len(R) + 1 \in 1..Len(R) + 1
  BY SubSeqFull, SubSeqEmpty
<1>2. QED BY <1>1 DEF Suffixes

\* Run goes from step to step.
LEMMA RunMoves ==
    ASSUME NEW k \in AllKinds, NEW r \in Runs(k)
    PROVE  /\ r # << >> => Tail(r) \in Runs(k) /\ RunSucc(k, Pc(r), Pc(Tail(r)))
           /\ r = << >> <=> Pc(r) = "over"
           /\ << >> \in Runs(k)
           /\ Pc(r) \in {"stop", "stop_locked"} =>
                 <<"unlock">> \o Tail(r) \in Runs(k) /\ Pc(<<"unlock">> \o Tail(r)) = "unlock"
<1> DEFINE Q == RunOf(k)
           R == <<"begin">> \o Q
<1>1. /\ Q \in Seq(RunNames) /\ Len(Q) \in 1..10
      /\ Q[1] = (IF k = "linux_tcp" THEN "start" ELSE "open")
      /\ \A i \in 1..Len(Q) : RunSucc(k, Q[i], IF i = Len(Q) THEN "over" ELSE Q[i + 1])
  BY RunSteps
<1> HIDE DEF Q
<1>2. /\ R \in Seq(RunNames) /\ Len(R) = Len(Q) + 1 /\ R[1] = "begin"
      /\ \A i \in 1..Len(Q) : R[i + 1] = Q[i]
  BY <1>1 DEF RunNames
<1> HIDE DEF R
<1>3. ASSUME NEW i \in 1..Len(R)
      PROVE  RunSucc(k, R[i], IF i = Len(R) THEN "over" ELSE R[i + 1])
  <2>1. CASE i = 1 BY <1>1, <1>2, <2>1 DEF RunSucc
  <2>2. CASE i # 1
    <3>1. i - 1 \in 1..Len(Q) /\ i = (i - 1) + 1 BY <1>1, <1>2, <2>2
    <3>2. PICK j \in 1..Len(Q) : i = j + 1 BY <3>1
    <3>3. /\ R[i] = Q[j] /\ (i = Len(R) <=> j = Len(Q))
          /\ i # Len(R) => i \in 1..Len(Q) /\ R[i + 1] = Q[j + 1]
      BY <1>1, <1>2, <3>2
    <3>4. RunSucc(k, Q[j], IF j = Len(Q) THEN "over" ELSE Q[j + 1]) BY <1>1, <3>2
    <3>5. QED BY <3>3, <3>4
  <2>3. QED BY <2>1, <2>2
<1>4. ASSUME NEW q \in Suffixes(R)
      PROVE  /\ q \in Seq(RunNames)
             /\ q # << >> => Tail(q) \in Suffixes(R) /\ RunSucc(k, Pc(q), Pc(Tail(q)))
             /\ q = << >> <=> Pc(q) = "over"
  <2>1. q \in Seq(RunNames) BY <1>2, SuffixMoves
  <2>2. q # << >> => Tail(q) \in Suffixes(R) /\ RunSucc(k, Pc(q), Pc(Tail(q)))
    BY <1>2, <1>3, SuffixMoves
  <2>3. q # << >> => Pc(q) # "over" BY <2>2 DEF RunSucc
  <2>4. QED BY <2>1, <2>2, <2>3, PcOver
<1>5. Runs(k) = Suffixes(R) \cup {<<"unlock">> \o q : q \in {p \in Suffixes(R) : Pc(p) = "close"}}
  BY DEF Runs, R, Q
<1>6. << >> \in Runs(k) BY <1>2, <1>5, SuffixOfAll
<1>7. ASSUME NEW q \in Suffixes(R), Pc(q) = "close"
      PROVE  /\ Tail(<<"unlock">> \o q) = q /\ <<"unlock">> \o q # << >>
             /\ Pc(<<"unlock">> \o q) = "unlock" /\ <<"unlock">> \o q \in Runs(k)
  <2>1. q \in Seq(RunNames \cup {"unlock"}) BY <1>4
  <2>2. QED BY <1>5, <1>7, <2>1, Pushed DEF Pc
<1>8. Pc(r) \in {"stop", "stop_locked"} =>
         <<"unlock">> \o Tail(r) \in Runs(k) /\ Pc(<<"unlock">> \o Tail(r)) = "unlock"
  <2> SUFFICES ASSUME Pc(r) \in {"stop", "stop_locked"}
               PROVE  <<"unlock">> \o Tail(r) \in Runs(k) /\ Pc(<<"unlock">> \o Tail(r)) = "unlock"
    OBVIOUS
  <2>1. r \in Suffixes(R) BY <1>5, <1>7
  <2>2. r # << >> BY PcOver
  <2>3. Tail(r) \in Suffixes(R) /\ RunSucc(k, Pc(r), Pc(Tail(r))) BY <1>4, <2>1, <2>2
  <2>4. Pc(Tail(r)) = "close" BY <2>3 DEF RunSucc
  <2>5. QED BY <1>7, <2>3, <2>4
<1>9. CASE r \in Suffixes(R) BY <1>4, <1>5, <1>6, <1>8, <1>9
<1>10. CASE \E q \in Suffixes(R) : Pc(q) = "close" /\ r = <<"unlock">> \o q
  <2>1. PICK q \in Suffixes(R) : Pc(q) = "close" /\ r = <<"unlock">> \o q BY <1>10
  <2>2. r # << >> /\ Tail(r) = q /\ Pc(r) = "unlock" BY <1>7, <2>1
  <2>3. Tail(r) \in Runs(k) BY <1>5, <2>1, <2>2
  <2>4. RunSucc(k, Pc(r), Pc(Tail(r))) BY <2>1, <2>2 DEF RunSucc
  <2>5. Pc(r) # "over" BY <2>2
  <2>6. QED BY <1>6, <1>8, <2>2, <2>3, <2>4, <2>5
<1>11. QED BY <1>5, <1>9, <1>10

\* A step of the launched coroutine leads where its class says.
LEMMA ExecMoves ==
    ASSUME NEW k \in AllKinds, NEW r \in Execs(k)
    PROVE  /\ r # << >> => Tail(r) \in Execs(k) /\ ExecSucc(Pc(r), Pc(Tail(r)))
           /\ r = << >> <=> Pc(r) = "over"
           /\ << >> \in Execs(k)
           /\ <<"self_lock">> \in Execs(k) /\ Pc(<<"self_lock">>) = "self_lock"
           /\ ExecuteOf(k) \in Execs(k)
           /\ Pc(ExecuteOf(k)) = IF k \in TcpKinds THEN "connect" ELSE "publish"
<1> DEFINE R == ExecuteOf(k)
<1>1. /\ R \in Seq(ExecNames) /\ Len(R) \in 1..10
      /\ R[1] = (IF k \in TcpKinds THEN "connect" ELSE "publish")
      /\ \A i \in 1..Len(R) : ExecSucc(R[i], IF i = Len(R) THEN "over" ELSE R[i + 1])
  BY ExecSteps
<1>2. Execs(k) = Suffixes(R) \cup {<<"self_lock">>} BY DEF Execs
<1> HIDE DEF R
<1>3. << >> \in Execs(k) /\ R \in Execs(k) BY <1>1, <1>2, SuffixOfAll
<1>4. Pc(R) = R[1] BY <1>1 DEF Pc
<1>5. ASSUME NEW q \in Suffixes(R)
      PROVE  /\ q # << >> => Tail(q) \in Suffixes(R) /\ ExecSucc(Pc(q), Pc(Tail(q)))
             /\ q = << >> <=> Pc(q) = "over"
  <2>1. q # << >> => Tail(q) \in Suffixes(R) /\ ExecSucc(Pc(q), Pc(Tail(q)))
    BY <1>1, SuffixMoves
  <2>2. q # << >> => Pc(q) # "over" BY <2>1 DEF ExecSucc
  <2>3. QED BY <2>1, <2>2, PcOver
<1> DEFINE l == <<"self_lock">>
<1>6. l # << >> /\ Tail(l) = << >> /\ Pc(l) = "self_lock"
  BY DEF Pc
<1>7. QED BY <1>1, <1>2, <1>3, <1>4, <1>5, <1>6, PcOver DEF R, ExecSucc

\* A step of the channel's Run leads where its class says.
LEMMA ChanMoves ==
    ASSUME NEW k \in AllKinds, NEW r \in Chans(k)
    PROVE  /\ r # << >> => Tail(r) \in Chans(k) /\ ChanSucc(Pc(r), Pc(Tail(r)))
           /\ r = << >> <=> Pc(r) = "over"
           /\ << >> \in Chans(k)
           /\ <<"failed">> \in Chans(k) /\ Pc(<<"failed">>) = "failed"
           /\ ChannelRunOf(k) \in Chans(k) /\ Pc(ChannelRunOf(k)) \in {"start", "begin"}
<1> DEFINE R == ChannelRunOf(k)
<1>1. /\ R \in Seq(ChanNames) /\ Len(R) \in 1..10 /\ R[1] \in {"start", "begin"}
      /\ \A i \in 1..Len(R) : ChanSucc(R[i], IF i = Len(R) THEN "over" ELSE R[i + 1])
  BY ChanSteps
<1>2. Chans(k) = Suffixes(R) \cup {<<"failed">>} BY DEF Chans
<1> HIDE DEF R
<1>3. << >> \in Chans(k) /\ R \in Chans(k) BY <1>1, <1>2, SuffixOfAll
<1>4. Pc(R) = R[1] BY <1>1 DEF Pc
<1>5. ASSUME NEW q \in Suffixes(R)
      PROVE  /\ q # << >> => Tail(q) \in Suffixes(R) /\ ChanSucc(Pc(q), Pc(Tail(q)))
             /\ q = << >> <=> Pc(q) = "over"
  <2>1. q # << >> => Tail(q) \in Suffixes(R) /\ ChanSucc(Pc(q), Pc(Tail(q)))
    BY <1>1, SuffixMoves
  <2>2. q # << >> => Pc(q) # "over" BY <2>1 DEF ChanSucc
  <2>3. QED BY <2>1, <2>2, PcOver
<1> DEFINE l == <<"failed">>
<1>6. l # << >> /\ Tail(l) = << >> /\ Pc(l) = "failed"
  BY DEF Pc
<1>7. QED BY <1>1, <1>2, <1>3, <1>4, <1>5, <1>6, PcOver DEF R, ChanSucc

------------------------------------------------------------------------------
(* One step *)

\* Where the three coroutines are, and where they get by one step.
LEMMA Here ==
    ASSUME TypeOK, Shapes
    PROVE  /\ run = << >> <=> Pc(run) = "over"
           /\ Pc(run) # "over" => Tail(run) \in Runs(kind) /\ RunSucc(kind, Pc(run), Pc(Tail(run)))
           /\ << >> \in Runs(kind)
           /\ Pc(run) \in {"stop", "stop_locked"} =>
                 <<"unlock">> \o Tail(run) \in Runs(kind) /\ Pc(<<"unlock">> \o Tail(run)) = "unlock"
           /\ exec = << >> <=> Pc(exec) = "over"
           /\ Pc(exec) # "over" => Tail(exec) \in Execs(kind) /\ ExecSucc(Pc(exec), Pc(Tail(exec)))
           /\ << >> \in Execs(kind)
           /\ <<"self_lock">> \in Execs(kind) /\ Pc(<<"self_lock">>) = "self_lock"
           /\ ExecuteOf(kind) \in Execs(kind) /\ Pc(ExecuteOf(kind)) \in {"connect", "publish"}
           /\ chan = << >> <=> Pc(chan) = "over"
           /\ Pc(chan) # "over" => Tail(chan) \in Chans(kind) /\ ChanSucc(Pc(chan), Pc(Tail(chan)))
           /\ << >> \in Chans(kind)
           /\ <<"failed">> \in Chans(kind) /\ Pc(<<"failed">>) = "failed"
           /\ ChannelRunOf(kind) \in Chans(kind) /\ Pc(ChannelRunOf(kind)) \in {"start", "begin"}
           /\ ChannelReturned <=> chan_wait \/ Pc(chan) \in PastAwait
           /\ AtOne(run, {"stop", "stop_locked"}) <=> Pc(run) \in {"stop", "stop_locked"}
<1>1. kind \in AllKinds BY EndpointAssumption DEF TypeOK
<1>2. /\ run = << >> <=> Pc(run) = "over"
      /\ Pc(run) # "over" => Tail(run) \in Runs(kind) /\ RunSucc(kind, Pc(run), Pc(Tail(run)))
      /\ << >> \in Runs(kind)
      /\ Pc(run) \in {"stop", "stop_locked"} =>
            <<"unlock">> \o Tail(run) \in Runs(kind) /\ Pc(<<"unlock">> \o Tail(run)) = "unlock"
  BY <1>1, RunMoves DEF Shapes
<1>3. /\ exec = << >> <=> Pc(exec) = "over"
      /\ Pc(exec) # "over" => Tail(exec) \in Execs(kind) /\ ExecSucc(Pc(exec), Pc(Tail(exec)))
      /\ << >> \in Execs(kind)
      /\ <<"self_lock">> \in Execs(kind) /\ Pc(<<"self_lock">>) = "self_lock"
      /\ ExecuteOf(kind) \in Execs(kind) /\ Pc(ExecuteOf(kind)) \in {"connect", "publish"}
  BY <1>1, ExecMoves DEF Shapes
<1>4. /\ chan = << >> <=> Pc(chan) = "over"
      /\ Pc(chan) # "over" => Tail(chan) \in Chans(kind) /\ ChanSucc(Pc(chan), Pc(Tail(chan)))
      /\ << >> \in Chans(kind)
      /\ <<"failed">> \in Chans(kind) /\ Pc(<<"failed">>) = "failed"
      /\ ChannelRunOf(kind) \in Chans(kind) /\ Pc(ChannelRunOf(kind)) \in {"start", "begin"}
  BY <1>1, ChanMoves DEF Shapes
<1>5. ChannelReturned <=> chan_wait \/ Pc(chan) \in PastAwait
  BY <1>4 DEF ChannelReturned, AtOne, Pc, PastAwait
<1>6. AtOne(run, {"stop", "stop_locked"}) <=> Pc(run) \in {"stop", "stop_locked"}
  BY PcOver DEF AtOne, Pc
<1>7. QED BY <1>2, <1>3, <1>4, <1>5, <1>6

\* Every step takes the coroutines along their lists.
LEMMA ShapesKept ==
    ASSUME TypeOK, Shapes, Waits, [Next]_vars
    PROVE  Shapes'
<1>1. ASSUME RunBegin PROVE Shapes'
  BY <1>1, Here, AtPc, PcOver DEF RunBegin, stopVars, connectVars, chanStopVars, countVars,
     opVars, Shapes, Waits
<1>2. ASSUME WaitStart PROVE Shapes'
  BY <1>2, Here, AtPc, PcOver DEF WaitStart, connectVars, chanStopVars, countVars, opVars,
     Shapes, Waits
<1>3. ASSUME Open PROVE Shapes'
  BY <1>3, Here, AtPc, PcOver DEF Open, stopVars, connectVars, chanStopVars, countVars, opVars,
     Shapes, Waits
<1>4. ASSUME Launch PROVE Shapes'
  BY <1>4, Here, AtPc, PcOver DEF Launch, stopVars, connectVars, chanStopVars, countVars,
     opVars, Shapes, Waits
<1>5. ASSUME AwaitStop PROVE Shapes'
  BY <1>5, Here, AtPc, PcOver DEF AwaitStop, connectVars, chanStopVars, countVars, opVars,
     Shapes, Waits
<1>6. ASSUME ClearRunFlag PROVE Shapes'
  BY <1>6, Here, AtPc, PcOver DEF ClearRunFlag, stopVars, connectVars, chanStopVars, countVars,
     opVars, Shapes, Waits
<1>7. ASSUME StopFound PROVE Shapes'
  BY <1>7, Here, AtPc, PcOver DEF StopFound, ChannelStop, stopVars, connectVars, chanStopVars,
     countVars, opVars, Shapes, Waits
<1>8. ASSUME Unlock PROVE Shapes'
  BY <1>8, Here, AtPc, PcOver DEF Unlock, MutexHeld, stopVars, connectVars, chanStopVars,
     countVars, opVars, Shapes, Waits
<1>9. ASSUME CloseDescriptor PROVE Shapes'
  BY <1>9, Here, AtPc, PcOver DEF CloseDescriptor, Closed, stopVars, connectVars, chanStopVars,
     countVars, opVars, Shapes, Waits
<1>10. ASSUME JoinExecute PROVE Shapes'
  BY <1>10, Here, AtPc, PcOver DEF JoinExecute, stopVars, connectVars, chanStopVars, countVars,
     opVars, Shapes, Waits
<1>11. ASSUME Stop PROVE Shapes'
  BY <1>11, Here, AtPc, PcOver DEF Stop, StopRun, connectVars, chanStopVars, countVars, opVars,
     Shapes, Waits
<1>12. ASSUME Connect PROVE Shapes'
  BY <1>12, Here, AtPc, PcOver DEF Connect, runVars, chanStopVars, countVars, opVars, stopVars,
     Shapes, Waits
<1>13. ASSUME ConnectStartTask PROVE Shapes'
  BY <1>13, Here, AtPc, PcOver DEF ConnectStartTask, runVars, chanStopVars, countVars, opVars,
     stopVars, Shapes, Waits
<1>14. ASSUME OnConnect PROVE Shapes'
  BY <1>14, Here, AtPc, PcOver DEF OnConnect, runVars, chanStopVars, countVars, opVars,
     stopVars, Shapes, Waits
<1>15. ASSUME OnConnectAnswer PROVE Shapes'
  BY <1>15, Here, AtPc, PcOver DEF OnConnectAnswer, ResumeExecute, runVars, chanStopVars,
     countVars, opVars, stopVars, Shapes, Waits
<1>16. ASSUME OnConnectTimeout PROVE Shapes'
  BY <1>16, Here, AtPc, PcOver DEF OnConnectTimeout, TimeoutIsFirst, runVars, chanStopVars,
     countVars, opVars, stopVars, Shapes, Waits
<1>17. ASSUME OnConnectTimeoutAnswer PROVE Shapes'
  BY <1>17, Here, AtPc, PcOver DEF OnConnectTimeoutAnswer, ResumeExecute, runVars,
     chanStopVars, countVars, opVars, stopVars, Shapes, Waits
<1>18. ASSUME ConnectEx PROVE Shapes'
  BY <1>18, Here, AtPc, PcOver DEF ConnectEx, runVars, chanStopVars, countVars, opVars,
     stopVars, Shapes, Waits
<1>19. ASSUME ConnectExAnswer PROVE Shapes'
  BY <1>19, Here, AtPc, PcOver DEF ConnectExAnswer, ResumeExecute, runVars, chanStopVars,
     countVars, opVars, stopVars, Shapes, Waits
<1>20. ASSUME TestRunFlag PROVE Shapes'
  BY <1>20, Here, AtPc, PcOver DEF TestRunFlag, runVars, connectVars, chanStopVars, countVars,
     opVars, stopVars, Shapes, Waits
<1>21. ASSUME TestConnected PROVE Shapes'
  BY <1>21, Here, AtPc, PcOver DEF TestConnected, runVars, connectVars, chanStopVars,
     countVars, opVars, stopVars, Shapes, Waits
<1>22. ASSUME Publish PROVE Shapes'
  BY <1>22, Here, AtPc, PcOver DEF Publish, StillRuns, runVars, connectVars, chanStopVars,
     countVars, opVars, stopVars, Shapes, Waits
<1>23. ASSUME ChannelRun PROVE Shapes'
  BY <1>23, Here, AtPc, PcOver DEF ChannelRun, runVars, connectVars, countVars, opVars,
     stopVars, Shapes, Waits
<1>24. ASSUME HandlerEnds PROVE Shapes'
  BY <1>24, Here, AtPc, PcOver DEF HandlerEnds, runVars, connectVars, chanStopVars, countVars,
     opVars, stopVars, Shapes, Waits
<1>25. ASSUME StopChannel PROVE Shapes'
  BY <1>25, Here, AtPc, PcOver DEF StopChannel, ChannelStop, runVars, connectVars, countVars,
     opVars, stopVars, Shapes, Waits
<1>26. ASSUME JoinChannel PROVE Shapes'
  BY <1>26, Here, AtPc, PcOver DEF JoinChannel, runVars, connectVars, chanStopVars, countVars,
     opVars, stopVars, Shapes, Waits
<1>27. ASSUME Unpublish PROVE Shapes'
  BY <1>27, Here, AtPc, PcOver DEF Unpublish, MutexHeld, runVars, connectVars, chanStopVars,
     countVars, opVars, stopVars, Shapes, Waits
<1>28. ASSUME StopOwnRun PROVE Shapes'
  BY <1>28, Here, AtPc, PcOver DEF StopOwnRun, StopRun, connectVars, chanStopVars, countVars,
     opVars, Shapes, Waits
<1>29. ASSUME ChannelBegin PROVE Shapes'
  BY <1>29, Here, AtPc, PcOver DEF ChannelBegin, runVars, connectVars, countVars, opVars,
     stopVars, Shapes, Waits
<1>30. ASSUME Register PROVE Shapes'
  BY <1>30, Here, AtPc, PcOver DEF Register, Closed, runVars, connectVars, countVars, opVars,
     stopVars, Shapes, Waits
<1>31. ASSUME ChannelStart PROVE Shapes'
  BY <1>31, Here, AtPc, PcOver DEF ChannelStart, runVars, connectVars, countVars, opVars,
     stopVars, Shapes, Waits
<1>32. ASSUME ChannelAwait PROVE Shapes'
  BY <1>32, Here, AtPc, PcOver DEF ChannelAwait, runVars, connectVars, countVars, opVars,
     stopVars, Shapes, Waits
<1>33. ASSUME ChannelEnd PROVE Shapes'
  BY <1>33, Here, AtPc, PcOver DEF ChannelEnd, runVars, connectVars, countVars, opVars,
     stopVars, Shapes, Waits
<1>34. ASSUME ChannelClose PROVE Shapes'
  BY <1>34, Here, AtPc, PcOver DEF ChannelClose, Closed, runVars, connectVars, countVars,
     opVars, stopVars, Shapes, Waits
<1>35. ASSUME EndOperations PROVE Shapes'
  BY <1>35, Here, AtPc, PcOver DEF EndOperations, runVars, connectVars, countVars, stopVars,
     Shapes, Waits
<1>36. ASSUME JoinOperations PROVE Shapes'
  BY <1>36, Here, AtPc, PcOver DEF JoinOperations, MutexHeld, runVars, connectVars, opVars,
     stopVars, Shapes, Waits
<1>37. ASSUME LinuxOnEpoll PROVE Shapes'
  BY <1>37, Here, AtPc, PcOver DEF LinuxOnEpoll, ChannelStop, runVars, connectVars, countVars,
     opVars, stopVars, Shapes, Waits
<1>38. ASSUME LinuxUdpOnEpoll PROVE Shapes'
  BY <1>38, Here, AtPc, PcOver DEF LinuxUdpOnEpoll, ChannelStop, runVars, connectVars,
     countVars, opVars, stopVars, Shapes, Waits
<1>39. ASSUME HandlerCalls PROVE Shapes'
  BY <1>39, Here, AtPc, PcOver DEF HandlerCalls, GotoOp, runVars, connectVars, chanStopVars,
     countVars, stopVars, Shapes, Waits
<1>40. ASSUME OutsiderWrites PROVE Shapes'
  BY <1>40, Here, AtPc, PcOver DEF OutsiderWrites, GotoOp, MutexHeld, runVars, connectVars,
     chanStopVars, countVars, stopVars, Shapes, Waits
<1>41. ASSUME NEW c \in Callers, CountUp(c) PROVE Shapes'
  BY <1>41, Here, AtPc, PcOver DEF CountUp, GotoOp, runVars, connectVars, chanStopVars,
     stopVars, Shapes, Waits
<1>42. ASSUME NEW c \in Callers, TestStopFlag(c) PROVE Shapes'
  BY <1>42, Here, AtPc, PcOver DEF TestStopFlag, GotoOp, Told, runVars, connectVars,
     chanStopVars, countVars, stopVars, Shapes, Waits
<1>43. ASSUME NEW c \in Callers, Operate(c) PROVE Shapes'
  BY <1>43, Here, AtPc, PcOver DEF Operate, GotoOp, runVars, connectVars, chanStopVars,
     countVars, stopVars, Shapes, Waits
<1>44. ASSUME NEW c \in Callers, Answer(c) PROVE Shapes'
  BY <1>44, Here, AtPc, PcOver DEF Answer, GotoOp, runVars, connectVars, chanStopVars,
     countVars, stopVars, Shapes, Waits
<1>45. ASSUME NEW c \in Callers, Finish(c) PROVE Shapes'
  BY <1>45, Here, AtPc, PcOver DEF Finish, ChannelStop, GotoOp, Told, runVars, connectVars,
     chanStopVars, countVars, stopVars, Shapes, Waits
<1>46. ASSUME NEW c \in Callers, CountDown(c) PROVE Shapes'
  BY <1>46, Here, AtPc, PcOver DEF CountDown, GotoOp, Wakes, runVars, connectVars, stopVars,
     Shapes, Waits
<1>47. ASSUME NEW c \in Callers, Block(c) PROVE Shapes'
  BY <1>47, Here, AtPc, PcOver DEF Block, GotoOp, runVars, connectVars, chanStopVars,
     countVars, stopVars, Shapes, Waits
<1>48. ASSUME NEW c \in Callers, Unblock(c) PROVE Shapes'
  BY <1>48, Here, AtPc, PcOver DEF Unblock, GotoOp, runVars, connectVars, chanStopVars,
     countVars, stopVars, Shapes, Waits
<1>49. CASE UNCHANGED vars
  BY <1>49 DEF vars, runVars, stopVars, connectVars, chanStopVars, countVars, opVars, Shapes,
     Waits
<1>50. QED
  BY <1>1, <1>2, <1>3, <1>4, <1>5, <1>6, <1>7, <1>8, <1>9, <1>10, <1>11, <1>12, <1>13, <1>14,
     <1>15, <1>16, <1>17, <1>18, <1>19, <1>20, <1>21, <1>22, <1>23, <1>24, <1>25, <1>26, <1>27,
     <1>28, <1>29, <1>30, <1>31, <1>32, <1>33, <1>34, <1>35, <1>36, <1>37, <1>38, <1>39, <1>40,
     <1>41, <1>42, <1>43, <1>44, <1>45, <1>46, <1>47, <1>48, <1>49 DEF Next, RunStep, ConnectStep,
     ExecuteStep, ChannelStep, Operation

\* Who leaves the place where it waits does not wait any more.
LEMMA WaitsKept ==
    ASSUME TypeOK, Shapes, Waits, Nested, [Next]_vars
    PROVE  Waits'
<1>1. ASSUME RunBegin PROVE Waits'
  BY <1>1, Here, AtPc, PcOver DEF RunBegin, stopVars, connectVars, chanStopVars, countVars,
     opVars, Waits, Nested, RunSucc, ChanSucc
<1>2. ASSUME WaitStart PROVE Waits'
  BY <1>2, Here, AtPc, PcOver DEF WaitStart, connectVars, chanStopVars, countVars, opVars,
     Waits, Nested, RunSucc, ChanSucc
<1>3. ASSUME Open PROVE Waits'
  BY <1>3, Here, AtPc, PcOver DEF Open, stopVars, connectVars, chanStopVars, countVars, opVars,
     Waits, Nested, RunSucc, ChanSucc
<1>4. ASSUME Launch PROVE Waits'
  BY <1>4, Here, AtPc, PcOver DEF Launch, stopVars, connectVars, chanStopVars, countVars,
     opVars, Waits, Nested, RunSucc, ChanSucc
<1>5. ASSUME AwaitStop PROVE Waits'
  BY <1>5, Here, AtPc, PcOver DEF AwaitStop, connectVars, chanStopVars, countVars, opVars,
     Waits, Nested, RunSucc, ChanSucc
<1>6. ASSUME ClearRunFlag PROVE Waits'
  BY <1>6, Here, AtPc, PcOver DEF ClearRunFlag, stopVars, connectVars, chanStopVars, countVars,
     opVars, Waits, Nested, RunSucc, ChanSucc
<1>7. ASSUME StopFound PROVE Waits'
  BY <1>7, Here, AtPc, PcOver DEF StopFound, ChannelStop, stopVars, connectVars, chanStopVars,
     countVars, opVars, Waits, Nested, RunSucc, ChanSucc
<1>8. ASSUME Unlock PROVE Waits'
  BY <1>8, Here, AtPc, PcOver DEF Unlock, MutexHeld, stopVars, connectVars, chanStopVars,
     countVars, opVars, Waits, Nested, RunSucc, ChanSucc
<1>9. ASSUME CloseDescriptor PROVE Waits'
  BY <1>9, Here, AtPc, PcOver DEF CloseDescriptor, Closed, stopVars, connectVars, chanStopVars,
     countVars, opVars, Waits, Nested, RunSucc, ChanSucc
<1>10. ASSUME JoinExecute PROVE Waits'
  BY <1>10, Here, AtPc, PcOver DEF JoinExecute, stopVars, connectVars, chanStopVars, countVars,
     opVars, Waits, Nested, RunSucc, ChanSucc
<1>11. ASSUME Stop PROVE Waits'
  BY <1>11, Here, AtPc, PcOver DEF Stop, StopRun, connectVars, chanStopVars, countVars, opVars,
     Waits, Nested, RunSucc, ChanSucc
<1>12. ASSUME Connect PROVE Waits'
  BY <1>12, Here, AtPc, PcOver DEF Connect, runVars, chanStopVars, countVars, opVars, stopVars,
     Waits, Nested, RunSucc, ChanSucc
<1>13. ASSUME ConnectStartTask PROVE Waits'
  BY <1>13, Here, AtPc, PcOver DEF ConnectStartTask, runVars, chanStopVars, countVars, opVars,
     stopVars, Waits, Nested, RunSucc, ChanSucc
<1>14. ASSUME OnConnect PROVE Waits'
  BY <1>14, Here, AtPc, PcOver DEF OnConnect, runVars, chanStopVars, countVars, opVars,
     stopVars, Waits, Nested, RunSucc, ChanSucc
<1>15. ASSUME OnConnectAnswer PROVE Waits'
  BY <1>15, Here, AtPc, PcOver DEF OnConnectAnswer, ResumeExecute, runVars, chanStopVars,
     countVars, opVars, stopVars, Waits, Nested, RunSucc, ChanSucc
<1>16. ASSUME OnConnectTimeout PROVE Waits'
  BY <1>16, Here, AtPc, PcOver DEF OnConnectTimeout, TimeoutIsFirst, runVars, chanStopVars,
     countVars, opVars, stopVars, Waits, Nested, RunSucc, ChanSucc
<1>17. ASSUME OnConnectTimeoutAnswer PROVE Waits'
  BY <1>17, Here, AtPc, PcOver DEF OnConnectTimeoutAnswer, ResumeExecute, runVars,
     chanStopVars, countVars, opVars, stopVars, Waits, Nested, RunSucc, ChanSucc
<1>18. ASSUME ConnectEx PROVE Waits'
  BY <1>18, Here, AtPc, PcOver DEF ConnectEx, runVars, chanStopVars, countVars, opVars,
     stopVars, Waits, Nested, RunSucc, ChanSucc
<1>19. ASSUME ConnectExAnswer PROVE Waits'
  BY <1>19, Here, AtPc, PcOver DEF ConnectExAnswer, ResumeExecute, runVars, chanStopVars,
     countVars, opVars, stopVars, Waits, Nested, RunSucc, ChanSucc
<1>20. ASSUME TestRunFlag PROVE Waits'
  BY <1>20, Here, AtPc, PcOver DEF TestRunFlag, runVars, connectVars, chanStopVars, countVars,
     opVars, stopVars, Waits, Nested, RunSucc, ChanSucc
<1>21. ASSUME TestConnected PROVE Waits'
  BY <1>21, Here, AtPc, PcOver DEF TestConnected, runVars, connectVars, chanStopVars,
     countVars, opVars, stopVars, Waits, Nested, RunSucc, ChanSucc
<1>22. ASSUME Publish PROVE Waits'
  BY <1>22, Here, AtPc, PcOver DEF Publish, StillRuns, runVars, connectVars, chanStopVars,
     countVars, opVars, stopVars, Waits, Nested, RunSucc, ChanSucc
<1>23. ASSUME ChannelRun PROVE Waits'
  BY <1>23, Here, AtPc, PcOver DEF ChannelRun, runVars, connectVars, countVars, opVars,
     stopVars, Waits, Nested, RunSucc, ChanSucc
<1>24. ASSUME HandlerEnds PROVE Waits'
  BY <1>24, Here, AtPc, PcOver DEF HandlerEnds, runVars, connectVars, chanStopVars, countVars,
     opVars, stopVars, Waits, Nested, RunSucc, ChanSucc
<1>25. ASSUME StopChannel PROVE Waits'
  BY <1>25, Here, AtPc, PcOver DEF StopChannel, ChannelStop, runVars, connectVars, countVars,
     opVars, stopVars, Waits, Nested, RunSucc, ChanSucc
<1>26. ASSUME JoinChannel PROVE Waits'
  BY <1>26, Here, AtPc, PcOver DEF JoinChannel, runVars, connectVars, chanStopVars, countVars,
     opVars, stopVars, Waits, Nested, RunSucc, ChanSucc
<1>27. ASSUME Unpublish PROVE Waits'
  BY <1>27, Here, AtPc, PcOver DEF Unpublish, MutexHeld, runVars, connectVars, chanStopVars,
     countVars, opVars, stopVars, Waits, Nested, RunSucc, ChanSucc
<1>28. ASSUME StopOwnRun PROVE Waits'
  BY <1>28, Here, AtPc, PcOver DEF StopOwnRun, StopRun, connectVars, chanStopVars, countVars,
     opVars, Waits, Nested, RunSucc, ChanSucc
<1>29. ASSUME ChannelBegin PROVE Waits'
  BY <1>29, Here, AtPc, PcOver DEF ChannelBegin, runVars, connectVars, countVars, opVars,
     stopVars, Waits, Nested, RunSucc, ChanSucc
<1>30. ASSUME Register PROVE Waits'
  BY <1>30, Here, AtPc, PcOver DEF Register, Closed, runVars, connectVars, countVars, opVars,
     stopVars, Waits, Nested, RunSucc, ChanSucc
<1>31. ASSUME ChannelStart PROVE Waits'
  BY <1>31, Here, AtPc, PcOver DEF ChannelStart, runVars, connectVars, countVars, opVars,
     stopVars, Waits, Nested, RunSucc, ChanSucc
<1>32. ASSUME ChannelAwait PROVE Waits'
  BY <1>32, Here, AtPc, PcOver DEF ChannelAwait, runVars, connectVars, countVars, opVars,
     stopVars, Waits, Nested, RunSucc, ChanSucc
<1>33. ASSUME ChannelEnd PROVE Waits'
  BY <1>33, Here, AtPc, PcOver DEF ChannelEnd, runVars, connectVars, countVars, opVars,
     stopVars, Waits, Nested, RunSucc, ChanSucc
<1>34. ASSUME ChannelClose PROVE Waits'
  BY <1>34, Here, AtPc, PcOver DEF ChannelClose, Closed, runVars, connectVars, countVars,
     opVars, stopVars, Waits, Nested, RunSucc, ChanSucc
<1>35. ASSUME EndOperations PROVE Waits'
  BY <1>35, Here, AtPc, PcOver DEF EndOperations, runVars, connectVars, countVars, stopVars,
     Waits, Nested, RunSucc, ChanSucc
<1>36. ASSUME JoinOperations PROVE Waits'
  BY <1>36, Here, AtPc, PcOver DEF JoinOperations, MutexHeld, runVars, connectVars, opVars,
     stopVars, Waits, Nested, RunSucc, ChanSucc
<1>37. ASSUME LinuxOnEpoll PROVE Waits'
  BY <1>37, Here, AtPc, PcOver DEF LinuxOnEpoll, ChannelStop, runVars, connectVars, countVars,
     opVars, stopVars, Waits, Nested, RunSucc, ChanSucc
<1>38. ASSUME LinuxUdpOnEpoll PROVE Waits'
  BY <1>38, Here, AtPc, PcOver DEF LinuxUdpOnEpoll, ChannelStop, runVars, connectVars,
     countVars, opVars, stopVars, Waits, Nested, RunSucc, ChanSucc
<1>39. ASSUME HandlerCalls PROVE Waits'
  BY <1>39, Here, AtPc, PcOver DEF HandlerCalls, GotoOp, runVars, connectVars, chanStopVars,
     countVars, stopVars, Waits, Nested, RunSucc, ChanSucc
<1>40. ASSUME OutsiderWrites PROVE Waits'
  BY <1>40, Here, AtPc, PcOver DEF OutsiderWrites, GotoOp, MutexHeld, runVars, connectVars,
     chanStopVars, countVars, stopVars, Waits, Nested, RunSucc, ChanSucc
<1>41. ASSUME NEW c \in Callers, CountUp(c) PROVE Waits'
  BY <1>41, Here, AtPc, PcOver DEF CountUp, GotoOp, runVars, connectVars, chanStopVars,
     stopVars, Waits, Nested, RunSucc, ChanSucc
<1>42. ASSUME NEW c \in Callers, TestStopFlag(c) PROVE Waits'
  BY <1>42, Here, AtPc, PcOver DEF TestStopFlag, GotoOp, Told, runVars, connectVars,
     chanStopVars, countVars, stopVars, Waits, Nested, RunSucc, ChanSucc
<1>43. ASSUME NEW c \in Callers, Operate(c) PROVE Waits'
  BY <1>43, Here, AtPc, PcOver DEF Operate, GotoOp, runVars, connectVars, chanStopVars,
     countVars, stopVars, Waits, Nested, RunSucc, ChanSucc
<1>44. ASSUME NEW c \in Callers, Answer(c) PROVE Waits'
  BY <1>44, Here, AtPc, PcOver DEF Answer, GotoOp, runVars, connectVars, chanStopVars,
     countVars, stopVars, Waits, Nested, RunSucc, ChanSucc
<1>45. ASSUME NEW c \in Callers, Finish(c) PROVE Waits'
  BY <1>45, Here, AtPc, PcOver DEF Finish, ChannelStop, GotoOp, Told, runVars, connectVars,
     chanStopVars, countVars, stopVars, Waits, Nested, RunSucc, ChanSucc
<1>46. ASSUME NEW c \in Callers, CountDown(c) PROVE Waits'
  BY <1>46, Here, AtPc, PcOver DEF CountDown, GotoOp, Wakes, runVars, connectVars, stopVars,
     Waits, Nested, RunSucc, ChanSucc
<1>47. ASSUME NEW c \in Callers, Block(c) PROVE Waits'
  BY <1>47, Here, AtPc, PcOver DEF Block, GotoOp, runVars, connectVars, chanStopVars,
     countVars, stopVars, Waits, Nested, RunSucc, ChanSucc
<1>48. ASSUME NEW c \in Callers, Unblock(c) PROVE Waits'
  BY <1>48, Here, AtPc, PcOver DEF Unblock, GotoOp, runVars, connectVars, chanStopVars,
     countVars, stopVars, Waits, Nested, RunSucc, ChanSucc
<1>49. CASE UNCHANGED vars
  BY <1>49 DEF vars, runVars, stopVars, connectVars, chanStopVars, countVars, opVars, Waits,
     Nested
<1>50. QED
  BY <1>1, <1>2, <1>3, <1>4, <1>5, <1>6, <1>7, <1>8, <1>9, <1>10, <1>11, <1>12, <1>13, <1>14,
     <1>15, <1>16, <1>17, <1>18, <1>19, <1>20, <1>21, <1>22, <1>23, <1>24, <1>25, <1>26, <1>27,
     <1>28, <1>29, <1>30, <1>31, <1>32, <1>33, <1>34, <1>35, <1>36, <1>37, <1>38, <1>39, <1>40,
     <1>41, <1>42, <1>43, <1>44, <1>45, <1>46, <1>47, <1>48, <1>49 DEF Next, RunStep, ConnectStep,
     ExecuteStep, ChannelStep, Operation

\* The channel is stopped before it is joined, and joined before it is given up.
LEMMA NestedKept ==
    ASSUME TypeOK, Shapes, Waits, Nested, [Next]_vars
    PROVE  Nested'
<1>1. ASSUME RunBegin PROVE Nested'
  BY <1>1, Here, AtPc, PcOver DEF RunBegin, stopVars, connectVars, chanStopVars, countVars,
     opVars, Waits, Nested, PastAwait, RunSucc, ExecSucc, ChanSucc
<1>2. ASSUME WaitStart PROVE Nested'
  BY <1>2, Here, AtPc, PcOver DEF WaitStart, connectVars, chanStopVars, countVars, opVars,
     Waits, Nested, PastAwait, RunSucc, ExecSucc, ChanSucc
<1>3. ASSUME Open PROVE Nested'
  BY <1>3, Here, AtPc, PcOver DEF Open, stopVars, connectVars, chanStopVars, countVars, opVars,
     Waits, Nested, PastAwait, RunSucc, ExecSucc, ChanSucc
<1>4. ASSUME Launch PROVE Nested'
  BY <1>4, Here, AtPc, PcOver DEF Launch, stopVars, connectVars, chanStopVars, countVars,
     opVars, Waits, Nested, PastAwait, RunSucc, ExecSucc, ChanSucc
<1>5. ASSUME AwaitStop PROVE Nested'
  BY <1>5, Here, AtPc, PcOver DEF AwaitStop, connectVars, chanStopVars, countVars, opVars,
     Waits, Nested, PastAwait, RunSucc, ExecSucc, ChanSucc
<1>6. ASSUME ClearRunFlag PROVE Nested'
  BY <1>6, Here, AtPc, PcOver DEF ClearRunFlag, stopVars, connectVars, chanStopVars, countVars,
     opVars, Waits, Nested, PastAwait, RunSucc, ExecSucc, ChanSucc
<1>7. ASSUME StopFound PROVE Nested'
  BY <1>7, Here, AtPc, PcOver DEF StopFound, ChannelStop, stopVars, connectVars, chanStopVars,
     countVars, opVars, Waits, Nested, PastAwait, RunSucc, ExecSucc, ChanSucc
<1>8. ASSUME Unlock PROVE Nested'
  BY <1>8, Here, AtPc, PcOver DEF Unlock, MutexHeld, stopVars, connectVars, chanStopVars,
     countVars, opVars, Waits, Nested, PastAwait, RunSucc, ExecSucc, ChanSucc
<1>9. ASSUME CloseDescriptor PROVE Nested'
  BY <1>9, Here, AtPc, PcOver DEF CloseDescriptor, Closed, stopVars, connectVars, chanStopVars,
     countVars, opVars, Waits, Nested, PastAwait, RunSucc, ExecSucc, ChanSucc
<1>10. ASSUME JoinExecute PROVE Nested'
  BY <1>10, Here, AtPc, PcOver DEF JoinExecute, stopVars, connectVars, chanStopVars, countVars,
     opVars, Waits, Nested, PastAwait, RunSucc, ExecSucc, ChanSucc
<1>11. ASSUME Stop PROVE Nested'
  BY <1>11, Here, AtPc, PcOver DEF Stop, StopRun, connectVars, chanStopVars, countVars, opVars,
     Waits, Nested, PastAwait, RunSucc, ExecSucc, ChanSucc
<1>12. ASSUME Connect PROVE Nested'
  BY <1>12, Here, AtPc, PcOver DEF Connect, runVars, chanStopVars, countVars, opVars, stopVars,
     Waits, Nested, PastAwait, RunSucc, ExecSucc, ChanSucc
<1>13. ASSUME ConnectStartTask PROVE Nested'
  BY <1>13, Here, AtPc, PcOver DEF ConnectStartTask, runVars, chanStopVars, countVars, opVars,
     stopVars, Waits, Nested, PastAwait, RunSucc, ExecSucc, ChanSucc
<1>14. ASSUME OnConnect PROVE Nested'
  BY <1>14, Here, AtPc, PcOver DEF OnConnect, runVars, chanStopVars, countVars, opVars,
     stopVars, Waits, Nested, PastAwait, RunSucc, ExecSucc, ChanSucc
<1>15. ASSUME OnConnectAnswer PROVE Nested'
  BY <1>15, Here, AtPc, PcOver DEF OnConnectAnswer, ResumeExecute, runVars, chanStopVars,
     countVars, opVars, stopVars, Waits, Nested, PastAwait, RunSucc, ExecSucc, ChanSucc
<1>16. ASSUME OnConnectTimeout PROVE Nested'
  BY <1>16, Here, AtPc, PcOver DEF OnConnectTimeout, TimeoutIsFirst, runVars, chanStopVars,
     countVars, opVars, stopVars, Waits, Nested, PastAwait, RunSucc, ExecSucc, ChanSucc
<1>17. ASSUME OnConnectTimeoutAnswer PROVE Nested'
  BY <1>17, Here, AtPc, PcOver DEF OnConnectTimeoutAnswer, ResumeExecute, runVars,
     chanStopVars, countVars, opVars, stopVars, Waits, Nested, PastAwait, RunSucc, ExecSucc,
     ChanSucc
<1>18. ASSUME ConnectEx PROVE Nested'
  BY <1>18, Here, AtPc, PcOver DEF ConnectEx, runVars, chanStopVars, countVars, opVars,
     stopVars, Waits, Nested, PastAwait, RunSucc, ExecSucc, ChanSucc
<1>19. ASSUME ConnectExAnswer PROVE Nested'
  BY <1>19, Here, AtPc, PcOver DEF ConnectExAnswer, ResumeExecute, runVars, chanStopVars,
     countVars, opVars, stopVars, Waits, Nested, PastAwait, RunSucc, ExecSucc, ChanSucc
<1>20. ASSUME TestRunFlag PROVE Nested'
  BY <1>20, Here, AtPc, PcOver DEF TestRunFlag, runVars, connectVars, chanStopVars, countVars,
     opVars, stopVars, Waits, Nested, PastAwait, RunSucc, ExecSucc, ChanSucc
<1>21. ASSUME TestConnected PROVE Nested'
  BY <1>21, Here, AtPc, PcOver DEF TestConnected, runVars, connectVars, chanStopVars,
     countVars, opVars, stopVars, Waits, Nested, PastAwait, RunSucc, ExecSucc, ChanSucc
<1>22. ASSUME Publish PROVE Nested'
  BY <1>22, Here, AtPc, PcOver DEF Publish, StillRuns, runVars, connectVars, chanStopVars,
     countVars, opVars, stopVars, Waits, Nested, PastAwait, RunSucc, ExecSucc, ChanSucc
<1>23. ASSUME ChannelRun PROVE Nested'
  BY <1>23, Here, AtPc, PcOver DEF ChannelRun, runVars, connectVars, countVars, opVars,
     stopVars, Waits, Nested, PastAwait, RunSucc, ExecSucc, ChanSucc
<1>24. ASSUME HandlerEnds PROVE Nested'
  BY <1>24, Here, AtPc, PcOver DEF HandlerEnds, runVars, connectVars, chanStopVars, countVars,
     opVars, stopVars, Waits, Nested, PastAwait, RunSucc, ExecSucc, ChanSucc
<1>25. ASSUME StopChannel PROVE Nested'
  BY <1>25, Here, AtPc, PcOver DEF StopChannel, ChannelStop, runVars, connectVars, countVars,
     opVars, stopVars, Waits, Nested, PastAwait, RunSucc, ExecSucc, ChanSucc
<1>26. ASSUME JoinChannel PROVE Nested'
  BY <1>26, Here, AtPc, PcOver DEF JoinChannel, runVars, connectVars, chanStopVars, countVars,
     opVars, stopVars, Waits, Nested, PastAwait, RunSucc, ExecSucc, ChanSucc
<1>27. ASSUME Unpublish PROVE Nested'
  BY <1>27, Here, AtPc, PcOver DEF Unpublish, MutexHeld, runVars, connectVars, chanStopVars,
     countVars, opVars, stopVars, Waits, Nested, PastAwait, RunSucc, ExecSucc, ChanSucc
<1>28. ASSUME StopOwnRun PROVE Nested'
  BY <1>28, Here, AtPc, PcOver DEF StopOwnRun, StopRun, connectVars, chanStopVars, countVars,
     opVars, Waits, Nested, PastAwait, RunSucc, ExecSucc, ChanSucc
<1>29. ASSUME ChannelBegin PROVE Nested'
  BY <1>29, Here, AtPc, PcOver DEF ChannelBegin, runVars, connectVars, countVars, opVars,
     stopVars, Waits, Nested, PastAwait, RunSucc, ExecSucc, ChanSucc
<1>30. ASSUME Register PROVE Nested'
  BY <1>30, Here, AtPc, PcOver DEF Register, Closed, runVars, connectVars, countVars, opVars,
     stopVars, Waits, Nested, PastAwait, RunSucc, ExecSucc, ChanSucc
<1>31. ASSUME ChannelStart PROVE Nested'
  BY <1>31, Here, AtPc, PcOver DEF ChannelStart, runVars, connectVars, countVars, opVars,
     stopVars, Waits, Nested, PastAwait, RunSucc, ExecSucc, ChanSucc
<1>32. ASSUME ChannelAwait PROVE Nested'
  BY <1>32, Here, AtPc, PcOver DEF ChannelAwait, runVars, connectVars, countVars, opVars,
     stopVars, Waits, Nested, PastAwait, RunSucc, ExecSucc, ChanSucc
<1>33. ASSUME ChannelEnd PROVE Nested'
  BY <1>33, Here, AtPc, PcOver DEF ChannelEnd, runVars, connectVars, countVars, opVars,
     stopVars, Waits, Nested, PastAwait, RunSucc, ExecSucc, ChanSucc
<1>34. ASSUME ChannelClose PROVE Nested'
  BY <1>34, Here, AtPc, PcOver DEF ChannelClose, Closed, runVars, connectVars, countVars,
     opVars, stopVars, Waits, Nested, PastAwait, RunSucc, ExecSucc, ChanSucc
<1>35. ASSUME EndOperations PROVE Nested'
  BY <1>35, Here, AtPc, PcOver DEF EndOperations, runVars, connectVars, countVars, stopVars,
     Waits, Nested, PastAwait, RunSucc, ExecSucc, ChanSucc
<1>36. ASSUME JoinOperations PROVE Nested'
  BY <1>36, Here, AtPc, PcOver DEF JoinOperations, MutexHeld, runVars, connectVars, opVars,
     stopVars, Waits, Nested, PastAwait, RunSucc, ExecSucc, ChanSucc
<1>37. ASSUME LinuxOnEpoll PROVE Nested'
  BY <1>37, Here, AtPc, PcOver DEF LinuxOnEpoll, ChannelStop, runVars, connectVars, countVars,
     opVars, stopVars, Waits, Nested, PastAwait, RunSucc, ExecSucc, ChanSucc
<1>38. ASSUME LinuxUdpOnEpoll PROVE Nested'
  BY <1>38, Here, AtPc, PcOver DEF LinuxUdpOnEpoll, ChannelStop, runVars, connectVars,
     countVars, opVars, stopVars, Waits, Nested, PastAwait, RunSucc, ExecSucc, ChanSucc
<1>39. ASSUME HandlerCalls PROVE Nested'
  BY <1>39, Here, AtPc, PcOver DEF HandlerCalls, GotoOp, runVars, connectVars, chanStopVars,
     countVars, stopVars, Waits, Nested, PastAwait, RunSucc, ExecSucc, ChanSucc
<1>40. ASSUME OutsiderWrites PROVE Nested'
  BY <1>40, Here, AtPc, PcOver DEF OutsiderWrites, GotoOp, MutexHeld, runVars, connectVars,
     chanStopVars, countVars, stopVars, Waits, Nested, PastAwait, RunSucc, ExecSucc, ChanSucc
<1>41. ASSUME NEW c \in Callers, CountUp(c) PROVE Nested'
  BY <1>41, Here, AtPc, PcOver DEF CountUp, GotoOp, runVars, connectVars, chanStopVars,
     stopVars, Waits, Nested, PastAwait, RunSucc, ExecSucc, ChanSucc
<1>42. ASSUME NEW c \in Callers, TestStopFlag(c) PROVE Nested'
  BY <1>42, Here, AtPc, PcOver DEF TestStopFlag, GotoOp, Told, runVars, connectVars,
     chanStopVars, countVars, stopVars, Waits, Nested, PastAwait, RunSucc, ExecSucc, ChanSucc
<1>43. ASSUME NEW c \in Callers, Operate(c) PROVE Nested'
  BY <1>43, Here, AtPc, PcOver DEF Operate, GotoOp, runVars, connectVars, chanStopVars,
     countVars, stopVars, Waits, Nested, PastAwait, RunSucc, ExecSucc, ChanSucc
<1>44. ASSUME NEW c \in Callers, Answer(c) PROVE Nested'
  BY <1>44, Here, AtPc, PcOver DEF Answer, GotoOp, runVars, connectVars, chanStopVars,
     countVars, stopVars, Waits, Nested, PastAwait, RunSucc, ExecSucc, ChanSucc
<1>45. ASSUME NEW c \in Callers, Finish(c) PROVE Nested'
  BY <1>45, Here, AtPc, PcOver DEF Finish, ChannelStop, GotoOp, Told, runVars, connectVars,
     chanStopVars, countVars, stopVars, Waits, Nested, PastAwait, RunSucc, ExecSucc, ChanSucc
<1>46. ASSUME NEW c \in Callers, CountDown(c) PROVE Nested'
  BY <1>46, Here, AtPc, PcOver DEF CountDown, GotoOp, Wakes, runVars, connectVars, stopVars,
     Waits, Nested, PastAwait, RunSucc, ExecSucc, ChanSucc
<1>47. ASSUME NEW c \in Callers, Block(c) PROVE Nested'
  BY <1>47, Here, AtPc, PcOver DEF Block, GotoOp, runVars, connectVars, chanStopVars,
     countVars, stopVars, Waits, Nested, PastAwait, RunSucc, ExecSucc, ChanSucc
<1>48. ASSUME NEW c \in Callers, Unblock(c) PROVE Nested'
  BY <1>48, Here, AtPc, PcOver DEF Unblock, GotoOp, runVars, connectVars, chanStopVars,
     countVars, stopVars, Waits, Nested, PastAwait, RunSucc, ExecSucc, ChanSucc
<1>49. CASE UNCHANGED vars
  BY <1>49 DEF vars, runVars, stopVars, connectVars, chanStopVars, countVars, opVars, Waits,
     Nested, PastAwait
<1>50. QED
  BY <1>1, <1>2, <1>3, <1>4, <1>5, <1>6, <1>7, <1>8, <1>9, <1>10, <1>11, <1>12, <1>13, <1>14,
     <1>15, <1>16, <1>17, <1>18, <1>19, <1>20, <1>21, <1>22, <1>23, <1>24, <1>25, <1>26, <1>27,
     <1>28, <1>29, <1>30, <1>31, <1>32, <1>33, <1>34, <1>35, <1>36, <1>37, <1>38, <1>39, <1>40,
     <1>41, <1>42, <1>43, <1>44, <1>45, <1>46, <1>47, <1>48, <1>49 DEF Next, RunStep, ConnectStep,
     ExecuteStep, ChannelStep, Operation

\* Only one class opens a descriptor and loses it.
LEMMA OpenLeaks ==
    ASSUME NEW k \in AllKinds, "leaked" \in OpenOf(k)
    PROVE  k = "linux_serial"
<1>1. CASE k = "linux_tcp" BY <1>1 DEF OpenOf, LinuxTcpOpen
<1>2. CASE k = "linux_udp" BY <1>2 DEF OpenOf, LinuxUdpOpen
<1>3. CASE k = "windows_tcp" BY <1>3 DEF OpenOf, WindowsTcpOpen
<1>4. CASE k = "windows_udp" BY <1>4 DEF OpenOf, WindowsUdpOpen
<1>5. CASE k = "windows_serial" BY <1>5 DEF OpenOf, WindowsSerialOpen
<1>6. QED BY <1>1, <1>2, <1>3, <1>4, <1>5 DEF AllKinds, LinuxKinds, WindowsKinds

\* The descriptor is closed on every way out of Run.
LEMMA DescriptorKept ==
    ASSUME TypeOK, Shapes, Waits, Descriptor, [Next]_vars
    PROVE  Descriptor'
<1>1. ASSUME RunBegin PROVE Descriptor'
  BY <1>1, Here, AtPc, PcOver DEF RunBegin, stopVars, connectVars, chanStopVars, countVars,
     opVars, TypeOK, Waits, Descriptor, RunSucc
<1>2. ASSUME WaitStart PROVE Descriptor'
  BY <1>2, Here, AtPc, PcOver DEF WaitStart, connectVars, chanStopVars, countVars, opVars,
     TypeOK, Waits, Descriptor, RunSucc
<1>3. ASSUME Open PROVE Descriptor'
  <2>1. kind' = kind /\ kind \in AllKinds BY <1>3, EndpointAssumption DEF Open, TypeOK
  <2>2. fd' = "leaked" => fd = "leaked" \/ "leaked" \in OpenOf(kind) BY <1>3 DEF Open
  <2>3. fd' = "leaked" => kind' = "linux_serial" BY <2>1, <2>2, OpenLeaks DEF Descriptor
  <2>4. CASE run' = << >>
    <3>1. fd' # "open" BY <1>3, <2>4, Here, AtPc, PcOver DEF Open, Descriptor, RunSucc
    <3>2. Pc(run') = "over" BY <2>4, PcOver
    <3>3. QED BY <2>3, <3>1, <3>2 DEF Descriptor
  <2>5. CASE run' # << >>
    <3>1. run' = Tail(run) /\ Pc(run) = "open" BY <1>3, <2>5, AtPc DEF Open
    <3>2. RunSucc(kind, "open", Pc(run')) BY <3>1, Here
    <3>3. Pc(run') = IF kind = "linux_tcp" THEN "launch" ELSE "start" BY <3>2 DEF RunSucc
    <3>4. QED BY <2>1, <2>3, <3>3 DEF Descriptor
  <2>6. QED BY <2>4, <2>5
<1>4. ASSUME Launch PROVE Descriptor'
  BY <1>4, Here, AtPc, PcOver DEF Launch, stopVars, connectVars, chanStopVars, countVars,
     opVars, TypeOK, Waits, Descriptor, RunSucc
<1>5. ASSUME AwaitStop PROVE Descriptor'
  BY <1>5, Here, AtPc, PcOver DEF AwaitStop, connectVars, chanStopVars, countVars, opVars,
     TypeOK, Waits, Descriptor, RunSucc
<1>6. ASSUME ClearRunFlag PROVE Descriptor'
  BY <1>6, Here, AtPc, PcOver DEF ClearRunFlag, stopVars, connectVars, chanStopVars, countVars,
     opVars, TypeOK, Waits, Descriptor, RunSucc
<1>7. ASSUME StopFound PROVE Descriptor'
  BY <1>7, Here, AtPc, PcOver DEF StopFound, ChannelStop, stopVars, connectVars, chanStopVars,
     countVars, opVars, TypeOK, Waits, Descriptor, RunSucc
<1>8. ASSUME Unlock PROVE Descriptor'
  BY <1>8, Here, AtPc, PcOver DEF Unlock, MutexHeld, stopVars, connectVars, chanStopVars,
     countVars, opVars, TypeOK, Waits, Descriptor, RunSucc
<1>9. ASSUME CloseDescriptor PROVE Descriptor'
  BY <1>9, Here, AtPc, PcOver DEF CloseDescriptor, Closed, stopVars, connectVars, chanStopVars,
     countVars, opVars, TypeOK, Waits, Descriptor, RunSucc
<1>10. ASSUME JoinExecute PROVE Descriptor'
  BY <1>10, Here, AtPc, PcOver DEF JoinExecute, stopVars, connectVars, chanStopVars, countVars,
     opVars, TypeOK, Waits, Descriptor, RunSucc
<1>11. ASSUME Stop PROVE Descriptor'
  BY <1>11, Here, AtPc, PcOver DEF Stop, StopRun, connectVars, chanStopVars, countVars, opVars,
     TypeOK, Waits, Descriptor, RunSucc
<1>12. ASSUME Connect PROVE Descriptor'
  BY <1>12, Here, AtPc, PcOver DEF Connect, runVars, chanStopVars, countVars, opVars, stopVars,
     TypeOK, Waits, Descriptor, RunSucc
<1>13. ASSUME ConnectStartTask PROVE Descriptor'
  BY <1>13, Here, AtPc, PcOver DEF ConnectStartTask, runVars, chanStopVars, countVars, opVars,
     stopVars, TypeOK, Waits, Descriptor, RunSucc
<1>14. ASSUME OnConnect PROVE Descriptor'
  BY <1>14, Here, AtPc, PcOver DEF OnConnect, runVars, chanStopVars, countVars, opVars,
     stopVars, TypeOK, Waits, Descriptor, RunSucc
<1>15. ASSUME OnConnectAnswer PROVE Descriptor'
  BY <1>15, Here, AtPc, PcOver DEF OnConnectAnswer, ResumeExecute, runVars, chanStopVars,
     countVars, opVars, stopVars, TypeOK, Waits, Descriptor, RunSucc
<1>16. ASSUME OnConnectTimeout PROVE Descriptor'
  BY <1>16, Here, AtPc, PcOver DEF OnConnectTimeout, TimeoutIsFirst, runVars, chanStopVars,
     countVars, opVars, stopVars, TypeOK, Waits, Descriptor, RunSucc
<1>17. ASSUME OnConnectTimeoutAnswer PROVE Descriptor'
  BY <1>17, Here, AtPc, PcOver DEF OnConnectTimeoutAnswer, ResumeExecute, runVars,
     chanStopVars, countVars, opVars, stopVars, TypeOK, Waits, Descriptor, RunSucc
<1>18. ASSUME ConnectEx PROVE Descriptor'
  BY <1>18, Here, AtPc, PcOver DEF ConnectEx, runVars, chanStopVars, countVars, opVars,
     stopVars, TypeOK, Waits, Descriptor, RunSucc
<1>19. ASSUME ConnectExAnswer PROVE Descriptor'
  BY <1>19, Here, AtPc, PcOver DEF ConnectExAnswer, ResumeExecute, runVars, chanStopVars,
     countVars, opVars, stopVars, TypeOK, Waits, Descriptor, RunSucc
<1>20. ASSUME TestRunFlag PROVE Descriptor'
  BY <1>20, Here, AtPc, PcOver DEF TestRunFlag, runVars, connectVars, chanStopVars, countVars,
     opVars, stopVars, TypeOK, Waits, Descriptor, RunSucc
<1>21. ASSUME TestConnected PROVE Descriptor'
  BY <1>21, Here, AtPc, PcOver DEF TestConnected, runVars, connectVars, chanStopVars,
     countVars, opVars, stopVars, TypeOK, Waits, Descriptor, RunSucc
<1>22. ASSUME Publish PROVE Descriptor'
  BY <1>22, Here, AtPc, PcOver DEF Publish, StillRuns, runVars, connectVars, chanStopVars,
     countVars, opVars, stopVars, TypeOK, Waits, Descriptor, RunSucc
<1>23. ASSUME ChannelRun PROVE Descriptor'
  BY <1>23, Here, AtPc, PcOver DEF ChannelRun, runVars, connectVars, countVars, opVars,
     stopVars, TypeOK, Waits, Descriptor, RunSucc
<1>24. ASSUME HandlerEnds PROVE Descriptor'
  BY <1>24, Here, AtPc, PcOver DEF HandlerEnds, runVars, connectVars, chanStopVars, countVars,
     opVars, stopVars, TypeOK, Waits, Descriptor, RunSucc
<1>25. ASSUME StopChannel PROVE Descriptor'
  BY <1>25, Here, AtPc, PcOver DEF StopChannel, ChannelStop, runVars, connectVars, countVars,
     opVars, stopVars, TypeOK, Waits, Descriptor, RunSucc
<1>26. ASSUME JoinChannel PROVE Descriptor'
  BY <1>26, Here, AtPc, PcOver DEF JoinChannel, runVars, connectVars, chanStopVars, countVars,
     opVars, stopVars, TypeOK, Waits, Descriptor, RunSucc
<1>27. ASSUME Unpublish PROVE Descriptor'
  BY <1>27, Here, AtPc, PcOver DEF Unpublish, MutexHeld, runVars, connectVars, chanStopVars,
     countVars, opVars, stopVars, TypeOK, Waits, Descriptor, RunSucc
<1>28. ASSUME StopOwnRun PROVE Descriptor'
  BY <1>28, Here, AtPc, PcOver DEF StopOwnRun, StopRun, connectVars, chanStopVars, countVars,
     opVars, TypeOK, Waits, Descriptor, RunSucc
<1>29. ASSUME ChannelBegin PROVE Descriptor'
  BY <1>29, Here, AtPc, PcOver DEF ChannelBegin, runVars, connectVars, countVars, opVars,
     stopVars, TypeOK, Waits, Descriptor, RunSucc
<1>30. ASSUME Register PROVE Descriptor'
  BY <1>30, Here, AtPc, PcOver DEF Register, Closed, runVars, connectVars, countVars, opVars,
     stopVars, TypeOK, Waits, Descriptor, RunSucc
<1>31. ASSUME ChannelStart PROVE Descriptor'
  BY <1>31, Here, AtPc, PcOver DEF ChannelStart, runVars, connectVars, countVars, opVars,
     stopVars, TypeOK, Waits, Descriptor, RunSucc
<1>32. ASSUME ChannelAwait PROVE Descriptor'
  BY <1>32, Here, AtPc, PcOver DEF ChannelAwait, runVars, connectVars, countVars, opVars,
     stopVars, TypeOK, Waits, Descriptor, RunSucc
<1>33. ASSUME ChannelEnd PROVE Descriptor'
  BY <1>33, Here, AtPc, PcOver DEF ChannelEnd, runVars, connectVars, countVars, opVars,
     stopVars, TypeOK, Waits, Descriptor, RunSucc
<1>34. ASSUME ChannelClose PROVE Descriptor'
  BY <1>34, Here, AtPc, PcOver DEF ChannelClose, Closed, runVars, connectVars, countVars,
     opVars, stopVars, TypeOK, Waits, Descriptor, RunSucc
<1>35. ASSUME EndOperations PROVE Descriptor'
  BY <1>35, Here, AtPc, PcOver DEF EndOperations, runVars, connectVars, countVars, stopVars,
     TypeOK, Waits, Descriptor, RunSucc
<1>36. ASSUME JoinOperations PROVE Descriptor'
  BY <1>36, Here, AtPc, PcOver DEF JoinOperations, MutexHeld, runVars, connectVars, opVars,
     stopVars, TypeOK, Waits, Descriptor, RunSucc
<1>37. ASSUME LinuxOnEpoll PROVE Descriptor'
  BY <1>37, Here, AtPc, PcOver DEF LinuxOnEpoll, ChannelStop, runVars, connectVars, countVars,
     opVars, stopVars, TypeOK, Waits, Descriptor, RunSucc
<1>38. ASSUME LinuxUdpOnEpoll PROVE Descriptor'
  BY <1>38, Here, AtPc, PcOver DEF LinuxUdpOnEpoll, ChannelStop, runVars, connectVars,
     countVars, opVars, stopVars, TypeOK, Waits, Descriptor, RunSucc
<1>39. ASSUME HandlerCalls PROVE Descriptor'
  BY <1>39, Here, AtPc, PcOver DEF HandlerCalls, GotoOp, runVars, connectVars, chanStopVars,
     countVars, stopVars, TypeOK, Waits, Descriptor, RunSucc
<1>40. ASSUME OutsiderWrites PROVE Descriptor'
  BY <1>40, Here, AtPc, PcOver DEF OutsiderWrites, GotoOp, MutexHeld, runVars, connectVars,
     chanStopVars, countVars, stopVars, TypeOK, Waits, Descriptor, RunSucc
<1>41. ASSUME NEW c \in Callers, CountUp(c) PROVE Descriptor'
  BY <1>41, Here, AtPc, PcOver DEF CountUp, GotoOp, runVars, connectVars, chanStopVars,
     stopVars, TypeOK, Waits, Descriptor, RunSucc
<1>42. ASSUME NEW c \in Callers, TestStopFlag(c) PROVE Descriptor'
  BY <1>42, Here, AtPc, PcOver DEF TestStopFlag, GotoOp, Told, runVars, connectVars,
     chanStopVars, countVars, stopVars, TypeOK, Waits, Descriptor, RunSucc
<1>43. ASSUME NEW c \in Callers, Operate(c) PROVE Descriptor'
  BY <1>43, Here, AtPc, PcOver DEF Operate, GotoOp, runVars, connectVars, chanStopVars,
     countVars, stopVars, TypeOK, Waits, Descriptor, RunSucc
<1>44. ASSUME NEW c \in Callers, Answer(c) PROVE Descriptor'
  BY <1>44, Here, AtPc, PcOver DEF Answer, GotoOp, runVars, connectVars, chanStopVars,
     countVars, stopVars, TypeOK, Waits, Descriptor, RunSucc
<1>45. ASSUME NEW c \in Callers, Finish(c) PROVE Descriptor'
  BY <1>45, Here, AtPc, PcOver DEF Finish, ChannelStop, GotoOp, Told, runVars, connectVars,
     chanStopVars, countVars, stopVars, TypeOK, Waits, Descriptor, RunSucc
<1>46. ASSUME NEW c \in Callers, CountDown(c) PROVE Descriptor'
  BY <1>46, Here, AtPc, PcOver DEF CountDown, GotoOp, Wakes, runVars, connectVars, stopVars,
     TypeOK, Waits, Descriptor, RunSucc
<1>47. ASSUME NEW c \in Callers, Block(c) PROVE Descriptor'
  BY <1>47, Here, AtPc, PcOver DEF Block, GotoOp, runVars, connectVars, chanStopVars,
     countVars, stopVars, TypeOK, Waits, Descriptor, RunSucc
<1>48. ASSUME NEW c \in Callers, Unblock(c) PROVE Descriptor'
  BY <1>48, Here, AtPc, PcOver DEF Unblock, GotoOp, runVars, connectVars, chanStopVars,
     countVars, stopVars, TypeOK, Waits, Descriptor, RunSucc
<1>49. CASE UNCHANGED vars
  BY <1>49 DEF vars, runVars, stopVars, connectVars, chanStopVars, countVars, opVars, TypeOK,
     Waits, Descriptor
<1>50. QED
  BY <1>1, <1>2, <1>3, <1>4, <1>5, <1>6, <1>7, <1>8, <1>9, <1>10, <1>11, <1>12, <1>13, <1>14,
     <1>15, <1>16, <1>17, <1>18, <1>19, <1>20, <1>21, <1>22, <1>23, <1>24, <1>25, <1>26, <1>27,
     <1>28, <1>29, <1>30, <1>31, <1>32, <1>33, <1>34, <1>35, <1>36, <1>37, <1>38, <1>39, <1>40,
     <1>41, <1>42, <1>43, <1>44, <1>45, <1>46, <1>47, <1>48, <1>49 DEF Next, RunStep, ConnectStep,
     ExecuteStep, ChannelStep, Operation

\* Answer and timeout of the connection exclude each other.
LEMMA ConnectingKept ==
    ASSUME TypeOK, Shapes, Waits, Nested, Connecting, [Next]_vars
    PROVE  Connecting'
<1>1. ASSUME RunBegin PROVE Connecting'
  BY <1>1, Here, AtPc, PcOver DEF RunBegin, stopVars, connectVars, chanStopVars, countVars,
     opVars, TypeOK, Waits, Nested, Connecting, RunSucc, ExecSucc
<1>2. ASSUME WaitStart PROVE Connecting'
  BY <1>2, Here, AtPc, PcOver DEF WaitStart, connectVars, chanStopVars, countVars, opVars,
     TypeOK, Waits, Nested, Connecting, RunSucc, ExecSucc
<1>3. ASSUME Open PROVE Connecting'
  BY <1>3, Here, AtPc, PcOver DEF Open, stopVars, connectVars, chanStopVars, countVars, opVars,
     TypeOK, Waits, Nested, Connecting, RunSucc, ExecSucc
<1>4. ASSUME Launch PROVE Connecting'
  BY <1>4, Here, AtPc, PcOver DEF Launch, stopVars, connectVars, chanStopVars, countVars,
     opVars, TypeOK, Waits, Nested, Connecting, RunSucc, ExecSucc
<1>5. ASSUME AwaitStop PROVE Connecting'
  BY <1>5, Here, AtPc, PcOver DEF AwaitStop, connectVars, chanStopVars, countVars, opVars,
     TypeOK, Waits, Nested, Connecting, RunSucc, ExecSucc
<1>6. ASSUME ClearRunFlag PROVE Connecting'
  BY <1>6, Here, AtPc, PcOver DEF ClearRunFlag, stopVars, connectVars, chanStopVars, countVars,
     opVars, TypeOK, Waits, Nested, Connecting, RunSucc, ExecSucc
<1>7. ASSUME StopFound PROVE Connecting'
  BY <1>7, Here, AtPc, PcOver DEF StopFound, ChannelStop, stopVars, connectVars, chanStopVars,
     countVars, opVars, TypeOK, Waits, Nested, Connecting, RunSucc, ExecSucc
<1>8. ASSUME Unlock PROVE Connecting'
  BY <1>8, Here, AtPc, PcOver DEF Unlock, MutexHeld, stopVars, connectVars, chanStopVars,
     countVars, opVars, TypeOK, Waits, Nested, Connecting, RunSucc, ExecSucc
<1>9. ASSUME CloseDescriptor PROVE Connecting'
  BY <1>9, Here, AtPc, PcOver DEF CloseDescriptor, Closed, stopVars, connectVars, chanStopVars,
     countVars, opVars, TypeOK, Waits, Nested, Connecting, RunSucc, ExecSucc
<1>10. ASSUME JoinExecute PROVE Connecting'
  BY <1>10, Here, AtPc, PcOver DEF JoinExecute, stopVars, connectVars, chanStopVars, countVars,
     opVars, TypeOK, Waits, Nested, Connecting, RunSucc, ExecSucc
<1>11. ASSUME Stop PROVE Connecting'
  BY <1>11, Here, AtPc, PcOver DEF Stop, StopRun, connectVars, chanStopVars, countVars, opVars,
     TypeOK, Waits, Nested, Connecting, RunSucc, ExecSucc
<1>12. ASSUME Connect PROVE Connecting'
  BY <1>12, Here, AtPc, PcOver DEF Connect, runVars, chanStopVars, countVars, opVars, stopVars,
     TypeOK, Waits, Nested, Connecting, RunSucc, ExecSucc
<1>13. ASSUME ConnectStartTask PROVE Connecting'
  BY <1>13, Here, AtPc, PcOver DEF ConnectStartTask, runVars, chanStopVars, countVars, opVars,
     stopVars, TypeOK, Waits, Nested, Connecting, RunSucc, ExecSucc
<1>14. ASSUME OnConnect PROVE Connecting'
  BY <1>14, Here, AtPc, PcOver DEF OnConnect, runVars, chanStopVars, countVars, opVars,
     stopVars, TypeOK, Waits, Nested, Connecting, RunSucc, ExecSucc
<1>15. ASSUME OnConnectAnswer PROVE Connecting'
  BY <1>15, Here, AtPc, PcOver DEF OnConnectAnswer, ResumeExecute, runVars, chanStopVars,
     countVars, opVars, stopVars, TypeOK, Waits, Nested, Connecting, RunSucc, ExecSucc
<1>16. ASSUME OnConnectTimeout PROVE Connecting'
  BY <1>16, Here, AtPc, PcOver DEF OnConnectTimeout, TimeoutIsFirst, runVars, chanStopVars,
     countVars, opVars, stopVars, TypeOK, Waits, Nested, Connecting, RunSucc, ExecSucc
<1>17. ASSUME OnConnectTimeoutAnswer PROVE Connecting'
  BY <1>17, Here, AtPc, PcOver DEF OnConnectTimeoutAnswer, ResumeExecute, runVars,
     chanStopVars, countVars, opVars, stopVars, TypeOK, Waits, Nested, Connecting, RunSucc,
     ExecSucc
<1>18. ASSUME ConnectEx PROVE Connecting'
  BY <1>18, Here, AtPc, PcOver DEF ConnectEx, runVars, chanStopVars, countVars, opVars,
     stopVars, TypeOK, Waits, Nested, Connecting, RunSucc, ExecSucc
<1>19. ASSUME ConnectExAnswer PROVE Connecting'
  BY <1>19, Here, AtPc, PcOver DEF ConnectExAnswer, ResumeExecute, runVars, chanStopVars,
     countVars, opVars, stopVars, TypeOK, Waits, Nested, Connecting, RunSucc, ExecSucc
<1>20. ASSUME TestRunFlag PROVE Connecting'
  BY <1>20, Here, AtPc, PcOver DEF TestRunFlag, runVars, connectVars, chanStopVars, countVars,
     opVars, stopVars, TypeOK, Waits, Nested, Connecting, RunSucc, ExecSucc
<1>21. ASSUME TestConnected PROVE Connecting'
  BY <1>21, Here, AtPc, PcOver DEF TestConnected, runVars, connectVars, chanStopVars,
     countVars, opVars, stopVars, TypeOK, Waits, Nested, Connecting, RunSucc, ExecSucc
<1>22. ASSUME Publish PROVE Connecting'
  BY <1>22, Here, AtPc, PcOver DEF Publish, StillRuns, runVars, connectVars, chanStopVars,
     countVars, opVars, stopVars, TypeOK, Waits, Nested, Connecting, RunSucc, ExecSucc
<1>23. ASSUME ChannelRun PROVE Connecting'
  BY <1>23, Here, AtPc, PcOver DEF ChannelRun, runVars, connectVars, countVars, opVars,
     stopVars, TypeOK, Waits, Nested, Connecting, RunSucc, ExecSucc
<1>24. ASSUME HandlerEnds PROVE Connecting'
  BY <1>24, Here, AtPc, PcOver DEF HandlerEnds, runVars, connectVars, chanStopVars, countVars,
     opVars, stopVars, TypeOK, Waits, Nested, Connecting, RunSucc, ExecSucc
<1>25. ASSUME StopChannel PROVE Connecting'
  BY <1>25, Here, AtPc, PcOver DEF StopChannel, ChannelStop, runVars, connectVars, countVars,
     opVars, stopVars, TypeOK, Waits, Nested, Connecting, RunSucc, ExecSucc
<1>26. ASSUME JoinChannel PROVE Connecting'
  BY <1>26, Here, AtPc, PcOver DEF JoinChannel, runVars, connectVars, chanStopVars, countVars,
     opVars, stopVars, TypeOK, Waits, Nested, Connecting, RunSucc, ExecSucc
<1>27. ASSUME Unpublish PROVE Connecting'
  BY <1>27, Here, AtPc, PcOver DEF Unpublish, MutexHeld, runVars, connectVars, chanStopVars,
     countVars, opVars, stopVars, TypeOK, Waits, Nested, Connecting, RunSucc, ExecSucc
<1>28. ASSUME StopOwnRun PROVE Connecting'
  BY <1>28, Here, AtPc, PcOver DEF StopOwnRun, StopRun, connectVars, chanStopVars, countVars,
     opVars, TypeOK, Waits, Nested, Connecting, RunSucc, ExecSucc
<1>29. ASSUME ChannelBegin PROVE Connecting'
  BY <1>29, Here, AtPc, PcOver DEF ChannelBegin, runVars, connectVars, countVars, opVars,
     stopVars, TypeOK, Waits, Nested, Connecting, RunSucc, ExecSucc
<1>30. ASSUME Register PROVE Connecting'
  BY <1>30, Here, AtPc, PcOver DEF Register, Closed, runVars, connectVars, countVars, opVars,
     stopVars, TypeOK, Waits, Nested, Connecting, RunSucc, ExecSucc
<1>31. ASSUME ChannelStart PROVE Connecting'
  BY <1>31, Here, AtPc, PcOver DEF ChannelStart, runVars, connectVars, countVars, opVars,
     stopVars, TypeOK, Waits, Nested, Connecting, RunSucc, ExecSucc
<1>32. ASSUME ChannelAwait PROVE Connecting'
  BY <1>32, Here, AtPc, PcOver DEF ChannelAwait, runVars, connectVars, countVars, opVars,
     stopVars, TypeOK, Waits, Nested, Connecting, RunSucc, ExecSucc
<1>33. ASSUME ChannelEnd PROVE Connecting'
  BY <1>33, Here, AtPc, PcOver DEF ChannelEnd, runVars, connectVars, countVars, opVars,
     stopVars, TypeOK, Waits, Nested, Connecting, RunSucc, ExecSucc
<1>34. ASSUME ChannelClose PROVE Connecting'
  BY <1>34, Here, AtPc, PcOver DEF ChannelClose, Closed, runVars, connectVars, countVars,
     opVars, stopVars, TypeOK, Waits, Nested, Connecting, RunSucc, ExecSucc
<1>35. ASSUME EndOperations PROVE Connecting'
  BY <1>35, Here, AtPc, PcOver DEF EndOperations, runVars, connectVars, countVars, stopVars,
     TypeOK, Waits, Nested, Connecting, RunSucc, ExecSucc
<1>36. ASSUME JoinOperations PROVE Connecting'
  BY <1>36, Here, AtPc, PcOver DEF JoinOperations, MutexHeld, runVars, connectVars, opVars,
     stopVars, TypeOK, Waits, Nested, Connecting, RunSucc, ExecSucc
<1>37. ASSUME LinuxOnEpoll PROVE Connecting'
  BY <1>37, Here, AtPc, PcOver DEF LinuxOnEpoll, ChannelStop, runVars, connectVars, countVars,
     opVars, stopVars, TypeOK, Waits, Nested, Connecting, RunSucc, ExecSucc
<1>38. ASSUME LinuxUdpOnEpoll PROVE Connecting'
  BY <1>38, Here, AtPc, PcOver DEF LinuxUdpOnEpoll, ChannelStop, runVars, connectVars,
     countVars, opVars, stopVars, TypeOK, Waits, Nested, Connecting, RunSucc, ExecSucc
<1>39. ASSUME HandlerCalls PROVE Connecting'
  BY <1>39, Here, AtPc, PcOver DEF HandlerCalls, GotoOp, runVars, connectVars, chanStopVars,
     countVars, stopVars, TypeOK, Waits, Nested, Connecting, RunSucc, ExecSucc
<1>40. ASSUME OutsiderWrites PROVE Connecting'
  BY <1>40, Here, AtPc, PcOver DEF OutsiderWrites, GotoOp, MutexHeld, runVars, connectVars,
     chanStopVars, countVars, stopVars, TypeOK, Waits, Nested, Connecting, RunSucc, ExecSucc
<1>41. ASSUME NEW c \in Callers, CountUp(c) PROVE Connecting'
  BY <1>41, Here, AtPc, PcOver DEF CountUp, GotoOp, runVars, connectVars, chanStopVars,
     stopVars, TypeOK, Waits, Nested, Connecting, RunSucc, ExecSucc
<1>42. ASSUME NEW c \in Callers, TestStopFlag(c) PROVE Connecting'
  BY <1>42, Here, AtPc, PcOver DEF TestStopFlag, GotoOp, Told, runVars, connectVars,
     chanStopVars, countVars, stopVars, TypeOK, Waits, Nested, Connecting, RunSucc, ExecSucc
<1>43. ASSUME NEW c \in Callers, Operate(c) PROVE Connecting'
  BY <1>43, Here, AtPc, PcOver DEF Operate, GotoOp, runVars, connectVars, chanStopVars,
     countVars, stopVars, TypeOK, Waits, Nested, Connecting, RunSucc, ExecSucc
<1>44. ASSUME NEW c \in Callers, Answer(c) PROVE Connecting'
  BY <1>44, Here, AtPc, PcOver DEF Answer, GotoOp, runVars, connectVars, chanStopVars,
     countVars, stopVars, TypeOK, Waits, Nested, Connecting, RunSucc, ExecSucc
<1>45. ASSUME NEW c \in Callers, Finish(c) PROVE Connecting'
  BY <1>45, Here, AtPc, PcOver DEF Finish, ChannelStop, GotoOp, Told, runVars, connectVars,
     chanStopVars, countVars, stopVars, TypeOK, Waits, Nested, Connecting, RunSucc, ExecSucc
<1>46. ASSUME NEW c \in Callers, CountDown(c) PROVE Connecting'
  BY <1>46, Here, AtPc, PcOver DEF CountDown, GotoOp, Wakes, runVars, connectVars, stopVars,
     TypeOK, Waits, Nested, Connecting, RunSucc, ExecSucc
<1>47. ASSUME NEW c \in Callers, Block(c) PROVE Connecting'
  BY <1>47, Here, AtPc, PcOver DEF Block, GotoOp, runVars, connectVars, chanStopVars,
     countVars, stopVars, TypeOK, Waits, Nested, Connecting, RunSucc, ExecSucc
<1>48. ASSUME NEW c \in Callers, Unblock(c) PROVE Connecting'
  BY <1>48, Here, AtPc, PcOver DEF Unblock, GotoOp, runVars, connectVars, chanStopVars,
     countVars, stopVars, TypeOK, Waits, Nested, Connecting, RunSucc, ExecSucc
<1>49. CASE UNCHANGED vars
  BY <1>49 DEF vars, runVars, stopVars, connectVars, chanStopVars, countVars, opVars, TypeOK,
     Waits, Nested, Connecting
<1>50. QED
  BY <1>1, <1>2, <1>3, <1>4, <1>5, <1>6, <1>7, <1>8, <1>9, <1>10, <1>11, <1>12, <1>13, <1>14,
     <1>15, <1>16, <1>17, <1>18, <1>19, <1>20, <1>21, <1>22, <1>23, <1>24, <1>25, <1>26, <1>27,
     <1>28, <1>29, <1>30, <1>31, <1>32, <1>33, <1>34, <1>35, <1>36, <1>37, <1>38, <1>39, <1>40,
     <1>41, <1>42, <1>43, <1>44, <1>45, <1>46, <1>47, <1>48, <1>49 DEF Next, RunStep, ConnectStep,
     ExecuteStep, ChannelStep, Operation

\* An operation that is not idle has a method, which counts one or two.
LEMMA MethodCounts ==
    ASSUME NEW k \in AllKinds, NEW m \in DOMAIN MethodsOf(k)
    PROVE  MethodsOf(k)[m].counts \in {1, 2}
BY DEF MethodsOf, AllKinds, LinuxKinds, WindowsKinds, LinuxRead, LinuxWrite, LinuxUdpRead,
       LinuxUdpWrite, LinuxUdpReadFrom, LinuxUdpWriteTo, WindowsTcpRead, WindowsTcpWrite,
       WindowsUdpRead, WindowsUdpWrite, WindowsUdpReadFrom, WindowsUdpWriteTo,
       WindowsSerialRead, WindowsSerialWrite, Queued

\* The two callers, seen from either.
LEMMA Balance ==
    ASSUME TypeOK, Counted, NEW c \in Callers
    PROVE  \E d \in Callers :
              /\ Callers = {c, d} /\ c # d
              /\ count_ = Taken(c) + Taken(d)
              /\ Taken(c) \in 0..2 /\ Taken(d) \in 0..2
              /\ Taken(c) = 0 <=> opc[c] \in {"idle", "count"}
              /\ Taken(d) = 0 <=> opc[d] \in {"idle", "count"}
              /\ opc[c] \notin {"idle", "count"} => Taken(c) = Counts(c)
              /\ opc[c] # "idle" => Counts(c) \in {1, 2}
              /\ opc[d] # "idle" => Counts(d) \in {1, 2}
<1>1. kind \in AllKinds BY EndpointAssumption DEF TypeOK
<1>2. \A e \in Callers : opc[e] # "idle" => Counts(e) \in {1, 2}
  BY <1>1, MethodCounts DEF Counted, Counts
<1>3. \A e \in Callers : /\ Taken(e) \in 0..2 /\ (Taken(e) = 0 <=> opc[e] \in {"idle", "count"})
                         /\ opc[e] \notin {"idle", "count"} => Taken(e) = Counts(e)
  BY <1>2 DEF Taken
<1>4. "handler" \in Callers /\ "outsider" \in Callers BY DEF Callers
<1>5. Taken("handler") + Taken("outsider") = Taken("outsider") + Taken("handler")
  <2>1. Taken("handler") \in 0..2 BY <1>3, <1>4
  <2>2. Taken("outsider") \in 0..2 BY <1>3, <1>4
  <2>3. QED BY <2>1, <2>2
<1>6. \E d \in Callers : Callers = {c, d} /\ c # d /\ count_ = Taken(c) + Taken(d)
  <2>1. CASE c = "handler"
    <3>1. Callers = {c, "outsider"} /\ c # "outsider" BY <2>1 DEF Callers
    <3>2. count_ = Taken(c) + Taken("outsider") BY <2>1 DEF Counted
    <3>3. QED BY <1>4, <3>1, <3>2
  <2>2. CASE c = "outsider"
    <3>1. Callers = {c, "handler"} /\ c # "handler" BY <2>2 DEF Callers
    <3>2. count_ = Taken(c) + Taken("handler") BY <1>5, <2>2 DEF Counted
    <3>3. QED BY <1>4, <3>1, <3>2
  <2>3. QED BY <2>1, <2>2 DEF Callers
<1>7. PICK d \in Callers : Callers = {c, d} /\ c # d /\ count_ = Taken(c) + Taken(d) BY <1>6
<1>8. /\ Taken(c) \in 0..2 /\ (Taken(c) = 0 <=> opc[c] \in {"idle", "count"})
      /\ opc[c] \notin {"idle", "count"} => Taken(c) = Counts(c)
      /\ opc[c] # "idle" => Counts(c) \in {1, 2}
  BY <1>2, <1>3
<1>9. /\ Taken(d) \in 0..2 /\ (Taken(d) = 0 <=> opc[d] \in {"idle", "count"})
      /\ opc[d] # "idle" => Counts(d) \in {1, 2}
  BY <1>2, <1>3
<1>10. QED BY <1>7, <1>8, <1>9

\* A count of nothing says that there is no operation.
LEMMA EmptyCount ==
    ASSUME TypeOK, Counted, count_ = 0
    PROVE  \A c \in Callers : opc[c] \in {"idle", "count"}
BY Balance

\* One caller's operation moves, and the count goes with it.
LEMMA OperationMoved ==
    ASSUME TypeOK, Counted, kind' = kind, NEW c \in Callers, NEW l, NEW m,
           opc' = [opc EXCEPT ![c] = l], method' = [method EXCEPT ![c] = m],
           l # "idle" => m \in DOMAIN MethodsOf(kind),
           LET n == MethodsOf(kind)[m].counts IN
              count_' = count_ - Taken(c) + (IF l \in {"idle", "count"} THEN 0 ELSE n)
    PROVE  Counted'
<1>1. /\ method' = [e \in Callers |-> method'[e]] /\ method'[c] = m
      /\ \A e \in Callers : e # c => method'[e] = method[e]
  BY DEF Counted
<1>2. opc'[c] = l /\ \A e \in Callers : e # c => opc'[e] = opc[e] BY DEF TypeOK
<1>3. \A e \in Callers : opc'[e] # "idle" => method'[e] \in DOMAIN MethodsOf(kind)
  BY <1>1, <1>2 DEF Counted
<1>4. Taken(c)' = (IF l \in {"idle", "count"} THEN 0 ELSE MethodsOf(kind)[m].counts)
  BY <1>1, <1>2 DEF Taken, Counts
<1>5. \A e \in Callers : e # c => Taken(e)' = Taken(e) BY <1>1, <1>2 DEF Taken, Counts
<1>6. Taken(c)' \in 0..2
  <2>1. kind \in AllKinds BY EndpointAssumption DEF TypeOK
  <2>2. QED BY <1>4, <2>1, MethodCounts
<1>7. PICK d \in Callers : /\ Callers = {c, d} /\ c # d
                           /\ count_ = Taken(c) + Taken(d)
                           /\ Taken(c) \in 0..2 /\ Taken(d) \in 0..2
  BY Balance
<1>8. count_' = Taken(c)' + Taken(d)'
  <2>1. Taken(d)' = Taken(d) BY <1>5, <1>7
  <2>2. count_' = count_ - Taken(c) + Taken(c)' BY <1>4
  <2>3. QED BY <1>6, <1>7, <2>1, <2>2
<1>9. Taken(c)' + Taken(d)' = Taken("handler")' + Taken("outsider")'
  <2>1. CASE c = "handler" BY <1>7, <2>1 DEF Callers
  <2>2. CASE c = "outsider"
    <3>1. d = "handler" BY <1>7, <2>2 DEF Callers
    <3>2. Taken(d)' \in 0..2 BY <1>5, <1>7
    <3>3. QED BY <1>6, <2>2, <3>1, <3>2
  <2>3. QED BY <2>1, <2>2 DEF Callers
<1>10. QED BY <1>1, <1>3, <1>8, <1>9 DEF Counted

\* The operation moves with its method and its count as they are.
LEMMA OperationGoesOn ==
    ASSUME TypeOK, Counted, kind' = kind, NEW c \in Callers, NEW l, opc' = [opc EXCEPT ![c] = l],
           method' = method, count_' = count_,
           opc[c] \notin {"idle", "count"}, l \notin {"idle", "count"}
    PROVE  Counted'
<1>1. method' = [method EXCEPT ![c] = method[c]] BY DEF Counted
<1>2. method[c] \in DOMAIN MethodsOf(kind) BY DEF Counted
<1>3. Taken(c) = MethodsOf(kind)[method[c]].counts BY DEF Taken, Counts
<1>4. count_ \in Nat /\ Taken(c) \in Nat BY Balance DEF TypeOK
<1>5. count_' = count_ - Taken(c) + MethodsOf(kind)[method[c]].counts BY <1>3, <1>4
<1>6. QED BY <1>1, <1>2, <1>5, OperationMoved

\* The count is right at every step of every operation.
LEMMA CountedKept ==
    ASSUME TypeOK, Counted, [Next]_vars
    PROVE  Counted'
<1>1. ASSUME RunBegin PROVE Counted'
  BY <1>1 DEF RunBegin, stopVars, connectVars, chanStopVars, countVars, opVars, Counted, Taken,
     Counts
<1>2. ASSUME WaitStart PROVE Counted'
  BY <1>2 DEF WaitStart, connectVars, chanStopVars, countVars, opVars, Counted, Taken, Counts
<1>3. ASSUME Open PROVE Counted'
  BY <1>3 DEF Open, stopVars, connectVars, chanStopVars, countVars, opVars, Counted, Taken,
     Counts
<1>4. ASSUME Launch PROVE Counted'
  BY <1>4 DEF Launch, stopVars, connectVars, chanStopVars, countVars, opVars, Counted, Taken,
     Counts
<1>5. ASSUME AwaitStop PROVE Counted'
  BY <1>5 DEF AwaitStop, connectVars, chanStopVars, countVars, opVars, Counted, Taken, Counts
<1>6. ASSUME ClearRunFlag PROVE Counted'
  BY <1>6 DEF ClearRunFlag, stopVars, connectVars, chanStopVars, countVars, opVars, Counted,
     Taken, Counts
<1>7. ASSUME StopFound PROVE Counted'
  BY <1>7 DEF StopFound, ChannelStop, stopVars, connectVars, chanStopVars, countVars, opVars,
     Counted, Taken, Counts
<1>8. ASSUME Unlock PROVE Counted'
  BY <1>8 DEF Unlock, MutexHeld, stopVars, connectVars, chanStopVars, countVars, opVars,
     Counted, Taken, Counts
<1>9. ASSUME CloseDescriptor PROVE Counted'
  BY <1>9 DEF CloseDescriptor, Closed, stopVars, connectVars, chanStopVars, countVars, opVars,
     Counted, Taken, Counts
<1>10. ASSUME JoinExecute PROVE Counted'
  BY <1>10 DEF JoinExecute, stopVars, connectVars, chanStopVars, countVars, opVars, Counted,
     Taken, Counts
<1>11. ASSUME Stop PROVE Counted'
  BY <1>11 DEF Stop, StopRun, connectVars, chanStopVars, countVars, opVars, Counted, Taken,
     Counts
<1>12. ASSUME Connect PROVE Counted'
  BY <1>12 DEF Connect, runVars, chanStopVars, countVars, opVars, stopVars, Counted, Taken,
     Counts
<1>13. ASSUME ConnectStartTask PROVE Counted'
  BY <1>13 DEF ConnectStartTask, runVars, chanStopVars, countVars, opVars, stopVars, Counted,
     Taken, Counts
<1>14. ASSUME OnConnect PROVE Counted'
  BY <1>14 DEF OnConnect, runVars, chanStopVars, countVars, opVars, stopVars, Counted, Taken,
     Counts
<1>15. ASSUME OnConnectAnswer PROVE Counted'
  BY <1>15 DEF OnConnectAnswer, ResumeExecute, runVars, chanStopVars, countVars, opVars,
     stopVars, Counted, Taken, Counts
<1>16. ASSUME OnConnectTimeout PROVE Counted'
  BY <1>16 DEF OnConnectTimeout, TimeoutIsFirst, runVars, chanStopVars, countVars, opVars,
     stopVars, Counted, Taken, Counts
<1>17. ASSUME OnConnectTimeoutAnswer PROVE Counted'
  BY <1>17 DEF OnConnectTimeoutAnswer, ResumeExecute, runVars, chanStopVars, countVars, opVars,
     stopVars, Counted, Taken, Counts
<1>18. ASSUME ConnectEx PROVE Counted'
  BY <1>18 DEF ConnectEx, runVars, chanStopVars, countVars, opVars, stopVars, Counted, Taken,
     Counts
<1>19. ASSUME ConnectExAnswer PROVE Counted'
  BY <1>19 DEF ConnectExAnswer, ResumeExecute, runVars, chanStopVars, countVars, opVars,
     stopVars, Counted, Taken, Counts
<1>20. ASSUME TestRunFlag PROVE Counted'
  BY <1>20 DEF TestRunFlag, runVars, connectVars, chanStopVars, countVars, opVars, stopVars,
     Counted, Taken, Counts
<1>21. ASSUME TestConnected PROVE Counted'
  BY <1>21 DEF TestConnected, runVars, connectVars, chanStopVars, countVars, opVars, stopVars,
     Counted, Taken, Counts
<1>22. ASSUME Publish PROVE Counted'
  BY <1>22 DEF Publish, StillRuns, runVars, connectVars, chanStopVars, countVars, opVars,
     stopVars, Counted, Taken, Counts
<1>23. ASSUME ChannelRun PROVE Counted'
  BY <1>23 DEF ChannelRun, runVars, connectVars, countVars, opVars, stopVars, Counted, Taken,
     Counts
<1>24. ASSUME HandlerEnds PROVE Counted'
  BY <1>24 DEF HandlerEnds, runVars, connectVars, chanStopVars, countVars, opVars, stopVars,
     Counted, Taken, Counts
<1>25. ASSUME StopChannel PROVE Counted'
  BY <1>25 DEF StopChannel, ChannelStop, runVars, connectVars, countVars, opVars, stopVars,
     Counted, Taken, Counts
<1>26. ASSUME JoinChannel PROVE Counted'
  BY <1>26 DEF JoinChannel, runVars, connectVars, chanStopVars, countVars, opVars, stopVars,
     Counted, Taken, Counts
<1>27. ASSUME Unpublish PROVE Counted'
  BY <1>27 DEF Unpublish, MutexHeld, runVars, connectVars, chanStopVars, countVars, opVars,
     stopVars, Counted, Taken, Counts
<1>28. ASSUME StopOwnRun PROVE Counted'
  BY <1>28 DEF StopOwnRun, StopRun, connectVars, chanStopVars, countVars, opVars, Counted,
     Taken, Counts
<1>29. ASSUME ChannelBegin PROVE Counted'
  BY <1>29 DEF ChannelBegin, runVars, connectVars, countVars, opVars, stopVars, Counted, Taken,
     Counts
<1>30. ASSUME Register PROVE Counted'
  BY <1>30 DEF Register, Closed, runVars, connectVars, countVars, opVars, stopVars, Counted,
     Taken, Counts
<1>31. ASSUME ChannelStart PROVE Counted'
  BY <1>31 DEF ChannelStart, runVars, connectVars, countVars, opVars, stopVars, Counted, Taken,
     Counts
<1>32. ASSUME ChannelAwait PROVE Counted'
  BY <1>32 DEF ChannelAwait, runVars, connectVars, countVars, opVars, stopVars, Counted, Taken,
     Counts
<1>33. ASSUME ChannelEnd PROVE Counted'
  BY <1>33 DEF ChannelEnd, runVars, connectVars, countVars, opVars, stopVars, Counted, Taken,
     Counts
<1>34. ASSUME ChannelClose PROVE Counted'
  BY <1>34 DEF ChannelClose, Closed, runVars, connectVars, countVars, opVars, stopVars,
     Counted, Taken, Counts
<1>35. ASSUME EndOperations PROVE Counted'
  <2>1. /\ kind' = kind /\ method' = method /\ count_' = count_
        /\ opc' = [c \in Callers |-> IF opc[c] = "pending" THEN "answered" ELSE opc[c]]
    BY <1>35 DEF EndOperations, runVars, connectVars, countVars, stopVars
  <2>2. \A c \in Callers : /\ opc'[c] = "idle" <=> opc[c] = "idle"
                           /\ opc'[c] = "count" <=> opc[c] = "count"
    BY <2>1
  <2>3. \A c \in Callers : Taken(c)' = Taken(c) BY <2>1, <2>2 DEF Taken, Counts
  <2>4. "handler" \in Callers /\ "outsider" \in Callers BY DEF Callers
  <2>5. QED BY <2>1, <2>2, <2>3, <2>4 DEF Counted
<1>36. ASSUME JoinOperations PROVE Counted'
  BY <1>36 DEF JoinOperations, MutexHeld, runVars, connectVars, opVars, stopVars, Counted,
     Taken, Counts
<1>37. ASSUME LinuxOnEpoll PROVE Counted'
  BY <1>37 DEF LinuxOnEpoll, ChannelStop, runVars, connectVars, countVars, opVars, stopVars,
     Counted, Taken, Counts
<1>38. ASSUME LinuxUdpOnEpoll PROVE Counted'
  BY <1>38 DEF LinuxUdpOnEpoll, ChannelStop, runVars, connectVars, countVars, opVars, stopVars,
     Counted, Taken, Counts
<1>39. ASSUME HandlerCalls PROVE Counted'
  <2>1. PICK m \in DOMAIN MethodsOf(kind) : method' = [method EXCEPT !["handler"] = m]
    BY <1>39 DEF HandlerCalls
  <2>2. /\ kind' = kind /\ count_' = count_ /\ opc["handler"] = "idle" /\ "handler" \in Callers
        /\ opc' = [opc EXCEPT !["handler"] = "count"]
    BY <1>39 DEF HandlerCalls, GotoOp, runVars, connectVars, chanStopVars, countVars, stopVars, Callers
  <2>3. Taken("handler") = 0 /\ count_ \in Nat BY <2>2 DEF Taken, TypeOK
  <2>4. count_' = count_ - Taken("handler") + 0 BY <2>2, <2>3
  <2>5. QED BY <2>1, <2>2, <2>4, OperationMoved
<1>40. ASSUME OutsiderWrites PROVE Counted'
  <2>1. PICK m \in DOMAIN MethodsOf(kind) : method' = [method EXCEPT !["outsider"] = m]
    BY <1>40 DEF OutsiderWrites
  <2>2. /\ kind' = kind /\ count_' = count_ /\ opc["outsider"] = "idle" /\ "outsider" \in Callers
        /\ opc' = [opc EXCEPT !["outsider"] = "count"]
    BY <1>40 DEF OutsiderWrites, GotoOp, MutexHeld, runVars, connectVars, chanStopVars, countVars, stopVars, Callers
  <2>3. Taken("outsider") = 0 /\ count_ \in Nat BY <2>2 DEF Taken, TypeOK
  <2>4. count_' = count_ - Taken("outsider") + 0 BY <2>2, <2>3
  <2>5. QED BY <2>1, <2>2, <2>4, OperationMoved
<1>41. ASSUME NEW c \in Callers, CountUp(c) PROVE Counted'
  <2>1. /\ kind' = kind /\ method' = method /\ opc[c] = "count" /\ count_' = count_ + Counts(c)
        /\ opc' = [opc EXCEPT ![c] = "test"]
    BY <1>41 DEF CountUp, GotoOp, runVars, connectVars, chanStopVars, stopVars
  <2>2. method' = [method EXCEPT ![c] = method[c]] /\ method[c] \in DOMAIN MethodsOf(kind)
    BY <2>1 DEF Counted
  <2>3. Taken(c) = 0 /\ count_ \in Nat /\ Counts(c) \in {1, 2} BY <2>1, Balance DEF Taken, TypeOK
  <2>4. count_' = count_ - Taken(c) + MethodsOf(kind)[method[c]].counts BY <2>1, <2>3 DEF Counts
  <2>5. QED BY <2>1, <2>2, <2>4, OperationMoved
<1>42. ASSUME NEW c \in Callers, TestStopFlag(c) PROVE Counted'
  BY <1>42, OperationGoesOn DEF TestStopFlag, GotoOp, Told, runVars, connectVars, chanStopVars, countVars, stopVars
<1>43. ASSUME NEW c \in Callers, Operate(c) PROVE Counted'
  BY <1>43, OperationGoesOn DEF Operate, GotoOp, runVars, connectVars, chanStopVars, countVars, stopVars
<1>44. ASSUME NEW c \in Callers, Answer(c) PROVE Counted'
  <2>1. /\ kind' = kind /\ method' = method /\ count_' = count_ /\ opc[c] = "pending"
        /\ opc' = [opc EXCEPT ![c] = "answered"]
    BY <1>44 DEF Answer, GotoOp, runVars, connectVars, chanStopVars, countVars, stopVars
  <2>2. QED BY <2>1, OperationGoesOn
<1>45. ASSUME NEW c \in Callers, Finish(c) PROVE Counted'
  BY <1>45, OperationGoesOn DEF Finish, ChannelStop, GotoOp, Told, runVars, connectVars, chanStopVars, countVars, stopVars
<1>46. ASSUME NEW c \in Callers, CountDown(c) PROVE Counted'
  <2>1. /\ kind' = kind /\ opc[c] = "down" /\ count_' = count_ - Counts(c)
        /\ opc' = [opc EXCEPT ![c] = "idle"] /\ method' = [method EXCEPT ![c] = "none"]
    BY <1>46 DEF CountDown, GotoOp, Wakes, runVars, connectVars, stopVars
  <2>2. Taken(c) = Counts(c) BY <2>1 DEF Taken
  <2>3. count_ \in Nat /\ Taken(c) \in Nat BY Balance DEF TypeOK
  <2>4. count_' = count_ - Taken(c) + 0 BY <2>1, <2>2, <2>3
  <2>5. QED BY <2>1, <2>4, OperationMoved
<1>47. ASSUME NEW c \in Callers, Block(c) PROVE Counted'
  <2>1. /\ kind' = kind /\ method' = method /\ count_' = count_ /\ opc[c] = "pending"
        /\ opc' = [opc EXCEPT ![c] = "blocked"]
    BY <1>47 DEF Block, GotoOp, runVars, connectVars, chanStopVars, countVars, stopVars
  <2>2. QED BY <2>1, OperationGoesOn
<1>48. ASSUME NEW c \in Callers, Unblock(c) PROVE Counted'
  <2>1. /\ kind' = kind /\ method' = method /\ count_' = count_ /\ opc[c] = "blocked"
        /\ opc' = [opc EXCEPT ![c] = "answered"]
    BY <1>48 DEF Unblock, GotoOp, runVars, connectVars, chanStopVars, countVars, stopVars
  <2>2. QED BY <2>1, OperationGoesOn
<1>49. CASE UNCHANGED vars
  BY <1>49 DEF vars, runVars, stopVars, connectVars, chanStopVars, countVars, opVars, Counted,
     Taken, Counts
<1>50. QED
  BY <1>1, <1>2, <1>3, <1>4, <1>5, <1>6, <1>7, <1>8, <1>9, <1>10, <1>11, <1>12, <1>13, <1>14,
     <1>15, <1>16, <1>17, <1>18, <1>19, <1>20, <1>21, <1>22, <1>23, <1>24, <1>25, <1>26, <1>27,
     <1>28, <1>29, <1>30, <1>31, <1>32, <1>33, <1>34, <1>35, <1>36, <1>37, <1>38, <1>39, <1>40,
     <1>41, <1>42, <1>43, <1>44, <1>45, <1>46, <1>47, <1>48, <1>49 DEF Next, RunStep, ConnectStep,
     ExecuteStep, ChannelStep, Operation

\* The types, those of the flags apart.
Flags ==
    /\ run_flag_ \in BOOLEAN /\ stop_run \in BOOLEAN /\ stop_wait \in BOOLEAN
    /\ epolled \in BOOLEAN
    /\ timeout_flag_ \in BOOLEAN /\ callback_flag_ \in BOOLEAN /\ connected \in BOOLEAN
    /\ dead_call \in BOOLEAN
    /\ stop_flag_ \in BOOLEAN /\ chan_run \in BOOLEAN /\ chan_wait \in BOOLEAN /\ told \in BOOLEAN
    /\ count_wait \in BOOLEAN
    /\ satisfied \in BOOLEAN

Places ==
    /\ kind \in Kinds
    /\ channel_ \in {"empty", "channel"}
    /\ fd \in {"none", "open", "bad", "leaked", "closed"}
    /\ suspending \in {"no", "start", "done"}
    /\ timeout_task \in {"none", "started", "stopped", "answer", "over"}
    /\ on_connect \in {"idle", "answer"}
    /\ resumes \in Nat
    /\ count_ \in Nat
    /\ opc \in [Callers -> {"idle", "count", "test", "down"} \cup Pending]

\* TypeOK in two halves: the flags and the rest.
LEMMA TypeParts == TypeOK <=> Flags /\ Places
BY DEF TypeOK, Flags, Places

\* Every step keeps the types of the flags.
LEMMA FlagsKept ==
    ASSUME Flags, [Next]_vars
    PROVE  Flags'
<1>1. ASSUME RunBegin PROVE Flags'
  BY <1>1 DEF RunBegin, stopVars, connectVars, chanStopVars, countVars, opVars, Flags
<1>2. ASSUME WaitStart PROVE Flags'
  BY <1>2 DEF WaitStart, connectVars, chanStopVars, countVars, opVars, Flags
<1>3. ASSUME Open PROVE Flags'
  <2>1. /\ stop_run' = stop_run /\ stop_wait' = stop_wait /\ epolled' = epolled
        /\ timeout_flag_' = timeout_flag_ /\ callback_flag_' = callback_flag_ /\ connected' = connected
        /\ dead_call' = dead_call /\ stop_flag_' = stop_flag_ /\ chan_run' = chan_run
        /\ chan_wait' = chan_wait /\ told' = told /\ count_wait' = count_wait
        /\ satisfied' = satisfied
    BY <1>3 DEF Open, stopVars, connectVars, chanStopVars, countVars, opVars
  <2>2. run_flag_' \in BOOLEAN
    <3>1. run_flag_' = FALSE \/ run_flag_' = run_flag_ BY <1>3 DEF Open, stopVars, connectVars, chanStopVars, countVars, opVars
    <3>2. CASE run_flag_' = FALSE BY <3>2
    <3>3. CASE run_flag_' = run_flag_ BY <3>3 DEF Flags
    <3>4. QED BY <3>1, <3>2, <3>3
  <2>3. QED BY <2>1, <2>2 DEF Flags
<1>4. ASSUME Launch PROVE Flags'
  BY <1>4 DEF Launch, stopVars, connectVars, chanStopVars, countVars, opVars, Flags
<1>5. ASSUME AwaitStop PROVE Flags'
  BY <1>5 DEF AwaitStop, connectVars, chanStopVars, countVars, opVars, Flags
<1>6. ASSUME ClearRunFlag PROVE Flags'
  BY <1>6 DEF ClearRunFlag, stopVars, connectVars, chanStopVars, countVars, opVars, Flags
<1>7. ASSUME StopFound PROVE Flags'
  <2>1. /\ run_flag_' = run_flag_ /\ stop_run' = stop_run /\ stop_wait' = stop_wait
        /\ epolled' = epolled /\ timeout_flag_' = timeout_flag_ /\ callback_flag_' = callback_flag_
        /\ connected' = connected /\ dead_call' = dead_call /\ stop_flag_' = stop_flag_
        /\ count_wait' = count_wait /\ satisfied' = satisfied
    BY <1>7 DEF StopFound, ChannelStop, stopVars, connectVars, chanStopVars, countVars, opVars
  <2>2. chan_run' \in BOOLEAN
    <3>1. chan_run' = FALSE \/ chan_run' = chan_run BY <1>7 DEF StopFound, ChannelStop, stopVars, connectVars, chanStopVars, countVars, opVars
    <3>2. CASE chan_run' = FALSE BY <3>2
    <3>3. CASE chan_run' = chan_run BY <3>3 DEF Flags
    <3>4. QED BY <3>1, <3>2, <3>3
  <2>3. chan_wait' \in BOOLEAN
    <3>1. chan_wait' = FALSE \/ chan_wait' = chan_wait BY <1>7 DEF StopFound, ChannelStop, stopVars, connectVars, chanStopVars, countVars, opVars
    <3>2. CASE chan_wait' = FALSE BY <3>2
    <3>3. CASE chan_wait' = chan_wait BY <3>3 DEF Flags
    <3>4. QED BY <3>1, <3>2, <3>3
  <2>4. told' \in BOOLEAN
    <3>1. told' = TRUE \/ told' = told BY <1>7 DEF StopFound, ChannelStop, stopVars, connectVars, chanStopVars, countVars, opVars
    <3>2. CASE told' = TRUE BY <3>2
    <3>3. CASE told' = told BY <3>3 DEF Flags
    <3>4. QED BY <3>1, <3>2, <3>3
  <2>5. QED BY <2>1, <2>2, <2>3, <2>4 DEF Flags
<1>8. ASSUME Unlock PROVE Flags'
  BY <1>8 DEF Unlock, MutexHeld, stopVars, connectVars, chanStopVars, countVars, opVars, Flags
<1>9. ASSUME CloseDescriptor PROVE Flags'
  BY <1>9 DEF CloseDescriptor, Closed, stopVars, connectVars, chanStopVars, countVars, opVars,
     Flags
<1>10. ASSUME JoinExecute PROVE Flags'
  BY <1>10 DEF JoinExecute, stopVars, connectVars, chanStopVars, countVars, opVars, Flags
<1>11. ASSUME Stop PROVE Flags'
  BY <1>11 DEF Stop, StopRun, connectVars, chanStopVars, countVars, opVars, Flags
<1>12. ASSUME Connect PROVE Flags'
  <2>1. /\ run_flag_' = run_flag_ /\ stop_run' = stop_run /\ stop_wait' = stop_wait
        /\ timeout_flag_' = timeout_flag_ /\ callback_flag_' = callback_flag_ /\ connected' = connected
        /\ dead_call' = dead_call /\ stop_flag_' = stop_flag_ /\ chan_run' = chan_run
        /\ chan_wait' = chan_wait /\ told' = told /\ count_wait' = count_wait
        /\ satisfied' = satisfied
    BY <1>12 DEF Connect, runVars, chanStopVars, countVars, opVars, stopVars
  <2>2. epolled' \in BOOLEAN
    <3>1. epolled' = TRUE \/ epolled' = epolled BY <1>12 DEF Connect, runVars, chanStopVars, countVars, opVars, stopVars
    <3>2. CASE epolled' = TRUE BY <3>2
    <3>3. CASE epolled' = epolled BY <3>3 DEF Flags
    <3>4. QED BY <3>1, <3>2, <3>3
  <2>3. QED BY <2>1, <2>2 DEF Flags
<1>13. ASSUME ConnectStartTask PROVE Flags'
  BY <1>13 DEF ConnectStartTask, runVars, chanStopVars, countVars, opVars, stopVars, Flags
<1>14. ASSUME OnConnect PROVE Flags'
  BY <1>14 DEF OnConnect, runVars, chanStopVars, countVars, opVars, stopVars, Flags
<1>15. ASSUME OnConnectAnswer PROVE Flags'
  BY <1>15 DEF OnConnectAnswer, ResumeExecute, runVars, chanStopVars, countVars, opVars,
     stopVars, Flags
<1>16. ASSUME OnConnectTimeout PROVE Flags'
  <2>1. /\ run_flag_' = run_flag_ /\ stop_run' = stop_run /\ stop_wait' = stop_wait
        /\ epolled' = epolled /\ callback_flag_' = callback_flag_ /\ connected' = connected
        /\ dead_call' = dead_call /\ stop_flag_' = stop_flag_ /\ chan_run' = chan_run
        /\ chan_wait' = chan_wait /\ told' = told /\ count_wait' = count_wait
        /\ satisfied' = satisfied
    BY <1>16 DEF OnConnectTimeout, TimeoutIsFirst, runVars, chanStopVars, countVars, opVars, stopVars
  <2>2. timeout_flag_' \in BOOLEAN
    <3>1. timeout_flag_' = TRUE \/ timeout_flag_' = timeout_flag_ BY <1>16 DEF OnConnectTimeout, TimeoutIsFirst, runVars, chanStopVars, countVars, opVars, stopVars
    <3>2. CASE timeout_flag_' = TRUE BY <3>2
    <3>3. CASE timeout_flag_' = timeout_flag_ BY <3>3 DEF Flags
    <3>4. QED BY <3>1, <3>2, <3>3
  <2>3. QED BY <2>1, <2>2 DEF Flags
<1>17. ASSUME OnConnectTimeoutAnswer PROVE Flags'
  BY <1>17 DEF OnConnectTimeoutAnswer, ResumeExecute, runVars, chanStopVars, countVars, opVars,
     stopVars, Flags
<1>18. ASSUME ConnectEx PROVE Flags'
  BY <1>18 DEF ConnectEx, runVars, chanStopVars, countVars, opVars, stopVars, Flags
<1>19. ASSUME ConnectExAnswer PROVE Flags'
  <2>1. connected' \in IF fd = "open" THEN BOOLEAN ELSE {FALSE} BY <1>19 DEF ConnectExAnswer
  <2>2. connected' \in BOOLEAN BY <2>1
  <2>3. QED
    BY <1>19, <2>2 DEF ConnectExAnswer, ResumeExecute, runVars, chanStopVars, countVars, opVars,
       stopVars, Flags
<1>20. ASSUME TestRunFlag PROVE Flags'
  BY <1>20 DEF TestRunFlag, runVars, connectVars, chanStopVars, countVars, opVars, stopVars,
     Flags
<1>21. ASSUME TestConnected PROVE Flags'
  BY <1>21 DEF TestConnected, runVars, connectVars, chanStopVars, countVars, opVars, stopVars,
     Flags
<1>22. ASSUME Publish PROVE Flags'
  BY <1>22 DEF Publish, StillRuns, runVars, connectVars, chanStopVars, countVars, opVars,
     stopVars, Flags
<1>23. ASSUME ChannelRun PROVE Flags'
  BY <1>23 DEF ChannelRun, runVars, connectVars, countVars, opVars, stopVars, Flags
<1>24. ASSUME HandlerEnds PROVE Flags'
  BY <1>24 DEF HandlerEnds, runVars, connectVars, chanStopVars, countVars, opVars, stopVars,
     Flags
<1>25. ASSUME StopChannel PROVE Flags'
  BY <1>25 DEF StopChannel, ChannelStop, runVars, connectVars, countVars, opVars, stopVars,
     Flags
<1>26. ASSUME JoinChannel PROVE Flags'
  BY <1>26 DEF JoinChannel, runVars, connectVars, chanStopVars, countVars, opVars, stopVars,
     Flags
<1>27. ASSUME Unpublish PROVE Flags'
  BY <1>27 DEF Unpublish, MutexHeld, runVars, connectVars, chanStopVars, countVars, opVars,
     stopVars, Flags
<1>28. ASSUME StopOwnRun PROVE Flags'
  BY <1>28 DEF StopOwnRun, StopRun, connectVars, chanStopVars, countVars, opVars, Flags
<1>29. ASSUME ChannelBegin PROVE Flags'
  BY <1>29 DEF ChannelBegin, runVars, connectVars, countVars, opVars, stopVars, Flags
<1>30. ASSUME Register PROVE Flags'
  <2>1. /\ run_flag_' = run_flag_ /\ stop_run' = stop_run /\ stop_wait' = stop_wait
        /\ epolled' = epolled /\ timeout_flag_' = timeout_flag_ /\ callback_flag_' = callback_flag_
        /\ connected' = connected /\ dead_call' = dead_call /\ chan_run' = chan_run
        /\ chan_wait' = chan_wait /\ told' = told /\ count_wait' = count_wait
        /\ satisfied' = satisfied
    BY <1>30 DEF Register, Closed, runVars, connectVars, countVars, opVars, stopVars
  <2>2. stop_flag_' \in BOOLEAN BY <1>30 DEF Register, Closed, runVars, connectVars, countVars, opVars, stopVars, Flags
  <2>3. QED BY <2>1, <2>2 DEF Flags
<1>31. ASSUME ChannelStart PROVE Flags'
  BY <1>31 DEF ChannelStart, runVars, connectVars, countVars, opVars, stopVars, Flags
<1>32. ASSUME ChannelAwait PROVE Flags'
  BY <1>32 DEF ChannelAwait, runVars, connectVars, countVars, opVars, stopVars, Flags
<1>33. ASSUME ChannelEnd PROVE Flags'
  BY <1>33 DEF ChannelEnd, runVars, connectVars, countVars, opVars, stopVars, Flags
<1>34. ASSUME ChannelClose PROVE Flags'
  BY <1>34 DEF ChannelClose, Closed, runVars, connectVars, countVars, opVars, stopVars, Flags
<1>35. ASSUME EndOperations PROVE Flags'
  BY <1>35 DEF EndOperations, runVars, connectVars, countVars, stopVars, Flags
<1>36. ASSUME JoinOperations PROVE Flags'
  <2>1. /\ run_flag_' = run_flag_ /\ stop_run' = stop_run /\ stop_wait' = stop_wait
        /\ epolled' = epolled /\ timeout_flag_' = timeout_flag_ /\ callback_flag_' = callback_flag_
        /\ connected' = connected /\ dead_call' = dead_call /\ stop_flag_' = stop_flag_
        /\ chan_run' = chan_run /\ chan_wait' = chan_wait /\ told' = told
        /\ satisfied' = satisfied
    BY <1>36 DEF JoinOperations, MutexHeld, runVars, connectVars, opVars, stopVars
  <2>2. count_wait' \in BOOLEAN
    <3>1. count_wait' = TRUE \/ count_wait' = count_wait BY <1>36 DEF JoinOperations, MutexHeld, runVars, connectVars, opVars, stopVars
    <3>2. CASE count_wait' = TRUE BY <3>2
    <3>3. CASE count_wait' = count_wait BY <3>3 DEF Flags
    <3>4. QED BY <3>1, <3>2, <3>3
  <2>3. QED BY <2>1, <2>2 DEF Flags
<1>37. ASSUME LinuxOnEpoll PROVE Flags'
  BY <1>37 DEF LinuxOnEpoll, ChannelStop, runVars, connectVars, countVars, opVars, stopVars,
     Flags
<1>38. ASSUME LinuxUdpOnEpoll PROVE Flags'
  BY <1>38 DEF LinuxUdpOnEpoll, ChannelStop, runVars, connectVars, countVars, opVars, stopVars,
     Flags
<1>39. ASSUME HandlerCalls PROVE Flags'
  BY <1>39 DEF HandlerCalls, GotoOp, runVars, connectVars, chanStopVars, countVars, stopVars,
     Flags
<1>40. ASSUME OutsiderWrites PROVE Flags'
  BY <1>40 DEF OutsiderWrites, GotoOp, MutexHeld, runVars, connectVars, chanStopVars,
     countVars, stopVars, Flags
<1>41. ASSUME NEW c \in Callers, CountUp(c) PROVE Flags'
  BY <1>41 DEF CountUp, GotoOp, runVars, connectVars, chanStopVars, stopVars, Flags
<1>42. ASSUME NEW c \in Callers, TestStopFlag(c) PROVE Flags'
  <2>1. /\ run_flag_' = run_flag_ /\ stop_run' = stop_run /\ stop_wait' = stop_wait
        /\ epolled' = epolled /\ timeout_flag_' = timeout_flag_ /\ callback_flag_' = callback_flag_
        /\ connected' = connected /\ dead_call' = dead_call /\ stop_flag_' = stop_flag_
        /\ chan_run' = chan_run /\ chan_wait' = chan_wait /\ told' = told
        /\ count_wait' = count_wait
    BY <1>42 DEF TestStopFlag, GotoOp, Told, runVars, connectVars, chanStopVars, countVars, stopVars
  <2>2. satisfied' \in BOOLEAN
    <3>1. \A x : Told(c, x) => satisfied' \in BOOLEAN
      <4>1. ASSUME NEW x, Told(c, x), c = "handler" PROVE satisfied' \in BOOLEAN
        <5>1. satisfied' = (x \in {"success", "timeout"}) BY <4>1 DEF Told
        <5>2. CASE x \in {"success", "timeout"} BY <5>1, <5>2
        <5>3. CASE x \notin {"success", "timeout"} BY <5>1, <5>3
        <5>4. QED BY <5>2, <5>3
      <4>2. CASE c # "handler" BY <4>2 DEF Told, Flags
      <4>3. QED BY <4>1, <4>2
    <3>2. CASE stop_flag_ BY <1>42, <3>1, <3>2 DEF TestStopFlag
    <3>3. CASE ~stop_flag_ BY <1>42, <3>3 DEF TestStopFlag, Flags
    <3>4. QED BY <3>2, <3>3
  <2>3. QED BY <2>1, <2>2 DEF Flags
<1>43. ASSUME NEW c \in Callers, Operate(c) PROVE Flags'
  BY <1>43 DEF Operate, GotoOp, runVars, connectVars, chanStopVars, countVars, stopVars, Flags
<1>44. ASSUME NEW c \in Callers, Answer(c) PROVE Flags'
  BY <1>44 DEF Answer, GotoOp, runVars, connectVars, chanStopVars, countVars, stopVars, Flags
<1>45. ASSUME NEW c \in Callers, Finish(c) PROVE Flags'
  <2>1. /\ run_flag_' = run_flag_ /\ stop_run' = stop_run /\ stop_wait' = stop_wait
        /\ epolled' = epolled /\ timeout_flag_' = timeout_flag_ /\ callback_flag_' = callback_flag_
        /\ connected' = connected /\ dead_call' = dead_call /\ stop_flag_' = stop_flag_
        /\ count_wait' = count_wait
    BY <1>45 DEF Finish, ChannelStop, GotoOp, Told, runVars, connectVars, chanStopVars, countVars, stopVars
  <2>2. chan_run' \in BOOLEAN
    <3>1. chan_run' = FALSE \/ chan_run' = chan_run BY <1>45 DEF Finish, ChannelStop, GotoOp, Told, runVars, connectVars, chanStopVars, countVars, stopVars
    <3>2. CASE chan_run' = FALSE BY <3>2
    <3>3. CASE chan_run' = chan_run BY <3>3 DEF Flags
    <3>4. QED BY <3>1, <3>2, <3>3
  <2>3. chan_wait' \in BOOLEAN
    <3>1. chan_wait' = FALSE \/ chan_wait' = chan_wait BY <1>45 DEF Finish, ChannelStop, GotoOp, Told, runVars, connectVars, chanStopVars, countVars, stopVars
    <3>2. CASE chan_wait' = FALSE BY <3>2
    <3>3. CASE chan_wait' = chan_wait BY <3>3 DEF Flags
    <3>4. QED BY <3>1, <3>2, <3>3
  <2>4. told' \in BOOLEAN
    <3>1. told' = TRUE \/ told' = told BY <1>45 DEF Finish, ChannelStop, GotoOp, Told, runVars, connectVars, chanStopVars, countVars, stopVars
    <3>2. CASE told' = TRUE BY <3>2
    <3>3. CASE told' = told BY <3>3 DEF Flags
    <3>4. QED BY <3>1, <3>2, <3>3
  <2>5. satisfied' \in BOOLEAN
    <3>1. \A x : Told(c, x) => satisfied' \in BOOLEAN
      <4>1. ASSUME NEW x, Told(c, x), c = "handler" PROVE satisfied' \in BOOLEAN
        <5>1. satisfied' = (x \in {"success", "timeout"}) BY <4>1 DEF Told
        <5>2. CASE x \in {"success", "timeout"} BY <5>1, <5>2
        <5>3. CASE x \notin {"success", "timeout"} BY <5>1, <5>3
        <5>4. QED BY <5>2, <5>3
      <4>2. CASE c # "handler" BY <4>2 DEF Told, Flags
      <4>3. QED BY <4>1, <4>2
    <3>2. QED BY <1>45, <3>1 DEF Finish
  <2>6. QED BY <2>1, <2>2, <2>3, <2>4, <2>5 DEF Flags
<1>46. ASSUME NEW c \in Callers, CountDown(c) PROVE Flags'
  <2>1. /\ run_flag_' = run_flag_ /\ stop_run' = stop_run /\ stop_wait' = stop_wait
        /\ epolled' = epolled /\ timeout_flag_' = timeout_flag_ /\ callback_flag_' = callback_flag_
        /\ connected' = connected /\ dead_call' = dead_call /\ stop_flag_' = stop_flag_
        /\ chan_run' = chan_run /\ chan_wait' = chan_wait /\ told' = told
        /\ satisfied' = satisfied
    BY <1>46 DEF CountDown, GotoOp, Wakes, runVars, connectVars, stopVars
  <2>2. count_wait' \in BOOLEAN
    <3>1. count_wait' = FALSE \/ count_wait' = count_wait BY <1>46 DEF CountDown, GotoOp, Wakes, runVars, connectVars, stopVars
    <3>2. CASE count_wait' = FALSE BY <3>2
    <3>3. CASE count_wait' = count_wait BY <3>3 DEF Flags
    <3>4. QED BY <3>1, <3>2, <3>3
  <2>3. QED BY <2>1, <2>2 DEF Flags
<1>47. ASSUME NEW c \in Callers, Block(c) PROVE Flags'
  BY <1>47 DEF Block, GotoOp, runVars, connectVars, chanStopVars, countVars, stopVars, Flags
<1>48. ASSUME NEW c \in Callers, Unblock(c) PROVE Flags'
  BY <1>48 DEF Unblock, GotoOp, runVars, connectVars, chanStopVars, countVars, stopVars, Flags
<1>49. CASE UNCHANGED vars
  BY <1>49 DEF vars, runVars, stopVars, connectVars, chanStopVars, countVars, opVars, Flags
<1>50. QED
  BY <1>1, <1>2, <1>3, <1>4, <1>5, <1>6, <1>7, <1>8, <1>9, <1>10, <1>11, <1>12, <1>13, <1>14,
     <1>15, <1>16, <1>17, <1>18, <1>19, <1>20, <1>21, <1>22, <1>23, <1>24, <1>25, <1>26, <1>27,
     <1>28, <1>29, <1>30, <1>31, <1>32, <1>33, <1>34, <1>35, <1>36, <1>37, <1>38, <1>39, <1>40,
     <1>41, <1>42, <1>43, <1>44, <1>45, <1>46, <1>47, <1>48, <1>49 DEF Next, RunStep, ConnectStep,
     ExecuteStep, ChannelStep, Operation

\* Every step keeps the other types.
LEMMA PlacesKept ==
    ASSUME Flags, Places, Counted, [Next]_vars
    PROVE  Places'
<1>1. ASSUME RunBegin PROVE Places'
  BY <1>1 DEF RunBegin, stopVars, connectVars, chanStopVars, countVars, opVars, Places, Pending
<1>2. ASSUME WaitStart PROVE Places'
  BY <1>2 DEF WaitStart, connectVars, chanStopVars, countVars, opVars, Places, Pending
<1>3. ASSUME Open PROVE Places'
  BY <1>3 DEF Open, stopVars, connectVars, chanStopVars, countVars, opVars, Places, Pending
<1>4. ASSUME Launch PROVE Places'
  BY <1>4 DEF Launch, stopVars, connectVars, chanStopVars, countVars, opVars, Places, Pending
<1>5. ASSUME AwaitStop PROVE Places'
  BY <1>5 DEF AwaitStop, connectVars, chanStopVars, countVars, opVars, Places, Pending
<1>6. ASSUME ClearRunFlag PROVE Places'
  BY <1>6 DEF ClearRunFlag, stopVars, connectVars, chanStopVars, countVars, opVars, Places,
     Pending
<1>7. ASSUME StopFound PROVE Places'
  BY <1>7 DEF StopFound, ChannelStop, stopVars, connectVars, chanStopVars, countVars, opVars,
     Places, Pending
<1>8. ASSUME Unlock PROVE Places'
  BY <1>8 DEF Unlock, MutexHeld, stopVars, connectVars, chanStopVars, countVars, opVars,
     Places, Pending
<1>9. ASSUME CloseDescriptor PROVE Places'
  BY <1>9 DEF CloseDescriptor, Closed, stopVars, connectVars, chanStopVars, countVars, opVars,
     Places, Pending
<1>10. ASSUME JoinExecute PROVE Places'
  BY <1>10 DEF JoinExecute, stopVars, connectVars, chanStopVars, countVars, opVars, Places,
     Pending
<1>11. ASSUME Stop PROVE Places'
  BY <1>11 DEF Stop, StopRun, connectVars, chanStopVars, countVars, opVars, Places, Pending
<1>12. ASSUME Connect PROVE Places'
  BY <1>12 DEF Connect, runVars, chanStopVars, countVars, opVars, stopVars, Places, Pending
<1>13. ASSUME ConnectStartTask PROVE Places'
  BY <1>13 DEF ConnectStartTask, runVars, chanStopVars, countVars, opVars, stopVars, Places,
     Pending
<1>14. ASSUME OnConnect PROVE Places'
  BY <1>14 DEF OnConnect, runVars, chanStopVars, countVars, opVars, stopVars, Places, Pending
<1>15. ASSUME OnConnectAnswer PROVE Places'
  BY <1>15 DEF OnConnectAnswer, ResumeExecute, runVars, chanStopVars, countVars, opVars,
     stopVars, Places, Pending
<1>16. ASSUME OnConnectTimeout PROVE Places'
  BY <1>16 DEF OnConnectTimeout, TimeoutIsFirst, runVars, chanStopVars, countVars, opVars,
     stopVars, Places, Pending
<1>17. ASSUME OnConnectTimeoutAnswer PROVE Places'
  BY <1>17 DEF OnConnectTimeoutAnswer, ResumeExecute, runVars, chanStopVars, countVars, opVars,
     stopVars, Places, Pending
<1>18. ASSUME ConnectEx PROVE Places'
  BY <1>18 DEF ConnectEx, runVars, chanStopVars, countVars, opVars, stopVars, Places, Pending
<1>19. ASSUME ConnectExAnswer PROVE Places'
  BY <1>19 DEF ConnectExAnswer, ResumeExecute, runVars, chanStopVars, countVars, opVars,
     stopVars, Places, Pending
<1>20. ASSUME TestRunFlag PROVE Places'
  BY <1>20 DEF TestRunFlag, runVars, connectVars, chanStopVars, countVars, opVars, stopVars,
     Places, Pending
<1>21. ASSUME TestConnected PROVE Places'
  BY <1>21 DEF TestConnected, runVars, connectVars, chanStopVars, countVars, opVars, stopVars,
     Places, Pending
<1>22. ASSUME Publish PROVE Places'
  BY <1>22 DEF Publish, StillRuns, runVars, connectVars, chanStopVars, countVars, opVars,
     stopVars, Places, Pending
<1>23. ASSUME ChannelRun PROVE Places'
  BY <1>23 DEF ChannelRun, runVars, connectVars, countVars, opVars, stopVars, Places, Pending
<1>24. ASSUME HandlerEnds PROVE Places'
  BY <1>24 DEF HandlerEnds, runVars, connectVars, chanStopVars, countVars, opVars, stopVars,
     Places, Pending
<1>25. ASSUME StopChannel PROVE Places'
  BY <1>25 DEF StopChannel, ChannelStop, runVars, connectVars, countVars, opVars, stopVars,
     Places, Pending
<1>26. ASSUME JoinChannel PROVE Places'
  BY <1>26 DEF JoinChannel, runVars, connectVars, chanStopVars, countVars, opVars, stopVars,
     Places, Pending
<1>27. ASSUME Unpublish PROVE Places'
  BY <1>27 DEF Unpublish, MutexHeld, runVars, connectVars, chanStopVars, countVars, opVars,
     stopVars, Places, Pending
<1>28. ASSUME StopOwnRun PROVE Places'
  BY <1>28 DEF StopOwnRun, StopRun, connectVars, chanStopVars, countVars, opVars, Places,
     Pending
<1>29. ASSUME ChannelBegin PROVE Places'
  BY <1>29 DEF ChannelBegin, runVars, connectVars, countVars, opVars, stopVars, Places, Pending
<1>30. ASSUME Register PROVE Places'
  BY <1>30 DEF Register, Closed, runVars, connectVars, countVars, opVars, stopVars, Places,
     Pending
<1>31. ASSUME ChannelStart PROVE Places'
  BY <1>31 DEF ChannelStart, runVars, connectVars, countVars, opVars, stopVars, Places, Pending
<1>32. ASSUME ChannelAwait PROVE Places'
  BY <1>32 DEF ChannelAwait, runVars, connectVars, countVars, opVars, stopVars, Places, Pending
<1>33. ASSUME ChannelEnd PROVE Places'
  BY <1>33 DEF ChannelEnd, runVars, connectVars, countVars, opVars, stopVars, Places, Pending
<1>34. ASSUME ChannelClose PROVE Places'
  BY <1>34 DEF ChannelClose, Closed, runVars, connectVars, countVars, opVars, stopVars, Places,
     Pending
<1>35. ASSUME EndOperations PROVE Places'
  BY <1>35 DEF EndOperations, runVars, connectVars, countVars, stopVars, Places, Pending
<1>36. ASSUME JoinOperations PROVE Places'
  BY <1>36 DEF JoinOperations, MutexHeld, runVars, connectVars, opVars, stopVars, Places,
     Pending
<1>37. ASSUME LinuxOnEpoll PROVE Places'
  BY <1>37 DEF LinuxOnEpoll, ChannelStop, runVars, connectVars, countVars, opVars, stopVars,
     Places, Pending
<1>38. ASSUME LinuxUdpOnEpoll PROVE Places'
  BY <1>38 DEF LinuxUdpOnEpoll, ChannelStop, runVars, connectVars, countVars, opVars, stopVars,
     Places, Pending
<1>39. ASSUME HandlerCalls PROVE Places'
  BY <1>39 DEF HandlerCalls, GotoOp, runVars, connectVars, chanStopVars, countVars, stopVars,
     Places, Pending
<1>40. ASSUME OutsiderWrites PROVE Places'
  BY <1>40 DEF OutsiderWrites, GotoOp, MutexHeld, runVars, connectVars, chanStopVars,
     countVars, stopVars, Places, Pending
<1>41. ASSUME NEW c \in Callers, CountUp(c) PROVE Places'
  <2>1. Counts(c) \in {1, 2} BY <1>41, Balance, TypeParts DEF CountUp
  <2>2. QED BY <1>41, <2>1 DEF Places, Pending, CountUp, GotoOp, runVars, connectVars, chanStopVars, stopVars
<1>42. ASSUME NEW c \in Callers, TestStopFlag(c) PROVE Places'
  BY <1>42 DEF TestStopFlag, GotoOp, Told, runVars, connectVars, chanStopVars, countVars,
     stopVars, Places, Pending
<1>43. ASSUME NEW c \in Callers, Operate(c) PROVE Places'
  BY <1>43 DEF Operate, GotoOp, runVars, connectVars, chanStopVars, countVars, stopVars,
     Places, Pending
<1>44. ASSUME NEW c \in Callers, Answer(c) PROVE Places'
  BY <1>44 DEF Answer, GotoOp, runVars, connectVars, chanStopVars, countVars, stopVars, Places,
     Pending
<1>45. ASSUME NEW c \in Callers, Finish(c) PROVE Places'
  BY <1>45 DEF Finish, ChannelStop, GotoOp, Told, runVars, connectVars, chanStopVars,
     countVars, stopVars, Places, Pending
<1>46. ASSUME NEW c \in Callers, CountDown(c) PROVE Places'
  <2>1. PICK d \in Callers : /\ count_ = Taken(c) + Taken(d) /\ Taken(d) \in 0..2
                             /\ Taken(c) \in 0..2
                             /\ opc[c] \notin {"idle", "count"} => Taken(c) = Counts(c)
    BY Balance, TypeParts
  <2>2. count_' = Taken(d) BY <1>46, <2>1 DEF CountDown, Places
  <2>3. count_' \in Nat BY <2>1, <2>2
  <2>4. QED BY <1>46, <2>3 DEF Places, Pending, CountDown, GotoOp, Wakes, runVars, connectVars, stopVars
<1>47. ASSUME NEW c \in Callers, Block(c) PROVE Places'
  BY <1>47 DEF Block, GotoOp, runVars, connectVars, chanStopVars, countVars, stopVars, Places,
     Pending
<1>48. ASSUME NEW c \in Callers, Unblock(c) PROVE Places'
  BY <1>48 DEF Unblock, GotoOp, runVars, connectVars, chanStopVars, countVars, stopVars, Places,
     Pending
<1>49. CASE UNCHANGED vars
  BY <1>49 DEF vars, runVars, stopVars, connectVars, chanStopVars, countVars, opVars, Places,
     Pending
<1>50. QED
  BY <1>1, <1>2, <1>3, <1>4, <1>5, <1>6, <1>7, <1>8, <1>9, <1>10, <1>11, <1>12, <1>13, <1>14,
     <1>15, <1>16, <1>17, <1>18, <1>19, <1>20, <1>21, <1>22, <1>23, <1>24, <1>25, <1>26, <1>27,
     <1>28, <1>29, <1>30, <1>31, <1>32, <1>33, <1>34, <1>35, <1>36, <1>37, <1>38, <1>39, <1>40,
     <1>41, <1>42, <1>43, <1>44, <1>45, <1>46, <1>47, <1>48, <1>49 DEF Next, RunStep, ConnectStep,
     ExecuteStep, ChannelStep, Operation

\* The channel comes to its end when nobody is counted, and takes on nobody then.
LEMMA JoinedKept ==
    ASSUME TypeOK, Shapes, Waits, Nested, Counted, Joined, [Next]_vars
    PROVE  Joined'
<1>1. ASSUME RunBegin PROVE Joined'
  BY <1>1, Here, AtPc, PcOver DEF RunBegin, stopVars, connectVars, chanStopVars, countVars,
     opVars, TypeOK, Waits, Joined, ChannelJoinsOperations, Pending, ChanSucc
<1>2. ASSUME WaitStart PROVE Joined'
  BY <1>2, Here, AtPc, PcOver DEF WaitStart, connectVars, chanStopVars, countVars, opVars,
     TypeOK, Waits, Joined, ChannelJoinsOperations, Pending, ChanSucc
<1>3. ASSUME Open PROVE Joined'
  BY <1>3, Here, AtPc, PcOver DEF Open, stopVars, connectVars, chanStopVars, countVars, opVars,
     TypeOK, Waits, Joined, ChannelJoinsOperations, Pending, ChanSucc
<1>4. ASSUME Launch PROVE Joined'
  BY <1>4, Here, AtPc, PcOver DEF Launch, stopVars, connectVars, chanStopVars, countVars,
     opVars, TypeOK, Waits, Joined, ChannelJoinsOperations, Pending, ChanSucc
<1>5. ASSUME AwaitStop PROVE Joined'
  BY <1>5, Here, AtPc, PcOver DEF AwaitStop, connectVars, chanStopVars, countVars, opVars,
     TypeOK, Waits, Joined, ChannelJoinsOperations, Pending, ChanSucc
<1>6. ASSUME ClearRunFlag PROVE Joined'
  BY <1>6, Here, AtPc, PcOver DEF ClearRunFlag, stopVars, connectVars, chanStopVars, countVars,
     opVars, TypeOK, Waits, Joined, ChannelJoinsOperations, Pending, ChanSucc
<1>7. ASSUME StopFound PROVE Joined'
  BY <1>7, Here, AtPc, PcOver DEF StopFound, ChannelStop, stopVars, connectVars, chanStopVars,
     countVars, opVars, TypeOK, Waits, Joined, ChannelJoinsOperations, Pending, ChanSucc
<1>8. ASSUME Unlock PROVE Joined'
  BY <1>8, Here, AtPc, PcOver DEF Unlock, MutexHeld, stopVars, connectVars, chanStopVars,
     countVars, opVars, TypeOK, Waits, Joined, ChannelJoinsOperations, Pending, ChanSucc
<1>9. ASSUME CloseDescriptor PROVE Joined'
  BY <1>9, Here, AtPc, PcOver DEF CloseDescriptor, Closed, stopVars, connectVars, chanStopVars,
     countVars, opVars, TypeOK, Waits, Joined, ChannelJoinsOperations, Pending, ChanSucc
<1>10. ASSUME JoinExecute PROVE Joined'
  BY <1>10, Here, AtPc, PcOver DEF JoinExecute, stopVars, connectVars, chanStopVars, countVars,
     opVars, TypeOK, Waits, Joined, ChannelJoinsOperations, Pending, ChanSucc
<1>11. ASSUME Stop PROVE Joined'
  BY <1>11, Here, AtPc, PcOver DEF Stop, StopRun, connectVars, chanStopVars, countVars, opVars,
     TypeOK, Waits, Joined, ChannelJoinsOperations, Pending, ChanSucc
<1>12. ASSUME Connect PROVE Joined'
  BY <1>12, Here, AtPc, PcOver DEF Connect, runVars, chanStopVars, countVars, opVars, stopVars,
     TypeOK, Waits, Joined, ChannelJoinsOperations, Pending, ChanSucc
<1>13. ASSUME ConnectStartTask PROVE Joined'
  BY <1>13, Here, AtPc, PcOver DEF ConnectStartTask, runVars, chanStopVars, countVars, opVars,
     stopVars, TypeOK, Waits, Joined, ChannelJoinsOperations, Pending, ChanSucc
<1>14. ASSUME OnConnect PROVE Joined'
  BY <1>14, Here, AtPc, PcOver DEF OnConnect, runVars, chanStopVars, countVars, opVars,
     stopVars, TypeOK, Waits, Joined, ChannelJoinsOperations, Pending, ChanSucc
<1>15. ASSUME OnConnectAnswer PROVE Joined'
  BY <1>15, Here, AtPc, PcOver DEF OnConnectAnswer, ResumeExecute, runVars, chanStopVars,
     countVars, opVars, stopVars, TypeOK, Waits, Joined, ChannelJoinsOperations, Pending,
     ChanSucc
<1>16. ASSUME OnConnectTimeout PROVE Joined'
  BY <1>16, Here, AtPc, PcOver DEF OnConnectTimeout, TimeoutIsFirst, runVars, chanStopVars,
     countVars, opVars, stopVars, TypeOK, Waits, Joined, ChannelJoinsOperations, Pending,
     ChanSucc
<1>17. ASSUME OnConnectTimeoutAnswer PROVE Joined'
  BY <1>17, Here, AtPc, PcOver DEF OnConnectTimeoutAnswer, ResumeExecute, runVars,
     chanStopVars, countVars, opVars, stopVars, TypeOK, Waits, Joined, ChannelJoinsOperations,
     Pending, ChanSucc
<1>18. ASSUME ConnectEx PROVE Joined'
  BY <1>18, Here, AtPc, PcOver DEF ConnectEx, runVars, chanStopVars, countVars, opVars,
     stopVars, TypeOK, Waits, Joined, ChannelJoinsOperations, Pending, ChanSucc
<1>19. ASSUME ConnectExAnswer PROVE Joined'
  BY <1>19, Here, AtPc, PcOver DEF ConnectExAnswer, ResumeExecute, runVars, chanStopVars,
     countVars, opVars, stopVars, TypeOK, Waits, Joined, ChannelJoinsOperations, Pending,
     ChanSucc
<1>20. ASSUME TestRunFlag PROVE Joined'
  BY <1>20, Here, AtPc, PcOver DEF TestRunFlag, runVars, connectVars, chanStopVars, countVars,
     opVars, stopVars, TypeOK, Waits, Joined, ChannelJoinsOperations, Pending, ChanSucc
<1>21. ASSUME TestConnected PROVE Joined'
  BY <1>21, Here, AtPc, PcOver DEF TestConnected, runVars, connectVars, chanStopVars,
     countVars, opVars, stopVars, TypeOK, Waits, Joined, ChannelJoinsOperations, Pending,
     ChanSucc
<1>22. ASSUME Publish PROVE Joined'
  BY <1>22, Here, AtPc, PcOver DEF Publish, StillRuns, runVars, connectVars, chanStopVars,
     countVars, opVars, stopVars, TypeOK, Waits, Joined, ChannelJoinsOperations, Pending,
     ChanSucc
<1>23. ASSUME ChannelRun PROVE Joined'
  BY <1>23, Here, AtPc, PcOver DEF ChannelRun, runVars, connectVars, countVars, opVars,
     stopVars, TypeOK, Waits, Joined, ChannelJoinsOperations, Pending, ChanSucc
<1>24. ASSUME HandlerEnds PROVE Joined'
  BY <1>24, Here, AtPc, PcOver DEF HandlerEnds, runVars, connectVars, chanStopVars, countVars,
     opVars, stopVars, TypeOK, Waits, Joined, ChannelJoinsOperations, Pending, ChanSucc
<1>25. ASSUME StopChannel PROVE Joined'
  BY <1>25, Here, AtPc, PcOver DEF StopChannel, ChannelStop, runVars, connectVars, countVars,
     opVars, stopVars, TypeOK, Waits, Joined, ChannelJoinsOperations, Pending, ChanSucc
<1>26. ASSUME JoinChannel PROVE Joined'
  BY <1>26, Here, AtPc, PcOver DEF JoinChannel, runVars, connectVars, chanStopVars, countVars,
     opVars, stopVars, TypeOK, Waits, Joined, ChannelJoinsOperations, Pending, ChanSucc
<1>27. ASSUME Unpublish PROVE Joined'
  BY <1>27, Here, AtPc, PcOver DEF Unpublish, MutexHeld, runVars, connectVars, chanStopVars,
     countVars, opVars, stopVars, TypeOK, Waits, Joined, ChannelJoinsOperations, Pending,
     ChanSucc
<1>28. ASSUME StopOwnRun PROVE Joined'
  BY <1>28, Here, AtPc, PcOver DEF StopOwnRun, StopRun, connectVars, chanStopVars, countVars,
     opVars, TypeOK, Waits, Joined, ChannelJoinsOperations, Pending, ChanSucc
<1>29. ASSUME ChannelBegin PROVE Joined'
  BY <1>29, Here, AtPc, PcOver DEF ChannelBegin, runVars, connectVars, countVars, opVars,
     stopVars, TypeOK, Waits, Joined, ChannelJoinsOperations, Pending, ChanSucc
<1>30. ASSUME Register PROVE Joined'
  BY <1>30, Here, AtPc, PcOver DEF Register, Closed, runVars, connectVars, countVars, opVars,
     stopVars, TypeOK, Waits, Joined, ChannelJoinsOperations, Pending, ChanSucc
<1>31. ASSUME ChannelStart PROVE Joined'
  BY <1>31, Here, AtPc, PcOver DEF ChannelStart, runVars, connectVars, countVars, opVars,
     stopVars, TypeOK, Waits, Joined, ChannelJoinsOperations, Pending, ChanSucc
<1>32. ASSUME ChannelAwait PROVE Joined'
  BY <1>32, Here, AtPc, PcOver DEF ChannelAwait, runVars, connectVars, countVars, opVars,
     stopVars, TypeOK, Waits, Joined, ChannelJoinsOperations, Pending, ChanSucc
<1>33. ASSUME ChannelEnd PROVE Joined'
  BY <1>33, Here, AtPc, PcOver DEF ChannelEnd, runVars, connectVars, countVars, opVars,
     stopVars, TypeOK, Waits, Joined, ChannelJoinsOperations, Pending, ChanSucc
<1>34. ASSUME ChannelClose PROVE Joined'
  BY <1>34, Here, AtPc, PcOver DEF ChannelClose, Closed, runVars, connectVars, countVars,
     opVars, stopVars, TypeOK, Waits, Joined, ChannelJoinsOperations, Pending, ChanSucc
<1>35. ASSUME EndOperations PROVE Joined'
  BY <1>35, Here, AtPc, PcOver DEF EndOperations, runVars, connectVars, countVars, stopVars,
     TypeOK, Waits, Joined, ChannelJoinsOperations, Pending, ChanSucc
<1>36. ASSUME JoinOperations PROVE Joined'
  <2>1. CASE count_ = 0
    <3>1. \A c \in Callers : opc[c] \in {"idle", "count"} BY <2>1, Balance, EmptyCount
    <3>2. QED BY <1>36, <2>1, <3>1, Here, AtPc, PcOver DEF JoinOperations, MutexHeld, runVars, connectVars, opVars, stopVars, Joined, ChannelJoinsOperations, Pending, ChanSucc
  <2>2. CASE count_ # 0 BY <1>36, <2>2, Here, AtPc, PcOver DEF JoinOperations, MutexHeld, runVars, connectVars, opVars, stopVars, Joined, ChannelJoinsOperations
  <2>3. QED BY <2>1, <2>2
<1>37. ASSUME LinuxOnEpoll PROVE Joined'
  BY <1>37, Here, AtPc, PcOver DEF LinuxOnEpoll, ChannelStop, runVars, connectVars, countVars,
     opVars, stopVars, TypeOK, Waits, Joined, ChannelJoinsOperations, Pending, ChanSucc
<1>38. ASSUME LinuxUdpOnEpoll PROVE Joined'
  BY <1>38, Here, AtPc, PcOver DEF LinuxUdpOnEpoll, ChannelStop, runVars, connectVars,
     countVars, opVars, stopVars, TypeOK, Waits, Joined, ChannelJoinsOperations, Pending,
     ChanSucc
<1>39. ASSUME HandlerCalls PROVE Joined'
  BY <1>39, Here, AtPc, PcOver DEF HandlerCalls, GotoOp, runVars, connectVars, chanStopVars,
     countVars, stopVars, TypeOK, Waits, Joined, ChannelJoinsOperations, Pending, ChanSucc
<1>40. ASSUME OutsiderWrites PROVE Joined'
  BY <1>40, Here, AtPc, PcOver DEF OutsiderWrites, GotoOp, MutexHeld, runVars, connectVars,
     chanStopVars, countVars, stopVars, TypeOK, Waits, Joined, ChannelJoinsOperations, Pending,
     ChanSucc
<1>41. ASSUME NEW c \in Callers, CountUp(c) PROVE Joined'
  BY <1>41, Here, AtPc, PcOver DEF CountUp, GotoOp, runVars, connectVars, chanStopVars,
     stopVars, TypeOK, Waits, Joined, ChannelJoinsOperations, Pending, ChanSucc
<1>42. ASSUME NEW c \in Callers, TestStopFlag(c) PROVE Joined'
  BY <1>42, Here, AtPc, PcOver DEF TestStopFlag, GotoOp, Told, runVars, connectVars,
     chanStopVars, countVars, stopVars, TypeOK, Waits, Joined, ChannelJoinsOperations, Pending,
     ChanSucc
<1>43. ASSUME NEW c \in Callers, Operate(c) PROVE Joined'
  BY <1>43, Here, AtPc, PcOver DEF Operate, GotoOp, runVars, connectVars, chanStopVars,
     countVars, stopVars, TypeOK, Waits, Joined, ChannelJoinsOperations, Pending, ChanSucc
<1>44. ASSUME NEW c \in Callers, Answer(c) PROVE Joined'
  BY <1>44, Here, AtPc, PcOver DEF Answer, GotoOp, runVars, connectVars, chanStopVars,
     countVars, stopVars, TypeOK, Waits, Joined, ChannelJoinsOperations, Pending, ChanSucc
<1>45. ASSUME NEW c \in Callers, Finish(c) PROVE Joined'
  BY <1>45, Here, AtPc, PcOver DEF Finish, ChannelStop, GotoOp, Told, runVars, connectVars,
     chanStopVars, countVars, stopVars, TypeOK, Waits, Joined, ChannelJoinsOperations, Pending,
     ChanSucc
<1>46. ASSUME NEW c \in Callers, CountDown(c) PROVE Joined'
  <2>1. CASE Wakes(count_, count_')
    <3>1. count_' = 0 /\ opc[c] = "down" /\ count_' = count_ - Counts(c) BY <1>46, <2>1 DEF CountDown, Wakes
    <3>2. \A d \in Callers \ {c} : opc[d] \in {"idle", "count"}
      <4>1. PICK d \in Callers : /\ Callers = {c, d} /\ c # d
                                 /\ count_ = Taken(c) + Taken(d)
                                 /\ Taken(c) \in 0..2 /\ Taken(d) \in 0..2
                                 /\ Taken(d) = 0 <=> opc[d] \in {"idle", "count"}
                                 /\ opc[c] \notin {"idle", "count"} => Taken(c) = Counts(c)
        BY Balance
      <4>2. Taken(d) = 0 BY <3>1, <4>1
      <4>3. QED BY <4>1, <4>2
    <3>3. opc' = [opc EXCEPT ![c] = "idle"] BY <1>46 DEF CountDown, GotoOp
    <3>4. \A d \in Callers : opc'[d] \notin Pending BY <3>2, <3>3 DEF TypeOK, Pending
    <3>5. Pc(chan) = "join" /\ stop_flag_' = stop_flag_ BY <1>46, <2>1 DEF CountDown, Waits, Wakes
    <3>6. QED BY <3>4, <3>5 DEF Joined, ChannelJoinsOperations
  <2>2. CASE ~Wakes(count_, count_')
    <3>1. /\ chan' = chan /\ stop_flag_' = stop_flag_ /\ opc' = [opc EXCEPT ![c] = "idle"]
      BY <1>46, <2>2 DEF CountDown, GotoOp
    <3>2. \A d \in Callers : opc'[d] \in Pending => opc[d] \in Pending
      BY <3>1 DEF TypeOK, Pending
    <3>3. QED BY <3>1, <3>2 DEF Joined, ChannelJoinsOperations
  <2>3. QED BY <2>1, <2>2
<1>47. ASSUME NEW c \in Callers, Block(c) PROVE Joined'
  BY <1>47, Here, AtPc, PcOver DEF Block, GotoOp, runVars, connectVars, chanStopVars,
     countVars, stopVars, TypeOK, Waits, Joined, ChannelJoinsOperations, Pending, ChanSucc
<1>48. ASSUME NEW c \in Callers, Unblock(c) PROVE Joined'
  BY <1>48, Here, AtPc, PcOver DEF Unblock, GotoOp, runVars, connectVars, chanStopVars,
     countVars, stopVars, TypeOK, Waits, Joined, ChannelJoinsOperations, Pending, ChanSucc
<1>49. CASE UNCHANGED vars
  BY <1>49 DEF vars, runVars, stopVars, connectVars, chanStopVars, countVars, opVars, TypeOK,
     Waits, Joined, ChannelJoinsOperations, Pending
<1>50. QED
  BY <1>1, <1>2, <1>3, <1>4, <1>5, <1>6, <1>7, <1>8, <1>9, <1>10, <1>11, <1>12, <1>13, <1>14,
     <1>15, <1>16, <1>17, <1>18, <1>19, <1>20, <1>21, <1>22, <1>23, <1>24, <1>25, <1>26, <1>27,
     <1>28, <1>29, <1>30, <1>31, <1>32, <1>33, <1>34, <1>35, <1>36, <1>37, <1>38, <1>39, <1>40,
     <1>41, <1>42, <1>43, <1>44, <1>45, <1>46, <1>47, <1>48, <1>49 DEF Next, RunStep, ConnectStep,
     ExecuteStep, ChannelStep, Operation

\* The handler ends between two operations, and nobody else calls for it.
LEMMA HandlingKept ==
    ASSUME TypeOK, Shapes, Waits, Nested, Handling, [Next]_vars
    PROVE  Handling'
<1>1. ASSUME RunBegin PROVE Handling'
  BY <1>1, Here, AtPc, PcOver DEF RunBegin, stopVars, connectVars, chanStopVars, countVars,
     opVars, Waits, Nested, Handling, TypeOK, Callers, ExecSucc
<1>2. ASSUME WaitStart PROVE Handling'
  BY <1>2, Here, AtPc, PcOver DEF WaitStart, connectVars, chanStopVars, countVars, opVars,
     Waits, Nested, Handling, TypeOK, Callers, ExecSucc
<1>3. ASSUME Open PROVE Handling'
  BY <1>3, Here, AtPc, PcOver DEF Open, stopVars, connectVars, chanStopVars, countVars, opVars,
     Waits, Nested, Handling, TypeOK, Callers, ExecSucc
<1>4. ASSUME Launch PROVE Handling'
  BY <1>4, Here, AtPc, PcOver DEF Launch, stopVars, connectVars, chanStopVars, countVars,
     opVars, Waits, Nested, Handling, TypeOK, Callers, ExecSucc
<1>5. ASSUME AwaitStop PROVE Handling'
  BY <1>5, Here, AtPc, PcOver DEF AwaitStop, connectVars, chanStopVars, countVars, opVars,
     Waits, Nested, Handling, TypeOK, Callers, ExecSucc
<1>6. ASSUME ClearRunFlag PROVE Handling'
  BY <1>6, Here, AtPc, PcOver DEF ClearRunFlag, stopVars, connectVars, chanStopVars, countVars,
     opVars, Waits, Nested, Handling, TypeOK, Callers, ExecSucc
<1>7. ASSUME StopFound PROVE Handling'
  BY <1>7, Here, AtPc, PcOver DEF StopFound, ChannelStop, stopVars, connectVars, chanStopVars,
     countVars, opVars, Waits, Nested, Handling, TypeOK, Callers, ExecSucc
<1>8. ASSUME Unlock PROVE Handling'
  BY <1>8, Here, AtPc, PcOver DEF Unlock, MutexHeld, stopVars, connectVars, chanStopVars,
     countVars, opVars, Waits, Nested, Handling, TypeOK, Callers, ExecSucc
<1>9. ASSUME CloseDescriptor PROVE Handling'
  BY <1>9, Here, AtPc, PcOver DEF CloseDescriptor, Closed, stopVars, connectVars, chanStopVars,
     countVars, opVars, Waits, Nested, Handling, TypeOK, Callers, ExecSucc
<1>10. ASSUME JoinExecute PROVE Handling'
  BY <1>10, Here, AtPc, PcOver DEF JoinExecute, stopVars, connectVars, chanStopVars, countVars,
     opVars, Waits, Nested, Handling, TypeOK, Callers, ExecSucc
<1>11. ASSUME Stop PROVE Handling'
  BY <1>11, Here, AtPc, PcOver DEF Stop, StopRun, connectVars, chanStopVars, countVars, opVars,
     Waits, Nested, Handling, TypeOK, Callers, ExecSucc
<1>12. ASSUME Connect PROVE Handling'
  BY <1>12, Here, AtPc, PcOver DEF Connect, runVars, chanStopVars, countVars, opVars, stopVars,
     Waits, Nested, Handling, TypeOK, Callers, ExecSucc
<1>13. ASSUME ConnectStartTask PROVE Handling'
  BY <1>13, Here, AtPc, PcOver DEF ConnectStartTask, runVars, chanStopVars, countVars, opVars,
     stopVars, Waits, Nested, Handling, TypeOK, Callers, ExecSucc
<1>14. ASSUME OnConnect PROVE Handling'
  BY <1>14, Here, AtPc, PcOver DEF OnConnect, runVars, chanStopVars, countVars, opVars,
     stopVars, Waits, Nested, Handling, TypeOK, Callers, ExecSucc
<1>15. ASSUME OnConnectAnswer PROVE Handling'
  BY <1>15, Here, AtPc, PcOver DEF OnConnectAnswer, ResumeExecute, runVars, chanStopVars,
     countVars, opVars, stopVars, Waits, Nested, Handling, TypeOK, Callers, ExecSucc
<1>16. ASSUME OnConnectTimeout PROVE Handling'
  BY <1>16, Here, AtPc, PcOver DEF OnConnectTimeout, TimeoutIsFirst, runVars, chanStopVars,
     countVars, opVars, stopVars, Waits, Nested, Handling, TypeOK, Callers, ExecSucc
<1>17. ASSUME OnConnectTimeoutAnswer PROVE Handling'
  BY <1>17, Here, AtPc, PcOver DEF OnConnectTimeoutAnswer, ResumeExecute, runVars,
     chanStopVars, countVars, opVars, stopVars, Waits, Nested, Handling, TypeOK, Callers, ExecSucc
<1>18. ASSUME ConnectEx PROVE Handling'
  BY <1>18, Here, AtPc, PcOver DEF ConnectEx, runVars, chanStopVars, countVars, opVars,
     stopVars, Waits, Nested, Handling, TypeOK, Callers, ExecSucc
<1>19. ASSUME ConnectExAnswer PROVE Handling'
  BY <1>19, Here, AtPc, PcOver DEF ConnectExAnswer, ResumeExecute, runVars, chanStopVars,
     countVars, opVars, stopVars, Waits, Nested, Handling, TypeOK, Callers, ExecSucc
<1>20. ASSUME TestRunFlag PROVE Handling'
  BY <1>20, Here, AtPc, PcOver DEF TestRunFlag, runVars, connectVars, chanStopVars, countVars,
     opVars, stopVars, Waits, Nested, Handling, TypeOK, Callers, ExecSucc
<1>21. ASSUME TestConnected PROVE Handling'
  BY <1>21, Here, AtPc, PcOver DEF TestConnected, runVars, connectVars, chanStopVars,
     countVars, opVars, stopVars, Waits, Nested, Handling, TypeOK, Callers, ExecSucc
<1>22. ASSUME Publish PROVE Handling'
  BY <1>22, Here, AtPc, PcOver DEF Publish, StillRuns, runVars, connectVars, chanStopVars,
     countVars, opVars, stopVars, Waits, Nested, Handling, TypeOK, Callers, ExecSucc
<1>23. ASSUME ChannelRun PROVE Handling'
  BY <1>23, Here, AtPc, PcOver DEF ChannelRun, runVars, connectVars, countVars, opVars,
     stopVars, Waits, Nested, Handling, TypeOK, Callers, ExecSucc
<1>24. ASSUME HandlerEnds PROVE Handling'
  BY <1>24, Here, AtPc, PcOver DEF HandlerEnds, runVars, connectVars, chanStopVars, countVars,
     opVars, stopVars, Waits, Nested, Handling, TypeOK, Callers, ExecSucc
<1>25. ASSUME StopChannel PROVE Handling'
  BY <1>25, Here, AtPc, PcOver DEF StopChannel, ChannelStop, runVars, connectVars, countVars,
     opVars, stopVars, Waits, Nested, Handling, TypeOK, Callers, ExecSucc
<1>26. ASSUME JoinChannel PROVE Handling'
  BY <1>26, Here, AtPc, PcOver DEF JoinChannel, runVars, connectVars, chanStopVars, countVars,
     opVars, stopVars, Waits, Nested, Handling, TypeOK, Callers, ExecSucc
<1>27. ASSUME Unpublish PROVE Handling'
  BY <1>27, Here, AtPc, PcOver DEF Unpublish, MutexHeld, runVars, connectVars, chanStopVars,
     countVars, opVars, stopVars, Waits, Nested, Handling, TypeOK, Callers, ExecSucc
<1>28. ASSUME StopOwnRun PROVE Handling'
  BY <1>28, Here, AtPc, PcOver DEF StopOwnRun, StopRun, connectVars, chanStopVars, countVars,
     opVars, Waits, Nested, Handling, TypeOK, Callers, ExecSucc
<1>29. ASSUME ChannelBegin PROVE Handling'
  BY <1>29, Here, AtPc, PcOver DEF ChannelBegin, runVars, connectVars, countVars, opVars,
     stopVars, Waits, Nested, Handling, TypeOK, Callers, ExecSucc
<1>30. ASSUME Register PROVE Handling'
  BY <1>30, Here, AtPc, PcOver DEF Register, Closed, runVars, connectVars, countVars, opVars,
     stopVars, Waits, Nested, Handling, TypeOK, Callers, ExecSucc
<1>31. ASSUME ChannelStart PROVE Handling'
  BY <1>31, Here, AtPc, PcOver DEF ChannelStart, runVars, connectVars, countVars, opVars,
     stopVars, Waits, Nested, Handling, TypeOK, Callers, ExecSucc
<1>32. ASSUME ChannelAwait PROVE Handling'
  BY <1>32, Here, AtPc, PcOver DEF ChannelAwait, runVars, connectVars, countVars, opVars,
     stopVars, Waits, Nested, Handling, TypeOK, Callers, ExecSucc
<1>33. ASSUME ChannelEnd PROVE Handling'
  BY <1>33, Here, AtPc, PcOver DEF ChannelEnd, runVars, connectVars, countVars, opVars,
     stopVars, Waits, Nested, Handling, TypeOK, Callers, ExecSucc
<1>34. ASSUME ChannelClose PROVE Handling'
  BY <1>34, Here, AtPc, PcOver DEF ChannelClose, Closed, runVars, connectVars, countVars,
     opVars, stopVars, Waits, Nested, Handling, TypeOK, Callers, ExecSucc
<1>35. ASSUME EndOperations PROVE Handling'
  BY <1>35, Here, AtPc, PcOver DEF EndOperations, runVars, connectVars, countVars, stopVars,
     Waits, Nested, Handling, TypeOK, Callers, ExecSucc
<1>36. ASSUME JoinOperations PROVE Handling'
  BY <1>36, Here, AtPc, PcOver DEF JoinOperations, MutexHeld, runVars, connectVars, opVars,
     stopVars, Waits, Nested, Handling, TypeOK, Callers, ExecSucc
<1>37. ASSUME LinuxOnEpoll PROVE Handling'
  BY <1>37, Here, AtPc, PcOver DEF LinuxOnEpoll, ChannelStop, runVars, connectVars, countVars,
     opVars, stopVars, Waits, Nested, Handling, TypeOK, Callers, ExecSucc
<1>38. ASSUME LinuxUdpOnEpoll PROVE Handling'
  BY <1>38, Here, AtPc, PcOver DEF LinuxUdpOnEpoll, ChannelStop, runVars, connectVars,
     countVars, opVars, stopVars, Waits, Nested, Handling, TypeOK, Callers, ExecSucc
<1>39. ASSUME HandlerCalls PROVE Handling'
  BY <1>39, Here, AtPc, PcOver DEF HandlerCalls, GotoOp, runVars, connectVars, chanStopVars,
     countVars, stopVars, Waits, Nested, Handling, TypeOK, Callers, ExecSucc
<1>40. ASSUME OutsiderWrites PROVE Handling'
  BY <1>40, Here, AtPc, PcOver DEF OutsiderWrites, GotoOp, MutexHeld, runVars, connectVars,
     chanStopVars, countVars, stopVars, Waits, Nested, Handling, TypeOK, Callers, ExecSucc
<1>41. ASSUME NEW c \in Callers, CountUp(c) PROVE Handling'
  BY <1>41, Here, AtPc, PcOver DEF CountUp, GotoOp, runVars, connectVars, chanStopVars,
     stopVars, Waits, Nested, Handling, TypeOK, Callers, ExecSucc
<1>42. ASSUME NEW c \in Callers, TestStopFlag(c) PROVE Handling'
  BY <1>42, Here, AtPc, PcOver DEF TestStopFlag, GotoOp, Told, runVars, connectVars,
     chanStopVars, countVars, stopVars, Waits, Nested, Handling, TypeOK, Callers, ExecSucc
<1>43. ASSUME NEW c \in Callers, Operate(c) PROVE Handling'
  BY <1>43, Here, AtPc, PcOver DEF Operate, GotoOp, runVars, connectVars, chanStopVars,
     countVars, stopVars, Waits, Nested, Handling, TypeOK, Callers, ExecSucc
<1>44. ASSUME NEW c \in Callers, Answer(c) PROVE Handling'
  BY <1>44, Here, AtPc, PcOver DEF Answer, GotoOp, runVars, connectVars, chanStopVars,
     countVars, stopVars, Waits, Nested, Handling, TypeOK, Callers, ExecSucc
<1>45. ASSUME NEW c \in Callers, Finish(c) PROVE Handling'
  BY <1>45, Here, AtPc, PcOver DEF Finish, ChannelStop, GotoOp, Told, runVars, connectVars,
     chanStopVars, countVars, stopVars, Waits, Nested, Handling, TypeOK, Callers, ExecSucc
<1>46. ASSUME NEW c \in Callers, CountDown(c) PROVE Handling'
  BY <1>46, Here, AtPc, PcOver DEF CountDown, GotoOp, Wakes, runVars, connectVars, stopVars,
     Waits, Nested, Handling, TypeOK, Callers, ExecSucc
<1>47. ASSUME NEW c \in Callers, Block(c) PROVE Handling'
  BY <1>47, Here, AtPc, PcOver DEF Block, GotoOp, runVars, connectVars, chanStopVars,
     countVars, stopVars, Waits, Nested, Handling, TypeOK, Callers, ExecSucc
<1>48. ASSUME NEW c \in Callers, Unblock(c) PROVE Handling'
  BY <1>48, Here, AtPc, PcOver DEF Unblock, GotoOp, runVars, connectVars, chanStopVars,
     countVars, stopVars, Waits, Nested, Handling, TypeOK, Callers, ExecSucc
<1>49. CASE UNCHANGED vars
  BY <1>49 DEF vars, runVars, stopVars, connectVars, chanStopVars, countVars, opVars, Handling
<1>50. QED
  BY <1>1, <1>2, <1>3, <1>4, <1>5, <1>6, <1>7, <1>8, <1>9, <1>10, <1>11, <1>12, <1>13, <1>14,
     <1>15, <1>16, <1>17, <1>18, <1>19, <1>20, <1>21, <1>22, <1>23, <1>24, <1>25, <1>26, <1>27,
     <1>28, <1>29, <1>30, <1>31, <1>32, <1>33, <1>34, <1>35, <1>36, <1>37, <1>38, <1>39, <1>40,
     <1>41, <1>42, <1>43, <1>44, <1>45, <1>46, <1>47, <1>48, <1>49 DEF Next, RunStep, ConnectStep,
     ExecuteStep, ChannelStep, Operation

------------------------------------------------------------------------------
(* Theorems *)

\* The invariant holds where the endpoint is made.
LEMMA InvInit == Init => EndpointInv
<1> SUFFICES ASSUME Init PROVE EndpointInv
  OBVIOUS
<1>1. kind \in AllKinds BY EndpointAssumption DEF Init
<1>2. TypeOK
  <2>1. Flags BY DEF Init, Flags
  <2>2. Places BY DEF Init, Places
  <2>3. QED BY <2>1, <2>2, TypeParts
<1>3. Pc(run) = "begin" /\ run \in Runs(kind) BY <1>1, RunStarts DEF Init
<1>4. << >> \in Execs(kind) /\ << >> \in Chans(kind)
  <2>1. ExecuteOf(kind) \in Seq(ExecNames) /\ ChannelRunOf(kind) \in Seq(ChanNames)
    BY <1>1, ExecSteps, ChanSteps
  <2>2. QED BY <2>1, SuffixOfAll DEF Execs, Chans
<1>5. Pc(exec) = "over" /\ Pc(chan) = "over" BY PcOver DEF Init
<1>6. Shapes BY <1>3, <1>4 DEF Init, Shapes
<1>7. Waits BY DEF Init, Waits
<1>8. Nested BY <1>3, <1>5 DEF Init, Nested
<1>9. Descriptor BY DEF Init, Descriptor
<1>10. Connecting BY <1>5 DEF Init, Connecting
<1>11. Counted BY DEF Init, Counted, Taken, Callers
<1>12. Joined BY DEF Init, Joined, ChannelJoinsOperations, Pending
<1>13. Handling BY DEF Init, Handling, Callers
<1>14. QED
  BY <1>2, <1>6, <1>7, <1>8, <1>9, <1>10, <1>11, <1>12, <1>13 DEF EndpointInv

\* Every step keeps it.
LEMMA InvNext == EndpointInv /\ [Next]_vars => EndpointInv'
<1> SUFFICES ASSUME EndpointInv, [Next]_vars PROVE EndpointInv'
  OBVIOUS
<1>1. /\ TypeOK /\ Shapes /\ Waits /\ Nested /\ Descriptor
      /\ Connecting /\ Counted /\ Joined /\ Handling
  BY DEF EndpointInv
<1>2. Shapes' BY <1>1, ShapesKept
<1>3. Waits' BY <1>1, WaitsKept
<1>4. Nested' BY <1>1, NestedKept
<1>5. Descriptor' BY <1>1, DescriptorKept
<1>6. Connecting' BY <1>1, ConnectingKept
<1>7. Counted' BY <1>1, CountedKept
<1>8. Joined' BY <1>1, JoinedKept
<1>9. TypeOK'
  <2>1. Flags /\ Places BY <1>1, TypeParts
  <2>2. Flags' BY <2>1, FlagsKept
  <2>3. Places' BY <1>1, <2>1, PlacesKept
  <2>4. QED BY <2>2, <2>3 DEF TypeOK, Flags, Places
<1>10. Handling' BY <1>1, HandlingKept
<1>11. QED
  BY <1>2, <1>3, <1>4, <1>5, <1>6, <1>7, <1>8, <1>9, <1>10 DEF EndpointInv

\* The invariant holds of every state the specification reaches.
LEMMA InvAlways == Spec => []EndpointInv
BY InvInit, InvNext, PTL DEF Spec

\* The members of the six classes have their types.
THEOREM EndpointTypes == Spec => []TypeOK
<1>1. EndpointInv => TypeOK BY DEF EndpointInv
<1>2. QED BY <1>1, InvAlways, PTL

\* No operation uses the descriptor, or its caller's buffer, behind the end of the
\* channel's Run.
THEOREM EndpointChannelJoinsOperations == Spec => []ChannelJoinsOperations
<1>1. EndpointInv => ChannelJoinsOperations BY DEF EndpointInv, Joined
<1>2. QED BY <1>1, InvAlways, PTL

\* When Run has returned nothing it started is left, neither coroutine nor channel,
\* operation or open descriptor, but for the two leaks the property names.
THEOREM EndpointNothingOutlivesRun == Spec => []NothingOutlivesRun
<1>1. EndpointInv => NothingOutlivesRun
  <2> SUFFICES ASSUME EndpointInv, run = << >>
               PROVE  /\ exec = << >> /\ (chan = << >> \/ At(chan, "failed"))
                      /\ channel_ = "empty"
                      /\ \/ fd \in {"none", "bad", "closed"}
                         \/ fd = "leaked" /\ kind = "linux_serial"
                      /\ \A c \in Callers :
                            opc[c] \in Pending => c = "outsider" /\ At(chan, "failed")
    BY DEF NothingOutlivesRun
  <2>1. Pc(run) = "over" BY PcOver
  <2>2. Pc(exec) = "over" BY <2>1 DEF EndpointInv, Nested
  <2>3. Pc(chan) \in {"failed", "over"} /\ channel_ = "empty" BY <2>2 DEF EndpointInv, Nested
  <2>4. fd \in {"none", "bad", "closed"} \/ (fd = "leaked" /\ kind = "linux_serial")
    BY <2>1 DEF EndpointInv, Descriptor, TypeOK
  <2>5. exec = << >> BY <2>2, Here DEF EndpointInv
  <2>6. chan = << >> \/ At(chan, "failed") BY <2>3, Here, AtPc DEF EndpointInv
  <2>7. \A c \in Callers : opc[c] \in Pending => c = "outsider" /\ At(chan, "failed")
    <3>1. opc["handler"] = "idle" BY <2>2 DEF EndpointInv, Handling
    <3>2. chan = << >> => \A c \in Callers : opc[c] \notin Pending
      BY DEF EndpointInv, Joined, ChannelJoinsOperations
    <3>3. QED BY <2>6, <3>1, <3>2 DEF Callers, Pending
  <2>8. QED BY <2>3, <2>4, <2>5, <2>6, <2>7
<1>2. QED BY <1>1, InvAlways, PTL

\* A connection resumes Execute once: by its answer, or by its timeout.
THEOREM EndpointConnectAnsweredOnce == Spec => []ConnectAnsweredOnce
<1>1. EndpointInv => ConnectAnsweredOnce BY DEF EndpointInv, Connecting, ConnectAnsweredOnce
<1>2. QED BY <1>1, InvAlways, PTL

\* RunSocket does not wait for a channel that nobody has stopped.
THEOREM EndpointJoinedChannelWasStopped == Spec => []JoinedChannelWasStopped
<1>1. EndpointInv => JoinedChannelWasStopped
  <2> SUFFICES ASSUME EndpointInv, At(exec, "join_channel") PROVE ~chan_wait
    BY DEF JoinedChannelWasStopped
  <2>1. Pc(exec) = "join_channel" BY AtPc
  <2>2. Pc(chan) # "await" BY <2>1 DEF EndpointInv, Nested, PastAwait
  <2>3. QED BY <2>2 DEF EndpointInv, Waits
<1>2. QED BY <1>1, InvAlways, PTL

===============================================================================
