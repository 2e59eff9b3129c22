--------------------------- MODULE TcpServerProofs ---------------------------
(***************************************************************************)
(* Theorems about TcpServer on both platforms, for any number of           *)
(* connections, of Accept coroutines and any keys.                         *)
(*                                                                         *)
(* The argument: wait_all_tasks_done_ counts exactly the connections that  *)
(* are in RunSocket behind CountUp and the Accept coroutines that have not *)
(* ended (CountInv), what is in the map is in RunSocket under its own key  *)
(* (Closed), and once run_flag_ is false no connection is taken any more.  *)
(* So when the count reaches 0 behind that, every connection ever taken    *)
(* has reached its end and the map is empty.                               *)
(***************************************************************************)
EXTENDS TcpServer, FiniteSetTheorems, TLAPS

\* Where a connection that was inserted may be in the map, and where it is counted.
MappedPlaces == {"channel_run", "channel_start", "channel_wait", "handle", "await", "join",
                 "self_lock", "erase"}
CountedPlaces == MappedPlaces \cup {"insert", "close"}
Counted == {c \in Conns : pc[c] \in CountedPlaces}
CountedAccepts == {a \in Accepts : acc[a] # "off"}

\* The count is the number of connections behind CountUp and of Accepts.
CountInv == count_ = Cardinality(Counted) + Cardinality(CountedAccepts)

\* Who waits is registered as waiting, and what it waits for is not over: the
\* flag of a wait_stop_ that is set was set behind every Stop but an early one.
WaitInv ==
    /\ count_wait <=> spc = "joining"
    /\ stop_wait <=> spc = "waiting"
    /\ spc = "joining" => count_ > 0
    /\ spc = "waiting" => stop_run
    /\ stop_run => ~asked
    /\ \A c \in Conns : /\ chan_wait[c] <=> chan[c] = "waiting"
                        /\ chan[c] = "waiting" => chan_run[c]
                        /\ chan_run[c] \/ chan[c] \in {"none", "start"} => told[c] # "yes"

\* A stopping server takes no connection, and a connection that is in the map
\* is there under its own key until its RunSocket erases it.
Closed ==
    /\ spc \in {"close", "swap", "stopping", "joining", "join", "done"} => ~run_flag_
    /\ \A k \in Keys : channels_[k] # NoConn =>
          /\ key[channels_[k]] = k
          /\ pc[channels_[k]] \in MappedPlaces

\* How far a connection that was taken is, and its channel with it.
Taken ==
    \A c \in Conns :
        /\ peer[c] = "away" => pc[c] = "none"
        /\ pc[c] \in {"none", "backlog", "count_up", "insert", "channel_run"} => chan[c] = "none"
        /\ pc[c] \in MappedPlaces => inserted[c]
        /\ inserted[c] => pc[c] \in (CountedPlaces \ {"insert"}) \cup {"end"}
        /\ inserted[c] /\ pc[c] \in {"erase", "close", "end"} => chan[c] = "done"

\* Once Run has seen the count at 0, all that was taken has ended.
AllEnded == spc \in {"join", "done"} => \A c \in Conns : inserted[c] => pc[c] = "end"

ServerInv == TypeOK /\ CountInv /\ WaitInv /\ Closed /\ Taken /\ AllEnded

\* The counted coroutines are finitely many, so their numbers are naturals.
LEMMA CountedFinite ==
    /\ IsFiniteSet(Counted) /\ Cardinality(Counted) \in Nat
    /\ IsFiniteSet(CountedAccepts) /\ Cardinality(CountedAccepts) \in Nat
<1>1. IsFiniteSet(Conns) /\ IsFiniteSet(Accepts) BY ServerAssumption
<1>2. IsFiniteSet(Counted) BY <1>1, FS_Subset DEF Counted
<1>3. IsFiniteSet(CountedAccepts) BY <1>1, FS_Subset DEF CountedAccepts
<1>4. QED BY <1>2, <1>3, FS_CardinalityType

\* A connection that comes or goes changes the number of counted ones by one.
LEMMA CountChanges ==
    ASSUME NEW c \in Conns
    PROVE  /\ c \notin Counted /\ Counted' = Counted \cup {c}
                => Cardinality(Counted') = Cardinality(Counted) + 1
           /\ c \in Counted /\ Counted' = Counted \ {c}
                => Cardinality(Counted') = Cardinality(Counted) - 1
<1>1. ASSUME c \notin Counted, Counted' = Counted \cup {c}
      PROVE  Cardinality(Counted') = Cardinality(Counted) + 1
      BY <1>1, CountedFinite, FS_AddElement
<1>2. ASSUME c \in Counted, Counted' = Counted \ {c}
      PROVE  Cardinality(Counted') = Cardinality(Counted) - 1
      BY <1>2, CountedFinite, FS_RemoveElement
<1>3. QED BY <1>1, <1>2

\* So does an Accept coroutine.
LEMMA AcceptCountChanges ==
    ASSUME NEW a \in Accepts
    PROVE  /\ a \notin CountedAccepts /\ CountedAccepts' = CountedAccepts \cup {a}
                => Cardinality(CountedAccepts') = Cardinality(CountedAccepts) + 1
           /\ a \in CountedAccepts /\ CountedAccepts' = CountedAccepts \ {a}
                => Cardinality(CountedAccepts') = Cardinality(CountedAccepts) - 1
<1>1. ASSUME a \notin CountedAccepts, CountedAccepts' = CountedAccepts \cup {a}
      PROVE  Cardinality(CountedAccepts') = Cardinality(CountedAccepts) + 1
      BY <1>1, CountedFinite, FS_AddElement
<1>2. ASSUME a \in CountedAccepts, CountedAccepts' = CountedAccepts \ {a}
      PROVE  Cardinality(CountedAccepts') = Cardinality(CountedAccepts) - 1
      BY <1>2, CountedFinite, FS_RemoveElement
<1>3. QED BY <1>1, <1>2

\* RunSocket counts down what it counted up.
LEMMA CountDownPositive ==
    ASSUME CountInv, NEW c \in Conns, CountDown(c)
    PROVE  count_ \in Nat \ {0}
<1>1. c \in Counted BY DEF CountDown, Counted, CountedPlaces
<1>2. Cardinality(Counted) # 0 BY <1>1, CountedFinite, FS_EmptySet
<1>3. QED BY <1>2, CountedFinite DEF CountInv

\* And so does Accept.
LEMMA AcceptExitPositive ==
    ASSUME CountInv, NEW a \in Accepts, AcceptExit(a)
    PROVE  count_ \in Nat \ {0}
<1>1. a \in CountedAccepts BY DEF AcceptExit, CountedAccepts
<1>2. Cardinality(CountedAccepts) # 0 BY <1>1, CountedFinite, FS_EmptySet
<1>3. QED BY <1>2, CountedFinite DEF CountInv

\* The initial states satisfy the invariant.
LEMMA InitServerInv == Init => ServerInv
<1> SUFFICES ASSUME Init PROVE ServerInv OBVIOUS
<1>1. Counted = {} /\ CountedAccepts = {}
      BY DEF Init, Counted, CountedPlaces, MappedPlaces, CountedAccepts
<1>2. CountInv BY <1>1, FS_EmptySet DEF Init, CountInv
<1>3. TypeOK BY ServerAssumption DEF Init, TypeOK
<1>4. WaitInv /\ Closed /\ Taken /\ AllEnded
      BY DEF Init, WaitInv, Closed, Taken, AllEnded, CountedPlaces, MappedPlaces
<1>5. QED BY <1>2, <1>3, <1>4 DEF ServerInv

\* Every step of the server keeps its variables in their types.
LEMMA TypeNext == ServerInv /\ [Next]_vars => TypeOK'
<1> SUFFICES ASSUME ServerInv, [Next]_vars PROVE TypeOK' OBVIOUS
<1>0. TypeOK /\ CountInv BY DEF ServerInv
<1> USE <1>0 DEF TypeOK, Acceptors, Goto, serverVars, stopVars, countVars, chanVars,
          peerVars, sockVars, acceptVars
<1>1. CASE Run
      BY <1>1 DEF Run, OnWindows
<1>2. CASE AllAccepting
      BY <1>2 DEF AllAccepting
<1>3. CASE AwaitStop
      BY <1>3 DEF AwaitStop
<1>4. CASE Stop
      BY <1>4 DEF Stop
<1>5. CASE ClearRunFlag
      BY <1>5 DEF ClearRunFlag, OnWindows
<1>6. CASE CloseFirst
      BY <1>6 DEF CloseFirst, CloseListen
<1>7. CASE SwapChannels
      BY <1>7 DEF SwapChannels, OnWindows
<1>8. CASE StopOne
      BY <1>8 DEF StopOne, ChannelStop
<1>9. CASE AwaitAllDone
      BY <1>9 DEF AwaitAllDone
<1>10. CASE RunEnds
      BY <1>10 DEF RunEnds, CloseListen
<1>11. ASSUME NEW a \in Accepts, AcceptBegins(a) PROVE TypeOK'
      BY <1>11 DEF AcceptBegins, Up
<1>12. ASSUME NEW a \in Accepts, AcceptFails(a) PROVE TypeOK'
      BY <1>12 DEF AcceptFails
<1>13. ASSUME NEW a \in Accepts, AcceptTest(a) PROVE TypeOK'
      BY <1>13 DEF AcceptTest
<1>14. ASSUME NEW a \in Accepts, AcceptAgain(a) PROVE TypeOK'
      BY <1>14 DEF AcceptAgain
<1>15. ASSUME NEW a \in Accepts, AcceptExit(a) PROVE TypeOK'
  <2>1. count_ - 1 \in Nat BY <1>15, AcceptExitPositive
  <2>2. count_' \in Nat /\ count_wait' \in BOOLEAN /\ spc' \in {spc, "join"}
        BY <1>15, <2>1 DEF AcceptExit, TaskDone
  <2>3. QED BY <1>15, <2>2 DEF AcceptExit
<1>16. ASSUME NEW a \in Accepts, NEW c \in Conns, AcceptEx(a, c) PROVE TypeOK'
      BY <1>16 DEF AcceptEx
<1>17. ASSUME NEW c \in Conns, Accept(c) PROVE TypeOK'
      BY <1>17 DEF Accept
<1>18. ASSUME NEW c \in Conns, CountUp(c) PROVE TypeOK'
      BY <1>18 DEF CountUp, Up
<1>19. ASSUME NEW c \in Conns, Insert(c) PROVE TypeOK'
  <2>1. key[c] \in Keys OBVIOUS
  <2>2. CASE StillRuns
    <3>1. channels_' \in [Keys -> Conns \cup {NoConn}] BY <1>19, <2>1, <2>2 DEF Insert
    <3>2. inserted' \in [Conns -> BOOLEAN] BY <1>19, <2>2 DEF Insert
    <3>3. pc' = [pc EXCEPT ![c] = "channel_run"] BY <1>19, <2>2 DEF Insert
    <3>4. QED BY <1>19, <3>1, <3>2, <3>3 DEF Insert
  <2>3. CASE ~StillRuns BY <1>19, <2>3 DEF Insert
  <2>4. QED BY <2>2, <2>3
<1>20. ASSUME NEW c \in Conns, Refuse(c) PROVE TypeOK'
      BY <1>20 DEF Refuse
<1>21. ASSUME NEW c \in Conns, ChannelRun(c) PROVE TypeOK'
      BY <1>21 DEF ChannelRun, Release
<1>22. ASSUME NEW c \in Conns, ChannelStart(c) PROVE TypeOK'
      BY <1>22 DEF ChannelStart
<1>23. ASSUME NEW c \in Conns, ChannelWait(c) PROVE TypeOK'
  <2>1. \/ chan' = [chan EXCEPT ![c] = "waiting"] /\ chan_wait' = [chan_wait EXCEPT ![c] = TRUE]
        \/ chan' = [chan EXCEPT ![c] = "stopping"] /\ UNCHANGED chan_wait
        BY <1>23 DEF ChannelWait
  <2>2. chan' \in [Conns -> {"none", "start", "await_stop", "waiting", "stopping", "draining", "done"}]
        /\ chan_wait' \in [Conns -> BOOLEAN]
        BY <2>1
  <2>3. QED BY <1>23, <2>2 DEF ChannelWait, Release
<1>24. ASSUME NEW c \in Conns, ChannelDrains(c) PROVE TypeOK'
      BY <1>24 DEF ChannelDrains
<1>25. ASSUME NEW c \in Conns, ChannelEnd(c) PROVE TypeOK'
      BY <1>25 DEF ChannelEnd
<1>26. ASSUME NEW c \in Conns, HandlerEnds(c) PROVE TypeOK'
      BY <1>26 DEF HandlerEnds, ChannelStop
<1>27. ASSUME NEW c \in Conns, AwaitChannel(c) PROVE TypeOK'
      BY <1>27 DEF AwaitChannel
<1>28. ASSUME NEW c \in Conns, JoinChannel(c) PROVE TypeOK'
      BY <1>28 DEF JoinChannel
<1>29. ASSUME NEW c \in Conns, Erase(c) PROVE TypeOK'
      BY <1>29 DEF Erase
<1>30. ASSUME NEW c \in Conns, CountDown(c) PROVE TypeOK'
  <2>1. count_ - 1 \in Nat BY <1>30, CountDownPositive
  <2>2. count_' \in Nat /\ count_wait' \in BOOLEAN /\ spc' \in {spc, "join"}
        BY <1>30, <2>1 DEF CountDown, TaskDone
  <2>3. QED BY <1>30, <2>2 DEF CountDown, Release
<1>31. ASSUME NEW c \in Conns, Connect(c) PROVE TypeOK'
      BY <1>31 DEF Connect
<1>32. ASSUME NEW c \in Conns, PeerClose(c) PROVE TypeOK'
      BY <1>32 DEF PeerClose
<1>33. ASSUME NEW c \in Conns, EndOfStream(c) PROVE TypeOK'
      BY <1>33 DEF EndOfStream, ChannelStop
<1>34. CASE UNCHANGED vars BY <1>34 DEF vars
<1>35. QED
  BY <1>1, <1>2, <1>3, <1>4, <1>5, <1>6, <1>7, <1>8, <1>9, <1>10, <1>11,
     <1>12, <1>13, <1>14, <1>15, <1>16, <1>17, <1>18, <1>19, <1>20, <1>21, <1>22,
     <1>23, <1>24, <1>25, <1>26, <1>27, <1>28, <1>29, <1>30, <1>31, <1>32, <1>33,
     <1>34
     DEF Next, RunSocket, ServerRun, AcceptLoop

\* The count follows the coroutines: only CountUp and CountDown change it, and
\* only they take a connection, or an Accept, into the counted or out of them.
LEMMA CountNext == ServerInv /\ [Next]_vars => CountInv'
<1> SUFFICES ASSUME ServerInv, [Next]_vars PROVE CountInv' OBVIOUS
<1>0. TypeOK /\ CountInv /\ Taken BY DEF ServerInv
<1> USE <1>0 DEF Goto, serverVars, stopVars, countVars, chanVars,
          peerVars, sockVars, acceptVars
<1>1. CASE Counted' = Counted /\ CountedAccepts' = CountedAccepts /\ UNCHANGED count_
      BY <1>1 DEF CountInv
<1>2. ASSUME NEW c \in Conns, CountUp(c) PROVE CountInv'
  <2>1. c \notin Counted /\ Counted' = Counted \cup {c} /\ CountedAccepts' = CountedAccepts
        BY <1>2 DEF CountUp, Counted, CountedPlaces, MappedPlaces, CountedAccepts, TypeOK
  <2>2. Cardinality(Counted') = Cardinality(Counted) + 1 BY <2>1, CountChanges
  <2>3. QED BY <1>2, <2>1, <2>2, CountedFinite DEF CountUp, Up, CountInv
<1>3. ASSUME NEW c \in Conns, CountDown(c) PROVE CountInv'
  <2>1. c \in Counted /\ Counted' = Counted \ {c} /\ CountedAccepts' = CountedAccepts
        BY <1>3 DEF CountDown, Counted, CountedPlaces, MappedPlaces, CountedAccepts, TypeOK
  <2>2. Cardinality(Counted') = Cardinality(Counted) - 1 BY <2>1, CountChanges
  <2>3. QED BY <1>3, <2>1, <2>2, CountedFinite DEF CountDown, TaskDone, CountInv
<1>4. ASSUME NEW a \in Accepts, AcceptBegins(a) PROVE CountInv'
  <2>1. /\ a \notin CountedAccepts /\ CountedAccepts' = CountedAccepts \cup {a}
        /\ Counted' = Counted
        BY <1>4 DEF AcceptBegins, Counted, CountedAccepts, TypeOK
  <2>2. Cardinality(CountedAccepts') = Cardinality(CountedAccepts) + 1
        BY <2>1, AcceptCountChanges
  <2>3. QED BY <1>4, <2>1, <2>2, CountedFinite DEF AcceptBegins, Up, CountInv
<1>5. ASSUME NEW a \in Accepts, AcceptExit(a) PROVE CountInv'
  <2>1. /\ a \in CountedAccepts /\ CountedAccepts' = CountedAccepts \ {a}
        /\ Counted' = Counted
        BY <1>5 DEF AcceptExit, Counted, CountedAccepts, TypeOK
  <2>2. Cardinality(CountedAccepts') = Cardinality(CountedAccepts) - 1
        BY <2>1, AcceptCountChanges
  <2>3. QED BY <1>5, <2>1, <2>2, CountedFinite DEF AcceptExit, TaskDone, CountInv
<1>6. ASSUME NEW a \in Accepts, AcceptFails(a) \/ AcceptTest(a) \/ AcceptAgain(a)
      PROVE  Counted' = Counted /\ CountedAccepts' = CountedAccepts /\ UNCHANGED count_
      BY <1>6 DEF AcceptFails, AcceptTest, AcceptAgain, Counted, CountedAccepts, TypeOK
<1>7. ASSUME NEW a \in Accepts, NEW c \in Conns, AcceptEx(a, c)
      PROVE  Counted' = Counted /\ CountedAccepts' = CountedAccepts /\ UNCHANGED count_
      BY <1>7 DEF AcceptEx, Counted, CountedPlaces, MappedPlaces, CountedAccepts, TypeOK
<1>8. ASSUME NEW c \in Conns,
             \/ Accept(c) \/ Insert(c) \/ Refuse(c) \/ ChannelRun(c) \/ ChannelStart(c)
             \/ ChannelWait(c) \/ ChannelDrains(c) \/ ChannelEnd(c) \/ HandlerEnds(c)
             \/ AwaitChannel(c) \/ JoinChannel(c) \/ Erase(c) \/ Connect(c) \/ PeerClose(c)
             \/ EndOfStream(c)
      PROVE  Counted' = Counted /\ CountedAccepts' = CountedAccepts /\ UNCHANGED count_
  <2>1. CountedAccepts' = CountedAccepts /\ UNCHANGED count_
        BY <1>8
           DEF Accept, Insert, Refuse, ChannelRun, ChannelStart, ChannelWait, ChannelDrains,
               ChannelEnd, HandlerEnds, AwaitChannel, JoinChannel, Erase, Connect, PeerClose,
               EndOfStream, CountedAccepts
  <2>2. \A d \in Conns : pc'[d] \in CountedPlaces <=> pc[d] \in CountedPlaces
        BY <1>8
           DEF Accept, Insert, Refuse, ChannelRun, ChannelStart, ChannelWait, ChannelDrains,
               ChannelEnd, HandlerEnds, AwaitChannel, JoinChannel, Erase, Connect, PeerClose,
               EndOfStream, CountedPlaces, MappedPlaces, TypeOK, Taken
  <2>3. QED BY <2>1, <2>2 DEF Counted
<1>9. CASE Run \/ Stop \/ ServerRun \/ UNCHANGED vars
  <2>1. CASE RunEnds \/ CloseFirst
    <3>1. Counted' = Counted /\ CountedAccepts' = CountedAccepts /\ UNCHANGED count_
          BY <2>1 DEF RunEnds, CloseFirst, CloseListen, Counted, CountedPlaces, MappedPlaces,
                      CountedAccepts
    <3>2. QED BY <1>1, <3>1
  <2>2. CASE ~RunEnds /\ ~CloseFirst
    <3>1. UNCHANGED <<pc, acc, count_>>
          BY <1>9, <2>2 DEF Run, Stop, ServerRun, AllAccepting, AwaitStop, ClearRunFlag,
                            SwapChannels, StopOne, AwaitAllDone, vars
    <3>2. QED BY <1>1, <3>1 DEF Counted, CountedAccepts
  <2>3. QED BY <2>1, <2>2
<1>10. QED BY <1>1, <1>2, <1>3, <1>4, <1>5, <1>6, <1>7, <1>8, <1>9
         DEF Next, RunSocket, AcceptLoop

\* Whoever begins to wait does so under the mutex that guards the condition,
\* and whoever makes the condition true looks for the waiting one.
LEMMA WaitNext == ServerInv /\ [Next]_vars => WaitInv'
<1> SUFFICES ASSUME ServerInv, [Next]_vars PROVE WaitInv' OBVIOUS
<1>0. TypeOK /\ CountInv /\ WaitInv /\ Closed /\ Taken BY DEF ServerInv
<1> USE <1>0 DEF TypeOK, WaitInv, Goto, serverVars, stopVars, countVars, chanVars,
          peerVars, sockVars, acceptVars
<1>1. CASE Run
      BY <1>1 DEF Run, OnWindows
<1>2. CASE AllAccepting
      BY <1>2 DEF AllAccepting
<1>3. CASE AwaitStop
      BY <1>3 DEF AwaitStop
<1>4. CASE Stop
      BY <1>4 DEF Stop
<1>5. CASE ClearRunFlag
      BY <1>5 DEF ClearRunFlag, OnWindows
<1>6. CASE CloseFirst
      BY <1>6 DEF CloseFirst, CloseListen
<1>7. CASE SwapChannels
      BY <1>7 DEF SwapChannels, OnWindows
<1>8. CASE StopOne
      BY <1>8 DEF StopOne, ChannelStop
<1>9. CASE AwaitAllDone
      BY <1>9 DEF AwaitAllDone
<1>10. CASE RunEnds
      BY <1>10 DEF RunEnds, CloseListen
<1>11. ASSUME NEW a \in Accepts, AcceptBegins(a) PROVE WaitInv'
      BY <1>11 DEF AcceptBegins, Up
<1>12. ASSUME NEW a \in Accepts, AcceptFails(a) PROVE WaitInv'
      BY <1>12 DEF AcceptFails
<1>13. ASSUME NEW a \in Accepts, AcceptTest(a) PROVE WaitInv'
      BY <1>13 DEF AcceptTest
<1>14. ASSUME NEW a \in Accepts, AcceptAgain(a) PROVE WaitInv'
      BY <1>14 DEF AcceptAgain
<1>15. ASSUME NEW a \in Accepts, AcceptExit(a) PROVE WaitInv'
      BY <1>15, AcceptExitPositive DEF AcceptExit, TaskDone, Resumes
<1>16. ASSUME NEW a \in Accepts, NEW c \in Conns, AcceptEx(a, c) PROVE WaitInv'
      BY <1>16 DEF AcceptEx
<1>17. ASSUME NEW c \in Conns, Accept(c) PROVE WaitInv'
      BY <1>17 DEF Accept
<1>18. ASSUME NEW c \in Conns, CountUp(c) PROVE WaitInv'
      BY <1>18 DEF CountUp, Up
<1>19. ASSUME NEW c \in Conns, Insert(c) PROVE WaitInv'
      BY <1>19 DEF Insert, StillRuns
<1>20. ASSUME NEW c \in Conns, Refuse(c) PROVE WaitInv'
      BY <1>20 DEF Refuse
<1>21. ASSUME NEW c \in Conns, ChannelRun(c) PROVE WaitInv'
      BY <1>21 DEF ChannelRun, Release, Taken
<1>22. ASSUME NEW c \in Conns, ChannelStart(c) PROVE WaitInv'
      BY <1>22 DEF ChannelStart
<1>23. ASSUME NEW c \in Conns, ChannelWait(c) PROVE WaitInv'
      BY <1>23 DEF ChannelWait, Release
<1>24. ASSUME NEW c \in Conns, ChannelDrains(c) PROVE WaitInv'
      BY <1>24 DEF ChannelDrains
<1>25. ASSUME NEW c \in Conns, ChannelEnd(c) PROVE WaitInv'
      BY <1>25 DEF ChannelEnd
<1>26. ASSUME NEW c \in Conns, HandlerEnds(c) PROVE WaitInv'
      BY <1>26 DEF HandlerEnds, ChannelStop
<1>27. ASSUME NEW c \in Conns, AwaitChannel(c) PROVE WaitInv'
      BY <1>27 DEF AwaitChannel
<1>28. ASSUME NEW c \in Conns, JoinChannel(c) PROVE WaitInv'
      BY <1>28 DEF JoinChannel
<1>29. ASSUME NEW c \in Conns, Erase(c) PROVE WaitInv'
      BY <1>29 DEF Erase
<1>30. ASSUME NEW c \in Conns, CountDown(c) PROVE WaitInv'
      BY <1>30, CountDownPositive DEF CountDown, TaskDone, Resumes
<1>31. ASSUME NEW c \in Conns, Connect(c) PROVE WaitInv'
      BY <1>31 DEF Connect
<1>32. ASSUME NEW c \in Conns, PeerClose(c) PROVE WaitInv'
      BY <1>32 DEF PeerClose
<1>33. ASSUME NEW c \in Conns, EndOfStream(c) PROVE WaitInv'
      BY <1>33 DEF EndOfStream, ChannelStop
<1>34. CASE UNCHANGED vars BY <1>34 DEF vars
<1>35. QED
  BY <1>1, <1>2, <1>3, <1>4, <1>5, <1>6, <1>7, <1>8, <1>9, <1>10, <1>11,
     <1>12, <1>13, <1>14, <1>15, <1>16, <1>17, <1>18, <1>19, <1>20, <1>21, <1>22,
     <1>23, <1>24, <1>25, <1>26, <1>27, <1>28, <1>29, <1>30, <1>31, <1>32, <1>33,
     <1>34
     DEF Next, RunSocket, ServerRun, AcceptLoop

\* Only Insert adds to the map, and only while run_flag_ is set; whoever leaves
\* RunSocket has erased its key.
LEMMA ClosedNext == ServerInv /\ [Next]_vars => Closed'
<1> SUFFICES ASSUME ServerInv, [Next]_vars PROVE Closed' OBVIOUS
<1>0. TypeOK /\ CountInv /\ WaitInv /\ Closed /\ Taken BY DEF ServerInv
<1> USE <1>0 DEF TypeOK, WaitInv, Closed, MappedPlaces, Goto, serverVars, stopVars, countVars, chanVars,
          peerVars, sockVars, acceptVars
<1>1. CASE Run
      BY <1>1 DEF Run, OnWindows
<1>2. CASE AllAccepting
      BY <1>2 DEF AllAccepting
<1>3. CASE AwaitStop
      BY <1>3 DEF AwaitStop
<1>4. CASE Stop
      BY <1>4 DEF Stop
<1>5. CASE ClearRunFlag
      BY <1>5 DEF ClearRunFlag, OnWindows
<1>6. CASE CloseFirst
      BY <1>6 DEF CloseFirst, CloseListen
<1>7. CASE SwapChannels
      BY <1>7 DEF SwapChannels, OnWindows
<1>8. CASE StopOne
      BY <1>8 DEF StopOne, ChannelStop
<1>9. CASE AwaitAllDone
      BY <1>9 DEF AwaitAllDone
<1>10. CASE RunEnds
      BY <1>10 DEF RunEnds, CloseListen
<1>11. ASSUME NEW a \in Accepts, AcceptBegins(a) PROVE Closed'
      BY <1>11 DEF AcceptBegins, Up
<1>12. ASSUME NEW a \in Accepts, AcceptFails(a) PROVE Closed'
      BY <1>12 DEF AcceptFails
<1>13. ASSUME NEW a \in Accepts, AcceptTest(a) PROVE Closed'
      BY <1>13 DEF AcceptTest
<1>14. ASSUME NEW a \in Accepts, AcceptAgain(a) PROVE Closed'
      BY <1>14 DEF AcceptAgain
<1>15. ASSUME NEW a \in Accepts, AcceptExit(a) PROVE Closed'
      BY <1>15 DEF AcceptExit, TaskDone, Resumes
<1>16. ASSUME NEW a \in Accepts, NEW c \in Conns, AcceptEx(a, c) PROVE Closed'
      BY <1>16 DEF AcceptEx
<1>17. ASSUME NEW c \in Conns, Accept(c) PROVE Closed'
      BY <1>17 DEF Accept
<1>18. ASSUME NEW c \in Conns, CountUp(c) PROVE Closed'
      BY <1>18 DEF CountUp, Up
<1>19. ASSUME NEW c \in Conns, Insert(c) PROVE Closed'
      BY <1>19 DEF Insert, StillRuns
<1>20. ASSUME NEW c \in Conns, Refuse(c) PROVE Closed'
      BY <1>20 DEF Refuse
<1>21. ASSUME NEW c \in Conns, ChannelRun(c) PROVE Closed'
      BY <1>21 DEF ChannelRun, Release
<1>22. ASSUME NEW c \in Conns, ChannelStart(c) PROVE Closed'
      BY <1>22 DEF ChannelStart
<1>23. ASSUME NEW c \in Conns, ChannelWait(c) PROVE Closed'
      BY <1>23 DEF ChannelWait, Release
<1>24. ASSUME NEW c \in Conns, ChannelDrains(c) PROVE Closed'
      BY <1>24 DEF ChannelDrains
<1>25. ASSUME NEW c \in Conns, ChannelEnd(c) PROVE Closed'
      BY <1>25 DEF ChannelEnd
<1>26. ASSUME NEW c \in Conns, HandlerEnds(c) PROVE Closed'
      BY <1>26 DEF HandlerEnds, ChannelStop
<1>27. ASSUME NEW c \in Conns, AwaitChannel(c) PROVE Closed'
      BY <1>27 DEF AwaitChannel
<1>28. ASSUME NEW c \in Conns, JoinChannel(c) PROVE Closed'
      BY <1>28 DEF JoinChannel
<1>29. ASSUME NEW c \in Conns, Erase(c) PROVE Closed'
      BY <1>29 DEF Erase
<1>30. ASSUME NEW c \in Conns, CountDown(c) PROVE Closed'
      BY <1>30 DEF CountDown, TaskDone, Resumes, Release
<1>31. ASSUME NEW c \in Conns, Connect(c) PROVE Closed'
      BY <1>31 DEF Connect, Taken
<1>32. ASSUME NEW c \in Conns, PeerClose(c) PROVE Closed'
      BY <1>32 DEF PeerClose
<1>33. ASSUME NEW c \in Conns, EndOfStream(c) PROVE Closed'
      BY <1>33 DEF EndOfStream, ChannelStop
<1>34. CASE UNCHANGED vars BY <1>34 DEF vars
<1>35. QED
  BY <1>1, <1>2, <1>3, <1>4, <1>5, <1>6, <1>7, <1>8, <1>9, <1>10, <1>11,
     <1>12, <1>13, <1>14, <1>15, <1>16, <1>17, <1>18, <1>19, <1>20, <1>21, <1>22,
     <1>23, <1>24, <1>25, <1>26, <1>27, <1>28, <1>29, <1>30, <1>31, <1>32, <1>33,
     <1>34
     DEF Next, RunSocket, ServerRun, AcceptLoop

\* A taken connection goes on from place to place; its channel, once done,
\* stays done.
LEMMA TakenNext == ServerInv /\ [Next]_vars => Taken'
<1> SUFFICES ASSUME ServerInv, [Next]_vars PROVE Taken' OBVIOUS
<1>0. TypeOK /\ CountInv /\ WaitInv /\ Closed /\ Taken BY DEF ServerInv
<1> USE <1>0 DEF TypeOK, Taken, WaitInv, CountedPlaces, MappedPlaces, Goto, serverVars, stopVars, countVars, chanVars,
          peerVars, sockVars, acceptVars
<1>1. CASE Run
      BY <1>1 DEF Run, OnWindows
<1>2. CASE AllAccepting
      BY <1>2 DEF AllAccepting
<1>3. CASE AwaitStop
      BY <1>3 DEF AwaitStop
<1>4. CASE Stop
      BY <1>4 DEF Stop
<1>5. CASE ClearRunFlag
      BY <1>5 DEF ClearRunFlag, OnWindows
<1>6. CASE CloseFirst
      BY <1>6 DEF CloseFirst, CloseListen
<1>7. CASE SwapChannels
      BY <1>7 DEF SwapChannels, OnWindows
<1>8. CASE StopOne
      BY <1>8 DEF StopOne, ChannelStop
<1>9. CASE AwaitAllDone
      BY <1>9 DEF AwaitAllDone
<1>10. CASE RunEnds
      BY <1>10 DEF RunEnds, CloseListen
<1>11. ASSUME NEW a \in Accepts, AcceptBegins(a) PROVE Taken'
      BY <1>11 DEF AcceptBegins, Up
<1>12. ASSUME NEW a \in Accepts, AcceptFails(a) PROVE Taken'
      BY <1>12 DEF AcceptFails
<1>13. ASSUME NEW a \in Accepts, AcceptTest(a) PROVE Taken'
      BY <1>13 DEF AcceptTest
<1>14. ASSUME NEW a \in Accepts, AcceptAgain(a) PROVE Taken'
      BY <1>14 DEF AcceptAgain
<1>15. ASSUME NEW a \in Accepts, AcceptExit(a) PROVE Taken'
      BY <1>15 DEF AcceptExit, TaskDone, Resumes
<1>16. ASSUME NEW a \in Accepts, NEW c \in Conns, AcceptEx(a, c) PROVE Taken'
      BY <1>16 DEF AcceptEx
<1>17. ASSUME NEW c \in Conns, Accept(c) PROVE Taken'
      BY <1>17 DEF Accept
<1>18. ASSUME NEW c \in Conns, CountUp(c) PROVE Taken'
      BY <1>18 DEF CountUp, Up
<1>19. ASSUME NEW c \in Conns, Insert(c) PROVE Taken'
      BY <1>19 DEF Insert, StillRuns
<1>20. ASSUME NEW c \in Conns, Refuse(c) PROVE Taken'
      BY <1>20 DEF Refuse
<1>21. ASSUME NEW c \in Conns, ChannelRun(c) PROVE Taken'
      BY <1>21 DEF ChannelRun, Release
<1>22. ASSUME NEW c \in Conns, ChannelStart(c) PROVE Taken'
      BY <1>22 DEF ChannelStart
<1>23. ASSUME NEW c \in Conns, ChannelWait(c) PROVE Taken'
      BY <1>23 DEF ChannelWait, Release
<1>24. ASSUME NEW c \in Conns, ChannelDrains(c) PROVE Taken'
      BY <1>24 DEF ChannelDrains
<1>25. ASSUME NEW c \in Conns, ChannelEnd(c) PROVE Taken'
      BY <1>25 DEF ChannelEnd
<1>26. ASSUME NEW c \in Conns, HandlerEnds(c) PROVE Taken'
      BY <1>26 DEF HandlerEnds, ChannelStop
<1>27. ASSUME NEW c \in Conns, AwaitChannel(c) PROVE Taken'
      BY <1>27 DEF AwaitChannel
<1>28. ASSUME NEW c \in Conns, JoinChannel(c) PROVE Taken'
      BY <1>28 DEF JoinChannel
<1>29. ASSUME NEW c \in Conns, Erase(c) PROVE Taken'
      BY <1>29 DEF Erase
<1>30. ASSUME NEW c \in Conns, CountDown(c) PROVE Taken'
      BY <1>30 DEF CountDown, TaskDone, Resumes, Release
<1>31. ASSUME NEW c \in Conns, Connect(c) PROVE Taken'
      BY <1>31 DEF Connect
<1>32. ASSUME NEW c \in Conns, PeerClose(c) PROVE Taken'
      BY <1>32 DEF PeerClose
<1>33. ASSUME NEW c \in Conns, EndOfStream(c) PROVE Taken'
      BY <1>33 DEF EndOfStream, ChannelStop
<1>34. CASE UNCHANGED vars BY <1>34 DEF vars
<1>35. QED
  BY <1>1, <1>2, <1>3, <1>4, <1>5, <1>6, <1>7, <1>8, <1>9, <1>10, <1>11,
     <1>12, <1>13, <1>14, <1>15, <1>16, <1>17, <1>18, <1>19, <1>20, <1>21, <1>22,
     <1>23, <1>24, <1>25, <1>26, <1>27, <1>28, <1>29, <1>30, <1>31, <1>32, <1>33,
     <1>34
     DEF Next, RunSocket, ServerRun, AcceptLoop

\* Run goes on behind its join only when the count is 0, so that all that was
\* taken has ended; and what has ended stays so, for nothing is taken any more.
LEMMA EndedNext == ServerInv /\ [Next]_vars => AllEnded'
<1> SUFFICES ASSUME ServerInv, [Next]_vars PROVE AllEnded' OBVIOUS
<1>0. TypeOK /\ WaitInv /\ Closed /\ Taken /\ AllEnded BY DEF ServerInv
<1> USE DEF Goto, serverVars, stopVars, countVars, chanVars,
          peerVars, sockVars, acceptVars
<1>1. TypeOK' /\ CountInv' /\ Taken' BY TypeNext, CountNext, TakenNext
<1>2. CASE count_' = 0
  <2>1. IsFiniteSet(Counted') /\ IsFiniteSet(CountedAccepts')
        BY ServerAssumption, FS_Subset DEF Counted, CountedAccepts
  <2>a. Cardinality(Counted') \in Nat /\ Cardinality(CountedAccepts') \in Nat
        BY <2>1, FS_CardinalityType
  <2>2. Counted' = {} BY <1>1, <1>2, <2>1, <2>a, FS_EmptySet DEF CountInv
  <2>3. QED BY <1>1, <2>2 DEF AllEnded, Taken, Counted
<1>3. ASSUME spc' \in {"join", "done"}, spc \notin {"join", "done"} PROVE count_' = 0
  <2>1. \/ AwaitAllDone \/ \E c \in Conns : CountDown(c)
        \/ \E a \in Accepts : AcceptExit(a)
        BY <1>0, <1>3
           DEF Next, Run, Stop, ServerRun, AllAccepting, AwaitStop, ClearRunFlag,
               CloseFirst, CloseListen, SwapChannels, StopOne, RunEnds, AcceptLoop,
               AcceptBegins, AcceptFails, AcceptTest, AcceptAgain, AcceptEx, RunSocket,
               Accept, CountUp, Insert, StillRuns, Refuse, ChannelRun, ChannelStart,
               ChannelWait, ChannelDrains, ChannelEnd, HandlerEnds, AwaitChannel,
               JoinChannel, Erase, Connect, PeerClose, EndOfStream, vars
  <2>2. CASE AwaitAllDone BY <1>3, <2>2 DEF AwaitAllDone
  <2>3. ASSUME NEW c \in Conns, CountDown(c) PROVE count_' = 0
        BY <1>3, <2>3 DEF CountDown, TaskDone, Resumes
  <2>4. ASSUME NEW a \in Accepts, AcceptExit(a) PROVE count_' = 0
        BY <1>3, <2>4 DEF AcceptExit, TaskDone, Resumes
  <2>5. QED BY <2>1, <2>2, <2>3, <2>4
<1>4. ASSUME spc \in {"join", "done"}, NEW d \in Conns, inserted'[d] PROVE pc'[d] = "end"
  <2>1. ~run_flag_ BY <1>0, <1>4 DEF Closed
  <2>2. inserted[d]
        BY <1>0, <1>4, <2>1
           DEF Next, Run, Stop, ServerRun, AllAccepting, AwaitStop, ClearRunFlag,
               CloseFirst, CloseListen, SwapChannels, StopOne, AwaitAllDone, RunEnds,
               AcceptLoop, AcceptBegins, AcceptFails, AcceptTest, AcceptAgain, AcceptExit,
               AcceptEx, RunSocket, Accept, CountUp, Insert, StillRuns, Refuse, ChannelRun,
               ChannelStart, ChannelWait, ChannelDrains, ChannelEnd, HandlerEnds,
               AwaitChannel, JoinChannel, Erase, CountDown, Connect, PeerClose, EndOfStream,
               vars
  <2>3. pc[d] = "end" BY <1>0, <1>4, <2>2 DEF AllEnded
  <2>4. peer[d] # "away" BY <1>0, <2>3 DEF Taken
  <2>5. pc'[d] = "end"
        BY <1>0, <2>3, <2>4
           DEF TypeOK, Goto, Next, Run, Stop, ServerRun, AllAccepting, AwaitStop,
               ClearRunFlag, CloseFirst, CloseListen, SwapChannels, StopOne, AwaitAllDone,
               RunEnds, AcceptLoop, AcceptBegins, AcceptFails, AcceptTest, AcceptAgain,
               AcceptExit, AcceptEx, RunSocket, Accept, CountUp, Insert, StillRuns, Refuse,
               ChannelRun, ChannelStart, ChannelWait, ChannelDrains, ChannelEnd,
               HandlerEnds, AwaitChannel, JoinChannel, Erase, CountDown, Connect, PeerClose,
               EndOfStream, vars
  <2>6. QED BY <2>5
<1>5. QED BY <1>2, <1>3, <1>4 DEF AllEnded

\* Every step keeps the invariant.
LEMMA ServerInvNext == ServerInv /\ [Next]_vars => ServerInv'
BY TypeNext, CountNext, WaitNext, ClosedNext, TakenNext, EndedNext DEF ServerInv

\* The invariant holds in every reachable state.
LEMMA ServerInvariant == Spec => []ServerInv
BY InitServerInv, ServerInvNext, PTL DEF Spec

\* The variables of the server keep their types.
THEOREM ServerTypes == Spec => []TypeOK
<1>1. ServerInv => TypeOK BY DEF ServerInv
<1>2. QED BY <1>1, ServerInvariant, PTL

\* assert(channels_.empty()) at the end of TcpServer::Run
\* (linux/tcp_server.cpp:110, windows/tcp_server.cpp:156) never fails, for any
\* connections, keys and interleaving.
THEOREM ServerChannelsEmpty == Spec => []ChannelsEmpty
<1>1. ASSUME ServerInv PROVE ChannelsEmpty
  <2>1. SUFFICES ASSUME spc \in {"join", "done"}, NEW k \in Keys, channels_[k] # NoConn
                 PROVE  FALSE
        BY DEF ChannelsEmpty
  <2>2. PICK c \in Conns : c = channels_[k] BY <1>1, <2>1 DEF ServerInv, TypeOK
  <2>3. pc[c] \in MappedPlaces BY <1>1, <2>1, <2>2 DEF ServerInv, Closed
  <2>4. inserted[c] BY <1>1, <2>3 DEF ServerInv, Taken
  <2>5. pc[c] = "end" BY <1>1, <2>1, <2>4 DEF ServerInv, AllEnded
  <2>6. QED BY <2>3, <2>5 DEF MappedPlaces
<1>2. QED BY <1>1, ServerInvariant, PTL

\* When TcpServer::Run returns, the handler of every connection it took has
\* returned and its channel has ended (linux/tcp_server.cpp:109, 221-222,
\* 249-260; windows/tcp_server.cpp:155, 320-330).
THEOREM ServerNoHandlerOutlivesRun == Spec => []NoHandlerOutlivesRun
<1>1. ServerInv => NoHandlerOutlivesRun
      BY DEF ServerInv, AllEnded, Taken, NoHandlerOutlivesRun
<1>2. QED BY <1>1, ServerInvariant, PTL

\* Run waits only while somebody is left to count down, and nobody waits on after
\* a Stop that came behind Start (co_wait_all_tasks_done.h:45-84,
\* co_wait_util_stop.h:76-108).  A channel stopped before its Start does.
THEOREM ServerNobodyWaitsInVain == Spec => []NobodyWaitsInVain
<1>1. ASSUME ServerInv, spc = "joining"
      PROVE  (\E c \in Conns : InRunSocket(c)) \/ (\E a \in Accepts : acc[a] # "off")
  <2>1. Cardinality(Counted) # 0 \/ Cardinality(CountedAccepts) # 0
        BY <1>1, CountedFinite DEF ServerInv, CountInv, WaitInv
  <2>2. Counted # {} \/ CountedAccepts # {} BY <2>1, FS_EmptySet
  <2>3. QED BY <2>2 DEF Counted, CountedAccepts, CountedPlaces, MappedPlaces, InRunSocket
<1>2. ServerInv => NobodyWaitsInVain BY <1>1 DEF ServerInv, WaitInv, NobodyWaitsInVain
<1>3. QED BY <1>2, ServerInvariant, PTL
==============================================================================
