--------------------------- MODULE ThreadsExecProofs ---------------------------
(***************************************************************************)
(* Theorems about ThreadsExec, for any number of workers, tasks and starts:*)
(* no task is left to a busy worker while another sleeps, and Stop leaves  *)
(* no task behind that was queued before it began.                         *)
(***************************************************************************)
EXTENDS ThreadsExec, FiniteSetTheorems, TLAPS

------------------------------------------------------------------------------
(* The inductive invariant *)

Pushed(t) == ppc[t] \in {"notify", "posted"}

Notifying == {t \in Tasks : ppc[t] = "notify"}

NoDup(q) == \A i, j \in 1..Len(q) : q[i] = q[j] => i = j

\* A task is in one place only.
Home ==
    /\ NoDup(data_queue_)
    /\ \A t \in Elems(data_queue_) : ran[t] = 0 /\ Pushed(t) /\ \A w \in Workers : hand[w] # t
    /\ \A w \in Workers :
          /\ hand[w] # None <=> wpc[w] \in {"run", "run_rest"}
          /\ hand[w] # None => /\ ran[hand[w]] = 0 /\ Pushed(hand[w])
                               /\ \A v \in Workers : hand[v] = hand[w] => v = w
    /\ \A t \in Tasks : ran[t] = 1 => Pushed(t)
    /\ IsFiniteSet(Notifying)

\* How far the workers are while the executor runs, stops, and has stopped.
Phases ==
    /\ \A w \in waiting : wpc[w] = "wait"
    /\ IsFiniteSet(team) /\ team # {}
    /\ cpc = "started" => ~stop_ /\ \A w \in Workers : wpc[w] \notin {"drain", "run_rest", "exit"}
    /\ cpc = "stopped" => \A w \in Workers : wpc[w] \in {"none", "exit"}
    /\ \A w \in Workers : wpc[w] = "none" <=> starts = 0 \/ w \notin team
    /\ cpc \in {"started", "quit", "quit_notify", "join", "terminated"} => starts # 0

\* What was queued when Stop began is still queued, in a hand, or has been run; a
\* worker that ended saw the queue without it.
EarlyKept ==
    /\ \A t \in early : Pushed(t)
    /\ cpc \in {"quit", "quit_notify", "join"} =>
          \A t \in early :
             /\ t \in Elems(data_queue_) \/ (\E w \in Workers : hand[w] = t) \/ ran[t] = 1
             /\ \A w \in Workers : wpc[w] = "exit" => t \notin Elems(data_queue_)
    /\ cpc = "stopped" => \A t \in early : ran[t] = 1

ExecInv == TypeOK /\ Home /\ Phases /\ EarlyKept /\ NoLostWakeup


------------------------------------------------------------------------------
(* The queue as a sequence without duplicates *)

\* Push: the task is the only new element.
LEMMA ElemsAppend ==
    ASSUME NEW S, NEW q \in Seq(S), NEW e \in S
    PROVE  /\ Append(q, e) \in Seq(S) /\ Len(Append(q, e)) = Len(q) + 1
           /\ Elems(Append(q, e)) = Elems(q) \cup {e}
           /\ NoDup(q) /\ e \notin Elems(q) => NoDup(Append(q, e))
<1> DEFINE r == Append(q, e)
<1>1. r \in Seq(S) /\ Len(r) = Len(q) + 1 /\ r[Len(q) + 1] = e /\ \A i \in 1..Len(q) : r[i] = q[i]
  OBVIOUS
<1>2. Len(q) \in Nat
  OBVIOUS
<1> HIDE DEF r
<1>3. Elems(r) = Elems(q) \cup {e}
  <2>1. \A i \in 1..Len(r) : r[i] \in Elems(q) \cup {e} BY <1>1, <1>2 DEF Elems
  <2>2. \A i \in 1..Len(q) : q[i] \in Elems(r) BY <1>1, <1>2 DEF Elems
  <2>3. e \in Elems(r) BY <1>1, <1>2 DEF Elems
  <2>4. QED BY <2>1, <2>2, <2>3 DEF Elems
<1>4. NoDup(q) /\ e \notin Elems(q) => NoDup(r)
  BY <1>1, <1>2 DEF NoDup, Elems
<1>5. QED BY <1>1, <1>3, <1>4 DEF r

\* Pop: the head is the only element that goes.
LEMMA ElemsTail ==
    ASSUME NEW S, NEW q \in Seq(S), q # << >>
    PROVE  /\ Head(q) \in S /\ Head(q) \in Elems(q)
           /\ Tail(q) \in Seq(S) /\ Len(Tail(q)) = Len(q) - 1
           /\ NoDup(q) => NoDup(Tail(q)) /\ Elems(Tail(q)) = Elems(q) \ {Head(q)}
<1> DEFINE r == Tail(q)
           h == Head(q)
<1>1. Len(q) \in Nat \ {0} /\ h = q[1] /\ h \in S /\ r \in Seq(S)
  OBVIOUS
<1>2. Len(r) = Len(q) - 1 /\ \A i \in 1..Len(r) : r[i] = q[i + 1]
  OBVIOUS
<1> HIDE DEF r, h
<1>3. h \in Elems(q) BY <1>1 DEF Elems
<1>4. ASSUME NoDup(q) PROVE NoDup(r) /\ Elems(r) = Elems(q) \ {h}
  <2>1. NoDup(r)
    <3> SUFFICES ASSUME NEW i \in 1..Len(r), NEW j \in 1..Len(r), r[i] = r[j] PROVE i = j
      BY DEF NoDup
    <3>1. i + 1 \in 1..Len(q) /\ j + 1 \in 1..Len(q) /\ q[i + 1] = q[j + 1] BY <1>1, <1>2
    <3>2. i + 1 = j + 1 BY <3>1, <1>4 DEF NoDup
    <3>3. QED BY <3>2
  <2>2. ASSUME NEW i \in 1..Len(r) PROVE r[i] \in Elems(q) /\ r[i] # h
    <3>1. i + 1 \in 1..Len(q) /\ 1 \in 1..Len(q) /\ i + 1 # 1 /\ r[i] = q[i + 1] BY <1>1, <1>2
    <3>2. QED BY <3>1, <1>1, <1>4 DEF NoDup, Elems
  <2>3. ASSUME NEW i \in 1..Len(q), q[i] # h PROVE q[i] \in Elems(r)
    <3>1. i - 1 \in 1..Len(r) /\ r[i - 1] = q[i] BY <2>3, <1>1, <1>2
    <3>2. QED BY <3>1 DEF Elems
  <2>4. Elems(r) \subseteq Elems(q) \ {h} BY <2>2 DEF Elems
  <2>5. Elems(q) \ {h} \subseteq Elems(r) BY <2>3 DEF Elems
  <2>6. QED BY <2>1, <2>4, <2>5
<1>5. QED BY <1>1, <1>2, <1>3, <1>4 DEF r, h

\* The elements of a queue of tasks are tasks, and an empty queue has none.
LEMMA ElemsOf ==
    ASSUME NEW S, NEW q \in Seq(S)
    PROVE  Elems(q) \subseteq S /\ (q = << >> <=> Elems(q) = {}) /\ Len(q) \in Nat
<1>1. Len(q) \in Nat /\ (q = << >> <=> Len(q) = 0) /\ \A i \in 1..Len(q) : q[i] \in S
  OBVIOUS
<1>2. q # << >> => q[1] \in Elems(q) BY <1>1 DEF Elems
<1>3. q = << >> => Elems(q) = {} BY <1>1 DEF Elems
<1>4. QED BY <1>1, <1>2, <1>3 DEF Elems

------------------------------------------------------------------------------
(* Every step keeps the invariant *)

\* The types.
LEMMA ExecTypesStep == ExecInv /\ [Next]_vars => TypeOK'
<1> SUFFICES ASSUME ExecInv, [Next]_vars PROVE TypeOK'
  OBVIOUS
<1> USE ExecAssumption DEF ExecInv, TypeOK, classVars, queueVars, flagVars, workVars, histVars
<1>1. CASE Start
  <2>1. runing_' \in BOOLEAN BY <1>1 DEF Start
  <2>2. stop_' \in BOOLEAN BY <1>1 DEF Start
  <2>3. Cardinality(team) \in Nat BY FS_CardinalityType DEF Phases
  <2>4. threads_' \in Nat BY <1>1, <2>3 DEF Start
  <2>5. wpc' \in [Workers -> {"none", "test", "pop", "wait", "run", "drain", "run_rest", "exit"}]
    BY <1>1 DEF Start
  <2>6. QED BY <1>1, <2>1, <2>2, <2>4, <2>5 DEF Start
<1>2. CASE Stop
  <2>1. early' \subseteq Tasks BY <1>2, ElemsOf DEF Stop
  <2>2. QED BY <1>2, <2>1 DEF Stop
<1>3. CASE QuitAllWait
  BY <1>3 DEF QuitAllWait
<1>4. CASE QuitNotify
  BY <1>4 DEF QuitNotify, Woken
<1>5. CASE Join
  <2>1. Cardinality(Workers) \in Nat BY FS_CardinalityType
  <2>2. threads_' \in Nat BY <1>5, <2>1 DEF Join
  <2>3. QED BY <1>5, <2>2 DEF Join
<1>6. ASSUME NEW t \in Tasks, PostAssert(t) PROVE TypeOK'
  BY <1>6 DEF PostAssert
<1>7. ASSUME NEW t \in Tasks, Push(t) PROVE TypeOK'
  <2>1. data_queue_' \in Seq(Tasks) BY <1>7, ElemsAppend DEF Push
  <2>2. QED BY <1>7, <2>1 DEF Push
<1>8. ASSUME NEW t \in Tasks, PushNotify(t) PROVE TypeOK'
  BY <1>8 DEF PushNotify, Notify
<1>9. ASSUME NEW w \in Workers, TestStop(w) PROVE TypeOK'
  BY <1>9 DEF TestStop
<1>10. ASSUME NEW w \in Workers, PopTask(w) PROVE TypeOK'
  <2>1. data_queue_' \in Seq(Tasks) /\ Head(data_queue_) \in Tasks BY <1>10, ElemsTail DEF PopTask, Take, Popped
  <2>2. QED BY <1>10, <2>1 DEF PopTask, Take, CatchUp
<1>11. ASSUME NEW w \in Workers, PopQuit(w) PROVE TypeOK'
  BY <1>11 DEF PopQuit, CatchUp
<1>12. ASSUME NEW w \in Workers, PopWait(w) PROVE TypeOK'
  BY <1>12 DEF PopWait
<1>13. ASSUME NEW w \in Workers, RunTask(w) PROVE TypeOK'
  <2>1. hand[w] # None /\ ran[hand[w]] = 0 BY <1>13 DEF RunTask, Home
  <2>2. ran' \in [Tasks -> 0..1] BY <1>13, <2>1 DEF RunTask
  <2>3. QED BY <1>13, <2>2 DEF RunTask
<1>14. ASSUME NEW w \in Workers, DrainTask(w) PROVE TypeOK'
  <2>1. data_queue_' \in Seq(Tasks) /\ Head(data_queue_) \in Tasks BY <1>14, ElemsTail DEF DrainTask, Take, Popped, Rest
  <2>2. QED BY <1>14, <2>1 DEF DrainTask, Take
<1>15. ASSUME NEW w \in Workers, Exit(w) PROVE TypeOK'
  BY <1>15 DEF Exit
<1>16. ASSUME NEW w \in Workers, SpuriousWake(w) PROVE TypeOK'
  BY <1>16 DEF SpuriousWake
<1>17. CASE UNCHANGED vars
  BY <1>17 DEF vars
<1>100. CASE JoinThrows
  BY <1>100 DEF JoinThrows
<1>18. QED
  BY <1>100, <1>1, <1>2, <1>3, <1>4, <1>5, <1>6, <1>7, <1>8, <1>9, <1>10, <1>11, <1>12, <1>13, <1>14, <1>15, <1>16, <1>17 DEF Next, Stopping, Posting, WorkerRun

\* How far the workers are.
LEMMA ExecPhasesStep == ExecInv /\ [Next]_vars => Phases'
<1> SUFFICES ASSUME ExecInv, [Next]_vars PROVE Phases'
  OBVIOUS
<1> USE ExecAssumption DEF ExecInv, TypeOK, Phases, classVars, queueVars, flagVars, workVars, histVars
<1>1. CASE Start
  BY <1>1 DEF Start
<1>2. CASE Stop
  BY <1>2 DEF Stop
<1>3. CASE QuitAllWait
  BY <1>3 DEF QuitAllWait
<1>4. CASE QuitNotify
  BY <1>4 DEF QuitNotify, Woken
<1>5. CASE Join
  BY <1>5 DEF Join
<1>6. ASSUME NEW t \in Tasks, PostAssert(t) PROVE Phases'
  BY <1>6 DEF PostAssert
<1>7. ASSUME NEW t \in Tasks, Push(t) PROVE Phases'
  BY <1>7 DEF Push
<1>8. ASSUME NEW t \in Tasks, PushNotify(t) PROVE Phases'
  BY <1>8 DEF PushNotify, Notify
<1>9. ASSUME NEW w \in Workers, TestStop(w) PROVE Phases'
  <2>1. cpc = "started" => wpc'[w] = "pop" BY <1>9 DEF TestStop, SeenStop
  <2>2. cpc # "stopped" /\ wpc'[w] \in {"pop", "drain"} BY <1>9 DEF TestStop, SeenStop
  <2>3. wpc' = [wpc EXCEPT ![w] = wpc'[w]] BY <1>9, <2>2 DEF TestStop
  <2>4. QED BY <1>9, <2>1, <2>2, <2>3 DEF TestStop
<1>10. ASSUME NEW w \in Workers, PopTask(w) PROVE Phases'
  BY <1>10 DEF PopTask, Take
<1>11. ASSUME NEW w \in Workers, PopQuit(w) PROVE Phases'
  BY <1>11 DEF PopQuit
<1>12. ASSUME NEW w \in Workers, PopWait(w) PROVE Phases'
  BY <1>12 DEF PopWait
<1>13. ASSUME NEW w \in Workers, RunTask(w) PROVE Phases'
  BY <1>13 DEF RunTask
<1>14. ASSUME NEW w \in Workers, DrainTask(w) PROVE Phases'
  BY <1>14 DEF DrainTask, Take
<1>15. ASSUME NEW w \in Workers, Exit(w) PROVE Phases'
  BY <1>15 DEF Exit
<1>16. ASSUME NEW w \in Workers, SpuriousWake(w) PROVE Phases'
  BY <1>16 DEF SpuriousWake
<1>17. CASE UNCHANGED vars
  BY <1>17 DEF vars
<1>100. CASE JoinThrows
  BY <1>100 DEF JoinThrows
<1>18. QED
  BY <1>100, <1>1, <1>2, <1>3, <1>4, <1>5, <1>6, <1>7, <1>8, <1>9, <1>10, <1>11, <1>12, <1>13, <1>14, <1>15, <1>16, <1>17 DEF Next, Stopping, Posting, WorkerRun


\* A task is in one place only, after every step.
LEMMA ExecHomeStep == ExecInv /\ [Next]_vars => Home'
<1> SUFFICES ASSUME ExecInv, [Next]_vars PROVE Home'
  OBVIOUS
<1> USE ExecAssumption DEF ExecInv, TypeOK, Home, Pushed, Notifying, classVars, queueVars, flagVars, workVars, histVars
<1>1. CASE Start
  BY <1>1 DEF Start, Phases
<1>2. CASE Stop
  BY <1>2 DEF Stop
<1>3. CASE QuitAllWait
  BY <1>3 DEF QuitAllWait
<1>4. CASE QuitNotify
  BY <1>4 DEF QuitNotify
<1>5. CASE Join
  BY <1>5 DEF Join
<1>6. ASSUME NEW t \in Tasks, PostAssert(t) PROVE Home'
  <2>1. Notifying' = Notifying BY <1>6 DEF PostAssert
  <2> HIDE DEF Notifying
  <2>2. QED BY <1>6, <2>1 DEF PostAssert
<1>7. ASSUME NEW t \in Tasks, Push(t) PROVE Home'
  <2>1. t \notin Elems(data_queue_) /\ ran[t] = 0 /\ \A w \in Workers : hand[w] # t
    BY <1>7 DEF Push
  <2>2. Elems(data_queue_') = Elems(data_queue_) \cup {t} /\ NoDup(data_queue_')
    BY <1>7, <2>1, ElemsAppend DEF Push
  <2>3. Notifying' = Notifying \cup {t} BY <1>7 DEF Push
  <2>4. \A u \in Tasks : Pushed(u)' <=> Pushed(u) \/ u = t BY <1>7 DEF Push
  <2> HIDE DEF Notifying, Pushed
  <2>5. IsFiniteSet(Notifying') BY <2>3, FS_AddElement
  <2>6. QED BY <1>7, <2>1, <2>2, <2>4, <2>5, ElemsOf DEF Push
<1>8. ASSUME NEW t \in Tasks, PushNotify(t) PROVE Home'
  <2>1. Notifying' = Notifying \ {t} BY <1>8 DEF PushNotify
  <2>2. \A u \in Tasks : Pushed(u)' <=> Pushed(u) BY <1>8 DEF PushNotify
  <2> HIDE DEF Notifying, Pushed
  <2>3. IsFiniteSet(Notifying') BY <2>1, FS_RemoveElement
  <2>4. QED BY <1>8, <2>2, <2>3, ElemsOf DEF PushNotify
<1>9. ASSUME NEW w \in Workers, TestStop(w) PROVE Home'
  BY <1>9 DEF TestStop
<1>10. ASSUME NEW w \in Workers, PopTask(w) PROVE Home'
  <2> DEFINE h == Head(data_queue_)
  <2>1. h \in Tasks /\ h \in Elems(data_queue_) /\ NoDup(data_queue_')
        /\ Elems(data_queue_') = Elems(data_queue_) \ {h}
    BY <1>10, ElemsTail DEF PopTask, Take, Popped
  <2>2. hand' = [hand EXCEPT ![w] = h] /\ ran' = ran /\ ppc' = ppc /\ wpc' = [wpc EXCEPT ![w] = "run"]
    BY <1>10 DEF PopTask, Take
  <2> HIDE DEF h
  <2>3. ran[h] = 0 /\ Pushed(h) /\ (\A v \in Workers : hand[v] # h) /\ h # None
    BY <2>1
  <2>4. \A v \in Workers : hand'[v] # None => ran[hand'[v]] = 0 /\ Pushed(hand'[v])
                              /\ \A u \in Workers : hand'[u] = hand'[v] => u = v
    BY <2>2, <2>3
  <2>5. \A v \in Workers : hand'[v] # None <=> wpc'[v] \in {"run", "run_rest"}
    BY <2>2, <2>3
  <2>6. \A t \in Elems(data_queue_') : \A v \in Workers : hand'[v] # t
    BY <2>1, <2>2
  <2>7. QED BY <2>1, <2>2, <2>4, <2>5, <2>6
<1>11. ASSUME NEW w \in Workers, PopQuit(w) PROVE Home'
  BY <1>11 DEF PopQuit
<1>12. ASSUME NEW w \in Workers, PopWait(w) PROVE Home'
  BY <1>12 DEF PopWait
<1>13. ASSUME NEW w \in Workers, RunTask(w) PROVE Home'
  <2> DEFINE x == hand[w]
  <2>1. x \in Tasks /\ x # None /\ ran[x] = 0 /\ Pushed(x) /\ x \notin Elems(data_queue_)
    BY <1>13 DEF RunTask
  <2>2. ran' = [ran EXCEPT ![x] = 1] /\ hand' = [hand EXCEPT ![w] = None]
    BY <1>13, <2>1 DEF RunTask
  <2>3. wpc' = [wpc EXCEPT ![w] = IF wpc[w] = "run" THEN "test" ELSE "drain"] /\ UNCHANGED <<data_queue_, ppc>>
    BY <1>13 DEF RunTask
  <2> HIDE DEF x
  <2>4. \A v \in Workers : v # w => hand[v] # x BY <2>1 DEF x
  <2>5. \A v \in Workers : hand'[v] # None <=> wpc'[v] \in {"run", "run_rest"}
    BY <2>2, <2>3
  <2>6. \A v \in Workers : hand'[v] # None => ran'[hand'[v]] = 0 /\ Pushed(hand'[v])
                              /\ \A u \in Workers : hand'[u] = hand'[v] => u = v
    BY <2>1, <2>2, <2>4
  <2>7. \A t \in Elems(data_queue_) : ran'[t] = 0 /\ \A v \in Workers : hand'[v] # t
    BY <2>1, <2>2, ElemsOf
  <2>8. QED BY <2>1, <2>2, <2>3, <2>5, <2>6, <2>7
<1>14. ASSUME NEW w \in Workers, DrainTask(w) PROVE Home'
  <2> DEFINE h == Head(data_queue_)
  <2>1. h \in Tasks /\ h \in Elems(data_queue_) /\ NoDup(data_queue_')
        /\ Elems(data_queue_') = Elems(data_queue_) \ {h}
    BY <1>14, ElemsTail DEF DrainTask, Take, Popped, Rest
  <2>2. hand' = [hand EXCEPT ![w] = h] /\ ran' = ran /\ ppc' = ppc /\ wpc' = [wpc EXCEPT ![w] = "run_rest"]
    BY <1>14 DEF DrainTask, Take
  <2> HIDE DEF h
  <2>3. ran[h] = 0 /\ Pushed(h) /\ (\A v \in Workers : hand[v] # h) /\ h # None
    BY <2>1
  <2>4. \A v \in Workers : hand'[v] # None => ran[hand'[v]] = 0 /\ Pushed(hand'[v])
                              /\ \A u \in Workers : hand'[u] = hand'[v] => u = v
    BY <2>2, <2>3
  <2>5. \A v \in Workers : hand'[v] # None <=> wpc'[v] \in {"run", "run_rest"}
    BY <2>2, <2>3
  <2>6. \A t \in Elems(data_queue_') : \A v \in Workers : hand'[v] # t
    BY <2>1, <2>2
  <2>7. QED BY <2>1, <2>2, <2>4, <2>5, <2>6
<1>15. ASSUME NEW w \in Workers, Exit(w) PROVE Home'
  BY <1>15 DEF Exit
<1>16. ASSUME NEW w \in Workers, SpuriousWake(w) PROVE Home'
  BY <1>16 DEF SpuriousWake
<1>17. CASE UNCHANGED vars
  BY <1>17 DEF vars
<1>100. CASE JoinThrows
  BY <1>100 DEF JoinThrows
<1>18. QED
  BY <1>100, <1>1, <1>2, <1>3, <1>4, <1>5, <1>6, <1>7, <1>8, <1>9, <1>10, <1>11, <1>12, <1>13, <1>14, <1>15, <1>16, <1>17 DEF Next, Stopping, Posting, WorkerRun

\* What was queued when Stop began is not lost.
LEMMA ExecEarlyStep == ExecInv /\ [Next]_vars => EarlyKept'
<1> SUFFICES ASSUME ExecInv, [Next]_vars PROVE EarlyKept'
  OBVIOUS
<1> USE ExecAssumption DEF ExecInv, TypeOK, EarlyKept, Pushed, classVars, queueVars, flagVars, workVars, histVars
<1>1. CASE Start
  BY <1>1 DEF Start
<1>2. CASE Stop
  BY <1>2 DEF Stop, Home, Phases
<1>3. CASE QuitAllWait
  BY <1>3 DEF QuitAllWait
<1>4. CASE QuitNotify
  BY <1>4 DEF QuitNotify
<1>5. CASE Join
  <2>1. \A w \in Workers : hand[w] = None BY <1>5 DEF Join, Home, Phases
  <2>2. \A t \in early : t \notin Elems(data_queue_) /\ t # None BY <1>5 DEF Join, Phases
  <2>3. \A t \in early : ran[t] = 1 BY <1>5, <2>1, <2>2 DEF Join
  <2>4. QED BY <1>5, <2>3 DEF Join
<1>6. ASSUME NEW t \in Tasks, PostAssert(t) PROVE EarlyKept'
  BY <1>6 DEF PostAssert
<1>7. ASSUME NEW t \in Tasks, Push(t) PROVE EarlyKept'
  <2>1. t \notin early BY <1>7 DEF Push
  <2>2. Elems(data_queue_') = Elems(data_queue_) \cup {t} BY <1>7, ElemsAppend DEF Push
  <2>3. QED BY <1>7, <2>1, <2>2 DEF Push
<1>8. ASSUME NEW t \in Tasks, PushNotify(t) PROVE EarlyKept'
  BY <1>8 DEF PushNotify
<1>9. ASSUME NEW w \in Workers, TestStop(w) PROVE EarlyKept'
  BY <1>9 DEF TestStop
<1>10. ASSUME NEW w \in Workers, PopTask(w) PROVE EarlyKept'
  <2>1. Head(data_queue_) \in Tasks /\ Elems(data_queue_') = Elems(data_queue_) \ {Head(data_queue_)}
    BY <1>10, ElemsTail DEF PopTask, Take, Popped, Home
  <2>2. hand[w] = None /\ hand' = [hand EXCEPT ![w] = Head(data_queue_)]
    BY <1>10 DEF PopTask, Take, Home
  <2>3. QED BY <1>10, <2>1, <2>2 DEF PopTask, Take
<1>11. ASSUME NEW w \in Workers, PopQuit(w) PROVE EarlyKept'
  BY <1>11 DEF PopQuit
<1>12. ASSUME NEW w \in Workers, PopWait(w) PROVE EarlyKept'
  BY <1>12 DEF PopWait
<1>13. ASSUME NEW w \in Workers, RunTask(w) PROVE EarlyKept'
  <2>1. hand[w] \in Tasks /\ ran[hand[w]] = 0 BY <1>13 DEF RunTask, Home
  <2>2. ran' = [ran EXCEPT ![hand[w]] = 1] /\ hand' = [hand EXCEPT ![w] = None] BY <1>13, <2>1 DEF RunTask
  <2>3. cpc # "stopped" BY <1>13 DEF RunTask, Phases
  <2>4. QED BY <1>13, <2>1, <2>2, <2>3 DEF RunTask
<1>14. ASSUME NEW w \in Workers, DrainTask(w) PROVE EarlyKept'
  <2>1. Head(data_queue_) \in Tasks /\ Elems(data_queue_') = Elems(data_queue_) \ {Head(data_queue_)}
    BY <1>14, ElemsTail DEF DrainTask, Take, Popped, Rest, Home
  <2>2. hand[w] = None /\ hand' = [hand EXCEPT ![w] = Head(data_queue_)]
    BY <1>14 DEF DrainTask, Take, Home
  <2>3. QED BY <1>14, <2>1, <2>2 DEF DrainTask, Take
<1>15. ASSUME NEW w \in Workers, Exit(w) PROVE EarlyKept'
  <2>1. Elems(data_queue_) = {} BY <1>15, ElemsOf DEF Exit, Rest
  <2>2. QED BY <1>15, <2>1 DEF Exit
<1>16. ASSUME NEW w \in Workers, SpuriousWake(w) PROVE EarlyKept'
  BY <1>16 DEF SpuriousWake
<1>17. CASE UNCHANGED vars
  BY <1>17 DEF vars
<1>100. CASE JoinThrows
  BY <1>100 DEF JoinThrows
<1>18. QED
  BY <1>100, <1>1, <1>2, <1>3, <1>4, <1>5, <1>6, <1>7, <1>8, <1>9, <1>10, <1>11, <1>12, <1>13, <1>14, <1>15, <1>16, <1>17 DEF Next, Stopping, Posting, WorkerRun


\* While anybody sleeps, every queued task still has somebody on the way to it.
LEMMA ExecWakeupStep == ExecInv /\ [Next]_vars => NoLostWakeup'
<1> SUFFICES ASSUME ExecInv, [Next]_vars PROVE NoLostWakeup'
  OBVIOUS
<1> USE ExecAssumption DEF ExecInv, TypeOK, Phases, NoLostWakeup, classVars, queueVars, flagVars, workVars, histVars
<1>1. /\ IsFiniteSet(Heading) /\ Cardinality(Heading) \in Nat
      /\ IsFiniteSet(Heading') /\ Cardinality(Heading') \in Nat
  BY FS_Subset, FS_CardinalityType DEF Heading
<1>2. /\ Notifying = {t \in Tasks : ppc[t] = "notify"} /\ Len(data_queue_) \in Nat
      /\ IsFiniteSet(Notifying) /\ Cardinality(Notifying) \in Nat
  BY FS_CardinalityType, ElemsOf DEF Home, Notifying
<1>3. CASE Start
  <2>1. waiting' = {} BY <1>3 DEF Start
  <2>2. QED BY <2>1
<1>4. CASE Stop
  <2>1. Heading' = Heading BY <1>4 DEF Stop, Heading
  <2>2. QED BY <1>4, <2>1 DEF Stop
<1>5. CASE QuitAllWait
  <2>1. Heading' = Heading BY <1>5 DEF QuitAllWait, Heading
  <2>2. QED BY <1>5, <2>1 DEF QuitAllWait
<1>6. CASE QuitNotify
  BY <1>6 DEF QuitNotify, Woken
<1>7. CASE Join
  <2>1. Heading' = Heading BY <1>7 DEF Join, Heading
  <2>2. QED BY <1>7, <2>1 DEF Join
<1>8. ASSUME NEW t \in Tasks, PostAssert(t) PROVE NoLostWakeup'
  <2>1. Heading' = Heading BY <1>8 DEF PostAssert, Heading
  <2>2. Notifying' = Notifying BY <1>8 DEF PostAssert, Notifying
  <2>3. UNCHANGED <<data_queue_, waiting>> BY <1>8 DEF PostAssert
  <2>4. QED BY <1>2, <2>1, <2>2, <2>3 DEF Notifying
<1>9. ASSUME NEW t \in Tasks, Push(t) PROVE NoLostWakeup'
  <2>1. Heading' = Heading BY <1>9 DEF Push, Heading
  <2>2. Notifying' = Notifying \cup {t} /\ t \notin Notifying BY <1>9 DEF Push, Notifying
  <2>3. Len(data_queue_') = Len(data_queue_) + 1 /\ UNCHANGED waiting BY <1>9, ElemsAppend DEF Push
  <2>4. Cardinality(Notifying') = Cardinality(Notifying) + 1 BY <1>2, <2>2, FS_AddElement
  <2>5. Notifying' = {u \in Tasks : ppc'[u] = "notify"} BY DEF Notifying
  <2>6. QED BY <1>1, <1>2, <2>1, <2>3, <2>4, <2>5
<1>10. ASSUME NEW t \in Tasks, PushNotify(t) PROVE NoLostWakeup'
  <2>1. Notifying' = Notifying \ {t} /\ t \in Notifying /\ UNCHANGED <<data_queue_, wpc>>
    BY <1>10 DEF PushNotify, Notifying
  <2>2. Cardinality(Notifying') = Cardinality(Notifying) - 1 BY <1>2, <2>1, FS_RemoveElement
  <2>3. Notifying' = {u \in Tasks : ppc'[u] = "notify"} BY DEF Notifying
  <2>4. CASE waiting = {} BY <1>10, <2>4 DEF PushNotify, Notify
  <2>5. CASE waiting # {}
    <3>1. PICK w \in waiting : waiting' = waiting \ {w} BY <1>10, <2>5 DEF PushNotify, Notify
    <3>2. w \notin Heading /\ Heading' = Heading \cup {w} BY <2>1, <3>1 DEF Heading
    <3>3. Cardinality(Heading') = Cardinality(Heading) + 1 BY <1>1, <3>2, FS_AddElement
    <3>4. Len(data_queue_) <= Cardinality(Heading) + Cardinality(Notifying) BY <1>2, <2>5
    <3>5. Len(data_queue_') <= Cardinality(Heading') + Cardinality(Notifying')
      BY <1>1, <1>2, <2>1, <2>2, <3>3, <3>4
    <3>6. QED BY <2>3, <3>5
  <2>6. QED BY <2>4, <2>5
<1>11. ASSUME NEW w \in Workers, TestStop(w) PROVE NoLostWakeup'
  <2>1. Heading' = Heading BY <1>11 DEF TestStop, Heading
  <2>2. QED BY <1>11, <2>1 DEF TestStop
<1>12. ASSUME NEW w \in Workers, PopTask(w) PROVE NoLostWakeup'
  <2>1. w \in Heading /\ Heading' = Heading \ {w} BY <1>12 DEF PopTask, Take, Heading
  <2>2. Len(data_queue_') = Len(data_queue_) - 1 BY <1>12, ElemsTail DEF PopTask, Take, Popped
  <2>3. Cardinality(Heading') = Cardinality(Heading) - 1 BY <1>1, <2>1, FS_RemoveElement
  <2>4. UNCHANGED <<waiting, ppc>> BY <1>12 DEF PopTask, Take
  <2>5. QED BY <1>1, <1>2, <2>2, <2>3, <2>4
<1>13. ASSUME NEW w \in Workers, PopQuit(w) PROVE NoLostWakeup'
  <2>1. Heading' = Heading BY <1>13 DEF PopQuit, Heading
  <2>2. QED BY <1>13, <2>1 DEF PopQuit
<1>14. ASSUME NEW w \in Workers, PopWait(w) PROVE NoLostWakeup'
  <2>1. Len(data_queue_') = 0 /\ UNCHANGED ppc BY <1>14 DEF PopWait
  <2>2. QED BY <1>1, <1>2, <2>1
<1>15. ASSUME NEW w \in Workers, RunTask(w) PROVE NoLostWakeup'
  <2>1. w \notin Heading /\ Heading' = Heading \cup {w} BY <1>15 DEF RunTask, Heading
  <2>2. Cardinality(Heading') = Cardinality(Heading) + 1 BY <1>1, <2>1, FS_AddElement
  <2>3. UNCHANGED <<data_queue_, ppc>> /\ waiting' \subseteq waiting BY <1>15 DEF RunTask
  <2>4. QED BY <1>1, <1>2, <2>2, <2>3
<1>16. ASSUME NEW w \in Workers, DrainTask(w) PROVE NoLostWakeup'
  <2>1. w \in Heading /\ Heading' = Heading \ {w} BY <1>16 DEF DrainTask, Take, Heading
  <2>2. Len(data_queue_') = Len(data_queue_) - 1 BY <1>16, ElemsTail DEF DrainTask, Take, Popped, Rest
  <2>3. Cardinality(Heading') = Cardinality(Heading) - 1 BY <1>1, <2>1, FS_RemoveElement
  <2>4. UNCHANGED <<waiting, ppc>> BY <1>16 DEF DrainTask, Take
  <2>5. QED BY <1>1, <1>2, <2>2, <2>3, <2>4
<1>17. ASSUME NEW w \in Workers, Exit(w) PROVE NoLostWakeup'
  <2>1. Len(data_queue_') = 0 /\ UNCHANGED ppc BY <1>17 DEF Exit, Rest
  <2>2. QED BY <1>1, <1>2, <2>1
<1>18. ASSUME NEW w \in Workers, SpuriousWake(w) PROVE NoLostWakeup'
  <2>1. w \notin Heading /\ Heading' = Heading \cup {w} BY <1>18 DEF SpuriousWake, Heading
  <2>2. Cardinality(Heading') = Cardinality(Heading) + 1 BY <1>1, <2>1, FS_AddElement
  <2>3. UNCHANGED <<data_queue_, ppc>> /\ waiting' \subseteq waiting BY <1>18 DEF SpuriousWake
  <2>4. QED BY <1>1, <1>2, <2>2, <2>3
<1>19. CASE UNCHANGED vars
  BY <1>19 DEF vars, Heading
<1>100. CASE JoinThrows
  <2>1. Heading' = Heading BY <1>100 DEF JoinThrows, Heading
  <2>2. QED BY <1>100, <2>1 DEF JoinThrows
<1>20. QED
  BY <1>100, <1>3, <1>4, <1>5, <1>6, <1>7, <1>8, <1>9, <1>10, <1>11, <1>12, <1>13, <1>14, <1>15, <1>16, <1>17, <1>18, <1>19 DEF Next, Stopping, Posting, WorkerRun

\* ExecInv holds at the start and is kept by every step.
LEMMA ExecInductive == Spec => []ExecInv
<1>1. Init => ExecInv
  <2> SUFFICES ASSUME Init PROVE ExecInv
    OBVIOUS
  <2> USE ExecAssumption DEF Init, Elems
  <2>1. quit_wait_ \in BOOLEAN BY DEF Init
  <2>2. stop_ \in BOOLEAN BY DEF Init
  <2>3. runing_ \in BOOLEAN BY DEF Init
  <2>0. multi \in BOOLEAN /\ team \subseteq Workers /\ team # {} /\ IsFiniteSet(team)
    BY FS_Singleton DEF Init
  <2>4. TypeOK BY <2>0, <2>1, <2>2, <2>3 DEF TypeOK
  <2>5. Notifying = {} /\ IsFiniteSet(Notifying) BY FS_EmptySet DEF Notifying
  <2>6. Home BY <2>5 DEF Home, NoDup
  <2>7. Phases /\ EarlyKept /\ NoLostWakeup BY <2>0 DEF Phases, EarlyKept, NoLostWakeup
  <2>8. QED BY <2>4, <2>6, <2>7 DEF ExecInv
<1>2. ExecInv /\ [Next]_vars => ExecInv'
  BY ExecTypesStep, ExecHomeStep, ExecPhasesStep, ExecEarlyStep, ExecWakeupStep DEF ExecInv
<1>3. QED BY <1>1, <1>2, PTL DEF Spec

\* Every variable keeps its type, and no task is ever run twice.
THEOREM ExecTypes == Spec => []TypeOK
<1>1. ExecInv => TypeOK BY DEF ExecInv
<1>2. QED BY <1>1, ExecInductive, PTL

\* No task waits for a busy worker while another worker sleeps
\* (concurrent_queue.h:33-40, 62-77).
THEOREM ExecNoLostWakeup == Spec => []NoLostWakeup
<1>1. ExecInv => NoLostWakeup BY DEF ExecInv
<1>2. QED BY <1>1, ExecInductive, PTL

\* When Stop has returned, what was queued before it began has been run
\* (threads_exec.h:56-60, 135-139).
THEOREM ExecStopRunsQueued == Spec => []StopRunsQueued
<1>1. ExecInv => StopRunsQueued BY DEF ExecInv, EarlyKept, StopRunsQueued
<1>2. QED BY <1>1, ExecInductive, PTL
==============================================================================
