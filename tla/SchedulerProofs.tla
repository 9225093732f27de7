--------------------------- MODULE SchedulerProofs ---------------------------
(***************************************************************************)
(* Proofs about Scheduler for every set of tasks, number of slots,         *)
(* schedule, retry policy and horizon.                                     *)
(***************************************************************************)
EXTENDS Scheduler, FiniteSetTheorems, TLAPS

(***************************************************************************)
(* nextScheduledTime returns an instant strictly after the one it is given *)
(* (cron.go: "candidate.After(after)").                                    *)
(***************************************************************************)
LEMMA NextIsLater ==
  ASSUME NEW t \in Tasks, NEW n \in 1..MaxTime
  PROVE  /\ nextScheduledTime(t, n) \in Nat
         /\ nextScheduledTime(t, n) > n
<1>1. CASE Every[t] # 0
  BY <1>1, ScheduleAssumption, BoundsAssumption DEF nextScheduledTime
<1>2. CASE Every[t] = 0
  <2>1. HasNext(t, n)
    BY <1>2, ScheduleAssumption
  <2>2. Cron[t] \subseteq Nat
    BY ScheduleAssumption
  <2>3. nextScheduledTime(t, n) \in Cron[t] /\ nextScheduledTime(t, n) > n
    BY <1>2, <2>1 DEF HasNext, nextScheduledTime
  <2> QED
    BY <2>2, <2>3
<1> QED
  BY <1>1, <1>2

\* retryDelayForAttempt returns a delay for every attempt the policy allows.
LEMMA RetryDelayIsNat ==
  ASSUME NEW t \in Tasks, NEW a \in 0..Policy[t].max
  PROVE  retryDelayForAttempt(t, a) \in Nat
<1>1. /\ Policy[t].delay \in Nat
      /\ Policy[t].backoff \in Backoffs
      /\ Policy[t].max \in Nat
      /\ a \in Nat
      /\ 2 ^ a \in Nat
  BY PolicyAssumption
<1>2. \A x, y \in Nat : x * y \in Nat
  OBVIOUS
<1>3. a + 1 \in Nat
  BY <1>1
<1>4. /\ Policy[t].delay * (a + 1) \in Nat
      /\ Policy[t].delay * 2 ^ a \in Nat
  BY <1>1, <1>2, <1>3
<1> QED
  BY <1>1, <1>4 DEF retryDelayForAttempt, Backoffs

-----------------------------------------------------------------------------
\* Rows the locked sections compute are rows.
LEMMA RowsAreTyped ==
  ASSUME TypeOK
  PROVE  /\ \A t \in Tasks : DefaultRow(t) \in Row
         /\ \A t \in Tasks : RegisteredRow(t) \in Row
         /\ \A s \in Slots : exec[s].st = "finish" /\ Registered(exec[s].task)
              => FinishedRow(tasks[exec[s].task], exec[s]) \in Row
         /\ \A t \in Tasks : \A n \in 1..MaxTime : t \in DueAt(n)
              => tasks[t] \in Row /\ [tasks[t] EXCEPT !.next = nextScheduledTime(t, n)] \in Row
<1>1. ASSUME NEW t \in Tasks PROVE DefaultRow(t) \in Row
  BY <1>1, ScheduleAssumption DEF DefaultRow, Row, ZeroTime
<1>2. ASSUME NEW t \in Tasks PROVE RegisteredRow(t) \in Row
  <2>1. loadTaskState(t) \in Row
    BY <1>1, <1>2 DEF loadTaskState, TypeOK
  <2> DEFINE next == nextScheduledTime(t, now)
  <2>2. next \in Nat
    BY NextIsLater, <1>2 DEF TypeOK
  <2> HIDE DEF next
  <2>3. ASSUME NEW r \in Row PROVE [r EXCEPT !.next = next] \in Row
    BY <2>2, <2>3 DEF Row
  <2> QED
    BY <2>1, <2>3 DEF RegisteredRow, next
<1>3. ASSUME NEW s \in Slots, exec[s].st = "finish", Registered(exec[s].task)
      PROVE  FinishedRow(tasks[exec[s].task], exec[s]) \in Row
  <2> DEFINE e == exec[s]  row == tasks[exec[s].task]
             next == nextScheduledTime(e.task, now)
  <2>1. e \in Finishing
    BY <1>3 DEF TypeOK, Execution, Idle, Launched, Attempting, Finishing
  <2>2. next \in Nat
    BY NextIsLater, <2>1 DEF TypeOK, Finishing
  <2>3. row \in Row
    BY <1>3, <2>1 DEF TypeOK, Registered, Finishing
  <2>4. e.ok \in BOOLEAN /\ e.start \in Int
    BY <2>1 DEF Finishing
  <2> HIDE DEF next, e, row
  <2>5. FinishedRow(row, e) \in Row
    BY <2>2, <2>3, <2>4 DEF FinishedRow, Row, next
  <2> QED
    BY <2>5 DEF row, e
<1>4. ASSUME NEW t \in Tasks, NEW n \in 1..MaxTime, t \in DueAt(n)
      PROVE  tasks[t] \in Row /\ [tasks[t] EXCEPT !.next = nextScheduledTime(t, n)] \in Row
  <2>1. tasks[t] \in Row
    BY <1>4 DEF TypeOK, DueAt, NoRow
  <2> DEFINE next == nextScheduledTime(t, n)
  <2>2. next \in Nat
    BY NextIsLater, <1>4
  <2> HIDE DEF next
  <2>3. ASSUME NEW r \in Row PROVE [r EXCEPT !.next = next] \in Row
    BY <2>2, <2>3 DEF Row
  <2> QED
    BY <2>1, <2>3 DEF next
<1> QED
  BY <1>1, <1>2, <1>3, <1>4

-----------------------------------------------------------------------------
(***************************************************************************)
(* What the phases of the process mean: nothing is in flight before Start, *)
(* every task is registered from Start on, and no goroutine holds an       *)
(* instant that is still to come.                                          *)
(***************************************************************************)
Lifecycle ==
  /\ life \in {"down", "boot"} => due = {} /\ Busy = {}
  /\ life = "down" => \A t \in Tasks : ~Registered(t)
  /\ life \notin {"down", "boot"} => \A t \in Tasks : Registered(t)
  /\ life \in {"down", "boot", "catchup", "launching"} => loop.pc = "off"
  /\ loop.pc = "collect" => loop.at \in 1..now
  /\ \A s \in Slots : exec[s].st \in {"handler", "backoff", "finish"}
                       => exec[s].start <= now

\* saveTaskState writes the rows it is given, or leaves what is there.
LEMMA SaveIsTyped ==
  ASSUME TypeOK, NEW T \in SUBSET Tasks, NEW ACTION m,
         \A t \in T : m[t] \in Row,
         saveTaskState(T, m)
  PROVE  /\ db' \in [Tasks -> Row \cup {NoRow}]
         /\ history' \in [Tasks -> [Slots -> HistoryStatus]]
         /\ \A t \in Tasks : db'[t] = db[t] \/ (t \in T /\ db'[t] = m[t])
         /\ ~SaveFaults => \A t \in T : db'[t] = m[t]
<1>1. PICK ok \in IF SaveFaults THEN SUBSET T ELSE {T} :
        /\ db' = [t \in Tasks |-> IF t \in ok THEN m[t] ELSE db[t]]
        /\ history' = [t \in Tasks |-> IF t \in ok /\ db[t] # NoRow
                                       THEN [s \in Slots |-> "none"]
                                       ELSE history[t]]
  BY DEF saveTaskState
<1>2. ok \subseteq T /\ (~SaveFaults => ok = T)
  BY <1>1, SwitchesAssumption
<1>3. db' \in [Tasks -> Row \cup {NoRow}]
  BY <1>1, <1>2 DEF TypeOK
<1>4. history' \in [Tasks -> [Slots -> HistoryStatus]]
  BY <1>1 DEF TypeOK, HistoryStatus
<1> QED
  BY <1>1, <1>2, <1>3, <1>4

\* Each case of Execution is told apart by st.
LEMMA ExecutionCases ==
  ASSUME TypeOK, NEW s \in Slots
  PROVE  /\ exec[s].st = "launched" => exec[s].task \in Tasks
         /\ exec[s].st \in {"handler", "backoff"} => exec[s] \in Attempting
         /\ exec[s].st = "finish" => exec[s] \in Finishing
  BY DEF TypeOK, Execution, Idle, Launched, Attempting, Finishing

LEMMA HistoryUpdate ==
  ASSUME TypeOK, NEW t \in Tasks, NEW s \in Slots, NEW v \in HistoryStatus
  PROVE  [history EXCEPT ![t][s] = v] \in [Tasks -> [Slots -> HistoryStatus]]
<1>1. history[t] \in [Slots -> HistoryStatus]
  BY DEF TypeOK
<1>2. [history[t] EXCEPT ![s] = v] \in [Slots -> HistoryStatus]
  BY <1>1
<1> QED
  BY <1>2 DEF TypeOK

(***************************************************************************)
(* A crash in the middle of a locked section leaves each row as it was, as *)
(* loadTaskState inserted it, or with an advanced deadline.                *)
(***************************************************************************)
LEMMA CrashRows ==
  ASSUME TypeOK, Lifecycle, CrashInSave
  PROVE  /\ db' \in [Tasks -> Row \cup {NoRow}]
         /\ history' \in [Tasks -> [Slots -> HistoryStatus]]
         /\ \A t \in Tasks : \/ db'[t] = db[t]
                            \/ db'[t] = DefaultRow(t)
                            \/ \E n \in 1..now : t \in DueAt(n) /\ db'[t] = Advanced(n)[t]
<1> USE BoundsAssumption
<1>1. ASSUME NEW t \in Tasks, saveTaskState({t}, [u \in Tasks |-> DefaultRow(u)])
      PROVE  /\ db' \in [Tasks -> Row \cup {NoRow}]
             /\ history' \in [Tasks -> [Slots -> HistoryStatus]]
             /\ \A u \in Tasks : db'[u] = db[u] \/ db'[u] = DefaultRow(u)
  <2> DEFINE m == [u \in Tasks |-> DefaultRow(u)]
  <2>1. {t} \in SUBSET Tasks /\ \A u \in {t} : m[u] \in Row
    BY RowsAreTyped
  <2>2. \A u \in Tasks : m[u] = DefaultRow(u)
    OBVIOUS
  <2>3. saveTaskState({t}, m)
    BY <1>1
  <2> HIDE DEF m
  <2>4. /\ db' \in [Tasks -> Row \cup {NoRow}]
        /\ history' \in [Tasks -> [Slots -> HistoryStatus]]
        /\ \A u \in Tasks : db'[u] = db[u] \/ (u \in {t} /\ db'[u] = m[u])
    BY <2>1, <2>3, SaveIsTyped
  <2> QED
    BY <2>2, <2>4
<1>2. ASSUME NEW n \in 1..now, PartlySaved(n)
      PROVE  /\ db' \in [Tasks -> Row \cup {NoRow}]
             /\ history' \in [Tasks -> [Slots -> HistoryStatus]]
             /\ \A t \in Tasks : db'[t] = db[t] \/ (t \in DueAt(n) /\ db'[t] = Advanced(n)[t])
  <2>1. PICK T \in SUBSET DueAt(n) : saveTaskState(T, Advanced(n))
    BY <1>2 DEF PartlySaved
  <2>2. T \subseteq Tasks /\ T \subseteq DueAt(n) /\ DueAt(n) \subseteq Tasks
    BY DEF DueAt
  <2>3. n \in 1..MaxTime
    BY DEF TypeOK
  <2>4. \A t \in T : [tasks[t] EXCEPT !.next = nextScheduledTime(t, n)] \in Row
    BY <2>2, <2>3, RowsAreTyped
  <2>5. \A t \in T : Advanced(n)[t] \in Row
    BY <2>2, <2>4 DEF Advanced
  <2> QED
    BY <2>1, <2>2, <2>5, SaveIsTyped
<1>3. CASE \E t \in Tasks : saveTaskState({t}, [u \in Tasks |-> DefaultRow(u)])
  BY <1>1, <1>3
<1>4. CASE PartlySaved(now)
  <2>1. now \in 1..now
    BY DEF TypeOK
  <2> QED
    BY <1>2, <1>4, <2>1
<1>5. CASE loop.pc = "collect" /\ PartlySaved(loop.at)
  BY <1>2, <1>5 DEF Lifecycle
<1> QED
  BY <1>3, <1>4, <1>5 DEF CrashInSave

\* Every step leaves every variable in its type.
LEMMA TypeStep ==
  ASSUME TypeOK, Lifecycle, [Next]_vars
  PROVE  TypeOK'
<1> USE BoundsAssumption
<1>1. CASE Tick
  BY <1>1 DEF TypeOK, Tick, memory
<1>2. CASE Boot
  BY <1>2 DEF TypeOK, Boot, memory, Lives
<1>3. ASSUME NEW t \in Tasks, Register(t) PROVE TypeOK'
  <2>1. RegisteredRow(t) \in Row /\ \A u \in Tasks : DefaultRow(u) \in Row
    BY RowsAreTyped
  <2>2. tasks' \in [Tasks -> Row \cup {NoRow}] /\ tasks'[t] \in Row
    BY <1>3, <2>1 DEF TypeOK, Register
  <2>3. CASE saveTaskState({t}, tasks')
    <3>1. /\ db' \in [Tasks -> Row \cup {NoRow}]
          /\ history' \in [Tasks -> [Slots -> HistoryStatus]]
      BY <2>2, <2>3, SaveIsTyped
    <3> QED
      BY <1>3, <2>2, <3>1 DEF TypeOK, Register
  <2>4. CASE saveTaskState({t}, [u \in Tasks |-> DefaultRow(u)])
    <3>1. /\ db' \in [Tasks -> Row \cup {NoRow}]
          /\ history' \in [Tasks -> [Slots -> HistoryStatus]]
      BY <2>1, <2>4, SaveIsTyped
    <3> QED
      BY <1>3, <2>2, <3>1 DEF TypeOK, Register
  <2> QED
    BY <1>3, <2>3, <2>4 DEF Register
<1>4. CASE Start
  BY <1>4 DEF TypeOK, Start, Lives
<1>5. ASSUME NEW n \in 1..MaxTime, tasks' = Advanced(n), saveTaskState(DueAt(n), tasks')
      PROVE  /\ tasks' \in [Tasks -> Row \cup {NoRow}]
             /\ db' \in [Tasks -> Row \cup {NoRow}]
             /\ history' \in [Tasks -> [Slots -> HistoryStatus]]
             /\ {[task |-> t, deadline |-> tasks[t].next] : t \in DueAt(n)}
                  \subseteq [task : Tasks, deadline : Nat]
  <2>1. DueAt(n) \subseteq Tasks
    BY DEF DueAt
  <2>2. \A t \in DueAt(n) :
          tasks[t] \in Row /\ [tasks[t] EXCEPT !.next = nextScheduledTime(t, n)] \in Row
    BY <1>5, <2>1, RowsAreTyped
  <2>3. tasks' \in [Tasks -> Row \cup {NoRow}] /\ \A t \in DueAt(n) : tasks'[t] \in Row
    BY <1>5, <2>1, <2>2 DEF Advanced, TypeOK
  <2>4. /\ db' \in [Tasks -> Row \cup {NoRow}]
        /\ history' \in [Tasks -> [Slots -> HistoryStatus]]
    BY <1>5, <2>1, <2>3, SaveIsTyped
  <2>5. \A t \in DueAt(n) : tasks[t].next \in Nat
    BY <2>2 DEF Row
  <2> QED
    BY <2>1, <2>3, <2>4, <2>5
<1>6. CASE catchUpMissedTasks
  <2>1. now \in 1..MaxTime
    BY DEF TypeOK
  <2>2. due' \subseteq {[task |-> t, deadline |-> tasks[t].next] : t \in DueAt(now)}
    BY <1>6 DEF catchUpMissedTasks
  <2> QED
    BY <1>5, <1>6, <2>1, <2>2 DEF catchUpMissedTasks, TypeOK, Lives
<1>7. ASSUME NEW t \in Tasks, launchTask(t)
      PROVE  exec' \in [Slots -> Execution] /\ running' \in Int
  BY <1>7 DEF TypeOK, launchTask, Execution, Launched
<1>8. ASSUME NEW d \in due, LaunchDue(d) PROVE TypeOK'
  <2>1. d \in [task : Tasks, deadline : Nat]
    BY DEF TypeOK
  <2>2. exec' \in [Slots -> Execution] /\ running' \in Int
    BY <1>7, <1>8, <2>1 DEF LaunchDue
  <2> QED
    BY <1>8, <2>1, <2>2 DEF TypeOK, LaunchDue
<1>9. CASE StartLoop
  BY <1>9 DEF TypeOK, StartLoop, Lives, LoopState
<1>10. CASE ReadClock
  BY <1>10 DEF TypeOK, ReadClock, LoopState
<1>11. CASE checkTasks
  <2>1. loop.at \in 1..MaxTime
    BY <1>11 DEF TypeOK, Lifecycle, checkTasks
  <2> QED
    BY <1>5, <1>11, <2>1 DEF TypeOK, checkTasks, LoopState
<1>12. CASE Sleep
  BY <1>12 DEF TypeOK, Sleep, LoopState
<1>13. CASE Wake
  BY <1>13 DEF TypeOK, Wake, LoopState
<1>14. CASE LoopReturn
  BY <1>14 DEF TypeOK, LoopReturn, LoopState, LoopOff
<1>15. ASSUME NEW t \in Tasks, RunTaskNow(t) PROVE TypeOK'
  <2>1. exec' \in [Slots -> Execution] /\ running' \in Int
    BY <1>7, <1>15 DEF RunTaskNow
  <2> QED
    BY <1>15, <2>1 DEF TypeOK, RunTaskNow
<1>16. ASSUME NEW s \in Slots, NEW t \in Tasks, recordHistoryStart(t, s)
       PROVE  history' \in [Tasks -> [Slots -> HistoryStatus]]
  <2>1. "running" \in HistoryStatus /\ "none" \in HistoryStatus
    BY DEF HistoryStatus
  <2>2. /\ [history EXCEPT ![t][s] = "running"] \in [Tasks -> [Slots -> HistoryStatus]]
        /\ [history EXCEPT ![t][s] = "none"] \in [Tasks -> [Slots -> HistoryStatus]]
    BY <2>1, HistoryUpdate
  <2> QED
    BY <1>16, <2>2 DEF recordHistoryStart
<1>17. ASSUME NEW s \in Slots, NEW t \in Tasks, NEW ok \in BOOLEAN,
              recordHistoryFinish(t, s, ok)
       PROVE  history' \in [Tasks -> [Slots -> HistoryStatus]]
  <2> DEFINE status == IF ok THEN "success" ELSE "failed"
  <2>1. status \in HistoryStatus
    BY DEF HistoryStatus
  <2> HIDE DEF status
  <2>2. [history EXCEPT ![t][s] = status] \in [Tasks -> [Slots -> HistoryStatus]]
    BY <2>1, HistoryUpdate
  <2> QED
    BY <1>17, <2>2 DEF TypeOK, recordHistoryFinish, status
<1>18. ASSUME NEW s \in Slots, ExecBegin(s) PROVE TypeOK'
  <2>1. exec[s].task \in Tasks
    BY <1>18, ExecutionCases DEF ExecBegin
  <2>2. exec' \in [Slots -> Execution]
    BY <1>18, <2>1 DEF TypeOK, ExecBegin, Execution, Attempting
  <2> QED
    BY <1>16, <1>18, <2>1, <2>2 DEF TypeOK, ExecBegin
<1>19. ASSUME NEW s \in Slots, NEW ok \in BOOLEAN, HandlerReturn(s, ok) PROVE TypeOK'
  <2>1. exec[s] \in Attempting
    BY <1>19, ExecutionCases DEF HandlerReturn
  <2> DEFINE e == exec[s]
  <2>2. e.task \in Tasks /\ e.attempt \in Nat /\ e.start \in 1..MaxTime /\ Policy[e.task].max \in Nat
    BY <2>1, PolicyAssumption DEF Attempting
  <2>3. CASE ok \/ e.attempt >= Policy[e.task].max
    <3>1. exec' \in [Slots -> Execution]
      BY <1>19, <2>2, <2>3 DEF TypeOK, HandlerReturn, Execution, Finishing
    <3> QED
      BY <1>17, <1>19, <2>2, <3>1 DEF TypeOK, HandlerReturn
  <2>4. CASE ~(ok \/ e.attempt >= Policy[e.task].max)
    <3> DEFINE delay == retryDelayForAttempt(e.task, e.attempt)
    <3>1. delay \in Nat
      BY <2>2, <2>4, RetryDelayIsNat
    <3> HIDE DEF delay
    <3>2. now + delay \in Nat
      BY <3>1 DEF TypeOK
    <3>3. [e EXCEPT !.st = "backoff", !.wake = now + delay] \in Attempting
      BY <2>1, <3>2 DEF Attempting
    <3>4. exec' \in [Slots -> Execution]
      BY <1>19, <2>4, <3>3 DEF TypeOK, HandlerReturn, Execution, delay
    <3> QED
      BY <1>17, <1>19, <2>2, <3>4 DEF TypeOK, HandlerReturn
  <2> QED
    BY <2>3, <2>4
<1>20. ASSUME NEW s \in Slots, Retry(s) PROVE TypeOK'
  <2>1. exec[s] \in Attempting
    BY <1>20, ExecutionCases DEF Retry
  <2> DEFINE e == [exec[s] EXCEPT !.st = "handler", !.attempt = exec[s].attempt + 1,
                                  !.wake = 0]
  <2>5. ASSUME NEW x \in Attempting
        PROVE  [x EXCEPT !.st = "handler", !.attempt = x.attempt + 1, !.wake = 0] \in Attempting
    <3>1. x.attempt + 1 \in Nat
      BY <2>5 DEF Attempting
    <3>2. ASSUME NEW n \in Nat
          PROVE  [x EXCEPT !.st = "handler", !.attempt = n, !.wake = 0] \in Attempting
      BY <2>5 DEF Attempting
    <3> QED
      BY <3>1, <3>2
  <2>4. e \in Attempting
    BY <2>1, <2>5
  <2>2. exec' \in [Slots -> Execution]
    BY <1>20, <2>4 DEF TypeOK, Retry, Execution
  <2>3. exec[s].task \in Tasks
    BY <2>1 DEF Attempting
  <2> QED
    BY <1>16, <1>20, <2>2, <2>3 DEF TypeOK, Retry
<1>21. ASSUME NEW s \in Slots, RetryAborted(s) PROVE TypeOK'
  <2>1. exec[s] \in Attempting
    BY <1>21, ExecutionCases DEF RetryAborted
  <2>2. exec' \in [Slots -> Execution]
    BY <1>21, <2>1 DEF TypeOK, RetryAborted, Execution, Attempting, Finishing
  <2> QED
    BY <1>21, <2>2 DEF TypeOK, RetryAborted
<1>22. ASSUME NEW s \in Slots, ExecFinish(s) PROVE TypeOK'
  <2> DEFINE e == exec[s]
  <2>1. e \in Finishing /\ e.task \in Tasks
    BY <1>22, ExecutionCases DEF ExecFinish, Finishing
  <2>2. Registered(e.task)
    BY <1>22, <2>1 DEF Lifecycle, ExecFinish, Busy, TypeOK, Lives
  <2>3. FinishedRow(tasks[e.task], e) \in Row
    BY <1>22, <2>2, RowsAreTyped DEF ExecFinish
  <2>4. tasks' \in [Tasks -> Row \cup {NoRow}] /\ tasks'[e.task] \in Row
    BY <1>22, <2>1, <2>3 DEF TypeOK, ExecFinish
  <2>5. saveTaskState({e.task}, tasks')
    BY <1>22 DEF ExecFinish
  <2>6. /\ db' \in [Tasks -> Row \cup {NoRow}]
        /\ history' \in [Tasks -> [Slots -> HistoryStatus]]
    BY <2>1, <2>4, <2>5, SaveIsTyped
  <2>7. exec' \in [Slots -> Execution] /\ running' \in Int
    BY <1>22 DEF TypeOK, ExecFinish, Execution
  <2> QED
    BY <1>22, <2>4, <2>6, <2>7 DEF TypeOK, ExecFinish
<1>23. CASE Stop \/ StopDone \/ StopTimeout
  BY <1>23 DEF TypeOK, Stop, StopDone, StopTimeout, memory, Lives
<1>24. ASSUME Die, db' \in [Tasks -> Row \cup {NoRow}],
              history' \in [Tasks -> [Slots -> HistoryStatus]]
       PROVE  TypeOK'
  <2>1. loop' \in LoopState
    BY <1>24 DEF Die, LoopState, LoopOff
  <2>2. exec' \in [Slots -> Execution] /\ tasks' \in [Tasks -> Row \cup {NoRow}]
    BY <1>24 DEF Die, Execution
  <2>3. life' \in Lives
    BY <1>24 DEF Die, Lives
  <2>4. ctxDone' \in BOOLEAN
    BY <1>24 DEF Die
  <2>5. running' \in Int /\ due' \subseteq [task : Tasks, deadline : Nat]
    BY <1>24 DEF Die
  <2> QED
    BY <1>24, <2>1, <2>2, <2>3, <2>4, <2>5 DEF TypeOK, Die
<1>26. CASE Exit \/ Crash
  BY <1>24, <1>26 DEF TypeOK, Exit, Crash
<1>27. CASE CrashInSave
  <2>1. Die
    BY <1>27 DEF CrashInSave
  <2> QED
    BY <1>24, <1>27, <2>1, CrashRows
<1>25. CASE UNCHANGED vars
  BY <1>25 DEF TypeOK, vars, memory
<1> QED
  BY <1>1, <1>2, <1>3, <1>4, <1>6, <1>8, <1>9, <1>10, <1>11, <1>12, <1>13, <1>14,
     <1>15, <1>18, <1>19, <1>20, <1>21, <1>22, <1>23, <1>26, <1>27, <1>25
     DEF Next, MainStep, LoopStep, ExecStep

\* Every step leaves the phases of the process in order.
LEMMA LifecycleStep ==
  ASSUME TypeOK, Lifecycle, [Next]_vars
  PROVE  Lifecycle'
<1> USE BoundsAssumption
<1>a. now \in 1..MaxTime /\ life \in Lives
  BY DEF TypeOK
<1>1. CASE Tick
  <2>1. now' \in Int /\ now' = now + 1
    BY <1>1, <1>a DEF Tick
  <2>2. \A s \in Slots : exec[s].st \in {"handler", "backoff", "finish"} => exec[s].start \in Int
    BY ExecutionCases DEF Attempting, Finishing
  <2> QED
    BY <1>1, <1>a, <2>1, <2>2 DEF Lifecycle, Tick, memory, Busy, Registered
<1>2. CASE Boot
  BY <1>2 DEF Lifecycle, Boot, memory, Busy, Registered
<1>3. ASSUME NEW t \in Tasks, Register(t) PROVE Lifecycle'
  BY <1>3 DEF Lifecycle, Register, Busy, Registered
<1>4. CASE Start
  BY <1>4 DEF Lifecycle, Start, Busy, Registered
<1>5. ASSUME NEW n \in 1..MaxTime, tasks' = Advanced(n), \A t \in Tasks : Registered(t)
      PROVE  \A t \in Tasks : Registered(t)'
  <2> SUFFICES ASSUME NEW t \in Tasks PROVE tasks'[t] # NoRow
    BY DEF Registered
  <2>1. CASE t \in DueAt(n)
    <3>1. [tasks[t] EXCEPT !.next = nextScheduledTime(t, n)] \in Row
      BY <2>1, RowsAreTyped
    <3>2. tasks'[t] \in Row
      BY <1>5, <2>1, <3>1 DEF Advanced
    <3> QED
      BY <3>2 DEF Row, NoRow
  <2>2. CASE t \notin DueAt(n)
    BY <1>5, <2>2 DEF Advanced, Registered
  <2> QED
    BY <2>1, <2>2
<1>6. CASE catchUpMissedTasks
  <2>1. \A t \in Tasks : Registered(t)
    BY <1>6 DEF Lifecycle, catchUpMissedTasks
  <2>2. \A t \in Tasks : Registered(t)'
    BY <1>5, <1>6, <1>a, <2>1 DEF catchUpMissedTasks
  <2> QED
    BY <1>6, <2>2 DEF Lifecycle, catchUpMissedTasks, Busy
<1>7. ASSUME NEW t \in Tasks, launchTask(t)
      PROVE  \A s \in Slots : exec'[s].st \in {"handler", "backoff", "finish"}
                              => exec'[s] = exec[s]
  BY <1>7 DEF launchTask, TypeOK
<1>8. ASSUME NEW d \in due, LaunchDue(d) PROVE Lifecycle'
  <2>1. d.task \in Tasks
    BY DEF TypeOK
  <2>2. \A s \in Slots : exec'[s].st \in {"handler", "backoff", "finish"} => exec'[s] = exec[s]
    BY <1>7, <1>8, <2>1 DEF LaunchDue
  <2>3. life \notin {"down", "boot"}
    BY <1>8 DEF Lifecycle, LaunchDue
  <2> QED
    BY <1>8, <2>2, <2>3 DEF Lifecycle, LaunchDue, Registered
<1>9. CASE StartLoop
  BY <1>9 DEF Lifecycle, StartLoop, Registered
<1>10. CASE ReadClock
  BY <1>10, <1>a DEF Lifecycle, ReadClock, Registered, Busy
<1>11. CASE checkTasks
  <2>1. loop.at \in 1..MaxTime
    BY <1>11, <1>a DEF Lifecycle, checkTasks
  <2>2. life \notin {"down", "boot", "catchup", "launching"}
    BY <1>11 DEF Lifecycle, checkTasks
  <2>3. \A t \in Tasks : Registered(t)'
    BY <1>5, <1>11, <2>1, <2>2 DEF Lifecycle, checkTasks
  <2> QED
    BY <1>11, <2>2, <2>3 DEF Lifecycle, checkTasks
<1>12. CASE Sleep
  BY <1>12 DEF Lifecycle, Sleep, Registered, Busy
<1>13. CASE Wake
  BY <1>13 DEF Lifecycle, Wake, Registered, Busy
<1>14. CASE LoopReturn
  BY <1>14 DEF Lifecycle, LoopReturn, LoopOff, Registered, Busy
<1>15. ASSUME NEW t \in Tasks, RunTaskNow(t) PROVE Lifecycle'
  <2>1. \A s \in Slots : exec'[s].st \in {"handler", "backoff", "finish"} => exec'[s] = exec[s]
    BY <1>7, <1>15 DEF RunTaskNow
  <2> QED
    BY <1>15, <2>1 DEF Lifecycle, RunTaskNow, Registered
<1>16. ASSUME NEW s \in Slots, NEW e, exec' = [exec EXCEPT ![s] = e], s \in Busy,
              UNCHANGED <<now, life, loop, due>>, \A t \in Tasks : Registered(t) => Registered(t)',
              e.st \in {"handler", "backoff", "finish"} => e.start <= now
       PROVE  Lifecycle'
  <2>1. life \notin {"down", "boot"}
    BY <1>16 DEF Lifecycle
  <2>2. \A u \in Slots : exec'[u] = IF u = s THEN e ELSE exec[u]
    BY <1>16 DEF TypeOK
  <2> QED
    BY <1>16, <2>1, <2>2 DEF Lifecycle
<1>17. ASSUME NEW s \in Slots, ExecBegin(s) PROVE Lifecycle'
  <2> DEFINE e == [st |-> "handler", task |-> exec[s].task, start |-> now,
                   attempt |-> 0, wake |-> 0]
  <2>1. e.start <= now
    BY <1>a
  <2> HIDE DEF e
  <2>2. exec' = [exec EXCEPT ![s] = e] /\ s \in Busy
    BY <1>17 DEF ExecBegin, Busy, e
  <2>3. UNCHANGED <<now, life, loop, due, tasks>>
    BY <1>17 DEF ExecBegin
  <2> QED
    BY <1>16, <2>1, <2>2, <2>3 DEF Registered
<1>18. ASSUME NEW s \in Slots, NEW ok \in BOOLEAN, HandlerReturn(s, ok) PROVE Lifecycle'
  <2> DEFINE e == IF ok \/ exec[s].attempt >= Policy[exec[s].task].max
                  THEN [st |-> "finish", task |-> exec[s].task, start |-> exec[s].start, ok |-> ok]
                  ELSE [exec[s] EXCEPT !.st = "backoff",
                          !.wake = now + retryDelayForAttempt(exec[s].task, exec[s].attempt)]
  <2>1. exec[s] \in Attempting /\ exec[s].start <= now
    BY <1>18, ExecutionCases DEF HandlerReturn, Lifecycle
  <2>2. e.start = exec[s].start
    BY <2>1 DEF Attempting
  <2> HIDE DEF e
  <2>3. exec' = [exec EXCEPT ![s] = e] /\ s \in Busy
    BY <1>18 DEF HandlerReturn, Busy, e
  <2>4. UNCHANGED <<now, life, loop, due, tasks>>
    BY <1>18 DEF HandlerReturn
  <2> QED
    BY <1>16, <2>1, <2>2, <2>3, <2>4 DEF Registered
<1>19. ASSUME NEW s \in Slots, Retry(s) PROVE Lifecycle'
  <2> DEFINE e == [exec[s] EXCEPT !.st = "handler", !.attempt = exec[s].attempt + 1, !.wake = 0]
  <2>1. exec[s] \in Attempting /\ exec[s].start <= now
    BY <1>19, ExecutionCases DEF Retry, Lifecycle
  <2>2. e.start = exec[s].start
    BY <2>1 DEF Attempting
  <2> HIDE DEF e
  <2>3. exec' = [exec EXCEPT ![s] = e] /\ s \in Busy
    BY <1>19 DEF Retry, Busy, e
  <2>4. UNCHANGED <<now, life, loop, due, tasks>>
    BY <1>19 DEF Retry
  <2> QED
    BY <1>16, <2>1, <2>2, <2>3, <2>4 DEF Registered
<1>20. ASSUME NEW s \in Slots, RetryAborted(s) PROVE Lifecycle'
  <2> DEFINE e == [st |-> "finish", task |-> exec[s].task, start |-> exec[s].start, ok |-> FALSE]
  <2>1. e.start <= now
    BY <1>20 DEF RetryAborted, Lifecycle
  <2> HIDE DEF e
  <2>2. exec' = [exec EXCEPT ![s] = e] /\ s \in Busy
    BY <1>20 DEF RetryAborted, Busy, e
  <2>3. UNCHANGED <<now, life, loop, due, tasks>>
    BY <1>20 DEF RetryAborted
  <2> QED
    BY <1>16, <2>1, <2>2, <2>3 DEF Registered
<1>21. ASSUME NEW s \in Slots, ExecFinish(s) PROVE Lifecycle'
  <2>1. exec[s] \in Finishing /\ s \in Busy
    BY <1>21, ExecutionCases DEF ExecFinish, Busy
  <2>2. \A t \in Tasks : Registered(t)
    BY <1>a, <2>1 DEF Lifecycle, Lives
  <2>3. FinishedRow(tasks[exec[s].task], exec[s]) \in Row /\ exec[s].task \in Tasks
    BY <1>21, <2>1, <2>2, RowsAreTyped DEF ExecFinish, Finishing
  <2>4. tasks'[exec[s].task] \in Row /\ \A t \in Tasks \ {exec[s].task} : tasks'[t] = tasks[t]
    BY <1>21, <2>3 DEF ExecFinish, TypeOK
  <2>5. \A t \in Tasks : Registered(t)'
    BY <2>2, <2>3, <2>4 DEF Registered, Row, NoRow
  <2>6. exec' = [exec EXCEPT ![s] = Idle] /\ UNCHANGED <<now, life, loop, due>>
    BY <1>21 DEF ExecFinish
  <2>7. Idle.st \notin {"handler", "backoff", "finish"}
    BY DEF Idle
  <2> QED
    BY <1>16, <2>1, <2>5, <2>6, <2>7
<1>22. CASE Stop \/ StopDone \/ StopTimeout
  BY <1>22 DEF Lifecycle, Stop, StopDone, StopTimeout, memory, Registered, Busy
<1>23. CASE Die
  BY <1>23 DEF Lifecycle, Die, LoopOff, Idle, Registered, Busy
<1>24. CASE UNCHANGED vars
  BY <1>24 DEF Lifecycle, vars, memory, Registered, Busy
<1> QED
  BY <1>1, <1>2, <1>3, <1>4, <1>6, <1>8, <1>9, <1>10, <1>11, <1>12, <1>13, <1>14,
     <1>15, <1>17, <1>18, <1>19, <1>20, <1>21, <1>22, <1>23, <1>24
     DEF Next, MainStep, LoopStep, ExecStep, Exit, Crash, CrashInSave

\* The initial state is well typed.
LEMMA InitIsTyped == Init => TypeOK /\ Lifecycle
<1>1. Init => TypeOK
  <2> SUFFICES ASSUME Init PROVE TypeOK
    OBVIOUS
  <2>1. loop \in LoopState /\ exec \in [Slots -> Execution]
    BY DEF Init, LoopState, LoopOff, Execution
  <2>2. history \in [Tasks -> [Slots -> HistoryStatus]] /\ life \in Lives
    BY DEF Init, HistoryStatus, Lives
  <2>3. ctxDone \in BOOLEAN
    BY DEF Init
  <2> QED
    BY <2>1, <2>2, <2>3, BoundsAssumption DEF Init, TypeOK
<1>2. Init => Lifecycle
  BY DEF Init, Lifecycle, Registered, Busy, Idle, LoopOff
<1> QED
  BY <1>1, <1>2

(***************************************************************************)
(* The type invariant, with the phases of the process it needs.            *)
(***************************************************************************)
THEOREM TypeCorrect == Spec => [](TypeOK /\ Lifecycle)
<1>1. TypeOK /\ Lifecycle /\ [Next]_vars => (TypeOK /\ Lifecycle)'
  BY TypeStep, LifecycleStep
<1> QED
  BY <1>1, InitIsTyped, PTL DEF Spec
-----------------------------------------------------------------------------
\* Busy is finite, and so are its neighbours.
LEMMA BusyFinite ==
  /\ IsFiniteSet(Busy)
  /\ Cardinality(Busy) \in Nat
<1>1. Busy \subseteq Slots
  BY DEF Busy
<1> QED
  BY <1>1, TasksAssumption, FS_Subset, FS_CardinalityType

\* Add(1), Done() and the steps of an execution keep the WaitGroup's count.
LEMMA WaitGroupStep ==
  ASSUME TypeOK, Lifecycle, WaitGroupExact, [Next]_vars
  PROVE  WaitGroupExact'
<1> USE BoundsAssumption
<1>a. IsFiniteSet(Busy) /\ Cardinality(Busy) \in Nat
  BY BusyFinite
<1>1. ASSUME UNCHANGED <<running, Busy, LoopAlive>> PROVE WaitGroupExact'
  BY <1>1 DEF WaitGroupExact
<1>2. ASSUME UNCHANGED <<running, exec, loop>>,
             life' = life \/ {life, life'} \cap {"catchup", "launching"} = {}
      PROVE  WaitGroupExact'
  <2>1. UNCHANGED <<running, Busy, LoopAlive>>
    BY <1>2 DEF Busy, LoopAlive
  <2> QED
    BY <1>1, <2>1
<1>3. CASE Tick \/ Boot \/ (\E t \in Tasks : Register(t))
  BY <1>2, <1>3 DEF Tick, Boot, Register, memory
<1>4. CASE Stop \/ StopDone \/ StopTimeout \/ UNCHANGED vars
  BY <1>2, <1>4 DEF Stop, StopDone, StopTimeout, vars, memory
<1>5. CASE Start
  <2>1. ~LoopAlive /\ LoopAlive' /\ running' = running + 1 /\ UNCHANGED Busy
    BY <1>5 DEF Start, LoopAlive, Lifecycle, Busy
  <2> QED
    BY <1>a, <2>1 DEF WaitGroupExact
<1>6. CASE catchUpMissedTasks \/ StartLoop
  <2>1. UNCHANGED <<running, Busy, LoopAlive>>
    BY <1>6 DEF catchUpMissedTasks, StartLoop, LoopAlive, Busy
  <2> QED
    BY <1>1, <2>1
<1>7. CASE ReadClock \/ checkTasks \/ Sleep \/ Wake
  <2>1. UNCHANGED <<running, Busy, LoopAlive>>
    BY <1>7 DEF ReadClock, checkTasks, Sleep, Wake, LoopAlive, Busy
  <2> QED
    BY <1>1, <2>1
<1>8. CASE LoopReturn
  <2>1. LoopAlive /\ ~LoopAlive' /\ running' = running - 1 /\ UNCHANGED Busy
    BY <1>8 DEF LoopReturn, LoopAlive, LoopOff, Lifecycle, Busy
  <2> QED
    BY <1>a, <2>1 DEF WaitGroupExact, TypeOK
<1>9. ASSUME NEW t \in Tasks, launchTask(t), UNCHANGED <<life, loop>> PROVE WaitGroupExact'
  <2>1. PICK s \in Slots \ Busy : exec' = [exec EXCEPT ![s] = [st |-> "launched", task |-> t]]
    BY <1>9 DEF launchTask
  <2>2. Busy' = Busy \cup {s}
    BY <2>1 DEF Busy, TypeOK
  <2>3. Cardinality(Busy') = Cardinality(Busy) + 1
    BY <1>a, <2>1, <2>2, FS_AddElement
  <2>4. running' = running + 1 /\ UNCHANGED LoopAlive
    BY <1>9 DEF launchTask, LoopAlive
  <2> QED
    BY <1>a, <2>3, <2>4 DEF WaitGroupExact
<1>10. CASE (\E d \in due : LaunchDue(d)) \/ (\E t \in Tasks : RunTaskNow(t))
  <2>1. ASSUME NEW d \in due, LaunchDue(d) PROVE WaitGroupExact'
    <3>1. d.task \in Tasks
      BY DEF TypeOK
    <3> QED
      BY <1>9, <2>1, <3>1 DEF LaunchDue
  <2> QED
    BY <1>9, <1>10, <2>1 DEF RunTaskNow
<1>11. ASSUME NEW s \in Slots, ExecStep(s) PROVE WaitGroupExact'
  <2>1. CASE ExecBegin(s) \/ (\E ok \in BOOLEAN : HandlerReturn(s, ok)) \/ Retry(s) \/ RetryAborted(s)
    <3>1. PICK e : exec' = [exec EXCEPT ![s] = e] /\ e.st # "idle"
      <4>1. CASE ExecBegin(s)
        <5> DEFINE e == [st |-> "handler", task |-> exec[s].task, start |-> now,
                         attempt |-> 0, wake |-> 0]
        <5>1. exec' = [exec EXCEPT ![s] = e]
          BY <4>1 DEF ExecBegin
        <5>2. e.st # "idle"
          OBVIOUS
        <5> QED
          BY <5>1, <5>2
      <4>2. ASSUME NEW ok \in BOOLEAN, HandlerReturn(s, ok)
            PROVE  \E e : exec' = [exec EXCEPT ![s] = e] /\ e.st # "idle"
        <5>1. exec[s] \in Attempting
          BY <4>2, ExecutionCases DEF HandlerReturn
        <5> DEFINE w == now + retryDelayForAttempt(exec[s].task, exec[s].attempt)
                   f == [st |-> "finish", task |-> exec[s].task, start |-> exec[s].start, ok |-> ok]
                   b == [exec[s] EXCEPT !.st = "backoff", !.wake = w]
        <5>2. exec' = [exec EXCEPT ![s] = f] \/ exec' = [exec EXCEPT ![s] = b]
          BY <4>2 DEF HandlerReturn
        <5> HIDE DEF w
        <5>3. f.st # "idle" /\ b.st # "idle"
          BY <5>1 DEF Attempting
        <5> QED
          BY <5>2, <5>3
      <4>3. CASE Retry(s)
        <5>1. exec[s] \in Attempting
          BY <4>3, ExecutionCases DEF Retry
        <5> DEFINE n == exec[s].attempt + 1
                   e == [exec[s] EXCEPT !.st = "handler", !.attempt = n, !.wake = 0]
        <5>2. exec' = [exec EXCEPT ![s] = e]
          BY <4>3 DEF Retry
        <5> HIDE DEF n
        <5>3. e.st # "idle"
          BY <5>1 DEF Attempting
        <5> QED
          BY <5>2, <5>3
      <4>4. CASE RetryAborted(s)
        <5> DEFINE e == [st |-> "finish", task |-> exec[s].task, start |-> exec[s].start,
                         ok |-> FALSE]
        <5>1. exec' = [exec EXCEPT ![s] = e]
          BY <4>4 DEF RetryAborted
        <5>2. e.st # "idle"
          OBVIOUS
        <5> QED
          BY <5>1, <5>2
      <4> QED
        BY <2>1, <4>1, <4>2, <4>3, <4>4
    <3>2. exec[s].st # "idle"
      BY <2>1 DEF ExecBegin, HandlerReturn, Retry, RetryAborted
    <3>3. Busy' = Busy
      BY <3>1, <3>2 DEF Busy, TypeOK
    <3>4. UNCHANGED <<running, life, loop>>
      BY <2>1 DEF ExecBegin, HandlerReturn, Retry, RetryAborted
    <3> QED
      BY <1>1, <3>3, <3>4 DEF LoopAlive
  <2>2. CASE ExecFinish(s)
    <3>1. s \in Busy /\ Busy' = Busy \ {s}
      BY <2>2 DEF ExecFinish, Busy, TypeOK, Idle
    <3>2. Cardinality(Busy') = Cardinality(Busy) - 1
      BY <1>a, <3>1, FS_RemoveElement
    <3>3. running' = running - 1 /\ UNCHANGED LoopAlive
      BY <2>2 DEF ExecFinish, LoopAlive
    <3> QED
      BY <1>a, <3>2, <3>3 DEF WaitGroupExact, TypeOK
  <2> QED
    BY <1>11, <2>1, <2>2 DEF ExecStep
<1>12. CASE Die
  <2>1. Busy' = {} /\ running' = 0 /\ ~LoopAlive'
    BY <1>12 DEF Die, Busy, Idle, LoopAlive, LoopOff
  <2> QED
    BY <2>1, FS_EmptySet DEF WaitGroupExact
<1> QED
  BY <1>3, <1>4, <1>5, <1>6, <1>7, <1>8, <1>10, <1>11, <1>12
     DEF Next, MainStep, LoopStep, Exit, Crash, CrashInSave

(***************************************************************************)
(* The WaitGroup counts the loop and the executions in flight exactly, for *)
(* any number of both.                                                     *)
(***************************************************************************)
THEOREM WaitGroupIsExact == Spec => []WaitGroupExact
<1>1. Init => WaitGroupExact
  <2>1. Init => Busy = {} /\ running = 0 /\ ~LoopAlive
    BY DEF Init, Busy, Idle, LoopAlive, LoopOff
  <2> QED
    BY <2>1, FS_EmptySet DEF WaitGroupExact
<1>2. TypeOK /\ Lifecycle /\ WaitGroupExact /\ [Next]_vars => WaitGroupExact'
  BY WaitGroupStep
<1> QED
  BY <1>1, <1>2, TypeCorrect, PTL DEF Spec

-----------------------------------------------------------------------------
(***************************************************************************)
(* Deadlines: NextRun only moves forward, and (as long as no statement on  *)
(* server.db fails) the table mirrors the memory and no deadline is        *)
(* launched twice, through any crash.                                      *)
(***************************************************************************)

(***************************************************************************)
(* What AtMostOncePerDeadline rests on: launches are for instants that     *)
(* have come, and a stored deadline (what the next boot starts from) is    *)
(* either not set yet or after every launch.                               *)
(***************************************************************************)
LaunchesArePast ==
  /\ \A t \in Tasks : dispatched[t] <= now
  /\ \A d \in due : d.deadline <= now

StoredIsAhead ==
  \A t \in Tasks : db[t] # NoRow /\ db[t].next # ZeroTime => db[t].next > dispatched[t]

DeadlineInv ==
  DurableState /\ LaunchesArePast /\ StoredIsAhead /\ AtMostOncePerDeadline

-----------------------------------------------------------------------------
\* Advancing moves exactly the due deadlines, past the instant of the check.
LEMMA AdvancedRows ==
  ASSUME TypeOK, NEW n \in 1..MaxTime, NEW t \in Tasks
  PROVE  /\ t \notin DueAt(n) => Advanced(n)[t] = tasks[t]
         /\ t \in DueAt(n) => /\ tasks[t] \in Row /\ Advanced(n)[t] \in Row
                              /\ tasks[t].next <= n /\ n < Advanced(n)[t].next
<1> DEFINE next == nextScheduledTime(t, n)
<1>1. next \in Nat /\ next > n
  BY NextIsLater
<1>2. t \in DueAt(n) => tasks[t] \in Row /\ [tasks[t] EXCEPT !.next = next] \in Row
  BY RowsAreTyped
<1>3. Advanced(n)[t] = IF t \in DueAt(n) THEN [tasks[t] EXCEPT !.next = next] ELSE tasks[t]
  BY DEF Advanced
<1> HIDE DEF next
<1>4. ASSUME t \in DueAt(n) PROVE tasks[t].next <= n /\ n < Advanced(n)[t].next
  <2>1. tasks[t].next <= n
    BY <1>4 DEF DueAt
  <2>2. ASSUME NEW r \in Row PROVE [r EXCEPT !.next = next].next = next
    BY <2>2 DEF Row
  <2>3. Advanced(n)[t].next = next
    BY <1>2, <1>3, <1>4, <2>2
  <2> QED
    BY <1>1, <2>1, <2>3
<1> QED
  BY <1>2, <1>3, <1>4

\* executeTask's last section leaves NextRun alone or moves it past now.
LEMMA FinishedNext ==
  ASSUME TypeOK, Lifecycle, NEW s \in Slots, ExecFinish(s)
  PROVE  /\ exec[s].task \in Tasks
         /\ tasks[exec[s].task] \in Row
         /\ tasks'[exec[s].task] \in Row
         /\ tasks'[exec[s].task].next >= tasks[exec[s].task].next
         /\ \A t \in Tasks \ {exec[s].task} : tasks'[t] = tasks[t]
<1> USE BoundsAssumption
<1> DEFINE e == exec[s]  row == tasks[e.task]  new == FinishedRow(row, e)
           next == nextScheduledTime(e.task, now)
<1>1. e \in Finishing /\ s \in Busy /\ e.start <= now
  BY ExecutionCases DEF ExecFinish, Busy, Lifecycle
<1>2. e.task \in Tasks /\ e.start \in 1..MaxTime
  BY <1>1 DEF Finishing
<1>3. Registered(e.task)
  BY <1>1, <1>2 DEF Lifecycle, Lives, TypeOK
<1>4. row \in Row
  BY <1>2, <1>3 DEF TypeOK, Registered
<1>5. new \in Row
  BY <1>3, RowsAreTyped DEF ExecFinish
<1>6. tasks' = [tasks EXCEPT ![e.task] = new]
  BY DEF ExecFinish
<1>7. next > now /\ next \in Nat /\ now \in Nat
  BY <1>2, NextIsLater DEF TypeOK
<1>8. new.next = IF row.next = ZeroTime \/ row.next <= e.start THEN next ELSE row.next
  BY DEF FinishedRow
<1>9. row.next \in Nat
  BY <1>4 DEF Row
<1>10. new.next >= row.next
  <2> HIDE DEF e, row, new, next
  <2> QED
    BY <1>1, <1>2, <1>7, <1>8, <1>9 DEF ZeroTime
<1> HIDE DEF new
<1> QED
  BY <1>2, <1>4, <1>5, <1>6, <1>10 DEF TypeOK

\* The steps that write s.tasks; every other one leaves it alone.
LEMMA WhoWritesTasks ==
  ASSUME Next
  PROVE  \/ UNCHANGED tasks
         \/ \E t \in Tasks : Register(t)
         \/ catchUpMissedTasks \/ checkTasks
         \/ \E s \in Slots : ExecFinish(s)
         \/ Die
  BY DEF Next, Tick, Boot, MainStep, Start, StartLoop, LaunchDue, LoopStep, ReadClock, Sleep,
         Wake, LoopReturn, RunTaskNow, ExecStep, ExecBegin, HandlerReturn, Retry,
         RetryAborted, Stop, StopDone, StopTimeout, Exit, Crash, CrashInSave, memory

(***************************************************************************)
(* NextRun of a registered task never moves back, whatever the order in    *)
(* which executions finish and whether or not saves fail.                  *)
(***************************************************************************)
THEOREM NextRunIsMonotone == Spec => NextRunNeverGoesBack
<1> DEFINE Forward ==
      \A t \in Tasks : Registered(t) /\ Registered(t)' => tasks'[t].next >= tasks[t].next
<1>1. ASSUME TypeOK, Lifecycle, Next PROVE Forward
  <2> USE <1>1
  <2> USE BoundsAssumption
  <2> SUFFICES ASSUME NEW t \in Tasks, Registered(t), Registered(t)'
               PROVE  tasks'[t].next >= tasks[t].next
    OBVIOUS
  <2>1. tasks[t] \in Row /\ tasks[t].next \in Nat
    BY DEF TypeOK, Registered, Row
  <2>2. CASE UNCHANGED tasks
    BY <2>1, <2>2
  <2>3. ASSUME NEW u \in Tasks, Register(u) PROVE tasks'[t] = tasks[t]
    BY <2>3 DEF Register, TypeOK, Registered
  <2>4. ASSUME NEW n \in 1..MaxTime, tasks' = Advanced(n)
        PROVE  tasks'[t].next >= tasks[t].next
    <3>1. CASE t \in DueAt(n)
      <4>1. tasks[t].next <= n /\ n < tasks'[t].next /\ tasks'[t] \in Row
        BY <2>4, <3>1, AdvancedRows
      <4>2. tasks'[t].next \in Nat
        BY <4>1 DEF Row
      <4> QED
        BY <2>1, <4>1, <4>2
    <3>2. CASE t \notin DueAt(n)
      BY <2>1, <2>4, <3>2, AdvancedRows
    <3> QED
      BY <3>1, <3>2
  <2>5. CASE catchUpMissedTasks
    BY <2>4, <2>5 DEF catchUpMissedTasks, TypeOK
  <2>6. CASE checkTasks
    <3>1. loop.at \in 1..MaxTime
      BY <2>6 DEF checkTasks, Lifecycle, TypeOK
    <3> QED
      BY <2>4, <2>6, <3>1 DEF checkTasks
  <2>7. ASSUME NEW s \in Slots, ExecFinish(s) PROVE tasks'[t].next >= tasks[t].next
    BY <2>1, <2>7, FinishedNext
  <2>8. CASE Die
    BY <2>8 DEF Die, Registered
  <2> QED
    BY <2>1, <2>2, <2>3, <2>5, <2>6, <2>7, <2>8, WhoWritesTasks
<1>2. TypeOK /\ Lifecycle /\ [Next]_vars => [Forward]_vars
  BY <1>1
<1> QED
  BY <1>2, TypeCorrect, PTL DEF Spec, NextRunNeverGoesBack
-----------------------------------------------------------------------------
(***************************************************************************)
(* The steps that can disturb the deadlines, one lemma each.               *)
(***************************************************************************)
LEMMA DeadlinesRegister ==
  ASSUME TypeOK, Lifecycle, DeadlineInv, ~SaveFaults, NEW t \in Tasks, Register(t)
  PROVE  DeadlineInv'
<1> USE BoundsAssumption
<1>1. RegisteredRow(t) \in Row
  BY RowsAreTyped
<1>2. /\ tasks'[t] = RegisteredRow(t) /\ tasks'[t] \in Row
      /\ \A u \in Tasks \ {t} : tasks'[u] = tasks[u]
  BY <1>1 DEF Register, TypeOK
<1>3. saveTaskState({t}, tasks')
  BY DEF Register
<1>4. db'[t] = tasks'[t] /\ \A u \in Tasks \ {t} : db'[u] = db[u]
  BY <1>2, <1>3, SaveIsTyped
<1>5. UNCHANGED <<now, due, dispatched>> /\ due = {}
  BY DEF Register, Lifecycle
<1>6. tasks'[t].next > dispatched[t]
  <2> DEFINE next == nextScheduledTime(t, now)
  <2>1. next > now /\ next \in Nat /\ dispatched[t] <= now /\ now \in Nat /\ dispatched[t] \in Nat
    BY NextIsLater DEF TypeOK, DeadlineInv, LaunchesArePast
  <2> HIDE DEF next
  <2>2. loadTaskState(t) \in Row
    BY RowsAreTyped DEF loadTaskState, TypeOK
  <2>3. ASSUME NEW r \in Row PROVE [r EXCEPT !.next = next].next = next
    BY <2>3 DEF Row
  <2>4. CASE loadTaskState(t).next = ZeroTime
    <3>1. RegisteredRow(t).next = next
      BY <2>2, <2>3, <2>4 DEF RegisteredRow, next
    <3> QED
      BY <1>2, <2>1, <3>1
  <2>5. CASE loadTaskState(t).next # ZeroTime
    <3>1. RegisteredRow(t) = loadTaskState(t) /\ loadTaskState(t) = db[t] /\ db[t] # NoRow
      BY <2>5 DEF RegisteredRow, loadTaskState, DefaultRow, ZeroTime
    <3> QED
      BY <1>2, <2>5, <3>1 DEF DeadlineInv, StoredIsAhead
  <2> QED
    BY <2>4, <2>5
<1>7. DurableState'
  BY <1>2, <1>4 DEF DeadlineInv, DurableState, Registered
<1>8. LaunchesArePast'
  BY <1>5 DEF DeadlineInv, LaunchesArePast
<1>9. StoredIsAhead'
  BY <1>4, <1>5, <1>6 DEF DeadlineInv, StoredIsAhead
<1>10. AtMostOncePerDeadline'
  BY <1>2, <1>5, <1>6 DEF DeadlineInv, AtMostOncePerDeadline, Registered
<1> QED
  BY <1>7, <1>8, <1>9, <1>10 DEF DeadlineInv

\* The locked sections of catchUpMissedTasks and checkTasks.
LEMMA DeadlinesAdvance ==
  ASSUME TypeOK, Lifecycle, DeadlineInv, ~SaveFaults,
         NEW n \in 1..now, \A t \in Tasks : Registered(t),
         tasks' = Advanced(n), saveTaskState(DueAt(n), tasks'),
         due' \subseteq {[task |-> t, deadline |-> tasks[t].next] : t \in DueAt(n)},
         UNCHANGED <<now, dispatched>>
  PROVE  DeadlineInv'
<1> USE BoundsAssumption
<1>1. n \in 1..MaxTime /\ n <= now
  BY DEF TypeOK
<1>2. DueAt(n) \subseteq Tasks
  BY DEF DueAt
<1>3. \A t \in Tasks : tasks[t] \in Row /\ tasks[t].next \in Nat
  BY DEF TypeOK, Registered, Row
<1>4. \A t \in DueAt(n) : tasks'[t] \in Row /\ tasks[t].next <= n /\ n < tasks'[t].next
  BY <1>1, <1>2, AdvancedRows
<1>5. \A t \in Tasks \ DueAt(n) : tasks'[t] = tasks[t]
  BY <1>1, AdvancedRows
<1>6. /\ \A t \in DueAt(n) : db'[t] = tasks'[t]
      /\ \A t \in Tasks : db'[t] = db[t] \/ (t \in DueAt(n) /\ db'[t] = tasks'[t])
  <2> DEFINE D == DueAt(n)  m == tasks'
  <2>1. D \in SUBSET Tasks /\ (\A t \in D : m[t] \in Row) /\ saveTaskState(D, m)
    BY <1>2, <1>4
  <2> HIDE DEF D, m
  <2>2. /\ \A t \in Tasks : db'[t] = db[t] \/ (t \in D /\ db'[t] = m[t])
        /\ \A t \in D : db'[t] = m[t]
    BY <2>1, SaveIsTyped
  <2> QED
    BY <2>2 DEF D, m
<1>8. \A t \in Tasks : dispatched[t] \in Nat /\ dispatched[t] < tasks[t].next
  BY DEF TypeOK, DeadlineInv, AtMostOncePerDeadline
<1>9. \A t \in Tasks : dispatched[t] < tasks'[t].next
  <2>1. \A t \in DueAt(n) : tasks'[t].next \in Nat
    BY <1>4 DEF Row
  <2> QED
    BY <1>1, <1>2, <1>3, <1>4, <1>5, <1>8, <2>1
<1>10. \A d \in due' : d.task \in DueAt(n) /\ d = [task |-> d.task, deadline |-> tasks[d.task].next]
  OBVIOUS
<1>11. \A d \in due' : d.task \in DueAt(n) /\ d.deadline = tasks[d.task].next
  BY <1>10
<1>12. \A t \in Tasks : db[t] = tasks[t]
  BY DEF DeadlineInv, DurableState
<1>13. DurableState'
  BY <1>5, <1>6, <1>12 DEF DurableState
<1>14. LaunchesArePast'
  BY <1>1, <1>2, <1>3, <1>4, <1>11 DEF DeadlineInv, LaunchesArePast, TypeOK
<1>15. StoredIsAhead'
  BY <1>2, <1>6, <1>9 DEF DeadlineInv, StoredIsAhead
<1>16. \A d \in due' : dispatched[d.task] < d.deadline /\ d.deadline < tasks'[d.task].next
  <2> SUFFICES ASSUME NEW d \in due'
               PROVE  dispatched[d.task] < d.deadline /\ d.deadline < tasks'[d.task].next
    OBVIOUS
  <2>1. d.task \in DueAt(n) /\ d.task \in Tasks /\ d.deadline = tasks[d.task].next
    BY <1>2, <1>11
  <2>2. tasks'[d.task].next \in Nat
    BY <1>4, <2>1 DEF Row
  <2> QED
    BY <1>1, <1>3, <1>4, <1>8, <2>1, <2>2
<1>17. \A d, e \in due' : d.task = e.task => d = e
  BY <1>10
<1>18. AtMostOncePerDeadline'
  BY <1>9, <1>16, <1>17 DEF AtMostOncePerDeadline
<1> QED
  BY <1>13, <1>14, <1>15, <1>18 DEF DeadlineInv

LEMMA DeadlinesLaunch ==
  ASSUME TypeOK, DeadlineInv, NEW d \in due, LaunchDue(d)
  PROVE  DeadlineInv'
<1>1. d.task \in Tasks /\ d.deadline \in Nat
  BY DEF TypeOK
<1>2. /\ UNCHANGED <<now, db, tasks>> /\ due' = due \ {d}
      /\ dispatched'[d.task] = d.deadline
      /\ \A t \in Tasks \ {d.task} : dispatched'[t] = dispatched[t]
  BY <1>1 DEF LaunchDue, TypeOK
<1>3. d.deadline <= now /\ d.deadline < tasks[d.task].next
  BY DEF DeadlineInv, LaunchesArePast, AtMostOncePerDeadline
<1>4. Registered(d.task) /\ db[d.task] = tasks[d.task]
  <2>1. Registered(d.task)
    BY <1>1, <1>3 DEF Registered, NoRow
  <2> QED
    BY <1>1, <2>1 DEF DeadlineInv, DurableState
<1>5. DurableState'
  BY <1>2 DEF DeadlineInv, DurableState, Registered
<1>6. LaunchesArePast'
  BY <1>2, <1>3 DEF DeadlineInv, LaunchesArePast
<1>7. StoredIsAhead'
  BY <1>2, <1>3, <1>4 DEF DeadlineInv, StoredIsAhead
<1>8. AtMostOncePerDeadline'
  <2>1. \A e \in due' : e \in due /\ e.task \in Tasks /\ e.task # d.task
    BY <1>2 DEF DeadlineInv, AtMostOncePerDeadline, TypeOK
  <2>2. \A t \in Tasks : Registered(t)' => tasks'[t].next > dispatched'[t]
    BY <1>2, <1>3 DEF DeadlineInv, AtMostOncePerDeadline, Registered
  <2>3. \A e \in due' : dispatched'[e.task] < e.deadline /\ e.deadline < tasks'[e.task].next
    BY <1>2, <2>1 DEF DeadlineInv, AtMostOncePerDeadline
  <2>4. \A e, f \in due' : e.task = f.task => e = f
    BY <2>1 DEF DeadlineInv, AtMostOncePerDeadline
  <2> QED
    BY <2>2, <2>3, <2>4 DEF AtMostOncePerDeadline
<1> QED
  BY <1>5, <1>6, <1>7, <1>8 DEF DeadlineInv

LEMMA DeadlinesFinish ==
  ASSUME TypeOK, Lifecycle, DeadlineInv, ~SaveFaults, NEW s \in Slots, ExecFinish(s)
  PROVE  DeadlineInv'
<1> DEFINE t == exec[s].task
<1>1. /\ t \in Tasks /\ tasks[t] \in Row /\ tasks'[t] \in Row
      /\ tasks'[t].next >= tasks[t].next
      /\ \A u \in Tasks \ {t} : tasks'[u] = tasks[u]
  BY FinishedNext
<1>2. saveTaskState({t}, tasks') /\ UNCHANGED <<now, due, dispatched>>
  BY DEF ExecFinish
<1> HIDE DEF t
<1>3. db'[t] = tasks'[t] /\ \A u \in Tasks \ {t} : db'[u] = db[u]
  BY <1>1, <1>2, SaveIsTyped
<1>4. /\ tasks[t].next \in Nat /\ tasks'[t].next \in Nat /\ dispatched[t] \in Nat
      /\ Registered(t) /\ tasks[t].next > dispatched[t]
  BY <1>1 DEF TypeOK, Row, NoRow, Registered, DeadlineInv, AtMostOncePerDeadline
<1>5. tasks'[t].next > dispatched[t]
  BY <1>1, <1>4
<1>6. DurableState'
  BY <1>1, <1>3 DEF DeadlineInv, DurableState, Registered
<1>7. LaunchesArePast'
  BY <1>2 DEF DeadlineInv, LaunchesArePast
<1>8. StoredIsAhead'
  BY <1>2, <1>3, <1>5 DEF DeadlineInv, StoredIsAhead
<1>9. \A d \in due : dispatched[d.task] < d.deadline /\ d.deadline < tasks'[d.task].next
  <2> SUFFICES ASSUME NEW d \in due
               PROVE  dispatched[d.task] < d.deadline /\ d.deadline < tasks'[d.task].next
    OBVIOUS
  <2>1. /\ d.task \in Tasks /\ d.deadline \in Nat
        /\ dispatched[d.task] < d.deadline /\ d.deadline < tasks[d.task].next
    BY DEF TypeOK, DeadlineInv, AtMostOncePerDeadline
  <2> QED
    BY <1>1, <1>4, <2>1
<1>10. AtMostOncePerDeadline'
  BY <1>1, <1>2, <1>5, <1>9 DEF DeadlineInv, AtMostOncePerDeadline, Registered
<1> QED
  BY <1>6, <1>7, <1>8, <1>10 DEF DeadlineInv

\* The process dies; what is on disk is still after every launch.
LEMMA DeadlinesDie ==
  ASSUME TypeOK, Lifecycle, DeadlineInv, Die, CrashInSave \/ UNCHANGED db
  PROVE  DeadlineInv'
<1> USE BoundsAssumption
<1>1. /\ \A t \in Tasks : ~Registered(t)'
      /\ due' = {} /\ UNCHANGED <<now, dispatched>>
  BY DEF Die, Registered
<1>2. StoredIsAhead'
  <2> SUFFICES ASSUME NEW t \in Tasks, db'[t] # NoRow, db'[t].next # ZeroTime
               PROVE  db'[t].next > dispatched[t]
    BY <1>1 DEF StoredIsAhead
  <2>1. CASE db'[t] = db[t]
    BY <2>1 DEF DeadlineInv, StoredIsAhead
  <2>2. CASE db'[t] = DefaultRow(t)
    BY <2>2 DEF DefaultRow
  <2>3. ASSUME NEW n \in 1..now, t \in DueAt(n), db'[t] = Advanced(n)[t]
        PROVE  db'[t].next > dispatched[t]
    <3>1. n \in 1..MaxTime
      BY DEF TypeOK
    <3>2. tasks[t] \in Row /\ db'[t] \in Row /\ tasks[t].next <= n /\ n < db'[t].next
      BY <2>3, <3>1, AdvancedRows
    <3>3. tasks[t].next > dispatched[t]
      BY <3>2 DEF DeadlineInv, AtMostOncePerDeadline, Registered, Row, NoRow
    <3>4. tasks[t].next \in Nat /\ db'[t].next \in Nat /\ dispatched[t] \in Nat
      BY <3>2 DEF TypeOK, Row
    <3> QED
      BY <3>1, <3>2, <3>3, <3>4
  <2> QED
    BY <2>1, <2>2, <2>3, CrashRows
<1> QED
  BY <1>1, <1>2 DEF DeadlineInv, DurableState, LaunchesArePast, AtMostOncePerDeadline

LEMMA DeadlineStep ==
  ASSUME TypeOK, Lifecycle, DeadlineInv, ~SaveFaults, [Next]_vars
  PROVE  DeadlineInv'
<1> USE BoundsAssumption
<1>1. CASE UNCHANGED <<now, db, tasks, due, dispatched>>
  BY <1>1 DEF DeadlineInv, DurableState, LaunchesArePast, StoredIsAhead,
              AtMostOncePerDeadline, Registered
<1>2. CASE Tick
  <2>1. UNCHANGED <<db, tasks, due, dispatched>> /\ now' = now + 1 /\ now \in Nat
    BY <1>2 DEF Tick, memory, TypeOK
  <2>2. LaunchesArePast'
    BY <2>1 DEF DeadlineInv, LaunchesArePast, TypeOK
  <2> QED
    BY <2>1, <2>2 DEF DeadlineInv, DurableState, StoredIsAhead, AtMostOncePerDeadline, Registered
<1>3. CASE catchUpMissedTasks
  <2>1. now \in 1..now /\ \A t \in Tasks : Registered(t)
    BY <1>3 DEF TypeOK, Lifecycle, catchUpMissedTasks
  <2>2. due' \subseteq {[task |-> t, deadline |-> tasks[t].next] : t \in DueAt(now)}
    BY <1>3 DEF catchUpMissedTasks
  <2> QED
    BY <1>3, <2>1, <2>2, DeadlinesAdvance DEF catchUpMissedTasks
<1>4. CASE checkTasks
  <2>1. loop.at \in 1..now /\ \A t \in Tasks : Registered(t)
    BY <1>4 DEF Lifecycle, checkTasks
  <2> QED
    BY <1>4, <2>1, DeadlinesAdvance DEF checkTasks
<1>5. CASE Exit \/ Crash \/ CrashInSave
  BY <1>5, DeadlinesDie DEF Exit, Crash, CrashInSave
<1>6. CASE Boot \/ Start \/ StartLoop \/ (\E t \in Tasks : RunTaskNow(t))
           \/ ReadClock \/ Sleep \/ Wake \/ LoopReturn
           \/ Stop \/ StopDone \/ StopTimeout \/ UNCHANGED vars
  BY <1>1, <1>6 DEF Boot, Start, StartLoop, RunTaskNow, ReadClock, Sleep, Wake, LoopReturn,
                    Stop, StopDone, StopTimeout, vars, memory
<1>7. ASSUME NEW s \in Slots, ExecStep(s), ~ExecFinish(s) PROVE DeadlineInv'
  BY <1>1, <1>7 DEF ExecStep, ExecBegin, HandlerReturn, Retry, RetryAborted
<1> QED
  BY <1>2, <1>3, <1>4, <1>5, <1>6, <1>7, DeadlinesRegister, DeadlinesLaunch, DeadlinesFinish
     DEF Next, MainStep, LoopStep

\* The inductive invariant of the deadlines, without storage faults.
LEMMA Deadlines == ~SaveFaults => (Spec => []DeadlineInv)
<1> SUFFICES ASSUME ~SaveFaults PROVE Spec => []DeadlineInv
  OBVIOUS
<1>1. Init => DeadlineInv
  <2> SUFFICES ASSUME Init PROVE DeadlineInv
    OBVIOUS
  <2>1. \A t \in Tasks : ~Registered(t) /\ db[t] = NoRow /\ dispatched[t] = 0
    BY DEF Init, Registered
  <2> QED
    BY <2>1 DEF Init, DeadlineInv, DurableState, LaunchesArePast, StoredIsAhead,
                      AtMostOncePerDeadline
<1>2. TypeOK /\ Lifecycle /\ DeadlineInv /\ [Next]_vars => DeadlineInv'
  BY DeadlineStep
<1> QED
  BY <1>1, <1>2, TypeCorrect, PTL DEF Spec

(***************************************************************************)
(* No deadline is launched twice, across any sequence of crashes and       *)
(* restarts, whether or not stored times can be read back, as long as      *)
(* saves succeed.                                                          *)
(***************************************************************************)
THEOREM LaunchedAtMostOnce == ~SaveFaults => (Spec => []AtMostOncePerDeadline)
<1>1. DeadlineInv => AtMostOncePerDeadline
  BY DEF DeadlineInv
<1> QED
  BY <1>1, Deadlines, PTL

(***************************************************************************)
(* Between locked sections server.db holds what the memory holds.          *)
(***************************************************************************)
THEOREM StateIsDurable == ~SaveFaults => (Spec => []DurableState)
<1>1. DeadlineInv => DurableState
  BY DEF DeadlineInv
<1> QED
  BY <1>1, Deadlines, PTL
=============================================================================
