------------------------------ MODULE Scheduler ------------------------------
(***************************************************************************)
(* The built-in task scheduler (src/src/scheduler/scheduler.go) as the     *)
(* server runs it (src/src/server/server.go): registration at boot from    *)
(* the scheduler_tasks table, catch-up of missed deadlines, the scheduling *)
(* loop, task executions with retries, runs requested over HTTP, Stop,     *)
(* process exit and crashes.                                               *)
(*                                                                         *)
(* Every section the code runs under s.mu is one step.  The goroutines are *)
(* the main goroutine (life), the loop (loop) and one per execution (a     *)
(* slot of exec).  LastRun, LastStatus, LastError and Name are written and *)
(* never read back by the scheduler: they are left out of the row.         *)
(***************************************************************************)
EXTENDS Integers, FiniteSets

CONSTANTS
  Tasks,           \* the registered task IDs
  Slots,           \* bound: executions that can be in flight at once
  MaxTime,         \* bound: the clock runs over 1..MaxTime and then reads MaxTime
  MaxManual,       \* bound: runs requested over HTTP in a behaviour
  Every,           \* Every[t]: period of an "@every" schedule, 0 for a cron one
  Cron,            \* Cron[t]: the instants that match a cron schedule
  Policy,          \* Policy[t]: RetryPolicy (max = 0 stands for a nil policy)
  DefaultEnabled,  \* DefaultEnabled[t]: Enabled as tasks.go registers it
  CatchUpWindow,   \* s.catchUpWind
  MaxDelay,        \* the longest sleep of the loop (one minute); the shortest is 1
  TimesReadable,   \* does a stored time scan back into sql.NullTime?
  SaveFaults,      \* may a statement on server.db fail?
  Crashes          \* may the process die at any moment?

Backoffs == {"linear", "constant", "exponential"}

\* Some instant of the schedule follows n, and there is a first one.
HasNext(t, n) ==
  \E m \in Cron[t] : m > n /\ \A k \in Cron[t] : k > n => m <= k

ASSUME TasksAssumption == IsFiniteSet(Tasks) /\ IsFiniteSet(Slots)

ASSUME BoundsAssumption ==
  /\ MaxTime \in Nat \ {0}
  /\ MaxManual \in Nat
  /\ CatchUpWindow \in Nat
  /\ MaxDelay \in Nat \ {0}

ASSUME SwitchesAssumption ==
  /\ TimesReadable \in BOOLEAN
  /\ SaveFaults \in BOOLEAN
  /\ Crashes \in BOOLEAN

ASSUME ScheduleAssumption ==
  /\ DefaultEnabled \in [Tasks -> BOOLEAN]
  /\ Every \in [Tasks -> Nat]
  /\ \A t \in Tasks : Cron[t] \subseteq Nat
  /\ \A t \in Tasks : Every[t] = 0 => \A n \in 1..MaxTime : HasNext(t, n)

ASSUME PolicyAssumption ==
  /\ Policy \in [Tasks -> [max : Nat, delay : Nat, backoff : Backoffs]]
  /\ \A t \in Tasks : \A a \in 0..Policy[t].max : 2 ^ a \in Nat

VARIABLES
  now,         \* the wall clock
  db,          \* scheduler_tasks: db[t] is a row, or NoRow
  history,     \* scheduler_history: history[t][s], status of slot s's latest row
  tasks,       \* s.tasks: tasks[t] is the in-memory task, or NoRow before Register
  life,        \* where the server process is
  ctxDone,     \* s.ctx is cancelled
  running,     \* s.running, the WaitGroup's counter
  due,         \* tasks collected under the lock and not launched yet
  loop,        \* the runLoop goroutine
  exec,        \* exec[s]: the execution in slot s
  manual,      \* runs requested over HTTP so far (bounded by MaxManual)
  dispatched   \* history variable: latest deadline of t that was launched

memory == <<tasks, ctxDone, running, due, loop, exec>>
vars == <<now, db, history, memory, life, manual, dispatched>>

ZeroTime == 0
NoRow == [next |-> -1, enabled |-> FALSE, runs |-> 0, fails |-> 0]
Row == [next : Nat, enabled : BOOLEAN, runs : Nat, fails : Nat]
DefaultRow(t) ==
  [next |-> ZeroTime, enabled |-> DefaultEnabled[t], runs |-> 0, fails |-> 0]

Lives == {"down", "boot", "catchup", "launching", "up", "stopping", "stopped"}
HistoryStatus == {"none", "running", "success", "failed"}

LoopOff == [pc |-> "off", at |-> 0]
LoopState == [pc : {"off", "check", "collect", "launch", "wait"}, at : Nat]

Idle == [st |-> "idle"]
Launched == [st : {"launched"}, task : Tasks]
Attempting == [st : {"handler", "backoff"}, task : Tasks,
               start : 1..MaxTime, attempt : Nat, wake : Nat]
Finishing == [st : {"finish"}, task : Tasks, start : 1..MaxTime, ok : BOOLEAN]
Execution == {Idle} \cup Launched \cup Attempting \cup Finishing

\* A timer set for instant w has fired (past the horizon the clock stands still).
Elapsed(w) == now >= w \/ now = MaxTime

Busy == {s \in Slots : exec[s].st # "idle"}
Registered(t) == tasks[t] # NoRow
LoopAlive == life \in {"catchup", "launching"} \/ loop.pc # "off"
-----------------------------------------------------------------------------
\* Operators named Mutant... are slips a change to the code could make; the
\* specification does not use them, each shows that a property notices one.

\* The period is subtracted.
MutantNextBackwards(t, n) ==
  IF Every[t] # 0
  THEN n - Every[t]
  ELSE CHOOSE m \in Cron[t] : m > n /\ \A k \in Cron[t] : k > n => m <= k

(***************************************************************************)
(* nextScheduledTime: the first instant of the schedule strictly after n.  *)
(* Register replaces a schedule that has none by "@hourly", so that the    *)
(* error results of its later callers do not arise.                        *)
(***************************************************************************)
nextScheduledTime(t, n) ==
  IF Every[t] # 0
  THEN n + Every[t]
  ELSE CHOOSE m \in Cron[t] : m > n /\ \A k \in Cron[t] : k > n => m <= k

\* Delay before the retry that follows zero-based attempt a.
retryDelayForAttempt(t, a) ==
  LET p == Policy[t]
  IN  CASE p.backoff = "linear"   -> p.delay * (a + 1)
        [] p.backoff = "constant" -> p.delay
        [] OTHER                  -> p.delay * 2 ^ a

(***************************************************************************)
(* saveTaskState of the tasks in T, from their in-memory rows m: each save *)
(* succeeds, or (with SaveFaults) fails and is only logged.  INSERT OR     *)
(* REPLACE deletes the old row, and with foreign_keys(ON) the ON DELETE    *)
(* CASCADE of scheduler_history deletes the task's history with it.        *)
(***************************************************************************)
saveTaskState(T, m) ==
  \E ok \in IF SaveFaults THEN SUBSET T ELSE {T} :
    /\ db' = [t \in Tasks |-> IF t \in ok THEN m[t] ELSE db[t]]
    /\ history' = [t \in Tasks |-> IF t \in ok /\ db[t] # NoRow
                                   THEN [s \in Slots |-> "none"]
                                   ELSE history[t]]

\* loadTaskState: a row whose times do not scan leaves the task as tasks.go
\* built it (the scan fails at last_run, before the other fields are read).
loadTaskState(t) ==
  IF db[t] = NoRow \/ ~TimesReadable THEN DefaultRow(t) ELSE db[t]

\* The task as Register puts it into s.tasks.
RegisteredRow(t) ==
  LET row == loadTaskState(t)
  IN  IF row.next = ZeroTime
      THEN [row EXCEPT !.next = nextScheduledTime(t, now)]
      ELSE row

\* recordHistoryStart inserts a "running" row; if that fails its ID is 0.
recordHistoryStart(t, s) ==
  \/ history' = [history EXCEPT ![t][s] = "running"]
  \/ SaveFaults /\ history' = [history EXCEPT ![t][s] = "none"]

\* recordHistoryFinish updates the row by ID: no effect if it is gone.
recordHistoryFinish(t, s, ok) ==
  \/ history' = IF history[t][s] = "running"
                THEN [history EXCEPT ![t][s] = IF ok THEN "success" ELSE "failed"]
                ELSE history
  \/ SaveFaults /\ UNCHANGED history
-----------------------------------------------------------------------------
Init ==
  /\ now = 1
  /\ db = [t \in Tasks |-> NoRow]
  /\ history = [t \in Tasks |-> [s \in Slots |-> "none"]]
  /\ tasks = [t \in Tasks |-> NoRow]
  /\ life = "down"
  /\ ctxDone = FALSE
  /\ running = 0
  /\ due = {}
  /\ loop = LoopOff
  /\ exec = [s \in Slots |-> Idle]
  /\ manual = 0
  /\ dispatched = [t \in Tasks |-> 0]

Tick ==
  /\ now < MaxTime
  /\ now' = now + 1
  /\ UNCHANGED <<db, history, memory, life, manual, dispatched>>

\* The process is started: scheduler.New.
Boot ==
  /\ life = "down"
  /\ life' = "boot"
  /\ UNCHANGED <<now, db, history, memory, manual, dispatched>>

\* RegisterBuiltInTasks calls Register for one task after the other.
Register(t) ==
  /\ life = "boot"
  /\ ~Registered(t)
  /\ tasks' = [tasks EXCEPT ![t] = RegisteredRow(t)]
  /\ \/ saveTaskState({t}, tasks')
     \/ /\ SaveFaults /\ db[t] = NoRow   \* only loadTaskState's own insert succeeds
        /\ saveTaskState({t}, [u \in Tasks |-> DefaultRow(u)])
  /\ UNCHANGED <<now, ctxDone, running, due, loop, exec, life, manual, dispatched>>

\* Start, first section: started := true, running.Add(1).
Start ==
  /\ life = "boot"
  /\ \A t \in Tasks : Registered(t)
  /\ life' = "catchup"
  /\ running' = running + 1
  /\ UNCHANGED <<now, db, history, tasks, ctxDone, due, loop, exec, manual, dispatched>>

\* A deadline is due only once it has passed.
MutantDueStrictly(n) ==
  {t \in Tasks : tasks[t].enabled /\ tasks[t].next # ZeroTime /\ tasks[t].next < n}

DueAt(n) == {t \in Tasks : tasks[t].enabled /\ tasks[t].next # ZeroTime /\ tasks[t].next <= n}
Advanced(n) ==
  [t \in Tasks |-> IF t \in DueAt(n)
                   THEN [tasks[t] EXCEPT !.next = nextScheduledTime(t, n)]
                   ELSE tasks[t]]

\* catchUpMissedTasks, the locked section: every missed deadline is advanced
\* and saved, only those missed within the window are kept for launch.
catchUpMissedTasks ==
  /\ life = "catchup"
  /\ life' = "launching"
  /\ tasks' = Advanced(now)
  /\ saveTaskState(DueAt(now), tasks')
  /\ due' = {[task |-> t, deadline |-> tasks[t].next] :
               t \in {u \in DueAt(now) : now - tasks[u].next <= CatchUpWindow}}
  /\ UNCHANGED <<now, ctxDone, running, loop, exec, manual, dispatched>>

\* The goroutine is started without Add(1).
MutantLaunchUntracked(t) ==
  \E s \in Slots \ Busy :
    /\ exec' = [exec EXCEPT ![s] = [st |-> "launched", task |-> t]]
    /\ UNCHANGED running

\* launchTask: Add(1) under the lock, then a goroutine.  Start has set started
\* before any launch, so every execution is tracked; stopping is never set.
launchTask(t) ==
  \E s \in Slots \ Busy :
    /\ running' = running + 1
    /\ exec' = [exec EXCEPT ![s] = [st |-> "launched", task |-> t]]

\* The loops over due in catchUpMissedTasks and checkTasks: s.tasks is a map,
\* so the collected tasks come in any order.
LaunchDue(d) ==
  /\ d \in due
  /\ life = "launching" \/ loop.pc = "launch"
  /\ launchTask(d.task)
  /\ due' = due \ {d}
  /\ dispatched' = [dispatched EXCEPT ![d.task] = d.deadline]
  /\ UNCHANGED <<now, db, history, tasks, life, ctxDone, loop, manual>>

\* Start, last step: go s.runLoop(); the server then begins to serve.
StartLoop ==
  /\ life = "launching"
  /\ due = {}
  /\ life' = "up"
  /\ loop' = [pc |-> "check", at |-> 0]
  /\ UNCHANGED <<now, db, history, tasks, ctxDone, running, due, exec, manual, dispatched>>

\* checkTasks reads the clock before it waits for the lock.
ReadClock ==
  /\ loop.pc = "check"
  /\ loop' = [pc |-> "collect", at |-> now]
  /\ UNCHANGED <<now, db, history, tasks, ctxDone, running, due, exec, life, manual, dispatched>>

\* The deadline is left to executeTask to advance.
MutantAdvanceLater ==
  /\ loop.pc = "collect"
  /\ loop' = [pc |-> "launch", at |-> 0]
  /\ due' = {[task |-> t, deadline |-> tasks[t].next] : t \in DueAt(loop.at)}
  /\ UNCHANGED <<now, db, history, tasks, ctxDone, running, exec, life, manual, dispatched>>

\* checkTasks, the locked section: deadlines are advanced and saved before
\* anything is launched.
checkTasks ==
  /\ loop.pc = "collect"
  /\ loop' = [pc |-> "launch", at |-> 0]
  /\ tasks' = Advanced(loop.at)
  /\ saveTaskState(DueAt(loop.at), tasks')
  /\ due' = {[task |-> t, deadline |-> tasks[t].next] : t \in DueAt(loop.at)}
  /\ UNCHANGED <<now, ctxDone, running, exec, life, manual, dispatched>>

\* nextDelay: d is the time from n to the earliest enabled deadline, but at
\* least 1 (the code's second) and at most MaxDelay (its minute).
nextDelay(n, d) ==
  LET waiting == {t \in Tasks : tasks[t].enabled /\ tasks[t].next # ZeroTime}
  IN  /\ d = 1 \/ \A t \in waiting : d <= tasks[t].next - n
      /\ d = MaxDelay \/ \E t \in waiting : tasks[t].next - n <= d

\* The loop polls and never selects on the context.
MutantPoll ==
  /\ loop.pc = "launch"
  /\ due = {}
  /\ loop' = [pc |-> "check", at |-> 0]
  /\ UNCHANGED <<now, db, history, tasks, ctxDone, running, due, exec, life, manual, dispatched>>

Sleep ==
  /\ loop.pc = "launch"
  /\ due = {}
  /\ \E d \in 1..MaxDelay : nextDelay(now, d) /\ loop' = [pc |-> "wait", at |-> now + d]
  /\ UNCHANGED <<now, db, history, tasks, ctxDone, running, due, exec, life, manual, dispatched>>

\* The select of runLoop: with both channels ready, Go picks either.
Wake ==
  /\ loop.pc = "wait"
  /\ Elapsed(loop.at)
  /\ loop' = [pc |-> "check", at |-> 0]
  /\ UNCHANGED <<now, db, history, tasks, ctxDone, running, due, exec, life, manual, dispatched>>

LoopReturn ==
  /\ loop.pc = "wait"
  /\ ctxDone
  /\ loop' = LoopOff
  /\ running' = running - 1
  /\ UNCHANGED <<now, db, history, tasks, ctxDone, due, exec, life, manual, dispatched>>
-----------------------------------------------------------------------------
\* POST /server/schedulers/run: the listener serves until after Stop returns.
RunTaskNow(t) ==
  /\ life \in {"up", "stopping", "stopped"}
  /\ manual < MaxManual
  /\ manual' = manual + 1
  /\ launchTask(t)
  /\ UNCHANGED <<now, db, history, tasks, life, ctxDone, due, loop, dispatched>>

\* executeTask up to its first handler call.
ExecBegin(s) ==
  /\ exec[s].st = "launched"
  /\ exec' = [exec EXCEPT ![s] = [st |-> "handler", task |-> exec[s].task,
                                  start |-> now, attempt |-> 0, wake |-> 0]]
  /\ recordHistoryStart(exec[s].task, s)
  /\ UNCHANGED <<now, db, tasks, ctxDone, running, due, loop, life, manual, dispatched>>

\* runHandlerSafely returns: success, or an error (a panic is one).
HandlerReturn(s, ok) ==
  /\ exec[s].st = "handler"
  /\ LET e == exec[s] IN
       /\ recordHistoryFinish(e.task, s, ok)
       /\ exec' = [exec EXCEPT ![s] =
            IF ok \/ e.attempt >= Policy[e.task].max
            THEN [st |-> "finish", task |-> e.task, start |-> e.start, ok |-> ok]
            ELSE [e EXCEPT !.st = "backoff",
                           !.wake = now + retryDelayForAttempt(e.task, e.attempt)]]
  /\ UNCHANGED <<now, db, tasks, ctxDone, running, due, loop, life, manual, dispatched>>

\* The attempt counter is not advanced.
MutantRetryUncounted(s) ==
  /\ exec[s].st = "backoff"
  /\ Elapsed(exec[s].wake)
  /\ LET e == exec[s] IN
       exec' = [exec EXCEPT ![s] = [e EXCEPT !.st = "handler", !.wake = 0]]
  /\ recordHistoryStart(exec[s].task, s)
  /\ UNCHANGED <<now, db, tasks, ctxDone, running, due, loop, life, manual, dispatched>>

\* time.After(delay) fires: the next attempt.
Retry(s) ==
  /\ exec[s].st = "backoff"
  /\ Elapsed(exec[s].wake)
  /\ LET e == exec[s] IN
       exec' = [exec EXCEPT ![s] = [e EXCEPT !.st = "handler", !.attempt = e.attempt + 1,
                                             !.wake = 0]]
  /\ recordHistoryStart(exec[s].task, s)
  /\ UNCHANGED <<now, db, tasks, ctxDone, running, due, loop, life, manual, dispatched>>

\* s.ctx.Done() ends the retry loop with the last error.
RetryAborted(s) ==
  /\ exec[s].st = "backoff"
  /\ ctxDone
  /\ exec' = [exec EXCEPT ![s] = [st |-> "finish", task |-> exec[s].task,
                                  start |-> exec[s].start, ok |-> FALSE]]
  /\ UNCHANGED <<now, db, history, tasks, ctxDone, running, due, loop, life, manual, dispatched>>

\* NextRun is always re-estimated, and from the start of the run.
MutantAlwaysReestimate(row, e) ==
  [next    |-> nextScheduledTime(e.task, e.start),
   enabled |-> row.enabled,
   runs    |-> IF e.ok THEN row.runs + 1 ELSE row.runs,
   fails   |-> IF e.ok THEN row.fails ELSE row.fails + 1]

\* A failed run is counted as a run, too.
MutantCountTwice(row, e) ==
  [next    |-> IF row.next = ZeroTime \/ row.next <= e.start
               THEN nextScheduledTime(e.task, now) ELSE row.next,
   enabled |-> row.enabled,
   runs    |-> row.runs + 1,
   fails   |-> IF e.ok THEN row.fails ELSE row.fails + 1]

\* The task as the last section of executeTask leaves it.
FinishedRow(row, e) ==
  [next    |-> IF row.next = ZeroTime \/ row.next <= e.start
               THEN nextScheduledTime(e.task, now) ELSE row.next,
   enabled |-> row.enabled,
   runs    |-> IF e.ok THEN row.runs + 1 ELSE row.runs,
   fails   |-> IF e.ok THEN row.fails ELSE row.fails + 1]

\* The finished task is not saved.
MutantFinishUnsaved(s) ==
  /\ exec[s].st = "finish"
  /\ tasks' = [tasks EXCEPT ![exec[s].task] = FinishedRow(@, exec[s])]
  /\ exec' = [exec EXCEPT ![s] = Idle]
  /\ running' = running - 1
  /\ UNCHANGED <<now, db, history, ctxDone, due, loop, life, manual, dispatched>>

\* executeTask, the locked section at its end, and running.Done().
ExecFinish(s) ==
  /\ exec[s].st = "finish"
  /\ LET e == exec[s] IN
       /\ tasks' = [tasks EXCEPT ![e.task] = FinishedRow(@, e)]
       /\ saveTaskState({e.task}, tasks')
  /\ exec' = [exec EXCEPT ![s] = Idle]
  /\ running' = running - 1
  /\ UNCHANGED <<now, ctxDone, due, loop, life, manual, dispatched>>
-----------------------------------------------------------------------------
\* SIGINT or SIGTERM: Stop cancels the context and waits for the WaitGroup.
Stop ==
  /\ life = "up"
  /\ life' = "stopping"
  /\ ctxDone' = TRUE
  /\ UNCHANGED <<now, db, history, tasks, running, due, loop, exec, manual, dispatched>>

StopDone ==
  /\ life = "stopping"
  /\ running = 0
  /\ life' = "stopped"
  /\ UNCHANGED <<now, db, history, memory, manual, dispatched>>

\* 30 seconds are over; tasks may still be running.
StopTimeout ==
  /\ life = "stopping"
  /\ life' = "stopped"
  /\ UNCHANGED <<now, db, history, memory, manual, dispatched>>

\* The process is gone, and with it everything in memory.
Die ==
  /\ life' = "down"
  /\ tasks' = [t \in Tasks |-> NoRow]
  /\ ctxDone' = FALSE
  /\ running' = 0
  /\ due' = {}
  /\ loop' = LoopOff
  /\ exec' = [s \in Slots |-> Idle]
  /\ UNCHANGED <<now, manual, dispatched>>

\* http.Server.Shutdown returned and main exits.
Exit == life = "stopped" /\ Die /\ UNCHANGED <<db, history>>

\* kill -9, power loss, or a failed bind after the scheduler was started ...
Crash == Crashes /\ life # "down" /\ Die /\ UNCHANGED <<db, history>>

\* ... also in the middle of a locked section that saves rows one statement
\* after the other: some are written, none of its tasks is launched.
PartlySaved(n) == \E T \in SUBSET DueAt(n) : saveTaskState(T, Advanced(n))
CrashInSave ==
  /\ Crashes
  /\ \/ \E t \in Tasks : /\ life = "boot" /\ ~Registered(t) /\ db[t] = NoRow
                          /\ saveTaskState({t}, [u \in Tasks |-> DefaultRow(u)])
     \/ life = "catchup" /\ PartlySaved(now)
     \/ loop.pc = "collect" /\ PartlySaved(loop.at)
  /\ Die

MainStep ==
  \/ \E t \in Tasks : Register(t)
  \/ Start \/ catchUpMissedTasks \/ StartLoop
  \/ \E d \in due : LaunchDue(d)
LoopStep == ReadClock \/ checkTasks \/ Sleep \/ Wake \/ LoopReturn
ExecStep(s) ==
  \/ ExecBegin(s)
  \/ \E ok \in BOOLEAN : HandlerReturn(s, ok)
  \/ Retry(s) \/ RetryAborted(s) \/ ExecFinish(s)

Next ==
  \/ Tick \/ Boot \/ MainStep \/ LoopStep
  \/ \E t \in Tasks : RunTaskNow(t)
  \/ \E s \in Slots : ExecStep(s)
  \/ Stop \/ StopDone \/ StopTimeout \/ Exit \/ Crash \/ CrashInSave

Spec == Init /\ [][Next]_vars

(***************************************************************************)
(* The Go runtime runs every runnable goroutine, time passes, and handlers *)
(* return (every hook works under s.ctx or with its own timeouts).  select *)
(* picks among ready channels at random, hence the strong fairness of the  *)
(* loop's return.  Requests, signals and crashes need not happen.          *)
(***************************************************************************)
Fairness ==
  /\ WF_vars(Tick)
  /\ WF_vars(MainStep)
  /\ WF_vars(LoopStep)
  /\ SF_vars(LoopReturn)
  /\ \A s \in Slots : WF_vars(ExecStep(s))

FairSpec == Spec /\ Fairness
-----------------------------------------------------------------------------
TypeOK ==
  /\ now \in 1..MaxTime
  /\ db \in [Tasks -> Row \cup {NoRow}]
  /\ history \in [Tasks -> [Slots -> HistoryStatus]]
  /\ tasks \in [Tasks -> Row \cup {NoRow}]
  /\ life \in Lives
  /\ ctxDone \in BOOLEAN
  /\ running \in Int
  /\ due \subseteq [task : Tasks, deadline : Nat]
  /\ loop \in LoopState
  /\ exec \in [Slots -> Execution]
  /\ manual \in 0..MaxManual
  /\ dispatched \in [Tasks -> Nat]

(***************************************************************************)
(* No deadline is launched twice: every deadline still to come, in memory  *)
(* or collected for launch, lies after the last one launched, across       *)
(* crashes, restarts and slow handlers.  checkTasks: "advances their       *)
(* deadlines before dispatch so slow handlers cannot trigger duplicate     *)
(* runs".                                                                  *)
(***************************************************************************)
AtMostOncePerDeadline ==
  /\ \A t \in Tasks : Registered(t) => tasks[t].next > dispatched[t]
  /\ \A d \in due : /\ dispatched[d.task] < d.deadline
                    /\ d.deadline < tasks[d.task].next
  /\ \A d, e \in due : d.task = e.task => d = e

(***************************************************************************)
(* The WaitGroup counts exactly the loop (from Start on) and the           *)
(* executions in flight, so Stop's wait ends early for none of them and a  *)
(* Done() never makes it negative.                                         *)
(***************************************************************************)
WaitGroupExact ==
  running = Cardinality(Busy) + (IF LoopAlive THEN 1 ELSE 0)

(***************************************************************************)
(* Without storage faults, what server.db holds of a registered task is    *)
(* what the server has in memory, between any two locked sections: a crash *)
(* at any moment loses no deadline, counter or enabled flag.               *)
(***************************************************************************)
DurableState ==
  \A t \in Tasks : Registered(t) => db[t] = tasks[t]

(***************************************************************************)
(* A registered task's NextRun never moves back, whatever finishes late:   *)
(* executeTask re-estimates it only when it has not passed startTime.      *)
(***************************************************************************)
NextRunNeverGoesBack ==
  [][\A t \in Tasks : Registered(t) /\ Registered(t)' => tasks'[t].next >= tasks[t].next]_vars

(***************************************************************************)
(* While the scheduler is up, a deadline that has come is served: it is    *)
(* launched, or some execution of the task (a run asked for over HTTP)     *)
(* starts at or after it, in which case executeTask re-estimates NextRun   *)
(* past it.  (Or the scheduler leaves "up".)                               *)
(***************************************************************************)
Served(t, d) ==
  \/ dispatched[t] >= d
  \/ \E s \in Slots : /\ exec[s].st \in {"handler", "backoff", "finish"}
                      /\ exec[s].task = t
                      /\ exec[s].start >= d

DueIsServed ==
  \A t \in Tasks : \A d \in 1..MaxTime :
    (life = "up" /\ tasks[t].enabled /\ tasks[t].next = d /\ d <= now)
      ~> (Served(t, d) \/ life # "up")

(***************************************************************************)
(* Every execution ends: retries are bounded and an aborted back-off falls *)
(* through to the final section.                                           *)
(***************************************************************************)
RunsEnd == \A s \in Slots : (s \in Busy) ~> (s \notin Busy)

\* Once Stop has cancelled the context the loop returns.
LoopReturns == ctxDone ~> loop.pc = "off"

(***************************************************************************)
(* AI.md PART 18: "Database-backed state - All state in server.db,         *)
(* survives restarts".  A task comes back from Register with the enabled   *)
(* flag, the counters and the pending deadline its row holds.              *)
(***************************************************************************)
StateSurvivesRestart ==
  [][\A t \in Tasks : ~Registered(t) /\ Registered(t)' /\ db[t] # NoRow
       => /\ tasks'[t].enabled = db[t].enabled
          /\ tasks'[t].runs = db[t].runs /\ tasks'[t].fails = db[t].fails
          /\ db[t].next # ZeroTime => tasks'[t].next = db[t].next]_vars

(***************************************************************************)
(* AI.md PART 18 and GetTaskHistory: "returns the most recent execution    *)
(* attempts for a task".  The record of a finished attempt is not lost     *)
(* while the execution that made it goes on to its end.                    *)
(***************************************************************************)
FinishedAttemptKept ==
  [][\A t \in Tasks : \A s \in Slots :
       history[t][s] \in {"success", "failed"} => history'[t][s] # "none"]_vars

=============================================================================
