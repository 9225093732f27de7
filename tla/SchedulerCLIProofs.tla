-------------------------- MODULE SchedulerCLIProofs --------------------------
(***************************************************************************)
(* A server and scheduler commands that write the same rows never count an *)
(* execution twice: for any tasks, slots, schedules and commands, whatever *)
(* fails or crashes.                                                       *)
(***************************************************************************)
EXTENDS SchedulerCLI, SchedulerProofs

\* A row counts no more executions than n.
Fits(row, n) == row.runs + row.fails <= n

RowsFit == \A t \in Tasks : Fits(tasks[t], finished[t]) /\ Fits(db[t], finished[t])
CommandFits == cli # NoCommand => Fits(cli.row, finished[cli.task])

\* What cli may be.
CommandState ==
  [pc : CliStates, task : Tasks, command : Commands, row : Row, start : 0..MaxTime]

CLIInv == CLITypeOK /\ Lifecycle /\ RowsFit /\ CommandFits

LEMMA InvSaysSo == CLIInv => NeverOvercounted
BY DEF CLIInv, RowsFit, CommandFits, Fits, NeverOvercounted

-----------------------------------------------------------------------------
\* A stored or held row is a row or none, and its counts are numbers.
LEMMA CountsAreNat ==
  ASSUME NEW row \in Row \cup {NoRow}
  PROVE  row.runs \in Nat /\ row.fails \in Nat
BY DEF Row, NoRow

\* Rows the locked sections compute count what the row they start from counts.
LEMMA CountsAreCopied ==
  ASSUME TypeOK, RowsFit, finished \in [Tasks -> Nat], NEW t \in Tasks
  PROVE  /\ Fits(DefaultRow(t), finished[t]) /\ Fits(RegisteredRow(t), finished[t])
         /\ Fits(NoRow, finished[t])
         /\ \A n \in 1..MaxTime : Fits(Advanced(n)[t], finished[t])
<1>1. finished[t] \in Nat
  OBVIOUS
<1>2. Fits(DefaultRow(t), finished[t]) /\ Fits(NoRow, finished[t])
  BY <1>1 DEF Fits, DefaultRow, NoRow
<1>3. db[t] \in Row \cup {NoRow} /\ tasks[t] \in Row \cup {NoRow} /\ DefaultRow(t) \in Row
  BY RowsAreTyped DEF TypeOK
<1>4. ASSUME NEW row \in Row \cup {NoRow}, NEW next, Fits(row, finished[t])
      PROVE  Fits([row EXCEPT !.next = next], finished[t])
  BY <1>4 DEF Fits, Row, NoRow
<1>5. loadTaskState(t) \in Row \cup {NoRow} /\ Fits(loadTaskState(t), finished[t])
  BY <1>2, <1>3 DEF loadTaskState, RowsFit
<1>6. Fits(RegisteredRow(t), finished[t])
  BY <1>4, <1>5, Zenon DEF RegisteredRow
<1>7. ASSUME NEW n \in 1..MaxTime PROVE Fits(Advanced(n)[t], finished[t])
  BY <1>3, <1>4, Zenon DEF Advanced, RowsFit
<1> QED
  BY <1>2, <1>6, <1>7

\* The clocks the locked sections go by.
LEMMA ClocksAreInstants ==
  ASSUME TypeOK, Lifecycle
  PROVE  /\ now \in 1..MaxTime
         /\ loop.pc = "collect" => loop.at \in 1..MaxTime
         /\ \A n \in 1..now : n \in 1..MaxTime
BY BoundsAssumption DEF TypeOK, Lifecycle

\* Every step of the server but the end of an execution leaves the counts as they are,
\* or copies them.
LEMMA ServerCopies ==
  ASSUME TypeOK, Lifecycle, RowsFit, finished \in [Tasks -> Nat], [Next]_vars,
         \A s \in Slots : ~ExecFinish(s), UNCHANGED finished
  PROVE  RowsFit'
<1> DEFINE FitNow(m) == \A t \in Tasks : Fits(m[t], finished[t])
<1>1. FitNow(tasks) /\ FitNow(db)
  BY DEF RowsFit
<1>2. SUFFICES FitNow(tasks') /\ FitNow(db')
  BY <1>2 DEF RowsFit
<1>3. ASSUME NEW t \in Tasks, Register(t) PROVE FitNow(tasks') /\ FitNow(db')
  <2>1. tasks' = [tasks EXCEPT ![t] = RegisteredRow(t)]
    BY <1>3 DEF Register
  <2>2. tasks'[t] = RegisteredRow(t) /\ \A u \in Tasks \ {t} : tasks'[u] = tasks[u]
    BY <2>1 DEF TypeOK
  <2>3. FitNow(tasks')
    BY <1>1, <2>2, CountsAreCopied, Zenon
  <2>4. CASE saveTaskState({t}, tasks')
    <3>1. tasks'[t] \in Row
      BY <2>2, RowsAreTyped
    <3>2. \A u \in Tasks : db'[u] = db[u] \/ db'[u] = tasks'[u]
      BY <2>4, <3>1, SaveIsTyped
    <3> QED
      BY <1>1, <2>3, <3>2, Zenon
  <2>5. CASE saveTaskState({t}, [u \in Tasks |-> DefaultRow(u)])
    <3> DEFINE m == [u \in Tasks |-> DefaultRow(u)]
    <3>1. m[t] \in Row /\ \A u \in Tasks : m[u] = DefaultRow(u)
      BY RowsAreTyped
    <3>2. saveTaskState({t}, m)
      BY <2>5
    <3> HIDE DEF m
    <3>3. \A u \in Tasks : db'[u] = db[u] \/ db'[u] = m[u]
      BY <3>1, <3>2, SaveIsTyped
    <3> QED
      BY <1>1, <2>3, <3>1, <3>3, CountsAreCopied, Zenon
  <2> QED
    BY <1>3, <2>3, <2>4, <2>5 DEF Register
<1>4. ASSUME NEW n \in 1..MaxTime, tasks' = Advanced(n), saveTaskState(DueAt(n), tasks')
      PROVE  FitNow(tasks') /\ FitNow(db')
  <2>1. FitNow(tasks')
    BY <1>4, CountsAreCopied, Zenon
  <2>2. DueAt(n) \in SUBSET Tasks /\ \A t \in DueAt(n) : tasks'[t] \in Row
    BY <1>4, RowsAreTyped DEF DueAt, Advanced
  <2>3. \A t \in Tasks : db'[t] = db[t] \/ db'[t] = tasks'[t]
    BY <1>4, <2>2, SaveIsTyped
  <2> QED
    BY <1>1, <2>1, <2>3, Zenon
<1>5. CASE catchUpMissedTasks \/ checkTasks
  BY <1>4, <1>5, ClocksAreInstants DEF catchUpMissedTasks, checkTasks
<1>6. CASE CrashInSave
  <2>1. \A t \in Tasks : tasks'[t] = NoRow
    BY <1>6 DEF CrashInSave, Die
  <2>2. \A t \in Tasks : \/ db'[t] = db[t]
                        \/ db'[t] = DefaultRow(t)
                        \/ \E n \in 1..now : db'[t] = Advanced(n)[t]
    BY <1>6, CrashRows
  <2> QED
    BY <1>1, <2>1, <2>2, ClocksAreInstants, CountsAreCopied, Zenon
<1>7. CASE Exit \/ Crash
  <2>1. UNCHANGED db /\ \A t \in Tasks : tasks'[t] = NoRow
    BY <1>7 DEF Exit, Crash, Die
  <2> QED
    BY <1>1, <2>1, CountsAreCopied, Zenon
<1>8. CASE UNCHANGED <<tasks, db>>
  BY <1>1, <1>8
<1> QED
  BY <1>3, <1>5, <1>6, <1>7, <1>8
     DEF Next, Tick, Boot, MainStep, LoopStep, RunTaskNow, ExecStep, Stop, StopDone, StopTimeout,
         Start, StartLoop, LaunchDue, ReadClock, Sleep, Wake, LoopReturn, ExecBegin, HandlerReturn,
         Retry, RetryAborted, launchTask, memory, vars

\* The end of an execution adds one to the counts of its task, and one execution ended.
LEMMA FinishCountsOne ==
  ASSUME TypeOK, Lifecycle, RowsFit, finished \in [Tasks -> Nat], NEW s \in Slots, ExecFinish(s),
         finished' = [finished EXCEPT ![exec[s].task] = @ + 1]
  PROVE  RowsFit'
<1> DEFINE e == exec[s]  t == e.task  new == FinishedRow(tasks[t], e)
<1>1. t \in Tasks /\ Registered(t) /\ tasks[t] \in Row
  <2>1. e \in Finishing /\ life \notin {"down", "boot"}
    BY ExecutionCases DEF ExecFinish, Lifecycle, Busy
  <2> QED
    BY <2>1 DEF Finishing, Lifecycle, Registered, TypeOK
<1>2. new \in Row /\ new.runs + new.fails = tasks[t].runs + tasks[t].fails + 1
  <2>1. new \in Row
    BY <1>1, RowsAreTyped DEF ExecFinish
  <2>2. tasks[t].runs \in Nat /\ tasks[t].fails \in Nat
    BY <1>1, CountsAreNat
  <2> QED
    BY <2>1, <2>2 DEF FinishedRow
<1>3. tasks'[t] = new /\ \A u \in Tasks \ {t} : tasks'[u] = tasks[u]
  BY <1>1 DEF ExecFinish, TypeOK
<1>4. /\ finished'[t] = finished[t] + 1 /\ finished[t] \in Nat
      /\ \A u \in Tasks \ {t} : finished'[u] = finished[u]
  BY <1>1
<1> HIDE DEF new
<1>5. \A u \in Tasks : db'[u] = db[u] \/ (u = t /\ db'[u] = new)
  <2>1. saveTaskState({t}, tasks')
    BY DEF ExecFinish
  <2>2. {t} \in SUBSET Tasks /\ \A u \in {t} : tasks'[u] \in Row
    BY <1>1, <1>2, <1>3
  <2>3. \A u \in Tasks : db'[u] = db[u] \/ (u \in {t} /\ db'[u] = tasks'[u])
    BY <2>1, <2>2, SaveIsTyped
  <2> QED
    BY <1>3, <2>3
<1>6. ASSUME NEW u \in Tasks PROVE Fits(tasks'[u], finished'[u]) /\ Fits(db'[u], finished'[u])
  <2>1. Fits(tasks[u], finished[u]) /\ Fits(db[u], finished[u])
    BY DEF RowsFit
  <2>2. CASE u # t
    BY <1>3, <1>4, <1>5, <2>1, <2>2
  <2>3. CASE u = t
    <3>1. Fits(new, finished'[u])
      BY <1>1, <1>2, <1>4, <2>1, <2>3, CountsAreNat DEF Fits
    <3>2. Fits(db[u], finished'[u])
      <4>1. db[u].runs \in Nat /\ db[u].fails \in Nat
        BY CountsAreNat DEF TypeOK
      <4> QED
        BY <1>4, <2>1, <2>3, <4>1 DEF Fits
    <3> QED
      BY <1>3, <1>5, <2>3, <3>1, <3>2
  <2> QED
    BY <2>2, <2>3
<1> QED
  BY <1>6 DEF RowsFit

-----------------------------------------------------------------------------
\* The command leaves the server and the clock alone, and its rows are rows: so types and
\* life cycle of the server stay what they are.
LEMMA CommandIsTyped ==
  ASSUME TypeOK, Lifecycle, ServerUnchanged,
         db' \in [Tasks -> Row \cup {NoRow}], history' \in [Tasks -> [Slots -> HistoryStatus]]
  PROVE  TypeOK' /\ Lifecycle'
<1>1. UNCHANGED <<now, tasks, ctxDone, running, due, loop, exec, life, manual, dispatched>>
  BY DEF ServerUnchanged, memory
<1>2. TypeOK'
  BY <1>1 DEF TypeOK
<1>3. Lifecycle'
  BY <1>1 DEF Lifecycle, Registered, Busy
<1> QED
  BY <1>2, <1>3

\* A step of the command that writes nothing but, perhaps, its own row.
LEMMA SaveOfCommand ==
  ASSUME CLIInv, NEW row \in Row, NEW t \in Tasks, saveTaskState({t}, [u \in Tasks |-> row])
  PROVE  /\ db' \in [Tasks -> Row \cup {NoRow}]
         /\ history' \in [Tasks -> [Slots -> HistoryStatus]]
         /\ \A u \in Tasks : db'[u] = db[u] \/ (u = t /\ db'[u] = row)
<1> DEFINE m == [u \in Tasks |-> row]
<1>1. {t} \in SUBSET Tasks /\ m[t] = row
  OBVIOUS
<1>2. saveTaskState({t}, m) /\ TypeOK
  BY DEF CLIInv, CLITypeOK
<1> HIDE DEF m
<1> QED
  BY <1>1, <1>2, SaveIsTyped

\* What is left to show of a step of the command.
LEMMA CommandKeepsWhen ==
  ASSUME CLIInv, ServerUnchanged,
         db' \in [Tasks -> Row \cup {NoRow}], history' \in [Tasks -> [Slots -> HistoryStatus]],
         cli' \in {NoCommand} \cup CommandState, issued' \in 0..MaxCommands,
         finished' \in [Tasks -> Nat],
         \A t \in Tasks : finished'[t] >= finished[t] /\ Fits(db'[t], finished'[t]),
         CommandFits'
  PROVE  CLIInv'
<1>1. TypeOK /\ Lifecycle /\ RowsFit /\ finished \in [Tasks -> Nat]
  BY DEF CLIInv, CLITypeOK
<1>2. CLITypeOK' /\ Lifecycle'
  BY <1>1, CommandIsTyped DEF CLITypeOK, CommandState
<1>3. RowsFit'
  <2> SUFFICES ASSUME NEW t \in Tasks PROVE Fits(tasks'[t], finished'[t])
    BY DEF RowsFit
  <2>1. tasks' = tasks
    BY DEF ServerUnchanged, memory
  <2>2. tasks[t].runs \in Nat /\ tasks[t].fails \in Nat
    BY <1>1, CountsAreNat DEF TypeOK
  <2>3. tasks[t].runs + tasks[t].fails <= finished[t] /\ finished'[t] >= finished[t]
    BY <1>1 DEF RowsFit, Fits
  <2>4. finished[t] \in Nat /\ finished'[t] \in Nat
    BY <1>1
  <2> QED
    BY <2>1, <2>2, <2>3, <2>4 DEF Fits
<1> QED
  BY <1>2, <1>3 DEF CLIInv

\* A step of the command keeps the invariant.
LEMMA CommandKeeps == ASSUME CLIInv, CommandStep PROVE CLIInv'
<1>1. /\ TypeOK /\ Lifecycle /\ RowsFit /\ CommandFits
      /\ cli \in {NoCommand} \cup CommandState /\ issued \in 0..MaxCommands
      /\ finished \in [Tasks -> Nat]
      /\ db \in [Tasks -> Row \cup {NoRow}] /\ history \in [Tasks -> [Slots -> HistoryStatus]]
      /\ now \in 1..MaxTime
  BY DEF CLIInv, CLITypeOK, CommandState, TypeOK
<1>2. \A t \in Tasks : finished[t] \in Nat /\ finished[t] >= finished[t] /\ Fits(db[t], finished[t])
  BY <1>1 DEF RowsFit
<1>3. cli.pc # "idle" => /\ cli \in CommandState /\ cli.row \in Row /\ cli.task \in Tasks
                         /\ Fits(cli.row, finished[cli.task])
  BY <1>1 DEF NoCommand, CommandState, CommandFits
<1>4. NoCommand.pc = "idle"
  BY DEF NoCommand
<1>5. ASSUME NEW t \in Tasks, NEW c \in Commands, CommandLoad(t, c) PROVE CLIInv'
  <2> DEFINE new == [pc |-> "loaded", task |-> t, command |-> c, row |-> RegisteredRow(t),
                     start |-> 0]
  <2>1. RegisteredRow(t) \in Row /\ Fits(RegisteredRow(t), finished[t])
    BY <1>1, RowsAreTyped, CountsAreCopied
  <2>2. 0 \in 0..MaxTime
    BY BoundsAssumption
  <2>3. new \in CommandState /\ new.row = RegisteredRow(t) /\ new.task = t
    BY <2>1, <2>2 DEF CommandState, CliStates
  <2>4. cli' = new /\ UNCHANGED <<db, history, finished>> /\ ServerUnchanged
        /\ issued' \in 0..MaxCommands
    BY <1>1, <1>5, CommandsAssumption DEF CommandLoad
  <2> HIDE DEF new
  <2>5. CommandFits'
    BY <2>1, <2>3, <2>4 DEF CommandFits
  <2> QED
    BY <1>1, <1>2, <2>3, <2>4, <2>5, CommandKeepsWhen
<1>6. CASE CommandSave
  <2>1. /\ cli \in CommandState /\ cli.row \in Row /\ cli.task \in Tasks
        /\ Fits(cli.row, finished[cli.task])
    BY <1>3, <1>6 DEF CommandSave
  <2>2. saveTaskState({cli.task}, [u \in Tasks |-> cli.row])
    BY <1>6 DEF CommandSave
  <2>3. /\ db' \in [Tasks -> Row \cup {NoRow}]
        /\ history' \in [Tasks -> [Slots -> HistoryStatus]]
        /\ \A u \in Tasks : db'[u] = db[u] \/ (u = cli.task /\ db'[u] = cli.row)
    BY <2>1, <2>2, SaveOfCommand
  <2>4. UNCHANGED <<finished, issued>> /\ ServerUnchanged
    BY <1>6 DEF CommandSave
  <2>5. /\ cli' \in {NoCommand} \cup CommandState
        /\ cli' # NoCommand => cli'.row = cli.row /\ cli'.task = cli.task
    <3>1. cli' = NoCommand \/ cli' = [cli EXCEPT !.pc = "registered"]
      BY <1>6 DEF CommandSave
    <3>2. CASE cli' = [cli EXCEPT !.pc = "registered"]
      BY <2>1, <3>2 DEF CommandState, CliStates
    <3> QED
      BY <3>1, <3>2
  <2>6. CommandFits' /\ \A t \in Tasks : Fits(db'[t], finished'[t])
    BY <1>2, <2>1, <2>3, <2>4, <2>5 DEF CommandFits
  <2> QED
    BY <1>1, <1>2, <2>3, <2>4, <2>5, <2>6, CommandKeepsWhen
<1>7. CASE CommandSwitch
  <2>1. cli.task \in Tasks /\ db[cli.task] \in Row
    BY <1>1, <1>3, <1>7 DEF CommandSwitch
  <2>2. PICK b \in BOOLEAN : db' = [db EXCEPT ![cli.task] = [db[cli.task] EXCEPT !.enabled = b]]
    <3>1. db' = [db EXCEPT ![cli.task].enabled = cli.command = "enable"]
      BY <1>7 DEF CommandSwitch
    <3>2. (cli.command = "enable") \in BOOLEAN
      OBVIOUS
    <3> QED
      BY <3>1, <3>2
  <2>3. /\ [db[cli.task] EXCEPT !.enabled = b] \in Row
        /\ [db[cli.task] EXCEPT !.enabled = b].runs = db[cli.task].runs
        /\ [db[cli.task] EXCEPT !.enabled = b].fails = db[cli.task].fails
    BY <2>1 DEF Row
  <2>4. /\ db' \in [Tasks -> Row \cup {NoRow}]
        /\ \A t \in Tasks : db'[t].runs = db[t].runs /\ db'[t].fails = db[t].fails
    BY <1>1, <2>1, <2>2, <2>3
  <2>5. /\ UNCHANGED <<history, finished, issued>> /\ ServerUnchanged /\ cli' = NoCommand
    BY <1>7 DEF CommandSwitch
  <2>6. CommandFits' /\ \A t \in Tasks : Fits(db'[t], finished'[t])
    BY <1>2, <2>4, <2>5 DEF CommandFits, Fits
  <2> QED
    BY <1>1, <1>2, <2>4, <2>5, <2>6, CommandKeepsWhen
<1>8. CASE CommandRun
  <2>1. /\ cli \in CommandState /\ Fits(cli.row, finished[cli.task])
        /\ cli' = [cli EXCEPT !.pc = "executing", !.start = now]
        /\ UNCHANGED <<db, history, finished, issued>> /\ ServerUnchanged
    BY <1>3, <1>8 DEF CommandRun
  <2>2. now \in 0..MaxTime
    BY <1>1, BoundsAssumption
  <2>3. cli' \in CommandState /\ cli'.row = cli.row /\ cli'.task = cli.task
    BY <2>1, <2>2 DEF CommandState, CliStates
  <2>4. CommandFits'
    BY <2>1, <2>3 DEF CommandFits
  <2> QED
    BY <1>1, <1>2, <2>1, <2>3, <2>4, CommandKeepsWhen
<1>9. ASSUME NEW ok \in BOOLEAN, CommandRunFinish(ok) PROVE CLIInv'
  <2> DEFINE t == cli.task
             e == [task |-> t, start |-> cli.start, ok |-> ok]
             next == nextScheduledTime(t, now)
             new == FinishedRow(cli.row, e)
  <2>1. /\ cli \in CommandState /\ cli.row \in Row /\ t \in Tasks
        /\ Fits(cli.row, finished[t])
    BY <1>3, <1>9 DEF CommandRunFinish
  <2>2. /\ saveTaskState({t}, [u \in Tasks |-> new])
        /\ cli' = NoCommand /\ finished' = [finished EXCEPT ![t] = @ + 1]
        /\ UNCHANGED issued /\ ServerUnchanged
    BY <1>9, Zenon DEF CommandRunFinish
  <2>3. next \in Nat
    BY <1>1, <2>1, NextIsLater
  <2>4. /\ cli.row.next \in Nat /\ cli.row.enabled \in BOOLEAN
        /\ cli.row.runs \in Nat /\ cli.row.fails \in Nat
    BY <2>1 DEF Row
  <2>5. new \in Row /\ new.runs + new.fails = cli.row.runs + cli.row.fails + 1
    <3> HIDE DEF next
    <3>1. /\ e.ok = ok /\ e.start = cli.start /\ e.task = t
      OBVIOUS
    <3> HIDE DEF e
    <3>2. nextScheduledTime(e.task, now) \in Nat
      BY <2>3, <3>1 DEF next
    <3> QED
      BY <2>4, <3>1, <3>2 DEF FinishedRow, Row
  <2> HIDE DEF new
  <2>6. /\ db' \in [Tasks -> Row \cup {NoRow}]
        /\ history' \in [Tasks -> [Slots -> HistoryStatus]]
        /\ \A u \in Tasks : db'[u] = db[u] \/ (u = t /\ db'[u] = new)
    BY <2>1, <2>2, <2>5, SaveOfCommand
  <2>7. /\ finished' \in [Tasks -> Nat] /\ finished'[t] = finished[t] + 1
        /\ \A u \in Tasks : finished'[u] \in Nat /\ finished'[u] >= finished[u]
    BY <1>1, <1>2, <2>1, <2>2
  <2>8. Fits(new, finished'[t])
    BY <1>2, <2>1, <2>4, <2>5, <2>7 DEF Fits
  <2>9. ASSUME NEW u \in Tasks PROVE Fits(db[u], finished'[u])
    <3>1. db[u].runs \in Nat /\ db[u].fails \in Nat
      BY <1>1, CountsAreNat
    <3> QED
      BY <1>2, <2>7, <3>1 DEF Fits
  <2>10. CommandFits' /\ \A u \in Tasks : Fits(db'[u], finished'[u])
    BY <2>2, <2>6, <2>8, <2>9 DEF CommandFits
  <2> QED
    BY <1>1, <2>2, <2>6, <2>7, <2>10, CommandKeepsWhen
<1>10. CASE CommandExit
  <2>1. UNCHANGED <<db, history, finished, issued>> /\ ServerUnchanged /\ cli' = NoCommand
    BY <1>10 DEF CommandExit
  <2>2. CommandFits'
    BY <2>1 DEF CommandFits
  <2> QED
    BY <1>1, <1>2, <2>1, <2>2, CommandKeepsWhen
<1> QED
  BY <1>5, <1>6, <1>7, <1>8, <1>9, <1>10 DEF CommandStep

\* A step of the server keeps it, too.
LEMMA ServerKeeps == ASSUME CLIInv, ServerStep PROVE CLIInv'
<1>1. /\ TypeOK /\ Lifecycle /\ RowsFit /\ CommandFits /\ CLITypeOK
      /\ finished \in [Tasks -> Nat] /\ UNCHANGED <<cli, issued>>
  BY DEF CLIInv, CLITypeOK, ServerStep
<1>2. Next
  <2>1. ASSUME NEW s \in Slots, ExecFinish(s) PROVE Next
    BY <2>1 DEF Next, ExecStep
  <2> QED
    BY <2>1 DEF ServerStep
<1>3. TypeOK' /\ Lifecycle'
  BY <1>1, <1>2, TypeStep, LifecycleStep
<1>4. CASE \E s \in Slots : /\ ExecFinish(s)
                            /\ finished' = [finished EXCEPT ![exec[s].task] = @ + 1]
  <2>1. PICK s \in Slots : /\ ExecFinish(s)
                           /\ finished' = [finished EXCEPT ![exec[s].task] = @ + 1]
    BY <1>4
  <2>2. RowsFit'
    BY <1>1, <2>1, FinishCountsOne
  <2>3. exec[s].task \in Tasks
    BY <1>1, <2>1, ExecutionCases DEF ExecFinish, Finishing
  <2>4. /\ finished' \in [Tasks -> Nat]
        /\ \A t \in Tasks : finished[t] \in Nat /\ finished'[t] \in Nat /\ finished'[t] >= finished[t]
    BY <1>1, <2>1, <2>3
  <2>5. CommandFits'
    <3> SUFFICES ASSUME cli # NoCommand PROVE Fits(cli.row, finished'[cli.task])
      BY <1>1 DEF CommandFits
    <3>1. cli.row \in Row /\ cli.task \in Tasks /\ Fits(cli.row, finished[cli.task])
      BY <1>1 DEF CLITypeOK, CommandFits
    <3>2. cli.row.runs \in Nat /\ cli.row.fails \in Nat
      BY <3>1, CountsAreNat
    <3> QED
      BY <2>4, <3>1, <3>2 DEF Fits
  <2> QED
    BY <1>1, <1>3, <2>2, <2>4, <2>5 DEF CLIInv, CLITypeOK
<1>5. CASE /\ UNCHANGED finished
           /\ \A s \in Slots : ~(exec[s].st = "finish" /\ exec'[s].st = "idle"
                                 /\ life' # "down")
  <2>1. ASSUME NEW s \in Slots, ExecFinish(s) PROVE FALSE
    <3>1. exec[s].st = "finish" /\ exec'[s] = Idle /\ life' = life
      BY <1>1, <2>1 DEF ExecFinish, TypeOK
    <3>2. life # "down"
      BY <1>1, <3>1 DEF Lifecycle, Busy
    <3> QED
      BY <1>5, <3>1, <3>2 DEF Idle
  <2>2. RowsFit'
    BY <1>1, <1>2, <1>5, <2>1, ServerCopies
  <2>3. CommandFits'
    BY <1>1, <1>5 DEF CommandFits
  <2> QED
    BY <1>1, <1>3, <1>5, <2>2, <2>3 DEF CLIInv, CLITypeOK
<1> QED
  BY <1>4, <1>5 DEF ServerStep

\* Counts are lost when two processes write the same rows, but no execution is ever
\* counted twice (executeTask, saveTaskState, runSchedulerCommand).
THEOREM NothingCountedTwice == CLISpec => []NeverOvercounted
<1>1. CLIInit => CLIInv
  <2> SUFFICES ASSUME CLIInit PROVE CLIInv
    OBVIOUS
  <2>1. TypeOK /\ Lifecycle
    BY InitIsTyped DEF CLIInit
  <2>2. CLITypeOK
    BY <2>1, CommandsAssumption DEF CLIInit, CLITypeOK
  <2>3. RowsFit /\ CommandFits
    BY DEF CLIInit, Init, RowsFit, CommandFits, Fits, NoRow
  <2> QED
    BY <2>1, <2>2, <2>3 DEF CLIInv
<1>2. CLIInv /\ [CLINext]_cliVars => CLIInv'
  <2> SUFFICES ASSUME CLIInv, [CLINext]_cliVars PROVE CLIInv'
    OBVIOUS
  <2>1. CASE UNCHANGED cliVars
    <3>1. UNCHANGED vars /\ TypeOK /\ Lifecycle
      BY <2>1 DEF cliVars, CLIInv, CLITypeOK
    <3>2. TypeOK' /\ Lifecycle'
      BY <3>1, TypeStep, LifecycleStep
    <3> QED
      BY <2>1, <3>2 DEF CLIInv, CLITypeOK, RowsFit, CommandFits, cliVars, vars, memory
  <2> QED
    BY <2>1, CommandKeeps, ServerKeeps DEF CLINext
<1> QED
  BY <1>1, <1>2, InvSaysSo, PTL DEF CLISpec
=============================================================================
