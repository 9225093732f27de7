---------------------------- MODULE SchedulerCLI ----------------------------
(***************************************************************************)
(* "caswhois scheduler <list|show|history|enable|disable|run>"             *)
(* (src/src/main.go) beside a running server: a second process with a      *)
(* Scheduler of its own on the same server.db.  Before it does what it was *)
(* asked it registers every built-in task, which reads the task's row and  *)
(* writes it back.  The server's steps are those of Scheduler.             *)
(*                                                                         *)
(* One command works on one task at a time; the registration of the other  *)
(* tasks it makes on its way is a "list" of them.                          *)
(***************************************************************************)
EXTENDS Scheduler

CONSTANTS
  Commands,      \* the commands the operator uses
  MaxCommands    \* bound: commands issued in a behaviour

ASSUME CommandsAssumption ==
  /\ Commands \subseteq {"list", "enable", "disable", "run"}
  /\ MaxCommands \in Nat

VARIABLES
  cli,       \* the command in progress: its task in its own memory, and where it is
  issued,    \* commands issued so far (bounded by MaxCommands)
  finished   \* history variable: executions of t that ended, in either process

cliVars == <<vars, cli, issued, finished>>

NoCommand == [pc |-> "idle"]
CliStates == {"loaded", "registered", "executing"}

CLIInit ==
  /\ Init
  /\ cli = NoCommand
  /\ issued = 0
  /\ finished = [t \in Tasks |-> 0]

\* Everything of the server's process, and the clock, is left alone.
ServerUnchanged == UNCHANGED <<now, memory, life, manual, dispatched>>

\* Register in the command's process: loadTaskState and the next deadline ...
CommandLoad(t, c) ==
  /\ cli = NoCommand
  /\ issued < MaxCommands
  /\ issued' = issued + 1
  /\ cli' = [pc |-> "loaded", task |-> t, command |-> c, row |-> RegisteredRow(t),
             start |-> 0]
  /\ ServerUnchanged
  /\ UNCHANGED <<db, history, finished>>

\* ... and saveTaskState.  list, show and history then only read.
CommandSave ==
  /\ cli.pc = "loaded"
  /\ saveTaskState({cli.task}, [u \in Tasks |-> cli.row])
  /\ cli' = IF cli.command = "list" THEN NoCommand ELSE [cli EXCEPT !.pc = "registered"]
  /\ ServerUnchanged
  /\ UNCHANGED <<issued, finished>>

\* EnableTask and DisableTask: UPDATE of the one column (no cascade).
CommandSwitch ==
  /\ cli.pc = "registered"
  /\ cli.command \in {"enable", "disable"}
  /\ db[cli.task] # NoRow
  /\ db' = [db EXCEPT ![cli.task].enabled = cli.command = "enable"]
  /\ cli' = NoCommand
  /\ ServerUnchanged
  /\ UNCHANGED <<history, issued, finished>>

\* RunTaskNow in the command: launchTask starts a goroutine nobody waits for.
\* (Its history rows belong to no slot of the server and are left out.)
CommandRun ==
  /\ cli.pc = "registered"
  /\ cli.command = "run"
  /\ cli' = [cli EXCEPT !.pc = "executing", !.start = now]
  /\ ServerUnchanged
  /\ UNCHANGED <<db, history, issued, finished>>

\* The goroutine reaches the end of executeTask before the process is gone ...
CommandRunFinish(ok) ==
  /\ cli.pc = "executing"
  /\ saveTaskState({cli.task},
       [u \in Tasks |-> FinishedRow(cli.row, [task |-> cli.task, start |-> cli.start, ok |-> ok])])
  /\ cli' = NoCommand
  /\ finished' = [finished EXCEPT ![cli.task] = @ + 1]
  /\ ServerUnchanged
  /\ UNCHANGED issued

\* ... or main returns first.  A command can also be interrupted anywhere.
CommandExit ==
  /\ cli # NoCommand
  /\ cli' = NoCommand
  /\ ServerUnchanged
  /\ UNCHANGED <<db, history, issued, finished>>

CommandStep ==
  \/ \E t \in Tasks : \E c \in Commands : CommandLoad(t, c)
  \/ CommandSave \/ CommandSwitch \/ CommandRun
  \/ \E ok \in BOOLEAN : CommandRunFinish(ok)
  \/ CommandExit

\* A step of the server; an execution that ends in it is counted.
ServerStep ==
  /\ \/ /\ \E s \in Slots : /\ ExecFinish(s)
                            /\ finished' = [finished EXCEPT ![exec[s].task] = @ + 1]
     \/ /\ Next /\ \A s \in Slots : ~(exec[s].st = "finish" /\ exec'[s].st = "idle" /\ life' # "down")
        /\ UNCHANGED finished
  /\ UNCHANGED <<cli, issued>>

CLINext == ServerStep \/ CommandStep

CLISpec == CLIInit /\ [][CLINext]_cliVars
-----------------------------------------------------------------------------
CLITypeOK ==
  /\ TypeOK
  /\ cli \in {NoCommand} \cup
             [pc : CliStates, task : Tasks, command : Commands, row : Row,
              start : 0..MaxTime]
  /\ issued \in 0..MaxCommands
  /\ finished \in [Tasks -> Nat]

(***************************************************************************)
(* Two processes write the same rows from their own copies, so counts are  *)
(* lost; but no execution is ever counted twice, in either memory or in    *)
(* the table: run_count + fail_count stays at or below the executions that *)
(* really ended.                                                           *)
(***************************************************************************)
NeverOvercounted ==
  \A t \in Tasks :
    /\ tasks[t].runs + tasks[t].fails <= finished[t]
    /\ db[t].runs + db[t].fails <= finished[t]
    /\ cli # NoCommand /\ cli.task = t => cli.row.runs + cli.row.fails <= finished[t]

(***************************************************************************)
(* DisableTask: "Persist disabled state to scheduler_tasks".  A row that   *)
(* says disabled says so until an enable command changes it.               *)
(***************************************************************************)
DisabledStaysDisabled ==
  [][\A t \in Tasks : db[t] # NoRow /\ ~db[t].enabled /\ db'[t].enabled
       => cli.pc = "registered" /\ cli.command = "enable" /\ cli.task = t]_cliVars

=============================================================================
