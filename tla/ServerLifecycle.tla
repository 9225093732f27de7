--------------------------- MODULE ServerLifecycle ---------------------------
(***************************************************************************)
(* The life of server processes that share a PID file and a port: run of   *)
(* main.go, Server.Start of server.go, pid_unix.go, dropPrivileges, the    *)
(* signals, and restartSelf of the self-update.  CheckPIDFile looks at the *)
(* file and only then removes it; WritePIDFile looks again, truncates the  *)
(* file and fills it.                                                      *)
(***************************************************************************)
EXTENDS Naturals

CONSTANTS
  Servers,        \* processes that may be started
  FixedPID,       \* TRUE: every start gets the same process number, as in a container
  MaxLaunches,    \* bound: starts
  MaxSrvCrashes   \* bound: kills

ASSUME ServerLifecycleAssumption ==
  /\ FixedPID \in BOOLEAN
  /\ MaxLaunches \in Nat \ {0} /\ MaxSrvCrashes \in Nat

NoFile == 0
Truncated == MaxLaunches + 1   \* the file between WriteFile's open and its write

VARIABLES
  pidFile,     \* the process number in the PID file, NoFile or Truncated
  at,          \* at[s]: where server s stands in Start
  pid,         \* pid[s]: its process number
  ticking,     \* ticking[s]: its scheduler is running
  bound,       \* the servers whose listener is open (at most one has the port)
  raced,       \* history variable: a start fell into the checks of another
  launches, srvCrashes

srvVars == <<pidFile, at, pid, ticking, bound, raced, launches, srvCrashes>>

\* Between the first look at the PID file and the write of it.
Claiming == {"check", "remove", "recheck", "reremove", "create", "fill"}
\* Between the write and the deferred RemovePIDFile.
Holding == {"claimed", "scheduled", "listening", "unprivileged", "serving",
            "torDown", "idle"}

Alive(s) == at[s] # "off"
\* CheckPIDFile: the process exists, and its executable is ours.
Runs(n) == \E s \in Servers : Alive(s) /\ pid[s] = n

Go(s, where) == at' = [at EXCEPT ![s] = where]
\* The process ends, and with it its scheduler and its sockets.
Die(s) ==
  /\ Go(s, "off")
  /\ ticking' = [ticking EXCEPT ![s] = FALSE]
  /\ bound' = bound \ {s}

\* A process begins Start; alone, it finds at most what the dead have left.
Begin(s) ==
  /\ Go(s, "check")
  /\ raced' = \E t \in Servers \ {s} : Alive(t) /\ (raced \/ at[t] \in Claiming)
  /\ launches' = launches + 1
-----------------------------------------------------------------------------
SrvInit ==
  /\ pidFile = NoFile
  /\ at = [s \in Servers |-> "off"]
  /\ pid = [s \in Servers |-> NoFile]
  /\ ticking = [s \in Servers |-> FALSE]
  /\ bound = {} /\ raced = FALSE
  /\ launches = 0 /\ srvCrashes = 0

\* The program is started.  Under FixedPID there is one process of that number.
Launch(s) ==
  /\ ~Alive(s) /\ launches < MaxLaunches
  /\ FixedPID => \A t \in Servers : ~Alive(t)
  /\ Begin(s)
  /\ pid' = [pid EXCEPT ![s] = IF FixedPID THEN 1 ELSE launches + 1]
  /\ UNCHANGED <<pidFile, ticking, bound, srvCrashes>>

\* The numbers of the dead are not looked up.
MutantCheckPIDFile(s, look, remove, absent) ==
  /\ at[s] = look
  /\ CASE pidFile = NoFile -> Go(s, absent)
       [] pidFile # NoFile -> Go(s, remove)
  /\ UNCHANGED <<pidFile, pid, ticking, bound, raced, launches, srvCrashes>>

\* A refused start runs the deferred RemovePIDFile too.
MutantRefused(s, look, remove, absent) ==
  /\ at[s] = look
  /\ CASE pidFile = NoFile -> Go(s, absent)
       [] pidFile \notin {NoFile, Truncated} /\ Runs(pidFile) -> Go(s, "leaving")
       [] OTHER -> Go(s, remove)
  /\ UNCHANGED <<pidFile, pid, ticking, bound, raced, launches, srvCrashes>>

\* CheckPIDFile's look: no file, a running server (which ends this one: the
\* deferred removal is not set up yet), or a corrupt or stale file to remove.
CheckPIDFile(s, look, remove, absent) ==
  /\ at[s] = look
  /\ CASE pidFile = NoFile -> Go(s, absent)
       [] pidFile \notin {NoFile, Truncated} /\ Runs(pidFile) -> Go(s, "exiting")
       [] OTHER -> Go(s, remove)
  /\ UNCHANGED <<pidFile, pid, ticking, bound, raced, launches, srvCrashes>>

\* CheckPIDFile's os.Remove, of whatever the file has become.
RemoveStale(s, remove, absent) ==
  /\ at[s] = remove
  /\ pidFile' = NoFile
  /\ Go(s, absent)
  /\ UNCHANGED <<pid, ticking, bound, raced, launches, srvCrashes>>

\* WritePIDFile: os.WriteFile opens the file and truncates it, ...
CreatePIDFile(s) ==
  /\ at[s] = "create"
  /\ pidFile' = Truncated
  /\ Go(s, "fill")
  /\ UNCHANGED <<pid, ticking, bound, raced, launches, srvCrashes>>

\* ... and writes the process number: to a removed file, if another start has removed
\* it.  (A file that a third start has made anew by then is not told apart.)
FillPIDFile(s) ==
  /\ at[s] = "fill"
  /\ pidFile' = IF pidFile = NoFile THEN NoFile ELSE pid[s]
  /\ Go(s, "claimed")
  /\ UNCHANGED <<pid, ticking, bound, raced, launches, srvCrashes>>

\* scheduler.Start, before the port is claimed; an error is logged.
StartScheduler(s) ==
  /\ at[s] = "claimed"
  /\ ticking' \in {ticking, [ticking EXCEPT ![s] = TRUE]}
  /\ Go(s, "scheduled")
  /\ UNCHANGED <<pidFile, pid, bound, raced, launches, srvCrashes>>

\* net.Listen: the port must be free, and may be another program's.
Listen(s) ==
  /\ at[s] = "scheduled"
  /\ \/ bound = {} /\ bound' = {s} /\ Go(s, "listening")
     \/ UNCHANGED bound /\ Go(s, "leaving")
  /\ UNCHANGED <<pidFile, pid, ticking, raced, launches, srvCrashes>>

\* The certificate and dropPrivileges; a failure closes the listener.
Prepare(s) ==
  /\ at[s] = "listening"
  /\ \/ Go(s, "unprivileged") /\ UNCHANGED bound
     \/ Go(s, "leaving") /\ bound' = bound \ {s}
  /\ UNCHANGED <<pidFile, pid, ticking, raced, launches, srvCrashes>>

\* Serve, Tor and the watch of server.yml are started, signals are caught.
Serve(s) ==
  /\ at[s] = "unprivileged"
  /\ Go(s, "serving")
  /\ UNCHANGED <<pidFile, pid, ticking, bound, raced, launches, srvCrashes>>

\* The select: Serve fails (Start returns, its scheduler left running), or SIGINT
\* or SIGTERM arrives and Tor is stopped.
ServeEnds(s) ==
  /\ at[s] = "serving"
  /\ \/ Go(s, "leaving") /\ bound' = bound \ {s}
     \/ Go(s, "torDown") /\ UNCHANGED bound
  /\ UNCHANGED <<pidFile, pid, ticking, raced, launches, srvCrashes>>

\* scheduler.Stop, which returns also when tasks are still running.
StopScheduler(s) ==
  /\ at[s] = "torDown"
  /\ ticking' = [ticking EXCEPT ![s] = FALSE]
  /\ Go(s, "idle")
  /\ UNCHANGED <<pidFile, pid, bound, raced, launches, srvCrashes>>

\* http.Server.Shutdown, or Close after 30 seconds.
Shutdown(s) ==
  /\ at[s] = "idle"
  /\ bound' = bound \ {s}
  /\ Go(s, "leaving")
  /\ UNCHANGED <<pidFile, pid, ticking, raced, launches, srvCrashes>>

\* The deferred RemovePIDFile, whoever's file it is; without the privileges it was
\* written with it fails.
RemovePIDFile(s) ==
  /\ at[s] = "leaving"
  /\ pidFile' \in {NoFile, pidFile}
  /\ Go(s, "exiting")
  /\ UNCHANGED <<pid, ticking, bound, raced, launches, srvCrashes>>

\* run closes the logs and the database and returns.
ExitProcess(s) ==
  /\ at[s] = "exiting"
  /\ Die(s)
  /\ UNCHANGED <<pidFile, pid, raced, launches, srvCrashes>>

\* A crash, SIGKILL, or before signal.Notify any signal: no deferred call runs.
Killed(s) ==
  /\ Alive(s) /\ srvCrashes < MaxSrvCrashes
  /\ srvCrashes' = srvCrashes + 1
  /\ Die(s)
  /\ UNCHANGED <<pidFile, pid, raced, launches>>

\* restartSelf: the process executes the program that was installed.  It keeps its
\* number; sockets and goroutines go, and no deferred call runs.
RestartSelf(s) ==
  /\ at[s] = "serving" /\ launches < MaxLaunches
  /\ Begin(s)
  /\ ticking' = [ticking EXCEPT ![s] = FALSE]
  /\ bound' = bound \ {s}
  /\ UNCHANGED <<pidFile, pid, srvCrashes>>

StartStep(s) ==
  \/ CheckPIDFile(s, "check", "remove", "recheck")
  \/ RemoveStale(s, "remove", "recheck")
  \/ CheckPIDFile(s, "recheck", "reremove", "create")
  \/ RemoveStale(s, "reremove", "create")
  \/ CreatePIDFile(s) \/ FillPIDFile(s)
  \/ StartScheduler(s) \/ Listen(s) \/ Prepare(s) \/ Serve(s)

EndStep(s) ==
  ServeEnds(s) \/ StopScheduler(s) \/ Shutdown(s) \/ RemovePIDFile(s) \/ ExitProcess(s)

SrvNext ==
  \E s \in Servers : Launch(s) \/ StartStep(s) \/ EndStep(s) \/ Killed(s) \/ RestartSelf(s)

SrvSpec == SrvInit /\ [][SrvNext]_srvVars
-----------------------------------------------------------------------------
SrvTypeOK ==
  /\ pidFile \in 0..Truncated
  /\ at \in [Servers -> Claiming \cup Holding \cup {"off", "leaving", "exiting"}]
  /\ pid \in [Servers -> 0..MaxLaunches]
  /\ ticking \in [Servers -> BOOLEAN]
  /\ bound \in SUBSET Servers
  /\ raced \in BOOLEAN
  /\ launches \in 0..MaxLaunches /\ srvCrashes \in 0..MaxSrvCrashes

\* Unless starts have raced, the PID file names the server that holds it, through
\* every refused start of another, every crash and every restart (CheckPIDFile,
\* WritePIDFile, RemovePIDFile).
PIDFileNamesServer ==
  \A s \in Servers : ~raced /\ at[s] \in Holding => pidFile = pid[s]

\* Unless starts have raced, two schedulers on one database never run together, but
\* for the moment in which a process that failed is exiting: Start starts the
\* scheduler before it knows whether it has the port.
OneScheduler ==
  \A s, t \in Servers : ~raced /\ s # t /\ ticking[s] /\ ticking[t] =>
    at[s] = "exiting" \/ at[t] = "exiting"

\* AI.md:10370 has containers skip the PID file, which would produce "a false already
\* running": no start is refused because of the process's own number.
NeverRefusedByItself ==
  [][\A s \in Servers : at[s] \in {"check", "recheck"} /\ at'[s] = "exiting" =>
       pidFile # pid[s]]_srvVars
=============================================================================
