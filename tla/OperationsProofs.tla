--------------------------- MODULE OperationsProofs ---------------------------
(***************************************************************************)
(* Proofs about the PID file of ServerLifecycle, the lines of Logger, the  *)
(* secret and the reloads of ConfigReload, the files that Backup keeps,    *)
(* what Restore brings back, and the retries of ServiceManager.            *)
(***************************************************************************)
EXTENDS ServerLifecycle, Logger, ConfigReload, Backup, Restore, ServiceManager,
        SequenceTheorems, FiniteSetTheorems, TLAPS

(***************************************************************************)
(* ServerLifecycle, for any number of server processes, starts and kills,  *)
(* with process numbers that are fresh or always the same.                 *)
(***************************************************************************)

\* From the write of the PID file to its removal.
Owning == Holding \cup {"leaving"}

\* Processes that are there at one time have different numbers, all given out already.
Identities ==
  /\ \A s \in Servers : Alive(s) => pid[s] \in 1..launches
  /\ \A s, t \in Servers : Alive(s) /\ Alive(t) /\ pid[s] = pid[t] => s = t

\* A scheduler runs in a process that owns the PID file, or is exiting.
TickingOwns == \A s \in Servers : ticking[s] => at[s] \in Owning \cup {"exiting"}

\* What holds of the PID file while starts have not raced: one process at most is
\* claiming it, the owner is named by it, nobody gets past the first look while it has
\* an owner, and nothing comes between its truncation and its write.
OneClaims == \A s, t \in Servers : at[s] \in Claiming /\ at[t] \in Claiming => s = t
OwnerNamed == \A s \in Servers : at[s] \in Owning => pidFile = pid[s]
OwnerRespected ==
  \A s, t \in Servers : at[s] \in Owning /\ at[t] \in Claiming => at[t] = "check"
Unbroken == \A s \in Servers : at[s] = "fill" => pidFile = Truncated

Orderly == OneClaims /\ OwnerNamed /\ OwnerRespected /\ Unbroken

LifecycleInv == SrvTypeOK /\ Identities /\ TickingOwns /\ (~raced => Orderly)

USE DEF Claiming, Holding, Owning, Alive, Go

-----------------------------------------------------------------------------
\* Every reachable state is well typed (Start, pid_unix.go).
LEMMA SrvTyping == SrvTypeOK /\ [SrvNext]_srvVars => SrvTypeOK'
<1> SUFFICES ASSUME SrvTypeOK, [SrvNext]_srvVars PROVE SrvTypeOK'
  OBVIOUS
<1> USE ServerLifecycleAssumption DEF SrvTypeOK, NoFile, Truncated, Begin, Die
<1>1. ASSUME NEW s \in Servers, Launch(s) PROVE SrvTypeOK'
  BY <1>1 DEF Launch
<1>2. ASSUME NEW s \in Servers, StartStep(s) PROVE SrvTypeOK'
  <2>1. ASSUME NEW look \in {"check", "recheck"}, NEW remove \in {"remove", "reremove"},
               NEW absent \in {"recheck", "create"}, CheckPIDFile(s, look, remove, absent)
        PROVE  SrvTypeOK'
    BY <2>1 DEF CheckPIDFile
  <2>2. ASSUME NEW remove \in {"remove", "reremove"}, NEW absent \in {"recheck", "create"},
               RemoveStale(s, remove, absent)
        PROVE  SrvTypeOK'
    BY <2>2 DEF RemoveStale
  <2>3. CASE CreatePIDFile(s)
    BY <2>3 DEF CreatePIDFile
  <2>4. CASE FillPIDFile(s)
    BY <2>4 DEF FillPIDFile
  <2>5. CASE StartScheduler(s)
    BY <2>5 DEF StartScheduler
  <2>6. CASE Listen(s)
    BY <2>6 DEF Listen
  <2>7. CASE Prepare(s)
    BY <2>7 DEF Prepare
  <2>8. CASE Serve(s)
    BY <2>8 DEF Serve
  <2> QED
    BY <1>2, <2>1, <2>2, <2>3, <2>4, <2>5, <2>6, <2>7, <2>8 DEF StartStep
<1>3. ASSUME NEW s \in Servers, EndStep(s) PROVE SrvTypeOK'
  <2>1. CASE ServeEnds(s)
    BY <2>1 DEF ServeEnds
  <2>2. CASE StopScheduler(s)
    BY <2>2 DEF StopScheduler
  <2>3. CASE Shutdown(s)
    BY <2>3 DEF Shutdown
  <2>4. CASE RemovePIDFile(s)
    BY <2>4 DEF RemovePIDFile
  <2>5. CASE ExitProcess(s)
    BY <2>5 DEF ExitProcess
  <2> QED
    BY <1>3, <2>1, <2>2, <2>3, <2>4, <2>5 DEF EndStep
<1>4. ASSUME NEW s \in Servers, Killed(s) PROVE SrvTypeOK'
  BY <1>4 DEF Killed
<1>5. ASSUME NEW s \in Servers, RestartSelf(s) PROVE SrvTypeOK'
  BY <1>5 DEF RestartSelf
<1>6. CASE UNCHANGED srvVars
  BY <1>6 DEF srvVars
<1> QED
  BY <1>1, <1>2, <1>3, <1>4, <1>5, <1>6 DEF SrvNext

\* The facts below are of a step that is one of these.
LEMMA SrvSteps ==
  ASSUME [SrvNext]_srvVars
  PROVE  \/ \E s \in Servers : \/ Launch(s) \/ RestartSelf(s) \/ Killed(s) \/ ExitProcess(s)
                               \/ CheckPIDFile(s, "check", "remove", "recheck")
                               \/ CheckPIDFile(s, "recheck", "reremove", "create")
                               \/ RemoveStale(s, "remove", "recheck")
                               \/ RemoveStale(s, "reremove", "create")
                               \/ CreatePIDFile(s) \/ FillPIDFile(s) \/ RemovePIDFile(s)
                               \/ StartScheduler(s) \/ StopScheduler(s)
                               \/ Listen(s) \/ Prepare(s) \/ Serve(s) \/ ServeEnds(s) \/ Shutdown(s)
         \/ UNCHANGED srvVars
BY DEF SrvNext, StartStep, EndStep

\* No two processes that are there share a number (Launch and RestartSelf).
LEMMA IdentitiesKept == SrvTypeOK /\ Identities /\ [SrvNext]_srvVars => Identities'
<1> SUFFICES ASSUME SrvTypeOK, Identities, [SrvNext]_srvVars PROVE Identities'
  OBVIOUS
<1> USE ServerLifecycleAssumption DEF SrvTypeOK, Identities
<1>1. ASSUME NEW s \in Servers, Launch(s) PROVE Identities'
  <2>1. \A t \in Servers \ {s} : at'[t] = at[t] /\ pid'[t] = pid[t]
    BY <1>1 DEF Launch, Begin
  <2>2. launches' = launches + 1 /\ pid'[s] \in 1..launches'
    BY <1>1 DEF Launch, Begin
  <2>3. ASSUME NEW t \in Servers \ {s}, Alive(t) PROVE pid[t] # pid'[s]
    BY <1>1, <2>3 DEF Launch, Begin
  <2> QED
    BY <2>1, <2>2, <2>3
<1>2. ASSUME NEW s \in Servers, RestartSelf(s) PROVE Identities'
  BY <1>2 DEF RestartSelf, Begin
<1>3. ASSUME UNCHANGED <<pid, launches>>, \A s \in Servers : Alive(s)' => Alive(s)
      PROVE  Identities'
  BY <1>3
<1>4. ASSUME NEW s \in Servers, Killed(s) \/ ExitProcess(s) PROVE Identities'
  BY <1>3, <1>4 DEF Killed, ExitProcess, Die
<1>5. ASSUME NEW s \in Servers, StartStep(s) \/ (EndStep(s) /\ ~ExitProcess(s))
      PROVE  Identities'
  BY <1>3, <1>5 DEF StartStep, CheckPIDFile, RemoveStale, CreatePIDFile, FillPIDFile,
     StartScheduler, Listen, Prepare, Serve, EndStep, ServeEnds, StopScheduler, Shutdown,
     RemovePIDFile
<1>6. CASE UNCHANGED srvVars
  BY <1>6 DEF srvVars
<1> QED
  BY <1>1, <1>2, <1>4, <1>5, <1>6 DEF SrvNext, EndStep

\* A scheduler ends with its process, if not before (StopScheduler, the exit).
LEMMA TickingKept == SrvTypeOK /\ TickingOwns /\ [SrvNext]_srvVars => TickingOwns'
<1> SUFFICES ASSUME SrvTypeOK, TickingOwns, [SrvNext]_srvVars PROVE TickingOwns'
  OBVIOUS
<1> USE DEF SrvTypeOK, TickingOwns
<1>1. ASSUME NEW s \in Servers, Launch(s) \/ RestartSelf(s) \/ Killed(s) PROVE TickingOwns'
  BY <1>1 DEF Launch, RestartSelf, Killed, Begin, Die
<1>2. ASSUME NEW s \in Servers, StartStep(s) PROVE TickingOwns'
  BY <1>2 DEF StartStep, CheckPIDFile, RemoveStale, CreatePIDFile, FillPIDFile,
              StartScheduler, Listen, Prepare, Serve
<1>3. ASSUME NEW s \in Servers, EndStep(s) PROVE TickingOwns'
  BY <1>3 DEF EndStep, ServeEnds, StopScheduler, Shutdown, RemovePIDFile, ExitProcess, Die
<1>4. CASE UNCHANGED srvVars
  BY <1>4 DEF srvVars
<1> QED
  BY <1>1, <1>2, <1>3, <1>4 DEF SrvNext
-----------------------------------------------------------------------------
\* A start that meets nobody claiming the file leaves it in order; when the last other
\* process is gone, what races have done is over (Launch, restartSelf).
LEMMA BeginKeepsOrder ==
  ASSUME SrvTypeOK, ~raced => Orderly, NEW s \in Servers, Begin(s), pidFile' = pidFile,
         \A t \in Servers \ {s} : pid'[t] = pid[t],
         ~raced'
  PROVE  Orderly'
<1> USE DEF SrvTypeOK, Begin
<1>1. at'[s] = "check" /\ \A t \in Servers \ {s} : at'[t] = at[t]
  OBVIOUS
<1>2. CASE \A t \in Servers \ {s} : ~Alive(t)
  BY <1>1, <1>2 DEF Orderly, OneClaims, OwnerNamed, OwnerRespected, Unbroken
<1>3. CASE \E t \in Servers \ {s} : Alive(t)
  <2>1. ~raced /\ Orderly /\ \A t \in Servers \ {s} : at[t] \notin Claiming
    BY <1>3
  <2> QED
    BY <1>1, <2>1 DEF Orderly, OneClaims, OwnerNamed, OwnerRespected, Unbroken
<1> QED
  BY <1>2, <1>3

\* The looks, the removals and the writes of a start that nothing races keep order
\* (CheckPIDFile, WritePIDFile).
LEMMA ClaimKeepsOrder ==
  ASSUME LifecycleInv, ~raced, NEW s \in Servers,
         \/ CheckPIDFile(s, "check", "remove", "recheck")
         \/ CheckPIDFile(s, "recheck", "reremove", "create")
         \/ RemoveStale(s, "remove", "recheck")
         \/ RemoveStale(s, "reremove", "create")
         \/ CreatePIDFile(s) \/ FillPIDFile(s)
  PROVE  Orderly'
<1> USE ServerLifecycleAssumption
    DEF LifecycleInv, SrvTypeOK, Orderly, OneClaims, OwnerNamed, OwnerRespected, Unbroken,
        NoFile, Truncated
<1>1. \A t \in Servers : at[t] \in Claiming => t = s
  BY DEF CheckPIDFile, RemoveStale, CreatePIDFile, FillPIDFile
<1>2. \A t \in Servers \ {s} : at'[t] = at[t] /\ UNCHANGED pid
  BY DEF CheckPIDFile, RemoveStale, CreatePIDFile, FillPIDFile
<1>3. CASE \/ CheckPIDFile(s, "check", "remove", "recheck")
           \/ CheckPIDFile(s, "recheck", "reremove", "create")
  <2>1. UNCHANGED pidFile
    BY <1>3 DEF CheckPIDFile
  <2>2. CASE \E t \in Servers : at[t] \in Owning
    <3> PICK t \in Servers : at[t] \in Owning
      BY <2>2
    <3>1. pidFile = pid[t] /\ pid[t] \in 1..launches /\ Runs(pidFile)
      BY DEF Identities, Runs
    <3>2. pidFile \notin {NoFile, Truncated}
      BY <3>1
    <3>3. at'[s] = "exiting"
      BY <1>3, <3>1, <3>2 DEF CheckPIDFile
    <3> QED
      BY <1>1, <1>2, <2>1, <3>3
  <2>3. CASE \A t \in Servers : at[t] \notin Owning
    <3>1. at'[s] \in {"remove", "recheck", "reremove", "create", "exiting"}
      BY <1>3 DEF CheckPIDFile
    <3> QED
      BY <1>1, <1>2, <2>1, <2>3, <3>1
  <2> QED
    BY <2>2, <2>3
<1>4. CASE ~(\/ CheckPIDFile(s, "check", "remove", "recheck")
             \/ CheckPIDFile(s, "recheck", "reremove", "create"))
  <2>1. at[s] \in Claiming \ {"check"}
    BY <1>4 DEF RemoveStale, CreatePIDFile, FillPIDFile
  <2>2. \A t \in Servers : at[t] \notin Owning
    BY <2>1
  <2>3. CASE RemoveStale(s, "remove", "recheck") \/ RemoveStale(s, "reremove", "create")
    BY <1>1, <1>2, <2>2, <2>3 DEF RemoveStale
  <2>4. CASE CreatePIDFile(s)
    BY <1>1, <1>2, <2>2, <2>4 DEF CreatePIDFile
  <2>5. CASE FillPIDFile(s)
    BY <1>1, <1>2, <2>2, <2>5 DEF FillPIDFile
  <2> QED
    BY <1>4, <2>3, <2>4, <2>5
<1> QED
  BY <1>3, <1>4

\* An owner that goes on, leaves, or ends keeps order (Start, RemovePIDFile, a kill).
LEMMA OwnerKeepsOrder ==
  ASSUME LifecycleInv, ~raced, NEW s \in Servers,
         \/ StartScheduler(s) \/ StopScheduler(s) \/ Listen(s) \/ Prepare(s) \/ Serve(s)
         \/ ServeEnds(s) \/ Shutdown(s) \/ RemovePIDFile(s) \/ ExitProcess(s) \/ Killed(s)
  PROVE  Orderly'
<1> USE DEF LifecycleInv, SrvTypeOK, Orderly, OneClaims, OwnerNamed, OwnerRespected, Unbroken
<1>1. \A t \in Servers \ {s} : at'[t] = at[t]
  BY DEF StartScheduler, StopScheduler, Listen, Prepare, Serve, ServeEnds, Shutdown,
         RemovePIDFile, ExitProcess, Killed, Die
<1>2. UNCHANGED pid
  BY DEF StartScheduler, StopScheduler, Listen, Prepare, Serve, ServeEnds, Shutdown,
         RemovePIDFile, ExitProcess, Killed
<1>3. CASE RemovePIDFile(s)
  <2>1. at'[s] = "exiting" /\ at[s] = "leaving"
    BY <1>3 DEF RemovePIDFile
  <2>2. \A t \in Servers \ {s} : at[t] \notin Owning /\ at[t] # "fill"
    BY <2>1 DEF Identities
  <2> QED
    BY <1>1, <1>2, <2>1, <2>2
<1>4. CASE ExitProcess(s) \/ Killed(s)
  <2>1. at'[s] = "off" /\ UNCHANGED pidFile
    BY <1>4 DEF ExitProcess, Killed, Die
  <2> QED
    BY <1>1, <1>2, <2>1
<1>5. CASE \/ StartScheduler(s) \/ StopScheduler(s) \/ Listen(s) \/ Prepare(s) \/ Serve(s)
           \/ ServeEnds(s) \/ Shutdown(s)
  <2>1. at[s] \in Owning /\ at'[s] \in Owning /\ UNCHANGED pidFile
    BY <1>5 DEF StartScheduler, StopScheduler, Listen, Prepare, Serve, ServeEnds, Shutdown
  <2> QED
    BY <1>1, <1>2, <2>1
<1> QED
  BY <1>3, <1>4, <1>5
-----------------------------------------------------------------------------
\* Every step of a server process keeps the invariant.
LEMMA LifecycleStep == LifecycleInv /\ [SrvNext]_srvVars => LifecycleInv'
<1> SUFFICES ASSUME LifecycleInv, [SrvNext]_srvVars PROVE LifecycleInv'
  OBVIOUS
<1>1. SrvTypeOK' /\ Identities' /\ TickingOwns'
  BY SrvTyping, IdentitiesKept, TickingKept DEF LifecycleInv
<1>2. ASSUME ~raced' PROVE Orderly'
  <2>1. CASE \E s \in Servers : Launch(s) \/ RestartSelf(s)
    <3> PICK s \in Servers : Launch(s) \/ RestartSelf(s)
      BY <2>1
    <3>1. /\ Begin(s) /\ pidFile' = pidFile
          /\ \A t \in Servers \ {s} : pid'[t] = pid[t]
      BY DEF Launch, RestartSelf, LifecycleInv, SrvTypeOK
    <3> QED
      BY <1>2, <3>1, BeginKeepsOrder DEF LifecycleInv
  <2>2. CASE \E s \in Servers :
               \/ CheckPIDFile(s, "check", "remove", "recheck")
               \/ CheckPIDFile(s, "recheck", "reremove", "create")
               \/ RemoveStale(s, "remove", "recheck")
               \/ RemoveStale(s, "reremove", "create")
               \/ CreatePIDFile(s) \/ FillPIDFile(s)
    <3>1. ~raced
      BY <1>2, <2>2 DEF CheckPIDFile, RemoveStale, CreatePIDFile, FillPIDFile
    <3> QED
      BY <2>2, <3>1, ClaimKeepsOrder
  <2>3. CASE \E s \in Servers :
               \/ StartScheduler(s) \/ StopScheduler(s) \/ Listen(s) \/ Prepare(s) \/ Serve(s)
               \/ ServeEnds(s) \/ Shutdown(s) \/ RemovePIDFile(s) \/ ExitProcess(s) \/ Killed(s)
    <3>1. ~raced
      BY <1>2, <2>3 DEF StartScheduler, StopScheduler, Listen, Prepare, Serve, ServeEnds,
                        Shutdown, RemovePIDFile, ExitProcess, Killed
    <3> QED
      BY <2>3, <3>1, OwnerKeepsOrder
  <2>4. CASE UNCHANGED srvVars
    BY <1>2, <2>4 DEF srvVars, LifecycleInv, Orderly, OneClaims, OwnerNamed, OwnerRespected,
                      Unbroken
  <2> QED
    BY <2>1, <2>2, <2>3, <2>4, SrvSteps
<1> QED
  BY <1>1, <1>2 DEF LifecycleInv

\* The invariant holds in every reachable state.
THEOREM LifecycleHolds == SrvSpec => []LifecycleInv
<1>1. SrvInit => LifecycleInv
  <2> SUFFICES ASSUME SrvInit PROVE LifecycleInv
    OBVIOUS
  <2> USE ServerLifecycleAssumption DEF SrvInit
  <2>1. SrvTypeOK
    <3>1. pidFile \in 0..Truncated /\ pid \in [Servers -> 0..MaxLaunches]
      BY DEF NoFile, Truncated
    <3>2. at \in [Servers -> Claiming \cup Holding \cup {"off", "leaving", "exiting"}]
      OBVIOUS
    <3>3. ticking \in [Servers -> BOOLEAN] /\ bound \in SUBSET Servers /\ raced \in BOOLEAN
      OBVIOUS
    <3>4. launches \in 0..MaxLaunches /\ srvCrashes \in 0..MaxSrvCrashes
      OBVIOUS
    <3> QED
      BY <3>1, <3>2, <3>3, <3>4 DEF SrvTypeOK
  <2>2. Identities /\ TickingOwns
    BY DEF Identities, TickingOwns
  <2>3. Orderly
    BY DEF Orderly, OneClaims, OwnerNamed, OwnerRespected, Unbroken
  <2> QED
    BY <2>1, <2>2, <2>3 DEF LifecycleInv
<1> QED
  BY <1>1, LifecycleStep, PTL DEF SrvSpec

\* Unless starts have raced, the PID file names the server that holds it (CheckPIDFile,
\* WritePIDFile, RemovePIDFile).
THEOREM HolderIsNamed == SrvSpec => []PIDFileNamesServer
<1>1. LifecycleInv => PIDFileNamesServer
  BY DEF LifecycleInv, Orderly, OwnerNamed, PIDFileNamesServer
<1> QED
  BY <1>1, LifecycleHolds, PTL

\* Unless starts have raced, two schedulers on one database never run together, but for
\* the moment in which a process that failed is exiting (Start).
THEOREM SchedulersDoNotMeet == SrvSpec => []OneScheduler
<1>1. LifecycleInv => OneScheduler
  <2> SUFFICES ASSUME LifecycleInv, NEW s \in Servers, NEW t \in Servers,
                      ~raced, s # t, ticking[s], ticking[t],
                      at[s] # "exiting", at[t] # "exiting"
               PROVE  FALSE
    BY DEF OneScheduler
  <2>1. at[s] \in Owning /\ at[t] \in Owning
    BY DEF LifecycleInv, TickingOwns
  <2>2. pidFile = pid[s] /\ pidFile = pid[t]
    BY <2>1 DEF LifecycleInv, Orderly, OwnerNamed
  <2> QED
    BY <2>1, <2>2 DEF LifecycleInv, Identities
<1> QED
  BY <1>1, LifecycleHolds, PTL

HIDE DEF Claiming, Holding, Owning, Alive, Go

-----------------------------------------------------------------------------
(***************************************************************************)
(* Logger, for any log files, any number of goroutines that log, and any   *)
(* number of rotations.                                                    *)
(***************************************************************************)

\* The last openFiles went through and nobody has closed the files since.
LogSound == ~rotating /\ ~reopenFailed /\ ~logClosed

\* Then every log has the file of that rotation, by its handle and by its handler.
FilesCurrent ==
  LogSound => /\ \A l \in Logs : handle[l] = rotations /\ <<l, rotations>> \in openFDs
           /\ \A l \in HandledLogs : handler[l] = rotations

\* A line that no rotation has crossed has picked up a file of that rotation.
LinesCurrent ==
  LogSound => \A w \in LogWriters : Logging(w) /\ ~line[w].crossed => line[w].file = rotations

\* While the files are closed every line under way has been crossed.
CrossedMeanwhile ==
  rotating => \A w \in LogWriters : Logging(w) => line[w].crossed

LogInv == LogTypeOK /\ FilesCurrent /\ LinesCurrent /\ CrossedMeanwhile /\ LinesKept

\* What line[w] may be.
LineRecord == [log : Logs \cup {""}, file : 0..MaxRotations + 1, crossed : BOOLEAN]
-----------------------------------------------------------------------------
\* The bounds are numbers.
LEMMA LogBounds == MaxRotations \in Nat /\ MaxLines \in Nat
BY LoggerAssumption

\* What is written through a handler is a log.
LEMMA HandledAreLogs == HandledLogs \subseteq Logs
BY LoggerAssumption DEF Logs

\* The files openFiles gets to are log files.
LEMMA OpenedAreLogs ==
  ASSUME NEW n \in 0..Len(FileOrder)
  PROVE  {FileOrder[i] : i \in 1..n} \subseteq Logs
<1>1. FileOrder \in Seq(STRING)
  BY LoggerAssumption
<1>2. 1..n \subseteq DOMAIN FileOrder
  BY <1>1
<1> QED
  BY <1>2 DEF Logs

\* The file a line picks up, or its absence.
LEMMA FoundIsFile ==
  ASSUME LogTypeOK, NEW l \in Logs
  PROVE  (IF l \in HandledLogs THEN handler[l] ELSE handle[l]) \in 0..MaxRotations + 1
<1>1. /\ handle \in [Logs -> 0..MaxRotations + 1]
      /\ handler \in [HandledLogs -> 1..MaxRotations + 1]
  BY DEF LogTypeOK
<1>2. 1..MaxRotations + 1 \subseteq 0..MaxRotations + 1
  BY LogBounds
<1> QED
  BY <1>1, <1>2

\* Every step leaves the lines under way well typed.
LEMMA LineTyping ==
  LogTypeOK /\ [LogNext]_logVars => line' \in [LogWriters -> LineRecord] /\ undue' \in BOOLEAN
<1> SUFFICES ASSUME LogTypeOK, [LogNext]_logVars
             PROVE  line' \in [LogWriters -> LineRecord] /\ undue' \in BOOLEAN
  OBVIOUS
<1>1. line \in [LogWriters -> LineRecord] /\ undue \in BOOLEAN
  BY DEF LogTypeOK, LineRecord
<1>2. NoLine \in LineRecord
  BY LogBounds DEF NoLine, Nil, LineRecord
<1>3. ASSUME NEW w \in LogWriters, WriteLine(w)
      PROVE  line' \in [LogWriters -> LineRecord] /\ undue' \in BOOLEAN
  BY <1>1, <1>2, <1>3 DEF WriteLine, LineEnds
<1>4. ASSUME NEW w \in LogWriters, NEW l \in Logs, BeginLine(w, l)
      PROVE  line' \in [LogWriters -> LineRecord] /\ undue' \in BOOLEAN
  <2> DEFINE found == IF l \in HandledLogs THEN handler[l] ELSE handle[l]
  <2>1. [log |-> l, file |-> found, crossed |-> rotating] \in LineRecord
    BY FoundIsFile DEF LineRecord, LogTypeOK
  <2>2. CASE found = Nil
    BY <1>1, <1>4, <2>2, Zenon DEF BeginLine
  <2>3. CASE found # Nil
    <3>1. /\ line' = [line EXCEPT ![w] = [log |-> l, file |-> found, crossed |-> rotating]]
          /\ undue' = undue
      BY <1>4, <2>3, Zenon DEF BeginLine
    <3> HIDE DEF found
    <3> QED
      BY <1>1, <2>1, <3>1
  <2> QED
    BY <2>2, <2>3
<1>5. CASE RotateClose
  <2>1. \A w \in LogWriters : [line[w] EXCEPT !.crossed = TRUE] \in LineRecord
    BY <1>1 DEF LineRecord
  <2> QED
    BY <1>1, <1>2, <1>5, <2>1 DEF RotateClose
<1>6. CASE UNCHANGED <<line, undue>>
  BY <1>1, <1>6
<1> QED
  BY <1>3, <1>4, <1>5, <1>6 DEF LogNext, CloseLogs, Reopen, logVars

\* Every step leaves the files well typed.
LEMMA FileTyping ==
  LogTypeOK /\ [LogNext]_logVars =>
    /\ handle' \in [Logs -> 0..MaxRotations + 1]
    /\ handler' \in [HandledLogs -> 1..MaxRotations + 1]
    /\ openFDs' \subseteq Logs \X (1..MaxRotations + 1)
    /\ reopenFailed' \in BOOLEAN
<1> DEFINE Typed == /\ handle \in [Logs -> 0..MaxRotations + 1]
                    /\ handler \in [HandledLogs -> 1..MaxRotations + 1]
                    /\ openFDs \subseteq Logs \X (1..MaxRotations + 1)
                    /\ reopenFailed \in BOOLEAN
<1> SUFFICES ASSUME LogTypeOK, [LogNext]_logVars PROVE Typed'
  OBVIOUS
<1>1. Typed
  BY DEF LogTypeOK
<1>2. CASE UNCHANGED <<handle, handler, openFDs, reopenFailed>>
  BY <1>1, <1>2
<1>3. CASE RotateClose
  BY <1>1, <1>3, LogBounds DEF RotateClose, Nil
<1>4. CASE CloseLogs
  BY <1>1, <1>4 DEF CloseLogs
<1>5. ASSUME NEW n \in 0..Len(FileOrder), Reopen(n) PROVE Typed'
  <2> DEFINE opened == {FileOrder[i] : i \in 1..n}
  <2>1. opened \subseteq Logs
    BY OpenedAreLogs
  <2>2. rotations \in 1..MaxRotations + 1 /\ {rotations, Nil} \subseteq 0..MaxRotations + 1
    <3>1. rotations \in 1..MaxRotations + 1
      BY DEF LogTypeOK
    <3> QED
      BY <3>1, LogBounds DEF Nil
  <2>3. /\ handle' = [l \in Logs |-> IF l \in opened THEN rotations ELSE Nil]
        /\ openFDs' = opened \X {rotations}
        /\ reopenFailed' = (opened # Logs)
        /\ handler' = IF opened = Logs THEN [l \in HandledLogs |-> rotations] ELSE handler
    BY <1>5 DEF Reopen
  <2> HIDE DEF opened
  <2>4. handle' \in [Logs -> 0..MaxRotations + 1]
    BY <2>2, <2>3
  <2>5. openFDs' \subseteq Logs \X (1..MaxRotations + 1)
    BY <2>1, <2>2, <2>3
  <2>6. handler' \in [HandledLogs -> 1..MaxRotations + 1]
    BY <1>1, <2>2, <2>3
  <2> QED
    BY <2>3, <2>4, <2>5, <2>6
<1> QED
  BY <1>2, <1>3, <1>4, <1>5 DEF LogNext, WriteLine, BeginLine, logVars

\* Every reachable state is well typed (Logger).
LEMMA LogTyping == LogTypeOK /\ [LogNext]_logVars => LogTypeOK'
<1> SUFFICES ASSUME LogTypeOK, [LogNext]_logVars PROVE LogTypeOK'
  OBVIOUS
<1>1. rotating' \in BOOLEAN /\ logClosed' \in BOOLEAN
  BY DEF LogTypeOK, LogNext, WriteLine, BeginLine, RotateClose, Reopen, CloseLogs, logVars
<1>2. rotations' \in 1..MaxRotations + 1 /\ lines' \in 0..MaxLines
  <2>1. rotations \in 1..MaxRotations + 1 /\ lines \in 0..MaxLines
    BY DEF LogTypeOK
  <2>2. \/ UNCHANGED <<rotations, lines>>
        \/ rotations <= MaxRotations /\ rotations' = rotations + 1 /\ UNCHANGED lines
        \/ lines < MaxLines /\ lines' = lines + 1 /\ UNCHANGED rotations
    BY DEF LogNext, WriteLine, BeginLine, RotateClose, Reopen, CloseLogs, logVars
  <2> QED
    BY <2>1, <2>2, LogBounds
<1> QED
  BY <1>1, <1>2, LineTyping, FileTyping DEF LogTypeOK, LineRecord

\* The files that are open, and those that lines have picked up, stay of one rotation.
LEMMA FilesStayCurrent ==
  LogInv /\ [LogNext]_logVars => FilesCurrent' /\ LinesCurrent' /\ CrossedMeanwhile'
<1> SUFFICES ASSUME LogInv, [LogNext]_logVars
             PROVE  FilesCurrent' /\ LinesCurrent' /\ CrossedMeanwhile'
  OBVIOUS
<1> USE LogBounds
    DEF LogInv, LogTypeOK, Nil, NoLine, LogSound, FilesCurrent, LinesCurrent, CrossedMeanwhile,
        Logging
<1>1. ASSUME NEW w \in LogWriters, WriteLine(w)
      PROVE  FilesCurrent' /\ LinesCurrent' /\ CrossedMeanwhile'
  <2>1. \A v \in LogWriters : line'[v] = line[v] \/ line'[v].log = ""
    BY <1>1 DEF WriteLine, LineEnds
  <2>2. UNCHANGED <<handle, handler, openFDs, rotating, reopenFailed, logClosed, rotations>>
    BY <1>1 DEF WriteLine
  <2> QED
    BY <2>1, <2>2
<1>2. ASSUME NEW w \in LogWriters, NEW l \in Logs, BeginLine(w, l)
      PROVE  FilesCurrent' /\ LinesCurrent' /\ CrossedMeanwhile'
  <2> DEFINE found == IF l \in HandledLogs THEN handler[l] ELSE handle[l]
  <2>1. LogSound => found = rotations
    OBVIOUS
  <2> DEFINE new == [log |-> l, file |-> found, crossed |-> rotating]
  <2>2. UNCHANGED line \/ line' = [line EXCEPT ![w] = new]
    BY <1>2, Zenon DEF BeginLine
  <2>3. UNCHANGED <<handle, handler, openFDs, rotating, reopenFailed, logClosed, rotations>>
    BY <1>2 DEF BeginLine
  <2>4. new.file = found /\ (new.crossed <=> rotating)
    OBVIOUS
  <2> HIDE DEF found, new
  <2>5. \A v \in LogWriters : line'[v] \in {line[v], new}
    BY <2>2
  <2> QED
    BY <2>1, <2>3, <2>4, <2>5
<1>3. CASE RotateClose
  BY <1>3 DEF RotateClose
<1>4. CASE CloseLogs
  BY <1>4 DEF CloseLogs
<1>5. ASSUME NEW n \in 0..Len(FileOrder), Reopen(n)
      PROVE  FilesCurrent' /\ LinesCurrent' /\ CrossedMeanwhile'
  <2> DEFINE opened == {FileOrder[i] : i \in 1..n}
  <2>1. /\ handle' = [l \in Logs |-> IF l \in opened THEN rotations ELSE Nil]
        /\ openFDs' = opened \X {rotations}
        /\ reopenFailed' = (opened # Logs)
        /\ handler' = IF opened = Logs THEN [l \in HandledLogs |-> rotations] ELSE handler
        /\ rotating /\ rotating' = FALSE
        /\ UNCHANGED <<logClosed, line, undue, rotations, lines>>
    BY <1>5 DEF Reopen
  <2> HIDE DEF opened
  <2>2. FilesCurrent'
    BY <2>1
  <2>3. LinesCurrent' /\ CrossedMeanwhile'
    BY <2>1
  <2> QED
    BY <2>2, <2>3
<1>6. CASE UNCHANGED logVars
  BY <1>6 DEF logVars
<1> QED
  BY <1>1, <1>2, <1>3, <1>4, <1>5, <1>6 DEF LogNext

\* A line that nothing has crossed finds its file (WriteAccess, writeText).
LEMMA LinesStayKept == LogInv /\ [LogNext]_logVars => LinesKept'
<1> SUFFICES ASSUME LogInv, [LogNext]_logVars PROVE ~undue'
  BY DEF LinesKept
<1>0. ~undue /\ rotations # Nil
  <2>1. ~undue /\ rotations \in 1..MaxRotations + 1
    BY DEF LogInv, LinesKept, LogTypeOK
  <2> QED
    BY <2>1, LogBounds DEF Nil
<1>1. ASSUME NEW w \in LogWriters, WriteLine(w) PROVE ~undue'
  <2> DEFINE l == line[w].log
             to == IF l \in HandledLogs THEN line[w].file ELSE handle[l]
  <2>1. l \in Logs /\ ~rotating /\ Logging(w)
    <3>1. line[w].log \in Logs \cup {""}
      BY DEF LogInv, LogTypeOK
    <3> QED
      BY <1>1, <3>1 DEF WriteLine, Logging
  <2>2. undue' = (undue \/ ~((to # Nil /\ <<l, to>> \in openFDs) \/ line[w].crossed
                             \/ reopenFailed \/ logClosed))
    BY <1>1, Zenon DEF WriteLine, LineEnds
  <2>3. CASE LogSound /\ ~line[w].crossed
    <3>1. to = rotations
      BY <2>1, <2>3 DEF LogInv, LinesCurrent, FilesCurrent
    <3>2. <<l, rotations>> \in openFDs
      BY <2>1, <2>3 DEF LogInv, FilesCurrent
    <3> QED
      BY <1>0, <2>2, <3>1, <3>2
  <2>4. CASE ~LogSound \/ line[w].crossed
    BY <1>0, <2>1, <2>2, <2>4 DEF LogSound
  <2> QED
    BY <2>3, <2>4
<1>2. ASSUME NEW w \in LogWriters, NEW l \in Logs, BeginLine(w, l) PROVE ~undue'
  <2>1. \/ undue' = undue
        \/ /\ (IF l \in HandledLogs THEN handler[l] ELSE handle[l]) = Nil
           /\ undue' = (undue \/ ~(rotating \/ reopenFailed \/ logClosed))
    BY <1>2, Zenon DEF BeginLine
  <2>2. LogSound => (IF l \in HandledLogs THEN handler[l] ELSE handle[l]) = rotations
    BY DEF LogInv, FilesCurrent
  <2> QED
    BY <1>0, <2>1, <2>2 DEF LogSound
<1>3. CASE UNCHANGED undue
  BY <1>0, <1>3
<1> QED
  BY <1>1, <1>2, <1>3 DEF LogNext, RotateClose, CloseLogs, Reopen, logVars

\* The invariant holds in every reachable state.
LEMMA LoggerHolds == LogSpec => []LogInv
<1>1. LogInit => LogInv
  <2> SUFFICES ASSUME LogInit PROVE LogInv
    OBVIOUS
  <2>1. LogTypeOK
    <3>1. /\ handle \in [Logs -> 0..MaxRotations + 1]
          /\ handler \in [HandledLogs -> 1..MaxRotations + 1]
          /\ openFDs \subseteq Logs \X (1..MaxRotations + 1)
      BY LogBounds DEF LogInit
    <3>2. NoLine \in LineRecord
      BY LogBounds DEF NoLine, Nil, LineRecord
    <3>3. line \in [LogWriters -> LineRecord]
      BY <3>2 DEF LogInit
    <3>4. /\ rotating \in BOOLEAN /\ reopenFailed \in BOOLEAN /\ logClosed \in BOOLEAN
          /\ undue \in BOOLEAN
      BY DEF LogInit
    <3>5. rotations \in 1..MaxRotations + 1 /\ lines \in 0..MaxLines
      <4>1. rotations = 1 /\ lines = 0
        BY DEF LogInit
      <4> QED
        BY <4>1, LogBounds
    <3> QED
      BY <3>1, <3>3, <3>4, <3>5 DEF LogTypeOK, LineRecord
  <2>2. FilesCurrent /\ LinesCurrent /\ CrossedMeanwhile /\ LinesKept
    BY HandledAreLogs DEF LogInit, LogSound, FilesCurrent, LinesCurrent, CrossedMeanwhile,
       LinesKept, Logging, NoLine
  <2> QED
    BY <2>1, <2>2 DEF LogInv
<1>2. LogInv /\ [LogNext]_logVars => LogInv'
  BY LogTyping, FilesStayCurrent, LinesStayKept DEF LogInv
<1> QED
  BY <1>1, <1>2, PTL DEF LogSpec

\* No line is lost but those a rotation crosses, those that come after a reopening that
\* failed, until one succeeds, and those that come after Close (Rotate, openFiles,
\* writeText), whatever the files, their order and the goroutines that write them.
THEOREM NoLineLost == LogSpec => []LinesKept
<1>1. LogInv => LinesKept
  BY DEF LogInv
<1> QED
  BY <1>1, LoggerHolds, PTL

-----------------------------------------------------------------------------
(***************************************************************************)
(* ConfigReload, for any number of edits, reloads and commands.            *)
(***************************************************************************)

\* What server.yml and the running server may hold, and what load[p] may be.
Settings == [hot : Nat, cold : Nat, web : Nat, secret : Nat]
Wheres == {"idle", "read", "change", "truncate", "write", "retruncate", "rewrite",
           "compare", "apply", "flag"}
LoadRecord == [at : Wheres, cfg : Settings, old : Settings]

CfgShape ==
  /\ file \in Settings /\ live \in Settings /\ load \in [Loaders -> LoadRecord]
  /\ edits \in Nat /\ commands \in Nat /\ secrets \in Nat

\* No write has been met half-way, and the file has not been reset.
Untouched == ~damaged /\ ~wiped

\* Then whoever has read the file has the first secret,
\* and the file and the server have it too.
SecretsFirst ==
  Untouched =>
    /\ \A p \in Loaders : load[p].at \notin {"idle", "read"} => load[p].cfg.secret = 1
    /\ (\A p \in Loaders : ~Writing(p)) => file.secret = 1
    /\ live.secret = 1

CfgInv == CfgShape /\ SecretsFirst /\ live.cold = 0
-----------------------------------------------------------------------------
\* Where a load goes on, what it carries, and what it leaves alone.
LEMMA LoadMoves ==
  ASSUME CfgShape, NEW p \in Loaders, NEW q \in LoadRecord, load' = [load EXCEPT ![p] = q]
  PROVE  /\ load' \in [Loaders -> LoadRecord] /\ load'[p] = q
         /\ \A r \in Loaders : r # p => load'[r] = load[r]
BY DEF CfgShape

\* A step of one load keeps the invariant if what it carries and what it writes does.
StaysFirst(q) ==
  Untouched' =>
    /\ Untouched /\ live'.secret = 1
    /\ q.at \notin {"idle", "read"} => q.cfg.secret = 1
    /\ (\A r \in Loaders : ~Writing(r)') => file'.secret = 1

LEMMA LoadGoesOn ==
  ASSUME CfgInv, NEW p \in Loaders, NEW q \in LoadRecord, load' = [load EXCEPT ![p] = q],
         file' \in Settings, live' \in Settings, live'.cold = 0,
         edits' \in Nat, commands' \in Nat, secrets' \in Nat, StaysFirst(q)
  PROVE  CfgInv'
<1>1. /\ load' \in [Loaders -> LoadRecord] /\ load'[p] = q
      /\ \A r \in Loaders : r # p => load'[r] = load[r]
  BY LoadMoves DEF CfgInv
<1>2. CfgShape'
  BY <1>1 DEF CfgShape
<1>3. SecretsFirst'
  BY <1>1 DEF CfgInv, SecretsFirst, StaysFirst
<1> QED
  BY <1>2, <1>3 DEF CfgInv

\* Who writes is who was writing, but for the load that takes the step.
LEMMA WhoWrites ==
  ASSUME CfgInv, NEW p \in Loaders, NEW q \in LoadRecord, load' = [load EXCEPT ![p] = q]
  PROVE  /\ Writing(p)' <=> q.at \in {"write", "rewrite"}
         /\ \A r \in Loaders : r # p => (Writing(r)' <=> Writing(r))
<1>1. load'[p] = q /\ \A r \in Loaders : r # p => load'[r] = load[r]
  BY LoadMoves DEF CfgInv
<1> QED
  BY <1>1 DEF Writing

\* A load that was reading, and starts again.
LEMMA StartsReading ==
  ASSUME CfgInv, NEW p \in Loaders, Move(p, "read"), ~Busy(p), commands' \in Nat,
         UNCHANGED <<file, live, damaged, wiped, edits, secrets>>
  PROVE  CfgInv'
<1> DEFINE q == [load[p] EXCEPT !.at = "read"]
<1>1. CfgShape /\ SecretsFirst /\ live.cold = 0
  BY DEF CfgInv
<1>2. load[p] \in LoadRecord
  BY <1>1 DEF CfgShape
<1>3. q \in LoadRecord /\ q.at = "read"
  BY <1>2 DEF LoadRecord, Wheres
<1>4. load' = [load EXCEPT ![p] = q]
  BY DEF Move
<1> HIDE DEF q
<1>5. \A r \in Loaders : Writing(r)' <=> Writing(r)
  BY <1>3, <1>4, WhoWrites DEF Writing, Busy
<1>6. file' \in Settings /\ live' \in Settings /\ edits' \in Nat /\ secrets' \in Nat
  BY <1>1 DEF CfgShape
<1>7. Untouched' => /\ Untouched /\ live'.secret = 1
                    /\ (\A r \in Loaders : ~Writing(r)') => file'.secret = 1
  BY <1>1, <1>5 DEF SecretsFirst, Untouched
<1>9. StaysFirst(q)
  BY <1>3, <1>7 DEF StaysFirst
<1> QED
  BY <1>1, <1>3, <1>4, <1>6, <1>7, <1>9, LoadGoesOn

LEMMA EditKeeps ==
  ASSUME CfgInv, EditFile PROVE CfgInv'
<1> USE ConfigReloadAssumption
<1>0. CfgShape /\ SecretsFirst /\ live.cold = 0
  BY DEF CfgInv
<1>1. /\ UNCHANGED <<live, load, commands, secrets>> /\ edits' = edits + 1
      /\ Untouched' => Untouched /\ \A p \in Loaders : ~Saving(p)
  BY DEF EditFile, Untouched
<1>2. file' \in Settings /\ file'.secret = file.secret
  BY <1>0 DEF EditFile, CfgShape, Settings
<1>3. Untouched' => \A p \in Loaders : ~Writing(p)
  BY <1>1 DEF Saving
<1> QED
  BY <1>0, <1>1, <1>2, <1>3 DEF CfgInv, CfgShape, SecretsFirst, Writing

\* A command reads the file, or sets it up anew.
LEMMA CommandKeeps ==
  ASSUME CfgInv, Command PROVE CfgInv'
<1>0. CfgShape /\ SecretsFirst /\ live.cold = 0
  BY DEF CfgInv
<1>1. /\ ~Busy("command") /\ "command" \in Loaders /\ commands' = commands + 1
      /\ UNCHANGED <<file, live, edits, secrets>>
  BY DEF Command, Loaders
<1>2. commands' \in Nat
  BY <1>0, <1>1 DEF CfgShape
<1>3. CASE Move("command", "read") /\ UNCHANGED <<damaged, wiped>>
  BY <1>1, <1>2, <1>3, StartsReading
<1>4. CASE /\ load' = [load EXCEPT !["command"] = [at |-> "truncate", cfg |-> Empty, old |-> Empty]]
           /\ wiped' = TRUE
  <2> DEFINE q == [at |-> "truncate", cfg |-> Empty, old |-> Empty]
  <2>1. q \in LoadRecord
    <3>1. Empty \in Settings /\ "truncate" \in Wheres
      BY DEF Empty, Settings, Wheres
    <3> QED
      BY <3>1 DEF LoadRecord
  <2>2. file' \in Settings /\ live' \in Settings /\ edits' \in Nat /\ secrets' \in Nat
    BY <1>0, <1>1 DEF CfgShape
  <2>3. load' = [load EXCEPT !["command"] = q] /\ live'.cold = 0
    BY <1>0, <1>1, <1>4
  <2>4. ~Untouched'
    BY <1>4 DEF Untouched
  <2> HIDE DEF q
  <2>9. StaysFirst(q)
    BY <2>4 DEF StaysFirst
  <2> QED
    BY <1>1, <1>2, <2>1, <2>2, <2>3, <2>4, <2>9, LoadGoesOn
<1> QED
  BY <1>3, <1>4 DEF Command

\* LoadServerConfig: with nobody writing, the file has the first secret.
LEMMA ReadKeeps ==
  ASSUME CfgInv, NEW p \in Loaders, ReadFile(p) PROVE CfgInv'
<1>0. CfgShape /\ SecretsFirst /\ live.cold = 0
  BY DEF CfgInv
<1>1. /\ load[p].at = "read" /\ UNCHANGED <<file, live, edits, commands>>
      /\ Untouched' => Untouched /\ \A r \in Loaders : ~Writing(r)
  BY DEF ReadFile, Untouched
<1>2. load[p] \in LoadRecord /\ file \in Settings /\ secrets \in Nat
  BY <1>0 DEF CfgShape
<1>3. PICK c \in Settings, w \in Wheres :
        /\ load' = [load EXCEPT ![p] = [load[p] EXCEPT !.cfg = c, !.at = w]]
        /\ secrets' \in Nat /\ w \notin {"write", "rewrite"}
        /\ file.secret # 0 => c = file
  <2>1. CASE file.secret = 0
    <3> DEFINE c == [file EXCEPT !.secret = secrets']
    <3>1. secrets' = secrets + 1
          /\ load' = [load EXCEPT ![p].cfg = c, ![p].at = "retruncate"]
      BY <2>1 DEF ReadFile
    <3>2. c \in Settings
      BY <1>2, <3>1 DEF Settings
    <3> HIDE DEF c
    <3>3. load' = [load EXCEPT ![p] = [load[p] EXCEPT !.cfg = c, !.at = "retruncate"]]
      BY <1>0, <3>1 DEF CfgShape
    <3> QED
      <4>1. "retruncate" \in Wheres /\ "retruncate" \notin {"write", "rewrite"}
        BY DEF Wheres
      <4>2. secrets' \in Nat
        BY <1>2, <3>1
      <4> QED
        BY <2>1, <3>2, <3>3, <4>1, <4>2
  <2>2. CASE file.secret # 0
    <3> DEFINE w == IF p = "command" THEN "change" ELSE "compare"
    <3>1. UNCHANGED secrets /\ load' = [load EXCEPT ![p].cfg = file, ![p].at = w]
      BY <2>2 DEF ReadFile
    <3>2. w \in Wheres /\ w \notin {"write", "rewrite"}
      BY DEF Wheres
    <3> HIDE DEF w
    <3>3. load' = [load EXCEPT ![p] = [load[p] EXCEPT !.cfg = file, !.at = w]]
      BY <1>0, <3>1 DEF CfgShape
    <3> QED
      BY <1>2, <2>2, <3>1, <3>2, <3>3
  <2> QED
    BY <2>1, <2>2
<1> DEFINE q == [load[p] EXCEPT !.cfg = c, !.at = w]
<1>4. q \in LoadRecord /\ q.at = w /\ q.cfg = c
  BY <1>2 DEF LoadRecord
<1>5. load' = [load EXCEPT ![p] = q]
  BY <1>3
<1> HIDE DEF q
<1>6. Untouched' => /\ Untouched /\ live'.secret = 1 /\ file'.secret = 1 /\ q.cfg.secret = 1
  BY <1>0, <1>1, <1>3, <1>4 DEF SecretsFirst, Untouched
<1>7. /\ file' \in Settings /\ live' \in Settings /\ live'.cold = 0
      /\ edits' \in Nat /\ commands' \in Nat
  BY <1>0, <1>1 DEF CfgShape
<1>9. StaysFirst(q)
  BY <1>6 DEF StaysFirst
<1> QED
  BY <1>3, <1>4, <1>5, <1>6, <1>7, <1>9, LoadGoesOn

\* A load that fails is over, with nothing changed.
LEMMA FailedKeeps ==
  ASSUME CfgInv, NEW p \in Loaders, ReadFails(p) PROVE CfgInv'
<1>0. CfgShape /\ SecretsFirst /\ live.cold = 0
  BY DEF CfgInv
<1>1. /\ load[p].at = "read" /\ load' = [load EXCEPT ![p] = Idle]
      /\ UNCHANGED <<file, live, damaged, wiped, edits, commands, secrets>>
  BY DEF ReadFails, Done
<1>2. Idle \in LoadRecord /\ Idle.at = "idle"
  <2>1. Empty \in Settings /\ "idle" \in Wheres
    BY DEF Empty, Settings, Wheres
  <2> QED
    BY <2>1 DEF Idle, LoadRecord
<1>3. \A r \in Loaders : Writing(r)' <=> Writing(r)
  BY <1>1, <1>2, WhoWrites DEF Writing
<1>4. /\ file' \in Settings /\ live' \in Settings /\ live'.cold = 0
      /\ edits' \in Nat /\ commands' \in Nat /\ secrets' \in Nat
  BY <1>0, <1>1 DEF CfgShape
<1>5. Untouched' => /\ Untouched /\ live'.secret = 1
                    /\ (\A r \in Loaders : ~Writing(r)') => file'.secret = 1
  BY <1>0, <1>1, <1>3 DEF SecretsFirst, Untouched
<1>9. StaysFirst(Idle)
  BY <1>2, <1>5 DEF StaysFirst
<1> QED
  BY <1>1, <1>2, <1>4, <1>5, <1>9, LoadGoesOn

\* The command changes a setting of what it has read.
LEMMA ChangeKeeps ==
  ASSUME CfgInv, ChangeMode PROVE CfgInv'
<1>0. CfgShape /\ SecretsFirst /\ live.cold = 0
  BY DEF CfgInv
<1>1. /\ load["command"].at = "change" /\ "command" \in Loaders
      /\ UNCHANGED <<file, live, damaged, wiped, edits, commands, secrets>>
  BY DEF ChangeMode, Loaders
<1> DEFINE l == load["command"]
           c == [l.cfg EXCEPT !.hot = commands]
           q == [l EXCEPT !.cfg = c, !.at = "truncate"]
<1>2. l \in LoadRecord /\ l.cfg \in Settings /\ commands \in Nat
  BY <1>0, <1>1 DEF CfgShape, LoadRecord
<1>3. c \in Settings /\ c.secret = l.cfg.secret
  BY <1>2 DEF Settings
<1>4. load' = [load EXCEPT !["command"] = q]
  BY <1>0, <1>2 DEF ChangeMode, CfgShape, LoadRecord, Settings
<1> HIDE DEF c
<1>5. q \in LoadRecord /\ q.at = "truncate" /\ q.cfg.secret = l.cfg.secret
  BY <1>2, <1>3 DEF LoadRecord, Wheres
<1> HIDE DEF q, l
<1>6. \A r \in Loaders : Writing(r)' <=> Writing(r)
  BY <1>1, <1>4, <1>5, WhoWrites DEF Writing
<1>7. Untouched' => /\ Untouched /\ live'.secret = 1 /\ l.cfg.secret = 1
                    /\ (\A r \in Loaders : ~Writing(r)') => file'.secret = 1
  BY <1>0, <1>1, <1>6 DEF SecretsFirst, Untouched, l
<1>8. /\ file' \in Settings /\ live' \in Settings /\ live'.cold = 0
      /\ edits' \in Nat /\ commands' \in Nat /\ secrets' \in Nat
  BY <1>0, <1>1 DEF CfgShape
<1>9. StaysFirst(q)
  BY <1>5, <1>7 DEF StaysFirst
<1> QED
  BY <1>1, <1>4, <1>5, <1>7, <1>8, <1>9, LoadGoesOn

\* A step that moves one load to another place, and the file and the server's secret
\* are as they were or are its own.
LEMMA MoveKeeps ==
  ASSUME CfgInv, NEW p \in Loaders, NEW w \in Wheres, Move(p, w),
         load[p].at \notin {"idle", "read"},
         UNCHANGED <<edits, commands, secrets>>,
         file' \in Settings, live' \in Settings, live'.cold = 0,
         Untouched' => /\ Untouched
                       /\ live'.secret \in {live.secret, load[p].cfg.secret}
                       /\ \/ w \in {"write", "rewrite"}
                          \/ file'.secret = load[p].cfg.secret
                          \/ ~Writing(p) /\ UNCHANGED file
  PROVE  CfgInv'
<1> DEFINE q == [load[p] EXCEPT !.at = w]
<1>0. CfgShape /\ SecretsFirst /\ live.cold = 0
  BY DEF CfgInv
<1>1. load[p] \in LoadRecord
  BY <1>0 DEF CfgShape
<1>2. q \in LoadRecord /\ q.at = w /\ q.cfg = load[p].cfg
  BY <1>1 DEF LoadRecord
<1>3. load' = [load EXCEPT ![p] = q]
  BY DEF Move
<1> HIDE DEF q
<1>4. /\ Writing(p)' <=> w \in {"write", "rewrite"}
      /\ \A r \in Loaders : r # p => (Writing(r)' <=> Writing(r))
  BY <1>2, <1>3, WhoWrites
<1>5. edits' \in Nat /\ commands' \in Nat /\ secrets' \in Nat
  BY <1>0 DEF CfgShape
<1>6. Untouched' => /\ Untouched /\ live'.secret = 1 /\ q.cfg.secret = 1
                    /\ (\A r \in Loaders : ~Writing(r)') => file'.secret = 1
  BY <1>0, <1>2, <1>4 DEF SecretsFirst, Untouched
<1>9. StaysFirst(q)
  BY <1>6 DEF StaysFirst
<1> QED
  BY <1>2, <1>3, <1>5, <1>6, <1>9, LoadGoesOn

\* A load that is over, with the file as it was or its own.
LEMMA DoneKeeps ==
  ASSUME CfgInv, NEW p \in Loaders, Done(p), load[p].at \notin {"idle", "read"},
         UNCHANGED <<live, edits, commands, secrets>>, file' \in Settings,
         Untouched' => /\ Untouched
                       /\ \/ file'.secret = load[p].cfg.secret
                          \/ ~Writing(p) /\ UNCHANGED file
  PROVE  CfgInv'
<1>0. CfgShape /\ SecretsFirst /\ live.cold = 0
  BY DEF CfgInv
<1>1. Idle \in LoadRecord /\ Idle.at = "idle"
  <2>1. Empty \in Settings /\ "idle" \in Wheres
    BY DEF Empty, Settings, Wheres
  <2> QED
    BY <2>1 DEF Idle, LoadRecord
<1>2. load' = [load EXCEPT ![p] = Idle]
  BY DEF Done
<1>3. /\ ~Writing(p)'
      /\ \A r \in Loaders : r # p => (Writing(r)' <=> Writing(r))
  BY <1>1, <1>2, WhoWrites
<1>4. /\ live' \in Settings /\ live'.cold = 0
      /\ edits' \in Nat /\ commands' \in Nat /\ secrets' \in Nat
  BY <1>0 DEF CfgShape
<1>5. Untouched' => /\ Untouched /\ live'.secret = 1
                    /\ (\A r \in Loaders : ~Writing(r)') => file'.secret = 1
  BY <1>0, <1>3 DEF SecretsFirst, Untouched
<1>9. StaysFirst(Idle)
  BY <1>1, <1>5 DEF StaysFirst
<1> QED
  BY <1>1, <1>2, <1>4, <1>5, <1>9, LoadGoesOn

\* A save: truncated, then written.
LEMMA SaveKeeps ==
  ASSUME CfgInv, NEW p \in Loaders, SaveTruncate(p) \/ SaveWrite(p) PROVE CfgInv'
<1>0. CfgShape /\ SecretsFirst /\ live.cold = 0 /\ Empty \in Settings
  BY DEF CfgInv, Empty, Settings
<1>1. load[p].cfg \in Settings /\ live \in Settings
  BY <1>0 DEF CfgShape, LoadRecord
<1>2. CASE SaveTruncate(p)
  <2> DEFINE w == IF load[p].at = "truncate" THEN "write" ELSE "rewrite"
  <2>1. /\ Move(p, w) /\ load[p].at \notin {"idle", "read"} /\ file' = Empty
        /\ UNCHANGED <<live, edits, commands, secrets>>
        /\ Untouched' => Untouched
    BY <1>2 DEF SaveTruncate, Untouched
  <2>2. w \in Wheres /\ w \in {"write", "rewrite"}
    BY DEF Wheres
  <2> HIDE DEF w
  <2> QED
    BY <1>0, <1>1, <2>1, <2>2, MoveKeeps DEF Untouched
<1>3. CASE SaveWrite(p)
  <2> DEFINE w == IF p = "command" THEN "change" ELSE "compare"
  <2>1. /\ Done(p) \/ Move(p, w)
        /\ load[p].at \notin {"idle", "read"} /\ file' = load[p].cfg
        /\ UNCHANGED <<live, damaged, wiped, edits, commands, secrets>>
    BY <1>3 DEF SaveWrite, Writing
  <2>2. w \in Wheres
    BY DEF Wheres
  <2> HIDE DEF w
  <2>3. CASE Done(p)
    BY <1>0, <1>1, <2>1, <2>3, DoneKeeps DEF Untouched
  <2>4. CASE Move(p, w)
    BY <1>0, <1>1, <2>1, <2>2, <2>4, MoveKeeps DEF Untouched
  <2> QED
    BY <2>1, <2>3, <2>4
<1> QED
  BY <1>2, <1>3

\* A load is compared with the running configuration and applied.
LEMMA ApplyKeeps ==
  ASSUME CfgInv, NEW p \in Loaders, ApplyStep(p) PROVE CfgInv'
<1>0. CfgShape /\ SecretsFirst /\ live.cold = 0
  BY DEF CfgInv
<1>1. load[p] \in LoadRecord /\ load[p].cfg \in Settings /\ live \in Settings
      /\ file \in Settings
  BY <1>0 DEF CfgShape, LoadRecord
<1>2. CASE Snapshot(p)
  <2> DEFINE q == [load[p] EXCEPT !.old = live, !.at = "apply"]
  <2>1. /\ load[p].at = "compare"
        /\ UNCHANGED <<file, live, damaged, wiped, edits, commands, secrets>>
    BY <1>2 DEF Snapshot
  <2>2. load' = [load EXCEPT ![p] = q]
    BY <1>0, <1>1, <1>2 DEF Snapshot, CfgShape, LoadRecord
  <2>3. q \in LoadRecord /\ q.at = "apply" /\ q.cfg = load[p].cfg
    BY <1>1 DEF LoadRecord, Wheres
  <2> HIDE DEF q
  <2>4. \A r \in Loaders : Writing(r)' <=> Writing(r)
    BY <2>1, <2>2, <2>3, WhoWrites DEF Writing
  <2>5. Untouched' => /\ Untouched /\ live'.secret = 1 /\ q.cfg.secret = 1
                      /\ (\A r \in Loaders : ~Writing(r)') => file'.secret = 1
    BY <1>0, <2>1, <2>3, <2>4 DEF SecretsFirst, Untouched
  <2>6. edits' \in Nat /\ commands' \in Nat /\ secrets' \in Nat
    BY <1>0, <2>1 DEF CfgShape
  <2>9. StaysFirst(q)
    BY <2>5 DEF StaysFirst
  <2> QED
    BY <1>0, <1>1, <2>1, <2>2, <2>3, <2>5, <2>6, <2>9, LoadGoesOn
<1>3. CASE Apply(p)
  <2>1. /\ load[p].at = "apply" /\ Move(p, "flag")
        /\ UNCHANGED <<file, damaged, wiped, edits, commands, secrets>>
        /\ live' = live \/ live' = [load[p].cfg EXCEPT !.cold = live.cold]
    BY <1>3 DEF Apply
  <2>2. /\ live' \in Settings /\ live'.cold = 0
        /\ live'.secret \in {live.secret, load[p].cfg.secret}
    BY <1>0, <1>1, <2>1 DEF Settings
  <2>3. "flag" \in Wheres /\ ~Writing(p)
    BY <2>1 DEF Wheres, Writing
  <2> QED
    BY <1>1, <2>1, <2>2, <2>3, MoveKeeps DEF Untouched
<1>4. CASE Flag(p)
  <2>1. /\ load[p].at = "flag" /\ Done(p)
        /\ UNCHANGED <<file, live, damaged, wiped, edits, commands, secrets>>
    BY <1>4 DEF Flag
  <2>2. ~Writing(p)
    BY <2>1 DEF Writing
  <2> QED
    BY <1>1, <2>1, <2>2, DoneKeeps DEF Untouched
<1> QED
  BY <1>2, <1>3, <1>4 DEF ApplyStep

LEMMA CfgStarts ==
  ASSUME CfgInit
  PROVE  CfgInv
<1>1. Empty \in Settings /\ "idle" \in Wheres
  BY DEF Empty, Settings, Wheres
<1>2. Idle \in LoadRecord /\ Idle.at = "idle"
  BY <1>1 DEF Idle, LoadRecord
<1>3. file \in Settings /\ live \in Settings /\ live.cold = 0
      /\ file.secret = 1 /\ live.secret = 1
  BY DEF CfgInit, Settings
<1>4. edits \in Nat /\ commands \in Nat /\ secrets \in Nat
  BY DEF CfgInit
<1> QED
  BY <1>2, <1>3, <1>4 DEF CfgInit, CfgInv, CfgShape, SecretsFirst

LEMMA CfgStep ==
  ASSUME CfgInv, [CfgNext]_cfgVars
  PROVE  CfgInv'
<1>1. CASE EditFile
  BY <1>1, EditKeeps
<1>2. CASE StartWatch
  BY <1>2 DEF StartWatch, CfgInv, CfgShape, SecretsFirst, Writing, Untouched
<1>3. CASE Poll
  <2>1. "poller" \in Loaders /\ commands' \in Nat
    BY <1>3 DEF Poll, Loaders, CfgInv, CfgShape
  <2> QED
    BY <1>3, <2>1, StartsReading DEF Poll
<1>4. CASE Hangup
  <2>1. "sighup" \in Loaders /\ commands' \in Nat
    BY <1>4 DEF Hangup, Loaders, CfgInv, CfgShape
  <2> QED
    BY <1>4, <2>1, StartsReading DEF Hangup
<1>5. CASE Command
  BY <1>5, CommandKeeps
<1>6. CASE ChangeMode
  BY <1>6, ChangeKeeps
<1>7. ASSUME NEW p \in Loaders, LoadStep(p) \/ ApplyStep(p) PROVE CfgInv'
  BY <1>7, FailedKeeps, ReadKeeps, SaveKeeps, ApplyKeeps DEF LoadStep
<1>8. CASE UNCHANGED cfgVars
  BY <1>8 DEF cfgVars, CfgInv, CfgShape, SecretsFirst, Writing, Untouched
<1> QED
  BY <1>1, <1>2, <1>3, <1>4, <1>5, <1>6, <1>7, <1>8 DEF CfgNext

-----------------------------------------------------------------------------
(***************************************************************************)
(* A reload never changes what needs a restart, and the installation       *)
(* secret stays the first one while no write is met half-way and nobody    *)
(* resets the file (applyHotReloadSettings, LoadServerConfig, Save).       *)
(***************************************************************************)
THEOREM SecretSurvives == CfgSpec => []IdentityKept
<1>1. CfgInv => IdentityKept
  BY DEF CfgInv, SecretsFirst, IdentityKept, Untouched
<1> QED
  BY <1>1, CfgStarts, CfgStep, PTL DEF CfgSpec


(***************************************************************************)
(* The loads of ConfigReload, for any number of edits, reloads and         *)
(* commands.                                                               *)
(***************************************************************************)

\* The server's loads, and what a load that has settled leaves.
ServerLoads == {"poller", "sighup"}

Agrees == Hot(live) = Hot(file) /\ (live.cold # file.cold => pending)

\* A load of the server has the file, unless it has changed since; has compared it with
\* the running configuration; and has taken over what needs no restart.
LoadInStep(p) ==
  /\ load[p].at = "rewrite" => ~noticed
  /\ load[p].at \in {"compare", "apply", "flag"} /\ noticed => load[p].cfg = file
  /\ load[p].at = "apply" => load[p].old = live
  /\ load[p].at = "flag" => Hot(live) = Hot(load[p].cfg) /\ load[p].old.cold = live.cold

\* Who is where, whatever overlaps.
LoadPlaces ==
  /\ \A p \in ServerLoads :
       /\ load[p].at \notin {"change", "truncate", "write"}
       /\ ~watching => load[p].at = "idle"
  /\ load["command"].at \notin {"compare", "apply", "flag"}

Settling ==
  ~stale =>
    /\ load["poller"].at = "idle" \/ load["sighup"].at = "idle"
    /\ \A p \in ServerLoads : LoadInStep(p)
    /\ ~watching => file = live \/ Writing("command")
    /\ /\ watching /\ noticed /\ ~refused
       /\ load["poller"].at = "idle" /\ load["sighup"].at \in {"idle", "read"}
       /\ ~Writing("command")
       => Agrees

SettleInv == CfgShape /\ LoadPlaces /\ Settling
-----------------------------------------------------------------------------
\* The place of a load changes, and nothing it carries.
LEMMA MovesOn ==
  ASSUME CfgShape, NEW p \in Loaders, NEW w, Move(p, w)
  PROVE  /\ load'[p].at = w /\ load'[p].cfg = load[p].cfg /\ load'[p].old = load[p].old
         /\ \A r \in Loaders : r # p => load'[r] = load[r]
<1>1. load[p] \in LoadRecord
  BY DEF CfgShape
<1> DEFINE q == [load[p] EXCEPT !.at = w]
<1>2. q.at = w /\ q.cfg = load[p].cfg /\ q.old = load[p].old
  BY <1>1 DEF LoadRecord
<1>3. load' = [load EXCEPT ![p] = q]
  BY DEF Move
<1> HIDE DEF q
<1>4. load'[p] = q /\ \A r \in Loaders : r # p => load'[r] = load[r]
  BY <1>3 DEF CfgShape
<1> QED
  BY <1>2, <1>4

LEMMA TheLoaders ==
  /\ Loaders = ServerLoads \cup {"command"} /\ "command" \notin ServerLoads
  /\ "poller" \in ServerLoads /\ "sighup" \in ServerLoads
BY DEF Loaders, ServerLoads

\* The file changes: nothing that was read is taken for it any more.
LEMMA FileChanges ==
  ASSUME SettleInv, ~noticed', UNCHANGED <<live, watching, pending>>,
         LoadPlaces', stale' \/ ~stale,
         stale' \/ watching \/ Writing("command")',
         \A p \in ServerLoads :
            \/ load'[p] = load[p]
            \/ load'[p].at \in {"idle", "rewrite", "compare"},
         \A p \in ServerLoads : load'[p].at = "idle" \/ load[p].at # "idle"
  PROVE  Settling'
<1> SUFFICES ASSUME ~stale' PROVE Settling'
  BY DEF Settling
<1>2. ~stale
  OBVIOUS
<1>3. \A p \in ServerLoads : LoadInStep(p)'
  <2> TAKE p \in ServerLoads
  <2>1. LoadInStep(p)
    BY <1>2 DEF SettleInv, Settling
  <2>2. CASE load'[p] = load[p]
    BY <2>1, <2>2 DEF LoadInStep, Hot
  <2>3. CASE load'[p].at \in {"idle", "rewrite", "compare"}
    BY <2>3 DEF LoadInStep
  <2> QED
    BY <2>2, <2>3
<1>4. load'["poller"].at = "idle" \/ load'["sighup"].at = "idle"
  BY <1>2, TheLoaders DEF SettleInv, Settling
<1> QED
  BY <1>3, <1>4 DEF Settling

\* The file stays, and the command goes from one place to another without writing.
LEMMA CommandReads ==
  ASSUME SettleInv, UNCHANGED <<file, live, watching, noticed, pending, stale>>,
         refused' \/ ~refused,
         \A p \in ServerLoads : load'[p] = load[p], ~Writing("command"),
         load'["command"].at \notin {"compare", "apply", "flag"}
  PROVE  LoadPlaces' /\ Settling'
<1>1. LoadPlaces'
  BY DEF SettleInv, LoadPlaces
<1>2. \A p \in ServerLoads : LoadInStep(p) => LoadInStep(p)'
  BY DEF LoadInStep, Hot
<1>3. Agrees => Agrees'
  BY DEF Agrees, Hot
<1> QED
  BY <1>1, <1>2, <1>3, TheLoaders DEF SettleInv, Settling

\* One load of the server goes on.
LEMMA ServerLoadGoesOn ==
  ASSUME SettleInv, NEW p \in ServerLoads,
         \A r \in Loaders : r # p => load'[r] = load[r],
         load'[p].at \notin {"change", "truncate", "write"},
         UNCHANGED <<file, watching, noticed, stale>>,
         load[p].at # "idle", load'[p].at # "read",
         ~stale => LoadInStep(p)',
         ~stale /\ load'[p].at = "idle" /\ noticed /\ ~refused' /\ ~Writing("command") => Agrees',
         ~stale /\ (\A r \in ServerLoads : r # p => load[r].at = "idle") => 
            \A r \in ServerLoads : r # p => LoadInStep(r)'
  PROVE  LoadPlaces' /\ Settling'
<1>1. watching /\ watching' /\ Writing("command")' = Writing("command")
  BY TheLoaders DEF SettleInv, LoadPlaces, Writing
<1>2. LoadPlaces'
  BY <1>1, TheLoaders DEF SettleInv, LoadPlaces
<1>3. ASSUME ~stale PROVE \A r \in ServerLoads : r # p => load[r].at = "idle" /\ load'[r].at = "idle"
  BY <1>3, TheLoaders DEF SettleInv, Settling, ServerLoads
<1>4. CASE ~stale
  <2>1. \A r \in ServerLoads : LoadInStep(r)'
    BY <1>3, <1>4
  <2>2. load'["poller"].at = "idle" \/ load'["sighup"].at = "idle"
    BY <1>3, <1>4 DEF ServerLoads
  <2>3. /\ noticed' /\ ~refused' /\ ~Writing("command")'
        /\ load'["poller"].at = "idle" /\ load'["sighup"].at \in {"idle", "read"}
        => Agrees'
    BY <1>1, <1>3, <1>4 DEF ServerLoads
  <2> QED
    BY <1>1, <1>2, <2>1, <2>2, <2>3 DEF Settling
<1> QED
  BY <1>2, <1>4 DEF Settling

\* A load of the server begins.
LEMMA LoadBegins ==
  ASSUME SettleInv, NEW p \in ServerLoads, watching, ~Busy(p), Move(p, "read"),
         UNCHANGED <<file, live, watching, pending, refused>>,
         p = "sighup" => UNCHANGED noticed,
         stale' = (stale \/ \E r \in ServerLoads : r # p /\ Busy(r))
  PROVE  LoadPlaces' /\ Settling'
<1>1. p \in Loaders /\ CfgShape
  BY TheLoaders DEF SettleInv
<1>2. load'[p].at = "read" /\ \A r \in Loaders : r # p => load'[r] = load[r]
  BY <1>1, MovesOn
<1>3. LoadPlaces'
  BY <1>2, TheLoaders DEF SettleInv, LoadPlaces
<1> SUFFICES ASSUME ~stale' PROVE Settling'
  BY <1>3 DEF Settling
<1>4. ~stale /\ \A r \in ServerLoads : r # p => load[r].at = "idle" /\ load'[r].at = "idle"
  BY <1>2, TheLoaders DEF Busy
<1>5. \A r \in ServerLoads : LoadInStep(r)'
  BY <1>2, <1>4 DEF LoadInStep
<1>6. load'["poller"].at = "idle" \/ load'["sighup"].at = "idle"
  BY <1>4 DEF ServerLoads
<1>7. /\ watching' /\ noticed' /\ ~refused' /\ load'["poller"].at = "idle" /\ ~Writing("command")'
      => Agrees'
  <2> SUFFICES ASSUME noticed', ~refused', load'["poller"].at = "idle", ~Writing("command")'
               PROVE  Agrees'
    OBVIOUS
  <2>1. p = "sighup" /\ load["poller"].at = "idle" /\ load["sighup"].at = "idle" /\ ~Writing("command")
    BY <1>2, <1>4, TheLoaders DEF ServerLoads, Writing, Busy
  <2>2. Agrees
    BY <1>4, <2>1 DEF SettleInv, Settling
  <2> QED
    BY <2>2 DEF Agrees, Hot
<1> QED
  BY <1>5, <1>6, <1>7 DEF Settling

\* LoadServerConfig by the server: what it has read is the file.
LEMMA ServerReads ==
  ASSUME SettleInv, NEW p \in ServerLoads, ReadFile(p)
  PROVE  LoadPlaces' /\ Settling'
<1>1. p \in Loaders /\ p # "command" /\ load[p] \in LoadRecord /\ load \in [Loaders -> LoadRecord]
      /\ load[p].at = "read" /\ UNCHANGED <<file, live, watching, noticed, pending, stale>>
  BY TheLoaders DEF SettleInv, CfgShape, ReadFile
<1>2. PICK c, w : /\ load' = [load EXCEPT ![p].cfg = c, ![p].at = w]
                  /\ w = "retruncate" \/ (w = "compare" /\ c = file)
  BY <1>1 DEF ReadFile
<1>3. /\ load'[p].at = w /\ load'[p].cfg = c /\ \A r \in Loaders : r # p => load'[r] = load[r]
  <2> DEFINE q == [load[p] EXCEPT !.cfg = c, !.at = w]
  <2>1. q.at = w /\ q.cfg = c
    BY <1>1 DEF LoadRecord
  <2>2. load' = [load EXCEPT ![p] = q]
    BY <1>1, <1>2
  <2> HIDE DEF q
  <2> QED
    BY <1>1, <2>1, <2>2
<1>4. LoadInStep(p)'
  BY <1>1, <1>2, <1>3 DEF LoadInStep
<1>5. w \in {"retruncate", "compare"}
  BY <1>2
<1>6. \A r \in ServerLoads : r # p /\ load[r].at = "idle" => LoadInStep(r)'
  BY <1>3, TheLoaders DEF LoadInStep
<1> QED
  BY <1>1, <1>3, <1>4, <1>5, <1>6, ServerLoadGoesOn

\* LoadServerConfig fails: the poller has given the edit up, the SIGHUP leaves all as it was.
LEMMA ServerFails ==
  ASSUME SettleInv, NEW p \in ServerLoads, ReadFails(p)
  PROVE  LoadPlaces' /\ Settling'
<1>1. p \in Loaders /\ load \in [Loaders -> LoadRecord]
      /\ load[p].at = "read" /\ load' = [load EXCEPT ![p] = Idle]
      /\ UNCHANGED <<file, live, watching, noticed, pending, stale>>
      /\ refused' = (refused \/ p = "poller")
  BY TheLoaders DEF SettleInv, CfgShape, ReadFails, Done
<1>2. load'[p].at = "idle" /\ \A r \in Loaders : r # p => load'[r] = load[r]
  BY <1>1 DEF Idle
<1>3. ~stale /\ noticed /\ ~refused' /\ ~Writing("command") => Agrees'
  <2> SUFFICES ASSUME ~stale, noticed, ~refused', ~Writing("command") PROVE Agrees'
    OBVIOUS
  <2>1. p = "sighup" /\ load["sighup"].at = "read" /\ ~refused
    BY <1>1 DEF ServerLoads
  <2>2. watching /\ load["poller"].at = "idle"
    BY <2>1, TheLoaders DEF SettleInv, LoadPlaces, Settling
  <2>3. Agrees
    BY <2>1, <2>2 DEF SettleInv, Settling
  <2> QED
    BY <1>1, <2>3 DEF Agrees, Hot
<1>4. \A r \in ServerLoads : load'[r].at = "idle" => LoadInStep(r)'
  BY DEF LoadInStep
<1>5. \A r \in ServerLoads : r # p /\ load[r].at = "idle" => LoadInStep(r)'
  BY <1>2, <1>4, TheLoaders
<1> QED
  BY <1>1, <1>2, <1>3, <1>4, <1>5, ServerLoadGoesOn

\* The load is compared with the running configuration, under the read lock, ...
LEMMA ServerCompares ==
  ASSUME SettleInv, NEW p \in ServerLoads, Snapshot(p)
  PROVE  LoadPlaces' /\ Settling'
<1>1. p \in Loaders /\ load[p] \in LoadRecord /\ load \in [Loaders -> LoadRecord]
      /\ load[p].at = "compare" /\ UNCHANGED <<file, live, watching, noticed, pending, refused, stale>>
  BY TheLoaders DEF SettleInv, CfgShape, Snapshot
<1>2. /\ load'[p].at = "apply" /\ load'[p].old = live /\ load'[p].cfg = load[p].cfg
      /\ \A r \in Loaders : r # p => load'[r] = load[r]
  <2> DEFINE q == [load[p] EXCEPT !.old = live, !.at = "apply"]
  <2>1. q.at = "apply" /\ q.old = live /\ q.cfg = load[p].cfg
    BY <1>1 DEF LoadRecord
  <2>2. load' = [load EXCEPT ![p] = q]
    BY <1>1 DEF Snapshot
  <2> HIDE DEF q
  <2> QED
    BY <1>1, <2>1, <2>2
<1>3. ~stale => LoadInStep(p)'
  <2>1. ~stale => LoadInStep(p)
    BY DEF SettleInv, Settling
  <2> QED
    BY <1>1, <1>2, <2>1 DEF LoadInStep
<1>4. \A r \in ServerLoads : r # p /\ load[r].at = "idle" => LoadInStep(r)'
  BY <1>2, TheLoaders DEF LoadInStep
<1> QED
  BY <1>1, <1>2, <1>3, <1>4, ServerLoadGoesOn

\* ... what needs no restart is taken over, ...
LEMMA ServerApplies ==
  ASSUME SettleInv, NEW p \in ServerLoads, Apply(p)
  PROVE  LoadPlaces' /\ Settling'
<1>1. p \in Loaders /\ CfgShape /\ live \in Settings /\ load[p].cfg \in Settings
      /\ load[p].at = "apply" /\ Move(p, "flag")
      /\ UNCHANGED <<file, watching, noticed, pending, refused, stale>>
  BY TheLoaders DEF SettleInv, CfgShape, Apply, LoadRecord
<1>2. /\ load'[p].at = "flag" /\ load'[p].old = load[p].old /\ load'[p].cfg = load[p].cfg
      /\ \A r \in Loaders : r # p => load'[r] = load[r]
  BY <1>1, MovesOn
<1>3. ~stale => LoadInStep(p)'
  <2> SUFFICES ASSUME ~stale PROVE LoadInStep(p)'
    OBVIOUS
  <2>1. load[p].old = live /\ (noticed => load[p].cfg = file)
    BY <1>1 DEF SettleInv, Settling, LoadInStep
  <2>2. Hot(live') = Hot(load[p].cfg) /\ live'.cold = live.cold
    <3>1. CASE Changed(load[p].cfg, load[p].old) \/ flags
      <4>1. live' = [load[p].cfg EXCEPT !.cold = live.cold]
        BY <3>1 DEF Apply
      <4> QED
        BY <1>1, <4>1 DEF Settings, Hot
    <3>2. CASE ~(Changed(load[p].cfg, load[p].old) \/ flags)
      <4>1. live' = live
        BY <3>2 DEF Apply
      <4> QED
        BY <2>1, <3>2, <4>1 DEF Changed, Hot
    <3> QED
      BY <3>1, <3>2
  <2> QED
    BY <1>1, <1>2, <2>1, <2>2 DEF LoadInStep, Hot
<1>4. \A r \in ServerLoads : r # p /\ load[r].at = "idle" => LoadInStep(r)'
  BY <1>2, TheLoaders DEF LoadInStep
<1> QED
  BY <1>1, <1>2, <1>3, <1>4, ServerLoadGoesOn

\* ... and the restart that the rest needs is flagged.
LEMMA ServerFlags ==
  ASSUME SettleInv, NEW p \in ServerLoads, Flag(p)
  PROVE  LoadPlaces' /\ Settling'
<1>1. p \in Loaders /\ load \in [Loaders -> LoadRecord]
      /\ load[p].at = "flag" /\ load' = [load EXCEPT ![p] = Idle]
      /\ UNCHANGED <<file, live, watching, noticed, refused, stale>>
      /\ pending' = (pending \/ load[p].cfg.cold # load[p].old.cold)
  BY TheLoaders DEF SettleInv, CfgShape, Flag, Done
<1>2. load'[p].at = "idle" /\ \A r \in Loaders : r # p => load'[r] = load[r]
  BY <1>1 DEF Idle
<1>3. ~stale /\ noticed => Agrees'
  <2> SUFFICES ASSUME ~stale, noticed PROVE Agrees'
    OBVIOUS
  <2>1. load[p].cfg = file /\ Hot(live) = Hot(load[p].cfg) /\ load[p].old.cold = live.cold
    BY <1>1 DEF SettleInv, Settling, LoadInStep
  <2> QED
    BY <1>1, <2>1 DEF Agrees, Hot
<1>4. \A r \in ServerLoads : load'[r].at = "idle" => LoadInStep(r)'
  BY DEF LoadInStep
<1>5. \A r \in ServerLoads : r # p /\ load[r].at = "idle" => LoadInStep(r)'
  BY <1>2, <1>4, TheLoaders
<1> QED
  BY <1>1, <1>2, <1>3, <1>4, <1>5, ServerLoadGoesOn

\* A save, of whichever load, changes the file.
LEMMA SavesSettle ==
  ASSUME SettleInv, NEW p \in Loaders, SaveTruncate(p) \/ SaveWrite(p)
  PROVE  LoadPlaces' /\ Settling'
<1>1. CfgShape /\ LoadPlaces /\ ~noticed' /\ UNCHANGED <<live, watching, pending>>
      /\ (stale' \/ ~stale) /\ load[p].at # "idle"
  <2>1. stale' \/ ~stale
    BY Zenon DEF SaveTruncate, SaveWrite
  <2> QED
    BY <2>1 DEF SettleInv, SaveTruncate, SaveWrite, Writing
<1>2. PICK w : /\ load'[p].at = w
               /\ \/ load[p].at = "truncate" /\ w = "write"
                  \/ load[p].at = "retruncate" /\ w = "rewrite"
                  \/ load[p].at = "write" /\ w = "idle" /\ (stale' \/ watching)
                  \/ load[p].at = "rewrite" /\ w = (IF p = "command" THEN "change" ELSE "compare")
                       /\ (stale' \/ watching)
               /\ \A r \in Loaders : r # p => load'[r] = load[r]
  <2>1. CASE SaveTruncate(p)
    BY <1>1, <2>1, MovesOn DEF SaveTruncate
  <2>2. CASE SaveWrite(p) /\ load[p].at = "write"
    <3>1. load' = [load EXCEPT ![p] = Idle] /\ (stale' \/ watching)
      BY <2>2 DEF SaveWrite, Done
    <3>2. load'[p] = Idle /\ Idle.at = "idle" /\ \A r \in Loaders : r # p => load'[r] = load[r]
      BY <1>1, <3>1 DEF CfgShape, Idle
    <3> QED
      BY <2>2, <3>1, <3>2
  <2>3. CASE SaveWrite(p) /\ load[p].at # "write"
    <3>1. load[p].at = "rewrite" /\ Move(p, IF p = "command" THEN "change" ELSE "compare")
          /\ (stale' \/ watching)
      BY <2>3 DEF SaveWrite, Writing
    <3> QED
      BY <1>1, <3>1, MovesOn
  <2> QED
    BY <2>1, <2>2, <2>3
<1>4. CASE p = "command"
  <2>1. \A r \in ServerLoads : load'[r] = load[r]
    BY <1>2, <1>4, TheLoaders
  <2>2. LoadPlaces'
    BY <1>1, <1>2, <1>4, <2>1 DEF LoadPlaces
  <2>3. stale' \/ watching \/ Writing("command")'
    BY <1>2, <1>4 DEF Writing
  <2> QED
    BY <1>1, <2>1, <2>2, <2>3, FileChanges
<1>5. CASE p \in ServerLoads
  <2>1. watching /\ load[p].at \notin {"change", "truncate", "write"}
    BY <1>1, <1>5 DEF LoadPlaces
  <2>2. w \in {"rewrite", "compare"} /\ load'["command"] = load["command"]
        /\ \A r \in ServerLoads : r # p => load'[r] = load[r]
    BY <1>2, <1>5, <2>1, TheLoaders
  <2>3. LoadPlaces'
    BY <1>1, <1>2, <2>1, <2>2 DEF LoadPlaces
  <2> QED
    BY <1>1, <1>2, <2>1, <2>2, <2>3, FileChanges
<1> QED
  BY <1>4, <1>5, TheLoaders

\* The command starts, and changes what it has read.
LEMMA CommandSettles ==
  ASSUME SettleInv, Command \/ ChangeMode \/ ReadFile("command") \/ ReadFails("command")
  PROVE  LoadPlaces' /\ Settling'
<1>1. /\ load \in [Loaders -> LoadRecord] /\ "command" \in Loaders
      /\ UNCHANGED <<file, live, watching, noticed, pending, stale>>
      /\ refused' \/ ~refused
  <2>1. refused' \/ ~refused
    BY Zenon DEF Command, ChangeMode, ReadFile, ReadFails
  <2> QED
    BY <2>1, TheLoaders DEF SettleInv, CfgShape, Command, ChangeMode, ReadFile, ReadFails
<1>2. ~Writing("command")
  BY DEF Command, ChangeMode, ReadFile, ReadFails, Busy, Writing
<1>3. PICK q : load' = [load EXCEPT !["command"] = q] /\ q.at \notin {"compare", "apply", "flag"}
  <2>1. load["command"] \in LoadRecord
    BY <1>1
  <2>2. CASE Command
    <3>1. CASE Move("command", "read")
      <4>1. [load["command"] EXCEPT !.at = "read"].at = "read"
        BY <2>1 DEF LoadRecord
      <4> QED
        BY <3>1, <4>1 DEF Move
    <3>2. CASE load' = [load EXCEPT !["command"] = [at |-> "truncate", cfg |-> Empty, old |-> Empty]]
      <4> DEFINE e == [at |-> "truncate", cfg |-> Empty, old |-> Empty]
      <4>1. e.at = "truncate"
        OBVIOUS
      <4> QED
        BY <3>2, <4>1
    <3> QED
      BY <2>2, <3>1, <3>2 DEF Command
  <2>3. CASE ChangeMode
    <3> DEFINE c == [load["command"].cfg EXCEPT !.hot = commands]
    <3>1. load' = [load EXCEPT !["command"] = [load["command"] EXCEPT !.cfg = c, !.at = "truncate"]]
      BY <1>1, <2>1, <2>3 DEF ChangeMode, LoadRecord, Settings
    <3>2. [load["command"] EXCEPT !.cfg = c, !.at = "truncate"].at = "truncate"
      BY <2>1 DEF LoadRecord
    <3> QED
      BY <3>1, <3>2
  <2>4. CASE ReadFile("command")
    <3>1. PICK c, w : load' = [load EXCEPT !["command"].cfg = c, !["command"].at = w]
                        /\ w \in {"retruncate", "change"}
      BY <2>4 DEF ReadFile
    <3>2. load' = [load EXCEPT !["command"] = [load["command"] EXCEPT !.cfg = c, !.at = w]]
      BY <1>1, <3>1
    <3>3. [load["command"] EXCEPT !.cfg = c, !.at = w].at = w
      BY <2>1 DEF LoadRecord
    <3> QED
      BY <3>1, <3>2, <3>3
  <2>5. CASE ReadFails("command")
    <3>1. load' = [load EXCEPT !["command"] = Idle] /\ Idle.at = "idle"
      BY <2>5 DEF ReadFails, Done, Idle
    <3> QED
      BY <3>1
  <2> QED
    BY <2>2, <2>3, <2>4, <2>5
<1>4. load'["command"] = q /\ \A p \in ServerLoads : load'[p] = load[p]
  BY <1>1, <1>3, TheLoaders
<1> QED
  BY <1>1, <1>2, <1>3, <1>4, CommandReads

LEMMA SettleStep ==
  ASSUME SettleInv, [CfgNext]_cfgVars
  PROVE  LoadPlaces' /\ Settling'
<1>0. CfgShape /\ LoadPlaces /\ Settling
  BY DEF SettleInv
<1>1. CASE EditFile
  <2>1. /\ ~noticed' /\ UNCHANGED <<live, watching, pending, load>>
        /\ stale' = (stale \/ ~watching)
    BY <1>1 DEF EditFile
  <2>2. LoadPlaces'
    BY <1>0, <2>1 DEF LoadPlaces
  <2> QED
    BY <2>1, <2>2, FileChanges
<1>2. CASE StartWatch
  <2>1. /\ ~watching /\ watching' /\ noticed'
        /\ UNCHANGED <<file, live, pending, load, refused, stale>>
    BY <1>2 DEF StartWatch
  <2>2. LoadPlaces' /\ \A p \in ServerLoads : load'[p].at = "idle"
    BY <1>0, <2>1 DEF LoadPlaces
  <2>3. ~stale => file = live \/ Writing("command")
    BY <1>0, <2>1 DEF Settling
  <2>4. Writing("command")' = Writing("command") /\ (file = live => Agrees')
    BY <2>1 DEF Writing, Agrees, Hot
  <2>5. \A p \in ServerLoads : LoadInStep(p)'
    BY <2>2 DEF LoadInStep
  <2> QED
    BY <2>1, <2>2, <2>3, <2>4, <2>5, TheLoaders DEF Settling
<1>3. CASE Poll
  <2>1. stale' = (stale \/ \E r \in ServerLoads : r # "poller" /\ Busy(r))
    BY <1>3 DEF Poll, ServerLoads
  <2> QED
    BY <1>3, <2>1, TheLoaders, LoadBegins DEF Poll
<1>4. CASE Hangup
  <2>1. stale' = (stale \/ \E r \in ServerLoads : r # "sighup" /\ Busy(r))
    BY <1>4 DEF Hangup, ServerLoads
  <2> QED
    BY <1>4, <2>1, TheLoaders, LoadBegins DEF Hangup
<1>5. CASE Command \/ ChangeMode
  BY <1>5, CommandSettles
<1>6. CASE \E p \in Loaders : LoadStep(p) \/ ApplyStep(p)
  <2>1. PICK p \in Loaders : LoadStep(p) \/ ApplyStep(p)
    BY <1>6
  <2>2. CASE SaveTruncate(p) \/ SaveWrite(p)
    BY <2>2, SavesSettle
  <2>3. CASE p = "command" /\ (ReadFile(p) \/ ReadFails(p))
    BY <2>3, CommandSettles
  <2>4. CASE p = "command" /\ ApplyStep(p)
    <3>1. load["command"].at \in {"compare", "apply", "flag"}
      BY <2>4 DEF ApplyStep, Snapshot, Apply, Flag
    <3> QED
      BY <1>0, <3>1 DEF LoadPlaces
  <2>5. CASE p \in ServerLoads /\ (ReadFile(p) \/ ReadFails(p) \/ ApplyStep(p))
    BY <2>5, ServerReads, ServerFails, ServerCompares, ServerApplies, ServerFlags DEF ApplyStep
  <2> QED
    BY <2>1, <2>2, <2>3, <2>4, <2>5, TheLoaders DEF LoadStep
<1>7. CASE UNCHANGED cfgVars
  <2>1. /\ UNCHANGED <<file, live, watching, noticed, pending, refused, stale, load>>
    BY <1>7 DEF cfgVars
  <2>2. LoadPlaces' /\ Writing("command")' = Writing("command") /\ (Agrees => Agrees')
    BY <1>0, <2>1 DEF LoadPlaces, Writing, Agrees, Hot
  <2>3. \A p \in ServerLoads : LoadInStep(p) => LoadInStep(p)'
    BY <2>1 DEF LoadInStep, Hot
  <2> QED
    BY <1>0, <2>1, <2>2, <2>3 DEF Settling
<1> QED
  BY <1>1, <1>2, <1>3, <1>4, <1>5, <1>6, <1>7 DEF CfgNext

(***************************************************************************)
(* Once the poller has come round the server runs with the settings of the *)
(* file that need no restart and that are compared, and a restart is       *)
(* pending if the cold ones differ, unless the load failed, an edit fell   *)
(* before the watch or loads overlapped (checkFileChanges,                 *)
(* applyConfigChanges).                                                    *)
(***************************************************************************)
THEOREM ReloadTakesOver == CfgSpec => []ReloadSettles
<1>1. CfgInit => LoadPlaces /\ Settling
  <2> SUFFICES ASSUME CfgInit PROVE LoadPlaces /\ Settling
    OBVIOUS
  <2>1. /\ ~watching /\ ~stale /\ ~pending /\ file = live
        /\ \A p \in Loaders : load[p] = Idle
    BY DEF CfgInit
  <2>2. \A p \in Loaders : load[p].at = "idle"
    BY <2>1 DEF Idle
  <2>3. LoadPlaces
    BY <2>1, <2>2, TheLoaders DEF LoadPlaces
  <2>4. \A p \in ServerLoads : LoadInStep(p)
    BY <2>2, TheLoaders DEF LoadInStep
  <2> QED
    BY <2>1, <2>2, <2>3, <2>4, TheLoaders DEF Settling
<1>2. CfgInv /\ LoadPlaces /\ Settling /\ [CfgNext]_cfgVars => LoadPlaces' /\ Settling'
  BY SettleStep DEF CfgInv, SettleInv
<1>3. LoadPlaces /\ Settling => ReloadSettles
  BY TheLoaders DEF LoadPlaces, Settling, ReloadSettles, Agrees, Busy
<1> QED
  BY <1>1, <1>2, <1>3, CfgStarts, CfgStep, PTL DEF CfgSpec


(***************************************************************************)
(* The greatest element of a finite set of numbers.                        *)
(***************************************************************************)

LEMMA GreatestOfFinite ==
  ASSUME NEW T, T \subseteq Nat, T # {}, IsFiniteSet(T)
  PROVE  \E x \in T : \A y \in T : y <= x
<1> DEFINE Above(i) == {j \in T : i < j}
           U == {Above(i) : i \in T}
<1>1. \A i \in T : Above(i) \in FiniteSubsetsOf(Nat)
  <2> TAKE i \in T
  <2>1. Above(i) \subseteq T
    OBVIOUS
  <2>2. IsFiniteSet(Above(i)) /\ Above(i) \subseteq Nat
    BY <2>1, FS_Subset
  <2> QED
    BY <2>2 DEF FiniteSubsetsOf
<1>2. \A i, j \in T : i < j => Above(j) \subseteq Above(i) /\ Above(j) # Above(i)
  <2> TAKE i, j \in T
  <2> HAVE i < j
  <2>1. \A k \in T : j < k => i < k
    OBVIOUS
  <2>2. j \in Above(i) /\ j \notin Above(j)
    OBVIOUS
  <2> QED
    BY <2>1, <2>2
<1>3. PICK x \in T : \A y \in T : ~ (<<Above(y), Above(x)>> \in StrictSubsetOrdering(Nat))
  <2> HIDE DEF Above
  <2>1. U \subseteq FiniteSubsetsOf(Nat) /\ U # {}
    BY <1>1
  <2>2. PICK s \in U : \A r \in U : ~ (<<r, s>> \in StrictSubsetOrdering(Nat))
    BY <2>1, FS_StrictSubsetOrderingWellFounded, WFMin
  <2> QED
    BY <2>2
<1>4. ASSUME NEW y \in T, ~ (y <= x) PROVE FALSE
  <2>1. x < y
    BY <1>4
  <2> HIDE DEF Above
  <2>2. <<Above(y), Above(x)>> \in StrictSubsetOrdering(Nat)
    BY <1>1, <1>2, <2>1 DEF StrictSubsetOrdering, FiniteSubsetsOf
  <2> QED
    BY <1>3, <2>2
<1> QED
  BY <1>4

(***************************************************************************)
(* The files of Backup, for any jobs, sizes, cap and crashes.              *)
(***************************************************************************)

JobRecord ==
  [at : {"idle", "writing", "verify", "list", "trim"}, file : Nat, doomed : SUBSET (1..begun)]

FileRecord == [by : Jobs, size : Nat, whole : BOOLEAN]

BackupShape ==
  /\ begun \in Nat
  /\ DOMAIN store \subseteq 1..begun
  /\ \A f \in DOMAIN store : store[f] \in FileRecord
  /\ job \in [Jobs -> JobRecord]
  /\ job["command"].at \in {"writing", "verify"} =>
       /\ job["command"].file \in 1..begun
       /\ job["command"].file \in DOMAIN store => store[job["command"].file].by = "command"

\* No file of the command is larger than the cap.
Fits == ~outsized /\ Cap > 0 => \A f \in Capped : store[f].size <= Cap

\* What a job has yet to remove are the oldest files that it listed.
OldestFirst ==
  \A j \in Jobs : \A d \in job[j].doomed : \A f \in Capped : f < d => f \in job[j].doomed

\* A file and the newer ones.
From(f) == {g \in Capped : g >= f}

\* With the newer ones, a file that a job is about to remove still is too much.
TooMuch == \A j \in Jobs : \A f \in job[j].doomed \cap Capped : Volume(From(f), Full) > Cap

\* No job is about to remove the newest file.
Newest(f) == f \in Capped /\ \A g \in Capped : g <= f
NewestSpared == ~outsized => \A f \in Capped : Newest(f) => \A j \in Jobs : f \notin job[j].doomed

\* A file that is not whole is the one that the command is writing.
Usable(f) == store[f].whole \/ (job["command"].at = "writing" /\ job["command"].file = f)
AllUsable == \A f \in Capped : Usable(f)

Stays == held /\ ~outsized => Capped # {}

BackupInv ==
  /\ BackupShape /\ Fits /\ OldestFirst
  /\ ~dropped => TooMuch /\ NewestSpared /\ AllUsable /\ Stays
-----------------------------------------------------------------------------
\* The files of the command are numbers, finitely many, with sizes.
LEMMA CappedFiles ==
  ASSUME BackupShape
  PROVE  /\ Capped \subseteq DOMAIN store /\ Capped \subseteq Nat /\ IsFiniteSet(Capped)
         /\ \A f \in Capped : f \in 1..begun /\ store[f].size \in Nat /\ Full[f] = store[f].size
<1>1. Capped \subseteq DOMAIN store
  BY DEF Capped
<1>2. /\ Capped \subseteq 1..begun /\ begun \in Nat
      /\ \A f \in Capped : store[f].size \in Nat /\ Full[f] = store[f].size
  BY <1>1 DEF BackupShape, FileRecord, Full
<1>3. IsFiniteSet(1..begun)
  BY <1>2, FS_Interval
<1>4. IsFiniteSet(Capped)
  BY <1>2, <1>3, FS_Subset
<1> QED
  BY <1>1, <1>2, <1>4

\* What files take is finite ...
LEMMA VolumeFinite ==
  ASSUME NEW T, IsFiniteSet(T), NEW s, \A f \in T : s[f] \in Nat
  PROVE  IsFiniteSet(UNION {{f} \X (1..s[f]) : f \in T}) /\ Volume(T, s) \in Nat
<1> DEFINE P == {{f} \X (1..s[f]) : f \in T}
           g == [f \in T |-> {f} \X (1..s[f])]
<1>1. g \in Surjection(T, P)
  BY DEF Surjection
<1>2. IsFiniteSet(P)
  <2> HIDE DEF g, P
  <2> QED
    BY <1>1, FS_Surjection
<1>3. ASSUME NEW f \in T PROVE IsFiniteSet({f} \X (1..s[f]))
  <2>1. IsFiniteSet({f})
    BY FS_Singleton
  <2>2. IsFiniteSet(1..s[f])
    <3>1. 1 \in Int /\ s[f] \in Int
      OBVIOUS
    <3> QED
      BY <3>1, FS_Interval
  <2> QED
    BY <2>1, <2>2, FS_Product
<1>4. \A q \in P : IsFiniteSet(q)
  BY <1>3
<1>5. IsFiniteSet(UNION P)
  <2> HIDE DEF g, P
  <2> QED
    BY <1>2, <1>4, FS_UNION
<1>6. Cardinality(UNION P) \in Nat
  <2> HIDE DEF P
  <2> QED
    BY <1>5, FS_CardinalityType
<1> QED
  BY <1>5, <1>6 DEF Volume

\* ... grows with them and with their sizes, ...
LEMMA VolumeGrows ==
  ASSUME NEW T, IsFiniteSet(T), NEW S, S \subseteq T, NEW r, NEW s,
         \A f \in T : s[f] \in Nat, \A f \in S : r[f] \in Nat /\ r[f] <= s[f]
  PROVE  Volume(S, r) <= Volume(T, s)
<1> DEFINE P == UNION {{f} \X (1..r[f]) : f \in S}
           Q == UNION {{f} \X (1..s[f]) : f \in T}
<1>1. IsFiniteSet(Q)
  BY VolumeFinite
<1>2. P \subseteq Q
  <2> SUFFICES ASSUME NEW u \in P PROVE u \in Q
    OBVIOUS
  <2>1. PICK f \in S : u \in {f} \X (1..r[f])
    OBVIOUS
  <2>2. f \in T /\ 1..r[f] \subseteq 1..s[f]
    OBVIOUS
  <2>3. u \in {f} \X (1..s[f])
    BY <2>1, <2>2
  <2> QED
    BY <2>2, <2>3
<1>3. Cardinality(P) <= Cardinality(Q)
  <2> HIDE DEF P, Q
  <2> QED
    BY <1>1, <1>2, FS_Subset
<1> QED
  BY <1>3 DEF Volume

\* ... and is, of one file, its size.
LEMMA VolumeOfOne ==
  ASSUME NEW f, NEW s, s[f] \in Nat
  PROVE  Volume({f}, s) = s[f]
<1>1. UNION {{g} \X (1..s[g]) : g \in {f}} = {f} \X (1..s[f])
  OBVIOUS
<1>2. IsFiniteSet({f}) /\ Cardinality({f}) = 1
  BY FS_Singleton
<1>3. IsFiniteSet(1..s[f]) /\ Cardinality(1..s[f]) = s[f]
  <2>1. 1 \in Int /\ s[f] \in Int
    OBVIOUS
  <2>2. IsFiniteSet(1..s[f]) /\ Cardinality(1..s[f]) = IF 1 > s[f] THEN 0 ELSE s[f] - 1 + 1
    BY <2>1, FS_Interval
  <2> QED
    BY <2>2
<1>4. Cardinality({f} \X (1..s[f])) = Cardinality({f}) * Cardinality(1..s[f])
  BY <1>2, <1>3, FS_Product
<1>5. Volume({f}, s) = Cardinality({f} \X (1..s[f]))
  BY <1>1 DEF Volume
<1>6. 1 * s[f] = s[f]
  OBVIOUS
<1> QED
  BY <1>2, <1>3, <1>4, <1>5, <1>6

LEMMA FromFinite ==
  ASSUME BackupShape, NEW f
  PROVE  Volume(From(f), Full) \in Nat
<1>1. From(f) \subseteq Capped
  BY DEF From
<1>2. IsFiniteSet(From(f)) /\ \A g \in From(f) : Full[g] \in Nat
  BY <1>1, CappedFiles, FS_Subset
<1> QED
  BY <1>2, VolumeFinite

\* As long as no file goes, there is still too much where there was.
LEMMA StillTooMuch ==
  ASSUME BackupShape, BackupShape', NEW f \in Capped,
         \A g \in Capped : g >= f => g \in Capped' /\ store'[g].size = store[g].size
  PROVE  Volume(From(f), Full) <= Volume(From(f)', Full')
<1>1. /\ Capped \subseteq Nat /\ IsFiniteSet(Capped)
      /\ \A g \in Capped : store[g].size \in Nat /\ Full[g] = store[g].size
  BY CappedFiles
<1>2. IsFiniteSet(Capped') /\ \A g \in Capped' : store'[g].size \in Nat /\ Full'[g] = store'[g].size
  <2>1. Capped' \subseteq DOMAIN store' /\ Capped' \subseteq 1..begun' /\ begun' \in Nat
    BY DEF Capped, BackupShape
  <2>2. \A g \in Capped' : store'[g].size \in Nat /\ Full'[g] = store'[g].size
    BY <2>1 DEF BackupShape, FileRecord, Full
  <2>3. IsFiniteSet(1..begun')
    BY <2>1, FS_Interval
  <2> QED
    BY <2>1, <2>2, <2>3, FS_Subset
<1>3. /\ IsFiniteSet(From(f)') /\ From(f) \subseteq From(f)'
      /\ \A g \in From(f)' : Full'[g] \in Nat
  <2>1. From(f)' \subseteq Capped' /\ From(f) \subseteq From(f)'
    BY DEF From
  <2> QED
    BY <1>2, <2>1, FS_Subset
<1>4. \A g \in From(f) : Full[g] \in Nat /\ Full[g] <= Full'[g]
  BY <1>1, <1>2, <1>3 DEF From
<1> DEFINE T == From(f)'
           s == Full'
<1> HIDE DEF T, s
<1>5. Volume(From(f), Full) <= Volume(T, s)
  <2>1. /\ IsFiniteSet(T) /\ From(f) \subseteq T /\ \A g \in T : s[g] \in Nat
        /\ \A g \in From(f) : Full[g] \in Nat /\ Full[g] <= s[g]
    BY <1>3, <1>4 DEF T, s
  <2> QED
    BY <2>1, VolumeGrows
<1> QED
  BY <1>5 DEF T, s

LEMMA FromFiniteNext ==
  ASSUME BackupShape', NEW f
  PROVE  Volume(From(f)', Full') \in Nat
<1>1. /\ From(f)' \subseteq Capped' /\ Capped' \subseteq DOMAIN store'
      /\ DOMAIN store' \subseteq 1..begun' /\ begun' \in Nat
  BY DEF From, Capped, BackupShape
<1>2. IsFiniteSet(1..begun')
  BY <1>1, FS_Interval
<1>3. From(f)' \subseteq 1..begun'
  BY <1>1
<1>4. IsFiniteSet(From(f)')
  BY <1>2, <1>3, FS_Subset
<1>5. \A g \in From(f)' : Full'[g] \in Nat
  BY <1>1 DEF BackupShape, FileRecord, Full
<1> DEFINE T == From(f)'
           s == Full'
<1>6. IsFiniteSet(T) /\ \A g \in T : s[g] \in Nat
  BY <1>4, <1>5
<1> HIDE DEF T, s
<1>7. Volume(T, s) \in Nat
  BY <1>6, VolumeFinite
<1> QED
  BY <1>7 DEF T, s
-----------------------------------------------------------------------------
LEMMA JobGoesOn ==
  ASSUME BackupShape, NEW j \in Jobs, NEW q \in JobRecord, job' = [job EXCEPT ![j] = q]
  PROVE  /\ job' \in [Jobs -> JobRecord] /\ job'[j] = q
         /\ \A k \in Jobs : k # j => job'[k] = job[k]
BY DEF BackupShape

LEMMA NoJobIsJob ==
  /\ NoJob \in JobRecord /\ NoJob.at = "idle" /\ NoJob.doomed = {} /\ NoJob.file = 0
BY DEF NoJob, JobRecord

\* Every job is as it was, or has ended with nothing to remove.
NoneDoomed == \A k \in Jobs : job'[k].doomed = job[k].doomed \/ job'[k].doomed = {}

\* A step that keeps the files and dooms none.
LEMMA FilesStay ==
  ASSUME BackupInv, BackupShape', NoneDoomed, DOMAIN store' = DOMAIN store,
         \A f \in DOMAIN store : store'[f].by = store[f].by /\ store'[f].size = store[f].size,
         dropped' \/ ~dropped, outsized' = outsized
  PROVE  /\ Fits' /\ OldestFirst'
         /\ ~dropped' => TooMuch' /\ NewestSpared'
<1>1. BackupShape /\ Capped' = Capped /\ \A f \in Capped : store'[f].size = store[f].size
  BY DEF BackupInv, Capped
<1>2. Fits'
  BY <1>1 DEF BackupInv, Fits
<1>3. OldestFirst'
  BY <1>1 DEF BackupInv, OldestFirst, NoneDoomed
<1>4. ASSUME ~dropped' PROVE TooMuch'
  <2>1. TooMuch
    BY <1>4 DEF BackupInv
  <2> SUFFICES ASSUME NEW j \in Jobs, NEW f \in job'[j].doomed \cap Capped'
               PROVE  Volume(From(f)', Full') > Cap
    BY DEF TooMuch
  <2>2. f \in Capped /\ f \in job[j].doomed
    BY <1>1 DEF NoneDoomed
  <2>3. Volume(From(f), Full) > Cap /\ Volume(From(f), Full) <= Volume(From(f)', Full')
    BY <1>1, <2>1, <2>2, StillTooMuch DEF TooMuch
  <2>4. Volume(From(f), Full) \in Nat /\ Volume(From(f)', Full') \in Nat /\ Cap \in Nat
    BY <1>1, <2>2, FromFinite, FromFiniteNext, BackupAssumption
  <2> QED
    BY <2>3, <2>4
<1>5. ~dropped' => NewestSpared'
  BY <1>1 DEF BackupInv, NewestSpared, Newest, NoneDoomed
<1> QED
  BY <1>2, <1>3, <1>4, <1>5

\* A backup is begun: the newest file, which no job has listed.
LEMMA CreateKeeps ==
  ASSUME BackupAssumption, BackupInv, NEW j \in Jobs, CreateBackup(j)
  PROVE  BackupInv'
<1> DEFINE n == begun + 1
           q == [at |-> "writing", file |-> n, doomed |-> {}]
<1>1. PICK size \in Sizes :
        /\ store' = [f \in DOMAIN store \cup {n} |->
             IF f = n THEN [by |-> j, size |-> size, whole |-> FALSE] ELSE store[f]]
        /\ outsized' = (outsized \/ (j = "command" /\ Cap > 0 /\ size > Cap))
  BY DEF CreateBackup
<1>2. /\ begun' = n /\ job[j].at = "idle" /\ UNCHANGED <<held, dropped>>
      /\ job' = [job EXCEPT ![j] = q]
  BY DEF CreateBackup
<1>3. /\ BackupShape /\ begun \in Nat /\ n \in Nat /\ n \notin 1..begun /\ 1..begun \subseteq 1..n
      /\ size \in Nat /\ Cap \in Nat
  BY DEF BackupInv, BackupShape, BackupAssumption
<1>4. /\ DOMAIN store' = DOMAIN store \cup {n} /\ n \notin DOMAIN store
      /\ \A f \in DOMAIN store : store'[f] = store[f] /\ f < n
      /\ store'[n] = [by |-> j, size |-> size, whole |-> FALSE]
  BY <1>1, <1>3 DEF BackupShape
<1> HIDE DEF n
<1>5. /\ store'[n].by = j /\ store'[n].size = size /\ store'[n] \in FileRecord
  BY <1>3, <1>4 DEF FileRecord
<1>6. JobRecord \subseteq JobRecord' /\ q \in JobRecord'
  BY <1>2, <1>3 DEF JobRecord
<1>7. /\ job' \in [Jobs -> JobRecord'] /\ job'[j] = q
      /\ \A k \in Jobs : k # j => job'[k] = job[k]
  <2> HIDE DEF q
  <2>1. job \in [Jobs -> JobRecord']
    BY <1>3, <1>6 DEF BackupShape
  <2> QED
    BY <1>2, <1>6, <2>1
<1>8. BackupShape'
  <2>1. DOMAIN store' \subseteq 1..begun'
    BY <1>2, <1>3, <1>4 DEF BackupShape, n
  <2>2. \A f \in DOMAIN store' : store'[f] \in FileRecord
    BY <1>3, <1>4, <1>5 DEF BackupShape
  <2>3. job'["command"].at \in {"writing", "verify"} =>
          /\ job'["command"].file \in 1..begun'
          /\ job'["command"].file \in DOMAIN store' => store'[job'["command"].file].by = "command"
    <3>1. CASE j = "command"
      BY <1>2, <1>3, <1>5, <1>7, <3>1 DEF n
    <3>2. CASE j # "command"
      <4>1. job'["command"] = job["command"]
        BY <1>7, <3>2 DEF Jobs
      <4> QED
        BY <1>2, <1>3, <1>4, <4>1 DEF BackupShape
    <3> QED
      BY <3>1, <3>2
  <2> QED
    BY <1>2, <1>3, <1>7, <2>1, <2>2, <2>3 DEF BackupShape
<1>9. /\ Capped \subseteq Capped' /\ Capped' \subseteq Capped \cup {n}
      /\ \A g \in Capped : store'[g] = store[g] /\ g < n /\ g \in Nat
      /\ j = "command" <=> n \in Capped'
  BY <1>3, <1>4, <1>5, CappedFiles DEF Capped
<1>10. \A k \in Jobs : job'[k].doomed \subseteq job[k].doomed /\ n \notin job'[k].doomed
                       /\ job'[k].doomed \subseteq Nat /\ \A d \in job'[k].doomed : d < n
  <2>1. \A k \in Jobs : job[k].doomed \subseteq 1..begun
    BY <1>3 DEF BackupShape, JobRecord
  <2>2. \A d \in 1..begun : d < n /\ d \in Nat
    BY <1>3 DEF n
  <2> QED
    BY <1>3, <1>7, <2>1, <2>2
<1>11. Fits'
  <2> SUFFICES ASSUME ~outsized', Cap > 0, NEW f \in Capped' PROVE store'[f].size <= Cap
    BY DEF Fits
  <2>0. ~outsized /\ ~(j = "command" /\ Cap > 0 /\ size > Cap)
    BY <1>1, Zenon
  <2>1. CASE f = n
    <3>1. ~(size > Cap) /\ store'[f].size = size
      BY <1>5, <1>9, <2>0, <2>1
    <3> QED
      BY <1>3, <3>1
  <2>2. CASE f # n
    BY <1>9, <2>0, <2>2 DEF BackupInv, Fits
  <2> QED
    BY <2>1, <2>2
<1>12. OldestFirst'
  <2> SUFFICES ASSUME NEW k \in Jobs, NEW d \in job'[k].doomed, NEW f \in Capped', f < d
               PROVE  f \in job'[k].doomed
    BY DEF OldestFirst
  <2>1. f # n
    BY <1>3, <1>10
  <2>2. k # j
    BY <1>7
  <2> QED
    BY <1>7, <1>9, <2>1, <2>2 DEF BackupInv, OldestFirst
<1>13. ASSUME ~dropped' PROVE TooMuch'
  <2> SUFFICES ASSUME NEW k \in Jobs, NEW f \in job'[k].doomed \cap Capped'
               PROVE  Volume(From(f)', Full') > Cap
    BY DEF TooMuch
  <2>1. f \in Capped /\ f \in job[k].doomed
    BY <1>9, <1>10
  <2>2. TooMuch
    BY <1>2, <1>13 DEF BackupInv
  <2>3. Volume(From(f), Full) > Cap /\ Volume(From(f), Full) <= Volume(From(f)', Full')
    BY <1>3, <1>8, <1>9, <2>1, <2>2, StillTooMuch DEF TooMuch
  <2>4. Volume(From(f), Full) \in Nat /\ Volume(From(f)', Full') \in Nat
    BY <1>3, <1>8, <2>1, FromFinite, FromFiniteNext
  <2> QED
    BY <1>3, <2>3, <2>4
<1>14. ASSUME ~dropped' PROVE NewestSpared'
  <2> SUFFICES ASSUME ~outsized', NEW f \in Capped', Newest(f)', NEW k \in Jobs, f \in job'[k].doomed
               PROVE  FALSE
    BY DEF NewestSpared
  <2>1. f \in Capped /\ f \in job[k].doomed
    BY <1>9, <1>10
  <2>2. Newest(f)
    BY <1>9, <2>1 DEF Newest
  <2> QED
    BY <1>1, <1>2, <1>14, <2>1, <2>2 DEF BackupInv, NewestSpared
<1>15. ASSUME ~dropped' PROVE AllUsable'
  <2> SUFFICES ASSUME NEW f \in Capped' PROVE Usable(f)'
    BY DEF AllUsable
  <2>1. CASE f = n
    BY <1>7, <1>9, <2>1 DEF Usable
  <2>2. CASE f # n
    <3>1. f \in Capped /\ Usable(f)
      BY <1>2, <1>9, <1>15, <2>2 DEF BackupInv, AllUsable
    <3>2. job["command"].at = "writing" => job'["command"] = job["command"]
      BY <1>2, <1>7 DEF Jobs
    <3> QED
      BY <1>9, <3>1, <3>2 DEF Usable
  <2> QED
    BY <2>1, <2>2
<1>16. ~dropped' => Stays'
  BY <1>1, <1>2, <1>9 DEF BackupInv, Stays
<1> QED
  BY <1>8, <1>11, <1>12, <1>13, <1>14, <1>15, <1>16 DEF BackupInv

\* The file is filled; or the writing ends with an error, a job with its work done, a
\* process with the rest of it undone.
LEMMA JobsGoOn ==
  ASSUME BackupAssumption, BackupInv,
         \/ \E j \in Jobs : FillBackup(j) \/ SpoilBackup(j) \/ EndRetention(j)
         \/ BackupCrash \/ UNCHANGED backupVars
  PROVE  BackupInv'
<1>1. /\ BackupShape /\ UNCHANGED <<held, outsized, begun>> /\ DOMAIN store' = DOMAIN store
      /\ JobRecord' = JobRecord
  BY DEF FillBackup, SpoilBackup, EndRetention, BackupCrash, backupVars, BackupInv, JobRecord
<1>2. dropped' \/ ~dropped
  BY Zenon DEF FillBackup, SpoilBackup, EndRetention, BackupCrash, backupVars
<1>3. ASSUME NEW f \in DOMAIN store
      PROVE  /\ store'[f] \in FileRecord /\ store'[f].by = store[f].by
             /\ store'[f].size = store[f].size /\ (store[f].whole => store'[f].whole)
  <2>1. store[f] \in FileRecord
    BY <1>1 DEF BackupShape
  <2>2. store'[f] \in {store[f], [store[f] EXCEPT !.whole = TRUE]}
    BY <1>3 DEF FillBackup, SpoilBackup, EndRetention, BackupCrash, backupVars
  <2> QED
    BY <2>1, <2>2 DEF FileRecord
<1>4. \A k \in Jobs :
        \/ job'[k] \in {job[k], NoJob}
        \/ /\ job[k].at = "writing" /\ k # "command" => job'[k].at = "list"
           /\ job'[k] \in JobRecord /\ job'[k].doomed = job[k].doomed /\ job'[k].file = job[k].file
           /\ k = "command" => job'[k].at = "verify" /\ FillBackup(k)
  <2>1. ASSUME NEW j \in Jobs, FillBackup(j), NEW k \in Jobs
        PROVE  \/ job'[k] = job[k]
               \/ /\ job[k].at = "writing" /\ k # "command" => job'[k].at = "list"
                  /\ job'[k] \in JobRecord /\ job'[k].doomed = job[k].doomed /\ job'[k].file = job[k].file
                  /\ k = "command" => job'[k].at = "verify" /\ FillBackup(k)
    <3> DEFINE w == IF j = "command" THEN "verify" ELSE "list"
    <3>1. job[j] \in JobRecord /\ job' = [job EXCEPT ![j] = [job[j] EXCEPT !.at = w]]
      BY <1>1, <2>1 DEF BackupShape, FillBackup
    <3> HIDE DEF w
    <3>2. k # j => job'[k] = job[k]
      BY <1>1, <3>1 DEF BackupShape
    <3>3. job'[j] = [job[j] EXCEPT !.at = w] /\ w \in {"verify", "list"}
      BY <1>1, <3>1 DEF BackupShape, w
    <3>4. /\ job'[j] \in JobRecord /\ job'[j].doomed = job[j].doomed /\ job'[j].file = job[j].file
          /\ job'[j].at = w
      BY <3>1, <3>3 DEF JobRecord
    <3> QED
      BY <2>1, <3>2, <3>4 DEF w
  <2>2. ASSUME NEW j \in Jobs, SpoilBackup(j) \/ EndRetention(j), NEW k \in Jobs
        PROVE  job'[k] \in {job[k], NoJob}
    BY <1>1, <2>2 DEF BackupShape, SpoilBackup, EndRetention
  <2>3. ASSUME BackupCrash \/ UNCHANGED backupVars, NEW k \in Jobs
        PROVE  job'[k] \in {job[k], NoJob}
    BY <1>1, <2>3 DEF BackupShape, BackupCrash, backupVars
  <2> QED
    BY <2>1, <2>2, <2>3
<1>5. job' \in [Jobs -> JobRecord]
  <2>1. \E d : job' = [k \in Jobs |-> d[k]]
    BY <1>1 DEF FillBackup, SpoilBackup, EndRetention, BackupCrash, backupVars, BackupShape
  <2> QED
    BY <1>1, <1>4, <2>1, NoJobIsJob DEF BackupShape
<1>6. "command" \in Jobs
  BY DEF Jobs
<1>7. job'["command"].at \in {"writing", "verify"} =>
        job["command"].at \in {"writing", "verify"} /\ job'["command"].file = job["command"].file
  BY <1>4, <1>6, NoJobIsJob DEF FillBackup
<1>8. BackupShape'
  BY <1>1, <1>3, <1>5, <1>7 DEF BackupShape
<1>9. NoneDoomed
  BY <1>4, NoJobIsJob DEF NoneDoomed
<1>10. Fits' /\ OldestFirst' /\ (~dropped' => TooMuch' /\ NewestSpared')
  BY <1>1, <1>2, <1>3, <1>8, <1>9, FilesStay
<1>11. Capped' = Capped
  BY <1>1, <1>3 DEF Capped
<1>12. ASSUME ~dropped' PROVE AllUsable'
  <2> SUFFICES ASSUME NEW f \in Capped PROVE Usable(f)'
    BY <1>11 DEF AllUsable
  <2>1. Usable(f) /\ f \in DOMAIN store
    BY <1>2, <1>12 DEF BackupInv, AllUsable, Capped
  <2>2. CASE store[f].whole
    BY <1>3, <2>1, <2>2 DEF Usable
  <2>3. CASE job["command"].at = "writing" /\ job["command"].file = f
    <3>1. CASE job'["command"] = job["command"]
      BY <2>3, <3>1 DEF Usable
    <3>2. CASE FillBackup("command")
      <4>1. store'[f] = [store[f] EXCEPT !.whole = TRUE]
        BY <2>1, <2>3, <3>2 DEF FillBackup
      <4>2. store[f] \in FileRecord
        BY <1>1, <2>1 DEF BackupShape
      <4> QED
        BY <4>1, <4>2 DEF Usable, FileRecord
    <3>3. CASE job'["command"] # job["command"] /\ ~FillBackup("command")
      <4>1. job["command"].at = "writing" /\ job'["command"] # job["command"] /\ ~FillBackup("command")
        BY <2>3, <3>3
      <4>2. ASSUME NEW j \in Jobs, FillBackup(j) \/ SpoilBackup(j) \/ EndRetention(j), ~dropped'
            PROVE  FALSE
        <5>1. j = "command"
          BY <1>1, <1>6, <4>1, <4>2 DEF FillBackup, SpoilBackup, EndRetention, BackupShape
        <5> QED
          BY <4>1, <4>2, <5>1 DEF SpoilBackup, EndRetention
      <4>3. ASSUME BackupCrash, ~dropped' PROVE FALSE
        BY <1>6, <4>1, <4>3, BackupAssumption DEF BackupCrash
      <4>4. ~(UNCHANGED backupVars)
        BY <4>1 DEF backupVars
      <4> QED
        BY <1>12, <4>2, <4>3, <4>4
    <3> QED
      BY <3>1, <3>2, <3>3
  <2> QED
    BY <2>1, <2>2, <2>3 DEF Usable
<1>13. ~dropped' => Stays'
  BY <1>1, <1>2, <1>11 DEF BackupInv, Stays
<1> QED
  BY <1>8, <1>10, <1>12, <1>13 DEF BackupInv

\* The command's backup is whole, and then it stands; or it is removed, and was lost.
LEMMA VerifyKeeps ==
  ASSUME BackupAssumption, BackupInv, VerifyBackup
  PROVE  BackupInv'
<1> DEFINE f == job["command"].file
<1>1. /\ BackupShape /\ "command" \in Jobs /\ job["command"].at = "verify"
      /\ job' = [job EXCEPT !["command"] = NoJob]
      /\ UNCHANGED <<outsized, begun>> /\ JobRecord' = JobRecord
  BY DEF BackupInv, VerifyBackup, Jobs, JobRecord
<1>2. /\ job' \in [Jobs -> JobRecord] /\ job'["command"] = NoJob
      /\ \A k \in Jobs : k # "command" => job'[k] = job[k]
  BY <1>1, NoJobIsJob, JobGoesOn
<1>3. NoneDoomed /\ job'["command"].at = "idle"
  BY <1>2, NoJobIsJob DEF NoneDoomed
<1>4. CASE f \in DOMAIN store /\ held' = TRUE /\ UNCHANGED <<store, dropped>>
  <2>1. BackupShape'
    BY <1>1, <1>2, <1>3, <1>4 DEF BackupShape
  <2>2. Fits' /\ OldestFirst' /\ (~dropped' => TooMuch' /\ NewestSpared')
    BY <1>1, <1>3, <1>4, <2>1, FilesStay
  <2>3. f \in Capped /\ Capped' = Capped
    BY <1>1, <1>4 DEF BackupShape, Capped
  <2>4. ~dropped' => AllUsable' /\ Stays'
    BY <1>1, <1>4, <2>3 DEF BackupInv, AllUsable, Usable, Stays
  <2> QED
    BY <2>1, <2>2, <2>4 DEF BackupInv
<1>5. CASE store' = Restrict(store, DOMAIN store \ {f}) /\ dropped' = TRUE
  <2>1. DOMAIN store' \subseteq DOMAIN store /\ \A g \in DOMAIN store' : store'[g] = store[g]
    BY <1>5 DEF Restrict
  <2>2. BackupShape'
    BY <1>1, <1>2, <1>3, <2>1 DEF BackupShape
  <2>3. \A g \in Capped' : g \in Capped /\ store'[g] = store[g]
    BY <2>1 DEF Capped
  <2>4. Fits' /\ OldestFirst'
    BY <1>1, <1>3, <2>3 DEF BackupInv, Fits, OldestFirst, NoneDoomed
  <2> QED
    BY <1>5, <2>2, <2>4 DEF BackupInv
<1> QED
  BY <1>4, <1>5 DEF VerifyBackup

\* Among files one is the newest.
LEMMA OneIsNewest ==
  ASSUME BackupShape, Capped # {}
  PROVE  \E f \in Capped : Newest(f)
<1>1. Capped \subseteq Nat /\ IsFiniteSet(Capped)
  BY CappedFiles
<1> QED
  BY <1>1, GreatestOfFinite DEF Newest

LEMMA LaterStill ==
  ASSUME NEW T, T \subseteq Nat, NEW d \in T, NEW f \in T, f < d
  PROVE  \A g \in T : g >= d => g >= f
  OBVIOUS

\* The list: what is over the cap by the sizes seen is so by the full ones, and the newest
\* file is not, being within the cap by itself.
LEMMA ListKeeps ==
  ASSUME BackupAssumption, BackupInv, NEW j \in Jobs, ListForCap(j)
  PROVE  BackupInv'
<1>1. PICK seen \in Seen : job' = [job EXCEPT ![j].at = "trim", ![j].doomed = OverCap(seen)]
  BY DEF ListForCap
<1>2. /\ BackupShape /\ job[j].at = "list" /\ UNCHANGED <<store, held, dropped, outsized, begun>>
      /\ JobRecord' = JobRecord /\ Cap \in Nat
  BY DEF BackupInv, ListForCap, JobRecord, BackupAssumption
<1> DEFINE D == OverCap(seen)
           q == [job[j] EXCEPT !.at = "trim", !.doomed = D]
<1>3. /\ IsFiniteSet(Capped) /\ Capped \subseteq Nat
      /\ \A f \in Capped : f \in 1..begun /\ store[f].size \in Nat /\ Full[f] = store[f].size
  BY <1>2, CappedFiles
<1>4. \A f \in Capped : seen[f] \in Nat /\ seen[f] <= Full[f]
  <2> TAKE f \in Capped
  <2>1. seen[f] \in UNION {0..n : n \in Sizes} /\ (seen[f] = Full[f] \/ seen[f] <= Full[f])
    BY DEF Seen
  <2>2. seen[f] \in Nat
    BY <2>1, BackupAssumption DEF BackupAssumption
  <2> QED
    BY <1>3, <2>1, <2>2
<1>5. /\ D \subseteq Capped
      /\ \A f \in Capped : f \in D <=> Cap > 0 /\ Volume(From(f), seen) > Cap
  BY DEF OverCap, From
<1>6. \A f \in Capped : From(f) \subseteq Capped /\ IsFiniteSet(From(f))
  <2> TAKE f \in Capped
  <2>1. From(f) \subseteq Capped
    BY DEF From
  <2> QED
    BY <1>3, <2>1, FS_Subset
<1>7. \A f \in Capped : Volume(From(f), seen) \in Nat /\ Volume(From(f), Full) \in Nat
  BY <1>2, <1>4, <1>6, VolumeFinite, FromFinite
<1> HIDE DEF D
<1>8. q \in JobRecord /\ q.doomed = D /\ q.at = "trim" /\ job[j] \in JobRecord
  BY <1>2, <1>3, <1>5 DEF JobRecord, BackupShape
<1>9. job' = [job EXCEPT ![j] = q]
  BY <1>1, <1>8 DEF D, JobRecord
<1> HIDE DEF q
<1>10. job' \in [Jobs -> JobRecord] /\ job'[j] = q /\ \A k \in Jobs : k # j => job'[k] = job[k]
  BY <1>2, <1>8, <1>9, JobGoesOn
<1>11. /\ job'["command"].at \in {"writing", "verify"} => job'["command"] = job["command"]
       /\ job["command"].at = "writing" => job'["command"] = job["command"]
  BY <1>2, <1>8, <1>10 DEF Jobs
<1>12. BackupShape'
  BY <1>2, <1>10, <1>11 DEF BackupShape
<1>13. Capped' = Capped /\ Full' = Full
  BY <1>2 DEF Capped, Full
<1>14. Fits'
  BY <1>2, <1>13 DEF BackupInv, Fits
<1>15. OldestFirst'
  <2> SUFFICES ASSUME NEW k \in Jobs, NEW d \in job'[k].doomed, NEW f \in Capped, f < d
               PROVE  f \in job'[k].doomed
    BY <1>13 DEF OldestFirst
  <2>1. CASE k = j
    <3>1. d \in D /\ d \in Capped
      BY <1>5, <1>8, <1>10, <2>1
    <3>2. From(d) \subseteq From(f)
      <4>1. \A g \in Capped : g >= d => g >= f
        BY <1>3, <3>1, LaterStill
      <4> QED
        BY <4>1 DEF From
    <3>3. Volume(From(d), seen) <= Volume(From(f), seen)
      BY <1>4, <1>6, <3>1, <3>2, VolumeGrows
    <3>4. Cap > 0 /\ Volume(From(d), seen) > Cap
      BY <1>5, <3>1
    <3>5. Volume(From(f), seen) > Cap
      BY <1>2, <1>7, <3>1, <3>3, <3>4
    <3> QED
      BY <1>5, <1>8, <1>10, <2>1, <3>4, <3>5
  <2>2. CASE k # j
    BY <1>10, <2>2 DEF BackupInv, OldestFirst
  <2> QED
    BY <2>1, <2>2
<1>16. ASSUME ~dropped' PROVE TooMuch'
  <2> SUFFICES ASSUME NEW k \in Jobs, NEW f \in job'[k].doomed \cap Capped
               PROVE  Volume(From(f)', Full') > Cap
    BY <1>13 DEF TooMuch
  <2>1. From(f)' = From(f)
    BY <1>13 DEF From
  <2>2. CASE k = j
    <3>1. f \in D /\ Volume(From(f), seen) > Cap
      BY <1>5, <1>8, <1>10, <2>2
    <3>2. \A g \in From(f) : Full[g] \in Nat /\ seen[g] \in Nat /\ seen[g] <= Full[g]
      BY <1>3, <1>4, <1>6
    <3>3. Volume(From(f), seen) <= Volume(From(f), Full)
      BY <1>6, <3>2, VolumeGrows
    <3>4. Volume(From(f), Full) > Cap
      BY <1>2, <1>7, <3>1, <3>3
    <3> QED
      BY <1>13, <2>1, <3>4
  <2>3. CASE k # j
    <3>1. f \in job[k].doomed \cap Capped /\ TooMuch
      BY <1>2, <1>10, <1>16, <2>3 DEF BackupInv
    <3> QED
      BY <1>13, <2>1, <3>1 DEF TooMuch
  <2> QED
    BY <2>2, <2>3
<1>17. ASSUME ~dropped' PROVE NewestSpared'
  <2> SUFFICES ASSUME ~outsized, NEW f \in Capped, Newest(f), NEW k \in Jobs, f \in job'[k].doomed
               PROVE  FALSE
    BY <1>2, <1>13 DEF NewestSpared, Newest
  <2>1. CASE k = j
    <3>1. Cap > 0 /\ Volume(From(f), seen) > Cap
      BY <1>5, <1>8, <1>10, <2>1
    <3>2. From(f) = {f}
      <4>1. f \in Nat /\ (\A g \in Capped : g \in Nat) /\ \A g \in Capped : g <= f
        BY <1>3 DEF Newest
      <4>2. \A g \in Capped : g >= f <=> g = f
        BY <4>1
      <4> QED
        BY <4>2 DEF From
    <3>3. Volume({f}, seen) = seen[f]
      BY <1>4, VolumeOfOne
    <3>4. store[f].size <= Cap
      BY <3>1 DEF BackupInv, Fits
    <3>5. seen[f] \in Nat /\ seen[f] <= store[f].size /\ store[f].size \in Nat
      BY <1>3, <1>4
    <3>6. seen[f] > Cap
      BY <3>1, <3>2, <3>3
    <3> QED
      BY <1>2, <3>4, <3>5, <3>6
  <2>2. CASE k # j
    BY <1>2, <1>10, <1>17, <2>2 DEF BackupInv, NewestSpared
  <2> QED
    BY <2>1, <2>2
<1>18. ~dropped' => AllUsable' /\ Stays'
  BY <1>2, <1>11, <1>13 DEF BackupInv, AllUsable, Usable, Stays
<1> QED
  BY <1>12, <1>14, <1>15, <1>16, <1>17, <1>18 DEF BackupInv

\* A removal: of the files there, what a job removes is older than what any other job has
\* yet to remove, and never the newest; a removal that fails ends the job.
LEMMA RemoveKeeps ==
  ASSUME BackupAssumption, BackupInv, NEW j \in Jobs, RemoveOldest(j)
  PROVE  BackupInv'
<1>1. PICK f \in job[j].doomed :
        /\ \A g \in job[j].doomed : f <= g
        /\ \/ /\ store' = Restrict(store, DOMAIN store \ {f})
              /\ job' = [job EXCEPT ![j].doomed = @ \ {f}]
           \/ job' = [job EXCEPT ![j] = NoJob] /\ UNCHANGED store
  BY DEF RemoveOldest
<1>2. /\ BackupShape /\ job[j].at = "trim" /\ UNCHANGED <<held, dropped, outsized, begun>>
      /\ JobRecord' = JobRecord /\ job[j] \in JobRecord
  BY DEF BackupInv, BackupShape, RemoveOldest, JobRecord
<1>3. CASE job' = [job EXCEPT ![j] = NoJob] /\ UNCHANGED store
  <2>1. /\ job' \in [Jobs -> JobRecord] /\ job'[j] = NoJob
        /\ \A k \in Jobs : k # j => job'[k] = job[k]
    BY <1>2, <1>3, NoJobIsJob, JobGoesOn
  <2>2. /\ NoneDoomed
        /\ job'["command"].at \in {"writing", "verify"} => job'["command"] = job["command"]
        /\ job["command"].at = "writing" => job'["command"] = job["command"]
    BY <1>2, <2>1, NoJobIsJob DEF NoneDoomed, Jobs
  <2>3. BackupShape'
    BY <1>2, <1>3, <2>1, <2>2 DEF BackupShape
  <2>4. Fits' /\ OldestFirst' /\ (~dropped' => TooMuch' /\ NewestSpared')
    BY <1>2, <1>3, <2>2, <2>3, FilesStay
  <2>5. ~dropped' => AllUsable' /\ Stays'
    BY <1>2, <1>3, <2>2 DEF BackupInv, AllUsable, Usable, Stays, Capped
  <2> QED
    BY <2>3, <2>4, <2>5 DEF BackupInv
<1>4. CASE /\ store' = Restrict(store, DOMAIN store \ {f})
           /\ job' = [job EXCEPT ![j].doomed = @ \ {f}]
  <2> DEFINE q == [job[j] EXCEPT !.doomed = job[j].doomed \ {f}]
  <2>1. q \in JobRecord /\ q.doomed = job[j].doomed \ {f} /\ q.at = "trim"
    BY <1>2 DEF JobRecord
  <2>2. job' = [job EXCEPT ![j] = q]
    BY <1>4
  <2> HIDE DEF q
  <2>3. job' \in [Jobs -> JobRecord] /\ job'[j] = q /\ \A k \in Jobs : k # j => job'[k] = job[k]
    BY <1>2, <2>1, <2>2, JobGoesOn
  <2>4. /\ job'["command"].at \in {"writing", "verify"} => job'["command"] = job["command"]
        /\ job["command"].at = "writing" => job'["command"] = job["command"]
    BY <1>2, <2>1, <2>3 DEF Jobs
  <2>5. /\ DOMAIN store' = DOMAIN store \ {f}
        /\ \A g \in DOMAIN store' : store'[g] = store[g]
    BY <1>4 DEF Restrict
  <2>6. BackupShape'
    BY <1>2, <2>3, <2>4, <2>5 DEF BackupShape
  <2>7. Capped' = Capped \ {f} /\ \A g \in Capped' : store'[g] = store[g]
    BY <2>5 DEF Capped
  <2>8. \A k \in Jobs : /\ job'[k].doomed \subseteq job[k].doomed
                        /\ job[k].doomed \subseteq job'[k].doomed \cup {f}
    BY <2>1, <2>3
  <2>9. Capped \subseteq Nat /\ f \in Nat
    BY <1>2, CappedFiles DEF JobRecord
  <2>10. Fits' /\ OldestFirst'
    BY <1>2, <2>7, <2>8 DEF BackupInv, Fits, OldestFirst
  <2>11. ASSUME ~dropped' PROVE TooMuch'
    <3> SUFFICES ASSUME NEW k \in Jobs, NEW g \in job'[k].doomed \cap Capped'
                 PROVE  Volume(From(g)', Full') > Cap
      BY DEF TooMuch
    <3>1. g \in Capped /\ g # f /\ g \in job[k].doomed /\ TooMuch
      BY <1>2, <2>7, <2>8, <2>11 DEF BackupInv
    <3>2. ~(g < f)
      <4>1. g < f => g \in job[j].doomed
        BY <3>1 DEF BackupInv, OldestFirst
      <4>2. g < f => f <= g
        BY <1>1, <4>1
      <4>3. g \in Nat /\ f \in Nat
        BY <2>9, <3>1
      <4> QED
        BY <4>2, <4>3
    <3>3. \A h \in Capped : h >= g => h \in Capped' /\ store'[h].size = store[h].size
      <4>1. f \in Nat /\ g \in Nat /\ g # f /\ ~(g < f)
        BY <2>9, <3>1, <3>2
      <4>2. \A h \in Nat : h >= g => h # f
        BY <4>1
      <4>3. \A h \in Capped : h >= g => h # f
        BY <2>9, <4>2
      <4> QED
        BY <2>7, <4>3
    <3>4. Volume(From(g), Full) > Cap /\ Volume(From(g), Full) <= Volume(From(g)', Full')
      BY <1>2, <2>6, <3>1, <3>3, StillTooMuch DEF TooMuch
    <3>5. Volume(From(g), Full) \in Nat /\ Volume(From(g)', Full') \in Nat /\ Cap \in Nat
      BY <1>2, <2>6, FromFinite, FromFiniteNext, BackupAssumption DEF BackupAssumption
    <3> QED
      BY <3>4, <3>5
  <2>12. ASSUME ~dropped', ~outsized, Capped # {}
         PROVE  \E n \in Capped' : Newest(n) /\ \A k \in Jobs : n \notin job[k].doomed
    <3>1. PICK n \in Capped : Newest(n)
      BY <1>2, <2>12, OneIsNewest
    <3>2. \A k \in Jobs : n \notin job[k].doomed
      BY <1>2, <2>12, <3>1 DEF BackupInv, NewestSpared
    <3> QED
      BY <1>1, <2>7, <3>1, <3>2
  <2>13. ASSUME ~dropped' PROVE NewestSpared'
    <3> SUFFICES ASSUME ~outsized, NEW g \in Capped', Newest(g)', NEW k \in Jobs, g \in job'[k].doomed
                 PROVE  FALSE
      BY <1>2 DEF NewestSpared
    <3>1. PICK n \in Capped' : Newest(n) /\ \A i \in Jobs : n \notin job[i].doomed
      BY <2>7, <2>12, <2>13
    <3>2. n <= g /\ g <= n /\ n \in Nat /\ g \in Nat
      BY <2>7, <2>9, <3>1 DEF Newest
    <3>3. n = g
      BY <3>2
    <3> QED
      BY <2>8, <3>1, <3>3
  <2>14. ~dropped' => AllUsable'
    BY <1>2, <2>4, <2>7 DEF BackupInv, AllUsable, Usable
  <2>15. ~dropped' => Stays'
    BY <1>2, <2>12 DEF BackupInv, Stays
  <2> QED
    BY <2>6, <2>10, <2>11, <2>13, <2>14, <2>15 DEF BackupInv
<1> QED
  BY <1>1, <1>3, <1>4

\* The size cap takes no more than it has to and leaves a backup that is whole or being
\* written, for any jobs listing and removing files at once, any sizes, cap and crashes of
\* the server (enforceSizeCap).  Two jobs with other lists both remove the oldest first, so
\* what one finds gone it gives up at, and what it finds is older than what the other has
\* left: that is the invariant, with the newest file on no list.
THEOREM BackupStays == BackupSpec => []UsableKept
<1> USE BackupAssumption
<1>1. BackupInit => BackupInv
  <2> SUFFICES ASSUME BackupInit PROVE BackupInv
    OBVIOUS
  <2>1. begun = 0 /\ DOMAIN store = {} /\ job = [j \in Jobs |-> NoJob] /\ held = FALSE
    BY DEF BackupInit
  <2>2. (\A j \in Jobs : job[j] = NoJob) /\ "command" \in Jobs
    BY <2>1 DEF Jobs
  <2>3. BackupShape
    BY <2>1, <2>2, NoJobIsJob DEF BackupShape
  <2>4. Capped = {}
    BY <2>1 DEF Capped
  <2> QED
    BY <2>1, <2>2, <2>3, <2>4, NoJobIsJob DEF BackupInv, Fits, OldestFirst, TooMuch, NewestSpared,
       AllUsable, Stays
<1>2. BackupInv /\ [BackupNext]_backupVars => BackupInv'
  BY CreateKeeps, JobsGoOn, VerifyKeeps, ListKeeps, RemoveKeeps DEF BackupNext
<1>3. BackupInv => UsableKept
  <2> SUFFICES ASSUME BackupInv, ~dropped
               PROVE  /\ \A j \in ServerJobs : \A f \in job[j].doomed \cap Capped :
                           Volume(From(f), Full) > Cap
                      /\ held /\ ~outsized => \E f \in Capped : Usable(f)
    BY DEF UsableKept, From, Usable
  <2>1. \A j \in ServerJobs : j \in Jobs
    BY DEF Jobs
  <2> QED
    BY <2>1 DEF BackupInv, TooMuch, AllUsable, Stays
<1> QED
  BY <1>1, <1>2, <1>3, PTL DEF BackupSpec

(***************************************************************************)
(* Restore, for any number of backups, commits, restores and crashes.      *)
(***************************************************************************)

\* What the database and an archive may hold.
Files == [main : Nat, wal : Nat, base : Nat]
Archived == [cfg : Nat, db : Files, held : Nat, logged : BOOLEAN, readable : BOOLEAN,
             sound : BOOLEAN]

\* What making[m] and restore may be.
MakeRecord == [at : {"idle", "reading", "writing"}, archive : Archived]
RestoreRecord ==
  [at : {"idle", "copying", "config", "copied", "database", "done", "failed"},
   archive : Archived, cfg : Nat, held : Nat, quiet : BOOLEAN]

\* An archive that nothing has crossed holds what was committed, in server.db or, if the
\* log was archived with it, in both.
Honest(a) == a.sound => Held(a.db) = a.held /\ (a.db.wal # 0 => a.logged)

ArchivesHonest ==
  /\ \A a \in backups : a \in Archived /\ Honest(a)
  /\ \A m \in Makers : Honest(making[m].archive)

\* A restore that is alone works on a stopped server, from an archive that is sound;
\* what it has copied is in place.
RestoreAlone ==
  restore.at # "idle" /\ restore.quiet =>
    /\ ~up /\ restore.archive.sound /\ Honest(restore.archive)
    /\ restore.at \in {"copying", "config", "copied", "database"} => db.wal = 0
    /\ restore.at \in {"copied", "database", "done"} => cfg = restore.archive.cfg
    /\ restore.at = "done" => Held(db) = restore.archive.held

RestoreShape ==
  /\ db \in Files /\ cfg \in Nat /\ commits \in Nat
  /\ making \in [Makers -> MakeRecord] /\ restore \in RestoreRecord

RestoreInv == RestoreShape /\ ArchivesHonest /\ RestoreAlone
-----------------------------------------------------------------------------
\* What SQLite reads is a version, and NoArchive is an archive.
LEMMA HeldIsVersion ==
  /\ Broken \in Nat
  /\ \A d \in Files : Held(d) \in Nat
  /\ NoArchive \in Archived /\ ~NoArchive.sound /\ Honest(NoArchive)
<1>1. Broken \in Nat
  BY RestoreAssumption DEF Broken
<1>2. \A d \in Files : Held(d) \in Nat
  BY <1>1 DEF Held, Files
<1>3. NoArchive \in Archived /\ ~NoArchive.sound
  BY DEF NoArchive, Archived, Files
<1> QED
  BY <1>1, <1>2, <1>3 DEF Honest

\* What a write crosses is no longer sound, and the rest is as it was.
LEMMA CrossKeeps ==
  ASSUME making \in [Makers -> MakeRecord], \A m \in Makers : Honest(making[m].archive), Crossed
  PROVE  making' \in [Makers -> MakeRecord] /\ \A m \in Makers : Honest(making'[m].archive)
<1>1. ASSUME NEW m \in Makers
      PROVE  making'[m] \in MakeRecord /\ Honest(making'[m].archive)
  <2>1. making[m] \in MakeRecord /\ making[m].archive \in Archived /\ Honest(making[m].archive)
    BY DEF MakeRecord
  <2>2. CASE making[m].at = "reading"
    <3> DEFINE q == [making[m] EXCEPT !.archive.sound = FALSE]
    <3>1. making'[m] = q
      BY <2>2 DEF Crossed
    <3>2. q \in MakeRecord /\ ~q.archive.sound
      BY <2>1 DEF MakeRecord, Archived
    <3> HIDE DEF q
    <3> QED
      BY <3>1, <3>2 DEF Honest
  <2>3. CASE making[m].at # "reading"
    BY <2>1, <2>3 DEF Crossed
  <2> QED
    BY <2>2, <2>3
<1>2. making' = [m \in Makers |-> making'[m]]
  BY DEF Crossed
<1> QED
  BY <1>1, <1>2

\* A restore that is disturbed is a restore still, and not alone.
LEMMA DisturbKeeps ==
  ASSUME restore \in RestoreRecord, Disturbed
  PROVE  restore' \in RestoreRecord /\ ~restore'.quiet
BY DEF Disturbed, RestoreRecord

\* The server commits, checkpoints, stops and starts; the operator edits.
LEMMA WritersKeep ==
  ASSUME RestoreInv, Commit \/ Checkpoint \/ StopOrStart \/ EditConfig PROVE RestoreInv'
<1>0. RestoreShape /\ ArchivesHonest /\ RestoreAlone
  BY DEF RestoreInv
<1>1. restore' \in RestoreRecord /\ ~restore'.quiet
  BY <1>0, DisturbKeeps DEF Commit, Checkpoint, StopOrStart, EditConfig, RestoreShape
<1>2. making' \in [Makers -> MakeRecord] /\ \A m \in Makers : Honest(making'[m].archive)
  BY <1>0, CrossKeeps
     DEF Commit, Checkpoint, StopOrStart, EditConfig, RestoreShape, ArchivesHonest
<1>3. db' \in Files /\ cfg' \in Nat /\ commits' \in Nat /\ UNCHANGED backups
  BY <1>0 DEF Commit, Checkpoint, StopOrStart, EditConfig, RestoreShape, Files
<1> QED
  BY <1>0, <1>1, <1>2, <1>3 DEF RestoreInv, RestoreShape, ArchivesHonest, RestoreAlone

\* An archive begins honest: sound only if nothing committed is left out.
LEMMA ReadKeepsHonest ==
  ASSUME RestoreInv, NEW m \in Makers, ReadFiles(m) PROVE RestoreInv'
<1>0. RestoreShape /\ ArchivesHonest /\ RestoreAlone
  BY DEF RestoreInv
<1>1. UNCHANGED <<cfg, db, up, backups, restore, commits>>
  BY DEF ReadFiles
<1>2. PICK r \in BOOLEAN :
        making' = [making EXCEPT ![m] =
          [at |-> "reading",
           archive |-> [cfg |-> cfg, db |-> db, held |-> Held(db), logged |-> m = "server",
                        readable |-> r, sound |-> Sound /\ (m = "server" \/ db.wal = 0)]]]
  BY DEF ReadFiles
<1> DEFINE a == [cfg |-> cfg, db |-> db, held |-> Held(db), logged |-> m = "server",
                 readable |-> r, sound |-> Sound /\ (m = "server" \/ db.wal = 0)]
           q == [at |-> "reading", archive |-> a]
<1>3. Honest(a)
  BY DEF Honest
<1>4. a \in Archived
  <2>1. db \in Files /\ cfg \in Nat /\ Held(db) \in Nat
    BY <1>0, HeldIsVersion DEF RestoreShape
  <2>2. (m = "server") \in BOOLEAN /\ (Sound /\ (m = "server" \/ db.wal = 0)) \in BOOLEAN
    OBVIOUS
  <2> QED
    BY <2>1, <2>2 DEF Archived
<1>5. making' = [making EXCEPT ![m] = q]
  BY <1>2
<1> HIDE DEF a
<1>6. q \in MakeRecord /\ q.archive = a
  BY <1>4 DEF MakeRecord
<1> HIDE DEF q
<1>7. making' \in [Makers -> MakeRecord] /\ \A n \in Makers : making'[n] = making[n] \/ making'[n] = q
  BY <1>0, <1>5, <1>6 DEF RestoreShape
<1>8. ArchivesHonest'
  BY <1>0, <1>1, <1>3, <1>6, <1>7 DEF ArchivesHonest
<1>9. RestoreAlone' /\ RestoreShape'
  BY <1>0, <1>1, <1>7 DEF RestoreAlone, RestoreShape
<1> QED
  BY <1>8, <1>9 DEF RestoreInv

\* The backup is written out.
LEMMA WriteKeepsHonest ==
  ASSUME RestoreInv, NEW m \in Makers, WriteBackup(m) PROVE RestoreInv'
<1>0. RestoreShape /\ ArchivesHonest /\ RestoreAlone
  BY DEF RestoreInv
<1>1. UNCHANGED <<cfg, db, up, restore, commits>> /\ making[m] \in MakeRecord
  BY <1>0 DEF WriteBackup, RestoreShape
<1>2. PICK q \in MakeRecord :
        /\ making' = [making EXCEPT ![m] = q] /\ Honest(q.archive)
        /\ backups' \in {backups, backups \cup {making[m].archive}}
  <2>1. CASE making[m].at = "reading"
    <3> DEFINE q == [making[m] EXCEPT !.at = "writing"]
    <3>1. making' = [making EXCEPT ![m] = q] /\ UNCHANGED backups
      BY <2>1 DEF WriteBackup
    <3>2. q \in MakeRecord /\ q.archive = making[m].archive
      BY <1>1 DEF MakeRecord
    <3> HIDE DEF q
    <3> QED
      BY <1>0, <3>1, <3>2 DEF ArchivesHonest
  <2>2. CASE making[m].at # "reading"
    <3>1. NotMaking \in MakeRecord /\ NotMaking.archive = NoArchive
      BY HeldIsVersion DEF NotMaking, MakeRecord
    <3> QED
      BY <2>2, <3>1, HeldIsVersion DEF WriteBackup
  <2> QED
    BY <2>1, <2>2
<1>3. making' \in [Makers -> MakeRecord] /\ \A n \in Makers : making'[n] = making[n] \/ making'[n] = q
  BY <1>0, <1>2 DEF RestoreShape
<1>4. making[m].archive \in Archived /\ Honest(making[m].archive)
  BY <1>0, <1>1 DEF MakeRecord, ArchivesHonest
<1>5. ArchivesHonest'
  BY <1>0, <1>2, <1>3, <1>4 DEF ArchivesHonest
<1>6. RestoreAlone' /\ RestoreShape'
  BY <1>0, <1>1, <1>3 DEF RestoreAlone, RestoreShape
<1> QED
  BY <1>5, <1>6 DEF RestoreInv

\* A restore begins: alone if the server is stopped, its log gone, the archive sound.
LEMMA BeginKeeps ==
  ASSUME RestoreInv, BeginRestore PROVE RestoreInv'
<1>0. RestoreShape /\ ArchivesHonest /\ RestoreAlone
  BY DEF RestoreInv
<1>1. UNCHANGED <<cfg, db, up, backups, making, commits>>
  BY DEF BeginRestore
<1>2. PICK a \in backups :
        restore' = [at |-> "copying", archive |-> a, cfg |-> cfg, held |-> Held(db),
                    quiet |-> ~up /\ db.wal = 0 /\ a.sound]
  BY DEF BeginRestore
<1>3. a \in Archived /\ Honest(a) /\ cfg \in Nat /\ Held(db) \in Nat
  BY <1>0, HeldIsVersion DEF ArchivesHonest, RestoreShape
<1>4. (~up /\ db.wal = 0 /\ a.sound) \in BOOLEAN
  OBVIOUS
<1>5. restore' \in RestoreRecord
  BY <1>2, <1>3, <1>4 DEF RestoreRecord
<1>6. /\ restore'.at = "copying" /\ restore'.archive = a
      /\ restore'.quiet <=> ~up /\ db.wal = 0 /\ a.sound
  BY <1>2
<1>7. RestoreAlone'
  BY <1>1, <1>3, <1>6 DEF RestoreAlone
<1> QED
  BY <1>0, <1>1, <1>5, <1>7 DEF RestoreInv, RestoreShape, ArchivesHonest

\* A copying step, and what it brings.
LEMMA CopyKeeps ==
  ASSUME RestoreInv, RestoreConfig \/ RestoreDatabase PROVE RestoreInv'
<1>0. RestoreShape /\ ArchivesHonest /\ RestoreAlone
  BY DEF RestoreInv
<1>1. UNCHANGED <<up, backups, commits>> /\ Crossed
  BY DEF RestoreConfig, RestoreDatabase
<1>2. making' \in [Makers -> MakeRecord] /\ \A m \in Makers : Honest(making'[m].archive)
  BY <1>0, <1>1, CrossKeeps DEF RestoreShape, ArchivesHonest
<1>3. PICK w \in {"config", "copied", "database", "done"} : restore' = [restore EXCEPT !.at = w]
  BY DEF RestoreConfig, RestoreDatabase
<1>4. /\ restore' \in RestoreRecord /\ restore'.at = w /\ restore'.archive = restore.archive
      /\ restore'.quiet = restore.quiet
  BY <1>0, <1>3 DEF RestoreShape, RestoreRecord
<1>5. restore.archive \in Archived /\ restore.archive.cfg \in Nat /\ restore.archive.db \in Files
      /\ restore.archive.db.main \in Nat
  BY <1>0 DEF RestoreShape, RestoreRecord, Archived, Files
<1>6. CASE RestoreConfig
  <2>1. UNCHANGED db /\ cfg' \in Nat
    BY <1>5, <1>6, HeldIsVersion DEF RestoreConfig
  <2>2. \/ restore.at = "copying" /\ w = "config"
        \/ restore.at = "config" /\ w = "copied" /\ cfg' = restore.archive.cfg
    BY <1>4, <1>6 DEF RestoreConfig, RestoreShape, RestoreRecord
  <2>3. RestoreAlone'
    BY <1>0, <1>1, <1>4, <2>1, <2>2 DEF RestoreAlone
  <2> QED
    BY <1>0, <1>1, <1>2, <1>4, <2>1, <2>3 DEF RestoreInv, RestoreShape, ArchivesHonest
<1>7. CASE RestoreDatabase
  <2>1. UNCHANGED cfg
    BY <1>7 DEF RestoreDatabase
  <2>2. CASE restore.at = "copied"
    <3>1. UNCHANGED db /\ w = "database"
      BY <1>0, <1>3, <1>4, <1>7, <2>2 DEF RestoreDatabase, RestoreShape, RestoreRecord
    <3>2. RestoreAlone'
      BY <1>0, <1>1, <1>4, <2>1, <2>2, <3>1 DEF RestoreAlone
    <3> QED
      BY <1>0, <1>1, <1>2, <1>4, <2>1, <3>1, <3>2 DEF RestoreInv, RestoreShape, ArchivesHonest
  <2>3. CASE restore.at # "copied"
    <3> DEFINE a == restore.archive
    <3>1. /\ restore.at = "database" /\ w = "done"
          /\ db' = IF a.logged /\ a.db.wal # 0 THEN a.db ELSE [db EXCEPT !.main = a.db.main]
      BY <1>0, <1>3, <1>4, <1>7, <2>3 DEF RestoreDatabase, RestoreShape, RestoreRecord
    <3>2. db \in Files
      BY <1>0 DEF RestoreShape
    <3>3. db' \in Files
      BY <1>5, <3>1, <3>2 DEF Files
    <3>4. ASSUME restore.quiet PROVE Held(db') = a.held
      <4>1. a.sound /\ Honest(a) /\ db.wal = 0
        BY <1>0, <3>1, <3>4 DEF RestoreAlone
      <4>2. CASE a.db.wal # 0
        BY <3>1, <4>1, <4>2 DEF Honest
      <4>3. CASE a.db.wal = 0
        <5>1. db' = [db EXCEPT !.main = a.db.main]
          BY <3>1, <4>3
        <5>2. db'.wal = 0 /\ db'.main = a.db.main
          BY <3>2, <4>1, <5>1 DEF Files
        <5> QED
          BY <4>1, <4>3, <5>2 DEF Held, Honest
      <4> QED
        BY <4>2, <4>3
    <3>5. RestoreAlone'
      BY <1>0, <1>1, <1>4, <2>1, <3>1, <3>4 DEF RestoreAlone
    <3> QED
      BY <1>0, <1>1, <1>2, <1>4, <2>1, <3>3, <3>5 DEF RestoreInv, RestoreShape, ArchivesHonest
  <2> QED
    BY <2>2, <2>3
<1> QED
  BY <1>6, <1>7

\* A restore ends; the server is killed.
LEMMA EndsKeep ==
  ASSUME RestoreInv, RestoreFails \/ EndRestore \/ RestoreCrash PROVE RestoreInv'
<1>0. RestoreShape /\ ArchivesHonest /\ RestoreAlone
  BY DEF RestoreInv
<1>1. UNCHANGED <<cfg, db, backups, commits>>
  BY DEF RestoreFails, EndRestore, RestoreCrash
<1>2. CASE RestoreFails
  <2>1. UNCHANGED <<up, making>> /\ restore' = [restore EXCEPT !.at = "failed"]
    BY <1>2 DEF RestoreFails
  <2>2. /\ restore' \in RestoreRecord /\ restore'.at = "failed" /\ restore'.archive = restore.archive
        /\ restore'.quiet = restore.quiet /\ restore.at # "idle"
    BY <1>0, <1>2, <2>1 DEF RestoreShape, RestoreRecord, RestoreFails
  <2>3. RestoreAlone'
    BY <1>0, <1>1, <2>1, <2>2 DEF RestoreAlone
  <2> QED
    BY <1>0, <1>1, <2>1, <2>2, <2>3 DEF RestoreInv, RestoreShape, ArchivesHonest
<1>3. CASE EndRestore
  <2>1. UNCHANGED <<up, making>> /\ restore' = NoRestore
    BY <1>3 DEF EndRestore
  <2>2. NoRestore \in RestoreRecord /\ NoRestore.at = "idle"
    BY HeldIsVersion DEF NoRestore, RestoreRecord
  <2> QED
    BY <1>0, <1>1, <2>1, <2>2 DEF RestoreInv, RestoreShape, ArchivesHonest, RestoreAlone
<1>4. CASE RestoreCrash
  <2>1. /\ up /\ UNCHANGED restore
        /\ making' = [m \in Makers |-> IF m = "server" THEN NotMaking ELSE making[m]]
    BY <1>4 DEF RestoreCrash
  <2>2. NotMaking \in MakeRecord /\ Honest(NotMaking.archive)
    BY HeldIsVersion DEF NotMaking, MakeRecord
  <2>3. making' \in [Makers -> MakeRecord] /\ \A m \in Makers : Honest(making'[m].archive)
    BY <1>0, <2>1, <2>2 DEF RestoreShape, ArchivesHonest
  <2>4. RestoreAlone'
    BY <1>0, <2>1 DEF RestoreAlone
  <2> QED
    BY <1>0, <1>1, <2>1, <2>3, <2>4 DEF RestoreInv, RestoreShape, ArchivesHonest
<1> QED
  BY <1>2, <1>3, <1>4

(***************************************************************************)
(* A restore on a stopped server that left no log, from an archive that no *)
(* write has crossed, brings back server.yml and the database as committed *)
(* when the archive was begun (buildContentArchive, performRestore).       *)
(***************************************************************************)
THEOREM RestoreBringsBack == RestoreSpec => []RestoreFaithful
<1>1. RestoreInit => RestoreInv
  <2> SUFFICES ASSUME RestoreInit PROVE RestoreInv
    OBVIOUS
  <2>1. NotMaking \in MakeRecord /\ Honest(NotMaking.archive)
    BY HeldIsVersion DEF NotMaking, MakeRecord
  <2>2. NoRestore \in RestoreRecord /\ NoRestore.at = "idle"
    BY HeldIsVersion DEF NoRestore, RestoreRecord
  <2>3. db \in Files /\ cfg \in Nat /\ commits \in Nat /\ making \in [Makers -> MakeRecord]
    BY <2>1 DEF RestoreInit, Files
  <2> QED
    BY <2>1, <2>2, <2>3 DEF RestoreInit, RestoreInv, RestoreShape, ArchivesHonest, RestoreAlone
<1>2. RestoreInv /\ [RestoreNext]_restoreVars => RestoreInv'
  <2> SUFFICES ASSUME RestoreInv, [RestoreNext]_restoreVars PROVE RestoreInv'
    OBVIOUS
  <2>1. CASE Commit \/ Checkpoint \/ StopOrStart \/ EditConfig
    BY <2>1, WritersKeep
  <2>2. ASSUME NEW m \in Makers, ReadFiles(m) \/ WriteBackup(m) PROVE RestoreInv'
    BY <2>2, ReadKeepsHonest, WriteKeepsHonest
  <2>3. CASE BeginRestore
    BY <2>3, BeginKeeps
  <2>4. CASE RestoreConfig \/ RestoreDatabase
    BY <2>4, CopyKeeps
  <2>5. CASE RestoreFails \/ EndRestore \/ RestoreCrash
    BY <2>5, EndsKeep
  <2>6. CASE UNCHANGED restoreVars
    BY <2>6 DEF restoreVars, RestoreInv, RestoreShape, ArchivesHonest, RestoreAlone
  <2> QED
    BY <2>1, <2>2, <2>3, <2>4, <2>5, <2>6 DEF RestoreNext
<1>3. RestoreInv => RestoreFaithful
  BY DEF RestoreInv, RestoreAlone, RestoreFaithful
<1> QED
  BY <1>1, <1>2, <1>3, PTL DEF RestoreSpec


(***************************************************************************)
(* ServiceManager, for any names, free numbers and faults.                 *)
(***************************************************************************)

\* The steps of an installation, and those of the other commands.
BuildSteps == {"group", "user", "write", "rescan", "try rescan", "enable", "load", "start"}
OtherSteps == {"try stop", "try remove", "try disable", "try unload", "unload", "disable",
               "start", "stop", "restart", "reload"}
ServiceRecord == [name : Names \cup {"none"}, scope : Scopes, todo : Seq(BuildSteps \cup OtherSteps),
                  outcome : {"ok", "error", "refused", "under way"}, fault : BOOLEAN,
                  skipped : BOOLEAN, id : SystemIDs \cup {NoID}]

\* A step is among those still to do.
Ahead(todo, step) == \E i \in 1..Len(todo) : todo[i] = step

ServiceShape ==
  /\ manager \in Managers /\ gid \in SystemIDs \cup {NoID} /\ uid \in SystemIDs \cup {NoID}
  /\ unit \in [Scopes -> BOOLEAN] /\ enabled \in [Scopes -> BOOLEAN]
  /\ running \in [Scopes -> BOOLEAN] /\ command \in ServiceRecord
  /\ command.skipped => manager \in {"sysv", "rcd"}

\* The account comes first: the user right after the group, and something after both.
AccountFirst(todo) ==
  /\ \A i \in 1..Len(todo) : todo[i] = "group" => i = 1 /\ Len(todo) > 2 /\ todo[2] = "user"
  /\ \A i \in 1..Len(todo) : todo[i] = "user" =>
       Len(todo) > i /\ (i = 1 \/ (i = 2 /\ todo[1] = "group"))

\* A command is under way while steps remain; an installation has no step that removes.
CommandForm ==
  /\ (command.todo = <<>>) = (command.outcome # "under way")
  /\ AccountFirst(command.todo)
  /\ command.name = "install" => command.todo \in Seq(BuildSteps)

\* The group is there before the user, whose number is at hand when it is added.
AccountOrder ==
  /\ uid # NoID => gid # NoID
  /\ Step = "user" => gid # NoID /\ command.id # NoID

\* What an installation has to leave behind is there or still among its steps.
Accounted ==
  /\ unit[Scope] \/ Ahead(command.todo, "write")
  /\ \/ enabled[Scope] \/ command.skipped
     \/ Ahead(command.todo, "enable") \/ Ahead(command.todo, "load")
  /\ Scope = "system" /\ manager # "launchd" => uid # NoID \/ Ahead(command.todo, "user")

\* Without a fault of a tool, an installation only ends early for want of a number.
OnCourse ==
  command.name = "install" /\ ~command.fault =>
    /\ command.outcome \in {"under way", "ok"} => Accounted
    /\ command.outcome = "error" => AvailableIDs = {} /\ uid = NoID

ServiceInv == ServiceShape /\ CommandForm /\ AccountOrder /\ OnCourse

\* What is left of a sequence of steps when its first is done.
LEMMA RestOfSteps ==
  ASSUME NEW S, NEW t \in Seq(S), t # <<>>
  PROVE  /\ Tail(t) \in Seq(S) /\ Len(Tail(t)) = Len(t) - 1 /\ Len(t) \in Nat \ {0}
         /\ \A i \in 1..Len(t) - 1 : Tail(t)[i] = t[i + 1]
         /\ Head(t) = t[1] /\ t[1] \in S
         /\ Tail(t) = <<>> <=> Len(t) = 1
         /\ \A x : Ahead(t, x) => Head(t) = x \/ Ahead(Tail(t), x)
<1>1. /\ Tail(t) \in Seq(S) /\ Len(Tail(t)) = Len(t) - 1 /\ Len(t) \in Nat \ {0}
      /\ \A i \in 1..Len(t) - 1 : Tail(t)[i] = t[i + 1]
      /\ Head(t) = t[1] /\ t[1] \in S
  BY HeadTailProperties, LenProperties, ElementOfSeq, EmptySeq
<1>2. Tail(t) = <<>> <=> Len(t) = 1
  BY <1>1, EmptySeq
<1>3. ASSUME NEW x, Ahead(t, x), Head(t) # x PROVE Ahead(Tail(t), x)
  <2>1. PICK i \in 1..Len(t) : t[i] = x
    BY <1>3 DEF Ahead
  <2>2. i - 1 \in 1..Len(t) - 1 /\ Tail(t)[i - 1] = t[(i - 1) + 1]
    BY <1>1, <1>3, <2>1
  <2> QED
    BY <1>1, <2>1, <2>2 DEF Ahead
<1> QED
  BY <1>1, <1>2, <1>3

\* The account stays first as the steps are done.
LEMMA AccountStaysFirst ==
  ASSUME NEW S, NEW t \in Seq(S), t # <<>>, AccountFirst(t)
  PROVE  AccountFirst(Tail(t)) /\ (t[1] = "user" => Tail(t) # <<>>)
<1>1. /\ Len(Tail(t)) = Len(t) - 1 /\ Len(t) \in Nat \ {0} /\ Tail(t) \in Seq(S)
      /\ \A i \in 1..Len(t) - 1 : Tail(t)[i] = t[i + 1]
      /\ Tail(t) = <<>> <=> Len(t) = 1
  BY RestOfSteps
<1> QED
  BY <1>1 DEF AccountFirst


\* The search finds a number that is free, whenever there is one.
LEMMA FreeNumber ==
  ASSUME ServiceAssumption, AvailableIDs # {}
  PROVE  findAvailableSystemID \in AvailableIDs
<1>1. IsFiniteSet(SystemIDs) /\ AvailableIDs \subseteq SystemIDs /\ SystemIDs \subseteq Nat
  BY DEF ServiceAssumption, AvailableIDs
<1>2. IsFiniteSet(AvailableIDs) /\ AvailableIDs \subseteq Nat
  BY <1>1, FS_Subset
<1>3. \E i \in AvailableIDs : \A j \in AvailableIDs : j <= i
  BY <1>2, GreatestOfFinite
<1> QED
  BY <1>3 DEF findAvailableSystemID

\* The steps of every init system write the unit and have it started at boot.
LEMMA SystemStepsForm ==
  ASSUME ServiceAssumption, manager \in Managers, NEW t,
         t = InstallSystemSteps \/ t = installSystemdUser \/ t = installLaunchdUser
  PROVE  /\ t \in Seq(BuildSteps) /\ Len(t) > 0
         /\ \A i \in 1..Len(t) : t[i] \notin {"group", "user"}
         /\ Ahead(t, "write") /\ (Ahead(t, "enable") \/ Ahead(t, "load"))
<1>1. t \in {installSystemd, installSystemdUser, installOpenRC, installSysV, installRCD,
             installRunit, installLaunchd, installLaunchdUser}
  BY DEF ServiceAssumption, InstallSystemSteps
<1>2. ASSUME t[1] = "write", Len(t) > 1, t[2] \in {"enable", "load"} \/ (Len(t) > 2 /\ t[3] = "enable"),
             Len(t) \in Nat
      PROVE  Ahead(t, "write") /\ (Ahead(t, "enable") \/ Ahead(t, "load"))
  BY <1>2 DEF Ahead
<1>3. ASSUME t \in Seq(BuildSteps \ {"group", "user"})
      PROVE  t \in Seq(BuildSteps) /\ \A i \in 1..Len(t) : t[i] \notin {"group", "user"}
  <2>1. \A i \in 1..Len(t) : t[i] \in BuildSteps \ {"group", "user"}
    BY <1>3, ElementOfSeq
  <2>2. t \in Seq(BuildSteps)
    BY <1>3, SeqMonotonic
  <2> QED
    BY <2>1, <2>2
<1>4. t \in Seq(BuildSteps \ {"group", "user"}) /\ Len(t) > 1 /\ Len(t) \in Nat /\ t[1] = "write"
        /\ (t[2] \in {"enable", "load"} \/ (Len(t) > 2 /\ t[3] = "enable"))
  <2>1. t \in {<<"write", "rescan", "enable", "start">>, <<"write", "try rescan", "enable", "start">>,
               <<"write", "enable", "start">>, <<"write", "enable">>, <<"write", "load">>}
    BY <1>1 DEF installSystemd, installSystemdUser, installOpenRC, installSysV, installRCD,
       installRunit, installLaunchd, installLaunchdUser
  <2> DEFINE Good(q) ==
           /\ q \in Seq(BuildSteps \ {"group", "user"}) /\ Len(q) > 1 /\ Len(q) \in Nat
           /\ q[1] = "write" /\ (q[2] \in {"enable", "load"} \/ (Len(q) > 2 /\ q[3] = "enable"))
  <2>2. Good(<<"write", "rescan", "enable", "start">>)
    BY DEF BuildSteps
  <2>3. Good(<<"write", "try rescan", "enable", "start">>)
    BY DEF BuildSteps
  <2>4. Good(<<"write", "enable", "start">>)
    BY DEF BuildSteps
  <2>5. Good(<<"write", "enable">>)
    BY DEF BuildSteps
  <2>6. Good(<<"write", "load">>)
    BY DEF BuildSteps
  <2> HIDE DEF Good
  <2>7. Good(t)
    BY <2>1, <2>2, <2>3, <2>4, <2>5, <2>6
  <2> QED
    BY <2>7 DEF Good
<1> QED
  BY <1>2, <1>3, <1>4

\* So do they with the account before them.
LEMMA InstallStepsForm ==
  ASSUME ServiceAssumption, manager \in Managers, NEW scope \in Scopes,
         scope = "user" => manager \in {"systemd", "launchd"}
  PROVE  LET t == InstallSteps(scope) IN
         /\ t \in Seq(BuildSteps) /\ t # <<>> /\ AccountFirst(t) /\ t[1] # "user"
         /\ Ahead(t, "write") /\ (Ahead(t, "enable") \/ Ahead(t, "load"))
         /\ scope = "system" /\ manager # "launchd" => Ahead(t, "user")
<1> DEFINE t == InstallSteps(scope)
           tools == InstallSystemSteps
<1>1. /\ tools \in Seq(BuildSteps) /\ Len(tools) > 0 /\ Len(tools) \in Nat
      /\ \A i \in 1..Len(tools) : tools[i] \notin {"group", "user"}
      /\ Ahead(tools, "write") /\ (Ahead(tools, "enable") \/ Ahead(tools, "load"))
  BY SystemStepsForm, LenProperties
<1>2. CASE scope = "system" /\ manager # "launchd"
  <2> DEFINE first == <<"group", "user">>
  <2>1. first \in Seq(BuildSteps) /\ Len(first) = 2 /\ first[1] = "group" /\ first[2] = "user"
    BY DEF BuildSteps
  <2>2. t = first \o tools
    BY <1>2 DEF InstallSteps, installSystemService
  <2> HIDE DEF first, tools, t
  <2>3. /\ t \in Seq(BuildSteps) /\ Len(t) = 2 + Len(tools)
        /\ t[1] = "group" /\ t[2] = "user"
        /\ \A i \in 3..Len(t) : t[i] = tools[i - 2]
    <3>1. /\ first \o tools \in Seq(BuildSteps) /\ Len(first \o tools) = Len(first) + Len(tools)
          /\ \A i \in 1..Len(first) + Len(tools) :
               (first \o tools)[i] = IF i <= Len(first) THEN first[i] ELSE tools[i - Len(first)]
      <4>1. first \in Seq(BuildSteps) /\ tools \in Seq(BuildSteps)
        BY <1>1, <2>1
      <4> QED
        BY <4>1, ConcatProperties
    <3>2. Len(tools) \in Nat /\ t \in Seq(BuildSteps) /\ Len(t) = 2 + Len(tools)
      BY <1>1, <2>1, <2>2, <3>1, LenProperties
    <3>3. t[1] = "group" /\ t[2] = "user"
      BY <2>1, <2>2, <3>1, <3>2
    <3>4. ASSUME NEW i \in 3..Len(t) PROVE t[i] = tools[i - 2]
      BY <2>1, <2>2, <3>1, <3>2
    <3> QED
      BY <3>2, <3>3, <3>4
  <2>4. ASSUME NEW x, Ahead(tools, x) PROVE Ahead(t, x)
    <3>1. PICK i \in 1..Len(tools) : tools[i] = x
      BY <2>4 DEF Ahead
    <3>2. i + 2 \in 3..Len(t) /\ i + 2 \in 1..Len(t) /\ t[i + 2] = tools[(i + 2) - 2]
      BY <1>1, <2>3
    <3>3. (i + 2) - 2 = i
      OBVIOUS
    <3> QED
      BY <3>1, <3>2, <3>3 DEF Ahead
  <2>5. Ahead(t, "user")
    BY <1>1, <2>3 DEF Ahead
  <2>6. \A i \in 3..Len(t) : t[i] \notin {"group", "user"}
    BY <1>1, <2>3
  <2>7. AccountFirst(t) /\ t # <<>>
    BY <1>1, <2>3, <2>6, EmptySeq DEF AccountFirst
  <2>8. t \in Seq(BuildSteps) /\ t # <<>> /\ AccountFirst(t) /\ t[1] # "user" /\ Ahead(t, "user")
          /\ Ahead(t, "write") /\ (Ahead(t, "enable") \/ Ahead(t, "load"))
    BY <1>1, <2>3, <2>4, <2>5, <2>7
  <2> QED
    BY <2>8 DEF t
<1>3. CASE scope = "user" \/ manager = "launchd"
  <2>2. t = InstallSystemSteps \/ t = installSystemdUser \/ t = installLaunchdUser
    <3> HIDE DEF tools
    <3>1. <<>> \o tools = tools
      BY <1>1, ConcatEmptySeq
    <3>2. CASE scope # "user"
      <4>1. scope = "system" /\ manager = "launchd"
        BY <1>3, <3>2 DEF Scopes
      <4>2. t = installSystemService
        BY <4>1 DEF InstallSteps
      <4>3. t = <<>> \o tools
        BY <4>1, <4>2 DEF installSystemService, tools
      <4> QED
        BY <3>1, <4>3 DEF tools
    <3>3. CASE scope = "user"
      <4>1. t = installUserService
        BY <3>3 DEF InstallSteps
      <4> QED
        BY <4>1 DEF installUserService
    <3> QED
      BY <3>2, <3>3
  <2> HIDE DEF t
  <2>3. /\ t \in Seq(BuildSteps) /\ Len(t) > 0
        /\ \A i \in 1..Len(t) : t[i] \notin {"group", "user"}
        /\ Ahead(t, "write") /\ (Ahead(t, "enable") \/ Ahead(t, "load"))
    BY <2>2, SystemStepsForm
  <2>4. t # <<>> /\ AccountFirst(t) /\ t[1] # "user"
    <3>1. 1 \in 1..Len(t)
      BY <2>3, LenProperties
    <3> QED
      BY <2>3, <3>1, EmptySeq DEF AccountFirst
  <2> QED
    BY <1>3, <2>3, <2>4 DEF t
<1> QED
  BY <1>2, <1>3 DEF Scopes

\* The other commands have steps, and none of them adds an account.
LEMMA OtherStepsForm ==
  ASSUME NEW name \in Names \ {"install"}, NEW t,
         t = CASE name = "uninstall" -> UninstallSteps
               [] name = "disable" -> DisableSteps
               [] name \notin {"uninstall", "disable"} -> ControlSteps(name)
  PROVE  t \in Seq(OtherSteps) /\ t # <<>> /\ AccountFirst(t) /\ t[1] # "user"
<1>1. t \in {<<"try stop", "try remove", "try disable">>, <<"try stop", "try unload", "try remove">>,
             <<"try stop", "try disable", "try remove">>, <<"try stop", "unload">>,
             <<"try stop", "disable">>, <<"try stop", "start">>, <<"restart">>, <<"start">>,
             <<"stop">>, <<"reload">>}
  BY DEF UninstallSteps, DisableSteps, ControlSteps, Names
<1>2. t \in Seq(OtherSteps) /\ Len(t) > 0
  <2> DEFINE Good(q) == q \in Seq(OtherSteps) /\ Len(q) > 0
  <2>1. /\ Good(<<"try stop", "try remove", "try disable">>)
        /\ Good(<<"try stop", "try unload", "try remove">>)
        /\ Good(<<"try stop", "try disable", "try remove">>)
        /\ Good(<<"try stop", "unload">>)
        /\ Good(<<"try stop", "disable">>)
        /\ Good(<<"try stop", "start">>)
    BY DEF OtherSteps
  <2>2. /\ Good(<<"restart">>)
        /\ Good(<<"start">>)
        /\ Good(<<"stop">>)
        /\ Good(<<"reload">>)
    BY DEF OtherSteps
  <2> HIDE DEF Good
  <2>3. Good(t)
    BY <1>1, <2>1, <2>2
  <2> QED
    BY <2>3 DEF Good
<1>3. \A i \in 1..Len(t) : t[i] \in OtherSteps
  BY <1>2, ElementOfSeq
<1>4. \A i \in 1..Len(t) : t[i] \notin {"group", "user"}
  BY <1>3 DEF OtherSteps
<1>5. 1 \in 1..Len(t)
  BY <1>2, LenProperties
<1> QED
  BY <1>2, <1>4, <1>5, EmptySeq DEF AccountFirst

\* At the end of an installation nothing is ahead, so everything is there.
LEMMA CourseIsRetry == ServiceAssumption /\ ServiceInv => RetryInstalls
<1> SUFFICES ASSUME ServiceInv, command.name = "install", ~command.fault,
                    command.outcome = "ok"
             PROVE  /\ unit[Scope]
                    /\ enabled[Scope] \/ (command.skipped /\ manager \in {"sysv", "rcd"})
                    /\ Scope = "system" /\ manager # "launchd" => uid # NoID /\ gid # NoID
  BY DEF ServiceInv, OnCourse, RetryInstalls
<1>1. command.todo = <<>>
  BY DEF ServiceInv, CommandForm
<1>2. \A x : ~Ahead(command.todo, x)
  <2>1. Len(command.todo) = 0
    BY <1>1, EmptySeq
  <2> QED
    BY <2>1 DEF Ahead
<1>3. Accounted /\ (uid # NoID => gid # NoID)
        /\ (command.skipped => manager \in {"sysv", "rcd"})
  BY DEF ServiceInv, OnCourse, AccountOrder, ServiceShape
<1> QED
  BY <1>2, <1>3 DEF Accounted

\* The first of the steps, and the ones after it.
LEMMA StepIsFirst ==
  ASSUME ServiceShape, Step # "none"
  PROVE  /\ command.todo # <<>> /\ Step = Head(command.todo) /\ Step = command.todo[1]
         /\ command.todo \in Seq(BuildSteps \cup OtherSteps)
<1>1. command.todo # <<>> /\ Step = Head(command.todo)
  BY DEF Step
<1>2. command.todo \in Seq(BuildSteps \cup OtherSteps)
  BY DEF ServiceShape, ServiceRecord
<1> QED
  BY <1>1, <1>2, RestOfSteps

\* A step that is done leaves the ones after it, in their order.
LEMMA AdvanceMoves ==
  ASSUME ServiceShape, CommandForm, Step # "none", NEW fault \in BOOLEAN,
         NEW skip \in BOOLEAN, Advance(fault, skip)
  PROVE  /\ command' \in ServiceRecord /\ CommandForm' /\ command'.todo = Tail(command.todo)
         /\ command'.name = command.name /\ command'.scope = command.scope
         /\ command'.id = command.id
         /\ ~command'.fault => ~command.fault /\ ~fault
         /\ command'.skipped <=> command.skipped \/ skip
         /\ command'.outcome \in {"under way", "ok"} /\ command.outcome = "under way"
         /\ \A x : Ahead(command.todo, x) => Step = x \/ Ahead(command'.todo, x)
<1> DEFINE t == command.todo
<1>1. /\ t # <<>> /\ Step = Head(t) /\ t \in Seq(BuildSteps \cup OtherSteps)
      /\ command \in ServiceRecord
  BY StepIsFirst DEF ServiceShape
<1>2. /\ command.outcome = "under way"
      /\ AccountFirst(t)
      /\ command.name = "install" => t \in Seq(BuildSteps)
  BY <1>1 DEF CommandForm
<1> HIDE DEF t
<1>3. /\ Tail(t) \in Seq(BuildSteps \cup OtherSteps) /\ (Tail(t) = <<>> <=> Len(t) = 1)
      /\ \A x : Ahead(t, x) => Head(t) = x \/ Ahead(Tail(t), x)
  BY <1>1, RestOfSteps
<1>4. AccountFirst(Tail(t))
  BY <1>1, <1>2, AccountStaysFirst
<1>5. command.name = "install" => Tail(t) \in Seq(BuildSteps)
  BY <1>1, <1>2, RestOfSteps
<1> DEFINE o == IF Len(t) = 1 THEN "ok" ELSE command.outcome
<1>6. command' = [command EXCEPT !.todo = Tail(t), !.fault = command.fault \/ fault,
                     !.skipped = command.skipped \/ skip, !.outcome = o]
  BY <1>1 DEF Advance, t, ServiceRecord
<1>7. o \in {"ok", "under way"} /\ ((Tail(t) = <<>>) = (o # "under way"))
  BY <1>2, <1>3
<1> HIDE DEF o
<1>8. /\ command' \in ServiceRecord /\ command'.todo = Tail(t)
      /\ command'.name = command.name /\ command'.scope = command.scope
      /\ command'.id = command.id /\ command'.outcome = o
  BY <1>1, <1>3, <1>6, <1>7 DEF ServiceRecord
<1>9. /\ command'.fault = (command.fault \/ fault)
      /\ command'.skipped = (command.skipped \/ skip)
  BY <1>1, <1>6 DEF ServiceRecord
<1>10. CommandForm'
  BY <1>4, <1>5, <1>7, <1>8 DEF CommandForm
<1> QED
  BY <1>1, <1>2, <1>3, <1>7, <1>8, <1>9, <1>10 DEF t

\* A command that returns has no step left.
LEMMA ReturnMoves ==
  ASSUME ServiceShape, NEW fault \in BOOLEAN, Return(fault)
  PROVE  /\ command' \in ServiceRecord /\ CommandForm' /\ command'.todo = <<>>
         /\ command'.outcome = "error" /\ (command'.fault <=> command.fault \/ fault)
         /\ command'.skipped = command.skipped
<1>1. command \in ServiceRecord
  BY DEF ServiceShape
<1>2. <<>> \in Seq(BuildSteps \cup OtherSteps) /\ <<>> \in Seq(BuildSteps) /\ Len(<<>>) = 0
  BY EmptySeq
<1>3. command' = [command EXCEPT !.todo = <<>>, !.fault = command.fault \/ fault, !.outcome = "error"]
  BY <1>1 DEF Return, ServiceRecord
<1> DEFINE none == <<>>
<1> HIDE DEF none
<1>4. /\ command' \in ServiceRecord /\ command'.todo = none
      /\ command'.outcome = "error"
  BY <1>1, <1>2, <1>3 DEF ServiceRecord, none
<1>5. /\ command'.fault = (command.fault \/ fault)
      /\ command'.skipped = command.skipped
  BY <1>1, <1>3 DEF ServiceRecord
<1>6. AccountFirst(none)
  BY <1>2 DEF AccountFirst, none
<1> QED
  BY <1>2, <1>4, <1>5, <1>6 DEF CommandForm, none

\* The user's step comes up after the group's alone.
LEMMA UserAfterGroup ==
  ASSUME ServiceShape, CommandForm, Step # "none", command'.todo = Tail(command.todo),
         Step' = "user"
  PROVE  Step = "group"
<1>1. /\ command.todo # <<>> /\ Step = command.todo[1]
      /\ command.todo \in Seq(BuildSteps \cup OtherSteps)
  BY StepIsFirst
<1>2. Tail(command.todo) # <<>> /\ Head(Tail(command.todo)) = "user"
  BY DEF Step
<1>3. /\ Tail(command.todo) \in Seq(BuildSteps \cup OtherSteps)
      /\ Len(Tail(command.todo)) = Len(command.todo) - 1 /\ Len(command.todo) \in Nat \ {0}
      /\ \A i \in 1..Len(command.todo) - 1 : Tail(command.todo)[i] = command.todo[i + 1]
  BY <1>1, RestOfSteps
<1>4. Len(Tail(command.todo)) \in Nat \ {0} /\ Head(Tail(command.todo)) = Tail(command.todo)[1]
  BY <1>2, <1>3, RestOfSteps
<1>5. 2 \in 1..Len(command.todo) /\ command.todo[2] = "user"
  BY <1>2, <1>3, <1>4
<1>6. \A i \in 1..Len(command.todo) : command.todo[i] = "user" => i = 1 \/ command.todo[1] = "group"
  BY DEF CommandForm, AccountFirst
<1>7. 2 # 1
  OBVIOUS
<1> QED
  BY <1>1, <1>5, <1>6, <1>7

\* The group: its number is free and at hand for the user that follows; there is none
\* only when none is free.
LEMMA GroupKeeps ==
  ASSUME ServiceAssumption, ServiceInv, EnsureGroup
  PROVE  ServiceInv'
<1> DEFINE t == command.todo
<1>1. ServiceShape /\ CommandForm /\ AccountOrder /\ OnCourse /\ Step = "group"
  BY DEF ServiceInv, EnsureGroup
<1>2. /\ t # <<>> /\ Head(t) = "group" /\ t[1] = "group"
      /\ t \in Seq(BuildSteps \cup OtherSteps) /\ command \in ServiceRecord
      /\ AccountFirst(t)
  BY <1>1, StepIsFirst DEF ServiceShape, CommandForm
<1>3. /\ Tail(t) \in Seq(BuildSteps \cup OtherSteps) /\ Len(Tail(t)) = Len(t) - 1
      /\ Len(t) \in Nat \ {0}
      /\ \A i \in 1..Len(t) - 1 : Tail(t)[i] = t[i + 1]
      /\ (Tail(t) = <<>> <=> Len(t) = 1)
      /\ \A x : Ahead(t, x) => "group" = x \/ Ahead(Tail(t), x)
      /\ AccountFirst(Tail(t))
  BY <1>2, RestOfSteps, AccountStaysFirst
<1>4. Len(t) > 2 /\ t[2] = "user" /\ Tail(t) # <<>> /\ Tail(t)[1] = "user"
  BY <1>2, <1>3 DEF AccountFirst
<1>5. /\ command.outcome = "under way"
      /\ command.name = "install" => t \in Seq(BuildSteps)
  BY <1>1, <1>2 DEF CommandForm
<1>6. command.name = "install" => Tail(t) \in Seq(BuildSteps)
  BY <1>2, <1>5, RestOfSteps
<1>7. manager' = manager /\ uid' = uid /\ unit' = unit /\ enabled' = enabled /\ running' = running
  BY DEF EnsureGroup
<1>8. CASE uid # NoID
  <2> DEFINE r == Tail(Tail(t))
  <2>1. /\ r \in Seq(BuildSteps \cup OtherSteps) /\ Len(r) = Len(t) - 2 /\ r # <<>>
        /\ \A x : Ahead(Tail(t), x) => "user" = x \/ Ahead(r, x)
        /\ AccountFirst(r)
        /\ r[1] = t[3] /\ Head(r) = r[1]
    <3> DEFINE u == Tail(t)
    <3>1. /\ u \in Seq(BuildSteps \cup OtherSteps) /\ Len(u) = Len(t) - 1 /\ u # <<>>
          /\ u[1] = "user" /\ u[2] = t[3] /\ AccountFirst(u) /\ Len(u) > 1 /\ Len(u) \in Nat
      BY <1>3, <1>4
    <3> HIDE DEF u, t
    <3>2. /\ Tail(u) \in Seq(BuildSteps \cup OtherSteps) /\ Len(Tail(u)) = Len(u) - 1
          /\ \A i \in 1..Len(u) - 1 : Tail(u)[i] = u[i + 1]
          /\ Head(u) = u[1]
          /\ (Tail(u) = <<>> <=> Len(u) = 1)
          /\ \A x : Ahead(u, x) => Head(u) = x \/ Ahead(Tail(u), x)
      BY <3>1, RestOfSteps
    <3>3. AccountFirst(Tail(u))
      BY <3>1, AccountStaysFirst
    <3>4. Tail(u) # <<>>
      BY <3>1, <3>2
    <3>5. Head(Tail(u)) = Tail(u)[1]
      BY <3>2, <3>4, RestOfSteps
    <3>6. Tail(u)[1] = t[3] /\ Len(Tail(u)) = Len(t) - 2
      <4>1. Tail(u)[1] = u[1 + 1]
        BY <3>1, <3>2
      <4>2. 1 + 1 = 2 /\ (Len(t) - 1) - 1 = Len(t) - 2
        BY <1>3
      <4>3. Tail(u)[1] = u[2]
        BY <4>1, <4>2
      <4> QED
        BY <3>1, <3>2, <4>2, <4>3
    <3> QED
      BY <3>1, <3>2, <3>3, <3>4, <3>5, <3>6 DEF u
  <2>2. command.name = "install" => r \in Seq(BuildSteps)
    BY <1>4, <1>6, RestOfSteps
  <2>3. command' = [command EXCEPT !.todo = r] /\ gid' = gid
    BY <1>2, <1>8 DEF EnsureGroup, ServiceRecord
  <2>4. Head(r) # "user"
    <3>1. \A i \in 1..Len(t) : t[i] = "user" => i \in {1, 2}
      BY <1>2 DEF AccountFirst
    <3>2. 3 \in 1..Len(t) /\ 3 \notin {1, 2}
      BY <1>3, <1>4
    <3> QED
      BY <2>1, <3>1, <3>2
  <2> HIDE DEF r
  <2>5. /\ command' \in ServiceRecord /\ command'.todo = r /\ command'.name = command.name
        /\ command'.scope = command.scope /\ command'.outcome = "under way"
        /\ command'.fault = command.fault /\ command'.skipped = command.skipped
    BY <1>2, <1>5, <2>1, <2>3 DEF ServiceRecord
  <2>6. ServiceShape'
    BY <1>1, <1>7, <2>3, <2>5 DEF ServiceShape
  <2>7. CommandForm'
    BY <2>1, <2>2, <2>5 DEF CommandForm
  <2>8. AccountOrder'
    BY <1>1, <1>7, <2>1, <2>3, <2>4, <2>5 DEF AccountOrder, Step
  <2>9. OnCourse'
    <3> SUFFICES ASSUME command.name = "install", ~command.fault PROVE Accounted'
      BY <2>5 DEF OnCourse
    <3>1. Accounted
      BY <1>1, <1>5 DEF OnCourse
    <3>2. \A x \in {"write", "enable", "load"} : Ahead(t, x) => Ahead(r, x)
      BY <1>3, <2>1
    <3> QED
      BY <1>7, <1>8, <2>5, <3>1, <3>2 DEF Accounted, Scope
  <2> QED
    BY <2>6, <2>7, <2>8, <2>9 DEF ServiceInv
<1>9. CASE uid = NoID /\ AvailableIDs = {}
  <2>1. Return(FALSE) /\ gid' = gid
    BY <1>9 DEF EnsureGroup
  <2>2. /\ command' \in ServiceRecord /\ CommandForm' /\ command'.todo = <<>>
        /\ command'.outcome = "error" /\ command'.skipped = command.skipped
    BY <1>1, <2>1, ReturnMoves
  <2>3. ServiceShape'
    BY <1>1, <1>7, <2>1, <2>2 DEF ServiceShape
  <2>4. AccountOrder'
    BY <1>1, <1>7, <2>1, <2>2 DEF AccountOrder, Step
  <2>5. OnCourse'
    BY <1>7, <1>9, <2>1, <2>2 DEF OnCourse, AvailableIDs
  <2> QED
    BY <2>2, <2>3, <2>4, <2>5 DEF ServiceInv
<1>10. CASE uid = NoID /\ AvailableIDs # {}
  <2> DEFINE n == findAvailableSystemID
  <2>1. n \in SystemIDs /\ n # NoID
    <3>1. n \in AvailableIDs
      BY <1>10, FreeNumber
    <3> QED
      BY <3>1 DEF AvailableIDs, ServiceAssumption, NoID
  <2>2. /\ command' = [command EXCEPT !.todo = Tail(t), !.id = n]
        /\ gid' = IF NeedsGroup THEN n ELSE gid
    BY <1>2, <1>10 DEF EnsureGroup, NeedsGroup, ServiceRecord
  <2> HIDE DEF n, t
  <2>3. /\ command' \in ServiceRecord /\ command'.todo = Tail(t) /\ command'.name = command.name
        /\ command'.scope = command.scope /\ command'.outcome = "under way"
        /\ command'.fault = command.fault /\ command'.id = n
        /\ command'.skipped = command.skipped
    BY <1>2, <1>3, <1>5, <2>1, <2>2 DEF ServiceRecord
  <2>4. gid' \in SystemIDs /\ gid' # NoID
    BY <1>1, <2>1, <2>2 DEF NeedsGroup, ServiceShape
  <2>5. ServiceShape'
    BY <1>1, <1>7, <2>3, <2>4 DEF ServiceShape
  <2>6. CommandForm'
    BY <1>3, <1>4, <1>6, <2>3 DEF CommandForm
  <2>7. AccountOrder'
    BY <2>1, <2>3, <2>4 DEF AccountOrder
  <2>8. OnCourse'
    <3> SUFFICES ASSUME command.name = "install", ~command.fault PROVE Accounted'
      BY <2>3 DEF OnCourse
    <3>1. Accounted
      BY <1>1, <1>5 DEF OnCourse
    <3>2. \A x \in {"write", "enable", "load", "user"} : Ahead(t, x) => Ahead(Tail(t), x)
      BY <1>3
    <3> QED
      BY <1>7, <2>3, <3>1, <3>2 DEF Accounted, Scope, t
  <2> QED
    BY <2>5, <2>6, <2>7, <2>8 DEF ServiceInv
<1> QED
  BY <1>8, <1>9, <1>10

\* The user takes the number at hand.
LEMMA UserKeeps ==
  ASSUME ServiceAssumption, ServiceInv, EnsureUser
  PROVE  ServiceInv'
<1>1. ServiceShape /\ CommandForm /\ AccountOrder /\ OnCourse /\ Step = "user" /\ Advance(FALSE, FALSE)
  BY DEF ServiceInv, EnsureUser
<1>2. /\ command' \in ServiceRecord /\ CommandForm' /\ command'.todo = Tail(command.todo)
      /\ command'.name = command.name /\ command'.scope = command.scope
      /\ command'.fault \/ ~command.fault
      /\ command'.skipped <=> command.skipped
      /\ command'.outcome \in {"under way", "ok"} /\ command.outcome = "under way"
      /\ \A x : Ahead(command.todo, x) => Step = x \/ Ahead(command'.todo, x)
  BY <1>1, AdvanceMoves
<1>3. /\ manager' = manager /\ gid' = gid /\ unit' = unit /\ enabled' = enabled
      /\ running' = running /\ uid' = command.id
  BY DEF EnsureUser
<1>4. gid # NoID /\ command.id # NoID /\ command.id \in SystemIDs \cup {NoID}
  BY <1>1 DEF AccountOrder, ServiceShape, ServiceRecord
<1>5. ServiceShape'
  BY <1>1, <1>2, <1>3, <1>4 DEF ServiceShape
<1>6. AccountOrder'
  BY <1>1, <1>2, <1>3, <1>4, UserAfterGroup DEF AccountOrder
<1>7. OnCourse'
  BY <1>1, <1>2, <1>3, <1>4 DEF OnCourse, Accounted, Scope
<1> QED
  BY <1>2, <1>5, <1>6, <1>7 DEF ServiceInv

\* A step that works leaves its mark; an installation undoes nothing.
LEMMA WorkKeeps ==
  ASSUME ServiceAssumption, ServiceInv, Work
  PROVE  ServiceInv'
<1>1. /\ ServiceShape /\ CommandForm /\ AccountOrder /\ OnCourse /\ Step # "none"
      /\ Step \notin {"group", "user"} /\ Advance(FALSE, FALSE)
  BY DEF ServiceInv, Work
<1>2. /\ command' \in ServiceRecord /\ CommandForm' /\ command'.todo = Tail(command.todo)
      /\ command'.name = command.name /\ command'.scope = command.scope
      /\ command'.fault \/ ~command.fault
      /\ command'.skipped <=> command.skipped
      /\ command'.outcome \in {"under way", "ok"} /\ command.outcome = "under way"
      /\ \A x : Ahead(command.todo, x) => Step = x \/ Ahead(command'.todo, x)
  BY <1>1, AdvanceMoves
<1>3. manager' = manager /\ gid' = gid /\ uid' = uid
  BY DEF Work
<1>4. Scope \in Scopes
  BY <1>1 DEF ServiceShape, ServiceRecord, Scope
<1>5. /\ unit' \in {unit, Set(unit, TRUE), Set(unit, FALSE)}
      /\ enabled' \in {enabled, Set(enabled, TRUE), Set(enabled, FALSE)}
      /\ running' \in {running, Set(running, TRUE), Set(running, FALSE)}
  BY DEF Work
<1>6. \A f \in [Scopes -> BOOLEAN], v \in BOOLEAN : Set(f, v) \in [Scopes -> BOOLEAN] /\ Set(f, v)[Scope] = v
  BY <1>4 DEF Set
<1>7. ServiceShape'
  BY <1>1, <1>2, <1>3, <1>5, <1>6 DEF ServiceShape
<1>8. AccountOrder'
  BY <1>1, <1>2, <1>3, UserAfterGroup DEF AccountOrder
<1>9. OnCourse'
  <2> SUFFICES ASSUME command.name = "install", ~command.fault PROVE Accounted'
    BY <1>2 DEF OnCourse
  <2>1. Accounted
    BY <1>1, <1>2 DEF OnCourse
  <2>2. Step \in BuildSteps
    <3>1. command.todo \in Seq(BuildSteps) /\ command.todo # <<>> /\ Step = Head(command.todo)
      BY <1>1, StepIsFirst DEF CommandForm
    <3> QED
      BY <3>1, RestOfSteps
  <2>3. /\ unit' = IF Step = "write" THEN Set(unit, TRUE) ELSE unit
        /\ enabled' = IF Step \in {"enable", "load"} THEN Set(enabled, TRUE) ELSE enabled
    BY <2>2 DEF Work, BuildSteps
  <2>4. /\ unit[Scope] \/ Step = "write" => unit'[Scope]
        /\ enabled[Scope] \/ Step \in {"enable", "load"} => enabled'[Scope]
    BY <1>1, <1>6, <2>3 DEF ServiceShape
  <2> QED
    BY <1>1, <1>2, <1>3, <2>1, <2>4 DEF Accounted, Scope
<1> QED
  BY <1>2, <1>7, <1>8, <1>9 DEF ServiceInv

\* An enabling that is skipped is marked as such.
LEMMA SkipKeeps ==
  ASSUME ServiceAssumption, ServiceInv, SkipEnable
  PROVE  ServiceInv'
<1>1. /\ ServiceShape /\ CommandForm /\ AccountOrder /\ OnCourse /\ Step = "enable"
      /\ Advance(FALSE, TRUE) /\ manager \in {"sysv", "rcd"}
  BY DEF ServiceInv, SkipEnable
<1>2. /\ command' \in ServiceRecord /\ CommandForm' /\ command'.todo = Tail(command.todo)
      /\ command'.name = command.name /\ command'.scope = command.scope
      /\ command'.fault \/ ~command.fault
      /\ command'.skipped
      /\ command'.outcome \in {"under way", "ok"} /\ command.outcome = "under way"
      /\ \A x : Ahead(command.todo, x) => Step = x \/ Ahead(command'.todo, x)
  BY <1>1, AdvanceMoves
<1>3. /\ manager' = manager /\ gid' = gid /\ uid' = uid /\ unit' = unit /\ enabled' = enabled
      /\ running' = running
  BY DEF SkipEnable
<1>4. ServiceShape'
  BY <1>1, <1>2, <1>3 DEF ServiceShape
<1>5. AccountOrder'
  BY <1>1, <1>2, <1>3, UserAfterGroup DEF AccountOrder
<1>6. OnCourse'
  BY <1>1, <1>2, <1>3 DEF OnCourse, Accounted, Scope
<1> QED
  BY <1>2, <1>4, <1>5, <1>6 DEF ServiceInv

\* A step that fails is a fault, and no course is promised after one.
LEMMA FailKeeps ==
  ASSUME ServiceAssumption, ServiceInv, Fail
  PROVE  ServiceInv'
<1>1. ServiceShape /\ CommandForm /\ AccountOrder /\ Step # "none" /\ (Advance(TRUE, FALSE) \/ Return(TRUE))
  BY DEF ServiceInv, Fail
<1>2. command' \in ServiceRecord /\ CommandForm' /\ command'.fault
      /\ (command'.skipped <=> command.skipped)
  BY <1>1, AdvanceMoves, ReturnMoves
<1>3. Step' = "user" => Step = "group" /\ Advance(TRUE, FALSE)
  <2>1. CASE Advance(TRUE, FALSE)
    BY <1>1, <2>1, AdvanceMoves, UserAfterGroup
  <2>2. CASE Return(TRUE)
    <3>1. command'.todo = <<>>
      BY <1>1, <2>2, ReturnMoves
    <3> QED
      BY <3>1 DEF Step
  <2> QED
    BY <1>1, <2>1, <2>2
<1>4. Step' # "user"
  <2>1. SUFFICES ASSUME Step = "group" PROVE Step' # "user"
    BY <1>3
  <2>2. Return(TRUE)
    BY <2>1 DEF Fail
  <2>3. command'.todo = <<>>
    BY <1>1, <2>2, ReturnMoves
  <2> QED
    BY <2>3 DEF Step
<1>5. /\ manager' = manager /\ gid' = gid /\ uid' = uid /\ enabled' = enabled /\ running' = running
      /\ unit' \in {unit, Set(unit, TRUE)}
  BY DEF Fail
<1>6. Set(unit, TRUE) \in [Scopes -> BOOLEAN]
  BY <1>1 DEF ServiceShape, Set
<1>7. ServiceShape'
  BY <1>1, <1>2, <1>5, <1>6 DEF ServiceShape
<1>8. AccountOrder'
  BY <1>1, <1>4, <1>5 DEF AccountOrder
<1>9. OnCourse'
  BY <1>2 DEF OnCourse
<1> QED
  BY <1>2, <1>7, <1>8, <1>9 DEF ServiceInv

\* The host moves what runs and nothing else.
LEMMA HostKeeps ==
  ASSUME ServiceAssumption, ServiceInv,
         (\E s \in Scopes : HostStarts(s) \/ HostStops(s)) \/ UNCHANGED serviceVars
  PROVE  ServiceInv'
<1>1. /\ manager' = manager /\ gid' = gid /\ uid' = uid /\ unit' = unit /\ enabled' = enabled
      /\ command' = command
  BY DEF HostStarts, HostStops, serviceVars
<1>2. running' \in [Scopes -> BOOLEAN]
  BY DEF ServiceInv, ServiceShape, HostStarts, HostStops, serviceVars
<1> QED
  BY <1>1, <1>2 DEF ServiceInv, ServiceShape, CommandForm, AccountOrder, Step, OnCourse, Accounted,
     Scope, AvailableIDs

\* A command begins with all of its steps ahead, or is refused.
LEMMA ExecuteKeeps ==
  ASSUME ServiceAssumption, ServiceInv, NEW name \in Names, NEW elevated \in BOOLEAN,
         Execute(name, elevated)
  PROVE  ServiceInv'
<1> DEFINE scope == IF name = "install" THEN (IF elevated THEN "system" ELSE "user")
                    ELSE IF isSystemServiceInstalled \/ manager \notin {"systemd", "launchd"}
                         THEN "system" ELSE "user"
           denied == IF name = "install" THEN scope = "user" /\ manager \notin {"systemd", "launchd"}
                      ELSE isSystemServiceInstalled /\ ~elevated
           steps == CASE name = "install" -> InstallSteps(scope)
                      [] name = "uninstall" -> UninstallSteps
                      [] name = "disable" -> DisableSteps
                      [] OTHER -> ControlSteps(name)
           todo == IF denied THEN <<>> ELSE steps
           outcome == IF denied THEN "refused" ELSE "under way"
<1>1. /\ manager' = manager /\ gid' = gid /\ uid' = uid /\ unit' = unit /\ enabled' = enabled
      /\ running' = running
      /\ command' = [NoCommand EXCEPT !.name = name, !.scope = scope, !.todo = todo, !.outcome = outcome]
  BY DEF Execute
<1>2. scope \in Scopes
  BY DEF Scopes
<1>3. denied \in BOOLEAN
  BY DEF isSystemServiceInstalled, ServiceInv, ServiceShape, Scopes
<1>4. ServiceShape /\ manager \in Managers /\ (uid # NoID => gid # NoID)
  BY DEF ServiceInv, ServiceShape, AccountOrder
<1>5. CASE denied
  <2>1. todo = <<>> /\ outcome = "refused"
    BY <1>5
  <2> HIDE DEF scope, denied, steps, todo, outcome
  <2>2. <<>> \in Seq(BuildSteps \cup OtherSteps) /\ <<>> \in Seq(BuildSteps) /\ Len(<<>>) = 0
    BY EmptySeq
  <2>3. /\ command' \in ServiceRecord /\ command'.todo = <<>> /\ command'.outcome = "refused"
        /\ ~command'.skipped
    BY <1>1, <1>2, <2>1, <2>2 DEF ServiceRecord, NoCommand, NoID, Names
  <2>4. ServiceShape'
    BY <1>1, <1>4, <2>3 DEF ServiceShape
  <2>5. CommandForm'
    BY <2>2, <2>3 DEF CommandForm, AccountFirst
  <2>6. AccountOrder'
    BY <1>1, <1>4, <2>3 DEF AccountOrder, Step
  <2>7. OnCourse'
    BY <2>3 DEF OnCourse
  <2> QED
    BY <2>4, <2>5, <2>6, <2>7 DEF ServiceInv
<1>6. CASE ~denied
  <2>1. todo = steps /\ outcome = "under way"
    BY <1>6
  <2>2. /\ steps \in Seq(BuildSteps \cup OtherSteps) /\ steps # <<>> /\ AccountFirst(steps)
        /\ steps[1] # "user"
        /\ name = "install" =>
             /\ steps \in Seq(BuildSteps)
             /\ Ahead(steps, "write") /\ (Ahead(steps, "enable") \/ Ahead(steps, "load"))
             /\ scope = "system" /\ manager # "launchd" => Ahead(steps, "user")
    <3>1. CASE name = "install"
      <4>1. steps = InstallSteps(scope) /\ (scope = "user" => manager \in {"systemd", "launchd"})
        BY <1>6, <3>1
      <4> HIDE DEF scope, denied, steps, todo, outcome
      <4>2. /\ steps \in Seq(BuildSteps) /\ steps # <<>> /\ AccountFirst(steps)
            /\ steps[1] # "user"
            /\ Ahead(steps, "write") /\ (Ahead(steps, "enable") \/ Ahead(steps, "load"))
            /\ scope = "system" /\ manager # "launchd" => Ahead(steps, "user")
        BY <1>2, <1>4, <4>1, InstallStepsForm
      <4> QED
        BY <4>2, SeqMonotonic
    <3>2. CASE name # "install"
      <4> DEFINE u == CASE name = "uninstall" -> UninstallSteps
                        [] name = "disable" -> DisableSteps
                        [] name \notin {"uninstall", "disable"} -> ControlSteps(name)
      <4>1. steps = u
        BY <3>2
      <4>2. u \in Seq(OtherSteps) /\ u # <<>> /\ AccountFirst(u) /\ u[1] # "user"
        BY <3>2, OtherStepsForm
      <4> HIDE DEF scope, denied, steps, todo, outcome, u
      <4> QED
        BY <3>2, <4>1, <4>2, SeqMonotonic
    <3> QED
      BY <3>1, <3>2
  <2> HIDE DEF scope, denied, steps, todo, outcome
  <2>3. /\ command' \in ServiceRecord /\ command'.todo = steps /\ command'.outcome = "under way"
        /\ command'.name = name /\ command'.scope = scope /\ ~command'.skipped
    BY <1>1, <1>2, <2>1, <2>2 DEF ServiceRecord, NoCommand, NoID, Names
  <2>4. ServiceShape'
    BY <1>1, <1>4, <2>3 DEF ServiceShape
  <2>5. CommandForm'
    BY <2>2, <2>3 DEF CommandForm
  <2>6. AccountOrder'
    <3>1. Head(steps) = steps[1]
      BY <2>2, RestOfSteps
    <3> QED
      BY <1>1, <1>4, <2>2, <2>3, <3>1 DEF AccountOrder, Step
  <2>7. OnCourse'
    BY <1>1, <2>2, <2>3 DEF OnCourse, Accounted, Scope
  <2> QED
    BY <2>4, <2>5, <2>6, <2>7 DEF ServiceInv
<1> QED
  BY <1>3, <1>5, <1>6

\* An installation repeated after any sequence of failures ends well once the tools do, for
\* every init system and range of numbers (Install and ensureServiceUser in
\* install_unix.go): only the lack of a free number stops it, and after it the unit is
\* there, with an account whose user and group both exist, and started at boot unless
\* installSysV or installRCD found nothing to enable it with.
THEOREM RetryAlwaysInstalls == ServiceSpec => []RetryInstalls
<1> USE ServiceAssumption
<1>1. ServiceInit => ServiceInv
  <2> SUFFICES ASSUME ServiceInit PROVE ServiceInv
    OBVIOUS
  <2>1. <<>> \in Seq(BuildSteps \cup OtherSteps) /\ Len(<<>>) = 0
    BY EmptySeq
  <2>2. /\ NoCommand \in ServiceRecord /\ NoCommand.todo = <<>> /\ NoCommand.outcome = "ok"
        /\ NoCommand.name = "none" /\ ~NoCommand.skipped
    BY <2>1 DEF NoCommand, ServiceRecord, NoID, Scopes
  <2>3. ServiceShape
    BY <2>2 DEF ServiceInit, ServiceShape
  <2>4. CommandForm
    BY <2>1, <2>2 DEF ServiceInit, CommandForm, AccountFirst
  <2>5. AccountOrder /\ OnCourse
    BY <2>2 DEF ServiceInit, AccountOrder, Step, OnCourse
  <2> QED
    BY <2>3, <2>4, <2>5 DEF ServiceInv
<1>2. ServiceInv /\ [ServiceNext]_serviceVars => ServiceInv'
  BY ExecuteKeeps, GroupKeeps, UserKeeps, WorkKeeps, SkipKeeps, FailKeeps,
     HostKeeps DEF ServiceNext
<1> QED
  BY <1>1, <1>2, CourseIsRetry, PTL DEF ServiceSpec
=============================================================================
