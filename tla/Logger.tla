-------------------------------- MODULE Logger --------------------------------
(***************************************************************************)
(* The log files (src/src/logger) while goroutines write them, SIGUSR1 and *)
(* the log_rotation task reopen them, and main closes them.  access.log,   *)
(* auth.log, audit.log and security.log are written through the file the   *)
(* lock protects; server.log, error.log, app.log and debug.log through a   *)
(* handler the caller picks up before it takes the lock.                   *)
(***************************************************************************)
EXTENDS Naturals, Sequences

CONSTANTS
  LogWriters,    \* goroutines that log
  FileOrder,     \* the order in which openFiles opens the files, <<log, ...>>
  HandledLogs,   \* the logs written through a handler
  MaxRotations,  \* bound: rotations
  MaxLines       \* bound: lines

ASSUME LoggerAssumption ==
  /\ FileOrder \in Seq(STRING)
  /\ HandledLogs \subseteq {FileOrder[i] : i \in DOMAIN FileOrder}
  /\ MaxRotations \in Nat /\ MaxLines \in Nat

Logs == {FileOrder[i] : i \in DOMAIN FileOrder}
Nil == 0

VARIABLES
  handle,    \* handle[l]: the open file of log l, named by the rotation that opened
             \* it, or Nil
  handler,   \* handler[l]: the file that l's handler writes to
  openFDs,   \* the files not closed, as <<log, rotation>>
  rotating,  \* a Rotate holds the lock, its files closed and not yet reopened
  reopenFailed,  \* history variable: the last openFiles gave up half way
  logClosed, \* Close has been called
  line,      \* line[w]: the line writer w is logging: its log, the file it picked up,
             \* whether a rotation has crossed it
  undue,     \* history variable: a line was lost although nothing crossed it
  rotations, lines

logVars == <<handle, handler, openFDs, rotating, reopenFailed, logClosed, line, undue,
             rotations, lines>>

NoLine == [log |-> "", file |-> Nil, crossed |-> FALSE]
Logging(w) == line[w].log # ""

\* The line of w ends, in its file or nowhere.
LineEnds(w, kept) ==
  /\ line' = [line EXCEPT ![w] = NoLine]
  /\ undue' = (undue \/ ~(kept \/ line[w].crossed \/ reopenFailed \/ logClosed))
-----------------------------------------------------------------------------
LogInit ==
  /\ handle = [l \in Logs |-> 1]
  /\ handler = [l \in HandledLogs |-> 1]
  /\ openFDs = Logs \X {1}
  /\ rotating = FALSE /\ reopenFailed = FALSE /\ logClosed = FALSE
  /\ line = [w \in LogWriters |-> NoLine]
  /\ undue = FALSE
  /\ rotations = 1 /\ lines = 0

\* WriteAccess, WriteAudit, WriteSecurity and WriteAuth look at the file before they
\* have the lock, writeText at the handler it was given: without one there is no line.
BeginLine(w, l) ==
  /\ ~Logging(w) /\ lines < MaxLines
  /\ lines' = lines + 1
  /\ LET found == IF l \in HandledLogs THEN handler[l] ELSE handle[l] IN
     IF found = Nil
     THEN undue' = (undue \/ ~(rotating \/ reopenFailed \/ logClosed)) /\ UNCHANGED line
     ELSE /\ line' = [line EXCEPT ![w] = [log |-> l, file |-> found, crossed |-> rotating]]
          /\ UNCHANGED undue
  /\ UNCHANGED <<handle, handler, openFDs, rotating, reopenFailed, logClosed, rotations>>

\* With the lock: the file is looked at again, the handler is the one picked up.  An
\* error of the write, a closed file for instance, is dropped.
WriteLine(w) ==
  /\ Logging(w) /\ ~rotating
  /\ LET l == line[w].log
         to == IF l \in HandledLogs THEN line[w].file ELSE handle[l] IN
     LineEnds(w, to # Nil /\ <<l, to>> \in openFDs)
  /\ UNCHANGED <<handle, handler, openFDs, rotating, reopenFailed, logClosed, rotations, lines>>

\* Rotate takes the lock, closes the files and forgets them; the handlers of the logs
\* that are always open stay.
RotateClose ==
  /\ ~rotating /\ rotations <= MaxRotations
  /\ rotating' = TRUE /\ rotations' = rotations + 1
  /\ openFDs' = {}
  /\ handle' = [l \in Logs |-> Nil]
  /\ line' = [w \in LogWriters |->
                IF Logging(w) THEN [line[w] EXCEPT !.crossed = TRUE] ELSE NoLine]
  /\ UNCHANGED <<handler, reopenFailed, logClosed, undue, lines>>

\* The handlers are made once and kept.
MutantReopen(n) ==
  /\ rotating
  /\ LET opened == {FileOrder[i] : i \in 1..n} IN
     /\ handle' = [l \in Logs |-> IF l \in opened THEN rotations ELSE Nil]
     /\ openFDs' = opened \X {rotations}
     /\ reopenFailed' = (opened # Logs)
     /\ UNCHANGED handler
  /\ rotating' = FALSE
  /\ UNCHANGED <<logClosed, line, undue, rotations, lines>>

\* openFiles: the files in their order; at the first that cannot be opened it gives
\* up, and no handler is replaced.
Reopen(n) ==
  /\ rotating
  /\ LET opened == {FileOrder[i] : i \in 1..n} IN
     /\ handle' = [l \in Logs |-> IF l \in opened THEN rotations ELSE Nil]
     /\ openFDs' = opened \X {rotations}
     /\ reopenFailed' = (opened # Logs)
     /\ handler' = IF opened = Logs THEN [l \in HandledLogs |-> rotations] ELSE handler
  /\ rotating' = FALSE
  /\ UNCHANGED <<logClosed, line, undue, rotations, lines>>

\* The deferred Close of main; the goroutines that still log are not waited for, and
\* a Rotate may yet open the files again.
CloseLogs ==
  /\ ~rotating /\ ~logClosed
  /\ logClosed' = TRUE /\ openFDs' = {}
  /\ UNCHANGED <<handle, handler, rotating, reopenFailed, line, undue, rotations, lines>>

LogNext ==
  \/ \E w \in LogWriters : WriteLine(w) \/ \E l \in Logs : BeginLine(w, l)
  \/ RotateClose \/ CloseLogs
  \/ \E n \in 0..Len(FileOrder) : Reopen(n)

LogSpec == LogInit /\ [][LogNext]_logVars
-----------------------------------------------------------------------------
LogTypeOK ==
  /\ handle \in [Logs -> 0..MaxRotations + 1]
  /\ handler \in [HandledLogs -> 1..MaxRotations + 1]
  /\ openFDs \subseteq Logs \X (1..MaxRotations + 1)
  /\ rotating \in BOOLEAN /\ reopenFailed \in BOOLEAN /\ logClosed \in BOOLEAN
  /\ line \in [LogWriters -> [log : Logs \cup {""}, file : 0..MaxRotations + 1,
                              crossed : BOOLEAN]]
  /\ undue \in BOOLEAN
  /\ rotations \in 1..MaxRotations + 1 /\ lines \in 0..MaxLines

\* No line is lost except those a rotation crosses on their way to the file, those
\* that come after a reopening that failed, until one succeeds, and those that come
\* after Close; in particular a rotation that succeeds makes good one that failed
\* (Rotate, openFiles, writeText).
LinesKept == ~undue
=============================================================================
