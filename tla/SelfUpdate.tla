------------------------------ MODULE SelfUpdate ------------------------------
(***************************************************************************)
(* The self-update (src/src/update, the update hook of server.go, and      *)
(* --update of status.go) on Linux.  The server's daily task and a command *)
(* on the command line replace what os.Executable() names at that moment:  *)
(* rename <p> to <p>.old, rename the download to <p>, remove <p>.old.  <p> *)
(* follows the process's own image, which renames move and removals leave  *)
(* under its last name.  The name with n times ".old" is the number n.  A  *)
(* version is a number; the releases of a channel are 1..latest.           *)
(***************************************************************************)
EXTENDS Naturals, FiniteSets

CONSTANTS
  AutoInstall,      \* server.update.auto_install
  MaxVersion,       \* bound: releases
  MaxOld,           \* bound: times ".old" is appended
  MaxInstalls,      \* bound: updates begun
  MaxUpdateCrashes  \* bound: crashes

ASSUME SelfUpdateAssumption ==
  /\ AutoInstall \in BOOLEAN
  /\ MaxVersion \in Nat \ {0} /\ MaxOld \in Nat \ {0}
  /\ MaxInstalls \in Nat /\ MaxUpdateCrashes \in Nat

Agents == {"server", "command"}
Names == 0..MaxOld
NoBinary == 0
Corrupt == MaxVersion + 1   \* a download that is not what was released

VARIABLES
  latest,     \* the newest release of the channel
  eligible,   \* releases up to this one have cleared defer_days
  binary,     \* binary[n]: the binary under the name n, or NoBinary
  running,    \* running[a]: the Version compiled into agent a's process (0 if none), the
              \* name of its image, and whether the image still has that name
  install,    \* install[a]: where a's update stands, its download, and currentPath
  collided,   \* history variable: whether two installations have been under way at
              \* one time, and their renames
  severed,    \* history variable: an installation was cut off half-way, by a crash or by
              \* a failed Chmod
  installs, updateCrashes

updVars == <<latest, eligible, binary, running, install, collided, severed,
             installs, updateCrashes>>

NotInstalling == [at |-> "idle", target |-> 0, file |-> NoBinary, name |-> 0]
NotRunning == [version |-> 0, name |-> 0, linked |-> FALSE]
Installing(a) == install[a].at # "idle"
To(a, at) == install' = [install EXCEPT ![a].at = at]
Stop(a) == install' = [install EXCEPT ![a] = NotInstalling]

\* A process that has just been started from the name n.
RunningFrom(n) == [version |-> binary[n], name |-> n, linked |-> TRUE]

\* The image of r when the file under the name from is renamed to the name to, or a
\* file under the name to is removed or overwritten.
Moved(r, from, to) == IF r.linked /\ r.name = from THEN [r EXCEPT !.name = to] ELSE r
Unlinked(r, n) == IF r.linked /\ r.name = n THEN [r EXCEPT !.linked = FALSE] ELSE r

RenameFile(from, to) ==
  /\ binary' = [binary EXCEPT ![to] = binary[from], ![from] = NoBinary]
  /\ running' = [a \in Agents |-> Moved(Unlinked(running[a], to), from, to)]

\* The name n is given to the file v, or to none.
Overwrite(n, v) ==
  /\ binary' = [binary EXCEPT ![n] = v]
  /\ running' = [a \in Agents |-> Unlinked(running[a], n)]

Overlap(how) == collided' = IF how = "no" \/ collided = "renames" THEN collided ELSE how

\* The release a check settles on.  The task takes the newest one that is newer
\* than the running version and eligible; the command the newest of all.
Chosen(a) ==
  LET limit == IF a = "server" THEN eligible ELSE latest IN
  IF limit > running[a].version THEN limit ELSE 0
-----------------------------------------------------------------------------
UpdInit ==
  /\ latest = 1 /\ eligible = 1
  /\ binary = [n \in Names |-> IF n = 0 THEN 1 ELSE NoBinary]
  /\ running = [a \in Agents |-> IF a = "server" THEN RunningFrom(0) ELSE NotRunning]
  /\ install = [a \in Agents |-> NotInstalling]
  /\ collided = "no" /\ severed = FALSE
  /\ installs = 0 /\ updateCrashes = 0

Release ==
  /\ latest < MaxVersion
  /\ latest' = latest + 1
  /\ UNCHANGED <<eligible, binary, running, install, collided, severed, installs, updateCrashes>>

\* defer_days pass for one more release.
Age ==
  /\ eligible < latest
  /\ eligible' = eligible + 1
  /\ UNCHANGED <<latest, binary, running, install, collided, severed, installs, updateCrashes>>

\* A command line is started from the executable.
StartCommand ==
  /\ running["command"] = NotRunning /\ binary[0] # NoBinary
  /\ running' = [running EXCEPT !["command"] = RunningFrom(0)]
  /\ UNCHANGED <<latest, eligible, binary, install, collided, severed, installs, updateCrashes>>

\* CheckForUpdatesScheduled or CheckForUpdates finds a release (without one there
\* is nothing to do).  The command checks twice: performUpdate, then PerformUpdate.
Check(a) ==
  /\ running[a].version # 0
  /\ a = "server" => AutoInstall
  /\ \/ ~Installing(a) /\ installs < MaxInstalls /\ installs' = installs + 1
     \/ install[a].at = "checked" /\ a = "command" /\ UNCHANGED installs
  /\ IF Chosen(a) = 0 THEN Stop(a)
     ELSE install' = [install EXCEPT ![a] =
            [at |-> IF a = "command" /\ ~Installing(a) THEN "checked" ELSE "chosen",
             target |-> Chosen(a), file |-> NoBinary, name |-> 0]]
  /\ Overlap(IF Chosen(a) # 0 /\ \E b \in Agents \ {a} : Installing(b) THEN "checks" ELSE "no")
  /\ UNCHANGED <<latest, eligible, binary, running, severed, updateCrashes>>

\* downloadBinary, to a file of its own; it may fail, or bring something else.
Download(a) ==
  /\ install[a].at = "chosen"
  /\ \/ Stop(a)
     \/ \E v \in {install[a].target, Corrupt} :
          install' = [install EXCEPT ![a].at = "downloaded", ![a].file = v]
  /\ UNCHANGED <<latest, eligible, binary, running, collided, severed, installs, updateCrashes>>

\* verifyChecksum against checksums.txt, then currentPath from os.Executable(): the
\* name of the image now, also when it is not there any more.
Verify(a) ==
  /\ install[a].at = "downloaded"
  /\ IF install[a].file = Corrupt THEN Stop(a)
     ELSE install' = [install EXCEPT ![a].at = "verified", ![a].name = running[a].name]
  /\ UNCHANGED <<latest, eligible, binary, running, collided, severed, installs, updateCrashes>>

\* replaceBinary, first rename; without a file at currentPath, Stat fails.
MoveAside(a) ==
  LET p == install[a].name IN
  /\ install[a].at = "verified" /\ p < MaxOld
  /\ IF binary[p] = NoBinary
     THEN Stop(a) /\ UNCHANGED <<binary, running, collided>>
     ELSE /\ RenameFile(p, p + 1)
          /\ Overlap(IF \E b \in Agents \ {a} : install[b].at \in {"aside", "placed"}
                     THEN "renames" ELSE "no")
          /\ To(a, "aside")
  /\ UNCHANGED <<latest, eligible, severed, installs, updateCrashes>>

\* A failed second rename is only reported.
MutantPlace(a) ==
  /\ install[a].at = "aside"
  /\ \/ Overwrite(install[a].name, install[a].file) /\ To(a, "placed")
     \/ UNCHANGED <<binary, running>> /\ Stop(a)
  /\ UNCHANGED <<latest, eligible, collided, severed, installs, updateCrashes>>

\* Second rename; when it fails (the temporary directory is another file system,
\* say) the old binary is renamed back, if it is still there.
Place(a) ==
  LET p == install[a].name IN
  /\ install[a].at = "aside"
  /\ \/ Overwrite(p, install[a].file) /\ To(a, "placed")
     \/ /\ IF binary[p + 1] # NoBinary
           THEN RenameFile(p + 1, p)
           ELSE UNCHANGED <<binary, running>>
        /\ Stop(a)
  /\ UNCHANGED <<latest, eligible, collided, severed, installs, updateCrashes>>

\* Chmod, which fails for one when another installation has moved the file away, and
\* then leaves <p>.old; else <p>.old is removed.
Tidy(a) ==
  LET p == install[a].name IN
  /\ install[a].at = "placed"
  /\ \/ Stop(a) /\ severed' = TRUE /\ UNCHANGED <<binary, running>>
     \/ /\ binary[p] # NoBinary
        /\ Overwrite(p + 1, NoBinary)
        /\ To(a, "replaced") /\ UNCHANGED severed
  /\ UNCHANGED <<latest, eligible, collided, installs, updateCrashes>>

\* restartSelf executes what os.Executable() names by now: as a rule the <p>.old that
\* was just removed, so that the process stays what it is and reports an error.
Restart(a) ==
  LET n == running[a].name IN
  /\ install[a].at = "replaced"
  /\ running' = IF binary[n] = NoBinary THEN running
                ELSE [running EXCEPT ![a] = RunningFrom(n)]
  /\ Stop(a)
  /\ UNCHANGED <<latest, eligible, binary, collided, severed, installs, updateCrashes>>

\* The command ends.
EndCommand ==
  /\ running["command"] # NotRunning /\ ~Installing("command")
  /\ running' = [running EXCEPT !["command"] = NotRunning]
  /\ UNCHANGED <<latest, eligible, binary, install, collided, severed, installs, updateCrashes>>

\* An agent is killed, or the machine stops both.
UpdCrash ==
  /\ updateCrashes < MaxUpdateCrashes
  /\ updateCrashes' = updateCrashes + 1
  /\ \E dead \in SUBSET Agents \ {{}} :
       /\ running' = [a \in Agents |-> IF a \in dead THEN NotRunning ELSE running[a]]
       /\ install' = [a \in Agents |-> IF a \in dead THEN NotInstalling ELSE install[a]]
       /\ severed' = (severed \/ \E a \in dead : install[a].at \in {"aside", "placed"})
  /\ UNCHANGED <<latest, eligible, binary, collided, installs>>

\* The server is started, or restarted by hand, from the executable.
StartServer ==
  /\ binary[0] # NoBinary /\ ~Installing("server")
  /\ running' = [running EXCEPT !["server"] = RunningFrom(0)]
  /\ UNCHANGED <<latest, eligible, binary, install, collided, severed, installs, updateCrashes>>

InstallStep(a) ==
  Download(a) \/ Verify(a) \/ MoveAside(a) \/ Place(a) \/ Tidy(a) \/ Restart(a)

UpdNext ==
  \/ Release \/ Age \/ StartCommand \/ EndCommand \/ StartServer \/ UpdCrash
  \/ \E a \in Agents : Check(a) \/ InstallStep(a)

UpdSpec == UpdInit /\ [][UpdNext]_updVars
-----------------------------------------------------------------------------
UpdTypeOK ==
  /\ latest \in 1..MaxVersion /\ eligible \in 1..latest
  /\ binary \in [Names -> 0..Corrupt]
  /\ running \in [Agents -> [version : 0..Corrupt, name : Names, linked : BOOLEAN]]
  /\ install \in [Agents -> [at : {"idle", "checked", "chosen", "downloaded", "verified",
                                   "aside", "placed", "replaced"},
                             target : 0..latest, file : 0..Corrupt, name : Names]]
  /\ collided \in {"no", "checks", "renames"} /\ severed \in BOOLEAN
  /\ installs \in 0..MaxInstalls /\ updateCrashes \in 0..MaxUpdateCrashes

\* replaceBinary "Restore backup on failure": what stands under a name of the executable
\* was verified, and as long as the renames of two installations have not mixed, one of
\* the names has such a binary.  Unless an installation was cut off half-way as well,
\* that is the name of the executable itself, or <exe>.old between the two renames, and
\* without overlapping installations it is not older than what the server runs
\* (isNewer).  What the server's task installs has cleared the defer window, also when a
\* command has moved the executable on meanwhile (CheckForUpdatesScheduled, InstallUpdate).
InstallationsSound ==
  /\ \A n \in Names : binary[n] # Corrupt
  /\ collided # "renames" => \E n \in Names : binary[n] # NoBinary
  /\ collided # "renames" /\ ~severed =>
       IF \E a \in Agents : install[a].at = "aside"
       THEN binary[1] # NoBinary
       ELSE binary[0] # NoBinary
  /\ collided = "no" /\ ~severed /\ binary[0] # NoBinary =>
       binary[0] >= running["server"].version
  /\ install["server"].file \in 0..eligible \cup {Corrupt}

\* "Restart service or re-exec" (AI.md:31506; status.go:952): when restartSelf is through,
\* the new binary runs.  The code refutes it.
UpdatedRuns ==
  [][\A a \in Agents : Restart(a) => running'[a].version = install[a].file]_updVars

=============================================================================
