-------------------------------- MODULE Backup --------------------------------
(***************************************************************************)
(* The backup files: Create, VerifyBackup, ApplyRetentionPolicy and        *)
(* enforceSizeCap of backup.go, as run by the server (runBackup: the tasks *)
(* backup_daily and backup_hourly, a request over HTTP) and by the command *)
(* line (performBackup, run here in the backup directory).  The counts of  *)
(* ApplyRetentionPolicy delete nothing that the program writes: the glob   *)
(* finds only the command's caswhois_backup_<time>, and base[17:27] of it  *)
(* is no date, the prefix being 16 characters long.  What deletes is the   *)
(* size cap, which goes by the prefix.  What the files hold is the matter  *)
(* of module Restore.                                                      *)
(***************************************************************************)
EXTENDS Naturals, FiniteSets, SequencesExt

CONSTANTS
  ServerJobs,       \* what runs runBackup: "task", "request"
  Sizes,            \* the sizes a backup may have
  Cap,              \* server.backup.retention.max_total_size, 0 for none
  MaxBackupFiles,   \* bound: backups begun
  MaxBackupCrashes  \* bound: crashes

ASSUME BackupAssumption ==
  /\ "command" \notin ServerJobs
  /\ Sizes \subseteq Nat /\ Cap \in Nat
  /\ MaxBackupFiles \in Nat /\ MaxBackupCrashes \in Nat

Jobs == ServerJobs \cup {"command"}

VARIABLES
  store,     \* the backup files in the order of their writing: number -> [by, size, whole]
  job,       \* job[j]: where j's backup stands, its file, what it has yet to delete
  held,      \* history variable: the command has completed a backup
  dropped,   \* history variable: a backup of the command was begun and not completed
  outsized,  \* history variable: one was larger than the cap allows all of them to be
  begun, backupCrashes

backupVars == <<store, job, held, dropped, outsized, begun, backupCrashes>>

NoJob == [at |-> "idle", file |-> 0, doomed |-> {}]
-----------------------------------------------------------------------------
\* The files with the prefix caswhois_backup_: the command's own.
Capped == {f \in DOMAIN store : store[f].by = "command"}

\* What files take, given their sizes.
Volume(files, size) == Cardinality(UNION {{f} \X (1..size[f]) : f \in files})

\* Their sizes, and what a listing may see of them: of a half-written one, any part.
Full == [f \in DOMAIN store |-> store[f].size]
Seen == {seen \in [Capped -> UNION {0..n : n \in Sizes}] :
           \A f \in Capped : IF store[f].whole THEN seen[f] = Full[f] ELSE seen[f] <= Full[f]}

\* The newest go first.
MutantOverCap(seen) ==
  {f \in Capped : Cap > 0 /\ Volume({g \in Capped : g <= f}, seen) > Cap}

\* enforceSizeCap: the oldest go first, until the rest fits.
OverCap(seen) ==
  {f \in Capped : Cap > 0 /\ Volume({g \in Capped : g >= f}, seen) > Cap}
-----------------------------------------------------------------------------
BackupInit ==
  /\ store = <<>>
  /\ job = [j \in Jobs |-> NoJob]
  /\ held = FALSE /\ dropped = FALSE /\ outsized = FALSE
  /\ begun = 0 /\ backupCrashes = 0

\* runBackup or performBackup: Create builds the archive in memory; os.WriteFile
\* creates the file ...
CreateBackup(j) ==
  /\ job[j].at = "idle" /\ begun < MaxBackupFiles
  /\ begun' = begun + 1
  /\ \E size \in Sizes :
       /\ store' = [f \in DOMAIN store \cup {begun'} |->
            IF f = begun' THEN [by |-> j, size |-> size, whole |-> FALSE] ELSE store[f]]
       /\ outsized' = (outsized \/ (j = "command" /\ Cap > 0 /\ size > Cap))
  /\ job' = [job EXCEPT ![j] = [at |-> "writing", file |-> begun', doomed |-> {}]]
  /\ UNCHANGED <<held, dropped, backupCrashes>>

\* ... and fills it, unless it has been deleted meanwhile; ...
FillBackup(j) ==
  /\ job[j].at = "writing"
  /\ store' = [f \in DOMAIN store |->
       IF f = job[j].file THEN [store[f] EXCEPT !.whole = TRUE] ELSE store[f]]
  /\ job' = [job EXCEPT ![j].at = IF j = "command" THEN "verify" ELSE "list"]
  /\ UNCHANGED <<held, dropped, outsized, begun, backupCrashes>>

\* ... or the writing fails, and what is written stays.
SpoilBackup(j) ==
  /\ job[j].at = "writing"
  /\ job' = [job EXCEPT ![j] = NoJob]
  /\ dropped' = (dropped \/ j = "command")
  /\ UNCHANGED <<store, held, outsized, begun, backupCrashes>>

\* VerifyBackup, in the command only: a backup whose database does not pass (a write
\* crossed the reading of it) is removed.
VerifyBackup ==
  LET f == job["command"].file IN
  /\ job["command"].at = "verify"
  /\ \E passes \in {(f \in DOMAIN store), FALSE} :
       IF passes
       THEN held' = TRUE /\ UNCHANGED <<store, dropped>>
       ELSE store' = Restrict(store, DOMAIN store \ {f}) /\ dropped' = TRUE /\ UNCHANGED held
  /\ job' = [job EXCEPT !["command"] = NoJob]
  /\ UNCHANGED <<outsized, begun, backupCrashes>>

\* ApplyRetentionPolicy, in the server only: no file has a date to go by, so all stay;
\* enforceSizeCap lists the files with their sizes, ...
ListForCap(j) ==
  /\ job[j].at = "list"
  /\ \E seen \in Seen : job' = [job EXCEPT ![j].at = "trim", ![j].doomed = OverCap(seen)]
  /\ UNCHANGED <<store, held, dropped, outsized, begun, backupCrashes>>

\* ... removes the oldest one by one by the total it has, and gives up at one that it
\* cannot remove, because another job has or for another reason.
RemoveOldest(j) ==
  /\ job[j].at = "trim"
  /\ \E f \in job[j].doomed :
       /\ \A g \in job[j].doomed : f <= g
       /\ \E removed \in {(f \in DOMAIN store), FALSE} :
            IF removed
            THEN /\ store' = Restrict(store, DOMAIN store \ {f})
                 /\ job' = [job EXCEPT ![j].doomed = @ \ {f}]
            ELSE /\ job' = [job EXCEPT ![j] = NoJob]
                 /\ UNCHANGED store
  /\ UNCHANGED <<held, dropped, outsized, begun, backupCrashes>>

EndRetention(j) ==
  /\ job[j].at = "trim" /\ job[j].doomed = {}
  /\ job' = [job EXCEPT ![j] = NoJob]
  /\ UNCHANGED <<store, held, dropped, outsized, begun, backupCrashes>>

\* The server is killed, or the command that makes a backup.
BackupCrash ==
  /\ backupCrashes < MaxBackupCrashes
  /\ backupCrashes' = backupCrashes + 1
  /\ \E dead \in {ServerJobs, {"command"}} :
       /\ job' = [j \in Jobs |-> IF j \in dead THEN NoJob ELSE job[j]]
       /\ dropped' = (dropped \/ ("command" \in dead /\ job["command"].at # "idle"))
  /\ UNCHANGED <<store, held, outsized, begun>>

BackupNext ==
  \/ BackupCrash \/ VerifyBackup
  \/ \E j \in Jobs :
       \/ CreateBackup(j) \/ FillBackup(j) \/ SpoilBackup(j)
       \/ ListForCap(j) \/ RemoveOldest(j) \/ EndRetention(j)

BackupSpec == BackupInit /\ [][BackupNext]_backupVars
-----------------------------------------------------------------------------
BackupTypeOK ==
  /\ DOMAIN store \subseteq 1..begun
  /\ \A f \in DOMAIN store : store[f] \in [by : Jobs, size : Sizes, whole : BOOLEAN]
  /\ job \in [Jobs -> [at : {"idle", "writing", "verify", "list", "trim"},
                       file : 0..begun, doomed : SUBSET (1..begun)]]
  /\ held \in BOOLEAN /\ dropped \in BOOLEAN /\ outsized \in BOOLEAN
  /\ begun \in 0..MaxBackupFiles /\ backupCrashes \in 0..MaxBackupCrashes

\* The size cap takes no more than it has to, and leaves a backup, whatever jobs list and
\* remove the files at once and whatever is written meanwhile, as long as every backup that
\* the command begins is completed: what a job is about to remove still is, with the newer
\* ones, more than the cap allows; and once the command has completed a backup, a whole one
\* is there or one that it is writing, unless one of them was too large for the cap by
\* itself (enforceSizeCap, whose list and total are from before the other's removals).
UsableKept ==
  ~dropped =>
    /\ \A j \in ServerJobs : \A f \in job[j].doomed \cap Capped :
         Volume({g \in Capped : g >= f}, Full) > Cap
    /\ held /\ ~outsized =>
         \E f \in Capped :
           store[f].whole \/ (job["command"].at = "writing" /\ job["command"].file = f)

\* config.go:270, of max_total_size: "a hard cap on total backup volume"; here of the volume
\* of the server's own backups, each of them made before a retention.
CapHolds ==
  Cap > 0 /\ (\A j \in Jobs : job[j].at = "idle") =>
    Volume({f \in DOMAIN store : store[f].by \in ServerJobs}, Full) <= Cap
=============================================================================
