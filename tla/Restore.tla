------------------------------ MODULE Restore ------------------------------
(***************************************************************************)
(* What a backup holds and what a restore brings back: Create of           *)
(* backup.go, Restore of restore.go, runBackup of the server, and          *)
(* performBackup and performRestore of the command line.  server.yml is a  *)
(* version number.  The database is server.db with, while the server runs  *)
(* or after a crash, a write-ahead log that holds the commits not yet      *)
(* copied into it; the server archives both (IncludeData), the command     *)
(* only server.db.  Which backups are kept is the matter of module Backup. *)
(***************************************************************************)
EXTENDS Naturals

CONSTANTS
  Makers,            \* what makes backups: "server", "command"
  MaxArchives,       \* bound: backups begun
  MaxCommits,        \* bound: commits, and edits of server.yml
  MaxRestores,       \* bound: restores
  MaxRestoreCrashes  \* bound: crashes

ASSUME RestoreAssumption ==
  /\ MaxArchives \in Nat /\ MaxCommits \in Nat /\ MaxRestores \in Nat
  /\ MaxRestoreCrashes \in Nat

Broken == MaxCommits + 1
Versions == 1..MaxCommits
\* The database: what server.db holds, what the log holds (0: no log), and what
\* server.db held when the log was begun.
Databases == [main : Versions, wal : Versions \cup {0}, base : Versions]

VARIABLES
  cfg,       \* server.yml, Broken while it is being copied
  db,        \* the database files
  torn,      \* server.db is being copied by a restore
  up,        \* whether the server runs
  backups,   \* the backup files that are whole, as what they archive
  making,    \* making[m]: where m's backup stands, and its archive
  restore,   \* where the restore stands, its archive, what it started from
  archives, commits, restores, restoreCrashes

restoreVars == <<cfg, db, torn, up, backups, making, restore, archives, commits, restores,
                 restoreCrashes>>

\* An archive: the files; the database as committed when the archive was begun;
\* whether the name tells that it is encrypted, if it is; whether no write crossed the
\* reading and nothing committed was left out.
NoArchive == [cfg |-> 0, db |-> [main |-> 0, wal |-> 0, base |-> 0], held |-> 0,
              logged |-> FALSE, readable |-> FALSE, sound |-> FALSE]
NotMaking == [at |-> "idle", archive |-> NoArchive]
NoRestore == [at |-> "idle", archive |-> NoArchive, cfg |-> 0, held |-> 0, quiet |-> FALSE]

\* What SQLite reads: the log over server.db, if it belongs to it.
Held(d) == IF d.wal = 0 THEN d.main ELSE IF d.base = d.main THEN d.wal ELSE Broken
Sound == cfg # Broken /\ ~torn /\ Held(db) # Broken

\* A write reaches the files: the archives being read miss it or catch half of it,
\* and a restore under way is no longer alone.
Crossed == making' = [m \in Makers |->
  IF making[m].at = "reading" THEN [making[m] EXCEPT !.archive.sound = FALSE] ELSE making[m]]
Disturbed == restore' = [restore EXCEPT !.quiet = FALSE]
-----------------------------------------------------------------------------
RestoreInit ==
  /\ cfg = 1 /\ db = [main |-> 1, wal |-> 0, base |-> 1]
  /\ torn = FALSE /\ up = TRUE
  /\ backups = {}
  /\ making = [m \in Makers |-> NotMaking]
  /\ restore = NoRestore
  /\ archives = 0 /\ commits = 1 /\ restores = 0 /\ restoreCrashes = 0

\* The server commits a transaction to the log.
Commit ==
  /\ up /\ Sound /\ commits < MaxCommits
  /\ commits' = commits + 1
  /\ db' = [main |-> db.main, wal |-> commits', base |-> db.main]
  /\ Crossed /\ Disturbed
  /\ UNCHANGED <<cfg, torn, up, backups, archives, restores, restoreCrashes>>

\* The log is copied into server.db, now and then and when the server stops.
Checkpoint ==
  /\ up /\ Sound /\ db.wal # 0
  /\ db' = [main |-> db.wal, wal |-> 0, base |-> db.wal]
  /\ Crossed /\ Disturbed
  /\ UNCHANGED <<cfg, torn, up, backups, archives, commits, restores, restoreCrashes>>

\* The server stops with nothing in the log, or is started.
StopOrStart ==
  /\ up => db.wal = 0 /\ \A m \in Makers : m = "server" => making[m].at = "idle"
  /\ up' = ~up
  /\ Disturbed
  /\ UNCHANGED <<cfg, db, torn, backups, making, archives, commits, restores, restoreCrashes>>

\* The operator edits server.yml.
EditConfig ==
  /\ commits < MaxCommits /\ cfg # Broken
  /\ commits' = commits + 1 /\ cfg' = commits'
  /\ Crossed /\ Disturbed
  /\ UNCHANGED <<db, torn, up, backups, archives, restores, restoreCrashes>>

\* buildContentArchive reads server.yml and the database; an encrypted backup of the
\* server has no .enc in its name.
ReadFiles(m) ==
  /\ making[m].at = "idle" /\ archives < MaxArchives
  /\ m = "server" => up
  /\ archives' = archives + 1
  /\ \E readable \in IF m = "server" THEN BOOLEAN ELSE {TRUE} :
       making' = [making EXCEPT ![m] =
         [at |-> "reading",
          archive |-> [cfg |-> cfg, db |-> db, held |-> Held(db), logged |-> m = "server",
                       readable |-> readable, sound |-> Sound /\ (m = "server" \/ db.wal = 0)]]]
  /\ UNCHANGED <<cfg, db, torn, up, backups, restore, commits, restores, restoreCrashes>>

\* os.WriteFile truncates the file, and fills it: a restore finds it cut off till then.
WriteBackup(m) ==
  /\ making[m].at # "idle"
  /\ IF making[m].at = "reading"
     THEN making' = [making EXCEPT ![m].at = "writing"] /\ UNCHANGED backups
     ELSE making' = [making EXCEPT ![m] = NotMaking] /\ backups' = backups \cup {making[m].archive}
  /\ UNCHANGED <<cfg, db, torn, up, restore, archives, commits, restores, restoreCrashes>>

\* Restore reads the backup, decrypts it if its name says so, and verifies the
\* checksum of its manifest: a file that is cut off, or encrypted without its name
\* saying so, is refused.  Nothing asks whether the server runs.
BeginRestore ==
  /\ restore.at = "idle" /\ restores < MaxRestores
  /\ restores' = restores + 1
  /\ \E a \in backups :
       /\ a.readable
       /\ restore' = [at |-> "copying", archive |-> a, cfg |-> cfg, held |-> Held(db),
                      quiet |-> ~up /\ db.wal = 0 /\ a.sound]
  /\ UNCHANGED <<cfg, db, torn, up, backups, making, archives, commits, restoreCrashes>>

\* performRestore copies over the live files, truncating each first: server.yml, ...
RestoreConfig ==
  /\ \/ /\ restore.at = "copying"
        /\ cfg' = Broken /\ restore' = [restore EXCEPT !.at = "config"]
     \/ /\ restore.at = "config"
        /\ cfg' = restore.archive.cfg /\ restore' = [restore EXCEPT !.at = "copied"]
  /\ Crossed
  /\ UNCHANGED <<db, torn, up, backups, archives, commits, restores, restoreCrashes>>

\* Only server.db is brought back, whatever was archived with it.
MutantRestoreDatabase ==
  /\ \/ /\ restore.at = "copied"
        /\ torn' = TRUE /\ restore' = [restore EXCEPT !.at = "database"]
        /\ UNCHANGED db
     \/ /\ restore.at = "database"
        /\ torn' = FALSE /\ restore' = [restore EXCEPT !.at = "done"]
        /\ db' = [db EXCEPT !.main = restore.archive.db.main]
  /\ Crossed
  /\ UNCHANGED <<cfg, up, backups, archives, commits, restores, restoreCrashes>>

\* ... server.db, and then the data directory if it was archived (server.db again,
\* and its log); a log that is there stays.
RestoreDatabase ==
  /\ \/ /\ restore.at = "copied"
        /\ torn' = TRUE /\ restore' = [restore EXCEPT !.at = "database"]
        /\ UNCHANGED db
     \/ /\ restore.at = "database"
        /\ torn' = FALSE /\ restore' = [restore EXCEPT !.at = "done"]
        /\ LET a == restore.archive IN
           db' = IF a.logged /\ a.db.wal # 0 THEN a.db ELSE [db EXCEPT !.main = a.db.main]
  /\ Crossed
  /\ UNCHANGED <<cfg, up, backups, archives, commits, restores, restoreCrashes>>

\* A copy fails, the disk being full for instance, or the command is killed.
RestoreFails ==
  /\ restore.at \in {"copying", "config", "copied", "database"}
  /\ restore' = [restore EXCEPT !.at = "failed"]
  /\ UNCHANGED <<cfg, db, torn, up, backups, making, archives, commits, restores, restoreCrashes>>

EndRestore ==
  /\ restore.at \in {"done", "failed"}
  /\ restore' = NoRestore
  /\ UNCHANGED <<cfg, db, torn, up, backups, making, archives, commits, restores, restoreCrashes>>

\* The server is killed, and its log stays.
RestoreCrash ==
  /\ up /\ restoreCrashes < MaxRestoreCrashes
  /\ restoreCrashes' = restoreCrashes + 1
  /\ up' = FALSE
  /\ making' = [m \in Makers |-> IF m = "server" THEN NotMaking ELSE making[m]]
  /\ UNCHANGED <<cfg, db, torn, backups, restore, archives, commits, restores>>

RestoreNext ==
  \/ Commit \/ Checkpoint \/ StopOrStart \/ EditConfig \/ RestoreCrash
  \/ \E m \in Makers : ReadFiles(m) \/ WriteBackup(m)
  \/ BeginRestore \/ RestoreConfig \/ RestoreDatabase \/ RestoreFails \/ EndRestore

RestoreSpec == RestoreInit /\ [][RestoreNext]_restoreVars
-----------------------------------------------------------------------------
Archives == [cfg : Versions \cup {Broken}, db : Databases, held : Versions \cup {Broken},
             logged : BOOLEAN, readable : BOOLEAN, sound : BOOLEAN]

RestoreTypeOK ==
  /\ cfg \in Versions \cup {Broken} /\ db \in Databases
  /\ torn \in BOOLEAN /\ up \in BOOLEAN
  /\ backups \subseteq Archives
  /\ \A m \in Makers : /\ making[m].at \in {"idle", "reading", "writing"}
                       /\ making[m].archive \in Archives \cup {NoArchive}
  /\ restore.archive \in Archives \cup {NoArchive}
  /\ archives \in 0..MaxArchives /\ restores \in 0..MaxRestores
  /\ commits \in Versions /\ restoreCrashes \in 0..MaxRestoreCrashes

\* What a restore brings back, if the server is stopped and left no log, and the
\* archive was read while nobody wrote, is server.yml and the database as committed
\* when the backup was begun, through server.db alone or with the archived log
\* (buildContentArchive, performRestore).
RestoreFaithful ==
  restore.at = "done" /\ restore.quiet =>
    cfg = restore.archive.cfg /\ Held(db) = restore.archive.held

\* AI.md:48465 "Restore is atomic (all or nothing)": one that fails leaves server.yml and
\* the database as they were.
RestoreAtomic ==
  restore.at = "failed" /\ restore.quiet =>
    cfg = restore.cfg /\ ~torn /\ Held(db) = restore.held
=============================================================================
