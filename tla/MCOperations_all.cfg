SPECIFICATION OperationsSpec
CONSTANTS
  Parts = {"server", "reload", "logger", "backup", "restore", "service"}
  Servers = {s1, s2}
  FixedPID = FALSE
  MaxLaunches = 3
  MaxSrvCrashes = 2
  MaxEdits = 2
  MaxReloads = 1
  MaxCommands = 1
  LogWriters = {w1, w2}
  FileOrder <- MCFileOrder
  HandledLogs = {"server"}
  MaxRotations = 3
  MaxLines = 4
  ServerJobs = {"task", "request"}
  Sizes = {1, 3}
  Cap = 2
  MaxBackupFiles = 4
  MaxBackupCrashes = 1
  Makers = {"server", "command"}
  MaxArchives = 2
  MaxCommits = 3
  MaxRestores = 1
  MaxRestoreCrashes = 1
  Managers <- MCManagers
  SystemIDs = {2, 3, 4}
  TakenIDs = {4}
  MaxServiceCommands = 4
CHECK_DEADLOCK FALSE
INVARIANT PIDFileNamesServer
INVARIANT OneScheduler
INVARIANT ReloadSettles
 
INVARIANT LinesKept
INVARIANT UsableKept
INVARIANT RestoreFaithful
INVARIANT RetryInstalls
