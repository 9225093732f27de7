SPECIFICATION CLISpec
CONSTANTS
  Tasks <- OneTask
  Slots <- OneSlot
  MaxTime = 4
  MaxManual = 1
  Every <- MCEvery
  Cron <- MCCron
  Policy <- MCPolicy
  DefaultEnabled <- MCDefaultEnabled
  CatchUpWindow = 1
  MaxDelay = 2
  TimesReadable = TRUE
  SaveFaults = FALSE
  Crashes = TRUE
  Commands = {"list", "enable", "disable", "run"}
  MaxCommands = 2
  t1 = t1
  s1 = s1
  s2 = s2
INVARIANT NeverOvercounted
