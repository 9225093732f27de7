SPECIFICATION FairSpec
CONSTANTS
  Tasks <- OneTask
  Slots <- OneSlot
  MaxTime = 4
  MaxManual = 1
  Every <- MCEvery
  Cron <- MCCron
  Policy <- MCPolicy
  DefaultEnabled <- MCDefaultEnabled
  CatchUpWindow = 1
  MaxDelay = 2
  TimesReadable = FALSE
  SaveFaults = TRUE
  Crashes = FALSE
  t1 = t1
  t2 = t2
  s1 = s1
  s2 = s2
PROPERTY DueIsServed
PROPERTY RunsEnd
PROPERTY LoopReturns
PROPERTY NextRunNeverGoesBack
