SPECIFICATION Spec
CONSTANTS
  Tasks <- OneTask
  Slots <- TwoSlots
  MaxTime = 4
  MaxManual = 1
  Every <- MCEvery
  Cron <- MCCron
  Policy <- MCPolicy
  DefaultEnabled <- MCDefaultEnabled
  CatchUpWindow = 1
  MaxDelay = 2
  TimesReadable = FALSE
  SaveFaults = FALSE
  Crashes = TRUE
  t1 = t1
  t2 = t2
  s1 = s1
  s2 = s2
PROPERTY StateSurvivesRestart
