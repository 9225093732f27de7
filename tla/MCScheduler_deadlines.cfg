SPECIFICATION Spec
CONSTANTS
  Tasks <- TwoTasks
  Slots <- TwoSlots
  MaxTime = 5
  MaxManual = 1
  Every <- MCEvery
  Cron <- MCCron
  Policy <- MCPolicy
  DefaultEnabled <- MCDefaultEnabled
  CatchUpWindow = 1
  MaxDelay = 2
  TimesReadable = TRUE
  SaveFaults = FALSE
  Crashes = TRUE
  t1 = t1
  t2 = t2
  s1 = s1
  s2 = s2
SYMMETRY SlotSymmetry
INVARIANT TypeOK
INVARIANT AtMostOncePerDeadline
INVARIANT WaitGroupExact
INVARIANT DurableState
