---------------------------- MODULE MCScheduler ----------------------------
(***************************************************************************)
(* Instances of Scheduler for TLC: t1 is an "@every 2" task that is        *)
(* retried once, t2 a cron task that matches every third instant.          *)
(***************************************************************************)
EXTENDS Scheduler, TLC

CONSTANTS t1, t2, s1, s2

OneTask == {t1}
TwoTasks == {t1, t2}
OneSlot == {s1}
TwoSlots == {s1, s2}

\* Slots only tell executions apart.
SlotSymmetry == Permutations(Slots)

MCEvery == [t \in Tasks |-> IF t = t1 THEN 2 ELSE 0]
MCCron == [t \in Tasks |-> {n \in 0..12 : n % 3 = 0}]
MCPolicy == [t \in Tasks |->
  IF t = t1 THEN [max |-> 1, delay |-> 1, backoff |-> "exponential"]
            ELSE [max |-> 0, delay |-> 1, backoff |-> "linear"]]
MCDefaultEnabled == [t \in Tasks |-> TRUE]
=============================================================================
