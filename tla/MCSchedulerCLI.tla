--------------------------- MODULE MCSchedulerCLI ---------------------------
(***************************************************************************)
(* One "@every 2" task, the server and the scheduler subcommand on one     *)
(* database.                                                               *)
(***************************************************************************)
EXTENDS SchedulerCLI

CONSTANTS t1, s1, s2

OneTask == {t1}
OneSlot == {s1}
TwoSlots == {s1, s2}
MCEvery == [t \in Tasks |-> 2]
MCCron == [t \in Tasks |-> {}]
MCPolicy == [t \in Tasks |-> [max |-> 0, delay |-> 1, backoff |-> "constant"]]
MCDefaultEnabled == [t \in Tasks |-> TRUE]
=============================================================================
