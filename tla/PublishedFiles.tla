---------------------------- MODULE PublishedFiles ----------------------------
(***************************************************************************)
(* What a component that keeps downloaded files on disk and in memory      *)
(* promises: under its name a file is absent or a complete version, and    *)
(* memory holds only what was complete on disk when it was loaded.  Where  *)
(* two downloads that share a temporary name have overlapped, a file may   *)
(* be damaged until the next download.                                     *)
(***************************************************************************)
EXTENDS Naturals

CONSTANTS Files, Versions  \* 0 is "none" and not a version

VARIABLES
  disk,    \* disk[f]: the complete version under the name f, or 0
  memory,  \* memory[f]: the version in use, or 0
  shared   \* two downloads have shared a temporary name

Init ==
  /\ disk = [f \in Files |-> 0]
  /\ memory = [f \in Files |-> 0]
  /\ shared = FALSE

Share == shared' = TRUE /\ UNCHANGED <<disk, memory>>

Put(f, v) ==
  /\ disk' = [disk EXCEPT ![f] = v]
  /\ UNCHANGED <<memory, shared>>

Damage(f) ==
  /\ shared
  /\ disk' = [disk EXCEPT ![f] = 0]
  /\ UNCHANGED <<memory, shared>>

\* Some of the files are loaded; the rest stay as they are.
LoadSome ==
  /\ memory' \in [Files -> {0} \cup Versions]
  /\ \A f \in Files : memory'[f] = memory[f] \/ (disk[f] # 0 /\ memory'[f] = disk[f])
  /\ UNCHANGED <<disk, shared>>

\* The process starts again and loads from disk.
Reopen ==
  /\ memory' \in [Files -> {0} \cup Versions]
  /\ \A f \in Files : memory'[f] \in {0, disk[f]}
  /\ UNCHANGED <<disk, shared>>

Next ==
  \/ Share \/ LoadSome \/ Reopen
  \/ \E f \in Files : Damage(f) \/ \E v \in Versions : Put(f, v)

Spec == Init /\ [][Next]_<<disk, memory, shared>>
=============================================================================
