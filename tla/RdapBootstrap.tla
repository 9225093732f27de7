---------------------------- MODULE RdapBootstrap ----------------------------
(***************************************************************************)
(* The RDAP bootstrap tables (src/src/whois/rdap/bootstrap.go): one table  *)
(* per file IANA publishes, kept on disk and in memory.  An update writes  *)
(* <file>.tmp and renames it, file by file, then loads all tables.  The    *)
(* scheduled update and one requested by hand may overlap, and they use    *)
(* the same temporary names; so files are inodes here: os.Create           *)
(* truncates the inode another update may still be writing.                *)
(***************************************************************************)
EXTENDS Naturals, FiniteSets, Sequences, SequencesExt

CONSTANTS
  LoadOrder,     \* the files in the order Load reads them
  Updaters,      \* the updates that may run at one time
  RdapInodes,    \* numbers of inodes
  MaxPublished,  \* bound: versions IANA publishes
  MaxUpdates,    \* bound: updates begun
  MaxRdapCrashes \* bound: crashes

RdapFiles == ToSet(LoadOrder)

\* There are always inodes: as many as names and writers can hold.
ASSUME RdapAssumption ==
  /\ IsFiniteSet(RdapFiles) /\ IsFiniteSet(Updaters)
  /\ RdapInodes \subseteq Nat \ {0} /\ IsFiniteSet(RdapInodes)
  /\ Cardinality(RdapInodes) >= 2 * Cardinality(RdapFiles) + Cardinality(Updaters)
  /\ MaxPublished \in Nat \ {0}
  /\ MaxUpdates \in Nat /\ MaxRdapCrashes \in Nat

VARIABLES
  published,   \* the version IANA serves now
  content,     \* content[i]: the version inode i holds completely, or Torn
  tmpName,     \* tmpName[f]: the inode <f>.tmp names, 0 if there is no such file
  destName,    \* destName[f]: the inode <f> names, or 0
  table,       \* table[f]: the version of the table in memory, 0 if it is empty
  update,      \* update[u]: where u stands
  overlapped,  \* history variable: two updates have been under way together
  updates,     \* updates begun
  rdapCrashes

rdapVars == <<published, content, tmpName, destName, table, update, overlapped,
              updates, rdapCrashes>>

Torn == 0   \* an incomplete or mixed file; also the content of an unused inode
NotUpdating == [at |-> "idle", todo |-> {}, file |-> "", inode |-> 0, version |-> 0,
                pure |-> TRUE]
Updating(u) == update[u].at # "idle"
Writing(u) == update[u].at = "copying"

\* Inodes in use: named, or open.
InUse == {tmpName[f] : f \in RdapFiles} \cup {destName[f] : f \in RdapFiles}
           \cup {update[u].inode : u \in Updaters}
FreshInode == CHOOSE i \in RdapInodes : i \notin InUse
DiskVersion(f) == content[destName[f]]
Exists(f) == destName[f] # 0

\* A missing file and one that cannot be parsed leave the table as it is.
TableAfter(old, f, parsed) == IF Exists(f) /\ f \in parsed THEN DiskVersion(f) ELSE old[f]

\* Load goes through the files in order and returns at the first error; it
\* holds b.mu throughout, so lookups see all of it or nothing.
Load(old) ==
  LET bad == {n \in 1..Len(LoadOrder) : Exists(LoadOrder[n]) /\ DiskVersion(LoadOrder[n]) = Torn}
      reached == {LoadOrder[n] : n \in {m \in 1..Len(LoadOrder) : \A k \in bad : m <= k}}
      parsed == {f \in reached : DiskVersion(f) # Torn}
  IN  table' = [f \in RdapFiles |-> IF f \in reached THEN TableAfter(old, f, parsed) ELSE old[f]]
-----------------------------------------------------------------------------
\* NewBootstrap and the LoadBootstrap call of server.New: no files yet.
RdapInit ==
  /\ published = 1
  /\ content = [i \in RdapInodes \cup {0} |-> Torn]
  /\ tmpName = [f \in RdapFiles |-> 0]
  /\ destName = [f \in RdapFiles |-> 0]
  /\ table = [f \in RdapFiles |-> 0]
  /\ update = [u \in Updaters |-> NotUpdating]
  /\ overlapped = FALSE
  /\ updates = 0 /\ rdapCrashes = 0

\* IANA publishes a new version of its files.
Publish ==
  /\ published < MaxPublished
  /\ published' = published + 1
  /\ UNCHANGED <<content, tmpName, destName, table, update, overlapped, updates, rdapCrashes>>

\* Update is called by the scheduler's hook, with the files in map order.
BeginUpdate(u) ==
  /\ ~Updating(u)
  /\ updates < MaxUpdates
  /\ updates' = updates + 1
  /\ update' = [update EXCEPT ![u] = [NotUpdating EXCEPT !.at = "next", !.todo = RdapFiles]]
  /\ overlapped' = (overlapped \/ \E v \in Updaters : Updating(v))
  /\ UNCHANGED <<published, content, tmpName, destName, table, rdapCrashes>>

End(u) == update' = [update EXCEPT ![u] = NotUpdating]

\* The first file that fails ends the update; the tables are not loaded.
RequestFails(u) ==
  /\ update[u].at = "next" /\ update[u].todo # {}
  /\ End(u)
  /\ UNCHANGED <<published, content, tmpName, destName, table, overlapped, updates, rdapCrashes>>

\* A file that is there already is written in place.
MutantCreateTmp(u, f) ==
  LET i == IF destName[f] # 0 THEN destName[f] ELSE FreshInode IN
  /\ update[u].at = "next" /\ f \in update[u].todo
  /\ content' = [content EXCEPT ![i] = Torn]
  /\ tmpName' = [tmpName EXCEPT ![f] = i]
  /\ update' = [update EXCEPT ![u] = [update[u] EXCEPT !.at = "copying", !.file = f,
                  !.inode = i, !.version = published]]
  /\ UNCHANGED <<published, destName, table, overlapped, updates, rdapCrashes>>

\* The response has begun: os.Create(dest + ".tmp") makes or truncates it.
CreateTmp(u, f) ==
  LET i == IF tmpName[f] # 0 THEN tmpName[f] ELSE FreshInode IN
  /\ update[u].at = "next" /\ f \in update[u].todo
  /\ content' = [content EXCEPT ![i] = Torn]
  /\ tmpName' = [tmpName EXCEPT ![f] = i]
  /\ update' = [v \in Updaters |->
       IF v = u THEN [update[u] EXCEPT !.at = "copying", !.file = f, !.inode = i,
                        !.version = published,
                        !.pure = \A w \in Updaters \ {u} : Writing(w) => update[w].inode # i]
       ELSE IF Writing(v) /\ update[v].inode = i THEN [update[v] EXCEPT !.pure = FALSE]
       ELSE update[v]]
  /\ UNCHANGED <<published, destName, table, overlapped, updates, rdapCrashes>>

\* io.Copy reaches the end.  What the inode holds then is the version that was
\* copied, if no one else wrote to it since the truncation.  Bytes of two
\* writers may still add up to a file; if they do not, it is torn.
CopyDone(u) ==
  LET i == update[u].inode IN
  /\ Writing(u)
  /\ \/ content' = [content EXCEPT ![i] = update[u].version]
     \/ ~update[u].pure /\ content' = [content EXCEPT ![i] = Torn]
  /\ update' = [update EXCEPT ![u].at = "copied"]
  /\ UNCHANGED <<published, tmpName, destName, table, overlapped, updates, rdapCrashes>>

\* A copy that failed is renamed all the same.
MutantCopyFails(u) ==
  /\ Writing(u)
  /\ update' = [update EXCEPT ![u].at = "copied"]
  /\ UNCHANGED <<published, content, tmpName, destName, table, overlapped, updates, rdapCrashes>>

\* The copy fails; os.Remove takes whatever has the temporary name by now.
CopyFails(u) ==
  /\ Writing(u)
  /\ tmpName' = [tmpName EXCEPT ![update[u].file] = 0]
  /\ End(u)
  /\ UNCHANGED <<published, content, destName, table, overlapped, updates, rdapCrashes>>

\* A rename without a file is tried again, as long as it takes.
MutantRename(u) ==
  LET f == update[u].file IN
  /\ update[u].at = "copied" /\ tmpName[f] # 0
  /\ destName' = [destName EXCEPT ![f] = tmpName[f]]
  /\ tmpName' = [tmpName EXCEPT ![f] = 0]
  /\ update' = [update EXCEPT ![u] =
       [NotUpdating EXCEPT !.at = "next", !.todo = update[u].todo \ {f}]]
  /\ UNCHANGED <<published, content, table, overlapped, updates, rdapCrashes>>

\* os.Rename moves the name, whoever wrote the file; without one the update fails.
Rename(u) ==
  LET f == update[u].file IN
  /\ update[u].at = "copied"
  /\ IF tmpName[f] = 0
     THEN End(u) /\ UNCHANGED <<tmpName, destName>>
     ELSE /\ destName' = [destName EXCEPT ![f] = tmpName[f]]
          /\ tmpName' = [tmpName EXCEPT ![f] = 0]
          /\ update' = [update EXCEPT ![u] =
               [NotUpdating EXCEPT !.at = "next", !.todo = update[u].todo \ {f}]]
  /\ UNCHANGED <<published, content, table, overlapped, updates, rdapCrashes>>

\* After the last file, Load; its error is the update's.
FinishUpdate(u) ==
  /\ update[u].at = "next" /\ update[u].todo = {}
  /\ Load(table)
  /\ End(u)
  /\ UNCHANGED <<published, content, tmpName, destName, overlapped, updates, rdapCrashes>>

\* The process ends at any point and starts again; server.New loads what is
\* on disk before the scheduler exists.
RdapRestart ==
  /\ rdapCrashes < MaxRdapCrashes
  /\ rdapCrashes' = rdapCrashes + 1
  /\ update' = [u \in Updaters |-> NotUpdating]
  /\ Load([f \in RdapFiles |-> 0])
  /\ UNCHANGED <<published, content, tmpName, destName, overlapped, updates>>

UpdateStep(u) ==
  \/ RequestFails(u) \/ CopyDone(u) \/ CopyFails(u) \/ Rename(u) \/ FinishUpdate(u)
  \/ \E f \in RdapFiles : CreateTmp(u, f)

RdapNext ==
  \/ Publish
  \/ RdapRestart
  \/ \E u \in Updaters : BeginUpdate(u) \/ UpdateStep(u)

\* Requests have a 30 s timeout and the rest is local work.
RdapFairness == \A u \in Updaters : WF_rdapVars(UpdateStep(u))
RdapSpec == RdapInit /\ [][RdapNext]_rdapVars /\ RdapFairness
-----------------------------------------------------------------------------
RdapTypeOK ==
  /\ published \in 1..MaxPublished
  /\ content \in [RdapInodes \cup {0} -> 0..MaxPublished]
  /\ tmpName \in [RdapFiles -> RdapInodes \cup {0}]
  /\ destName \in [RdapFiles -> RdapInodes \cup {0}]
  /\ table \in [RdapFiles -> 0..MaxPublished]
  /\ update \in [Updaters -> [at : {"idle", "next", "copying", "copied"},
                              todo : SUBSET RdapFiles, file : RdapFiles \cup {""},
                              inode : RdapInodes \cup {0}, version : 0..MaxPublished,
                              pure : BOOLEAN]]
  /\ overlapped \in BOOLEAN
  /\ updates \in 0..MaxUpdates
  /\ rdapCrashes \in 0..MaxRdapCrashes

\* downloadFile: "Write to temp file first, then rename (atomic)".  Unless two
\* updates have overlapped, a file under its final name is always a complete
\* version, whatever failed and wherever the process ended; and memory is never
\* ahead of it.
DestIsWhole ==
  ~overlapped => \A f \in RdapFiles :
    /\ Exists(f) => DiskVersion(f) # Torn
    /\ table[f] <= DiskVersion(f)

\* Downloads that do not overlap keep the promise of PublishedFiles: whatever fails,
\* a file is absent or complete, and memory holds what was complete (Update, Load).
Rdap == INSTANCE PublishedFiles WITH
  Files <- RdapFiles, Versions <- 1..MaxPublished,
  disk <- [f \in RdapFiles |-> DiskVersion(f)], memory <- table, shared <- overlapped
RdapKeepsItsPromise == Rdap!Spec

\* Update returns, with an error or not, also when its temporary file is taken away.
UpdatesReturn == \A u \in Updaters : Updating(u) ~> ~Updating(u)
=============================================================================
