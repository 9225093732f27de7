------------------------- MODULE PublishedFilesProofs -------------------------
(***************************************************************************)
(* GeoIP and RdapBootstrap implement PublishedFiles, for any databases and *)
(* list of files, and any number of updates, versions, restarts and        *)
(* crashes; the certificates in use are sound, and so are the              *)
(* installations of SelfUpdate.                                            *)
(***************************************************************************)
EXTENDS GeoIP, RdapBootstrap, Certificates, SelfUpdate, FiniteSetTheorems, TLAPS

(***************************************************************************)
(* The databases of GeoIP, with any number of updates that share <d>.tmp.  *)
(***************************************************************************)

\* What a file or a reader may be: nothing, or a version.
Version == 0..MaxGeoReleases

\* What geoUpdate[u] may be.
GeoUpdateRecord ==
  [busy : BOOLEAN, todo : SUBSET Databases, moving : Databases \cup {NoDatabase}]

\* The bounds are numbers.
LEMMA GeoBounds ==
  MaxGeoReleases \in Nat \ {0} /\ MaxGeoUpdates \in Nat /\ MaxGeoRestarts \in Nat
BY GeoAssumption

-----------------------------------------------------------------------------
\* A load leaves a reader with what it had, or with what is complete on disk
\* (loadDatabases).
LEMMA GeoLoadKeepsOrTakes ==
  ASSUME GeoTypeOK, loadDatabases
  PROVE  /\ reader' \in [Databases -> Version]
         /\ \A d \in Databases :
              reader'[d] = reader[d] \/ (geoDisk[d] # 0 /\ reader'[d] = geoDisk[d])
<1>1. PICK bad \in SUBSET Databases :
        reader' = [d \in Databases |-> ReaderAfter(d, d \notin bad)]
  BY DEF loadDatabases
<1>2. reader \in [Databases -> Version] /\ geoDisk \in [Databases -> Version]
  BY DEF GeoTypeOK, Version
<1> QED
  BY <1>1, <1>2 DEF ReaderAfter

\* Every step leaves the files and the readers well typed.
LEMMA GeoFileTyping ==
  GeoTypeOK /\ [GeoNext]_geoVars =>
    /\ released' \in 1..MaxGeoReleases
    /\ geoTmp' \in [Databases -> Version]
    /\ geoDisk' \in [Databases -> Version]
    /\ reader' \in [Databases -> Version]
<1> DEFINE Typed == /\ released \in 1..MaxGeoReleases
                    /\ geoTmp \in [Databases -> Version]
                    /\ geoDisk \in [Databases -> Version]
                    /\ reader \in [Databases -> Version]
<1> SUFFICES ASSUME GeoTypeOK, [GeoNext]_geoVars PROVE Typed'
  OBVIOUS
<1>1. Typed /\ released \in Version /\ 0 \in Version
  BY GeoBounds DEF GeoTypeOK, Version
<1>2. CASE UNCHANGED <<released, geoTmp, geoDisk, reader>>
  BY <1>1, <1>2
<1>3. CASE GeoRelease
  <2>1. released' \in 1..MaxGeoReleases
    BY <1>1, <1>3, GeoBounds DEF GeoRelease
  <2> QED
    BY <1>1, <1>3, <2>1 DEF GeoRelease
<1>4. ASSUME NEW d \in Databases, GeoEnsure(d) PROVE Typed'
  BY <1>1, <1>4 DEF GeoEnsure
<1>5. CASE GeoOpen
  BY <1>1, <1>5, GeoLoadKeepsOrTakes DEF GeoOpen, Version
<1>6. CASE GeoRestart
  BY <1>1, <1>6 DEF GeoRestart
<1>7. ASSUME NEW u \in GeoUpdaters, NEW d \in Databases, GeoDownload(u, d) PROVE Typed'
  BY <1>1, <1>7 DEF GeoDownload
<1>8. ASSUME NEW u \in GeoUpdaters, GeoMove(u) PROVE Typed'
  BY <1>1, <1>8 DEF GeoMove
<1>9. ASSUME NEW u \in GeoUpdaters, FinishGeoUpdate(u) PROVE Typed'
  BY <1>1, <1>9, GeoLoadKeepsOrTakes DEF FinishGeoUpdate
<1> QED
  BY <1>2, <1>3, <1>4, <1>5, <1>6, <1>7, <1>8, <1>9 DEF GeoNext, BeginGeoUpdate, geoVars

\* Every step leaves the updates well typed.
LEMMA GeoUpdateTyping ==
  GeoTypeOK /\ [GeoNext]_geoVars => geoUpdate' \in [GeoUpdaters -> GeoUpdateRecord]
<1> SUFFICES ASSUME GeoTypeOK, [GeoNext]_geoVars
             PROVE  geoUpdate' \in [GeoUpdaters -> GeoUpdateRecord]
  OBVIOUS
<1>1. geoUpdate \in [GeoUpdaters -> GeoUpdateRecord]
  BY DEF GeoTypeOK, GeoUpdateRecord
<1>2. /\ AtRest \in GeoUpdateRecord
      /\ [AtRest EXCEPT !.busy = TRUE, !.todo = Databases] \in GeoUpdateRecord
  BY DEF AtRest, GeoUpdateRecord, NoDatabase
<1>3. ASSUME NEW u \in GeoUpdaters, BeginGeoUpdate(u) \/ FinishGeoUpdate(u)
      PROVE  geoUpdate' \in [GeoUpdaters -> GeoUpdateRecord]
  BY <1>1, <1>2, <1>3 DEF BeginGeoUpdate, FinishGeoUpdate
<1>4. ASSUME NEW u \in GeoUpdaters, GeoMove(u)
      PROVE  geoUpdate' \in [GeoUpdaters -> GeoUpdateRecord]
  BY <1>1, <1>4 DEF GeoMove, GeoUpdateRecord
<1>5. ASSUME NEW u \in GeoUpdaters, NEW d \in Databases, GeoDownload(u, d)
      PROVE  geoUpdate' \in [GeoUpdaters -> GeoUpdateRecord]
  BY <1>1, <1>5 DEF GeoDownload, GeoUpdateRecord
<1>6. CASE GeoRestart
  BY <1>2, <1>6 DEF GeoRestart
<1>7. CASE UNCHANGED geoUpdate
  BY <1>1, <1>7
<1> QED
  BY <1>3, <1>4, <1>5, <1>6, <1>7 DEF GeoNext, GeoRelease, GeoOpen, GeoEnsure, geoVars

\* Every reachable state is well typed (GeoIP).
THEOREM GeoTypeCorrect == GeoSpec => []GeoTypeOK
<1>1. GeoInit => GeoTypeOK
  <2> SUFFICES ASSUME GeoInit PROVE GeoTypeOK
    OBVIOUS
  <2>1. /\ geoTmp \in [Databases -> 0..MaxGeoReleases]
        /\ geoDisk \in [Databases -> 0..MaxGeoReleases]
        /\ reader \in [Databases -> 0..MaxGeoReleases]
    BY GeoBounds DEF GeoInit
  <2>2. AtRest \in GeoUpdateRecord
    BY DEF AtRest, GeoUpdateRecord, NoDatabase
  <2>3. geoUpdate \in [GeoUpdaters -> GeoUpdateRecord]
    BY <2>2 DEF GeoInit
  <2>4. released \in 1..MaxGeoReleases /\ geoUpdates \in 0..MaxGeoUpdates
        /\ geoRestarts \in 0..MaxGeoRestarts
    BY GeoBounds DEF GeoInit
  <2>5. ensuring \subseteq Databases /\ serving \in BOOLEAN
    BY DEF GeoInit
  <2> QED
    BY <2>1, <2>3, <2>4, <2>5 DEF GeoTypeOK, GeoUpdateRecord
<1>2. GeoTypeOK /\ [GeoNext]_geoVars => GeoTypeOK'
  <2> SUFFICES ASSUME GeoTypeOK, [GeoNext]_geoVars PROVE GeoTypeOK'
    OBVIOUS
  <2>1. ensuring' \subseteq Databases /\ serving' \in BOOLEAN
    BY DEF GeoTypeOK, GeoNext, GeoRelease, GeoOpen, GeoRestart, GeoEnsure, BeginGeoUpdate,
           GeoMove, FinishGeoUpdate, GeoDownload, geoVars
  <2>2. geoUpdates' \in 0..MaxGeoUpdates /\ geoRestarts' \in 0..MaxGeoRestarts
    <3>1. geoUpdates \in 0..MaxGeoUpdates /\ geoRestarts \in 0..MaxGeoRestarts
      BY DEF GeoTypeOK
    <3>2. /\ \/ geoUpdates' = geoUpdates
             \/ geoUpdates < MaxGeoUpdates /\ geoUpdates' = geoUpdates + 1
          /\ \/ geoRestarts' = geoRestarts
             \/ geoRestarts < MaxGeoRestarts /\ geoRestarts' = geoRestarts + 1
      BY DEF GeoNext, GeoRelease, GeoOpen, GeoRestart, GeoEnsure, BeginGeoUpdate,
             GeoMove, FinishGeoUpdate, GeoDownload, geoVars
    <3> QED
      BY <3>1, <3>2, GeoBounds
  <2> QED
    BY <2>1, <2>2, GeoFileTyping, GeoUpdateTyping DEF GeoTypeOK, Version, GeoUpdateRecord
<1> QED
  BY <1>1, <1>2, PTL DEF GeoSpec

-----------------------------------------------------------------------------
\* A file that changes on disk becomes a complete version (GeoMove, GeoEnsure).
LEMMA PutsAreWhole ==
  ASSUME GeoTypeOK, NEW d \in Databases, NEW v \in 1..MaxGeoReleases,
         geoDisk' = [geoDisk EXCEPT ![d] = v], UNCHANGED reader
  PROVE  Geo!Next
<1>1. Geo!Put(d, v)
  BY DEF Geo!Put
<1> QED
  BY <1>1 DEF Geo!Next

\* Each step is a step of PublishedFiles, or leaves the files and readers as they are.
LEMMA GeoStepImplements ==
  GeoTypeOK /\ [GeoNext]_geoVars => [Geo!Next]_<<geoDisk, reader, FALSE>>
<1> SUFFICES ASSUME GeoTypeOK, [GeoNext]_geoVars
             PROVE  Geo!Next \/ UNCHANGED <<geoDisk, reader>>
  OBVIOUS
<1>1. released \in 1..MaxGeoReleases
  BY DEF GeoTypeOK
<1>2. ASSUME NEW d \in Databases, GeoEnsure(d) PROVE Geo!Next \/ UNCHANGED <<geoDisk, reader>>
  BY <1>1, <1>2, PutsAreWhole DEF GeoEnsure
<1>3. ASSUME NEW u \in GeoUpdaters, GeoMove(u) PROVE Geo!Next \/ UNCHANGED <<geoDisk, reader>>
  <2> DEFINE d == geoUpdate[u].moving
  <2>1. d \in Databases \cup {NoDatabase} /\ d # NoDatabase
    BY <1>3 DEF GeoMove, GeoTypeOK
  <2>2. CASE geoTmp[d] # 0 /\ geoDisk' = [geoDisk EXCEPT ![d] = geoTmp[d]]
    <3>1. geoTmp[d] \in 1..MaxGeoReleases
      BY <2>1, <2>2, GeoBounds DEF GeoTypeOK
    <3> QED
      BY <1>3, <2>1, <2>2, <3>1, PutsAreWhole DEF GeoMove
  <2>3. CASE UNCHANGED geoDisk
    BY <1>3, <2>3 DEF GeoMove
  <2> QED
    BY <1>3, <2>2, <2>3 DEF GeoMove
<1>4. ASSUME loadDatabases, UNCHANGED geoDisk PROVE Geo!Next
  <2>1. Version = {0} \cup 1..MaxGeoReleases
    BY GeoBounds DEF Version
  <2>2. Geo!LoadSome
    BY <1>4, <2>1, GeoLoadKeepsOrTakes DEF Geo!LoadSome
  <2> QED
    BY <2>2 DEF Geo!Next
<1>5. CASE GeoRestart
  <2>1. Geo!Reopen
    BY <1>5 DEF GeoRestart, Geo!Reopen
  <2> QED
    BY <2>1 DEF Geo!Next
<1>6. CASE UNCHANGED <<geoDisk, reader>>
  BY <1>6
<1> QED
  BY <1>2, <1>3, <1>4, <1>5, <1>6
     DEF GeoNext, GeoRelease, GeoOpen, BeginGeoUpdate, FinishGeoUpdate, GeoDownload, geoVars

\* UpdateDatabases keeps the promise of PublishedFiles without its exception: also when
\* updates overlap, fail or end with the process, a database on disk is a complete
\* version and a reader serves one that was on disk when it was opened.
THEOREM GeoImplements == GeoSpec => GeoKeepsItsPromise
<1>1. GeoInit => Geo!Init
  BY DEF GeoInit, Geo!Init
<1> QED
  BY <1>1, GeoStepImplements, GeoTypeCorrect, PTL DEF GeoSpec, GeoKeepsItsPromise, Geo!Spec

-----------------------------------------------------------------------------
(***************************************************************************)
(* The bootstrap files of RDAP: they implement PublishedFiles whatever the *)
(* updaters do, and are whole under their final names unless updates have  *)
(* overlapped.                                                             *)
(***************************************************************************)

UpdateRecord ==
  [at : {"idle", "next", "copying", "copied"}, todo : SUBSET RdapFiles,
   file : RdapFiles \cup {""}, inode : RdapInodes \cup {0}, version : 0..MaxPublished,
   pure : BOOLEAN]

\* A writer has created its temporary file.
Underway(u) == update[u].at \in {"copying", "copied"}

\* The inode os.Create truncates, and whether nobody else is writing to it.
TmpInode(f) == IF tmpName[f] # 0 THEN tmpName[f] ELSE FreshInode
WritesAlone(u, i) == \A w \in Updaters \ {u} : Writing(w) => update[w].inode # i

\* No inode has two names, and none is called 0.
NamesApart ==
  /\ \A f, g \in RdapFiles : tmpName[f] # 0 => tmpName[f] # destName[g]
  /\ \A f, g \in RdapFiles : tmpName[f] # 0 /\ tmpName[f] = tmpName[g] => f = g
  /\ \A f, g \in RdapFiles : destName[f] # 0 /\ destName[f] = destName[g] => f = g
  /\ content[0] = Torn

\* A writer writes an inode, and a version that has been published.
WritersKnow ==
  /\ \A i \in RdapInodes \cup {0} : content[i] <= published
  /\ \A u \in Updaters : Underway(u) =>
       /\ update[u].file \in RdapFiles /\ update[u].inode \in RdapInodes
       /\ update[u].version \in 1..published

\* Unless updates have overlapped there is one, and nobody else writes to its inode.
OneWrites ==
  ~overlapped =>
    /\ \A u, v \in Updaters : Updating(u) /\ Updating(v) => u = v
    /\ \A u \in Updaters : Underway(u) =>
         /\ update[u].pure /\ tmpName[update[u].file] = update[u].inode
         /\ \A f \in RdapFiles : DiskVersion(f) <= update[u].version
         /\ update[u].at = "copied" => content[update[u].inode] = update[u].version

RdapInv == RdapTypeOK /\ NamesApart /\ WritersKnow /\ OneWrites /\ DestIsWhole

-----------------------------------------------------------------------------
\* The bounds are numbers, and 0 names no inode.
LEMMA RdapBounds ==
  /\ MaxPublished \in Nat \ {0} /\ MaxUpdates \in Nat /\ MaxRdapCrashes \in Nat
  /\ 0 \notin RdapInodes
BY RdapAssumption

\* What a function makes of a finite set is finite, and not larger.
LEMMA Images ==
  ASSUME NEW S, IsFiniteSet(S), NEW T, NEW f \in [S -> T]
  PROVE  /\ IsFiniteSet({f[x] : x \in S})
         /\ Cardinality({f[x] : x \in S}) <= Cardinality(S)
<1>1. f \in Surjection(S, {f[x] : x \in S})
  BY DEF Surjection
<1> QED
  BY <1>1, FS_Surjection

\* A union is not larger than its parts together.
LEMMA Unions ==
  ASSUME NEW S, NEW T, IsFiniteSet(S), IsFiniteSet(T)
  PROVE  /\ IsFiniteSet(S \cup T)
         /\ Cardinality(S \cup T) <= Cardinality(S) + Cardinality(T)
<1>1. IsFiniteSet(S \cap T)
  BY FS_Intersection
<1>2. /\ Cardinality(S) \in Nat /\ Cardinality(T) \in Nat
      /\ Cardinality(S \cap T) \in Nat
  BY <1>1, FS_CardinalityType
<1>3. /\ IsFiniteSet(S \cup T)
      /\ Cardinality(S \cup T) = Cardinality(S) + Cardinality(T) - Cardinality(S \cap T)
  BY FS_Union
<1> QED
  BY <1>2, <1>3

\* os.Create finds an inode that is not in use.
LEMMA FreshIsFree ==
  ASSUME RdapTypeOK, NEW f \in RdapFiles, tmpName[f] = 0
  PROVE  FreshInode \in RdapInodes /\ FreshInode \notin InUse
<1> DEFINE holds == [u \in Updaters |-> update[u].inode]
           A == {tmpName[g] : g \in RdapFiles}
           B == {destName[g] : g \in RdapFiles}
           C == {holds[u] : u \in Updaters}
<1>1. IsFiniteSet(RdapFiles) /\ IsFiniteSet(Updaters) /\ IsFiniteSet(RdapInodes)
  BY RdapAssumption
<1>2. IsFiniteSet(A) /\ Cardinality(A) <= Cardinality(RdapFiles)
  <2>1. tmpName \in [RdapFiles -> RdapInodes \cup {0}]
    BY DEF RdapTypeOK
  <2> QED
    BY <1>1, <2>1, Images
<1>3. IsFiniteSet(B) /\ Cardinality(B) <= Cardinality(RdapFiles)
  <2>1. destName \in [RdapFiles -> RdapInodes \cup {0}]
    BY DEF RdapTypeOK
  <2> QED
    BY <1>1, <2>1, Images
<1>4. IsFiniteSet(C) /\ Cardinality(C) <= Cardinality(Updaters)
  <2>1. holds \in [Updaters -> {update[u].inode : u \in Updaters}]
    OBVIOUS
  <2> QED
    BY <1>1, <2>1, Images
<1>5. InUse = A \cup B \cup C
  BY DEF InUse
<1> HIDE DEF A, B, C, holds
<1>6. /\ Cardinality(A) \in Nat /\ Cardinality(B) \in Nat /\ Cardinality(C) \in Nat
      /\ Cardinality(RdapFiles) \in Nat /\ Cardinality(Updaters) \in Nat
      /\ Cardinality(RdapInodes) \in Nat
  BY <1>1, <1>2, <1>3, <1>4, FS_CardinalityType
<1>7. IsFiniteSet(A \cup B) /\ Cardinality(A \cup B) <= Cardinality(A) + Cardinality(B)
  BY <1>2, <1>3, Unions
<1>8. IsFiniteSet(InUse) /\ Cardinality(InUse) <= Cardinality(A \cup B) + Cardinality(C)
  BY <1>4, <1>5, <1>7, Unions
<1>9. Cardinality(InUse \ {0}) < Cardinality(RdapInodes) /\ IsFiniteSet(InUse \ {0})
  <2>1. 0 \in InUse
    BY DEF InUse
  <2>2. IsFiniteSet(InUse \ {0}) /\ Cardinality(InUse \ {0}) = Cardinality(InUse) - 1
    BY <1>8, <2>1, FS_RemoveElement
  <2>3. Cardinality(InUse) \in Nat /\ Cardinality(A \cup B) \in Nat
    BY <1>7, <1>8, FS_CardinalityType
  <2>4. Cardinality(RdapInodes) >= 2 * Cardinality(RdapFiles) + Cardinality(Updaters)
    BY RdapAssumption
  <2> QED
    BY <1>2, <1>3, <1>4, <1>6, <1>7, <1>8, <2>2, <2>3, <2>4
<1>10. \E i \in RdapInodes : i \notin InUse
  <2> SUFFICES ASSUME RdapInodes \subseteq InUse PROVE FALSE
    OBVIOUS
  <2>1. RdapInodes \in SUBSET (InUse \ {0})
    BY RdapBounds
  <2>2. Cardinality(RdapInodes) <= Cardinality(InUse \ {0})
    BY <1>9, <2>1, FS_Subset
  <2>3. Cardinality(InUse \ {0}) \in Nat
    BY <1>9, FS_CardinalityType
  <2> QED
    BY <1>6, <1>9, <2>2, <2>3
<1> QED
  BY <1>10 DEF FreshInode

-----------------------------------------------------------------------------
\* What a load takes from disk is there, and not torn; the rest is what was before (Load).
LEMMA LoadKeepsOrTakes ==
  ASSUME NEW old \in [RdapFiles -> 0..MaxPublished], Load(old)
  PROVE  /\ DOMAIN table' = RdapFiles
         /\ \A f \in RdapFiles :
              \/ table'[f] = old[f]
              \/ Exists(f) /\ DiskVersion(f) # Torn /\ table'[f] = DiskVersion(f)
<1> DEFINE bad == {n \in 1..Len(LoadOrder) :
                   Exists(LoadOrder[n]) /\ DiskVersion(LoadOrder[n]) = Torn}
           reached == {LoadOrder[n] : n \in {m \in 1..Len(LoadOrder) : \A k \in bad : m <= k}}
           parsed == {f \in reached : DiskVersion(f) # Torn}
<1>1. table' = [f \in RdapFiles |-> IF f \in reached
                                    THEN TableAfter(old, f, parsed) ELSE old[f]]
  BY DEF Load
<1>2. \A f \in parsed : DiskVersion(f) # Torn
  OBVIOUS
<1> HIDE DEF bad, reached, parsed
<1> QED
  BY <1>1, <1>2 DEF TableAfter

\* The temporary file is the one that has the name, or a new one; only its writer and
\* those who still write to it notice (os.Create).
LEMMA CreateFacts ==
  ASSUME RdapTypeOK, NEW u \in Updaters, NEW f \in RdapFiles, CreateTmp(u, f)
  PROVE  /\ TmpInode(f) \in RdapInodes
         /\ TmpInode(f) = tmpName[f] \/ TmpInode(f) \notin InUse
         /\ content' = [content EXCEPT ![TmpInode(f)] = Torn]
         /\ tmpName' = [tmpName EXCEPT ![f] = TmpInode(f)]
         /\ \A v \in Updaters \ {u} :
              \/ update'[v] = update[v]
              \/ Writing(v) /\ update'[v] = [update[v] EXCEPT !.pure = FALSE]
         /\ update'[u] = [update[u] EXCEPT !.at = "copying", !.file = f,
                            !.inode = TmpInode(f), !.version = published,
                            !.pure = WritesAlone(u, TmpInode(f))]
         /\ DOMAIN update' = Updaters
<1>1. TmpInode(f) \in RdapInodes /\ (TmpInode(f) = tmpName[f] \/ TmpInode(f) \notin InUse)
  <2>1. tmpName[f] \in RdapInodes \cup {0}
    BY DEF RdapTypeOK
  <2> QED
    BY <2>1, FreshIsFree DEF TmpInode
<1>2. /\ content' = [content EXCEPT ![TmpInode(f)] = Torn]
      /\ tmpName' = [tmpName EXCEPT ![f] = TmpInode(f)]
  BY DEF CreateTmp, TmpInode
<1>3. update' = [v \in Updaters |->
       IF v = u THEN [update[u] EXCEPT !.at = "copying", !.file = f, !.inode = TmpInode(f),
                        !.version = published, !.pure = WritesAlone(u, TmpInode(f))]
       ELSE IF Writing(v) /\ update[v].inode = TmpInode(f) THEN [update[v] EXCEPT !.pure = FALSE]
       ELSE update[v]]
  BY Zenon DEF CreateTmp, TmpInode, WritesAlone
<1> QED
  BY <1>1, <1>2, <1>3, Zenon

\* Every step leaves the updates well typed.
LEMMA UpdateTyping ==
  RdapTypeOK /\ [RdapNext]_rdapVars => update' \in [Updaters -> UpdateRecord]
<1> SUFFICES ASSUME RdapTypeOK, [RdapNext]_rdapVars PROVE update' \in [Updaters -> UpdateRecord]
  OBVIOUS
<1>1. /\ update \in [Updaters -> UpdateRecord] /\ published \in 0..MaxPublished
      /\ NotUpdating \in UpdateRecord
      /\ [NotUpdating EXCEPT !.at = "next", !.todo = RdapFiles] \in UpdateRecord
  <2>1. update \in [Updaters -> UpdateRecord]
    BY DEF RdapTypeOK, UpdateRecord
  <2>2. published \in 0..MaxPublished /\ 0 \in 0..MaxPublished
    <3>1. published \in 1..MaxPublished
      BY DEF RdapTypeOK
    <3> QED
      BY <3>1, RdapBounds
  <2> QED
    BY <2>1, <2>2 DEF UpdateRecord, NotUpdating
<1>2. ASSUME NEW u \in Updaters, BeginUpdate(u) PROVE update' \in [Updaters -> UpdateRecord]
  BY <1>1, <1>2 DEF BeginUpdate
<1>3. ASSUME NEW u \in Updaters, RequestFails(u) \/ CopyFails(u) \/ FinishUpdate(u)
      PROVE  update' \in [Updaters -> UpdateRecord]
  BY <1>1, <1>3 DEF RequestFails, CopyFails, FinishUpdate, End
<1>4. ASSUME NEW u \in Updaters, CopyDone(u) PROVE update' \in [Updaters -> UpdateRecord]
  BY <1>1, <1>4 DEF CopyDone, UpdateRecord
<1>5. ASSUME NEW u \in Updaters, Rename(u) PROVE update' \in [Updaters -> UpdateRecord]
  <2>1. [NotUpdating EXCEPT !.at = "next", !.todo = update[u].todo \ {update[u].file}]
          \in UpdateRecord
    BY <1>1 DEF UpdateRecord
  <2> QED
    BY <1>1, <1>5, <2>1 DEF Rename, End
<1>6. ASSUME NEW u \in Updaters, NEW f \in RdapFiles, CreateTmp(u, f)
      PROVE  update' \in [Updaters -> UpdateRecord]
  <2> DEFINE new == [update[u] EXCEPT !.at = "copying", !.file = f, !.inode = TmpInode(f),
                       !.version = published, !.pure = WritesAlone(u, TmpInode(f))]
  <2>1. /\ TmpInode(f) \in RdapInodes /\ update'[u] = new /\ DOMAIN update' = Updaters
        /\ \A v \in Updaters \ {u} :
             update'[v] = update[v] \/ update'[v] = [update[v] EXCEPT !.pure = FALSE]
    BY <1>6, CreateFacts, Zenon
  <2>2. WritesAlone(u, TmpInode(f)) \in BOOLEAN
    BY Zenon DEF WritesAlone
  <2>3. new \in UpdateRecord
    BY <1>1, <2>1, <2>2 DEF UpdateRecord
  <2>4. \A v \in Updaters : [update[v] EXCEPT !.pure = FALSE] \in UpdateRecord
    BY <1>1 DEF UpdateRecord
  <2>5. update' = [v \in Updaters |-> update'[v]]
    BY <1>6 DEF CreateTmp
  <2> HIDE DEF new
  <2>6. \A v \in Updaters : update'[v] \in UpdateRecord
    BY <1>1, <2>1, <2>3, <2>4
  <2> QED
    BY <2>5, <2>6
<1>7. CASE RdapRestart
  BY <1>1, <1>7 DEF RdapRestart
<1>8. CASE UNCHANGED update
  BY <1>1, <1>8
<1> QED
  BY <1>2, <1>3, <1>4, <1>5, <1>6, <1>7, <1>8 DEF RdapNext, UpdateStep, Publish, rdapVars

\* Every reachable state is well typed (RdapBootstrap).
LEMMA RdapTyping == RdapTypeOK /\ [RdapNext]_rdapVars => RdapTypeOK'
<1> SUFFICES ASSUME RdapTypeOK, [RdapNext]_rdapVars PROVE RdapTypeOK'
  OBVIOUS
<1> DEFINE Typed == /\ content \in [RdapInodes \cup {0} -> 0..MaxPublished]
                    /\ tmpName \in [RdapFiles -> RdapInodes \cup {0}]
                    /\ destName \in [RdapFiles -> RdapInodes \cup {0}]
                    /\ table \in [RdapFiles -> 0..MaxPublished]
                    /\ overlapped \in BOOLEAN
<1>1. Typed /\ Torn \in 0..MaxPublished
  <2>1. Typed
    BY DEF RdapTypeOK
  <2>2. Torn \in 0..MaxPublished
    BY RdapBounds DEF Torn
  <2> QED
    BY <2>1, <2>2
<1>2. \A u \in Updaters : /\ update[u].inode \in RdapInodes \cup {0}
                          /\ update[u].version \in 0..MaxPublished
                          /\ update[u].file \in RdapFiles \cup {""}
  BY DEF RdapTypeOK
<1>3. ASSUME NEW old \in [RdapFiles -> 0..MaxPublished], Load(old)
      PROVE  table' \in [RdapFiles -> 0..MaxPublished]
  <2>1. \A f \in RdapFiles : DiskVersion(f) \in 0..MaxPublished
    BY <1>1 DEF DiskVersion
  <2>2. table' = [f \in RdapFiles |-> table'[f]]
    BY <1>3 DEF Load
  <2> QED
    BY <1>3, <2>1, <2>2, LoadKeepsOrTakes
<1>4. Typed'
  <2>1. ASSUME NEW u \in Updaters, NEW f \in RdapFiles, CreateTmp(u, f) PROVE Typed'
    <3>1. UNCHANGED <<destName, table, overlapped>>
      BY <2>1 DEF CreateTmp
    <3>2. /\ TmpInode(f) \in RdapInodes
          /\ content' = [content EXCEPT ![TmpInode(f)] = Torn]
          /\ tmpName' = [tmpName EXCEPT ![f] = TmpInode(f)]
      BY <2>1, CreateFacts
    <3>3. content' \in [RdapInodes \cup {0} -> 0..MaxPublished]
      BY <1>1, <3>2
    <3>4. tmpName' \in [RdapFiles -> RdapInodes \cup {0}]
      BY <1>1, <3>2
    <3>5. /\ destName' \in [RdapFiles -> RdapInodes \cup {0}]
          /\ table' \in [RdapFiles -> 0..MaxPublished] /\ overlapped' \in BOOLEAN
      BY <1>1, <3>1
    <3> QED
      BY <3>3, <3>4, <3>5
  <2>2. ASSUME NEW u \in Updaters, CopyDone(u) PROVE Typed'
    <3>1. content' \in [RdapInodes \cup {0} -> 0..MaxPublished]
      BY <1>1, <1>2, <2>2 DEF CopyDone
    <3>2. UNCHANGED <<tmpName, destName, table, overlapped>>
      BY <2>2 DEF CopyDone
    <3> QED
      BY <1>1, <3>1, <3>2
  <2>3. ASSUME NEW u \in Updaters, CopyFails(u) PROVE Typed'
    BY <1>1, <2>3 DEF CopyFails
  <2>4. ASSUME NEW u \in Updaters, Rename(u) PROVE Typed'
    <3>1. tmpName' \in [RdapFiles -> RdapInodes \cup {0}]
      BY <1>1, <2>4 DEF Rename
    <3>2. destName' \in [RdapFiles -> RdapInodes \cup {0}]
      <4>1. CASE update[u].file \in RdapFiles
        BY <1>1, <2>4, <4>1 DEF Rename
      <4>2. CASE update[u].file \notin RdapFiles
        BY <1>1, <2>4, <4>2 DEF Rename
      <4> QED
        BY <4>1, <4>2
    <3> QED
      BY <1>1, <2>4, <3>1, <3>2 DEF Rename
  <2>5. ASSUME NEW u \in Updaters, FinishUpdate(u) PROVE Typed'
    BY <1>1, <1>3, <2>5 DEF FinishUpdate
  <2>6. CASE RdapRestart
    <3>1. [f \in RdapFiles |-> 0] \in [RdapFiles -> 0..MaxPublished]
      BY <1>1 DEF Torn
    <3> QED
      BY <1>1, <1>3, <2>6, <3>1 DEF RdapRestart
  <2>7. ASSUME NEW u \in Updaters, BeginUpdate(u) \/ RequestFails(u) PROVE Typed'
    BY <1>1, <2>7 DEF BeginUpdate, RequestFails
  <2>8. CASE Publish \/ UNCHANGED rdapVars
    BY <1>1, <2>8 DEF Publish, rdapVars
  <2> QED
    BY <2>1, <2>2, <2>3, <2>4, <2>5, <2>6, <2>7, <2>8 DEF RdapNext, UpdateStep
<1>5. /\ published' \in 1..MaxPublished /\ updates' \in 0..MaxUpdates
      /\ rdapCrashes' \in 0..MaxRdapCrashes
  <2>1. /\ published \in 1..MaxPublished /\ updates \in 0..MaxUpdates
        /\ rdapCrashes \in 0..MaxRdapCrashes
    BY DEF RdapTypeOK
  <2>2. /\ UNCHANGED published \/ (published < MaxPublished /\ published' = published + 1)
        /\ UNCHANGED updates \/ (updates < MaxUpdates /\ updates' = updates + 1)
        /\ \/ UNCHANGED rdapCrashes
           \/ rdapCrashes < MaxRdapCrashes /\ rdapCrashes' = rdapCrashes + 1
    BY DEF RdapNext, UpdateStep, Publish, RdapRestart, BeginUpdate, RequestFails, CreateTmp,
           CopyDone, CopyFails, Rename, FinishUpdate, rdapVars
  <2> QED
    BY <2>1, <2>2, RdapBounds
<1> QED
  BY <1>4, <1>5, UpdateTyping DEF RdapTypeOK, UpdateRecord

-----------------------------------------------------------------------------
\* Names keep apart: os.Rename moves a name, and os.Create takes a new inode for one.
LEMMA NamesStayApart == RdapInv /\ [RdapNext]_rdapVars => NamesApart'
<1> SUFFICES ASSUME RdapInv, [RdapNext]_rdapVars PROVE NamesApart'
  OBVIOUS
<1>1. /\ NamesApart
      /\ tmpName \in [RdapFiles -> RdapInodes \cup {0}]
      /\ destName \in [RdapFiles -> RdapInodes \cup {0}]
      /\ content \in [RdapInodes \cup {0} -> 0..MaxPublished]
      /\ 0 \notin RdapInodes
  BY RdapBounds DEF RdapInv, RdapTypeOK
<1>2. ASSUME NEW u \in Updaters, NEW f \in RdapFiles, CreateTmp(u, f) PROVE NamesApart'
  <2> DEFINE i == TmpInode(f)
  <2>1. /\ content' = [content EXCEPT ![i] = Torn] /\ tmpName' = [tmpName EXCEPT ![f] = i]
        /\ UNCHANGED destName
        /\ i \in RdapInodes /\ (i = tmpName[f] \/ i \notin InUse)
    BY <1>2, CreateFacts DEF RdapInv, CreateTmp
  <2>2. \A g \in RdapFiles : destName[g] # i /\ (g # f => tmpName[g] # i)
    BY <1>1, <2>1 DEF NamesApart, InUse
  <2> HIDE DEF i
  <2> QED
    BY <1>1, <2>1, <2>2 DEF NamesApart
<1>3. ASSUME NEW u \in Updaters, CopyDone(u) PROVE NamesApart'
  <2>1. update[u].inode # 0
    BY <1>1, <1>3 DEF RdapInv, WritersKnow, CopyDone, Writing, Underway
  <2> QED
    BY <1>1, <1>3, <2>1 DEF CopyDone, NamesApart
<1>4. ASSUME NEW u \in Updaters, CopyFails(u) PROVE NamesApart'
  BY <1>1, <1>4 DEF CopyFails, NamesApart
<1>5. ASSUME NEW u \in Updaters, Rename(u) PROVE NamesApart'
  <2> DEFINE f == update[u].file
  <2>1. f \in RdapFiles
    BY <1>5 DEF RdapInv, WritersKnow, Rename, Underway
  <2>2. CASE tmpName[f] # 0
    <3>1. /\ destName' = [destName EXCEPT ![f] = tmpName[f]]
          /\ tmpName' = [tmpName EXCEPT ![f] = 0] /\ UNCHANGED content
      BY <1>5, <2>2 DEF Rename
    <3> HIDE DEF f
    <3> QED
      BY <1>1, <2>1, <2>2, <3>1 DEF NamesApart
  <2>3. CASE tmpName[f] = 0
    BY <1>1, <1>5, <2>3 DEF Rename, NamesApart
  <2> QED
    BY <2>2, <2>3
<1>6. CASE UNCHANGED <<content, tmpName, destName>>
  BY <1>1, <1>6 DEF NamesApart
<1> QED
  BY <1>2, <1>3, <1>4, <1>5, <1>6
     DEF RdapNext, UpdateStep, Publish, RdapRestart, BeginUpdate, RequestFails, FinishUpdate,
         rdapVars

\* The file, inode and version of a writer stay.
SameWrite(v) ==
  /\ update'[v].file = update[v].file /\ update'[v].inode = update[v].inode
  /\ update'[v].version = update[v].version

\* What os.Create begins.
LEMMA WriteBegins ==
  ASSUME RdapTypeOK, NEW v \in Updaters, NEW f \in RdapFiles, CreateTmp(v, f)
  PROVE  /\ update'[v].at = "copying" /\ update'[v].file = f
         /\ update'[v].inode = TmpInode(f) /\ TmpInode(f) \in RdapInodes
         /\ update'[v].version = published
         /\ update'[v].pure <=> WritesAlone(v, TmpInode(f))
<1>1. /\ TmpInode(f) \in RdapInodes
      /\ update'[v] = [update[v] EXCEPT !.at = "copying", !.file = f,
                         !.inode = TmpInode(f), !.version = published,
                         !.pure = WritesAlone(v, TmpInode(f))]
  BY CreateFacts
<1>2. update[v] \in UpdateRecord
  BY DEF RdapTypeOK, UpdateRecord
<1> QED
  BY <1>1, <1>2 DEF UpdateRecord

\* A writer under way after a step has just begun, or goes on: its own copy ends, or
\* another has begun to write beside it.
LEMMA WriterSteps ==
  ASSUME RdapTypeOK, [RdapNext]_rdapVars, NEW v \in Updaters, Underway(v)'
  PROVE  \/ \E f \in RdapFiles : CreateTmp(v, f)
         \/ /\ Underway(v) /\ SameWrite(v)
            /\ \/ update'[v] = update[v]
               \/ CopyDone(v) /\ update'[v].at = "copied" /\ (update'[v].pure <=> update[v].pure)
               \/ /\ Writing(v) /\ update'[v].at = "copying"
                  /\ \E u \in Updaters \ {v} : \E f \in RdapFiles : CreateTmp(u, f)
<1>1. update \in [Updaters -> UpdateRecord]
  BY DEF RdapTypeOK, UpdateRecord
<1>2. CASE update'[v] = update[v]
  BY <1>2 DEF SameWrite, Underway
<1>3. ASSUME NEW u \in Updaters \ {v}, NEW f \in RdapFiles, CreateTmp(u, f), update'[v] # update[v]
      PROVE  /\ Writing(v) /\ SameWrite(v) /\ Underway(v) /\ update'[v].at = "copying"
  <2>1. Writing(v) /\ update'[v] = [update[v] EXCEPT !.pure = FALSE]
    BY <1>3, CreateFacts
  <2>2. update[v] \in UpdateRecord
    BY <1>1
  <2> QED
    BY <2>1, <2>2 DEF SameWrite, Underway, Writing, UpdateRecord
<1>4. ASSUME NEW u \in Updaters, CopyDone(u), update'[v] # update[v]
      PROVE  /\ CopyDone(v) /\ SameWrite(v) /\ Underway(v) /\ update'[v].at = "copied"
             /\ update'[v].pure <=> update[v].pure
  <2>1. u = v /\ update'[v] = [update[v] EXCEPT !.at = "copied"]
    BY <1>1, <1>4 DEF CopyDone
  <2>2. update[v] \in UpdateRecord
    BY <1>1
  <2>3. SameWrite(v) /\ update'[v].at = "copied" /\ (update'[v].pure <=> update[v].pure)
    BY <2>1, <2>2 DEF SameWrite, UpdateRecord
  <2> QED
    BY <1>4, <2>1, <2>3 DEF Underway, CopyDone, Writing
<1>5. ASSUME NEW u \in Updaters,
             \/ BeginUpdate(u) \/ RequestFails(u) \/ CopyFails(u) \/ Rename(u) \/ FinishUpdate(u)
      PROVE  update'[v] = update[v]
  <2>1. \/ update' = [update EXCEPT ![u] = NotUpdating]
        \/ \E todo : update' =
             [update EXCEPT ![u] = [NotUpdating EXCEPT !.at = "next", !.todo = todo]]
    BY <1>5 DEF BeginUpdate, RequestFails, CopyFails, Rename, FinishUpdate, End
  <2>2. /\ NotUpdating.at = "idle"
        /\ \A todo : [NotUpdating EXCEPT !.at = "next", !.todo = todo].at = "next"
    BY DEF NotUpdating
  <2>3. CASE v = u
    <3>1. update'[v].at \in {"idle", "next"}
      BY <1>1, <2>1, <2>2, <2>3
    <3> QED
      BY <3>1 DEF Underway
  <2>4. CASE v # u
    BY <1>1, <2>1, <2>4
  <2> QED
    BY <2>3, <2>4
<1>6. ~RdapRestart
  <2>1. RdapRestart => update'[v] = NotUpdating
    BY DEF RdapRestart
  <2>2. NotUpdating.at = "idle"
    BY DEF NotUpdating
  <2> QED
    BY <2>1, <2>2 DEF Underway
<1> QED
  BY <1>2, <1>3, <1>4, <1>5, <1>6 DEF RdapNext, UpdateStep, Publish, rdapVars

\* Writers go on writing what they have begun, a version that was out (downloadFile).
LEMMA WritersStillKnow == RdapInv /\ [RdapNext]_rdapVars => WritersKnow'
<1> SUFFICES ASSUME RdapInv, [RdapNext]_rdapVars PROVE WritersKnow'
  OBVIOUS
<1>1. /\ WritersKnow /\ published \in 1..MaxPublished
      /\ content \in [RdapInodes \cup {0} -> 0..MaxPublished]
      /\ \A u \in Updaters : update[u].version \in 0..MaxPublished
  BY DEF RdapInv, RdapTypeOK
<1>2. \A i \in RdapInodes \cup {0} : content[i] \in Nat
  BY <1>1, RdapBounds
<1>3. published' \in Nat /\ published' >= published
  <2>1. UNCHANGED published \/ published' = published + 1
    BY DEF RdapNext, UpdateStep, Publish, RdapRestart, BeginUpdate, RequestFails, CreateTmp,
           CopyDone, CopyFails, Rename, FinishUpdate, rdapVars
  <2> QED
    BY <1>1, <2>1, RdapBounds
<1>4. \A i \in RdapInodes \cup {0} : content'[i] <= published'
  <2>1. ASSUME NEW u \in Updaters, NEW f \in RdapFiles, CreateTmp(u, f)
        PROVE  \A i \in RdapInodes \cup {0} : content'[i] \in {content[i], 0}
    <3>1. content' = [content EXCEPT ![TmpInode(f)] = Torn]
      BY <2>1, CreateFacts DEF RdapInv
    <3> QED
      BY <1>1, <3>1 DEF Torn
  <2>2. ASSUME NEW u \in Updaters, CopyDone(u)
        PROVE  \A i \in RdapInodes \cup {0} : content'[i] \in {content[i], 0, update[u].version}
    BY <1>1, <2>2 DEF CopyDone, Torn
  <2>3. ASSUME NEW u \in Updaters, CopyDone(u) PROVE update[u].version <= published
    BY <1>1, <2>3 DEF CopyDone, Writing, WritersKnow, Underway
  <2>4. \/ UNCHANGED content
        \/ \E u \in Updaters : CopyDone(u) \/ \E f \in RdapFiles : CreateTmp(u, f)
    BY DEF RdapNext, UpdateStep, Publish, RdapRestart, BeginUpdate, RequestFails,
           CopyFails, Rename, FinishUpdate, rdapVars
  <2>5. \A i \in RdapInodes \cup {0} : content[i] <= published'
    BY <1>1, <1>2, <1>3 DEF WritersKnow
  <2>6. CASE \E u \in Updaters : \E f \in RdapFiles : CreateTmp(u, f)
    BY <1>1, <1>3, <2>1, <2>5, <2>6
  <2>7. CASE \E u \in Updaters : CopyDone(u)
    BY <1>1, <1>3, <2>2, <2>3, <2>5, <2>7, RdapBounds
  <2> QED
    BY <2>4, <2>5, <2>6, <2>7
<1>5. ASSUME NEW v \in Updaters, Underway(v)'
      PROVE  /\ update'[v].file \in RdapFiles /\ update'[v].inode \in RdapInodes
             /\ update'[v].version \in 1..published'
  <2>1. CASE Underway(v) /\ SameWrite(v)
    BY <1>1, <1>3, <2>1 DEF WritersKnow, SameWrite
  <2>2. ASSUME NEW f \in RdapFiles, CreateTmp(v, f)
        PROVE  /\ update'[v].file \in RdapFiles /\ update'[v].inode \in RdapInodes
               /\ update'[v].version \in 1..published'
    BY <1>1, <1>3, <2>2, WriteBegins DEF RdapInv
  <2> QED
    BY <1>5, <2>1, <2>2, WriterSteps DEF RdapInv
<1> QED
  BY <1>4, <1>5 DEF WritersKnow

-----------------------------------------------------------------------------
\* Unless updates have overlapped, the inode under a final name is not being written.
LEMMA DestIsLeftAlone ==
  ASSUME RdapInv, ~overlapped, NEW u \in Updaters, Underway(u), NEW f \in RdapFiles
  PROVE  destName[f] # update[u].inode
<1>1. tmpName[update[u].file] = update[u].inode /\ update[u].file \in RdapFiles
  BY DEF RdapInv, OneWrites, WritersKnow
<1>2. update[u].inode # 0
  BY RdapBounds DEF RdapInv, WritersKnow
<1> QED
  BY <1>1, <1>2 DEF RdapInv, NamesApart

\* Unless updates have overlapped, os.Rename puts a complete version in the place of an
\* older one.
LEMMA RenamePutsVersion ==
  ASSUME RdapInv, ~overlapped, NEW u \in Updaters, Rename(u)
  PROVE  /\ UNCHANGED content
         /\ destName' = [destName EXCEPT ![update[u].file] = update[u].inode]
         /\ content[update[u].inode] = update[u].version
         /\ update[u].version \in Nat \ {0}
         /\ \A f \in RdapFiles : DiskVersion(f) <= update[u].version
<1>1. Underway(u) /\ update[u].at = "copied"
  BY DEF Rename, Underway
<1>2. /\ tmpName[update[u].file] = update[u].inode
      /\ content[update[u].inode] = update[u].version
      /\ \A f \in RdapFiles : DiskVersion(f) <= update[u].version
  BY <1>1 DEF RdapInv, OneWrites
<1>3. update[u].inode # 0 /\ update[u].version \in 1..published
  BY <1>1, RdapBounds DEF RdapInv, WritersKnow
<1>4. published \in 1..MaxPublished
  BY DEF RdapInv, RdapTypeOK
<1>5. update[u].version \in Nat \ {0}
  BY <1>3, <1>4, RdapBounds
<1> QED
  BY <1>2, <1>3, <1>5 DEF Rename

\* Unless updates have overlapped, files on disk change only by os.Rename.
LEMMA DiskChanges ==
  ASSUME RdapInv, [RdapNext]_rdapVars, ~overlapped
  PROVE  \/ \E u \in Updaters : Rename(u)
         \/ UNCHANGED destName /\ \A f \in RdapFiles : DiskVersion(f)' = DiskVersion(f)
<1>1. /\ destName \in [RdapFiles -> RdapInodes \cup {0}]
      /\ content \in [RdapInodes \cup {0} -> 0..MaxPublished]
  BY DEF RdapInv, RdapTypeOK
<1>2. ASSUME NEW u \in Updaters, CopyDone(u)
      PROVE  UNCHANGED destName /\ \A f \in RdapFiles : DiskVersion(f)' = DiskVersion(f)
  <2>1. \A f \in RdapFiles : destName[f] # update[u].inode
    BY <1>2, DestIsLeftAlone DEF CopyDone, Writing, Underway
  <2>2. /\ UNCHANGED destName
        /\ \E c : content' = [content EXCEPT ![update[u].inode] = c]
    BY <1>2 DEF CopyDone
  <2> QED
    BY <1>1, <2>1, <2>2 DEF DiskVersion
<1>3. ASSUME NEW u \in Updaters, NEW f \in RdapFiles, CreateTmp(u, f)
      PROVE  UNCHANGED destName /\ \A g \in RdapFiles : DiskVersion(g)' = DiskVersion(g)
  <2>1. \A g \in RdapFiles : destName[g] # TmpInode(f)
    <3>1. TmpInode(f) \in RdapInodes /\ (TmpInode(f) = tmpName[f] \/ TmpInode(f) \notin InUse)
      BY <1>3, CreateFacts DEF RdapInv
    <3> QED
      BY <3>1, RdapBounds DEF RdapInv, NamesApart, InUse
  <2>2. UNCHANGED destName /\ content' = [content EXCEPT ![TmpInode(f)] = Torn]
    BY <1>3, CreateFacts DEF RdapInv, CreateTmp
  <2> QED
    BY <1>1, <2>1, <2>2 DEF DiskVersion
<1>4. CASE UNCHANGED <<destName, content>>
  BY <1>4 DEF DiskVersion
<1> QED
  BY <1>2, <1>3, <1>4
     DEF RdapNext, UpdateStep, Publish, RdapRestart, BeginUpdate, RequestFails, CopyFails,
         FinishUpdate, rdapVars

\* Whether updates have overlapped is remembered (Update).
LEMMA OverlapIsKept ==
  ASSUME RdapTypeOK, [RdapNext]_rdapVars, ~overlapped'
  PROVE  ~overlapped /\ \A u \in Updaters : BeginUpdate(u) => \A v \in Updaters : ~Updating(v)
<1>1. \/ overlapped' = overlapped
      \/ \E u \in Updaters : BeginUpdate(u)
  BY DEF RdapNext, UpdateStep, Publish, RdapRestart, RequestFails, CreateTmp, CopyDone,
         CopyFails, Rename, FinishUpdate, rdapVars
<1>2. \A u \in Updaters :
        BeginUpdate(u) => overlapped' = (overlapped \/ \E v \in Updaters : Updating(v))
  BY DEF BeginUpdate
<1>3. ASSUME NEW u \in Updaters, BeginUpdate(u)
      PROVE  ~overlapped /\ ~\E v \in Updaters : Updating(v)
  BY <1>2, <1>3
<1> QED
  BY <1>1, <1>3

\* Unless updates have overlapped, a file under its final name is whole (downloadFile).
LEMMA DestStaysWhole == RdapInv /\ [RdapNext]_rdapVars => DestIsWhole'
<1> SUFFICES ASSUME RdapInv, [RdapNext]_rdapVars, ~overlapped', NEW f \in RdapFiles
             PROVE  /\ Exists(f)' => DiskVersion(f)' # Torn
                    /\ table'[f] <= DiskVersion(f)'
  BY DEF DestIsWhole
<1>1. ~overlapped
  BY OverlapIsKept DEF RdapInv
<1>2. /\ Exists(f) => DiskVersion(f) # Torn
      /\ table[f] <= DiskVersion(f)
  BY <1>1 DEF RdapInv, DestIsWhole
<1>3. table \in [RdapFiles -> 0..MaxPublished] /\ \A g \in RdapFiles : DiskVersion(g) \in Nat
  <2>1. /\ destName \in [RdapFiles -> RdapInodes \cup {0}]
        /\ content \in [RdapInodes \cup {0} -> 0..MaxPublished]
        /\ table \in [RdapFiles -> 0..MaxPublished]
    BY DEF RdapInv, RdapTypeOK
  <2> QED
    BY <2>1, RdapBounds DEF DiskVersion
<1>4. ASSUME NEW u \in Updaters, Rename(u)
      PROVE  /\ Exists(f)' => DiskVersion(f)' # Torn
             /\ table'[f] <= DiskVersion(f)'
  <2>1. /\ UNCHANGED <<content, table>>
        /\ destName' = [destName EXCEPT ![update[u].file] = update[u].inode]
        /\ content[update[u].inode] = update[u].version /\ update[u].version \in Nat \ {0}
        /\ DiskVersion(f) <= update[u].version
    BY <1>1, <1>4, RenamePutsVersion DEF Rename
  <2>2. destName \in [RdapFiles -> RdapInodes \cup {0}] /\ table[f] \in Nat
    <3>1. destName \in [RdapFiles -> RdapInodes \cup {0}]
      BY DEF RdapInv, RdapTypeOK
    <3> QED
      BY <1>3, <3>1, RdapBounds
  <2>3. CASE f = update[u].file
    BY <1>2, <1>3, <2>1, <2>2, <2>3 DEF DiskVersion, Torn
  <2>4. CASE f # update[u].file
    BY <1>2, <2>1, <2>2, <2>4 DEF DiskVersion, Exists
  <2> QED
    BY <2>3, <2>4
<1>5. ASSUME UNCHANGED destName, DiskVersion(f)' = DiskVersion(f)
      PROVE  /\ Exists(f)' => DiskVersion(f)' # Torn
             /\ table'[f] <= DiskVersion(f)'
  <2>1. table'[f] \in {table[f], DiskVersion(f), 0}
    <3>1. ASSUME NEW u \in Updaters, FinishUpdate(u) PROVE table'[f] \in {table[f], DiskVersion(f)}
      BY <1>3, <3>1, LoadKeepsOrTakes DEF FinishUpdate
    <3>2. CASE RdapRestart
      <4>1. [g \in RdapFiles |-> 0] \in [RdapFiles -> 0..MaxPublished]
        BY RdapBounds
      <4> QED
        BY <3>2, <4>1, LoadKeepsOrTakes DEF RdapRestart
    <3> QED
      BY <3>1, <3>2
         DEF RdapNext, UpdateStep, Publish, BeginUpdate, RequestFails, CreateTmp, CopyDone,
             CopyFails, Rename, rdapVars
  <2> QED
    BY <1>2, <1>3, <1>5, <2>1, RdapBounds DEF Exists
<1> QED
  BY <1>1, <1>4, <1>5, DiskChanges

\* An update that others leave alone (BeginUpdate aside, os.Create by another shows in
\* pure at most).
LEMMA OthersStay ==
  ASSUME RdapTypeOK, NEW u \in Updaters, NEW v \in Updaters \ {u},
         BeginUpdate(u) \/ UpdateStep(u)
  PROVE  update'[v].at = update[v].at
<1>1. update \in [Updaters -> UpdateRecord]
  BY DEF RdapTypeOK, UpdateRecord
<1>2. ASSUME NEW f \in RdapFiles, CreateTmp(u, f) PROVE update'[v].at = update[v].at
  <2>1. update'[v] = update[v] \/ update'[v] = [update[v] EXCEPT !.pure = FALSE]
    BY <1>2, CreateFacts
  <2>2. update[v] \in UpdateRecord
    BY <1>1
  <2> QED
    BY <2>1, <2>2 DEF UpdateRecord
<1>3. CASE BeginUpdate(u) \/ RequestFails(u) \/ CopyDone(u) \/ CopyFails(u) \/ Rename(u)
             \/ FinishUpdate(u)
  <2>1. update'[v] = update[v]
    BY <1>1, <1>3
       DEF BeginUpdate, RequestFails, CopyDone, CopyFails, Rename, FinishUpdate, End
  <2> QED
    BY <2>1
<1> QED
  BY <1>2, <1>3 DEF UpdateStep

\* Only Update begins an update.
LEMMA OnlyUpdateBegins ==
  ASSUME RdapTypeOK, [RdapNext]_rdapVars, NEW v \in Updaters, Updating(v)'
  PROVE  Updating(v) \/ BeginUpdate(v)
<1>1. ASSUME NEW u \in Updaters \ {v}, BeginUpdate(u) \/ UpdateStep(u) PROVE Updating(v)
  BY <1>1, OthersStay DEF Updating
<1>2. CASE UpdateStep(v)
  BY <1>2 DEF UpdateStep, RequestFails, CopyDone, CopyFails, Rename, FinishUpdate, CreateTmp,
              Updating, Writing
<1>3. ~RdapRestart
  <2>1. RdapRestart => update'[v] = NotUpdating
    BY DEF RdapRestart
  <2>2. NotUpdating.at = "idle"
    BY DEF NotUpdating
  <2> QED
    BY <2>1, <2>2 DEF Updating
<1>4. CASE UNCHANGED update
  BY <1>4 DEF Updating
<1> QED
  BY <1>1, <1>2, <1>3, <1>4 DEF RdapNext, Publish, rdapVars

\* Two updates that begin in one step are one.
LEMMA BeginsAlone ==
  ASSUME RdapTypeOK, NEW u \in Updaters, NEW v \in Updaters, BeginUpdate(u), BeginUpdate(v)
  PROVE  u = v
<1>1. update \in [Updaters -> UpdateRecord]
  BY DEF RdapTypeOK, UpdateRecord
<1>2. ASSUME u # v PROVE FALSE
  <2>1. update'[v].at = update[v].at
    BY <1>2, OthersStay
  <2>2. update' = [update EXCEPT ![v] = [NotUpdating EXCEPT !.at = "next", !.todo = RdapFiles]]
    BY DEF BeginUpdate
  <2>3. update'[v].at = "next"
    BY <1>1, <2>2 DEF NotUpdating
  <2> QED
    BY <2>1, <2>3 DEF BeginUpdate, Updating
<1> QED
  BY <1>2

\* Unless updates have overlapped there is one, and it has its file to itself.
LEMMA OneKeepsWriting == RdapInv /\ [RdapNext]_rdapVars => OneWrites'
<1> SUFFICES ASSUME RdapInv, [RdapNext]_rdapVars, ~overlapped' PROVE OneWrites'
  BY DEF OneWrites
<1>1. ~overlapped /\ \A u \in Updaters : BeginUpdate(u) => \A v \in Updaters : ~Updating(v)
  BY OverlapIsKept DEF RdapInv
<1>2. \A u, v \in Updaters : Updating(u) /\ Updating(v) => u = v
  BY <1>1 DEF RdapInv, OneWrites
<1>3. \A v \in Updaters : Updating(v)' => Updating(v) \/ BeginUpdate(v)
  BY OnlyUpdateBegins DEF RdapInv
<1>4. \A u, v \in Updaters : Updating(u)' /\ Updating(v)' => u = v
  BY <1>1, <1>2, <1>3, BeginsAlone DEF RdapInv
<1>5. \A i \in RdapInodes \cup {0} : content[i] <= published
  BY DEF RdapInv, WritersKnow
<1>6. ASSUME NEW v \in Updaters, Underway(v)'
      PROVE  /\ update'[v].pure /\ tmpName'[update'[v].file] = update'[v].inode
             /\ \A f \in RdapFiles : DiskVersion(f)' <= update'[v].version
             /\ update'[v].at = "copied" => content'[update'[v].inode] = update'[v].version
  <2>1. /\ tmpName \in [RdapFiles -> RdapInodes \cup {0}]
        /\ destName \in [RdapFiles -> RdapInodes \cup {0}]
        /\ content \in [RdapInodes \cup {0} -> 0..MaxPublished]
        /\ update \in [Updaters -> UpdateRecord]
    BY DEF RdapInv, RdapTypeOK, UpdateRecord
  <2>2. Underway(v) =>
          /\ update[v].pure /\ tmpName[update[v].file] = update[v].inode
          /\ \A f \in RdapFiles : DiskVersion(f) <= update[v].version
          /\ update[v].at = "copied" => content[update[v].inode] = update[v].version
          /\ update[v].inode \in RdapInodes
    BY <1>1 DEF RdapInv, OneWrites, WritersKnow
  <2>3. \A u \in Updaters : UpdateStep(u) => Updating(u)
    BY DEF UpdateStep, RequestFails, CopyDone, CopyFails, Rename, FinishUpdate, CreateTmp,
           Updating, Writing
  <2>4. ~Rename(v)
    <3>1. ASSUME Rename(v) PROVE update'[v].at \in {"idle", "next"}
      <4>1. \/ update' = [update EXCEPT ![v] = NotUpdating]
            \/ \E todo : update' = [update EXCEPT ![v] =
                                      [NotUpdating EXCEPT !.at = "next", !.todo = todo]]
        BY <3>1 DEF Rename, End
      <4>2. /\ NotUpdating.at = "idle"
            /\ \A todo : [NotUpdating EXCEPT !.at = "next", !.todo = todo].at = "next"
        BY DEF NotUpdating
      <4>3. update \in [Updaters -> UpdateRecord]
        BY <2>1
      <4> QED
        BY <4>1, <4>2, <4>3
    <3> QED
      BY <1>6, <3>1 DEF Underway
  <2>5. Updating(v) => \A u \in Updaters \ {v} : ~UpdateStep(u) /\ ~BeginUpdate(u)
    BY <1>1, <1>2, <2>3
  <2>6. Updating(v) => \A f \in RdapFiles : DiskVersion(f)' = DiskVersion(f)
    <3>1. Updating(v) => \A u \in Updaters : ~Rename(u)
      BY <2>4, <2>5 DEF UpdateStep
    <3> QED
      BY <1>1, <3>1, DiskChanges
  <2>7. ASSUME NEW f \in RdapFiles, CreateTmp(v, f)
        PROVE  /\ update'[v].pure /\ tmpName'[update'[v].file] = update'[v].inode
               /\ \A g \in RdapFiles : DiskVersion(g)' <= update'[v].version
               /\ update'[v].at # "copied"
    <3>1. Updating(v) /\ WritesAlone(v, TmpInode(f))
      <4>1. Updating(v)
        BY <2>7 DEF CreateTmp, Updating
      <4>2. \A w \in Updaters \ {v} : ~Writing(w)
        BY <1>2, <4>1 DEF Writing, Updating
      <4> QED
        BY <4>1, <4>2 DEF WritesAlone
    <3>2. /\ update'[v].at = "copying" /\ update'[v].file = f
          /\ update'[v].inode = TmpInode(f) /\ update'[v].version = published
          /\ update'[v].pure
      BY <2>7, <3>1, WriteBegins DEF RdapInv
    <3>3. tmpName'[f] = TmpInode(f)
      BY <2>1, <2>7, CreateFacts DEF RdapInv
    <3>4. \A g \in RdapFiles : DiskVersion(g) <= published
      BY <1>5, <2>1 DEF DiskVersion
    <3> QED
      BY <2>6, <3>1, <3>2, <3>3, <3>4
  <2>8. CASE Underway(v) /\ SameWrite(v) /\ update'[v] = update[v]
    <3>1. Updating(v)
      BY <2>8 DEF Underway, Updating
    <3>2. ~UpdateStep(v)
      <4>1. ASSUME CopyFails(v) PROVE FALSE
        <5>1. update'[v] = NotUpdating /\ NotUpdating.at = "idle"
          BY <2>1, <4>1 DEF CopyFails, End, NotUpdating
        <5> QED
          BY <2>8, <4>1, <5>1 DEF CopyFails, Writing
      <4>2. ASSUME CopyDone(v) PROVE FALSE
        <5>1. update'[v].at = "copied" /\ update[v].at = "copying"
          BY <2>1, <4>2 DEF CopyDone, Writing, UpdateRecord
        <5> QED
          BY <2>8, <5>1
      <4> QED
        BY <2>4, <2>8, <4>1, <4>2
           DEF UpdateStep, RequestFails, FinishUpdate, CreateTmp, Underway
    <3>3. UNCHANGED <<content, tmpName>>
      BY <2>5, <3>1, <3>2 DEF RdapNext, Publish, RdapRestart, BeginUpdate, rdapVars
    <3> QED
      BY <2>2, <2>6, <2>8, <3>1, <3>3
  <2>9. CASE /\ Underway(v) /\ SameWrite(v) /\ CopyDone(v) /\ update'[v].at = "copied"
             /\ (update'[v].pure <=> update[v].pure)
    <3>1. Updating(v)
      BY <2>9 DEF Underway, Updating
    <3>2. content' = [content EXCEPT ![update[v].inode] = update[v].version] /\ UNCHANGED tmpName
      BY <2>2, <2>9 DEF CopyDone
    <3>3. content'[update[v].inode] = update[v].version
      BY <2>1, <2>2, <2>9, <3>2
    <3> QED
      BY <2>2, <2>6, <2>9, <3>1, <3>2, <3>3 DEF SameWrite
  <2>10. Underway(v) => ~\E u \in Updaters \ {v} : \E f \in RdapFiles : CreateTmp(u, f)
    BY <2>5 DEF UpdateStep, Underway, Updating
  <2> QED
    BY <1>6, <2>7, <2>8, <2>9, <2>10, WriterSteps DEF RdapInv
<1> QED
  BY <1>4, <1>6 DEF OneWrites

-----------------------------------------------------------------------------
\* The invariant holds in every reachable state.
LEMMA RdapHolds == RdapSpec => []RdapInv
<1>1. RdapInit => RdapInv
  <2> SUFFICES ASSUME RdapInit PROVE RdapInv
    OBVIOUS
  <2>1. RdapTypeOK
    <3>1. NotUpdating \in UpdateRecord
      BY RdapBounds DEF NotUpdating, UpdateRecord
    <3>2. update \in [Updaters -> UpdateRecord]
      BY <3>1 DEF RdapInit
    <3>3. /\ content \in [RdapInodes \cup {0} -> 0..MaxPublished]
          /\ tmpName \in [RdapFiles -> RdapInodes \cup {0}]
          /\ destName \in [RdapFiles -> RdapInodes \cup {0}]
          /\ table \in [RdapFiles -> 0..MaxPublished]
      BY RdapBounds DEF RdapInit, Torn
    <3>4. /\ published \in 1..MaxPublished /\ updates \in 0..MaxUpdates
          /\ rdapCrashes \in 0..MaxRdapCrashes
      BY RdapBounds DEF RdapInit
    <3>5. overlapped \in BOOLEAN
      BY DEF RdapInit
    <3> QED
      BY <3>2, <3>3, <3>4, <3>5 DEF RdapTypeOK, UpdateRecord
  <2>2. \A u \in Updaters : ~Updating(u) /\ ~Underway(u)
    BY DEF RdapInit, NotUpdating, Updating, Underway
  <2>3. NamesApart
    BY DEF RdapInit, NamesApart
  <2>4. WritersKnow /\ OneWrites
    BY <2>2 DEF RdapInit, WritersKnow, OneWrites, Torn
  <2>5. DestIsWhole
    BY DEF RdapInit, DestIsWhole, Exists, DiskVersion, Torn
  <2> QED
    BY <2>1, <2>3, <2>4, <2>5 DEF RdapInv
<1>2. RdapInv /\ [RdapNext]_rdapVars => RdapInv'
  BY RdapTyping, NamesStayApart, WritersStillKnow, OneKeepsWriting, DestStaysWhole DEF RdapInv
<1> QED
  BY <1>1, <1>2, PTL DEF RdapSpec

\* Unless updates have overlapped, a file under its final name is a complete version,
\* whatever failed and wherever the process ended, and memory is never ahead of it
\* (downloadFile, Load).
THEOREM FilesAreWhole == RdapSpec => []DestIsWhole
<1>1. RdapInv => DestIsWhole
  BY DEF RdapInv
<1> QED
  BY <1>1, RdapHolds, PTL

-----------------------------------------------------------------------------
\* A file on disk that changes becomes a version, or is damaged where that may happen.
LEMMA ChangesAreAllowed ==
  ASSUME RdapInv, NEW g \in RdapFiles, NEW v \in 0..MaxPublished,
         \A f \in RdapFiles : DiskVersion(f)' = IF f = g THEN v ELSE DiskVersion(f),
         UNCHANGED <<table, overlapped>>, v = 0 => overlapped
  PROVE  Rdap!Next
<1>1. [f \in RdapFiles |-> DiskVersion(f)]' = [[f \in RdapFiles |-> DiskVersion(f)] EXCEPT ![g] = v]
  OBVIOUS
<1>2. CASE v = 0
  <2>1. Rdap!Damage(g)
    BY <1>1, <1>2 DEF Rdap!Damage
  <2> QED
    BY <2>1 DEF Rdap!Next
<1>3. CASE v # 0
  <2>1. v \in 1..MaxPublished
    BY <1>3, RdapBounds
  <2>2. Rdap!Put(g, v)
    BY <1>1 DEF Rdap!Put
  <2> QED
    BY <2>1, <2>2 DEF Rdap!Next
<1> QED
  BY <1>2, <1>3

\* Each step is a step of PublishedFiles, or leaves the files and tables as they are.
LEMMA RdapStepImplements ==
  RdapInv /\ [RdapNext]_rdapVars =>
    [Rdap!Next]_<<[f \in RdapFiles |-> DiskVersion(f)], table, overlapped>>
<1> DEFINE Same == /\ \A f \in RdapFiles : DiskVersion(f)' = DiskVersion(f)
                   /\ UNCHANGED <<table, overlapped>>
<1> SUFFICES ASSUME RdapInv, [RdapNext]_rdapVars PROVE Rdap!Next \/ Same
  OBVIOUS
<1>1. /\ destName \in [RdapFiles -> RdapInodes \cup {0}]
      /\ tmpName \in [RdapFiles -> RdapInodes \cup {0}]
      /\ content \in [RdapInodes \cup {0} -> 0..MaxPublished]
      /\ table \in [RdapFiles -> 0..MaxPublished]
      /\ 0..MaxPublished = {0} \cup 1..MaxPublished
  <2>1. /\ destName \in [RdapFiles -> RdapInodes \cup {0}]
        /\ tmpName \in [RdapFiles -> RdapInodes \cup {0}]
        /\ content \in [RdapInodes \cup {0} -> 0..MaxPublished]
        /\ table \in [RdapFiles -> 0..MaxPublished]
    BY DEF RdapInv, RdapTypeOK
  <2> QED
    BY <2>1, RdapBounds
<1>2. ASSUME NEW u \in Updaters, BeginUpdate(u) PROVE Rdap!Next \/ Same
  <2>1. UNCHANGED <<content, destName, table>>
    BY <1>2 DEF BeginUpdate
  <2>2. overlapped' = overlapped \/ overlapped' = TRUE
    <3>1. overlapped \in BOOLEAN /\ overlapped' \in BOOLEAN
      BY RdapTyping DEF RdapInv, RdapTypeOK
    <3>2. overlapped => overlapped'
      BY <1>2 DEF BeginUpdate
    <3> QED
      BY <3>1, <3>2
  <2>3. ASSUME overlapped' = TRUE PROVE Rdap!Next
    <3>1. Rdap!Share
      BY <2>1, <2>3 DEF Rdap!Share, DiskVersion
    <3> QED
      BY <3>1 DEF Rdap!Next
  <2> QED
    BY <2>1, <2>2, <2>3 DEF DiskVersion
<1>3. ASSUME NEW u \in Updaters, NEW f \in RdapFiles, CreateTmp(u, f) PROVE Same
  <2>1. \A g \in RdapFiles : destName[g] # TmpInode(f)
    <3>1. TmpInode(f) \in RdapInodes /\ (TmpInode(f) = tmpName[f] \/ TmpInode(f) \notin InUse)
      BY <1>3, CreateFacts DEF RdapInv
    <3> QED
      BY <3>1, RdapBounds DEF RdapInv, NamesApart, InUse
  <2>2. /\ UNCHANGED <<destName, table, overlapped>>
        /\ content' = [content EXCEPT ![TmpInode(f)] = Torn]
    BY <1>3, CreateFacts DEF RdapInv, CreateTmp
  <2> QED
    BY <1>1, <2>1, <2>2 DEF DiskVersion
<1>4. ASSUME NEW u \in Updaters, CopyDone(u) PROVE Rdap!Next \/ Same
  <2> DEFINE i == update[u].inode
  <2>1. PICK v \in 0..MaxPublished :
          content' = [content EXCEPT ![i] = v] /\ (v = 0 => overlapped)
    <3>1. update[u].version \in 1..published /\ published \in 1..MaxPublished
      BY <1>4 DEF RdapInv, RdapTypeOK, WritersKnow, CopyDone, Writing, Underway
    <3>2. update[u].version \in 0..MaxPublished /\ update[u].version # 0 /\ 0 \in 0..MaxPublished
      BY <3>1, RdapBounds
    <3>3. ~update[u].pure => overlapped
      BY <1>4 DEF RdapInv, OneWrites, CopyDone, Writing, Underway
    <3> QED
      BY <1>4, <3>2, <3>3 DEF CopyDone, Torn
  <2>2. UNCHANGED <<destName, table, overlapped>> /\ i \in RdapInodes /\ i # 0
    BY <1>4, RdapBounds DEF CopyDone, RdapInv, WritersKnow, Writing, Underway
  <2>3. CASE \E g \in RdapFiles : destName[g] = i
    <3> PICK g \in RdapFiles : destName[g] = i
      BY <2>3
    <3>1. \A f \in RdapFiles : DiskVersion(f)' = IF f = g THEN v ELSE DiskVersion(f)
      BY <1>1, <2>1, <2>2 DEF DiskVersion, RdapInv, NamesApart
    <3> QED
      BY <2>1, <2>2, <3>1, ChangesAreAllowed
  <2>4. CASE \A g \in RdapFiles : destName[g] # i
    BY <1>1, <2>1, <2>2, <2>4 DEF DiskVersion
  <2> QED
    BY <2>3, <2>4
<1>5. ASSUME NEW u \in Updaters, Rename(u) PROVE Rdap!Next \/ Same
  <2> DEFINE g == update[u].file
  <2>1. g \in RdapFiles
    BY <1>5 DEF RdapInv, WritersKnow, Rename, Underway
  <2>2. CASE tmpName[g] = 0
    BY <1>5, <2>2 DEF Rename, DiskVersion
  <2>3. CASE tmpName[g] # 0
    <3>1. /\ destName' = [destName EXCEPT ![g] = tmpName[g]]
          /\ UNCHANGED <<content, table, overlapped>>
      BY <1>5, <2>3 DEF Rename
    <3>2. content[tmpName[g]] \in 0..MaxPublished
      BY <1>1, <2>1
    <3>3. content[tmpName[g]] = 0 => overlapped
      <4>1. ASSUME ~overlapped PROVE content[tmpName[g]] # 0
        <5>1. destName' = [destName EXCEPT ![g] = update[u].inode]
              /\ content[update[u].inode] = update[u].version /\ update[u].version \in Nat \ {0}
          BY <1>5, <4>1, RenamePutsVersion
        <5>2. tmpName[g] = update[u].inode
          BY <1>1, <2>1, <3>1, <5>1
        <5> QED
          BY <5>1, <5>2
      <4> QED
        BY <4>1
    <3>4. \A f \in RdapFiles :
            DiskVersion(f)' = IF f = g THEN content[tmpName[g]] ELSE DiskVersion(f)
      BY <1>1, <2>1, <3>1 DEF DiskVersion
    <3> QED
      BY <2>1, <3>1, <3>2, <3>3, <3>4, ChangesAreAllowed
  <2> QED
    BY <2>2, <2>3
<1>6. ASSUME NEW u \in Updaters, FinishUpdate(u) PROVE Rdap!Next
  <2>1. Load(table) /\ UNCHANGED <<content, destName, overlapped>>
    BY <1>6 DEF FinishUpdate
  <2>2. DOMAIN table' = RdapFiles /\ \A f \in RdapFiles :
          table'[f] = table[f] \/ (DiskVersion(f) # 0 /\ table'[f] = DiskVersion(f))
    BY <1>1, <2>1, LoadKeepsOrTakes DEF Torn
  <2>3. table' \in [RdapFiles -> {0} \cup 1..MaxPublished]
    BY <1>1, RdapTyping DEF RdapInv, RdapTypeOK
  <2>4. Rdap!LoadSome
    BY <2>1, <2>2, <2>3 DEF Rdap!LoadSome, DiskVersion
  <2> QED
    BY <2>4 DEF Rdap!Next
<1>7. ASSUME RdapRestart PROVE Rdap!Next
  <2>1. Load([f \in RdapFiles |-> 0]) /\ UNCHANGED <<content, destName, overlapped>>
    BY <1>7 DEF RdapRestart
  <2>2. [f \in RdapFiles |-> 0] \in [RdapFiles -> 0..MaxPublished]
    BY <1>1
  <2>3. \A f \in RdapFiles : table'[f] \in {0, DiskVersion(f)}
    BY <2>1, <2>2, LoadKeepsOrTakes
  <2>4. table' \in [RdapFiles -> {0} \cup 1..MaxPublished]
    BY <1>1, RdapTyping DEF RdapInv, RdapTypeOK
  <2>5. Rdap!Reopen
    BY <2>1, <2>3, <2>4 DEF Rdap!Reopen, DiskVersion
  <2> QED
    BY <2>5 DEF Rdap!Next
<1>8. CASE UNCHANGED <<content, destName, table, overlapped>>
  BY <1>8 DEF DiskVersion
<1> QED
  BY <1>2, <1>3, <1>4, <1>5, <1>6, <1>7, <1>8
     DEF RdapNext, UpdateStep, Publish, RequestFails, CopyFails, rdapVars

\* Update and Load keep the promise of PublishedFiles: a file under its name is absent or
\* a complete version, and memory holds what was complete, also when a download fails or
\* the process ends; a file may be damaged only once two updates have overlapped.
THEOREM RdapImplements == RdapSpec => RdapKeepsItsPromise
<1>1. RdapInit => Rdap!Init
  BY DEF RdapInit, Rdap!Init, DiskVersion, Torn
<1> QED
  BY <1>1, RdapStepImplements, RdapHolds, PTL DEF RdapSpec, RdapKeepsItsPromise, Rdap!Spec

-----------------------------------------------------------------------------
(***************************************************************************)
(* The certificate manager, for any lifetime of a certificate, number of   *)
(* key pairs and of crashes.                                               *)
(***************************************************************************)

\* Pairs that are on disk or in use have been issued, and stay as they are.
Issued ==
  /\ \A p \in CertPlaces : chain[p] # 0 => expiry[chain[p]] # 0
  /\ served.chain # 0 => expiry[served.chain] # 0

\* A renewal loop has a certificate to look at, and a check to come.
LoopKnows == nextCheck # 0 => served # NoCert /\ day <= nextCheck

\* While a renewal is under way no time passes.
RenewedToday ==
  ~excused /\ ~CertIdle =>
    /\ served # NoCert => nextCheck # 0
    /\ nextCheck # 0 => /\ nextCheck = day + CheckEvery
                        /\ chain["app"] # 0 /\ expiry[chain["app"]] = day + Lifetime

\* The certificate in use is looked at before it expires.
LookedAtInTime ==
  ~excused /\ CertIdle /\ nextCheck # 0 /\ served.chain = chain["app"] =>
    nextCheck <= expiry[served.chain]

CertInv ==
  /\ CertTypeOK /\ served.key = served.chain
  /\ Issued /\ LoopKnows /\ RenewedToday /\ LookedAtInTime

\* A check comes before a certificate that it has left, or has renewed, expires.
ChecksOften == CheckEvery <= RenewBefore + 1 /\ CheckEvery <= Lifetime
-----------------------------------------------------------------------------
LEMMA Places ==
  /\ CertPlaces = {"system", "app", "local"}
  /\ DOMAIN CertOrder = 1..3 /\ \A n \in 1..3 : CertOrder[n] \in CertPlaces
<1>1. DOMAIN CertOrder = 1..3
  BY DEF CertOrder
<1>2. CertOrder[1] = "system" /\ CertOrder[2] = "app" /\ CertOrder[3] = "local"
  BY DEF CertOrder
<1>3. 1..3 = {1, 2, 3}
  OBVIOUS
<1>4. CertPlaces = {CertOrder[1], CertOrder[2], CertOrder[3]}
  BY <1>1, <1>3 DEF CertPlaces
<1> QED
  BY <1>1, <1>2, <1>3, <1>4

LEMMA CertBounds ==
  /\ Lifetime \in Nat \ {0} /\ RenewBefore \in Nat /\ CheckEvery \in Nat \ {0}
  /\ CertTime \in Nat /\ MaxSerials \in Nat /\ MaxCertCrashes \in Nat
BY CertAssumption

\* The first of some positions is one of them.
LEMMA FirstIsThere ==
  ASSUME NEW S \in SUBSET (1..3), S # {} PROVE Min(S) \in S
<1>0. \A y \in S : y = 1 \/ y = 2 \/ y = 3
  OBVIOUS
<1>1. PICK x \in S : \A y \in S : x <= y
  <2> USE <1>0
  <2>1. CASE 1 \in S
    <3>1. \A y \in S : 1 <= y
      OBVIOUS
    <3> QED
      BY <2>1, <3>1, Zenon
  <2>2. CASE 1 \notin S /\ 2 \in S
    BY <2>2
  <2>3. CASE 1 \notin S /\ 2 \notin S
    <3>1. \A y \in S : y = 3
      BY <2>3
    <3>2. PICK z \in S : TRUE
      OBVIOUS
    <3> QED
      BY <3>1, <3>2
  <2> QED
    BY <2>1, <2>2, <2>3
<1> QED
  BY <1>1, Zenon DEF Min

\* LoadCertificate keeps what is served, or takes a pair that matches (loadCertFromPath).
LEMMA LoadTakesAPair ==
  ASSUME CertInv, LoadCertificate
  PROVE  /\ served' \in [chain : 0..MaxSerials, key : 0..MaxSerials]
         /\ served'.key = served'.chain
         /\ served'.chain # 0 => expiry[served'.chain] # 0
         /\ served' = served \/ served' # NoCert
<1> DEFINE usable == {n \in DOMAIN CertOrder : Usable(CertOrder[n])}
<1>1. served \in [chain : 0..MaxSerials, key : 0..MaxSerials]
  BY DEF CertInv, CertTypeOK
<1>2. CASE usable = {}
  <2>1. served' = served
    BY <1>2 DEF LoadCertificate
  <2> QED
    BY <1>1, <2>1 DEF CertInv, Issued
<1>3. CASE usable # {}
  <2> DEFINE p == CertOrder[Min(usable)]
  <2>1. Min(usable) \in usable
    BY <1>3, Places, FirstIsThere
  <2>2. p \in CertPlaces /\ Usable(p)
    BY <2>1, Places
  <2>3. served' = [chain |-> chain[p], key |-> privKey[p]]
    BY <1>3 DEF LoadCertificate
  <2> HIDE DEF p
  <2>4. chain[p] \in 0..MaxSerials /\ chain[p] # 0 /\ privKey[p] = chain[p]
    BY <2>2 DEF Usable, CertInv, CertTypeOK
  <2>5. expiry[chain[p]] # 0
    BY <2>2, <2>4 DEF CertInv, Issued
  <2> QED
    BY <2>3, <2>4, <2>5 DEF NoCert
<1> QED
  BY <1>2, <1>3

\* A pair that is issued today takes the place p, and nothing else changes what it was.
LEMMA SavedIsNew ==
  ASSUME CertInv, NEW p \in CertPlaces, SaveChain(p)
  PROVE  /\ chain' \in [CertPlaces -> 0..MaxSerials] /\ expiry' \in [1..MaxSerials -> Nat]
         /\ saving' \in [place : CertPlaces \cup {""}, serial : 0..MaxSerials] /\ ~CertIdle'
         /\ chain'[p] # 0 /\ expiry'[chain'[p]] = day + Lifetime
         /\ Issued'
<1>1. PICK s \in Unissued :
        /\ expiry' = [expiry EXCEPT ![s] = day + Lifetime]
        /\ chain' = [chain EXCEPT ![p] = s]
        /\ saving' = [place |-> p, serial |-> s]
  BY DEF SaveChain
<1>2. s \in 1..MaxSerials /\ expiry[s] = 0
  BY DEF Unissued
<1>3. /\ chain \in [CertPlaces -> 0..MaxSerials] /\ expiry \in [1..MaxSerials -> Nat]
      /\ day \in Nat /\ served' = served /\ served.chain \in 0..MaxSerials
  <2>1. /\ chain \in [CertPlaces -> 0..MaxSerials] /\ expiry \in [1..MaxSerials -> Nat]
        /\ day \in 1..(CertTime + 1)
        /\ served \in [chain : 0..MaxSerials, key : 0..MaxSerials]
    BY Zenon DEF CertInv, CertTypeOK
  <2>2. served' = served
    BY DEF SaveChain
  <2> QED
    BY <2>1, <2>2, CertBounds
<1>4. day + Lifetime \in Nat /\ day + Lifetime # 0
  BY <1>3, CertBounds
<1>5. /\ chain' \in [CertPlaces -> 0..MaxSerials] /\ expiry' \in [1..MaxSerials -> Nat]
      /\ chain'[p] = s /\ expiry'[s] = day + Lifetime
  BY <1>1, <1>2, <1>3, <1>4, CertBounds
<1>6. saving' \in [place : CertPlaces \cup {""}, serial : 0..MaxSerials] /\ saving'.serial # 0
  <2>1. s \in 0..MaxSerials /\ s # 0
    BY <1>2, CertBounds
  <2> QED
    BY <1>1, <2>1
<1>7. Issued'
  <2>1. \A x \in 1..MaxSerials : expiry[x] # 0 => expiry'[x] # 0
    BY <1>1, <1>2, <1>3, <1>4
  <2>2. \A q \in CertPlaces : chain'[q] = s \/ chain'[q] = chain[q]
    BY <1>1, <1>3
  <2> QED
    BY <1>3, <1>4, <1>5, <2>1, <2>2, CertBounds DEF Issued, CertInv
<1>8. ~CertIdle'
  <2>1. NotSaving.serial = 0
    BY DEF NotSaving
  <2>2. saving' # NotSaving
    BY <1>6, <2>1
  <2> QED
    BY <2>2 DEF CertIdle
<1>9. s # 0
  BY <1>2, CertBounds
<1> QED
  BY <1>5, <1>6, <1>7, <1>8, <1>9
-----------------------------------------------------------------------------
\* The types of the files, of the clocks, and of what is in use and under way.
FilesTyped ==
  /\ chain \in [CertPlaces -> 0..MaxSerials] /\ privKey \in [CertPlaces -> 0..MaxSerials]
  /\ expiry \in [1..MaxSerials -> Nat]
ClocksTyped ==
  day \in 1..(CertTime + 1) /\ nextCheck \in Nat /\ certCrashes \in 0..MaxCertCrashes
ServedTyped == served \in [chain : 0..MaxSerials, key : 0..MaxSerials]
SavingTyped == saving \in [place : CertPlaces \cup {""}, serial : 0..MaxSerials]

LEMMA CertTypes ==
  CertTypeOK <=>
    FilesTyped /\ ClocksTyped /\ ServedTyped /\ SavingTyped /\ excused \in BOOLEAN
BY Zenon DEF CertTypeOK, FilesTyped, ClocksTyped, ServedTyped, SavingTyped

LEMMA FilesTypeStep ==
  CertInv /\ [CertNext]_certVars => FilesTyped'
<1> SUFFICES ASSUME CertInv, [CertNext]_certVars PROVE FilesTyped'
  OBVIOUS
<1>0. FilesTyped /\ ClocksTyped /\ SavingTyped
  BY CertTypes DEF CertInv
<1>1. FilesTyped /\ saving \in [place : CertPlaces \cup {""}, serial : 0..MaxSerials]
  BY <1>0 DEF SavingTyped
<1>2. day + Lifetime \in Nat
  <2>1. day \in 1..(CertTime + 1)
    BY <1>0 DEF ClocksTyped
  <2> QED
    BY <2>1, CertBounds
<1>3. CASE UNCHANGED <<chain, privKey, expiry>>
  BY <1>1, <1>3 DEF FilesTyped
<1>4. CASE Provide
  <2>1. PICK s \in Unissued : /\ expiry' = [expiry EXCEPT ![s] = day + Lifetime]
                              /\ chain' = [chain EXCEPT !["system"] = s]
                              /\ privKey' = [privKey EXCEPT !["system"] = s]
    BY <1>4 DEF Provide
  <2>2. s \in 0..MaxSerials
    BY CertBounds DEF Unissued
  <2> QED
    BY <1>1, <1>2, <2>1, <2>2 DEF FilesTyped
<1>5. CASE SaveKey
  <2>1. UNCHANGED <<chain, expiry>> /\ saving.serial \in 0..MaxSerials
    BY <1>1, <1>5 DEF SaveKey
  <2>2. privKey' = privKey \/ privKey' = [privKey EXCEPT ![saving.place] = saving.serial]
    BY <1>5 DEF SaveKey
  <2> QED
    BY <1>1, <2>1, <2>2 DEF FilesTyped
<1>6. ASSUME NEW p \in CertPlaces, SaveChain(p) PROVE FilesTyped'
  BY <1>1, <1>6, SavedIsNew DEF SaveChain, FilesTyped
<1> QED
  BY <1>3, <1>4, <1>5, <1>6, Places DEF CertNext, certVars, CertTick, LoadSaved, StartTLS,
     StartAutoRenewal, StopAutoRenewal, CheckAndRenew, CertCrash, Request

LEMMA ClocksTypeStep ==
  CertInv /\ [CertNext]_certVars => ClocksTyped'
<1> SUFFICES ASSUME CertInv, [CertNext]_certVars PROVE ClocksTyped'
  OBVIOUS
<1>1. /\ day \in 1..(CertTime + 1) /\ nextCheck \in Nat
      /\ certCrashes \in 0..MaxCertCrashes
  BY CertTypes DEF CertInv, ClocksTyped
<1>2. day' = day \/ (day < CertTime /\ day' = day + 1)
  BY DEF CertNext, certVars, CertTick, Provide, SaveKey, LoadSaved, StartTLS, SaveChain,
     StartAutoRenewal, StopAutoRenewal, CheckAndRenew, CertCrash, Request
<1>3. nextCheck' \in {nextCheck, day + CheckEvery, 0}
  BY DEF CertNext, certVars, CertTick, Provide, SaveKey, LoadSaved, StartTLS, SaveChain,
     StartAutoRenewal, StopAutoRenewal, CheckAndRenew, CertCrash, Request
<1>4. \/ certCrashes' = certCrashes
      \/ certCrashes < MaxCertCrashes /\ certCrashes' = certCrashes + 1
  BY DEF CertNext, certVars, CertTick, Provide, SaveKey, LoadSaved, StartTLS, SaveChain,
     StartAutoRenewal, StopAutoRenewal, CheckAndRenew, CertCrash, Request
<1> QED
  BY <1>1, <1>2, <1>3, <1>4, CertBounds DEF ClocksTyped

LEMMA UseTypeStep ==
  CertInv /\ [CertNext]_certVars => ServedTyped' /\ SavingTyped' /\ excused' \in BOOLEAN
<1> SUFFICES ASSUME CertInv, [CertNext]_certVars
             PROVE  ServedTyped' /\ SavingTyped' /\ excused' \in BOOLEAN
  OBVIOUS
<1> USE CertBounds
<1>1. ServedTyped /\ SavingTyped /\ excused \in BOOLEAN
  BY CertTypes DEF CertInv
<1>2. served' = served \/ served' = NoCert \/ LoadCertificate
  BY DEF CertNext, certVars, CertTick, Provide, SaveKey, LoadSaved, StartTLS, SaveChain,
     StartAutoRenewal, StopAutoRenewal, CheckAndRenew, CertCrash, Request
<1>3. \/ saving' = saving \/ saving' = NotSaving \/ saving' = [saving EXCEPT !.serial = 0]
      \/ \E p \in CertPlaces : SaveChain(p)
  BY Places DEF CertNext, certVars, CertTick, Provide, SaveKey, LoadSaved, StartTLS,
     StartAutoRenewal, StopAutoRenewal, CheckAndRenew, CertCrash, Request
<1>4. \/ excused' = excused \/ excused' = TRUE
      \/ excused' = (excused \/ expiry[served.chain] < nextCheck')
      \/ excused' = (excused \/ ~CertIdle)
  BY DEF CertNext, certVars, CertTick, Provide, SaveKey, LoadSaved, StartTLS,
     StartAutoRenewal, StopAutoRenewal, CheckAndRenew, CertCrash, Request
<1>5. ServedTyped'
  <2>1. 0 \in 0..MaxSerials
    OBVIOUS
  <2>2. NoCert \in [chain : 0..MaxSerials, key : 0..MaxSerials]
    BY <2>1 DEF NoCert
  <2> QED
    BY <1>1, <1>2, <2>2, LoadTakesAPair DEF ServedTyped
<1>6. SavingTyped'
  <2> DEFINE Type == [place : CertPlaces \cup {""}, serial : 0..MaxSerials]
  <2>1. 0 \in 0..MaxSerials
    OBVIOUS
  <2>2. NotSaving \in Type
    BY <2>1 DEF NotSaving
  <2>3. saving \in Type
    BY <1>1 DEF SavingTyped
  <2>4. [saving EXCEPT !.serial = 0] \in Type
    BY <2>1, <2>3
  <2>5. ASSUME NEW p \in CertPlaces, SaveChain(p) PROVE saving' \in Type
    BY <2>5, SavedIsNew
  <2>6. saving' \in Type
    <3> HIDE DEF Type
    <3> QED
      BY <1>3, <2>2, <2>3, <2>4, <2>5
  <2> QED
    BY <2>6 DEF SavingTyped
<1>7. excused' \in BOOLEAN
  BY <1>1, <1>4, Zenon
<1> QED
  BY <1>5, <1>6, <1>7

LEMMA CertTypeStep ==
  CertInv /\ [CertNext]_certVars => CertTypeOK'
<1> SUFFICES ASSUME CertInv, [CertNext]_certVars PROVE CertTypeOK'
  OBVIOUS
<1>1. /\ FilesTyped' /\ ClocksTyped' /\ ServedTyped' /\ SavingTyped'
      /\ excused' \in BOOLEAN
  BY FilesTypeStep, ClocksTypeStep, UseTypeStep
<1> QED
  BY <1>1, Zenon DEF CertTypeOK, FilesTyped, ClocksTyped, ServedTyped, SavingTyped

\* The clock, the lifetimes and what is in use, as numbers.
LEMMA CertNumbers ==
  ASSUME CertInv
  PROVE  /\ day \in Nat \ {0} /\ nextCheck \in Nat
         /\ served.chain \in 0..MaxSerials /\ chain["app"] \in 0..MaxSerials
         /\ \A s \in 1..MaxSerials : expiry[s] \in Nat
         /\ served # NoCert => served.chain \in 1..MaxSerials
<1>1. /\ day \in 1..(CertTime + 1) /\ nextCheck \in Nat
      /\ served \in [chain : 0..MaxSerials, key : 0..MaxSerials]
      /\ chain \in [CertPlaces -> 0..MaxSerials] /\ expiry \in [1..MaxSerials -> Nat]
  BY Zenon DEF CertInv, CertTypeOK
<1>2. served.key = served.chain
  BY DEF CertInv
<1>3. served # NoCert => served.chain # 0
  BY <1>1, <1>2 DEF NoCert
<1> QED
  BY <1>1, <1>3, Places, CertBounds

\* Each step keeps the rest, if checks come often.
LEMMA CertStep ==
  ASSUME ChecksOften, CertInv, [CertNext]_certVars
  PROVE  CertInv'
<1> USE CertBounds, Places, CertNumbers
<1>0. CertTypeOK'
  BY CertTypeStep
<1>1. CASE CertTick
  <2>1. /\ UNCHANGED <<chain, expiry, served, saving, nextCheck, excused>>
        /\ CertIdle /\ (nextCheck = 0 \/ day < nextCheck) /\ day' = day + 1
    BY <1>1 DEF CertTick
  <2>2. LoopKnows' /\ RenewedToday' /\ LookedAtInTime'
    BY <2>1 DEF CertInv, LoopKnows, RenewedToday, LookedAtInTime, CertIdle
  <2> QED
    BY <1>0, <2>1, <2>2 DEF CertInv, Issued
<1>2. CASE Provide
  <2>1. PICK s \in Unissued : /\ expiry' = [expiry EXCEPT ![s] = day + Lifetime]
                              /\ chain' = [chain EXCEPT !["system"] = s]
    BY <1>2 DEF Provide
  <2>2. s \in 1..MaxSerials /\ expiry[s] = 0
    BY <2>1 DEF Unissued
  <2>3. UNCHANGED <<day, served, saving, nextCheck, excused>>
    BY <1>2 DEF Provide
  <2>4. chain \in [CertPlaces -> 0..MaxSerials] /\ expiry \in [1..MaxSerials -> Nat]
    BY Zenon DEF CertInv, CertTypeOK
  <2>5. /\ chain'["app"] = chain["app"] /\ expiry'[s] = day + Lifetime
        /\ \A x \in 1..MaxSerials : x # s => expiry'[x] = expiry[x]
        /\ \A q \in CertPlaces : chain'[q] = s \/ chain'[q] = chain[q]
    BY <2>1, <2>2, <2>4
  <2>6. Issued'
    <3>1. \A x \in 1..MaxSerials : expiry[x] # 0 => expiry'[x] # 0
      BY <2>2, <2>5
    <3>2. \A x \in 0..MaxSerials : x # 0 => x \in 1..MaxSerials
      OBVIOUS
    <3>3. \A q \in CertPlaces : chain[q] \in 0..MaxSerials
      BY <2>4
    <3>4. expiry'[s] # 0
      BY <2>5
    <3>5. served' = served /\ Issued
      BY <2>3 DEF CertInv
    <3> QED
      BY <2>5, <3>1, <3>2, <3>3, <3>4, <3>5 DEF Issued
  <2>7. LoopKnows'
    BY <2>3 DEF CertInv, LoopKnows
  <2>8. RenewedToday'
    BY <2>2, <2>3, <2>5 DEF CertInv, RenewedToday, CertIdle
  <2>9. LookedAtInTime'
    BY <2>2, <2>3, <2>5 DEF CertInv, LookedAtInTime, CertIdle, Issued, LoopKnows
  <2> QED
    BY <1>0, <2>3, <2>6, <2>7, <2>8, <2>9 DEF CertInv
<1>3. CASE SaveKey
  <2>1. UNCHANGED <<day, chain, expiry, served, nextCheck>> /\ ~CertIdle
        /\ (excused' = excused \/ excused')
    BY <1>3 DEF SaveKey
  <2>2. RenewedToday' /\ LookedAtInTime'
    BY <2>1 DEF CertInv, ChecksOften, RenewedToday, LookedAtInTime, LoopKnows
  <2> QED
    BY <1>0, <2>1, <2>2 DEF CertInv, Issued, LoopKnows
<1>4. CASE LoadSaved
  <2>1. UNCHANGED <<day, chain, expiry, nextCheck, excused>> /\ ~CertIdle /\ CertIdle'
    BY <1>4 DEF LoadSaved, CertIdle, NotSaving
  <2>2. /\ served'.key = served'.chain
        /\ served'.chain # 0 => expiry[served'.chain] # 0
        /\ served' = served \/ served' # NoCert
    BY <1>4, LoadTakesAPair DEF LoadSaved
  <2>3. RenewedToday' /\ LookedAtInTime'
    BY <2>1 DEF CertInv, ChecksOften, RenewedToday, LookedAtInTime
  <2>4. Issued' /\ LoopKnows'
    BY <2>1, <2>2 DEF CertInv, Issued, LoopKnows
  <2> QED
    BY <1>0, <2>2, <2>3, <2>4 DEF CertInv
<1>5. CASE StartTLS
  <2>1. UNCHANGED <<day, chain, expiry, nextCheck, excused, saving>> /\ CertIdle
        /\ nextCheck = 0
    BY <1>5 DEF StartTLS, CertInv, LoopKnows
  <2>2. /\ served'.key = served'.chain
        /\ served'.chain # 0 => expiry[served'.chain] # 0
    BY <1>5, LoadTakesAPair DEF StartTLS
  <2>3. RenewedToday' /\ LookedAtInTime' /\ LoopKnows'
    BY <2>1 DEF RenewedToday, LookedAtInTime, CertIdle, LoopKnows
  <2>4. Issued'
    BY <2>1, <2>2 DEF CertInv, Issued
  <2> QED
    BY <1>0, <2>2, <2>3, <2>4 DEF CertInv
<1>6. CASE StartAutoRenewal
  <2>1. /\ UNCHANGED <<day, chain, expiry, served, saving>>
        /\ served # NoCert /\ nextCheck = 0 /\ nextCheck' = day + CheckEvery
        /\ excused \/ expiry[served.chain] < nextCheck' => excused'
    BY <1>6 DEF StartAutoRenewal
  <2>2. RenewedToday'
    BY <2>1 DEF CertInv, RenewedToday, CertIdle
  <2>3. LookedAtInTime'
    BY <2>1 DEF LookedAtInTime
  <2>4. Issued' /\ LoopKnows'
    BY <2>1 DEF CertInv, Issued, LoopKnows
  <2> QED
    BY <1>0, <2>1, <2>2, <2>3, <2>4 DEF CertInv
<1>7. CASE StopAutoRenewal
  <2>1. /\ UNCHANGED <<day, chain, expiry, served, saving>>
        /\ nextCheck' = 0 /\ excused'
    BY <1>7 DEF StopAutoRenewal
  <2>2. RenewedToday' /\ LookedAtInTime' /\ LoopKnows'
    BY <2>1 DEF RenewedToday, LookedAtInTime, LoopKnows
  <2> QED
    BY <1>0, <2>1, <2>2 DEF CertInv, Issued
<1>8. CASE CheckAndRenew
  <2>1. /\ nextCheck # 0 /\ day = nextCheck /\ CertIdle /\ nextCheck' = day + CheckEvery
        /\ served # NoCert
    BY <1>8 DEF CheckAndRenew, CertInv, LoopKnows
  <2>2. LoopKnows' \/ served' # served \/ day' # day
    BY <2>1 DEF LoopKnows
  <2>3. CASE /\ UNCHANGED <<day, chain, privKey, expiry, served, saving, certCrashes>>
             /\ ~DueForRenewal \/ excused'
             /\ excused => excused'
    <3>1. RenewedToday'
      BY <2>1, <2>3 DEF RenewedToday, CertIdle
    <3>2. LookedAtInTime'
      BY <2>1, <2>3 DEF LookedAtInTime, DueForRenewal, ChecksOften
    <3> QED
      BY <1>0, <2>2, <2>3, <3>1, <3>2 DEF CertInv, Issued
  <2>4. CASE SaveChain("app") /\ UNCHANGED excused
    <3>1. UNCHANGED <<day, served>>
      BY <2>4 DEF SaveChain
    <3>2. ~CertIdle' /\ chain'["app"] # 0 /\ expiry'[chain'["app"]] = day + Lifetime /\ Issued'
      BY <2>4, SavedIsNew
    <3>3. RenewedToday' /\ LookedAtInTime'
      BY <2>1, <3>1, <3>2 DEF RenewedToday, LookedAtInTime
    <3> QED
      BY <1>0, <2>2, <3>1, <3>2, <3>3 DEF CertInv
  <2> QED
    BY <1>8, <2>3, <2>4 DEF CheckAndRenew
<1>9. CASE CertCrash
  <2>1. /\ UNCHANGED <<day, chain, expiry>> /\ CertIdle' /\ nextCheck' = 0
        /\ served' = NoCert
    BY <1>9 DEF CertCrash, CertIdle
  <2>2. served'.chain = 0 /\ served'.key = 0
    BY <2>1 DEF NoCert
  <2> QED
    BY <1>0, <2>1, <2>2 DEF CertInv, Issued, LoopKnows, RenewedToday, LookedAtInTime
<1>10. ASSUME NEW p \in CertPlaces, Request(p) PROVE CertInv'
  <2>1. SaveChain(p) /\ UNCHANGED <<nextCheck, excused, day, served>> /\ served = NoCert
    BY <1>10 DEF Request, SaveChain
  <2>2. ~CertIdle' /\ Issued'
    BY <2>1, SavedIsNew
  <2>3. nextCheck = 0
    BY <2>1 DEF CertInv, LoopKnows
  <2> QED
    BY <1>0, <2>1, <2>2, <2>3 DEF CertInv, LoopKnows, RenewedToday, LookedAtInTime
<1>11. CASE UNCHANGED certVars
  BY <1>0, <1>11
     DEF certVars, CertInv, Issued, LoopKnows, RenewedToday, LookedAtInTime, CertIdle
<1> QED
  BY <1>1, <1>2, <1>3, <1>4, <1>5, <1>6, <1>7, <1>8, <1>9, <1>10, <1>11 DEF CertNext

(***************************************************************************)
(* If checks come often enough, the certificate in use matches its key and *)
(* does not expire unless an order, a write or the process has failed      *)
(* (saveLetsEncryptCert, loadCertFromPath, checkAndRenew).                 *)
(***************************************************************************)
THEOREM ServedIsSound == ChecksOften => (CertSpec => []ServedCertificateSound)
<1>1. CertInit => CertInv
  <2> SUFFICES ASSUME CertInit PROVE CertInv
    OBVIOUS
  <2>1. CertTypeOK
    <3>1. FilesTyped
      BY CertBounds DEF CertInit, FilesTyped
    <3>2. ClocksTyped
      BY CertBounds DEF CertInit, ClocksTyped
    <3>3. 0 \in 0..MaxSerials
      BY CertBounds
    <3>4. ServedTyped /\ SavingTyped /\ excused \in BOOLEAN
      BY <3>3 DEF CertInit, ServedTyped, SavingTyped, NoCert, NotSaving
    <3> QED
      BY <3>1, <3>2, <3>4, CertTypes
  <2>2. /\ served.key = served.chain /\ served.chain = 0 /\ CertIdle /\ nextCheck = 0
        /\ \A p \in CertPlaces : chain[p] = 0
    BY DEF CertInit, NoCert, CertIdle
  <2> QED
    BY <2>1, <2>2 DEF CertInv, Issued, LoopKnows, RenewedToday, LookedAtInTime
<1>2. CertInv => ServedCertificateSound
  <2> SUFFICES ASSUME CertInv PROVE ServedCertificateSound
    OBVIOUS
  <2>1. served.key = served.chain
    BY DEF CertInv
  <2>2. ~excused /\ nextCheck # 0 /\ CertIdle /\ served # NoCert /\ served.chain = chain["app"]
          => day <= expiry[served.chain]
    BY CertNumbers DEF CertInv, LoopKnows, LookedAtInTime
  <2> QED
    BY <2>1, <2>2 DEF ServedCertificateSound
<1>3. ASSUME ChecksOften PROVE CertSpec => []ServedCertificateSound
  <2>1. CertInv /\ [CertNext]_certVars => CertInv'
    BY <1>3, CertStep
  <2> QED
    BY <1>1, <1>2, <2>1, PTL DEF CertSpec
<1> QED
  BY <1>3


(***************************************************************************)
(* The self-update, for any number of releases, installations and crashes. *)
(***************************************************************************)

Stages == {"idle", "checked", "chosen", "downloaded", "verified", "aside", "placed", "replaced"}
Renaming == {"aside", "placed"}

\* What install[a] and running[a] may be.
InstallRecord == [at : Stages, target : Nat, file : Nat, name : Names]
Process == [version : 0..latest, name : Names, linked : BOOLEAN]

UpdShape ==
  /\ latest \in 1..MaxVersion /\ eligible \in 1..latest
  /\ binary \in [Names -> 0..latest]
  /\ running \in [Agents -> Process]
  /\ install \in [Agents -> InstallRecord]
  /\ collided \in {"no", "checks", "renames"} /\ severed \in BOOLEAN

\* An update aims at a release that is out, for the server one past its defer window,
\* and what it has verified is that release.  <p>.old is a name as well.
AimsAtReleases ==
  \A a \in Agents :
    /\ install[a].at # "idle" => install[a].target \in 1..latest
    /\ a = "server" => install[a].target <= eligible
    /\ install[a].file \in {NoBinary, install[a].target, Corrupt}
    /\ install[a].at = "downloaded" => install[a].file # NoBinary
    /\ install[a].at \in {"verified", "aside", "placed", "replaced"}
         => install[a].file = install[a].target
    /\ install[a].at \in Renaming => install[a].name < MaxOld

\* While renames have not mixed: one update at most is between its first rename and the
\* removal of <p>.old; the old binary is set aside, or the new one in its place.
OneRenames ==
  collided # "renames" =>
    /\ \A a, b \in Agents : install[a].at \in Renaming /\ install[b].at \in Renaming => a = b
    /\ \A a \in Agents :
         /\ install[a].at = "aside" => binary[install[a].name + 1] # NoBinary
         /\ install[a].at = "placed" => binary[install[a].name] # NoBinary
    /\ \E n \in Names : binary[n] # NoBinary

\* While no installation was cut off either: they all work on the name of the executable,
\* which has a binary except between the two renames, and no other name has one but
\* <exe>.old until it is removed.
OnlyTheName ==
  collided # "renames" /\ ~severed =>
    /\ \A a \in Agents : install[a].at \in Renaming => install[a].name = 0
    /\ \A n \in Names \ {0} :
         binary[n] # NoBinary => n = 1 /\ \E a \in Agents : install[a].at \in Renaming
    /\ binary[0] = NoBinary <=> \E a \in Agents : install[a].at = "aside"

\* While installations have not overlapped, nothing older than what the server runs is
\* installed or set aside, and a command aims at nothing older than what is installed.
NothingOlder ==
  collided = "no" /\ ~severed =>
    /\ \A a, b \in Agents : Installing(a) /\ Installing(b) => a = b
    /\ binary[0] # NoBinary => binary[0] >= running["server"].version
    /\ \A a \in Agents :
         /\ install[a].at = "aside" => binary[1] >= running["server"].version
         /\ Installing(a) => install[a].target >= running["server"].version
         /\ install[a].at # "idle" /\ a = "command" => install[a].target >= binary[0]

UpdInv == UpdShape /\ AimsAtReleases /\ OneRenames /\ OnlyTheName /\ NothingOlder
-----------------------------------------------------------------------------
\* The bounds are numbers, and no release is corrupt.
LEMMA UpdBounds ==
  /\ MaxVersion \in Nat \ {0} /\ MaxOld \in Nat \ {0} /\ 0 \in Names /\ 1 \in Names
  /\ Corrupt \in Nat /\ (latest \in 1..MaxVersion => Corrupt > latest)
  /\ "server" \in Agents
BY SelfUpdateAssumption DEF Corrupt, Names, Agents

\* Where an update moves, and the other one stays.
LEMMA InstallMoves ==
  ASSUME UpdShape, NEW a \in Agents, NEW q \in InstallRecord,
         install' = [install EXCEPT ![a] = q]
  PROVE  /\ install' \in [Agents -> InstallRecord] /\ install'[a] = q
         /\ \A b \in Agents : b # a => install'[b] = install[b]
BY DEF UpdShape

\* What a step of an update makes of its record.
LEMMA InstallEdits ==
  ASSUME NEW i \in InstallRecord, NEW s \in Stages
  PROVE  /\ [i EXCEPT !.at = s] \in InstallRecord /\ [i EXCEPT !.at = s].at = s
         /\ [i EXCEPT !.at = s].target = i.target /\ [i EXCEPT !.at = s].file = i.file
         /\ [i EXCEPT !.at = s].name = i.name
BY DEF InstallRecord

\* An update that has not begun.
LEMMA NoInstall ==
  /\ NotInstalling \in InstallRecord /\ NotInstalling.at = "idle"
  /\ NotInstalling.file = NoBinary /\ NotInstalling.target = 0
BY UpdBounds DEF InstallRecord, NotInstalling, NoBinary, Stages

\* Where an update goes on to the stage s.
LEMMA InstallGoesOn ==
  ASSUME UpdShape, NEW a \in Agents, NEW s \in Stages, To(a, s)
  PROVE  /\ install' \in [Agents -> InstallRecord]
         /\ install'[a].at = s /\ install'[a].target = install[a].target
         /\ install'[a].file = install[a].file /\ install'[a].name = install[a].name
         /\ \A b \in Agents : b # a => install'[b] = install[b]
<1> DEFINE q == [install[a] EXCEPT !.at = s]
<1>1. install[a] \in InstallRecord /\ install' = [install EXCEPT ![a] = q]
  BY DEF UpdShape, To
<1>2. /\ q \in InstallRecord /\ q.at = s /\ q.target = install[a].target
      /\ q.file = install[a].file /\ q.name = install[a].name
  BY <1>1, InstallEdits
<1> HIDE DEF q
<1> QED
  BY <1>1, <1>2, InstallMoves

\* Where an update ends.
LEMMA InstallEnds ==
  ASSUME UpdShape, NEW a \in Agents, Stop(a)
  PROVE  /\ install' \in [Agents -> InstallRecord] /\ install'[a] = NotInstalling
         /\ \A b \in Agents : b # a => install'[b] = install[b]
BY NoInstall, InstallMoves DEF Stop

\* A rename moves a binary, and the images of its processes; the processes stay what
\* they are.
LEMMA RenameMoves ==
  ASSUME UpdShape, NEW m \in Names, NEW n \in Names, m # n, RenameFile(m, n)
  PROVE  /\ binary' \in [Names -> 0..latest] /\ binary'[n] = binary[m] /\ binary'[m] = NoBinary
         /\ \A k \in Names \ {m, n} : binary'[k] = binary[k]
         /\ running' \in [Agents -> Process]
         /\ \A a \in Agents : running'[a].version = running[a].version
<1>1. binary' = [binary EXCEPT ![n] = binary[m], ![m] = NoBinary]
      /\ running' = [a \in Agents |-> Moved(Unlinked(running[a], n), m, n)]
  BY DEF RenameFile
<1>2. binary \in [Names -> 0..latest] /\ NoBinary \in 0..latest
  BY UpdBounds DEF UpdShape, NoBinary
<1>3. ASSUME NEW r \in Process
      PROVE  /\ Moved(Unlinked(r, n), m, n) \in Process
             /\ Moved(Unlinked(r, n), m, n).version = r.version
  <2>1. Unlinked(r, n) \in Process /\ Unlinked(r, n).version = r.version
    BY DEF Unlinked, Process
  <2> DEFINE u == Unlinked(r, n)
  <2> HIDE DEF u
  <2>2. u \in Process => Moved(u, m, n) \in Process /\ Moved(u, m, n).version = u.version
    BY DEF Moved, Process
  <2> QED
    BY <2>1, <2>2 DEF u
<1>4. \A a \in Agents : running[a] \in Process
  BY DEF UpdShape
<1> QED
  BY <1>1, <1>2, <1>3, <1>4

\* So does a file that is given to a name, or a removal.
LEMMA OverwriteMoves ==
  ASSUME UpdShape, NEW n \in Names, NEW v \in 0..latest, Overwrite(n, v)
  PROVE  /\ binary' \in [Names -> 0..latest] /\ binary'[n] = v
         /\ \A k \in Names \ {n} : binary'[k] = binary[k]
         /\ running' \in [Agents -> Process]
         /\ \A a \in Agents : running'[a].version = running[a].version
<1>1. binary' = [binary EXCEPT ![n] = v]
      /\ running' = [a \in Agents |-> Unlinked(running[a], n)]
  BY DEF Overwrite
<1>2. \A r \in Process : Unlinked(r, n) \in Process /\ Unlinked(r, n).version = r.version
  BY DEF Unlinked, Process
<1>3. \A a \in Agents : running[a] \in Process
  BY DEF UpdShape
<1> QED
  BY <1>1, <1>2, <1>3 DEF UpdShape
-----------------------------------------------------------------------------
\* Outside the renames an update changes nothing of what the names hold.
LEMMA OnlyTheNameStays ==
  ASSUME OnlyTheName, UNCHANGED <<binary, severed>>, collided' # "renames" => collided # "renames",
         NEW a \in Agents, install[a].at \notin Renaming, install'[a].at \notin Renaming,
         \A b \in Agents : b # a => install'[b] = install[b]
  PROVE  OnlyTheName'
<1>1. SUFFICES ASSUME collided' # "renames", ~severed' PROVE OnlyTheName'
  BY DEF OnlyTheName
<1>2. /\ \A b \in Agents : install[b].at \in Renaming => install[b].name = 0
      /\ \A n \in Names \ {0} :
           binary[n] # NoBinary => n = 1 /\ \E b \in Agents : install[b].at \in Renaming
      /\ binary[0] = NoBinary <=> \E b \in Agents : install[b].at = "aside"
  BY <1>1 DEF OnlyTheName
<1>3. /\ install[a].at # "aside" /\ install'[a].at # "aside"
      /\ \A b \in Agents : install[b].at \in Renaming => b # a
  BY DEF Renaming
<1>4. (\E b \in Agents : install[b].at \in Renaming) => \E b \in Agents : install'[b].at \in Renaming
  BY <1>3
<1>5. (\E b \in Agents : install[b].at = "aside") <=> \E b \in Agents : install'[b].at = "aside"
  BY <1>3
<1>6. \A b \in Agents : install'[b].at \in Renaming => install'[b].name = 0
  BY <1>2
<1> QED
  BY <1>2, <1>4, <1>5, <1>6 DEF OnlyTheName

\* An update that is over before its first rename or after its last step.
LEMMA StopKeeps ==
  ASSUME UpdInv, NEW a \in Agents, Stop(a), install[a].at \notin Renaming,
         UNCHANGED <<latest, eligible, binary, running, collided, severed>>
  PROVE  UpdInv'
<1>0. UpdShape /\ AimsAtReleases /\ OneRenames /\ OnlyTheName /\ NothingOlder
  BY DEF UpdInv
<1>1. /\ install' \in [Agents -> InstallRecord] /\ install'[a] = NotInstalling
      /\ \A b \in Agents : b # a => install'[b] = install[b]
  BY <1>0, InstallEnds
<1>2. UpdShape'
  BY <1>0, <1>1 DEF UpdShape, Process
<1>3. AimsAtReleases'
  BY <1>0, <1>1, NoInstall DEF AimsAtReleases, UpdShape, Renaming
<1>4. OneRenames'
  BY <1>0, <1>1, NoInstall DEF OneRenames, Renaming
<1>5. OnlyTheName'
  BY <1>0, <1>1, NoInstall DEF OnlyTheName, Renaming
<1>6. NothingOlder'
  BY <1>0, <1>1, NoInstall DEF NothingOlder, Installing
<1> QED
  BY <1>2, <1>3, <1>4, <1>5, <1>6 DEF UpdInv

\* The world outside the updates: releases come and age, a command begins and ends.
LEMMA OutsideKeeps ==
  ASSUME UpdInv, Release \/ Age \/ EndCommand \/ StartCommand PROVE UpdInv'
<1>0. UpdShape /\ AimsAtReleases /\ OneRenames /\ OnlyTheName /\ NothingOlder
  BY DEF UpdInv
<1>1. /\ UNCHANGED <<binary, install, collided, severed>>
      /\ latest' \in 1..MaxVersion /\ latest' >= latest
      /\ eligible' \in 1..latest' /\ eligible' >= eligible
  BY <1>0, UpdBounds DEF Release, Age, EndCommand, StartCommand, UpdShape
<1>2. /\ running' \in [Agents -> Process] /\ running'["server"] = running["server"]
  <2>1. RunningFrom(0) \in Process /\ NotRunning \in Process
    BY <1>0, UpdBounds DEF RunningFrom, NotRunning, Process, UpdShape
  <2>2. \A r \in Process : /\ [running EXCEPT !["command"] = r] \in [Agents -> Process]
                           /\ [running EXCEPT !["command"] = r]["server"] = running["server"]
    BY <1>0, UpdBounds DEF UpdShape
  <2> QED
    BY <1>0, <2>1, <2>2 DEF Release, Age, EndCommand, StartCommand, UpdShape
<1>3. Process \in SUBSET Process'
  BY <1>0, <1>1 DEF Process, UpdShape
<1>4. UpdShape'
  BY <1>0, <1>1, <1>2, <1>3 DEF UpdShape
<1>5. AimsAtReleases'
  BY <1>0, <1>1 DEF AimsAtReleases, UpdShape, InstallRecord
<1>6. OneRenames' /\ OnlyTheName'
  BY <1>0, <1>1 DEF OneRenames, OnlyTheName
<1>7. NothingOlder'
  BY <1>0, <1>1, <1>2 DEF NothingOlder, Installing
<1> QED
  BY <1>4, <1>5, <1>6, <1>7 DEF UpdInv

\* The server is started from the executable.
LEMMA StartKeeps ==
  ASSUME UpdInv, StartServer PROVE UpdInv'
<1>0. UpdShape /\ AimsAtReleases /\ OneRenames /\ OnlyTheName /\ NothingOlder
  BY DEF UpdInv
<1>1. /\ binary[0] # NoBinary /\ ~Installing("server")
      /\ UNCHANGED <<latest, eligible, binary, install, collided, severed>>
  BY DEF StartServer
<1>2. running' \in [Agents -> Process] /\ running'["server"].version = binary[0]
  <2>1. RunningFrom(0) \in Process /\ RunningFrom(0).version = binary[0]
    BY <1>0, UpdBounds DEF RunningFrom, Process, UpdShape
  <2> QED
    BY <1>0, <2>1, UpdBounds DEF StartServer, UpdShape
<1>3. UpdShape' /\ AimsAtReleases' /\ OneRenames' /\ OnlyTheName'
  BY <1>0, <1>1, <1>2 DEF UpdShape, Process, AimsAtReleases, OneRenames, OnlyTheName
<1>4. ASSUME collided = "no", ~severed PROVE NothingOlder'
  <2>1. ASSUME NEW a \in Agents, install[a].at # "idle" PROVE a = "command"
    BY <1>1, <2>1 DEF Installing, Agents
  <2>2. binary[0] \in Nat
    BY <1>0, UpdBounds DEF UpdShape
  <2>3. \A a \in Agents : install[a].at # "aside"
    BY <1>0, <1>1, <1>4 DEF OnlyTheName
  <2>4. binary'[0] >= running'["server"].version
    BY <1>1, <1>2, <2>2
  <2> QED
    BY <1>0, <1>1, <1>2, <1>4, <2>1, <2>3, <2>4 DEF NothingOlder, Installing
<1> QED
  BY <1>1, <1>3, <1>4 DEF UpdInv, NothingOlder

\* Agents are killed: what they had set aside stays so, and severed remembers it.
LEMMA CrashKeeps ==
  ASSUME UpdInv, UpdCrash PROVE UpdInv'
<1>0. UpdShape /\ AimsAtReleases /\ OneRenames /\ OnlyTheName /\ NothingOlder
  BY DEF UpdInv
<1>1. UNCHANGED <<latest, eligible, binary, collided>>
  BY DEF UpdCrash
<1>2. PICK dead \in SUBSET Agents :
        /\ running' = [a \in Agents |-> IF a \in dead THEN NotRunning ELSE running[a]]
        /\ install' = [a \in Agents |-> IF a \in dead THEN NotInstalling ELSE install[a]]
        /\ severed' = (severed \/ \E a \in dead : install[a].at \in {"aside", "placed"})
  BY DEF UpdCrash
<1>3. \A a \in Agents : \/ a \in dead /\ install'[a] = NotInstalling /\ running'[a] = NotRunning
                        \/ a \notin dead /\ install'[a] = install[a] /\ running'[a] = running[a]
  BY <1>2
<1>4. UpdShape'
  <2>1. NotRunning \in Process
    BY <1>0, UpdBounds DEF NotRunning, Process, UpdShape
  <2> QED
    BY <1>0, <1>1, <1>2, <2>1, NoInstall DEF UpdShape, Process
<1>5. AimsAtReleases'
  BY <1>0, <1>1, <1>3, NoInstall DEF AimsAtReleases, UpdShape, Renaming
<1>6. OneRenames'
  BY <1>0, <1>1, <1>3, NoInstall DEF OneRenames, Renaming
<1>7. OnlyTheName'
  <2>1. SUFFICES ASSUME collided # "renames", ~severed' PROVE OnlyTheName'
    BY <1>1 DEF OnlyTheName
  <2>2. ~severed /\ \A a \in dead : install[a].at \notin Renaming
    BY <1>2, <2>1 DEF Renaming
  <2>3. \A a \in Agents : install[a].at \in Renaming => install'[a] = install[a]
    BY <1>3, <2>2
  <2>4. \A a \in Agents : install'[a].at \in Renaming => install'[a] = install[a]
    BY <1>3, NoInstall DEF Renaming
  <2> QED
    BY <1>0, <1>1, <2>1, <2>2, <2>3, <2>4 DEF OnlyTheName, Renaming
<1>8. NothingOlder'
  <2>1. NotRunning.version = 0
    BY DEF NotRunning
  <2>2. running["server"].version \in Nat /\ running'["server"].version \in Nat
        /\ running'["server"].version <= running["server"].version
    BY <1>0, <1>3, <2>1, UpdBounds DEF UpdShape, Process
  <2>3. ~severed' => ~severed
    BY <1>2
  <2>4. (\A n \in Names : binary[n] \in Nat) /\ \A a \in Agents : install[a].target \in Nat
    BY <1>0 DEF UpdShape, InstallRecord
  <2> QED
    BY <1>0, <1>1, <1>3, <2>2, <2>3, <2>4, NoInstall, UpdBounds DEF NothingOlder, Installing
<1> QED
  BY <1>4, <1>5, <1>6, <1>7, <1>8 DEF UpdInv

\* A check finds the release that its agent aims at.
LEMMA CheckKeeps ==
  ASSUME UpdInv, NEW a \in Agents, Check(a) PROVE UpdInv'
<1>0. UpdShape /\ AimsAtReleases /\ OneRenames /\ OnlyTheName /\ NothingOlder
  BY DEF UpdInv
<1>1. /\ UNCHANGED <<latest, eligible, binary, running, severed>>
      /\ install[a].at \in {"idle", "checked"}
  BY DEF Check, Installing
<1>2. CASE Chosen(a) = 0
  <2>1. Stop(a) /\ UNCHANGED collided
    BY <1>2 DEF Check, Overlap
  <2> QED
    BY <1>1, <2>1, StopKeeps DEF Renaming
<1>3. CASE Chosen(a) # 0
  <2>1. PICK s \in {"checked", "chosen"} :
          install' = [install EXCEPT ![a] =
            [at |-> s, target |-> Chosen(a), file |-> NoBinary, name |-> 0]]
    BY <1>3 DEF Check
  <2>2. /\ Chosen(a) \in 1..latest /\ Chosen(a) > running[a].version
        /\ a = "server" => Chosen(a) <= eligible
        /\ a = "command" => Chosen(a) = latest
    <3>1. running[a].version \in 0..latest
      BY <1>0 DEF UpdShape, Process
    <3> QED
      BY <1>0, <1>3, <3>1 DEF Chosen, UpdShape
  <2> DEFINE q == [at |-> s, target |-> Chosen(a), file |-> NoBinary, name |-> 0]
  <2>3. q \in InstallRecord /\ q.at = s /\ q.target = Chosen(a) /\ q.file = NoBinary
    BY <1>0, <2>2, UpdBounds DEF InstallRecord, Stages, NoBinary, UpdShape
  <2>4. /\ install' \in [Agents -> InstallRecord] /\ install'[a] = q
        /\ \A b \in Agents : b # a => install'[b] = install[b]
    <3> HIDE DEF q
    <3> QED
      BY <1>0, <2>1, <2>3, InstallMoves DEF q
  <2> HIDE DEF q
  <2>5. /\ collided' \in {"no", "checks", "renames"}
        /\ collided' = "renames" <=> collided = "renames"
        /\ collided' = "no" => collided = "no" /\ \A b \in Agents \ {a} : ~Installing(b)
    BY <1>0, <1>3 DEF Check, Overlap, UpdShape
  <2>6. UpdShape'
    BY <1>0, <1>1, <2>4, <2>5 DEF UpdShape, Process
  <2>7. AimsAtReleases'
    BY <1>0, <1>1, <2>2, <2>3, <2>4 DEF AimsAtReleases, Renaming
  <2>8. OneRenames'
    BY <1>0, <1>1, <2>3, <2>4, <2>5 DEF OneRenames, Renaming
  <2>9. OnlyTheName'
    <3>1. install[a].at \notin Renaming /\ install'[a].at \notin Renaming
      BY <1>1, <2>3, <2>4 DEF Renaming
    <3> QED
      BY <1>0, <1>1, <2>4, <2>5, <3>1, OnlyTheNameStays
  <2>10. NothingOlder'
    <3>1. SUFFICES ASSUME collided' = "no", ~severed' PROVE NothingOlder'
      BY DEF NothingOlder
    <3>2. \A b \in Agents : b # a => install'[b].at = "idle"
      BY <2>4, <2>5, <3>1 DEF Installing
    <3>3. binary[0] # NoBinary => binary[0] >= running["server"].version
      BY <1>0, <1>1, <2>5, <3>1 DEF NothingOlder
    <3>4. running["server"].version \in 0..latest /\ binary[0] \in 0..latest
      BY <1>0, UpdBounds DEF UpdShape, Process
    <3>5. Chosen(a) >= running["server"].version
      BY <1>0, <2>2, <3>4 DEF Agents, UpdShape
    <3>6. a = "command" => Chosen(a) >= binary[0]
      BY <1>0, <2>2, <3>4 DEF UpdShape
    <3> QED
      BY <1>1, <2>3, <2>4, <3>2, <3>3, <3>5, <3>6 DEF NothingOlder, Installing
  <2> QED
    BY <2>6, <2>7, <2>8, <2>9, <2>10 DEF UpdInv
<1> QED
  BY <1>2, <1>3

\* A download, its verification, and what os.Executable() says then.
LEMMA FetchKeeps ==
  ASSUME UpdInv, NEW a \in Agents, Download(a) \/ Verify(a) PROVE UpdInv'
<1>0. UpdShape /\ AimsAtReleases /\ OneRenames /\ OnlyTheName /\ NothingOlder
  BY DEF UpdInv
<1>1. /\ UNCHANGED <<latest, eligible, binary, running, collided, severed>>
      /\ install[a].at \in {"chosen", "downloaded"}
  BY DEF Download, Verify
<1>2. CASE Stop(a)
  BY <1>1, <1>2, StopKeeps DEF Renaming
<1>3. CASE ~Stop(a)
  <2>1. install[a] \in InstallRecord /\ install[a].target \in 1..latest
    BY <1>0, <1>1 DEF UpdShape, AimsAtReleases
  <2>2. PICK q \in InstallRecord :
          /\ install' = [install EXCEPT ![a] = q]
          /\ q.at \in {"downloaded", "verified"} /\ q.target = install[a].target
          /\ q.file \in {q.target, Corrupt}
          /\ q.at = "verified" => q.file = q.target
    <3>1. CASE Download(a)
      <4>1. PICK v \in {install[a].target, Corrupt} :
              install' = [install EXCEPT ![a].at = "downloaded", ![a].file = v]
        BY <1>3, <3>1 DEF Download
      <4> DEFINE q == [install[a] EXCEPT !.at = "downloaded", !.file = v]
      <4>2. install' = [install EXCEPT ![a] = q]
        BY <1>0, <2>1, <4>1 DEF UpdShape, InstallRecord
      <4>3. v \in Nat
        BY <1>0, <2>1, UpdBounds DEF UpdShape
      <4>4. /\ q \in InstallRecord /\ q.at = "downloaded" /\ q.target = install[a].target
            /\ q.file = v
        BY <2>1, <4>3 DEF InstallRecord, Stages
      <4> HIDE DEF q
      <4> QED
        BY <4>2, <4>4
    <3>2. CASE Verify(a)
      <4>1. /\ install[a].at = "downloaded" /\ install[a].file # Corrupt
            /\ install' = [install EXCEPT ![a].at = "verified", ![a].name = running[a].name]
        BY <1>3, <3>2 DEF Verify
      <4> DEFINE q == [install[a] EXCEPT !.at = "verified", !.name = running[a].name]
      <4>2. install' = [install EXCEPT ![a] = q]
        BY <1>0, <2>1, <4>1 DEF UpdShape, InstallRecord
      <4>3. running[a].name \in Names
        BY <1>0 DEF UpdShape, Process
      <4>4. /\ q \in InstallRecord /\ q.at = "verified" /\ q.target = install[a].target
            /\ q.file = install[a].file
        BY <2>1, <4>3 DEF InstallRecord, Stages
      <4> HIDE DEF q
      <4>5. install[a].file = install[a].target
        BY <1>0, <4>1, <2>1 DEF AimsAtReleases
      <4> QED
        BY <4>2, <4>4, <4>5
    <3> QED
      BY <3>1, <3>2
  <2>3. /\ install' \in [Agents -> InstallRecord] /\ install'[a] = q
        /\ \A b \in Agents : b # a => install'[b] = install[b]
    BY <1>0, <2>2, InstallMoves
  <2>4. UpdShape'
    BY <1>0, <1>1, <2>3 DEF UpdShape, Process
  <2>5. AimsAtReleases'
    BY <1>0, <1>1, <2>1, <2>2, <2>3, UpdBounds DEF AimsAtReleases, UpdShape, NoBinary, Renaming
  <2>6. OneRenames'
    BY <1>0, <1>1, <2>2, <2>3 DEF OneRenames, Renaming
  <2>7. OnlyTheName'
    <3>1. install[a].at \notin Renaming /\ install'[a].at \notin Renaming
      BY <1>1, <2>2, <2>3 DEF Renaming
    <3> QED
      BY <1>0, <1>1, <2>3, <3>1, OnlyTheNameStays
  <2>8. NothingOlder'
    BY <1>0, <1>1, <2>2, <2>3 DEF NothingOlder, Installing
  <2> QED
    BY <2>4, <2>5, <2>6, <2>7, <2>8 DEF UpdInv
<1> QED
  BY <1>2, <1>3

\* The executable is renamed to <p>.old.
LEMMA AsideKeeps ==
  ASSUME UpdInv, NEW a \in Agents, MoveAside(a) PROVE UpdInv'
<1> DEFINE p == install[a].name
<1>0. UpdShape /\ AimsAtReleases /\ OneRenames /\ OnlyTheName /\ NothingOlder
  BY DEF UpdInv
<1>1. /\ UNCHANGED <<latest, eligible, severed>> /\ install[a].at = "verified" /\ p < MaxOld
  BY DEF MoveAside
<1>2. CASE binary[p] = NoBinary
  BY <1>1, <1>2, StopKeeps DEF MoveAside, Renaming
<1>3. CASE binary[p] # NoBinary
  <2>1. RenameFile(p, p + 1) /\ To(a, "aside")
        /\ Overlap(IF \E b \in Agents \ {a} : install[b].at \in {"aside", "placed"}
                   THEN "renames" ELSE "no")
    BY <1>3 DEF MoveAside
  <2>2. p \in Names /\ p + 1 \in Names /\ p # p + 1 /\ install[a].target \in Nat
    BY <1>0, <1>1, UpdBounds DEF UpdShape, InstallRecord, Names
  <2>3. /\ install' \in [Agents -> InstallRecord]
        /\ install'[a].at = "aside" /\ install'[a].target = install[a].target
        /\ install'[a].file = install[a].file /\ install'[a].name = p
        /\ \A b \in Agents : b # a => install'[b] = install[b]
    BY <1>0, <2>1, InstallGoesOn DEF Stages
  <2>4. /\ binary' \in [Names -> 0..latest] /\ binary'[p + 1] = binary[p] /\ binary'[p] = NoBinary
        /\ \A k \in Names \ {p, p + 1} : binary'[k] = binary[k]
        /\ running' \in [Agents -> Process]
        /\ \A b \in Agents : running'[b].version = running[b].version
    <3> HIDE DEF p
    <3> QED
      BY <1>0, <2>1, <2>2, RenameMoves
  <2>5. /\ collided' \in {"no", "checks", "renames"} /\ collided' \in {collided, "renames"}
        /\ collided' # "renames" => \A b \in Agents \ {a} : install[b].at \notin Renaming
    BY <1>0, <2>1 DEF Overlap, UpdShape, Renaming
  <2> HIDE DEF p
  <2>6. UpdShape'
    BY <1>0, <1>1, <2>3, <2>4, <2>5 DEF UpdShape, Process
  <2>7. AimsAtReleases'
    BY <1>0, <1>1, <2>3 DEF AimsAtReleases, Renaming, p
  <2>8. OneRenames'
    <3>1. \A b \in Agents : install'[b].at = "placed" => b # a
      BY <2>3
    <3> QED
      BY <1>0, <1>1, <1>3, <2>2, <2>3, <2>4, <2>5, <3>1 DEF OneRenames, Renaming
  <2>9. collided' # "renames" /\ ~severed => p = 0 /\ \A b \in Agents : install[b].at \notin Renaming
    BY <1>0, <1>1, <1>3, <2>2, <2>5 DEF OnlyTheName, Renaming
  <2>10. OnlyTheName'
    <3>1. SUFFICES ASSUME collided' # "renames", ~severed' PROVE OnlyTheName'
      BY DEF OnlyTheName
    <3>2. collided # "renames" /\ ~severed /\ p = 0
      BY <1>1, <2>5, <2>9, <3>1
    <3>3. \A n \in Names \ {0} : binary[n] = NoBinary
      BY <1>0, <2>9, <3>1, <3>2 DEF OnlyTheName
    <3>4. \A n \in Names \ {0} : binary'[n] # NoBinary => n = 1
      BY <2>4, <3>2, <3>3
    <3>5. binary'[0] = NoBinary /\ install'[a].at = "aside"
      BY <2>3, <2>4, <3>2
    <3>6. \A b \in Agents : install'[b].at \in Renaming => install'[b].name = 0
      BY <2>3, <2>9, <3>1, <3>2
    <3> QED
      BY <3>4, <3>5, <3>6 DEF OnlyTheName, Renaming
  <2>11. NothingOlder'
    <3>1. SUFFICES ASSUME collided' = "no", ~severed' PROVE NothingOlder'
      BY DEF NothingOlder
    <3>2. collided = "no" /\ ~severed /\ p = 0 /\ \A b \in Agents : b # a => install[b].at = "idle"
      BY <1>0, <1>1, <2>5, <2>9, <3>1 DEF NothingOlder, Installing
    <3>3. binary'[1] >= running["server"].version /\ install[a].target >= running["server"].version
      BY <1>0, <1>1, <1>3, <2>4, <3>2 DEF NothingOlder, Installing
    <3>4. binary'[0] = NoBinary /\ install'[a].target >= binary'[0]
      BY <2>2, <2>3, <2>4, <3>2 DEF NoBinary
    <3>5. running'["server"].version = running["server"].version
      BY <2>4, UpdBounds
    <3> QED
      BY <2>3, <3>2, <3>3, <3>4, <3>5 DEF NothingOlder, Installing
  <2> QED
    BY <2>6, <2>7, <2>8, <2>10, <2>11 DEF UpdInv
<1> QED
  BY <1>2, <1>3

\* The second rename: the download stands under the name.
LEMMA PlacedKeeps ==
  ASSUME UpdInv, NEW a \in Agents, install[a].at = "aside",
         Overwrite(install[a].name, install[a].file), To(a, "placed"),
         UNCHANGED <<latest, eligible, collided, severed>>
  PROVE  UpdInv'
<1> DEFINE p == install[a].name
           v == install[a].file
<1>0. UpdShape /\ AimsAtReleases /\ OneRenames /\ OnlyTheName /\ NothingOlder
  BY DEF UpdInv
<1>1. p \in Names /\ v = install[a].target /\ v \in 1..latest /\ v # NoBinary
  BY <1>0 DEF UpdShape, InstallRecord, AimsAtReleases, NoBinary
<1>2. /\ install' \in [Agents -> InstallRecord]
      /\ install'[a].at = "placed" /\ install'[a].target = v
      /\ install'[a].file = v /\ install'[a].name = p
      /\ \A b \in Agents : b # a => install'[b] = install[b]
  BY <1>0, <1>1, InstallGoesOn DEF Stages
<1>3. /\ binary' \in [Names -> 0..latest] /\ binary'[p] = v
      /\ \A k \in Names \ {p} : binary'[k] = binary[k]
      /\ running' \in [Agents -> Process]
      /\ \A b \in Agents : running'[b].version = running[b].version
  <2>1. Overwrite(p, v) /\ v \in 0..latest
    BY <1>1
  <2> HIDE DEF p, v
  <2> QED
    BY <1>0, <1>1, <2>1, OverwriteMoves
<1> HIDE DEF p, v
<1>4. UpdShape'
  BY <1>0, <1>2, <1>3 DEF UpdShape, Process
<1>5. AimsAtReleases'
  BY <1>0, <1>1, <1>2 DEF AimsAtReleases, Renaming, p, v
<1>6. collided # "renames" => \A b \in Agents : b # a => install[b].at \notin Renaming
  BY <1>0 DEF OneRenames, Renaming
<1>7. OneRenames'
  BY <1>1, <1>2, <1>3, <1>6 DEF OneRenames, Renaming
<1>8. OnlyTheName'
  <2>1. SUFFICES ASSUME collided # "renames", ~severed PROVE OnlyTheName'
    BY DEF OnlyTheName
  <2>2. p = 0 /\ \A n \in Names \ {0} : binary[n] # NoBinary => n = 1
    BY <1>0, <2>1 DEF OnlyTheName, Renaming, p
  <2>3. \A b \in Agents : install'[b].at # "aside"
    BY <1>2, <1>6, <2>1 DEF Renaming
  <2>4. \A b \in Agents : install'[b].at \in Renaming => install'[b].name = 0
    BY <1>2, <1>6, <2>1, <2>2
  <2>5. install'[a].at \in Renaming /\ binary'[0] # NoBinary
    BY <1>1, <1>2, <1>3, <2>2 DEF Renaming
  <2>6. \A n \in Names \ {0} : binary'[n] # NoBinary => n = 1
    BY <1>3, <2>2
  <2> QED
    BY <2>3, <2>4, <2>5, <2>6 DEF OnlyTheName
<1>9. NothingOlder'
  <2>1. SUFFICES ASSUME collided = "no", ~severed PROVE NothingOlder'
    BY DEF NothingOlder
  <2>2. p = 0 /\ (\A b \in Agents : b # a => install[b].at = "idle") /\ v >= running["server"].version
    BY <1>0, <1>1, <2>1 DEF NothingOlder, OnlyTheName, Installing, Renaming, p
  <2>3. v \in Nat /\ running'["server"].version = running["server"].version
    BY <1>0, <1>1, <1>3, UpdBounds DEF UpdShape
  <2> QED
    BY <1>2, <1>3, <2>2, <2>3 DEF NothingOlder, Installing
<1> QED
  BY <1>4, <1>5, <1>7, <1>8, <1>9 DEF UpdInv

\* The second rename has failed, and the old binary is renamed back.
LEMMA RestoredKeeps ==
  ASSUME UpdInv, NEW a \in Agents, install[a].at = "aside", Stop(a),
         IF binary[install[a].name + 1] # NoBinary
         THEN RenameFile(install[a].name + 1, install[a].name)
         ELSE UNCHANGED <<binary, running>>,
         UNCHANGED <<latest, eligible, collided, severed>>
  PROVE  UpdInv'
<1> DEFINE p == install[a].name
<1>0. UpdShape /\ AimsAtReleases /\ OneRenames /\ OnlyTheName /\ NothingOlder
  BY DEF UpdInv
<1>1. /\ install' \in [Agents -> InstallRecord] /\ install'[a] = NotInstalling
      /\ \A b \in Agents : b # a => install'[b] = install[b]
  BY <1>0, InstallEnds
<1>2. AimsAtReleases'
  BY <1>0, <1>1, NoInstall DEF AimsAtReleases, UpdShape, Renaming
<1>3. CASE binary[p + 1] = NoBinary
  <2>1. UNCHANGED <<binary, running>> /\ collided = "renames"
    BY <1>0, <1>3 DEF OneRenames
  <2> QED
    BY <1>0, <1>1, <1>2, <2>1
       DEF UpdInv, UpdShape, Process, OneRenames, OnlyTheName, NothingOlder
<1>4. ASSUME binary[p + 1] # NoBinary, p + 1 \in Names PROVE UpdInv'
  <2>1. p \in Names /\ p # p + 1 /\ RenameFile(p + 1, p) /\ p \in Nat
    BY <1>0, <1>4, UpdBounds DEF UpdShape, InstallRecord, Names
  <2>2. /\ binary' \in [Names -> 0..latest] /\ binary'[p] = binary[p + 1]
        /\ binary'[p + 1] = NoBinary
        /\ \A k \in Names \ {p + 1, p} : binary'[k] = binary[k]
        /\ running' \in [Agents -> Process]
        /\ \A b \in Agents : running'[b].version = running[b].version
    <3> HIDE DEF p
    <3> QED
      BY <1>0, <1>4, <2>1, RenameMoves
  <2>3. UpdShape'
    BY <1>0, <1>1, <2>2 DEF UpdShape, Process
  <2>4. collided # "renames" =>
          \A b \in Agents : install[b].at \notin Renaming \/ b = a
    BY <1>0 DEF OneRenames, Renaming
  <2>5. collided # "renames" => \A b \in Agents : install'[b].at \notin Renaming
    BY <1>1, <2>4, NoInstall DEF Renaming
  <2> HIDE DEF p
  <2>6. OneRenames'
    BY <1>4, <2>1, <2>2, <2>5 DEF OneRenames, Renaming
  <2>7. collided # "renames" /\ ~severed =>
          p = 0 /\ \A n \in Names \ {0} : binary[n] # NoBinary => n = 1
    BY <1>0 DEF OnlyTheName, Renaming, p
  <2>8. OnlyTheName'
    <3>1. SUFFICES ASSUME collided # "renames", ~severed PROVE OnlyTheName'
      BY DEF OnlyTheName
    <3>2. p = 0 /\ binary'[0] # NoBinary /\ binary'[1] = NoBinary
      BY <1>4, <2>2, <2>7, <3>1
    <3>3. \A n \in Names \ {0} : binary'[n] = NoBinary
      BY <2>2, <2>7, <3>1, <3>2
    <3> QED
      BY <2>5, <3>1, <3>2, <3>3 DEF OnlyTheName, Renaming
  <2>9. NothingOlder'
    <3>1. SUFFICES ASSUME collided = "no", ~severed PROVE NothingOlder'
      BY DEF NothingOlder
    <3>2. p = 0 /\ binary[1] >= running["server"].version
          /\ \A b \in Agents : b # a => install[b].at = "idle"
      BY <1>0, <2>7, <3>1 DEF NothingOlder, Installing
    <3>3. binary'[0] >= running'["server"].version
      BY <2>2, <3>2, UpdBounds
    <3>4. \A b \in Agents : install'[b].at = "idle"
      BY <1>1, <3>2, NoInstall
    <3> QED
      BY <3>3, <3>4 DEF NothingOlder, Installing
  <2> QED
    BY <1>2, <2>3, <2>6, <2>8, <2>9 DEF UpdInv
<1>5. p + 1 \in Names
  BY <1>0, UpdBounds DEF AimsAtReleases, Renaming, UpdShape, InstallRecord, Names
<1> QED
  BY <1>3, <1>4, <1>5

\* Chmod has failed, and <p>.old stays: the installation is cut off.
LEMMA LeftKeeps ==
  ASSUME UpdInv, NEW a \in Agents, install[a].at = "placed", Stop(a), severed' = TRUE,
         UNCHANGED <<latest, eligible, binary, running, collided>>
  PROVE  UpdInv'
<1>0. UpdShape /\ AimsAtReleases /\ OneRenames
  BY DEF UpdInv
<1>1. /\ install' \in [Agents -> InstallRecord] /\ install'[a] = NotInstalling
      /\ \A b \in Agents : b # a => install'[b] = install[b]
  BY <1>0, InstallEnds
<1>2. UpdShape'
  BY <1>0, <1>1 DEF UpdShape, Process
<1>3. AimsAtReleases'
  BY <1>0, <1>1, NoInstall DEF AimsAtReleases, UpdShape, Renaming
<1>4. OneRenames'
  BY <1>0, <1>1, NoInstall DEF OneRenames, Renaming
<1> QED
  BY <1>2, <1>3, <1>4 DEF UpdInv, OnlyTheName, NothingOlder

\* <p>.old is removed.
LEMMA TidiedKeeps ==
  ASSUME UpdInv, NEW a \in Agents, install[a].at = "placed", binary[install[a].name] # NoBinary,
         Overwrite(install[a].name + 1, NoBinary), To(a, "replaced"),
         UNCHANGED <<latest, eligible, collided, severed>>
  PROVE  UpdInv'
<1> DEFINE p == install[a].name
<1>0. UpdShape /\ AimsAtReleases /\ OneRenames /\ OnlyTheName /\ NothingOlder
  BY DEF UpdInv
<1>1. p \in Names /\ p \in Nat /\ p + 1 \in Names /\ NoBinary \in 0..latest
  BY <1>0, UpdBounds DEF AimsAtReleases, Renaming, UpdShape, InstallRecord, Names, NoBinary
<1>2. /\ install' \in [Agents -> InstallRecord]
      /\ install'[a].at = "replaced" /\ install'[a].target = install[a].target
      /\ install'[a].file = install[a].file /\ install'[a].name = p
      /\ \A b \in Agents : b # a => install'[b] = install[b]
  BY <1>0, InstallGoesOn DEF Stages
<1>3. /\ binary' \in [Names -> 0..latest] /\ binary'[p + 1] = NoBinary
      /\ \A k \in Names \ {p + 1} : binary'[k] = binary[k]
      /\ running' \in [Agents -> Process]
      /\ \A b \in Agents : running'[b].version = running[b].version
  <2>1. Overwrite(p + 1, NoBinary)
    OBVIOUS
  <2> HIDE DEF p
  <2> QED
    BY <1>0, <1>1, <2>1, OverwriteMoves
<1>4. binary'[p] = binary[p] /\ binary[p] # NoBinary
  BY <1>1, <1>3
<1> HIDE DEF p
<1>5. UpdShape'
  BY <1>0, <1>2, <1>3 DEF UpdShape, Process
<1>6. AimsAtReleases'
  BY <1>0, <1>1, <1>2 DEF AimsAtReleases, Renaming, p
<1>7. collided # "renames" => \A b \in Agents : install'[b].at \notin Renaming
  BY <1>0, <1>2 DEF OneRenames, Renaming
<1>8. OneRenames'
  BY <1>1, <1>4, <1>7 DEF OneRenames, Renaming
<1>9. collided # "renames" /\ ~severed =>
        p = 0 /\ \A n \in Names \ {0} : binary[n] # NoBinary => n = 1
  BY <1>0 DEF OnlyTheName, Renaming, p
<1>10. OnlyTheName'
  <2>1. SUFFICES ASSUME collided # "renames", ~severed PROVE OnlyTheName'
    BY DEF OnlyTheName
  <2>2. binary'[0] # NoBinary /\ \A n \in Names \ {0} : binary'[n] = NoBinary
    BY <1>3, <1>4, <1>9, <2>1
  <2> QED
    BY <1>7, <2>1, <2>2 DEF OnlyTheName, Renaming
<1>11. NothingOlder'
  <2>1. SUFFICES ASSUME collided = "no", ~severed PROVE NothingOlder'
    BY DEF NothingOlder
  <2>2. p = 0 /\ (\A b \in Agents : b # a => install[b].at = "idle")
        /\ binary[0] >= running["server"].version
        /\ install[a].target >= running["server"].version
        /\ (a = "command" => install[a].target >= binary[0])
    BY <1>0, <1>4, <1>9, <2>1 DEF NothingOlder, Installing
  <2>3. binary'[0] = binary[0] /\ running'["server"].version = running["server"].version
    BY <1>3, <1>4, <2>2, UpdBounds
  <2> QED
    BY <1>2, <2>2, <2>3 DEF NothingOlder, Installing
<1> QED
  BY <1>5, <1>6, <1>8, <1>10, <1>11 DEF UpdInv

\* The installation is over, and the process executes the file that its image's name
\* denotes now, if there is one.
LEMMA RestartKeeps ==
  ASSUME UpdInv, NEW a \in Agents, Restart(a) PROVE UpdInv'
<1> DEFINE n == running[a].name
<1>0. UpdShape /\ AimsAtReleases /\ OneRenames /\ OnlyTheName /\ NothingOlder
  BY DEF UpdInv
<1>1. /\ install[a].at = "replaced" /\ Stop(a)
      /\ UNCHANGED <<latest, eligible, binary, collided, severed>>
  BY DEF Restart
<1>2. CASE binary[n] = NoBinary
  BY <1>1, <1>2, StopKeeps DEF Restart, Renaming
<1>3. CASE binary[n] # NoBinary
  <2>1. n \in Names /\ running' = [running EXCEPT ![a] = RunningFrom(n)]
    BY <1>0, <1>3 DEF Restart, UpdShape, Process
  <2> HIDE DEF n
  <2>2. RunningFrom(n) \in Process /\ RunningFrom(n).version = binary[n]
    BY <1>0, <2>1 DEF RunningFrom, Process, UpdShape
  <2>3. /\ running' \in [Agents -> Process] /\ running'[a].version = binary[n]
        /\ \A b \in Agents : b # a => running'[b] = running[b]
    BY <1>0, <2>1, <2>2 DEF UpdShape
  <2>4. /\ install' \in [Agents -> InstallRecord] /\ install'[a] = NotInstalling
        /\ \A b \in Agents : b # a => install'[b] = install[b]
    BY <1>0, <1>1, InstallEnds
  <2>5. UpdShape'
    BY <1>0, <1>1, <2>3, <2>4 DEF UpdShape, Process
  <2>6. AimsAtReleases'
    BY <1>0, <1>1, <2>4, NoInstall DEF AimsAtReleases, UpdShape, Renaming
  <2>7. install[a].at \notin Renaming /\ install'[a].at \notin Renaming
    BY <1>1, <2>4, NoInstall DEF Renaming
  <2>8. OneRenames'
    BY <1>0, <1>1, <2>4, <2>7 DEF OneRenames, Renaming
  <2>9. OnlyTheName'
    BY <1>0, <1>1, <2>4, <2>7, OnlyTheNameStays
  <2>10. NothingOlder'
    <3>1. SUFFICES ASSUME collided = "no", ~severed PROVE NothingOlder'
      BY <1>1 DEF NothingOlder
    <3>2. \A b \in Agents : b # a => install[b].at = "idle"
      BY <1>0, <1>1, <3>1 DEF NothingOlder, Installing
    <3>3. \A b \in Agents : install[b].at \notin Renaming /\ install'[b].at = "idle"
      BY <1>1, <2>4, <3>2, NoInstall DEF Renaming
    <3>4. n = 0 /\ binary[0] >= running["server"].version
      BY <1>0, <1>3, <2>1, <3>1, <3>3 DEF OnlyTheName, NothingOlder, n
    <3>5. binary[0] >= running'["server"].version
      <4>1. binary[0] \in Nat
        BY <1>0, UpdBounds DEF UpdShape
      <4>2. a = "server" => running'["server"].version = binary[0]
        BY <2>3, <3>4
      <4>3. a # "server" => running'["server"] = running["server"]
        BY <2>3, UpdBounds
      <4> QED
        BY <3>4, <4>1, <4>2, <4>3
    <3> QED
      BY <1>1, <3>3, <3>5 DEF NothingOlder, Installing
  <2> QED
    BY <2>5, <2>6, <2>8, <2>9, <2>10 DEF UpdInv
<1> QED
  BY <1>2, <1>3

(***************************************************************************)
(* What stands under a name of the executable was verified, and the        *)
(* self-update never leaves the system without a usable binary, as long as *)
(* the renames of two installations have not mixed; unless one is cut off, *)
(* it has the executable's name, or <exe>.old between the renames.  It     *)
(* never goes back behind what the server runs or ahead of the defer       *)
(* window (replaceBinary, CheckForUpdatesScheduled).                       *)
(***************************************************************************)
THEOREM UpdateIsSound == UpdSpec => []InstallationsSound
<1>1. UpdInit => UpdInv
  <2> SUFFICES ASSUME UpdInit PROVE UpdInv
    OBVIOUS
  <2>1. install \in [Agents -> InstallRecord] /\ \A a \in Agents : install[a] = NotInstalling
    BY NoInstall DEF UpdInit
  <2>2. latest = 1 /\ eligible = 1 /\ collided = "no" /\ severed = FALSE
    BY DEF UpdInit
  <2>3. /\ binary \in [Names -> 0..latest] /\ binary[0] = 1
        /\ \A n \in Names \ {0} : binary[n] = NoBinary
    BY <2>2, UpdBounds DEF UpdInit, NoBinary
  <2>4. running \in [Agents -> Process] /\ running["server"].version = 1
    <3>1. RunningFrom(0) \in Process /\ RunningFrom(0).version = 1 /\ NotRunning \in Process
      BY <2>2, <2>3, UpdBounds DEF RunningFrom, NotRunning, Process
    <3>2. running = [a \in Agents |-> IF a = "server" THEN RunningFrom(0) ELSE NotRunning]
      BY DEF UpdInit
    <3>3. running["server"] = RunningFrom(0)
      BY <3>2, UpdBounds
    <3>4. running \in [Agents -> Process]
      BY <3>1, <3>2
    <3> QED
      BY <3>1, <3>3, <3>4
  <2>5. UpdShape
    <3>1. latest \in 1..MaxVersion /\ eligible \in 1..latest
      BY <2>2, UpdBounds
    <3> QED
      BY <2>1, <2>2, <2>3, <2>4, <3>1 DEF UpdShape
  <2>6. AimsAtReleases
    BY <2>1, <2>2, NoInstall DEF AimsAtReleases, Renaming
  <2>7. OneRenames
    BY <2>1, <2>3, NoInstall, UpdBounds DEF OneRenames, Renaming, NoBinary
  <2>8. OnlyTheName
    BY <2>1, <2>3, NoInstall DEF OnlyTheName, Renaming, NoBinary
  <2>9. NothingOlder
    BY <2>1, <2>3, <2>4, NoInstall DEF NothingOlder, Installing
  <2> QED
    BY <2>5, <2>6, <2>7, <2>8, <2>9 DEF UpdInv
<1>2. UpdInv /\ [UpdNext]_updVars => UpdInv'
  <2> SUFFICES ASSUME UpdInv, [UpdNext]_updVars PROVE UpdInv'
    OBVIOUS
  <2>1. CASE Release \/ Age \/ EndCommand \/ StartCommand
    BY <2>1, OutsideKeeps
  <2>2. CASE StartServer
    BY <2>2, StartKeeps
  <2>3. CASE UpdCrash
    BY <2>3, CrashKeeps
  <2>4. ASSUME NEW a \in Agents, Place(a) PROVE UpdInv'
    BY <2>4, PlacedKeeps, RestoredKeeps DEF Place
  <2>5. ASSUME NEW a \in Agents, Tidy(a) PROVE UpdInv'
    BY <2>5, LeftKeeps, TidiedKeeps DEF Tidy
  <2>6. ASSUME NEW a \in Agents, Check(a) \/ InstallStep(a) PROVE UpdInv'
    BY <2>4, <2>5, <2>6, CheckKeeps, FetchKeeps, AsideKeeps, RestartKeeps DEF InstallStep
  <2>7. CASE UNCHANGED updVars
    BY <2>7 DEF updVars, UpdInv, UpdShape, Process, AimsAtReleases, OneRenames, OnlyTheName,
                NothingOlder, Installing
  <2> QED
    BY <2>1, <2>2, <2>3, <2>6, <2>7 DEF UpdNext
<1>3. UpdInv => InstallationsSound
  <2> SUFFICES ASSUME UpdInv PROVE InstallationsSound
    OBVIOUS
  <2>1. UpdShape /\ AimsAtReleases /\ OneRenames /\ OnlyTheName /\ NothingOlder
    BY DEF UpdInv
  <2>2. \A n \in Names : binary[n] # Corrupt
    BY <2>1, UpdBounds DEF UpdShape
  <2>3. install["server"].file \in 0..eligible \cup {Corrupt}
    <3>1. install["server"].target \in 0..eligible
      BY <2>1, UpdBounds DEF AimsAtReleases, UpdShape, InstallRecord
    <3> QED
      BY <2>1, <3>1, UpdBounds DEF AimsAtReleases, UpdShape, NoBinary
  <2>4. collided # "renames" => \E n \in Names : binary[n] # NoBinary
    BY <2>1 DEF OneRenames
  <2>5. ASSUME collided # "renames", ~severed
        PROVE  IF \E a \in Agents : install[a].at = "aside"
               THEN binary[1] # NoBinary
               ELSE binary[0] # NoBinary
    <3>1. ASSUME NEW a \in Agents, install[a].at = "aside" PROVE binary[1] # NoBinary
      <4>1. install[a].name = 0 /\ binary[install[a].name + 1] # NoBinary
        BY <2>1, <2>5, <3>1 DEF OneRenames, OnlyTheName, Renaming
      <4> QED
        BY <4>1
    <3> QED
      BY <2>1, <2>5, <3>1 DEF OnlyTheName
  <2> QED
    BY <2>1, <2>2, <2>3, <2>4, <2>5 DEF InstallationsSound, NothingOlder
<1> QED
  BY <1>1, <1>2, <1>3, PTL DEF UpdSpec
=============================================================================
