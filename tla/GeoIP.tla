-------------------------------- MODULE GeoIP --------------------------------
(***************************************************************************)
(* The country and network databases (src/src/geoip).  A download goes to  *)
(* a private temporary file; the scheduled update moves it to <file>.tmp   *)
(* and then to its name, collecting the errors of each file instead of     *)
(* stopping.  Readers keep the database they have when a load fails.       *)
(***************************************************************************)
EXTENDS Naturals, FiniteSets

CONSTANTS
  Databases,       \* the enabled files of geoipDownloadList
  GeoUpdaters,     \* calls of UpdateDatabases that may be under way together
  MaxGeoReleases,  \* bound: versions of the databases
  MaxGeoUpdates,   \* bound: calls of UpdateDatabases
  MaxGeoRestarts   \* bound: restarts

ASSUME GeoAssumption ==
  /\ IsFiniteSet(Databases) /\ IsFiniteSet(GeoUpdaters)
  /\ MaxGeoReleases \in Nat \ {0}
  /\ MaxGeoUpdates \in Nat /\ MaxGeoRestarts \in Nat

VARIABLES
  released,   \* the version the CDN serves
  geoTmp,     \* geoTmp[d]: the version of <d>.tmp, 0 if there is none
  geoDisk,    \* geoDisk[d]: the version of <d>, or 0
  reader,     \* reader[d]: the version the open reader serves, 0 for nil
  geoUpdate,  \* geoUpdate[u]: the files still to do, and the one in <d>.tmp
  ensuring,   \* files ensureDatabases has still to look at
  serving,    \* NewGeoIPManager has returned
  geoUpdates, geoRestarts

geoVars == <<released, geoTmp, geoDisk, reader, geoUpdate, ensuring, serving,
             geoUpdates, geoRestarts>>

NoDatabase == ""
AtRest == [busy |-> FALSE, todo |-> {}, moving |-> NoDatabase]

\* loadDatabases keeps the reader of a file that is missing or does not open.
ReaderAfter(d, opens) == IF geoDisk[d] # 0 /\ opens THEN geoDisk[d] ELSE reader[d]

loadDatabases == \E bad \in SUBSET Databases :
  reader' = [d \in Databases |-> ReaderAfter(d, d \notin bad)]
-----------------------------------------------------------------------------
GeoInit ==
  /\ released = 1
  /\ geoTmp = [d \in Databases |-> 0]
  /\ geoDisk = [d \in Databases |-> 0]
  /\ reader = [d \in Databases |-> 0]
  /\ geoUpdate = [u \in GeoUpdaters |-> AtRest]
  /\ ensuring = Databases /\ serving = FALSE
  /\ geoUpdates = 0 /\ geoRestarts = 0

GeoRelease ==
  /\ released < MaxGeoReleases
  /\ released' = released + 1
  /\ UNCHANGED <<geoTmp, geoDisk, reader, geoUpdate, ensuring, serving, geoUpdates, geoRestarts>>

\* NewGeoIPManager: ensureDatabases downloads what is missing, file by file, and
\* only warns of what fails; then the databases are loaded.
GeoEnsure(d) ==
  /\ d \in ensuring
  /\ ensuring' = ensuring \ {d}
  /\ geoDisk' \in IF geoDisk[d] # 0 THEN {geoDisk} ELSE {geoDisk, [geoDisk EXCEPT ![d] = released]}
  /\ UNCHANGED <<released, geoTmp, reader, geoUpdate, serving, geoUpdates, geoRestarts>>

GeoOpen ==
  /\ ~serving /\ ensuring = {}
  /\ loadDatabases
  /\ serving' = TRUE
  /\ UNCHANGED <<released, geoTmp, geoDisk, geoUpdate, ensuring, geoUpdates, geoRestarts>>

\* The process ends at any point and starts again.
GeoRestart ==
  /\ geoRestarts < MaxGeoRestarts
  /\ geoRestarts' = geoRestarts + 1
  /\ geoUpdate' = [u \in GeoUpdaters |-> AtRest]
  /\ reader' = [d \in Databases |-> 0]
  /\ ensuring' = Databases /\ serving' = FALSE
  /\ UNCHANGED <<released, geoTmp, geoDisk, geoUpdates>>

BeginGeoUpdate(u) ==
  /\ serving /\ ~geoUpdate[u].busy
  /\ geoUpdates < MaxGeoUpdates
  /\ geoUpdates' = geoUpdates + 1
  /\ geoUpdate' = [geoUpdate EXCEPT ![u] = [AtRest EXCEPT !.busy = TRUE, !.todo = Databases]]
  /\ UNCHANGED <<released, geoTmp, geoDisk, reader, ensuring, serving, geoRestarts>>

\* downloadDatabase: the file is complete before it is renamed to <d>.tmp.
GeoDownload(u, d) ==
  /\ geoUpdate[u].moving = NoDatabase /\ d \in geoUpdate[u].todo
  /\ \/ /\ geoTmp' = [geoTmp EXCEPT ![d] = released]
        /\ geoUpdate' = [geoUpdate EXCEPT ![u].moving = d, ![u].todo = @ \ {d}]
     \/ /\ geoUpdate' = [geoUpdate EXCEPT ![u].todo = @ \ {d}]
        /\ UNCHANGED geoTmp
  /\ UNCHANGED <<released, geoDisk, reader, ensuring, serving, geoUpdates, geoRestarts>>

\* The old file is removed first, and nothing notices that <d>.tmp has gone.
MutantGeoMove(u) ==
  LET d == geoUpdate[u].moving IN
  /\ d # NoDatabase
  /\ geoDisk' = [geoDisk EXCEPT ![d] = geoTmp[d]]
  /\ geoTmp' = [geoTmp EXCEPT ![d] = 0]
  /\ geoUpdate' = [geoUpdate EXCEPT ![u].moving = NoDatabase]
  /\ UNCHANGED <<released, reader, ensuring, serving, geoUpdates, geoRestarts>>

\* os.Rename(tmpPath, dbPath): without a file (another update has moved it), or
\* for another reason, it fails and removes the temporary file.
GeoMove(u) ==
  LET d == geoUpdate[u].moving IN
  /\ d # NoDatabase
  /\ \/ geoTmp[d] # 0 /\ geoDisk' = [geoDisk EXCEPT ![d] = geoTmp[d]]
     \/ UNCHANGED geoDisk
  /\ geoUpdate' = [geoUpdate EXCEPT ![u].moving = NoDatabase]
  /\ geoTmp' = [geoTmp EXCEPT ![d] = 0]
  /\ UNCHANGED <<released, reader, ensuring, serving, geoUpdates, geoRestarts>>

\* The databases are reloaded whatever failed.
FinishGeoUpdate(u) ==
  /\ geoUpdate[u].busy /\ geoUpdate[u].todo = {} /\ geoUpdate[u].moving = NoDatabase
  /\ loadDatabases
  /\ geoUpdate' = [geoUpdate EXCEPT ![u] = AtRest]
  /\ UNCHANGED <<released, geoTmp, geoDisk, ensuring, serving, geoUpdates, geoRestarts>>

GeoNext ==
  \/ GeoRelease
  \/ GeoOpen
  \/ GeoRestart
  \/ \E d \in Databases : GeoEnsure(d)
  \/ \E u \in GeoUpdaters :
       \/ BeginGeoUpdate(u) \/ GeoMove(u) \/ FinishGeoUpdate(u)
       \/ \E d \in Databases : GeoDownload(u, d)

GeoSpec == GeoInit /\ [][GeoNext]_geoVars
-----------------------------------------------------------------------------
GeoTypeOK ==
  /\ released \in 1..MaxGeoReleases
  /\ geoTmp \in [Databases -> 0..MaxGeoReleases]
  /\ geoDisk \in [Databases -> 0..MaxGeoReleases]
  /\ reader \in [Databases -> 0..MaxGeoReleases]
  /\ geoUpdate \in [GeoUpdaters -> [busy : BOOLEAN, todo : SUBSET Databases,
                                    moving : Databases \cup {NoDatabase}]]
  /\ ensuring \subseteq Databases /\ serving \in BOOLEAN
  /\ geoUpdates \in 0..MaxGeoUpdates /\ geoRestarts \in 0..MaxGeoRestarts

\* UpdateDatabases "Replace old database atomically": also when updates overlap,
\* which share <d>.tmp, a database on disk is complete, and readers serve what was.
Geo == INSTANCE PublishedFiles WITH
  Files <- Databases, Versions <- 1..MaxGeoReleases,
  disk <- geoDisk, memory <- reader, shared <- FALSE
GeoKeepsItsPromise == Geo!Spec
=============================================================================
