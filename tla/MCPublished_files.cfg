SPECIFICATION PublishedSpec
CONSTANTS
  LoadOrder <- MCLoadOrder
  RdapInodes <- MCInodes
  Updaters = {u1, u2}
  MaxPublished = 2
  MaxUpdates = 3
  MaxRdapCrashes = 1
  Databases <- MCDatabases
  GeoUpdaters = {g1, g2}
  MaxGeoReleases = 2
  MaxGeoUpdates = 3
  MaxGeoRestarts = 1
  AutoInstall = TRUE
  MaxVersion = 3
  MaxOld = 3
  MaxInstalls = 4
  MaxUpdateCrashes = 1
  Lifetime = 2
  RenewBefore = 1
  CheckEvery = 1
  CertTime = 6
  MaxSerials = 3
  MaxCertCrashes = 1
CHECK_DEADLOCK FALSE
INVARIANT DestIsWhole
INVARIANT InstallationsSound
INVARIANT ServedCertificateSound
PROPERTY RdapKeepsItsPromise
PROPERTY UpdatesReturn
PROPERTY GeoKeepsItsPromise
