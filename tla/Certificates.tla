----------------------------- MODULE Certificates -----------------------------
(***************************************************************************)
(* The certificate manager (src/src/ssl/ssl.go).  Certificates are looked  *)
(* for in four places, written by others (certbot, an operator), by the    *)
(* manager's ACME client, or by its self-signing; each is two files.  A    *)
(* key pair is known by a serial; both files of a place are read together. *)
(***************************************************************************)
EXTENDS Naturals, Sequences, FiniteSetsExt

CONSTANTS
  Lifetime,        \* how long a certificate is valid
  RenewBefore,     \* cm.renewalThreshold
  CheckEvery,      \* cm.renewalCheckInterval
  CertTime,        \* bound: the clock
  MaxSerials,      \* bound: key pairs issued
  MaxCertCrashes   \* bound: crashes

ASSUME CertAssumption ==
  /\ Lifetime \in Nat \ {0} /\ RenewBefore \in Nat
  /\ CheckEvery \in Nat \ {0}
  /\ CertTime \in Nat /\ MaxSerials \in Nat /\ MaxCertCrashes \in Nat

\* LoadCertificate looks in this order.
CertOrder == <<"system", "app", "local">>
CertPlaces == {CertOrder[n] : n \in DOMAIN CertOrder}

VARIABLES
  day,       \* the clock
  chain,     \* chain[p]: the serial of the certificate file at p, 0 if none
  privKey,   \* privKey[p]: the serial of the key file at p, 0 if none
  expiry,    \* expiry[s]: when the certificate of pair s expires; 0 while unissued
  served,    \* cm.cert: the certificate and the key in use, NoCert for nil
  saving,    \* a pair whose certificate is written and whose key is not yet
  nextCheck, \* the next tick of renewalLoop, 0 if it does not run
  excused,   \* history variable: an order, a save or the process has failed,
             \* or the renewal loop was stopped or started too late
  certCrashes

certVars == <<day, chain, privKey, expiry, served, saving, nextCheck, excused, certCrashes>>

NoCert == [chain |-> 0, key |-> 0]
NotSaving == [place |-> "", serial |-> 0]
Unissued == {s \in 1..MaxSerials : expiry[s] = 0}

\* The key is not compared with the certificate.
MutantUsable(p) == chain[p] # 0 /\ privKey[p] # 0 /\ day <= expiry[chain[p]]

\* loadCertFromPath: both files exist and match, and the certificate is in time.
Usable(p) == chain[p] # 0 /\ privKey[p] = chain[p] /\ day <= expiry[chain[p]]

\* The first usable place wins; without one the certificate served stays.
LoadCertificate ==
  LET usable == {n \in DOMAIN CertOrder : Usable(CertOrder[n])} IN
  served' = IF usable = {} THEN served
            ELSE LET p == CertOrder[Min(usable)] IN [chain |-> chain[p], key |-> privKey[p]]

CertIdle == saving = NotSaving
-----------------------------------------------------------------------------
CertInit ==
  /\ day = 1
  /\ chain = [p \in CertPlaces |-> 0] /\ privKey = [p \in CertPlaces |-> 0]
  /\ expiry = [s \in 1..MaxSerials |-> 0]
  /\ served = NoCert /\ saving = NotSaving /\ nextCheck = 0
  /\ excused = FALSE /\ certCrashes = 0

\* Time does not pass a check that is due, nor an order under way.
CertTick ==
  /\ day < CertTime /\ CertIdle /\ (nextCheck = 0 \/ day < nextCheck)
  /\ day' = day + 1
  /\ UNCHANGED <<chain, privKey, expiry, served, saving, nextCheck, excused, certCrashes>>

\* certbot or an operator puts a matching pair in the system directory.
Provide ==
  /\ \E s \in Unissued :
       /\ expiry' = [expiry EXCEPT ![s] = day + Lifetime]
       /\ chain' = [chain EXCEPT !["system"] = s] /\ privKey' = [privKey EXCEPT !["system"] = s]
       /\ \A t \in Unissued : s <= t
  /\ UNCHANGED <<day, served, saving, nextCheck, excused, certCrashes>>

\* A pair is issued (Obtain, RenewWithOptions, CreateCertificate) and its
\* certificate written.
SaveChain(p) ==
  /\ CertIdle
  /\ \E s \in Unissued :
       /\ \A t \in Unissued : s <= t
       /\ expiry' = [expiry EXCEPT ![s] = day + Lifetime]
       /\ chain' = [chain EXCEPT ![p] = s]
       /\ saving' = [place |-> p, serial |-> s]
  /\ UNCHANGED <<day, privKey, served, certCrashes>>

\* saveLetsEncryptCert and GenerateSelfSignedCertificate write the key second,
\* then load; or the write fails, and the pair on disk does not match.
SaveKey ==
  /\ ~CertIdle
  /\ \/ /\ privKey' = [privKey EXCEPT ![saving.place] = saving.serial]
        /\ saving' = [saving EXCEPT !.serial = 0]
        /\ UNCHANGED excused
     \/ UNCHANGED privKey /\ saving' = NotSaving /\ excused' = TRUE
  /\ saving.serial # 0
  /\ UNCHANGED <<day, chain, expiry, served, nextCheck, certCrashes>>

LoadSaved ==
  /\ ~CertIdle /\ saving.serial = 0
  /\ LoadCertificate
  /\ saving' = NotSaving
  /\ UNCHANGED <<day, chain, privKey, expiry, nextCheck, excused, certCrashes>>

\* Start: an existing certificate is loaded.
StartTLS ==
  /\ served = NoCert /\ CertIdle
  /\ \E p \in CertPlaces : Usable(p)
  /\ LoadCertificate
  /\ UNCHANGED <<day, chain, privKey, expiry, saving, nextCheck, excused, certCrashes>>

\* Start, when nothing is usable: RequestNewCertificate, for "app".  The program has
\* GenerateSelfSignedCertificate too, for "local", which nothing calls yet.
Request(p) ==
  /\ served = NoCert /\ p \in {"app", "local"}
  /\ \A q \in CertPlaces : ~Usable(q)
  /\ SaveChain(p)
  /\ UNCHANGED <<nextCheck, excused>>

StartAutoRenewal ==
  /\ served # NoCert /\ nextCheck = 0
  /\ nextCheck' = day + CheckEvery
  /\ excused' = (excused \/ expiry[served.chain] < nextCheck')
  /\ UNCHANGED <<day, chain, privKey, expiry, served, saving, certCrashes>>

StopAutoRenewal ==
  /\ nextCheck # 0
  /\ nextCheck' = 0
  /\ excused' = TRUE
  /\ UNCHANGED <<day, chain, privKey, expiry, served, saving, certCrashes>>

\* checkAndRenew looks at the certificate served, whoever manages it, once there is
\* a certificate file of its own.
DueForRenewal == chain["app"] # 0 /\ expiry[served.chain] <= day + RenewBefore

\* A tick of renewalLoop; a renewal may be excused.
CheckAndRenew ==
  /\ nextCheck # 0 /\ day = nextCheck /\ CertIdle
  /\ nextCheck' = day + CheckEvery
  /\ \/ ~DueForRenewal /\ UNCHANGED <<day, chain, privKey, expiry, served, saving, excused, certCrashes>>
     \/ DueForRenewal /\ SaveChain("app") /\ UNCHANGED excused
     \/ /\ DueForRenewal /\ excused' = TRUE
        /\ UNCHANGED <<day, chain, privKey, expiry, served, saving, certCrashes>>

CertCrash ==
  /\ certCrashes < MaxCertCrashes
  /\ certCrashes' = certCrashes + 1
  /\ served' = NoCert /\ saving' = NotSaving /\ nextCheck' = 0
  /\ excused' = (excused \/ ~CertIdle)
  /\ UNCHANGED <<day, chain, privKey, expiry>>

CertNext ==
  \/ CertTick \/ Provide \/ SaveKey \/ LoadSaved \/ StartTLS \/ StartAutoRenewal
  \/ StopAutoRenewal \/ CheckAndRenew \/ CertCrash
  \/ \E p \in CertPlaces : Request(p)

CertSpec == CertInit /\ [][CertNext]_certVars
-----------------------------------------------------------------------------
CertTypeOK ==
  /\ day \in 1..(CertTime + 1)
  /\ chain \in [CertPlaces -> 0..MaxSerials] /\ privKey \in [CertPlaces -> 0..MaxSerials]
  /\ expiry \in [1..MaxSerials -> Nat]
  /\ served \in [chain : 0..MaxSerials, key : 0..MaxSerials]
  /\ saving \in [place : CertPlaces \cup {""}, serial : 0..MaxSerials]
  /\ nextCheck \in Nat /\ excused \in BOOLEAN /\ certCrashes \in 0..MaxCertCrashes

\* The certificate in use matches its key, although they are two files and a crash or
\* an error can fall between their writes (saveLetsEncryptCert, loadCertFromPath); and
\* while the renewal loop runs in time and no order or write fails, it has not expired,
\* once it is one the server manages ("7 days before expiry by default").
ServedCertificateSound ==
  /\ served.key = served.chain
  /\ ~excused /\ nextCheck # 0 /\ CertIdle /\ served # NoCert /\ served.chain = chain["app"]
       => day <= expiry[served.chain]
=============================================================================
