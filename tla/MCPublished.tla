----------------------------- MODULE MCPublished -----------------------------
(***************************************************************************)
(* The components that publish files: they share no state, so each         *)
(* behaviour moves one of them, chosen by part in the initial state.       *)
(***************************************************************************)
EXTENDS RdapBootstrap, GeoIP, SelfUpdate, Certificates

VARIABLE part

Parts == {"rdap", "geoip", "update", "certificates"}
MCLoadOrder == <<"dns", "ipv4">>
MCInodes == 1..6
MCDatabases == {"asn", "country"}

PublishedInit ==
  /\ part \in Parts
  /\ RdapInit /\ GeoInit /\ UpdInit /\ CertInit

PublishedNext ==
  /\ UNCHANGED part
  /\ \/ part = "rdap" /\ RdapNext /\ UNCHANGED <<geoVars, updVars, certVars>>
     \/ part = "geoip" /\ GeoNext /\ UNCHANGED <<rdapVars, updVars, certVars>>
     \/ part = "update" /\ UpdNext /\ UNCHANGED <<rdapVars, geoVars, certVars>>
     \/ part = "certificates" /\ CertNext /\ UNCHANGED <<rdapVars, geoVars, updVars>>

\* The fairness of an update that has not begun asks for nothing.
PublishedSpec ==
  PublishedInit /\ [][PublishedNext]_<<part, rdapVars, geoVars, updVars, certVars>> /\ RdapFairness

\* The four components keep to the shape of their data (Update, UpdateDatabases,
\* InstallUpdate, LoadCertificate); no installation aims at a release that is not out.
PublishedTypeOK == RdapTypeOK /\ GeoTypeOK /\ UpdTypeOK /\ CertTypeOK
=============================================================================
