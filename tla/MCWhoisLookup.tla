--------------------------- MODULE MCWhoisLookup ---------------------------
(***************************************************************************)
(* Instance of WhoisLookup for TLC: one domain, in lower case.             *)
(***************************************************************************)
EXTENDS WhoisLookup, TLC

CONSTANT lower

OneDomain == {lower}
MCName == [q \in Queries |-> lower]
RequestSymmetry == Permutations(Requests)
=============================================================================
