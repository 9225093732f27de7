--------------------------- MODULE MCMemoryCache ---------------------------
(***************************************************************************)
(* Two keys and two values of different weight, in a cache that holds two  *)
(* light items, or one heavy one.                                          *)
(***************************************************************************)
EXTENDS MemoryCache, TLC

CONSTANTS light, heavy

MCTTLs == {-1, 1}
MCWeight == [k \in Keys |-> [v \in Values |-> IF v = heavy THEN 2 ELSE 1]]
CacheSymmetry == Permutations(Keys) \cup Permutations(Readers)
=============================================================================
