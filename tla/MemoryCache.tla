---------------------------- MODULE MemoryCache ----------------------------
(***************************************************************************)
(* The in-process cache (src/src/cache/memory.go), the default backend.    *)
(* Writers hold mc.mu alone; readers share it, and increment the hit and   *)
(* miss counters while they do: an unsynchronised load and store, so a     *)
(* reader is modelled by two steps and what it loaded is kept in between.  *)
(***************************************************************************)
EXTENDS Integers, FiniteSets, FiniteSetsExt

CONSTANTS
  Keys, Values, NotFound, TTLs, DefaultTTL, Readers, MaxTime,  \* see CacheContract
  Weight,        \* Weight[k][v]: bytes of key and value
  MaxSize,       \* mc.maxSize
  CleanupEvery,  \* mc.cleanupInt
  MaxReads,      \* bound: reads in a behaviour
  MaxWrites      \* bound: calls of Set and SetMulti in a behaviour

ASSUME MemoryAssumption ==
  /\ IsFiniteSet(Keys)
  /\ NotFound \notin Values
  /\ TTLs \subseteq Int
  /\ DefaultTTL \in Nat \ {0}
  /\ MaxTime \in Nat \ {0}
  /\ Weight \in [Keys -> [Values -> Nat]]
  /\ MaxSize \in Nat \ {0}
  /\ CleanupEvery \in Nat \ {0}
  /\ MaxReads \in Nat
  /\ MaxWrites \in Nat

VARIABLES
  now,       \* the clock
  items,     \* mc.items: items[k] is an item, or NoItem
  hits,      \* mc.stats.Hits
  misses,    \* mc.stats.Misses
  evictions, \* mc.stats.Evictions
  ticker,    \* the next tick of cleanupLoop; 0 once Close stopped it
  reader,    \* reader[p]: Outside, or inside a read section
  answer,    \* what p's last read answered
  reads,     \* history variable: reads[b], sections entered that hit (b) or missed
  writes     \* calls of Set and SetMulti so far

vars == <<now, items, hits, misses, evictions, ticker, reader, answer, reads, writes>>

NoItem == [value |-> NotFound, expiration |-> 0]
Item == [value : Values, expiration : Nat \ {0}]
Outside == [in |-> FALSE, hit |-> FALSE, loaded |-> 0]
Inside == [in : {TRUE}, hit : BOOLEAN, loaded : Nat]

Held == {k \in Keys : items[k] # NoItem}
Expired(k) == items[k] # NoItem /\ now > items[k].expiration

\* Operators named Mutant... are slips a change to the code could make; the
\* specification does not use them, each shows that a property notices one.

\* What a ttl of zero or less stands for: one hour.
Lifetime(ttl) == IF ttl <= 0 THEN DefaultTTL ELSE ttl

\* Lock is granted when no reader is inside.
Locked == \A p \in Readers : ~reader[p].in

\* Stats only reads.
currentSize == MapThenSumSet(LAMBDA k : Weight[k][items[k].value], Held)
-----------------------------------------------------------------------------
Init ==
  /\ now = 1
  /\ items = [k \in Keys |-> NoItem]
  /\ hits = 0 /\ misses = 0 /\ evictions = 0
  /\ ticker = 1 + CleanupEvery
  /\ reader = [p \in Readers |-> Outside]
  /\ answer = [p \in Readers |-> NotFound]
  /\ reads = [b \in BOOLEAN |-> 0]
  /\ writes = 0

Tick ==
  /\ now < MaxTime
  /\ now' = now + 1
  /\ UNCHANGED <<items, hits, misses, evictions, ticker, reader, answer, reads, writes>>

\* Expiry is not looked at.
MutantHitAnyAge(k) == items[k] # NoItem

\* Get and Exists: the item is there and its time is not over.
Found(k) == items[k] # NoItem /\ ~Expired(k)

\* Get under the read lock: the answer, and the load of the counter ...
GetBegin(p, k) ==
  /\ ~reader[p].in
  /\ reads[TRUE] + reads[FALSE] < MaxReads
  /\ LET hit == Found(k) IN
       /\ reader' = [reader EXCEPT ![p] =
            [in |-> TRUE, hit |-> hit, loaded |-> IF hit THEN hits ELSE misses]]
       /\ answer' = [answer EXCEPT ![p] = IF hit THEN items[k].value ELSE NotFound]
       /\ reads' = [reads EXCEPT ![hit] = @ + 1]
  /\ UNCHANGED <<now, items, hits, misses, evictions, ticker, writes>>

\* The counter is stored twice incremented.
MutantStoreTwo(p) ==
  /\ reader[p].in
  /\ IF reader[p].hit THEN hits' = reader[p].loaded + 2 /\ UNCHANGED misses
                      ELSE misses' = reader[p].loaded + 2 /\ UNCHANGED hits
  /\ reader' = [reader EXCEPT ![p] = Outside]
  /\ UNCHANGED <<now, items, evictions, ticker, answer, reads, writes>>

\* ... then its store, and RUnlock.
GetEnd(p) ==
  /\ reader[p].in
  /\ IF reader[p].hit THEN hits' = reader[p].loaded + 1 /\ UNCHANGED misses
                      ELSE misses' = reader[p].loaded + 1 /\ UNCHANGED hits
  /\ reader' = [reader EXCEPT ![p] = Outside]
  /\ UNCHANGED <<now, items, evictions, ticker, answer, reads, writes>>

\* Exists: the same test, no counter.
Exists(p, k) ==
  /\ ~reader[p].in
  /\ answer' = [answer EXCEPT ![p] = IF Found(k) THEN items[k].value ELSE NotFound]
  /\ UNCHANGED <<now, items, hits, misses, evictions, ticker, reader, reads, writes>>

\* The item that expires last is evicted.
MutantVictim(k) ==
  k \in Held /\ \A j \in Held : items[j].expiration <= items[k].expiration

\* evictOldest: map iteration meets the items in any order; the first expired
\* one goes, or if there is none the one that expires first.
Victim(k) ==
  /\ k \in Held
  /\ \/ Expired(k)
     \/ \A j \in Held : ~Expired(j) /\ items[k].expiration <= items[j].expiration

\* The items Set leaves in place: at most one eviction, and no second look.
Kept(k, v) ==
  IF currentSize + Weight[k][v] > MaxSize /\ Held # {}
  THEN {Held \ {j} : j \in {i \in Keys : Victim(i)}}
  ELSE {Held}

Set(k, v, ttl) ==
  /\ writes < MaxWrites
  /\ writes' = writes + 1
  /\ Locked
  /\ \E kept \in Kept(k, v) :
       /\ items' = [j \in Keys |->
            IF j = k THEN [value |-> v, expiration |-> now + Lifetime(ttl)]
            ELSE IF j \in kept THEN items[j] ELSE NoItem]
       /\ evictions' = evictions + Cardinality(Held \ kept)
  /\ UNCHANGED <<now, hits, misses, ticker, reader, answer, reads>>

\* SetMulti looks at no bound.
SetMulti(K, w, ttl) ==
  /\ writes < MaxWrites
  /\ writes' = writes + 1
  /\ Locked
  /\ items' = [j \in Keys |->
       IF j \in K THEN [value |-> w[j], expiration |-> now + Lifetime(ttl)] ELSE items[j]]
  /\ UNCHANGED <<now, hits, misses, evictions, ticker, reader, answer, reads>>

\* GetMulti of one key: a hit only strictly before the expiration.  (Of several
\* keys it is as many of these under one lock; no caller in the server uses it.)
GetMulti(p, k) ==
  /\ ~reader[p].in
  /\ reads[TRUE] + reads[FALSE] < MaxReads
  /\ LET hit == items[k] # NoItem /\ now < items[k].expiration IN
       /\ reader' = [reader EXCEPT ![p] =
            [in |-> TRUE, hit |-> hit, loaded |-> IF hit THEN hits ELSE misses]]
       /\ answer' = [answer EXCEPT ![p] = IF hit THEN items[k].value ELSE NotFound]
       /\ reads' = [reads EXCEPT ![hit] = @ + 1]
  /\ UNCHANGED <<now, items, hits, misses, evictions, ticker, writes>>

\* Delete and Clear.
Delete(K) ==
  /\ Locked
  /\ items' = [k \in Keys |-> IF k \in K THEN NoItem ELSE items[k]]
  /\ UNCHANGED <<now, hits, misses, evictions, ticker, reader, answer, reads, writes>>

\* The ticker fires: every expired item is deleted.
cleanup ==
  /\ ticker # 0 /\ now >= ticker
  /\ Locked
  /\ LET gone == {k \in Held : Expired(k)} IN
       /\ items' = [k \in Keys |-> IF k \in gone THEN NoItem ELSE items[k]]
       /\ evictions' = evictions + Cardinality(gone)
  /\ ticker' = ticker + CleanupEvery
  /\ UNCHANGED <<now, hits, misses, reader, answer, reads, writes>>

\* Close ends cleanupLoop; a second Close would panic and is not modelled.
Close ==
  /\ ticker # 0
  /\ ticker' = 0
  /\ UNCHANGED <<now, items, hits, misses, evictions, reader, answer, reads, writes>>

ReadStep(p) ==
  \/ \E k \in Keys : GetBegin(p, k) \/ GetMulti(p, k) \/ Exists(p, k)
  \/ GetEnd(p)
WriteStep ==
  \/ \E k \in Keys : \E v \in Values : \E ttl \in TTLs : Set(k, v, ttl)
  \/ \E K \in SUBSET Keys : \E w \in [K -> Values] : \E ttl \in TTLs : SetMulti(K, w, ttl)
  \/ \E K \in SUBSET Keys : Delete(K)

Next ==
  \/ Tick \/ cleanup \/ Close
  \/ \E p \in Readers : ReadStep(p)
  \/ WriteStep

Spec == Init /\ [][Next]_vars
-----------------------------------------------------------------------------
TypeOK ==
  /\ now \in 1..MaxTime
  /\ items \in [Keys -> Item \cup {NoItem}]
  /\ hits \in Nat /\ misses \in Nat /\ evictions \in Nat
  /\ ticker \in Nat
  /\ reader \in [Readers -> Inside \cup {Outside}]
  /\ answer \in [Readers -> Values \cup {NotFound}]
  /\ reads \in [BOOLEAN -> Nat]
  /\ writes \in Nat

(***************************************************************************)
(* The cache the callers are promised: what a read answers is the latest   *)
(* value written under the key, within its lifetime, or nothing, whatever  *)
(* is evicted, cleaned up or read at the same time.                        *)
(***************************************************************************)
Promised == INSTANCE CacheContract WITH store <- items
ImplementsContract == Promised!Spec

(***************************************************************************)
(* Readers race on the counters, so increments are lost and a counter can  *)
(* even go back; but neither ever shows more than really happened.         *)
(***************************************************************************)
CountersNeverInflated ==
  hits <= reads[TRUE] /\ misses <= reads[FALSE]

(***************************************************************************)
(* Set makes room at the cost of a live item only when no expired one is   *)
(* left to take.                                                           *)
(***************************************************************************)
LiveItemsSpared ==
  [][\A k \in Keys :
       /\ k \in Held /\ ~Expired(k) /\ items'[k] = NoItem
       /\ evictions' > evictions
       => \A j \in Held : ~Expired(j)]_vars
=============================================================================
