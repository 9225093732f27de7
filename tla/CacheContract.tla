--------------------------- MODULE CacheContract ---------------------------
(***************************************************************************)
(* What the callers of cache.Cache (src/src/cache/cache.go) may rely on,   *)
(* whichever backend cache.New builds: Get and Exists answer with the      *)
(* latest value written and not deleted, and never after the lifetime it   *)
(* was written with; an entry may be forgotten at any moment.  The modules *)
(* that instantiate it state what they assume of its parameters.           *)
(***************************************************************************)
EXTENDS Integers

CONSTANTS
  Keys, Values,
  NotFound,      \* the answer of a read that misses, not in Values
  TTLs,          \* the ttl arguments callers pass, integers
  DefaultTTL,    \* what a ttl of zero or less stands for (one hour)
  Readers,       \* callers that may read at the same time
  MaxTime        \* bound: the clock runs over 1..MaxTime

VARIABLES
  now,      \* the clock
  store,    \* store[k]: the entry under k, or NoEntry
  answer    \* answer[p]: what the cache last answered reader p

cacheVars == <<now, store, answer>>

NoEntry == [value |-> NotFound, expiration |-> 0]
Entry == [value : Values, expiration : Nat \ {0}]

Lifetime(ttl) == IF ttl <= 0 THEN DefaultTTL ELSE ttl
Fresh(e) == e # NoEntry /\ now <= e.expiration

Init ==
  /\ now = 1
  /\ store = [k \in Keys |-> NoEntry]
  /\ answer = [p \in Readers |-> NotFound]

Tick ==
  /\ now < MaxTime
  /\ now' = now + 1
  /\ UNCHANGED <<store, answer>>

\* Set and SetMulti write the values w of the keys in K, with one lifetime;
\* to make room the cache may forget other keys on the way.
Write(K, w, ttl) ==
  /\ \E gone \in SUBSET Keys :
       store' = [k \in Keys |->
                   IF k \in K THEN [value |-> w[k], expiration |-> now + Lifetime(ttl)]
                   ELSE IF k \in gone THEN NoEntry ELSE store[k]]
  /\ UNCHANGED <<now, answer>>

\* Delete, Clear, eviction and expiry.
Forget ==
  /\ \E gone \in SUBSET Keys :
       store' = [k \in Keys |-> IF k \in gone THEN NoEntry ELSE store[k]]
  /\ UNCHANGED <<now, answer>>

\* Get and Exists: a miss is always possible.
Answers(k) == {NotFound} \cup (IF Fresh(store[k]) THEN {store[k].value} ELSE {})
Read(p, k) ==
  /\ \E v \in Answers(k) : answer' = [answer EXCEPT ![p] = v]
  /\ UNCHANGED <<now, store>>

Next ==
  \/ Tick \/ Forget
  \/ \E K \in SUBSET Keys : \E w \in [K -> Values] : \E ttl \in TTLs : Write(K, w, ttl)
  \/ \E p \in Readers : \E k \in Keys : Read(p, k)

Spec == Init /\ [][Next]_cacheVars
=============================================================================
