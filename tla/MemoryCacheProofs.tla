--------------------------- MODULE MemoryCacheProofs ---------------------------
(***************************************************************************)
(* MemoryCache implements CacheContract and its counters never exceed what *)
(* happened, and a live item makes room only when no expired one is left:  *)
(* for any keys, values, lifetimes and sizes, and any number of readers    *)
(* that race on the counters.                                              *)
(***************************************************************************)
EXTENDS MemoryCache, FiniteSetTheorems, TLAPS

\* The sections entered that hit, and those that missed.
HitsRead == reads[TRUE]
MissesRead == reads[FALSE]

\* What a reader holds between its two steps is a counter that has not run ahead.
LoadedIsPast ==
  \A p \in Readers : reader[p].in =>
    /\ reader[p].hit => reader[p].loaded < HitsRead
    /\ ~reader[p].hit => reader[p].loaded < MissesRead

CountersInv == TypeOK /\ LoadedIsPast /\ CountersNeverInflated

\* What reader[p] may be.
ReaderState == Inside \cup {Outside}

\* The parameters are numbers.
LEMMA CacheBounds ==
  /\ DefaultTTL \in Nat \ {0} /\ MaxTime \in Nat \ {0} /\ CleanupEvery \in Nat \ {0}
  /\ TTLs \subseteq Int /\ IsFiniteSet(Keys)
BY MemoryAssumption

-----------------------------------------------------------------------------
\* An item gets a lifetime that is not over (Set, SetMulti).
LEMMA LifetimeIsPositive ==
  ASSUME NEW ttl \in TTLs, NEW v \in Values, TypeOK
  PROVE  [value |-> v, expiration |-> now + Lifetime(ttl)] \in Item
<1>1. now \in 1..MaxTime
  BY DEF TypeOK
<1>2. now + Lifetime(ttl) \in Nat \ {0}
  BY <1>1, CacheBounds DEF Lifetime
<1> QED
  BY <1>2 DEF Item

\* Set keeps items it held.
LEMMA KeptAreHeld ==
  ASSUME NEW k \in Keys, NEW v \in Values, NEW kept \in Kept(k, v)
  PROVE  kept \subseteq Held /\ IsFiniteSet(Held \ kept)
<1>1. IsFiniteSet(Held)
  BY CacheBounds, FS_Subset DEF Held
<1>2. kept \subseteq Held
  BY DEF Kept
<1> QED
  BY <1>1, <1>2, FS_Difference

\* Every step leaves the items well typed.
LEMMA ItemTyping ==
  TypeOK /\ [Next]_vars => items' \in [Keys -> Item \cup {NoItem}]
<1> SUFFICES ASSUME TypeOK, [Next]_vars PROVE items' \in [Keys -> Item \cup {NoItem}]
  OBVIOUS
<1>1. items \in [Keys -> Item \cup {NoItem}]
  BY DEF TypeOK
<1>2. ASSUME NEW k \in Keys, NEW v \in Values, NEW ttl \in TTLs, Set(k, v, ttl)
      PROVE  items' \in [Keys -> Item \cup {NoItem}]
  BY <1>1, <1>2, LifetimeIsPositive DEF Set
<1>3. ASSUME NEW K \in SUBSET Keys, NEW w \in [K -> Values], NEW ttl \in TTLs, SetMulti(K, w, ttl)
      PROVE  items' \in [Keys -> Item \cup {NoItem}]
  BY <1>1, <1>3, LifetimeIsPositive DEF SetMulti
<1>4. CASE cleanup \/ \E K \in SUBSET Keys : Delete(K)
  BY <1>1, <1>4 DEF cleanup, Delete
<1>5. CASE UNCHANGED items
  BY <1>1, <1>5
<1> QED
  BY <1>2, <1>3, <1>4, <1>5
     DEF Next, ReadStep, WriteStep, Tick, Close, GetBegin, GetMulti, Exists, GetEnd, vars

\* A read that begins: what the reader loads, and what it will have counted (Get).
Begins(p, hit) ==
  /\ reader' = [reader EXCEPT ![p] =
       [in |-> TRUE, hit |-> hit, loaded |-> IF hit THEN hits ELSE misses]]
  /\ reads' = [reads EXCEPT ![hit] = @ + 1]
  /\ UNCHANGED <<hits, misses>>

\* The steps as far as the counters go.
LEMMA CounterSteps ==
  ASSUME [Next]_vars
  PROVE  \/ UNCHANGED <<hits, misses, reader, reads>>
         \/ \E p \in Readers : GetEnd(p)
         \/ \E p \in Readers : \E hit \in BOOLEAN : ~reader[p].in /\ Begins(p, hit)
<1>1. ASSUME NEW p \in Readers, NEW k \in Keys, GetBegin(p, k)
      PROVE  \E hit \in BOOLEAN : ~reader[p].in /\ Begins(p, hit)
  <2>1. Found(k) \in BOOLEAN
    BY Zenon DEF Found
  <2>2. ~reader[p].in /\ Begins(p, Found(k))
    BY <1>1, Zenon DEF GetBegin, Begins
  <2> QED
    BY <2>1, <2>2
<1>2. ASSUME NEW p \in Readers, NEW k \in Keys, GetMulti(p, k)
      PROVE  \E hit \in BOOLEAN : ~reader[p].in /\ Begins(p, hit)
  <2> DEFINE hit == items[k] # NoItem /\ now < items[k].expiration
  <2>1. hit \in BOOLEAN
    BY Zenon
  <2>2. ~reader[p].in /\ Begins(p, hit)
    BY <1>2, Zenon DEF GetMulti, Begins
  <2> QED
    BY <2>1, <2>2
<1> QED
  BY <1>1, <1>2
     DEF Next, ReadStep, WriteStep, Tick, cleanup, Close, Exists, Set, SetMulti, Delete, vars

\* Every step leaves the counters and the readers well typed, and what a reader has
\* loaded behind what has been read (Get, GetMulti).
LEMMA CountersStep ==
  CountersInv /\ [Next]_vars =>
    /\ hits' \in Nat /\ misses' \in Nat /\ reads' \in [BOOLEAN -> Nat]
    /\ reader' \in [Readers -> ReaderState]
    /\ LoadedIsPast' /\ CountersNeverInflated'
<1> DEFINE Sound == /\ hits \in Nat /\ misses \in Nat /\ reads \in [BOOLEAN -> Nat]
                    /\ reader \in [Readers -> ReaderState]
                    /\ LoadedIsPast /\ CountersNeverInflated
<1> SUFFICES ASSUME CountersInv, [Next]_vars PROVE Sound'
  OBVIOUS
<1>1. Sound
  BY DEF CountersInv, TypeOK, ReaderState
<1>2. /\ \A p \in Readers : reader[p].in => reader[p] \in Inside
      /\ Outside \in ReaderState /\ ~Outside.in
  BY <1>1 DEF ReaderState, Outside
<1>3. HitsRead \in Nat /\ MissesRead \in Nat
  BY <1>1 DEF HitsRead, MissesRead
<1>4. hits \in Nat /\ misses \in Nat /\ hits <= HitsRead /\ misses <= MissesRead
  BY <1>1 DEF CountersNeverInflated, HitsRead, MissesRead
<1>5. ASSUME hits' <= HitsRead' /\ misses' <= MissesRead' PROVE CountersNeverInflated'
  BY <1>5 DEF CountersNeverInflated, HitsRead, MissesRead
<1>6. ASSUME NEW p \in Readers, GetEnd(p) PROVE Sound'
  <2>1. /\ reader[p] \in Inside /\ UNCHANGED reads
        /\ reader' = [reader EXCEPT ![p] = Outside]
    BY <1>2, <1>6 DEF GetEnd
  <2>2. reader[p].loaded \in Nat
    BY <2>1 DEF Inside
  <2>3. reader' \in [Readers -> ReaderState] /\ reads' \in [BOOLEAN -> Nat]
    BY <1>1, <1>2, <2>1
  <2>4. HitsRead' = HitsRead /\ MissesRead' = MissesRead
    BY <2>1 DEF HitsRead, MissesRead
  <2>5. \A q \in Readers : reader'[q].in => reader'[q] = reader[q]
    BY <1>1, <1>2, <2>1
  <2>6. LoadedIsPast'
    BY <1>1, <2>4, <2>5, Zenon DEF LoadedIsPast
  <2>7. hits' \in Nat /\ misses' \in Nat /\ hits' <= HitsRead /\ misses' <= MissesRead
    <3>1. CASE reader[p].hit
      <4>1. hits' = reader[p].loaded + 1 /\ misses' = misses
        BY <1>6, <3>1 DEF GetEnd
      <4>2. reader[p].loaded < HitsRead
        BY <1>1, <1>6, <3>1 DEF GetEnd, LoadedIsPast
      <4> QED
        BY <1>3, <1>4, <2>2, <4>1, <4>2
    <3>2. CASE ~reader[p].hit
      <4>1. misses' = reader[p].loaded + 1 /\ hits' = hits
        BY <1>6, <3>2 DEF GetEnd
      <4>2. reader[p].loaded < MissesRead
        BY <1>1, <1>6, <3>2 DEF GetEnd, LoadedIsPast
      <4> QED
        BY <1>3, <1>4, <2>2, <4>1, <4>2
    <3> QED
      BY <3>1, <3>2
  <2> QED
    BY <1>5, <2>3, <2>4, <2>6, <2>7
<1>7. ASSUME NEW p \in Readers, NEW hit \in BOOLEAN, Begins(p, hit) PROVE Sound'
  <2> DEFINE n == IF hit THEN hits ELSE misses
             new == [in |-> TRUE, hit |-> hit, loaded |-> n]
  <2>1. reader' = [reader EXCEPT ![p] = new] /\ hits' = hits /\ misses' = misses
    BY <1>7, Zenon DEF Begins
  <2>2. n \in Nat /\ (hit => n <= HitsRead) /\ (~hit => n <= MissesRead)
    BY <1>4
  <2>3. new \in ReaderState /\ new.loaded = n /\ new.hit = hit
    <3>1. n \in Nat
      BY <2>2
    <3> HIDE DEF n
    <3>2. new \in Inside
      BY <3>1, Zenon DEF Inside
    <3>3. new.loaded = n /\ new.hit = hit
      BY Zenon
    <3> QED
      BY <3>2, <3>3, Zenon DEF ReaderState
  <2> HIDE DEF n, new
  <2>4. /\ reads' \in [BOOLEAN -> Nat]
        /\ HitsRead' \in Nat /\ HitsRead <= HitsRead' /\ (hit => HitsRead < HitsRead')
        /\ MissesRead' \in Nat /\ MissesRead <= MissesRead' /\ (~hit => MissesRead < MissesRead')
    <3>1. reads' = [reads EXCEPT ![hit] = reads[hit] + 1]
      BY <1>7, Zenon DEF Begins
    <3>2. reads[hit] + 1 \in Nat
      BY <1>1, Zenon, SMT
    <3>3. reads' \in [BOOLEAN -> Nat]
      BY <1>1, <3>1, <3>2, Zenon
    <3>4. CASE hit
      <4>1. hit = TRUE
        BY <3>4, Zenon
      <4>2. HitsRead' = HitsRead + 1 /\ MissesRead' = MissesRead
        BY <1>1, <3>1, <4>1, Zenon DEF HitsRead, MissesRead
      <4> QED
        BY <1>3, <3>3, <3>4, <4>2
    <3>5. CASE ~hit
      <4>1. hit = FALSE
        BY <3>5, Zenon
      <4>2. HitsRead' = HitsRead /\ MissesRead' = MissesRead + 1
        BY <1>1, <3>1, <4>1, Zenon DEF HitsRead, MissesRead
      <4> QED
        BY <1>3, <3>3, <3>5, <4>2
    <3> QED
      BY <3>4, <3>5
  <2>5. reader' \in [Readers -> ReaderState]
    BY <1>1, <2>1, <2>3
  <2>6. LoadedIsPast'
    <3> SUFFICES ASSUME NEW q \in Readers, reader'[q].in
                 PROVE  /\ reader'[q].hit => reader'[q].loaded < HitsRead'
                        /\ ~reader'[q].hit => reader'[q].loaded < MissesRead'
      BY DEF LoadedIsPast
    <3>1. CASE q = p
      <4>1. reader'[q].loaded = n /\ reader'[q].hit = hit
        BY <1>1, <2>1, <2>3, <3>1
      <4> QED
        BY <1>3, <2>2, <2>4, <4>1
    <3>2. CASE q # p
      <4>1. reader'[q] = reader[q]
        BY <1>1, <2>1, <3>2
      <4>2. reader[q].loaded \in Nat
        BY <1>2, <4>1 DEF Inside
      <4>3. /\ reader[q].hit => reader[q].loaded < HitsRead
            /\ ~reader[q].hit => reader[q].loaded < MissesRead
        BY <1>1, <4>1 DEF LoadedIsPast
      <4> QED
        BY <1>3, <2>4, <4>1, <4>2, <4>3
    <3> QED
      BY <3>1, <3>2
  <2>7. hits' <= HitsRead' /\ misses' <= MissesRead' /\ hits' \in Nat /\ misses' \in Nat
    BY <1>3, <1>4, <2>1, <2>4
  <2> QED
    BY <1>5, <2>4, <2>5, <2>6, <2>7
<1>8. CASE UNCHANGED <<hits, misses, reader, reads>>
  BY <1>1, <1>8 DEF LoadedIsPast, CountersNeverInflated, HitsRead, MissesRead
<1> QED
  BY <1>6, <1>7, <1>8, CounterSteps

\* Every step leaves what a reader was answered a value or nothing.
LEMMA AnswerTyping ==
  TypeOK /\ [Next]_vars => answer' \in [Readers -> Values \cup {NotFound}]
<1> SUFFICES ASSUME TypeOK, [Next]_vars PROVE answer' \in [Readers -> Values \cup {NotFound}]
  OBVIOUS
<1>1. answer \in [Readers -> Values \cup {NotFound}] /\ items \in [Keys -> Item \cup {NoItem}]
  BY DEF TypeOK
<1>2. \A k \in Keys : items[k].value \in Values \cup {NotFound}
  BY <1>1 DEF Item, NoItem
<1>3. ASSUME NEW p \in Readers, NEW k \in Keys, GetBegin(p, k) \/ GetMulti(p, k) \/ Exists(p, k)
      PROVE  answer' \in [Readers -> Values \cup {NotFound}]
  <2>1. \E v \in {items[k].value, NotFound} : answer' = [answer EXCEPT ![p] = v]
    BY <1>3 DEF GetBegin, GetMulti, Exists
  <2> QED
    BY <1>1, <1>2, <2>1
<1>4. CASE UNCHANGED answer
  BY <1>1, <1>4
<1> QED
  BY <1>3, <1>4
     DEF Next, ReadStep, WriteStep, Tick, cleanup, Close, GetEnd, Set, SetMulti, Delete, vars

\* Every step leaves the clock, the ticker and the numbers well typed.
LEMMA NumberTyping ==
  TypeOK /\ [Next]_vars =>
    now' \in 1..MaxTime /\ evictions' \in Nat /\ ticker' \in Nat /\ writes' \in Nat
<1> SUFFICES ASSUME TypeOK, [Next]_vars
             PROVE  now' \in 1..MaxTime /\ evictions' \in Nat /\ ticker' \in Nat /\ writes' \in Nat
  OBVIOUS
<1>1. now \in 1..MaxTime /\ evictions \in Nat /\ ticker \in Nat /\ writes \in Nat
  BY DEF TypeOK
<1>2. /\ UNCHANGED now \/ (now < MaxTime /\ now' = now + 1)
      /\ UNCHANGED ticker \/ ticker' = ticker + CleanupEvery \/ ticker' = 0
      /\ UNCHANGED writes \/ writes' = writes + 1
  BY DEF Next, ReadStep, WriteStep, Tick, cleanup, Close, GetBegin, GetMulti, Exists, GetEnd,
         Set, SetMulti, Delete, vars
<1>3. evictions' \in Nat
  <2>1. ASSUME NEW k \in Keys, NEW v \in Values, NEW ttl \in TTLs, Set(k, v, ttl)
        PROVE  evictions' \in Nat
    <3>1. PICK kept \in Kept(k, v) : evictions' = evictions + Cardinality(Held \ kept)
      BY <2>1 DEF Set
    <3> QED
      BY <1>1, <3>1, KeptAreHeld, FS_CardinalityType
  <2>2. CASE cleanup
    <3>1. IsFiniteSet({k \in Held : Expired(k)})
      BY CacheBounds, FS_Subset DEF Held
    <3> QED
      BY <1>1, <2>2, <3>1, FS_CardinalityType DEF cleanup
  <2>3. CASE UNCHANGED evictions
    BY <1>1, <2>3
  <2> QED
    BY <2>1, <2>2, <2>3
       DEF Next, ReadStep, WriteStep, Tick, Close, GetBegin, GetMulti, Exists, GetEnd, SetMulti,
           Delete, vars
<1> QED
  BY <1>1, <1>2, <1>3, CacheBounds

\* The invariant holds in every reachable state.
LEMMA CountersHold == Spec => []CountersInv
<1>1. Init => CountersInv
  <2> SUFFICES ASSUME Init PROVE CountersInv
    OBVIOUS
  <2>1. /\ now \in 1..MaxTime /\ hits \in Nat /\ misses \in Nat /\ evictions \in Nat
        /\ ticker \in Nat /\ writes \in Nat
    BY CacheBounds DEF Init
  <2>2. /\ items \in [Keys -> Item \cup {NoItem}] /\ reader \in [Readers -> ReaderState]
        /\ answer \in [Readers -> Values \cup {NotFound}] /\ reads \in [BOOLEAN -> Nat]
    BY DEF Init, ReaderState
  <2>3. LoadedIsPast /\ CountersNeverInflated
    BY DEF Init, LoadedIsPast, Outside, CountersNeverInflated, HitsRead, MissesRead
  <2> QED
    BY <2>1, <2>2, <2>3 DEF CountersInv, TypeOK, ReaderState
<1>2. CountersInv /\ [Next]_vars => CountersInv'
  BY ItemTyping, CountersStep, AnswerTyping, NumberTyping DEF CountersInv, TypeOK, ReaderState
<1> QED
  BY <1>1, <1>2, PTL DEF Spec

\* Every reachable state is well typed (memory.go).
THEOREM CacheTypeCorrect == Spec => []TypeOK
<1>1. CountersInv => TypeOK
  BY DEF CountersInv
<1> QED
  BY <1>1, CountersHold, PTL

\* Readers race on the hit and miss counters, and neither ever shows more than really
\* happened (Get, GetMulti).
THEOREM CountersAreHonest == Spec => []CountersNeverInflated
<1>1. CountersInv => CountersNeverInflated
  BY DEF CountersInv
<1> QED
  BY <1>1, CountersHold, PTL

\* Room is made at the cost of a live item only when no expired one is left (Set,
\* evictOldest).
THEOREM LiveOnesAreSpared == Spec => LiveItemsSpared
<1> DEFINE Spares(k) == /\ k \in Held /\ ~Expired(k) /\ items'[k] = NoItem
                        /\ evictions' > evictions
                        => \A j \in Held : ~Expired(j)
<1>1. ASSUME TypeOK, [Next]_vars, NEW k \in Keys PROVE Spares(k)
  <2> SUFFICES ASSUME k \in Held, ~Expired(k), items'[k] = NoItem, evictions' > evictions
               PROVE  \A j \in Held : ~Expired(j)
    OBVIOUS
  <2>1. evictions \in Nat /\ items[k] # NoItem
    BY <1>1 DEF TypeOK, Held
  <2>2. ~cleanup
    BY <2>1 DEF cleanup
  <2>3. evictions' # evictions
    BY <2>1
  <2>4. PICK i \in Keys, v \in Values, ttl \in TTLs : Set(i, v, ttl)
    BY <1>1, <2>2, <2>3
       DEF Next, ReadStep, WriteStep, Tick, Close, GetBegin, GetMulti, Exists, GetEnd, SetMulti,
           Delete, vars
  <2>5. PICK kept \in Kept(i, v) :
          /\ items' = [j \in Keys |->
               IF j = i THEN [value |-> v, expiration |-> now + Lifetime(ttl)]
               ELSE IF j \in kept THEN items[j] ELSE NoItem]
          /\ evictions' = evictions + Cardinality(Held \ kept)
    BY <2>4 DEF Set
  <2>6. kept # Held
    <3>1. Cardinality({}) = 0
      BY FS_EmptySet
    <3>2. Held \ Held = {}
      OBVIOUS
    <3> QED
      BY <2>1, <2>3, <2>5, <3>1, <3>2
  <2>7. PICK j \in Keys : Victim(j) /\ kept = Held \ {j}
    BY <2>6 DEF Kept
  <2>8. k # i
    <3>1. [value |-> v, expiration |-> now + Lifetime(ttl)] \in Item
      BY <1>1, LifetimeIsPositive
    <3>2. NoItem \notin Item
      BY DEF Item, NoItem
    <3> QED
      BY <2>5, <3>1, <3>2
  <2>9. k = j
    BY <2>1, <2>5, <2>7, <2>8
  <2> QED
    BY <2>7, <2>9 DEF Victim
<1>2. TypeOK /\ [Next]_vars => [\A k \in Keys : Spares(k)]_vars
  BY <1>1
<1> QED
  BY <1>2, CacheTypeCorrect, PTL DEF Spec, LiveItemsSpared

-----------------------------------------------------------------------------
\* What a write leaves of the other keys is what was there or nothing (Set, SetMulti).
LEMMA WritesAreAllowed ==
  ASSUME NEW K \in SUBSET Keys, NEW w \in [K -> Values], NEW ttl \in TTLs,
         NEW gone \in SUBSET Keys, UNCHANGED <<now, answer>>,
         items' = [k \in Keys |->
           IF k \in K THEN [value |-> w[k], expiration |-> now + Lifetime(ttl)]
           ELSE IF k \in gone THEN NoItem ELSE items[k]]
  PROVE  Promised!Next
<1>1. Promised!Write(K, w, ttl)
  BY DEF Promised!Write, Promised!Lifetime, Lifetime, Promised!NoEntry, NoItem
<1> QED
  BY <1>1 DEF Promised!Next

\* So is what is deleted, evicted or cleaned up.
LEMMA ForgettingIsAllowed ==
  ASSUME NEW gone \in SUBSET Keys, UNCHANGED <<now, answer>>,
         items' = [k \in Keys |-> IF k \in gone THEN NoItem ELSE items[k]]
  PROVE  Promised!Next
<1>1. Promised!Forget
  BY DEF Promised!Forget, Promised!NoEntry, NoItem
<1> QED
  BY <1>1 DEF Promised!Next

\* A read answers nothing, or an item that is there and whose time is not over.
LEMMA ReadsAreAllowed ==
  ASSUME NEW p \in Readers, NEW k \in Keys, NEW hit \in BOOLEAN,
         hit => items[k] # NoItem /\ now <= items[k].expiration,
         answer' = [answer EXCEPT ![p] = IF hit THEN items[k].value ELSE NotFound],
         UNCHANGED <<now, items>>
  PROVE  Promised!Next
<1>1. Promised!Read(p, k)
  BY DEF Promised!Read, Promised!Answers, Promised!Fresh, Promised!NoEntry, NoItem
<1> QED
  BY <1>1 DEF Promised!Next

\* Each step is a step of CacheContract, or leaves clock, entries and answers as they are.
LEMMA CacheStepImplements ==
  TypeOK /\ [Next]_vars => [Promised!Next]_<<now, items, answer>>
<1> SUFFICES ASSUME TypeOK, [Next]_vars PROVE Promised!Next \/ UNCHANGED <<now, items, answer>>
  OBVIOUS
<1>1. /\ items \in [Keys -> Item \cup {NoItem}] /\ now \in Nat
      /\ \A k \in Keys : items[k] # NoItem => items[k].expiration \in Nat
  <2>1. items \in [Keys -> Item \cup {NoItem}] /\ now \in 1..MaxTime
    BY DEF TypeOK
  <2> QED
    BY <2>1, CacheBounds DEF Item
<1>2. CASE Tick
  <2>1. Promised!Tick
    BY <1>2 DEF Tick, Promised!Tick
  <2> QED
    BY <2>1 DEF Promised!Next
<1>3. ASSUME NEW k \in Keys, NEW v \in Values, NEW ttl \in TTLs, Set(k, v, ttl)
      PROVE  Promised!Next
  <2>1. PICK kept \in Kept(k, v) :
          items' = [j \in Keys |->
            IF j = k THEN [value |-> v, expiration |-> now + Lifetime(ttl)]
            ELSE IF j \in kept THEN items[j] ELSE NoItem]
    BY <1>3 DEF Set
  <2> DEFINE K == {k}
             w == [j \in K |-> v]
             gone == Keys \ kept
  <2>2. items' = [j \in Keys |->
           IF j \in K THEN [value |-> w[j], expiration |-> now + Lifetime(ttl)]
           ELSE IF j \in gone THEN NoItem ELSE items[j]]
    BY <2>1
  <2>3. K \in SUBSET Keys /\ w \in [K -> Values] /\ gone \in SUBSET Keys
    OBVIOUS
  <2> HIDE DEF K, w, gone
  <2> QED
    BY <1>3, <2>2, <2>3, WritesAreAllowed DEF Set
<1>4. ASSUME NEW K \in SUBSET Keys, NEW w \in [K -> Values], NEW ttl \in TTLs, SetMulti(K, w, ttl)
      PROVE  Promised!Next
  <2>1. items' = [j \in Keys |->
           IF j \in K THEN [value |-> w[j], expiration |-> now + Lifetime(ttl)]
           ELSE IF j \in {} THEN NoItem ELSE items[j]]
    BY <1>4 DEF SetMulti
  <2> QED
    BY <1>4, <2>1, WritesAreAllowed DEF SetMulti
<1>5. ASSUME NEW K \in SUBSET Keys, Delete(K) PROVE Promised!Next
  BY <1>5, ForgettingIsAllowed DEF Delete
<1>6. CASE cleanup
  <2> DEFINE gone == {k \in Held : Expired(k)}
  <2>1. gone \in SUBSET Keys /\ items' = [k \in Keys |-> IF k \in gone THEN NoItem ELSE items[k]]
    BY <1>6 DEF cleanup, Held
  <2> HIDE DEF gone
  <2> QED
    BY <1>6, <2>1, ForgettingIsAllowed DEF cleanup
<1>7. ASSUME NEW p \in Readers, NEW k \in Keys, GetBegin(p, k) \/ Exists(p, k)
      PROVE  Promised!Next
  <2>1. Found(k) \in BOOLEAN
    BY Zenon DEF Found
  <2>2. Found(k) => items[k] # NoItem /\ now <= items[k].expiration
    BY <1>1 DEF Found, Expired
  <2>3. /\ answer' = [answer EXCEPT ![p] = IF Found(k) THEN items[k].value ELSE NotFound]
        /\ UNCHANGED <<now, items>>
    BY <1>7 DEF GetBegin, Exists
  <2> QED
    BY <2>1, <2>2, <2>3, ReadsAreAllowed
<1>8. ASSUME NEW p \in Readers, NEW k \in Keys, GetMulti(p, k) PROVE Promised!Next
  <2> DEFINE hit == items[k] # NoItem /\ now < items[k].expiration
  <2>1. hit \in BOOLEAN
    BY Zenon
  <2>2. hit => items[k] # NoItem /\ now <= items[k].expiration
    BY <1>1
  <2>3. /\ answer' = [answer EXCEPT ![p] = IF hit THEN items[k].value ELSE NotFound]
        /\ UNCHANGED <<now, items>>
    BY <1>8 DEF GetMulti
  <2> HIDE DEF hit
  <2> QED
    BY <2>1, <2>2, <2>3, ReadsAreAllowed
<1>9. CASE UNCHANGED <<now, items, answer>>
  BY <1>9
<1> QED
  BY <1>2, <1>3, <1>4, <1>5, <1>6, <1>7, <1>8, <1>9
     DEF Next, ReadStep, WriteStep, Close, GetEnd, vars

\* memory.go keeps the promise of cache.Cache: a read answers the latest value written
\* under the key, within its lifetime, or nothing, whatever is evicted, cleaned up or
\* read at the same time.
THEOREM CacheMeetsContract == Spec => ImplementsContract
<1>1. Init => Promised!Init
  BY DEF Init, Promised!Init, Promised!NoEntry, NoItem
<1> QED
  BY <1>1, CacheStepImplements, CacheTypeCorrect, PTL
     DEF Spec, ImplementsContract, Promised!Spec, Promised!cacheVars
=============================================================================
