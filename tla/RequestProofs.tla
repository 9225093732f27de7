---------------------------- MODULE RequestProofs ----------------------------
(***************************************************************************)
(* Proofs about the requests: what RateLimiter lets through, the counters  *)
(* and the token of RequestPipeline, the forms of WebForms, and what       *)
(* CliClient tells.                                                        *)
(***************************************************************************)
EXTENDS MCRequests, AnswerProofs, FiniteSetTheorems, TLAPS

(***************************************************************************)
(* RateLimiter, for every limit, duration, cleanup interval and set of     *)
(* clients.                                                                *)
(***************************************************************************)

\* The requests of c let through in the window that began at w.
InWindow(c, w) == {r \in accepted[c] : r.win = w}

(***************************************************************************)
(* The inductive invariant, client by client.  A request lies in its       *)
(* window, two windows of a client do not overlap, the current window      *)
(* comes after all others and counts its requests exactly, and a client    *)
(* without a window (never seen, or forgotten by the cleanup) has only     *)
(* windows that are over.  Requests are numbered, so each is a new one.    *)
(***************************************************************************)
InItsWindow(c) ==
  \A r \in accepted[c] : r.win <= r.at /\ r.at < r.win + Duration /\ r.at <= now
WindowsDisjoint(c) ==
  \A r, q \in accepted[c] :
    r.win = q.win \/ r.win + Duration <= q.win \/ q.win + Duration <= r.win
CurrentIsLast(c) ==
  Exists(c) => /\ windows[c].windowTime <= now
               /\ \A r \in accepted[c] : \/ r.win = windows[c].windowTime
                                         \/ r.win + Duration <= windows[c].windowTime
CountIsExact(c) ==
  Exists(c) => /\ windows[c].requests = Cardinality(InWindow(c, windows[c].windowTime))
               /\ windows[c].requests <= Limit
ForgottenIsOver(c) ==
  ~Exists(c) => \A r \in accepted[c] : r.win + Duration <= now
NoWindowOverLimit(c) ==
  \A w \in Nat : Cardinality(InWindow(c, w)) <= Limit
Numbered(c) ==
  IsFiniteSet(accepted[c]) /\ \A r \in accepted[c] : r.n <= Cardinality(accepted[c])

ClientInv(c) ==
  /\ InItsWindow(c) /\ WindowsDisjoint(c) /\ CurrentIsLast(c) /\ CountIsExact(c)
  /\ ForgottenIsOver(c) /\ NoWindowOverLimit(c) /\ Numbered(c)

LimiterInv == TypeOK /\ \A c \in Clients : ClientInv(c)
-----------------------------------------------------------------------------
\* Sets of accepted requests are finite.
LEMMA WindowFinite ==
  ASSUME NEW c, Numbered(c), NEW w
  PROVE  IsFiniteSet(InWindow(c, w)) /\ Cardinality(InWindow(c, w)) \in Nat
<1>1. InWindow(c, w) \subseteq accepted[c]
  BY DEF InWindow
<1> QED
  BY <1>1, FS_Subset, FS_CardinalityType DEF Numbered

\* A client whose requests and window a step leaves alone keeps its invariant.
LEMMA ClientUntouched ==
  ASSUME TypeOK, NEW c \in Clients, ClientInv(c), now' \in Int, now' >= now,
         accepted'[c] = accepted[c], windows'[c] = windows[c]
  PROVE  ClientInv(c)'
<1> USE LimiterAssumption
<1>1. now \in Int /\ \A r \in accepted[c] : r \in Request
  BY DEF TypeOK
<1>2. \A r \in accepted[c] : r.at \in Nat /\ r.win \in Nat
  BY <1>1 DEF Request
<1>3. InItsWindow(c)' /\ ForgottenIsOver(c)'
  BY <1>1, <1>2 DEF ClientInv, InItsWindow, ForgottenIsOver, Exists
<1>4. WindowsDisjoint(c)' /\ Numbered(c)'
  BY DEF ClientInv, WindowsDisjoint, Numbered
<1>5. CurrentIsLast(c)'
  <2>1. windows[c].windowTime \in Nat
    BY DEF TypeOK, Window, NoWindow
  <2> QED
    BY <1>1, <2>1 DEF ClientInv, CurrentIsLast, Exists
<1>6. \A w : InWindow(c, w)' = InWindow(c, w)
  BY DEF InWindow
<1>7. CountIsExact(c)' /\ NoWindowOverLimit(c)'
  BY <1>6 DEF ClientInv, CountIsExact, NoWindowOverLimit, Exists, InWindow
<1> QED
  BY <1>3, <1>4, <1>5, <1>7 DEF ClientInv

\* What letting a request through adds, in the window that begins at w.
LEMMA AcceptAdds ==
  ASSUME TypeOK, NEW c \in Clients, ClientInv(c), NEW w \in Nat, Accept(c, w)
  PROVE  \E r \in Request :
           /\ r.at = now /\ r.win = w /\ r \notin accepted[c]
           /\ accepted'[c] = accepted[c] \cup {r}
           /\ accepted' \in [Clients -> SUBSET Request]
           /\ \A d \in Clients \ {c} : accepted'[d] = accepted[d]
           /\ Numbered(c)'
           /\ \A v \in Nat \ {w} : InWindow(c, v)' = InWindow(c, v)
           /\ Cardinality(InWindow(c, w)') = Cardinality(InWindow(c, w)) + 1
<1> USE LimiterAssumption
<1> DEFINE k == Cardinality(accepted[c])  r == [at |-> now, win |-> w, n |-> k + 1]
<1>1. k \in Nat /\ IsFiniteSet(accepted[c]) /\ \A q \in accepted[c] : q \in Request /\ q.n <= k
  BY FS_CardinalityType DEF ClientInv, Numbered, TypeOK
<1> HIDE DEF k
<1>2. r \in Request /\ r.at = now /\ r.win = w /\ r.n = k + 1
  BY <1>1 DEF Request, TypeOK
<1>3. accepted' = [accepted EXCEPT ![c] = accepted[c] \cup {r}]
  BY DEF Accept, k
<1> HIDE DEF r
<1>4. r \notin accepted[c]
  BY <1>1, <1>2
<1>5. /\ accepted'[c] = accepted[c] \cup {r}
      /\ accepted' \in [Clients -> SUBSET Request]
      /\ \A d \in Clients \ {c} : accepted'[d] = accepted[d]
  BY <1>2, <1>3 DEF TypeOK
<1>6. IsFiniteSet(accepted'[c]) /\ Cardinality(accepted'[c]) = k + 1
  BY <1>1, <1>4, <1>5, FS_AddElement DEF k
<1>7. Numbered(c)'
  <2> SUFFICES ASSUME NEW q \in accepted'[c] PROVE q.n <= k + 1
    BY <1>6 DEF Numbered
  <2>1. CASE q = r
    BY <1>1, <1>2, <2>1
  <2>2. CASE q \in accepted[c]
    BY <1>1, <2>2 DEF Request
  <2> QED
    BY <1>5, <2>1, <2>2
<1>8. \A v \in Nat \ {w} : InWindow(c, v)' = InWindow(c, v)
  BY <1>2, <1>5 DEF InWindow
<1>9. InWindow(c, w)' = InWindow(c, w) \cup {r} /\ r \notin InWindow(c, w)
  BY <1>2, <1>4, <1>5 DEF InWindow
<1>10. IsFiniteSet(InWindow(c, w))
  BY WindowFinite DEF ClientInv
<1>11. Cardinality(InWindow(c, w)') = Cardinality(InWindow(c, w)) + 1
  BY <1>9, <1>10, FS_AddElement
<1> QED
  BY <1>2, <1>4, <1>5, <1>7, <1>8, <1>11

LEMMA InvFirst ==
  ASSUME LimiterInv, NEW c \in Clients, AllowFirst(c)
  PROVE  LimiterInv'
<1> USE LimiterAssumption
<1>0. TypeOK /\ ClientInv(c) /\ now \in Nat /\ now \in Int /\ UNCHANGED <<now, ticker>>
  BY DEF LimiterInv, TypeOK, AllowFirst
<1>1. PICK r \in Request :
           /\ r.at = now /\ r.win = now /\ r \notin accepted[c]
           /\ accepted'[c] = accepted[c] \cup {r}
           /\ accepted' \in [Clients -> SUBSET Request]
           /\ \A d \in Clients \ {c} : accepted'[d] = accepted[d]
           /\ Numbered(c)'
           /\ \A v \in Nat \ {now} : InWindow(c, v)' = InWindow(c, v)
           /\ Cardinality(InWindow(c, now)') = Cardinality(InWindow(c, now)) + 1
  BY <1>0, AcceptAdds DEF AllowFirst
<1>2. /\ windows' \in [Clients -> Window \cup {NoWindow}]
      /\ windows'[c] = [requests |-> 1, windowTime |-> now]
      /\ \A d \in Clients \ {c} : windows'[d] = windows[d]
  BY <1>0 DEF AllowFirst, TypeOK, Window
<1>3. TypeOK'
  BY <1>0, <1>1, <1>2 DEF TypeOK
<1>4. \A q \in accepted[c] : q \in Request /\ q.win \in Nat /\ q.at \in Nat
  BY <1>0 DEF TypeOK, Request
<1>5. \A q \in accepted[c] : q.win + Duration <= now
  <2>1. CASE ~Exists(c)
    BY <1>0, <2>1 DEF ClientInv, ForgottenIsOver
  <2>2. CASE Exists(c) /\ Elapsed(c) >= Duration
    <3>1. windows[c].windowTime \in Nat
      BY <1>0 DEF TypeOK, Window, NoWindow
    <3>2. windows[c].windowTime + Duration <= now
      BY <1>0, <2>2, <3>1 DEF Elapsed
    <3> QED
      BY <1>0, <1>4, <2>2, <3>1, <3>2 DEF ClientInv, CurrentIsLast
  <2> QED
    BY <2>1, <2>2 DEF AllowFirst
<1>6. InWindow(c, now) = {}
  BY <1>0, <1>4, <1>5 DEF InWindow
<1>7. Cardinality(InWindow(c, now)') = 1
  BY <1>1, <1>6, FS_EmptySet
<1>8. ClientInv(c)'
  <2>1. InItsWindow(c)'
    BY <1>0, <1>1 DEF ClientInv, InItsWindow
  <2>2. WindowsDisjoint(c)'
    BY <1>0, <1>1, <1>5 DEF ClientInv, WindowsDisjoint
  <2>3. windows'[c].windowTime = now /\ windows'[c].requests = 1 /\ Exists(c)'
    BY <1>2 DEF Exists, NoWindow
  <2>4. CurrentIsLast(c)'
    BY <1>0, <1>1, <1>5, <2>3 DEF CurrentIsLast
  <2>5. CountIsExact(c)'
    BY <1>0, <1>7, <2>3 DEF CountIsExact, InWindow
  <2>6. ForgottenIsOver(c)'
    BY <2>3 DEF ForgottenIsOver
  <2>7. NoWindowOverLimit(c)'
    <3> SUFFICES ASSUME NEW v \in Nat PROVE Cardinality(InWindow(c, v)') <= Limit
      BY DEF NoWindowOverLimit, InWindow
    <3>1. CASE v = now
      BY <1>0, <1>7, <3>1
    <3>2. CASE v # now
      <4>1. Cardinality(InWindow(c, v)) <= Limit
        BY <1>0 DEF ClientInv, NoWindowOverLimit
      <4>2. InWindow(c, v)' = InWindow(c, v)
        BY <1>1, <3>2
      <4> QED
        BY <4>1, <4>2
    <3> QED
      BY <3>1, <3>2
  <2> QED
    BY <1>1, <2>1, <2>2, <2>4, <2>5, <2>6, <2>7 DEF ClientInv
<1>9. \A d \in Clients \ {c} : ClientInv(d)'
  BY <1>0, <1>1, <1>2, ClientUntouched DEF LimiterInv
<1> QED
  BY <1>3, <1>8, <1>9 DEF LimiterInv

LEMMA InvNext ==
  ASSUME LimiterInv, NEW c \in Clients, AllowNext(c)
  PROVE  LimiterInv'
<1> USE LimiterAssumption
<1> DEFINE w == windows[c].windowTime  n == windows[c].requests
<1>0. TypeOK /\ ClientInv(c) /\ now \in Nat /\ now \in Int /\ UNCHANGED <<now, ticker>>
  BY DEF LimiterInv, TypeOK, AllowNext
<1>1. windows[c] \in Window /\ w \in Nat \ {0} /\ n \in Nat \ {0} /\ n < Limit
      /\ w <= now /\ now < w + Duration /\ Exists(c)
  <2>1. windows[c] \in Window /\ Exists(c) /\ n < Limit /\ now - w < Duration
    BY <1>0 DEF AllowNext, TypeOK, Exists, Elapsed
  <2>2. w \in Nat \ {0} /\ n \in Nat \ {0}
    BY <2>1 DEF Window
  <2> QED
    BY <1>0, <2>1, <2>2 DEF ClientInv, CurrentIsLast
<1>2. PICK r \in Request :
           /\ r.at = now /\ r.win = w /\ r \notin accepted[c]
           /\ accepted'[c] = accepted[c] \cup {r}
           /\ accepted' \in [Clients -> SUBSET Request]
           /\ \A d \in Clients \ {c} : accepted'[d] = accepted[d]
           /\ Numbered(c)'
           /\ \A v \in Nat \ {w} : InWindow(c, v)' = InWindow(c, v)
           /\ Cardinality(InWindow(c, w)') = Cardinality(InWindow(c, w)) + 1
  BY <1>0, <1>1, AcceptAdds DEF AllowNext
<1>3. /\ windows' \in [Clients -> Window \cup {NoWindow}]
      /\ windows'[c].requests = n + 1 /\ windows'[c].windowTime = w /\ windows'[c] \in Window
      /\ \A d \in Clients \ {c} : windows'[d] = windows[d]
  <2>1. ASSUME NEW x \in Window, NEW k \in Nat \ {0}
        PROVE  /\ [x EXCEPT !.requests = k] \in Window
               /\ [x EXCEPT !.requests = k].requests = k
               /\ [x EXCEPT !.requests = k].windowTime = x.windowTime
    BY <2>1 DEF Window
  <2>2. n + 1 \in Nat \ {0}
    BY <1>1
  <2>3. windows' = [windows EXCEPT ![c] = [windows[c] EXCEPT !.requests = n + 1]]
    BY DEF AllowNext
  <2> QED
    BY <1>0, <1>1, <2>1, <2>2, <2>3 DEF TypeOK
<1>4. TypeOK'
  BY <1>0, <1>2, <1>3 DEF TypeOK
<1>5. \A q \in accepted[c] : q \in Request /\ q.win \in Nat /\ q.at \in Nat
  BY <1>0 DEF TypeOK, Request
<1>6. \A q \in accepted[c] : q.win = w \/ q.win + Duration <= w
  BY <1>0, <1>1 DEF ClientInv, CurrentIsLast
<1>7. Cardinality(InWindow(c, w)') = n + 1
  BY <1>0, <1>1, <1>2 DEF ClientInv, CountIsExact
<1>8. ClientInv(c)'
  <2>1. InItsWindow(c)'
    BY <1>0, <1>1, <1>2 DEF ClientInv, InItsWindow
  <2>2. WindowsDisjoint(c)'
    BY <1>0, <1>2, <1>6 DEF ClientInv, WindowsDisjoint
  <2>3. Exists(c)'
    BY <1>3 DEF Exists, Window, NoWindow
  <2>4. CurrentIsLast(c)'
    BY <1>0, <1>1, <1>2, <1>3, <1>6 DEF CurrentIsLast
  <2>5. CountIsExact(c)'
    BY <1>1, <1>3, <1>7 DEF CountIsExact, InWindow
  <2>6. ForgottenIsOver(c)'
    BY <2>3 DEF ForgottenIsOver
  <2>7. NoWindowOverLimit(c)'
    <3> SUFFICES ASSUME NEW v \in Nat PROVE Cardinality(InWindow(c, v)') <= Limit
      BY DEF NoWindowOverLimit, InWindow
    <3>1. CASE v = w
      BY <1>1, <1>3, <1>7, <3>1
    <3>2. CASE v # w
      <4>1. Cardinality(InWindow(c, v)) <= Limit
        BY <1>0 DEF ClientInv, NoWindowOverLimit
      <4>2. InWindow(c, v)' = InWindow(c, v)
        BY <1>2, <3>2
      <4> QED
        BY <4>1, <4>2
    <3> QED
      BY <3>1, <3>2
  <2> QED
    BY <1>2, <2>1, <2>2, <2>4, <2>5, <2>6, <2>7 DEF ClientInv
<1>9. \A d \in Clients \ {c} : ClientInv(d)'
  BY <1>0, <1>2, <1>3, ClientUntouched DEF LimiterInv
<1> QED
  BY <1>4, <1>8, <1>9 DEF LimiterInv

\* The cleanup forgets a window only when every request in it is long over.
LEMMA InvCleanup ==
  ASSUME LimiterInv, cleanupExpired
  PROVE  LimiterInv'
<1> USE LimiterAssumption
<1>0. TypeOK /\ now \in Nat /\ now \in Int /\ UNCHANGED <<now, accepted>>
  BY DEF LimiterInv, TypeOK, cleanupExpired
<1>1. TypeOK'
  BY <1>0 DEF TypeOK, cleanupExpired
<1>2. ASSUME NEW c \in Clients PROVE ClientInv(c)'
  <2>1. ClientInv(c) /\ windows'[c] = IF Exists(c) /\ Elapsed(c) > Duration * 2
                                      THEN NoWindow ELSE windows[c]
    BY <1>2 DEF LimiterInv, cleanupExpired
  <2>2. CASE ~(Exists(c) /\ Elapsed(c) > Duration * 2)
    BY <1>0, <1>2, <2>1, <2>2, ClientUntouched
  <2>3. CASE Exists(c) /\ Elapsed(c) > Duration * 2
    <3>1. windows[c].windowTime \in Nat /\ now - windows[c].windowTime > Duration * 2
      BY <1>0, <1>2, <2>3 DEF TypeOK, Window, NoWindow, Elapsed
    <3>2. \A q \in accepted[c] : q.win \in Nat
      BY <1>0, <1>2 DEF TypeOK, Request
    <3>3. \A q \in accepted[c] : q.win + Duration <= now
      BY <1>0, <2>1, <2>3, <3>1, <3>2 DEF ClientInv, CurrentIsLast
    <3>4. ~Exists(c)'
      BY <2>1, <2>3 DEF Exists
    <3>5. InItsWindow(c)' /\ WindowsDisjoint(c)' /\ Numbered(c)'
      BY <1>0, <2>1 DEF ClientInv, InItsWindow, WindowsDisjoint, Numbered
    <3>6. CurrentIsLast(c)' /\ CountIsExact(c)' /\ ForgottenIsOver(c)'
      BY <1>0, <3>3, <3>4 DEF CurrentIsLast, CountIsExact, ForgottenIsOver
    <3>7. NoWindowOverLimit(c)'
      BY <1>0, <2>1 DEF ClientInv, NoWindowOverLimit, InWindow
    <3> QED
      BY <3>5, <3>6, <3>7 DEF ClientInv
  <2> QED
    BY <2>2, <2>3
<1> QED
  BY <1>1, <1>2 DEF LimiterInv

LEMMA LimiterCorrect == Spec => []LimiterInv
<1> USE LimiterAssumption
<1>1. Init => LimiterInv
  <2> SUFFICES ASSUME Init PROVE LimiterInv
    OBVIOUS
  <2>1. TypeOK
    BY DEF Init, TypeOK
  <2>2. ASSUME NEW c \in Clients PROVE ClientInv(c)
    <3>1. accepted[c] = {} /\ ~Exists(c)
      BY <2>2 DEF Init, Exists
    <3>2. \A w : InWindow(c, w) = {}
      BY <3>1 DEF InWindow
    <3>3. IsFiniteSet({}) /\ Cardinality({}) = 0
      BY FS_EmptySet
    <3> QED
      BY <3>1, <3>2, <3>3 DEF ClientInv, InItsWindow, WindowsDisjoint, CurrentIsLast,
         CountIsExact, ForgottenIsOver, NoWindowOverLimit, Numbered
  <2> QED
    BY <2>1, <2>2 DEF LimiterInv
<1>2. LimiterInv /\ [Next]_vars => LimiterInv'
  <2> SUFFICES ASSUME LimiterInv, [Next]_vars PROVE LimiterInv'
    OBVIOUS
  <2>1. ASSUME now' \in 1..MaxTime, now' >= now, UNCHANGED <<windows, ticker, accepted>>
        PROVE  LimiterInv'
    <3>1. TypeOK'
      BY <2>1 DEF LimiterInv, TypeOK
    <3>2. \A c \in Clients : ClientInv(c)'
      BY <2>1, ClientUntouched DEF LimiterInv
    <3> QED
      BY <3>1, <3>2 DEF LimiterInv
  <2>2. CASE Tick
    BY <2>1, <2>2 DEF Tick, LimiterInv, TypeOK
  <2>3. CASE UNCHANGED vars
    BY <2>1, <2>3 DEF vars, LimiterInv, TypeOK
  <2> QED
    BY <2>2, <2>3, InvFirst, InvNext, InvCleanup DEF Next, AllowRefused
<1> QED
  BY <1>1, <1>2, PTL DEF Spec
-----------------------------------------------------------------------------
(***************************************************************************)
(* A stretch of Duration meets at most two windows of a client, so at most *)
(* twice the limit gets through in it, whatever the limit, the duration    *)
(* and the cleanup interval.                                               *)
(***************************************************************************)
THEOREM AtMostTwice == Spec => []TwiceTheLimit
<1>1. LimiterInv => TwiceTheLimit
  <2> USE LimiterAssumption
  <2> SUFFICES ASSUME LimiterInv, NEW c \in Clients, NEW a \in 1..MaxTime
               PROVE  Cardinality(Within(c, a)) <= 2 * Limit
    BY DEF TwiceTheLimit
  <2>0. TypeOK /\ ClientInv(c) /\ Numbered(c)
    BY DEF LimiterInv, ClientInv
  <2>1. \A r \in Within(c, a) : /\ r \in accepted[c] /\ r.win \in Nat /\ r.at \in Nat
                                /\ r.win < a + Duration /\ a < r.win + Duration
    <3>1. \A r \in accepted[c] : r.win \in Nat /\ r.at \in Nat
      BY <2>0 DEF TypeOK, Request
    <3> QED
      BY <2>0, <3>1 DEF Within, ClientInv, InItsWindow
  <2>2. \A v \in Nat : /\ IsFiniteSet(InWindow(c, v))
                       /\ Cardinality(InWindow(c, v)) \in Nat
                       /\ Cardinality(InWindow(c, v)) <= Limit
    BY <2>0, WindowFinite DEF ClientInv, NoWindowOverLimit
  <2>3. CASE Within(c, a) = {}
    BY <2>3, FS_EmptySet
  <2>4. ASSUME NEW r \in Within(c, a) PROVE Cardinality(Within(c, a)) <= 2 * Limit
    <3>1. CASE \A q \in Within(c, a) : q.win = r.win
      <4>1. Within(c, a) \subseteq InWindow(c, r.win) /\ r.win \in Nat
        BY <2>1, <2>4, <3>1 DEF InWindow
      <4>2. Cardinality(Within(c, a)) <= Cardinality(InWindow(c, r.win))
        BY <2>2, <4>1, FS_Subset
      <4>3. Cardinality(Within(c, a)) \in Nat
        BY <2>2, <4>1, FS_Subset, FS_CardinalityType
      <4> QED
        BY <2>2, <4>1, <4>2, <4>3
    <3>2. ASSUME NEW s \in Within(c, a), s.win # r.win
          PROVE  Cardinality(Within(c, a)) <= 2 * Limit
      <4> DEFINE A == InWindow(c, r.win)  B == InWindow(c, s.win)
      <4>1. \A q \in Within(c, a) : q.win = r.win \/ q.win = s.win
        BY <2>0, <2>1, <2>4, <3>2 DEF ClientInv, WindowsDisjoint
      <4>2. Within(c, a) \subseteq A \cup B
        BY <2>1, <4>1 DEF InWindow
      <4>3. /\ IsFiniteSet(A) /\ IsFiniteSet(B)
            /\ Cardinality(A) \in Nat /\ Cardinality(B) \in Nat
            /\ Cardinality(A) <= Limit /\ Cardinality(B) <= Limit
        BY <2>1, <2>2, <2>4, <3>2
      <4> HIDE DEF A, B
      <4>4. /\ IsFiniteSet(A \cup B) /\ IsFiniteSet(A \cap B)
            /\ Cardinality(A \cup B) = Cardinality(A) + Cardinality(B) - Cardinality(A \cap B)
        BY <4>3, FS_Union, FS_Intersection
      <4>5. Cardinality(A \cap B) \in Nat /\ Cardinality(A \cup B) \in Nat
        BY <4>4, FS_CardinalityType
      <4>6. Cardinality(Within(c, a)) <= Cardinality(A \cup B)
        BY <4>2, <4>4, FS_Subset
      <4>7. Cardinality(Within(c, a)) \in Nat
        BY <4>2, <4>4, FS_Subset, FS_CardinalityType
      <4> QED
        BY <4>3, <4>4, <4>5, <4>6, <4>7
    <3> QED
      BY <3>1, <3>2
  <2> QED
    BY <2>3, <2>4
<1> QED
  BY <1>1, LimiterCorrect, PTL

(***************************************************************************)
(* A client is refused only if Limit of its requests were let through      *)
(* within the last Duration.                                               *)
(***************************************************************************)
THEOREM RefusalsAreDeserved == Spec => []RefusalIsDeserved
<1>1. LimiterInv => RefusalIsDeserved
  <2> USE LimiterAssumption
  <2> SUFFICES ASSUME LimiterInv, NEW c \in Clients, Refused(c)
               PROVE  Cardinality(Within(c, now - Duration + 1)) >= Limit
    BY DEF RefusalIsDeserved
  <2> DEFINE w == windows[c].windowTime  W == Within(c, now - Duration + 1)
  <2>0. TypeOK /\ ClientInv(c) /\ Numbered(c) /\ now \in Nat
    BY DEF LimiterInv, ClientInv, TypeOK
  <2>1. /\ w \in Nat /\ now - w < Duration
        /\ Cardinality(InWindow(c, w)) >= Limit
    <3>1. Exists(c) /\ windows[c].requests >= Limit /\ now - w < Duration
      BY DEF Refused, Elapsed
    <3>2. w \in Nat
      BY <2>0 DEF TypeOK, Window, NoWindow
    <3> QED
      BY <2>0, <3>1, <3>2 DEF ClientInv, CountIsExact
  <2>2. \A r \in accepted[c] : r.win \in Nat /\ r.at \in Nat
    BY <2>0 DEF TypeOK, Request
  <2>3. InWindow(c, w) \subseteq W
    BY <2>0, <2>1, <2>2 DEF InWindow, Within, ClientInv, InItsWindow
  <2>4. W \subseteq accepted[c] /\ IsFiniteSet(accepted[c])
    BY <2>0 DEF Within, Numbered
  <2>5. IsFiniteSet(W) /\ Cardinality(W) \in Nat
    BY <2>4, FS_Subset, FS_CardinalityType
  <2>6. Cardinality(InWindow(c, w)) <= Cardinality(W) /\ Cardinality(InWindow(c, w)) \in Nat
    BY <2>0, <2>3, <2>5, FS_Subset, WindowFinite
  <2> QED
    BY <2>1, <2>5, <2>6
<1> QED
  BY <1>1, LimiterCorrect, PTL


(***************************************************************************)
(* RequestPipeline, for any number of requests in flight, any requests,    *)
(* any number of days and any reloads.                                     *)
(***************************************************************************)

\* Where a request is while the gauge counts it, while it has been counted in the total
\* and not yet in the day, and the same with the one that resets the day's count.
Served == {"day", "load", "claim", "reset", "add", "handle", "serve", "close"}
Uncounted == {"day", "load", "claim", "add"}
Unstored == Uncounted \cup {"reset"}

\* Where a request may be.
Whereabouts == {"gone", "open"} \cup Served

\* A request is somewhere, and the counters are numbers.
PipeShape ==
  /\ DOMAIN flight = Handlers
  /\ \A h \in Handlers : "at" \in DOMAIN flight[h] /\ flight[h].at \in Whereabouts
  /\ stats.total \in Nat /\ stats.today \in Nat /\ stats.active \in Int
  /\ DOMAIN stats = {"total", "today", "dayStart", "active", "queries"}

\* The reset to 1 counts the request that resets and forgets those of the day before, so
\* what must stay below the total is the number of requests on their way to the count.
Headroom == Cardinality(In(Unstored)) <= stats.total

StatsInv == PipeShape /\ StatsHangTogether /\ Headroom

LEMMA FinitelyMany == ASSUME NEW A PROVE IsFiniteSet(In(A)) /\ Cardinality(In(A)) \in Nat
<1>1. IsFiniteSet(In(A))
  BY PipelineAssumption, FS_Subset DEF In
<1> QED
  BY <1>1, FS_CardinalityType

-----------------------------------------------------------------------------
\* One request moves.
Moves(h, place) ==
  /\ DOMAIN flight' = Handlers
  /\ "at" \in DOMAIN flight'[h] /\ flight'[h].at = place
  /\ \A g \in Handlers \ {h} : flight'[g] = flight[g]

\* It stays in a set of places, or outside it ...
LEMMA Stays ==
  ASSUME NEW h \in Handlers, NEW place, Moves(h, place), NEW A, flight[h].at \in A <=> place \in A
  PROVE  In(A)' = In(A)
BY DEF Moves, In

\* ... or enters it ...
LEMMA Enters ==
  ASSUME NEW h \in Handlers, NEW place, Moves(h, place), NEW A, flight[h].at \notin A, place \in A
  PROVE  Cardinality(In(A)') = Cardinality(In(A)) + 1
<1>1. In(A)' = In(A) \cup {h} /\ h \notin In(A)
  BY DEF Moves, In
<1> QED
  BY <1>1, FinitelyMany, FS_AddElement

\* ... or leaves it.
LEMMA Leaves ==
  ASSUME NEW h \in Handlers, NEW place, Moves(h, place), NEW A, flight[h].at \in A, place \notin A
  PROVE  Cardinality(In(A)') = Cardinality(In(A)) - 1
<1>1. In(A)' = In(A) \ {h} /\ h \in In(A)
  BY DEF Moves, In
<1> QED
  BY <1>1, FinitelyMany, FS_RemoveElement

\* One request is changed: the others stay where they are.
LEMMA MovesIf ==
  ASSUME PipeShape, NEW h \in Handlers, NEW f, "at" \in DOMAIN f,
         flight' = [flight EXCEPT ![h] = f]
  PROVE  Moves(h, f.at)
BY DEF PipeShape, Moves

LEMMA MovesTo ==
  ASSUME PipeShape, NEW h \in Handlers, NEW place, flight' = [flight EXCEPT ![h].at = place]
  PROVE  Moves(h, place)
<1> DEFINE f == [flight[h] EXCEPT !.at = place]
<1>1. f.at = place /\ "at" \in DOMAIN f
  BY DEF PipeShape
<1>2. flight' = [flight EXCEPT ![h] = f]
  OBVIOUS
<1> QED
  BY <1>1, <1>2, MovesIf

\* The counters that matter here.
Counters == <<stats.total, stats.today, stats.active>>

\* What each step does to the request it moves, and to the counters.
Step(h, from, to, counters) ==
  /\ flight[h].at \in from /\ (\E place \in to : Moves(h, place))
  /\ Counters' = counters
  /\ DOMAIN stats' = DOMAIN stats

\* The steps of a request.
LEMMA Steps ==
  ASSUME PipeShape, NEW h \in Handlers
  PROVE  /\ EnterChain(h) => Step(h, {"gone"}, {"open", "gone"}, Counters)
         /\ Open(h) =>
               Step(h, {"open"}, {"day"}, <<stats.total + 1, stats.today, stats.active + 1>>)
         /\ LookAtDay(h) => Step(h, {"day"}, {"load"}, Counters)
         /\ LoadDay(h) => Step(h, {"load"}, {"add", "claim"}, Counters)
         /\ ClaimDay(h) => Step(h, {"claim"}, {"reset", "add"}, Counters)
         /\ StoreDay(h) /\ flight[h].at = "reset" =>
              Step(h, {"reset"}, {"handle"}, <<stats.total, 1, stats.active>>)
         /\ StoreDay(h) /\ flight[h].at # "reset" =>
              Step(h, {"add"}, {"handle"}, <<stats.total, stats.today + 1, stats.active>>)
         /\ Authorize(h) => Step(h, {"handle"}, {"serve", "close"}, Counters)
         /\ RunHandler(h) => Step(h, {"serve", "handle"}, {"close"}, Counters)
         /\ Panic(h) => Step(h, {"serve", "handle"}, {"close"}, Counters)
         /\ Close(h) =>
               Step(h, {"close"}, {"gone"}, <<stats.total, stats.today, stats.active - 1>>)
<1>1. ASSUME EnterChain(h) PROVE Step(h, {"gone"}, {"open", "gone"}, Counters)
  <2>1. PICK f \in {[at |-> "open", q |-> q] : q \in Shapes} \cup {Gone} :
          flight' = [flight EXCEPT ![h] = f]
    <3>1. PICK q \in Shapes : \E s :
            flight' = [flight EXCEPT ![h] = IF s = 0 THEN [at |-> "open", q |-> q] ELSE Gone]
      BY <1>1, Zenon DEF EnterChain
    <3>2. \/ flight' = [flight EXCEPT ![h] = [at |-> "open", q |-> q]]
          \/ flight' = [flight EXCEPT ![h] = Gone]
      BY <3>1, Zenon
    <3> QED
      BY <3>2, Zenon
  <2>2. "at" \in DOMAIN f /\ f.at \in {"open", "gone"}
    BY DEF Gone
  <2>3. Moves(h, f.at)
    BY <2>1, <2>2, MovesIf
  <2> QED
    BY <1>1, <2>2, <2>3 DEF EnterChain, Step, Gone, Counters
<1>2. ASSUME Open(h)
      PROVE  Step(h, {"open"}, {"day"}, <<stats.total + 1, stats.today, stats.active + 1>>)
  <2>1. Moves(h, "day")
    BY <1>2, MovesTo DEF Open
  <2>2. /\ Counters' = <<stats.total + 1, stats.today, stats.active + 1>>
        /\ DOMAIN stats' = DOMAIN stats
    BY <1>2 DEF Open, Counters, PipeShape
  <2> QED
    BY <1>2, <2>1, <2>2 DEF Step, Open
<1>3. ASSUME LookAtDay(h) PROVE Step(h, {"day"}, {"load"}, Counters)
  <2> DEFINE f == [at |-> "load", q |-> flight[h].q, today |-> utcDay]
  <2>1. flight' = [flight EXCEPT ![h] = f]
    BY <1>3 DEF LookAtDay
  <2>2. Moves(h, f.at)
    BY <2>1, MovesIf
  <2> QED
    BY <1>3, <2>2 DEF LookAtDay, Step, Counters
<1>4. ASSUME LoadDay(h) PROVE Step(h, {"load"}, {"add", "claim"}, Counters)
  <2> DEFINE f == [at |-> IF stats.dayStart = flight[h].today THEN "add" ELSE "claim",
                   q |-> flight[h].q, today |-> flight[h].today, old |-> stats.dayStart]
  <2>1. flight' = [flight EXCEPT ![h] = f]
    BY <1>4 DEF LoadDay
  <2>2. Moves(h, f.at)
    BY <2>1, MovesIf
  <2> QED
    BY <1>4, <2>2 DEF LoadDay, Step, Counters
<1>5. ASSUME ClaimDay(h) PROVE Step(h, {"claim"}, {"reset", "add"}, Counters)
  <2>1. Moves(h, "reset") \/ Moves(h, "add")
    BY <1>5, MovesTo DEF ClaimDay
  <2>2. Counters' = Counters /\ DOMAIN stats' = DOMAIN stats
    BY <1>5 DEF ClaimDay, Counters, PipeShape
  <2> QED
    BY <1>5, <2>1, <2>2 DEF ClaimDay, Step
<1>6. ASSUME StoreDay(h)
      PROVE  /\ flight[h].at = "reset" =>
                  Step(h, {"reset"}, {"handle"}, <<stats.total, 1, stats.active>>)
             /\ flight[h].at # "reset" =>
                  Step(h, {"add"}, {"handle"}, <<stats.total, stats.today + 1, stats.active>>)
  <2> DEFINE f == [at |-> "handle", q |-> flight[h].q]
  <2>1. flight' = [flight EXCEPT ![h] = f]
    BY <1>6 DEF StoreDay
  <2>2. Moves(h, f.at)
    BY <2>1, MovesIf
  <2>3. Counters' = <<stats.total, Stored(h), stats.active>> /\ DOMAIN stats' = DOMAIN stats
    BY <1>6 DEF StoreDay, Counters, PipeShape
  <2> QED
    BY <1>6, <2>2, <2>3 DEF StoreDay, Step, Stored
<1>7. ASSUME Authorize(h) PROVE Step(h, {"handle"}, {"serve", "close"}, Counters)
  <2>1. Moves(h, "serve") \/ flight' = [flight EXCEPT ![h] = [at |-> "close"]]
    BY <1>7, MovesTo DEF Authorize
  <2>2. Moves(h, "serve") \/ Moves(h, [at |-> "close"].at)
    BY <2>1, MovesIf
  <2> QED
    BY <1>7, <2>2 DEF Authorize, Step, Counters
<1>8. ASSUME RunHandler(h) \/ Panic(h) PROVE Step(h, {"serve", "handle"}, {"close"}, Counters)
  <2>1. flight' = [flight EXCEPT ![h] = [at |-> "close"]]
    BY <1>8 DEF RunHandler, Panic, AfterPanic
  <2>2. Moves(h, [at |-> "close"].at)
    BY <2>1, MovesIf
  <2>3. Counters' = Counters /\ DOMAIN stats' = DOMAIN stats
    BY <1>8 DEF RunHandler, Panic, Counters, PipeShape
  <2> QED
    BY <1>8, <2>2, <2>3 DEF RunHandler, Panic, Step
<1>9. ASSUME Close(h)
      PROVE  Step(h, {"close"}, {"gone"}, <<stats.total, stats.today, stats.active - 1>>)
  <2>1. Moves(h, Gone.at)
    BY <1>9, MovesIf DEF Close, Gone
  <2>2. /\ Counters' = <<stats.total, stats.today, stats.active - 1>>
        /\ DOMAIN stats' = DOMAIN stats
    BY <1>9 DEF Close, Counters, PipeShape
  <2> QED
    BY <1>9, <2>1, <2>2 DEF Close, Gone, Step
<1> QED
  BY <1>1, <1>2, <1>3, <1>4, <1>5, <1>6, <1>7, <1>8, <1>9

-----------------------------------------------------------------------------
\* The number of requests in each of the three sets.
Gauge == Cardinality(In(Served))
Coming == Cardinality(In(Uncounted))
Storing == Cardinality(In(Unstored))

LEMMA InvIsAboutThem ==
  /\ StatsInv <=> /\ PipeShape
                  /\ stats.active = Gauge /\ stats.today + Coming <= stats.total
                  /\ Storing <= stats.total
  /\ StatsInv' <=> /\ PipeShape'
                   /\ stats'.active = Gauge' /\ stats'.today + Coming' <= stats'.total
                   /\ Storing' <= stats'.total
BY Zenon DEF StatsInv, StatsHangTogether, Headroom, Gauge, Coming, Storing, Served, Uncounted

\* A step moves one request, and the numbers with it.
LEMMA NumbersMove ==
  ASSUME NEW h \in Handlers, NEW place, Moves(h, place)
  PROVE  /\ (flight[h].at \in Served <=> place \in Served) => Gauge' = Gauge
         /\ flight[h].at \notin Served /\ place \in Served => Gauge' = Gauge + 1
         /\ flight[h].at \in Served /\ place \notin Served => Gauge' = Gauge - 1
         /\ (flight[h].at \in Uncounted <=> place \in Uncounted) => Coming' = Coming
         /\ flight[h].at \notin Uncounted /\ place \in Uncounted => Coming' = Coming + 1
         /\ flight[h].at \in Uncounted /\ place \notin Uncounted => Coming' = Coming - 1
         /\ (flight[h].at \in Unstored <=> place \in Unstored) => Storing' = Storing
         /\ flight[h].at \notin Unstored /\ place \in Unstored => Storing' = Storing + 1
         /\ flight[h].at \in Unstored /\ place \notin Unstored => Storing' = Storing - 1
BY Stays, Enters, Leaves DEF Gauge, Coming, Storing

\* A step of one request leaves the shape of the data as it was.
LEMMA ShapeKept ==
  ASSUME PipeShape, NEW h \in Handlers, NEW from, NEW to \in SUBSET Whereabouts,
         NEW total \in Nat, NEW today \in Nat, NEW active \in Int,
         Step(h, from, to, <<total, today, active>>)
  PROVE  PipeShape'
BY DEF PipeShape, Step, Moves, Counters

\* The requests that reset the day's count are on their way to it.
LEMMA ResettingIsStoring ==
  ASSUME NEW h \in Handlers, flight[h].at = "reset"
  PROVE  Coming + 1 <= Storing
<1>1. In(Uncounted) \cup {h} \subseteq In(Unstored) /\ h \notin In(Uncounted)
  BY DEF In, Uncounted, Unstored
<1>2. Cardinality(In(Uncounted) \cup {h}) = Coming + 1
  BY <1>1, FinitelyMany, FS_AddElement DEF Coming
<1>3. Cardinality(In(Uncounted) \cup {h}) <= Storing
  BY <1>1, FinitelyMany, FS_Subset DEF Storing
<1> QED
  BY <1>2, <1>3

\* A step that leaves the counters alone and moves a request forward but not past them.
LEMMA QuietStep ==
  ASSUME StatsInv, NEW h \in Handlers, NEW from, NEW to \in SUBSET Whereabouts,
         Step(h, from, to, Counters),
         \A a \in from, b \in to :
           /\ a \in Served <=> b \in Served
           /\ b \in Uncounted => a \in Uncounted
           /\ a \in Unstored <=> b \in Unstored
  PROVE  StatsInv'
<1>1. /\ PipeShape /\ stats.active = Gauge /\ stats.today + Coming <= stats.total
      /\ Storing <= stats.total
      /\ stats.total \in Nat /\ stats.today \in Nat /\ stats.active \in Int
      /\ Coming \in Nat
  BY InvIsAboutThem, FinitelyMany DEF PipeShape, Coming
<1>2. PICK place \in to : Moves(h, place)
  BY DEF Step
<1>3. Gauge' = Gauge /\ Storing' = Storing /\ (Coming' = Coming \/ Coming' = Coming - 1)
  <2>1. /\ flight[h].at \in Served <=> place \in Served
        /\ place \in Uncounted => flight[h].at \in Uncounted
        /\ flight[h].at \in Unstored <=> place \in Unstored
    BY <1>2, Zenon DEF Step
  <2> QED
    BY <1>2, <2>1, NumbersMove, Zenon
<1>4. stats'.total = stats.total /\ stats'.today = stats.today /\ stats'.active = stats.active
  BY DEF Step, Counters
<1>5. PipeShape'
  BY <1>1, ShapeKept DEF Counters
<1> QED
  BY <1>1, <1>3, <1>4, <1>5, InvIsAboutThem

\* Every step keeps the counters together.
LEMMA StatsInvStep == StatsInv /\ [PipeNext]_pipeVars => StatsInv'
<1> SUFFICES ASSUME StatsInv, [PipeNext]_pipeVars PROVE StatsInv'
  OBVIOUS
<1> DEFINE total == stats.total  today == stats.today  active == stats.active
<1>1. /\ PipeShape /\ active = Gauge /\ today + Coming <= total /\ Storing <= total
      /\ total \in Nat /\ today \in Nat /\ active \in Int
      /\ Gauge \in Nat /\ Coming \in Nat /\ Storing \in Nat
  BY InvIsAboutThem, FinitelyMany DEF PipeShape, Gauge, Coming, Storing
<1>2. ASSUME NEW h \in Handlers, Open(h) PROVE StatsInv'
  <2>1. Step(h, {"open"}, {"day"}, <<total + 1, today, active + 1>>)
    BY <1>1, <1>2, Steps
  <2>2. stats'.total = total + 1 /\ stats'.today = today /\ stats'.active = active + 1
    BY <2>1 DEF Step, Counters
  <2>3. Gauge' = Gauge + 1 /\ Coming' = Coming + 1 /\ Storing' = Storing + 1
    BY <2>1, NumbersMove DEF Step, Served, Uncounted, Unstored
  <2>4. PipeShape'
    BY <1>1, <2>1, ShapeKept DEF Whereabouts, Served
  <2> QED
    BY <1>1, <2>2, <2>3, <2>4, InvIsAboutThem
<1>3. ASSUME NEW h \in Handlers, StoreDay(h) PROVE StatsInv'
  <2>1. CASE flight[h].at = "reset"
    <3>1. Step(h, {"reset"}, {"handle"}, <<total, 1, active>>)
      BY <1>1, <1>3, <2>1, Steps
    <3>2. stats'.total = total /\ stats'.today = 1 /\ stats'.active = active
      BY <3>1 DEF Step, Counters
    <3>3. Gauge' = Gauge /\ Coming' = Coming /\ Storing' = Storing - 1
      BY <3>1, NumbersMove DEF Step, Served, Uncounted, Unstored
    <3>4. PipeShape'
      BY <1>1, <3>1, ShapeKept DEF Whereabouts, Served
    <3> QED
      BY <1>1, <2>1, <3>2, <3>3, <3>4, InvIsAboutThem, ResettingIsStoring
  <2>2. CASE flight[h].at # "reset"
    <3>1. Step(h, {"add"}, {"handle"}, <<total, today + 1, active>>)
      BY <1>1, <1>3, <2>2, Steps
    <3>2. stats'.total = total /\ stats'.today = today + 1 /\ stats'.active = active
      BY <3>1 DEF Step, Counters
    <3>3. Gauge' = Gauge /\ Coming' = Coming - 1 /\ Storing' = Storing - 1
      BY <3>1, NumbersMove DEF Step, Served, Uncounted, Unstored
    <3>4. PipeShape'
      BY <1>1, <3>1, ShapeKept DEF Whereabouts, Served
    <3> QED
      BY <1>1, <3>2, <3>3, <3>4, InvIsAboutThem
  <2> QED
    BY <2>1, <2>2
<1>4. ASSUME NEW h \in Handlers, Close(h) PROVE StatsInv'
  <2>1. Step(h, {"close"}, {"gone"}, <<total, today, active - 1>>)
    BY <1>1, <1>4, Steps
  <2>2. stats'.total = total /\ stats'.today = today /\ stats'.active = active - 1
    BY <2>1 DEF Step, Counters
  <2>3. Gauge' = Gauge - 1 /\ Coming' = Coming /\ Storing' = Storing
    BY <2>1, NumbersMove DEF Step, Served, Uncounted, Unstored
  <2>4. PipeShape'
    BY <1>1, <2>1, ShapeKept DEF Whereabouts, Served
  <2> QED
    BY <1>1, <2>2, <2>3, <2>4, InvIsAboutThem
<1>5. ASSUME NEW h \in Handlers, EnterChain(h) PROVE StatsInv'
  <2>1. Step(h, {"gone"}, {"open", "gone"}, Counters)
    BY <1>1, <1>5, Steps
  <2> QED
    BY <2>1, QuietStep DEF Whereabouts, Served, Uncounted, Unstored
<1>6. ASSUME NEW h \in Handlers, LookAtDay(h) \/ LoadDay(h) \/ ClaimDay(h) PROVE StatsInv'
  <2>1. \/ Step(h, {"day"}, {"load"}, Counters)
        \/ Step(h, {"load"}, {"add", "claim"}, Counters)
        \/ Step(h, {"claim"}, {"reset", "add"}, Counters)
    BY <1>1, <1>6, Steps
  <2> QED
    BY <2>1, QuietStep DEF Whereabouts, Served, Uncounted, Unstored
<1>7. ASSUME NEW h \in Handlers, Authorize(h) \/ RunHandler(h) \/ Panic(h) PROVE StatsInv'
  <2>1. \/ Step(h, {"handle"}, {"serve", "close"}, Counters)
        \/ Step(h, {"serve", "handle"}, {"close"}, Counters)
    BY <1>1, <1>7, Steps
  <2> QED
    BY <2>1, QuietStep DEF Whereabouts, Served, Uncounted, Unstored
<1>8. CASE UNCHANGED <<flight, stats>>
  BY <1>8 DEF StatsInv, PipeShape, StatsHangTogether, Headroom, In
<1> QED
  BY <1>2, <1>3, <1>4, <1>5, <1>6, <1>7, <1>8 DEF PipeNext, ReloadToken, Midnight, pipeVars

-----------------------------------------------------------------------------
\* The counters fit the requests in flight.
LEMMA CountersFit == PipeSpec => []StatsInv
<1>1. PipeInit => StatsInv
  <2> SUFFICES ASSUME PipeInit PROVE StatsInv
    OBVIOUS
  <2>1. PipeShape
    BY DEF PipeInit, PipeShape, Gone, Whereabouts
  <2>2. \A A \in {Served, Uncounted, Unstored} : In(A) = {}
    BY DEF PipeInit, In, Gone, Served, Uncounted, Unstored
  <2>3. Gauge = 0 /\ Coming = 0 /\ Storing = 0
    BY <2>2, FS_EmptySet DEF Gauge, Coming, Storing
  <2>4. stats.total = 0 /\ stats.today = 0 /\ stats.active = 0
    BY DEF PipeInit
  <2> QED
    BY <2>1, <2>3, <2>4, InvIsAboutThem
<1> QED
  BY <1>1, StatsInvStep, PTL DEF PipeSpec

\* What /healthz reports hangs together, whatever interleaves at midnight and whichever
\* handler panics (recordRequest, connOpen, connClose).
THEOREM StatsAreConsistent == PipeSpec => []StatsHangTogether
<1>1. StatsInv => StatsHangTogether
  BY DEF StatsInv
<1> QED
  BY <1>1, CountersFit, PTL

\* Only the token of the hash is let in, and the hash is taken once.
HashDecides ==
  /\ tokenHash \in ServerTokens \cup {NoBearer}
  /\ serverToken \in ServerTokens
  /\ letIn \subseteq {tokenHash} \ {NoBearer}

\* The hash stays.
LEMMA HashStays == PipeSpec => []HashDecides
<1>1. PipeInit => HashDecides
  BY DEF PipeInit, HashDecides
<1>2. HashDecides /\ [PipeNext]_pipeVars => HashDecides'
  <2> SUFFICES ASSUME HashDecides, [PipeNext]_pipeVars PROVE HashDecides'
    OBVIOUS
  <2>1. ASSUME NEW h \in Handlers, Authorize(h) PROVE HashDecides'
    <3>1. /\ tokenHash' = tokenHash \/ (tokenHash = NoBearer /\ tokenHash' = serverToken)
          /\ UNCHANGED serverToken
      BY <2>1 DEF Authorize, Hash
    <3>2. letIn' \subseteq letIn \cup {tokenHash'} /\ (letIn' = letIn \/ tokenHash' # NoBearer)
      BY <2>1 DEF Authorize
    <3> QED
      BY <3>1, <3>2, PipelineAssumption DEF HashDecides
  <2>2. CASE ReloadToken
    BY <2>2 DEF ReloadToken, HashDecides
  <2>3. CASE UNCHANGED <<serverToken, tokenHash, letIn>>
    BY <2>3 DEF HashDecides
  <2> QED
    BY <2>1, <2>2, <2>3
       DEF PipeNext, Midnight, EnterChain, Open, LookAtDay, LoadDay, ClaimDay, StoreDay,
           RunHandler, Panic, Close, pipeVars
<1> QED
  BY <1>1, <1>2, PTL DEF PipeSpec

\* One process accepts one token, whatever reloads bring (getServerTokenHash,
\* requireToken).
THEOREM TokenIsOne == PipeSpec => []OneToken
<1>1. HashDecides => OneToken
  <2> SUFFICES ASSUME HashDecides PROVE Cardinality(letIn) <= 1
    BY DEF OneToken
  <2>1. IsFiniteSet({tokenHash}) /\ Cardinality({tokenHash}) = 1
    BY FS_Singleton
  <2>2. letIn \subseteq {tokenHash}
    BY DEF HashDecides
  <2> QED
    BY <2>1, <2>2, FS_Subset
<1> QED
  BY <1>1, HashStays, PTL


(***************************************************************************)
(* WebForms, for any number of tabs and any announcements.                 *)
(***************************************************************************)

\* A tab as such: it brings no cookie of its own once its page is there, and a page that
\* was refused was an early one.
TabShape(x) ==
  /\ x = [at |-> x.at, forms |-> x.forms, set |-> x.set, early |-> x.early]
  /\ x.early \in BOOLEAN
  /\ DOMAIN x.forms \subseteq {"page", "ccpa", "consent"} \cup Announcements
  /\ x.at # "loading" => "csrf" \notin DOMAIN x.set
  /\ x.at \in {"refusing", "refused"} => x.early

\* A tab among the others: a page that is not early means a settled cookie, which its
\* forms show.
TabFits(x) ==
  x.at \in {"loading", "shown"} /\ ~x.early =>
    Settled /\ \A f \in DOMAIN x.forms : x.forms[f] = jar.csrf

FormsInv ==
  /\ "csrf" \in DOMAIN jar
  /\ DOMAIN tab = Tabs /\ tab = [t \in Tabs |-> tab[t]]
  /\ \A t \in Tabs : TabShape(tab[t]) /\ TabFits(tab[t])

\* A tab of which the place and the cookies change.
LEMMA TabWith ==
  ASSUME NEW o, o = [at |-> o.at, forms |-> o.forms, set |-> o.set, early |-> o.early],
         NEW place, NEW set
  PROVE  [o EXCEPT !.at = place, !.set = set]
           = [at |-> place, forms |-> o.forms, set |-> set, early |-> o.early]
<1>1. PICK a, b, c, d : o = [at |-> a, forms |-> b, set |-> c, early |-> d]
  OBVIOUS
<1>2. PICK y : y = [o EXCEPT !.at = place]
  OBVIOUS
<1>3. y = [at |-> place, forms |-> b, set |-> c, early |-> d]
  BY <1>1, <1>2
<1>4. [y EXCEPT !.set = set] = [at |-> place, forms |-> b, set |-> set, early |-> d]
  BY <1>3
<1>5. o.forms = b /\ o.early = d
  BY <1>1
<1> QED
  BY <1>2, <1>4, <1>5

\* One tab changes and nobody's cookie is lost.
LEMMA OneTabChanges ==
  ASSUME FormsInv, NEW t \in Tabs, NEW x, tab' = [tab EXCEPT ![t] = x],
         "csrf" \in DOMAIN jar', Settled => jar'.csrf = jar.csrf,
         TabShape(x), Settled /\ x.at = "loading" => "csrf" \notin DOMAIN x.set,
         TabFits(x)'
  PROVE  FormsInv'
<1>1. /\ DOMAIN tab' = Tabs /\ tab' = [u \in Tabs |-> tab'[u]] /\ tab'[t] = x
      /\ \A u \in Tabs : u # t => tab'[u] = tab[u]
  BY DEF FormsInv
<1>2. Settled => Settled' /\ jar'.csrf = jar.csrf
  <2> SUFFICES ASSUME Settled PROVE Settled'
    OBVIOUS
  <2>1. jar.csrf # NoToken /\ \A u \in Tabs : tab[u].at = "loading" => "csrf" \notin DOMAIN tab[u].set
    BY DEF Settled
  <2>2. \A u \in Tabs : tab'[u].at = "loading" => "csrf" \notin DOMAIN tab'[u].set
    BY <1>1, <2>1
  <2> QED
    BY <2>1, <2>2 DEF Settled
<1>3. ASSUME NEW u \in Tabs PROVE TabShape(tab'[u]) /\ TabFits(tab[u])'
  <2>1. CASE u = t
    BY <1>1, <2>1 DEF TabShape, TabFits
  <2>2. CASE u # t
    <3>1. tab'[u] = tab[u] /\ TabShape(tab[u]) /\ TabFits(tab[u])
      BY <1>1, <2>2 DEF FormsInv
    <3> QED
      BY <1>2, <3>1 DEF TabFits
  <2> QED
    BY <2>1, <2>2
<1>4. \A u \in Tabs : TabShape(tab[u])' /\ TabFits(tab[u])'
  BY <1>3 DEF TabShape
<1> QED
  BY <1>1, <1>4 DEF FormsInv

\* The page that the server makes for a browser with a settled cookie sets none, and its
\* forms show that cookie.
LEMMA PageIsRight ==
  ASSUME WebFormsAssumption, NEW cookies, NEW current \in SUBSET Announcements
  PROVE  LET x == Page(cookies, current)
         IN  /\ x.at = "loading" /\ x.early = ~Settled /\ TabShape(x)
             /\ cookies.csrf # NoToken =>
                  "csrf" \notin DOMAIN x.set /\ \A f \in DOMAIN x.forms : x.forms[f] = cookies.csrf
<1> DEFINE notices == activeAnnouncements(cookies, current)
           banner == IF cookies.consent = "none" THEN {"consent"} ELSE {}
           x == Page(cookies, current)
<1>1. DOMAIN newPageData(cookies, current) = {"page", "ccpa"} \cup banner \cup notices
  BY DEF newPageData
<1>2. notices \subseteq Announcements /\ banner \subseteq {"consent"}
  BY DEF activeAnnouncements
<1>3. x.at = "loading" /\ x.early = ~Settled /\ x.forms = newPageData(cookies, current)
  BY DEF Page
<1>4. TabShape(x)
  <2>1. x = [at |-> x.at, forms |-> x.forms, set |-> x.set, early |-> x.early]
    BY DEF Page
  <2>2. x.early \in BOOLEAN
    BY <1>3
  <2> QED
    BY <1>1, <1>2, <1>3, <2>1, <2>2 DEF TabShape
<1>5. ASSUME cookies.csrf # NoToken
      PROVE  "csrf" \notin DOMAIN x.set /\ \A f \in DOMAIN x.forms : x.forms[f] = cookies.csrf
  <2>1. \A k : csrfToken(cookies, k) = cookies.csrf
    BY <1>5 DEF csrfToken
  <2>2. x.set = <<>>
    BY <2>1 DEF Page
  <2>3. ASSUME NEW f \in {"page", "ccpa"} \cup banner \cup notices
        PROVE  newPageData(cookies, current)[f] = cookies.csrf
    <3>1. newPageData(cookies, current)[f] =
            CASE f \in {"page", "ccpa"} -> cookies.csrf
              [] f = "consent" -> cookies.csrf
              [] f \in notices -> cookies.csrf
      BY <2>1, <2>3 DEF newPageData
    <3>2. CASE f \in {"page", "ccpa"}
      <4>1. f # "consent" /\ f \notin notices
        BY <1>2, <3>2 DEF WebFormsAssumption
      <4> QED
        BY <3>1, <3>2, <4>1
    <3>3. CASE f = "consent"
      <4>1. f \notin {"page", "ccpa"} /\ f \notin notices
        BY <1>2, <3>3 DEF WebFormsAssumption
      <4> QED
        BY <3>1, <3>3, <4>1
    <3>4. CASE f \in notices
      <4>1. f \notin {"page", "ccpa"} /\ f # "consent"
        BY <1>2, <3>4 DEF WebFormsAssumption
      <4> QED
        BY <3>1, <3>4, <4>1
    <3> QED
      BY <1>2, <3>2, <3>3, <3>4
  <2>4. DOMAIN x.set = {}
    BY <2>2
  <2> QED
    BY <1>1, <1>3, <2>3, <2>4
<1> QED
  BY <1>3, <1>4, <1>5

\* A page is under way: it is early, or shows the cookie.
LEMMA ServeKeeps ==
  ASSUME WebFormsAssumption, FormsInv, NEW t \in Tabs, NEW cookies, Serve(t, cookies),
         jar' = cookies, cookies.csrf = jar.csrf, "csrf" \in DOMAIN cookies
  PROVE  FormsInv'
<1>1. PICK current \in SUBSET Announcements : tab' = [tab EXCEPT ![t] = Page(cookies, current)]
  BY DEF Serve
<1>2. PICK x : x = Page(cookies, current)
  OBVIOUS
<1>3. /\ x.at = "loading" /\ x.early = ~Settled /\ TabShape(x)
      /\ cookies.csrf # NoToken =>
           "csrf" \notin DOMAIN x.set /\ \A f \in DOMAIN x.forms : x.forms[f] = cookies.csrf
  BY <1>2, PageIsRight
<1>4. Settled => cookies.csrf # NoToken
  BY DEF Settled
<1>5. TabFits(x)'
  <2> SUFFICES ASSUME ~x.early PROVE Settled' /\ \A f \in DOMAIN x.forms : x.forms[f] = jar'.csrf
    BY DEF TabFits
  <2>1. Settled /\ "csrf" \notin DOMAIN x.set /\ \A f \in DOMAIN x.forms : x.forms[f] = cookies.csrf
    BY <1>3, <1>4
  <2>2. \A u \in Tabs : tab'[u].at = "loading" => "csrf" \notin DOMAIN tab'[u].set
    BY <1>1, <1>2, <2>1 DEF FormsInv, Settled
  <2> QED
    BY <2>1, <2>2 DEF Settled
<1> QED
  BY <1>1, <1>2, <1>3, <1>4, <1>5, OneTabChanges

\* A page arrives: only the cookie of an early one is new.
LEMMA ArriveKeeps ==
  ASSUME WebFormsAssumption, FormsInv, NEW t \in Tabs, Arrive(t)
  PROVE  FormsInv'
<1> DEFINE old == tab[t]
<1>1. /\ old.at \in {"loading", "refusing"} /\ jar' = With(jar, old.set)
      /\ tab' = [tab EXCEPT ![t].at = IF @ = "loading" THEN "shown" ELSE "refused", ![t].set = <<>>]
  BY DEF Arrive
<1>2. TabShape(old) /\ TabFits(old) /\ "csrf" \in DOMAIN jar
  BY DEF FormsInv
<1>3. PICK x : x = [at |-> IF old.at = "loading" THEN "shown" ELSE "refused",
                    forms |-> old.forms, set |-> <<>>, early |-> old.early]
  OBVIOUS
<1>4. tab' = [tab EXCEPT ![t] = x]
  <2>1. tab' = [tab EXCEPT ![t] = [[old EXCEPT !.at = IF @ = "loading" THEN "shown" ELSE "refused"]
                                     EXCEPT !.set = <<>>]]
    BY <1>1 DEF FormsInv
  <2>2. [[old EXCEPT !.at = IF @ = "loading" THEN "shown" ELSE "refused"] EXCEPT !.set = <<>>] = x
    <3>1. old = [at |-> old.at, forms |-> old.forms, set |-> old.set, early |-> old.early]
      BY <1>2 DEF TabShape
    <3> HIDE DEF old
    <3> QED
      BY <1>3, <3>1, TabWith
  <2> QED
    BY <2>1, <2>2
<1>5. DOMAIN jar' = DOMAIN jar /\ jar'.csrf = IF "csrf" \in DOMAIN old.set THEN old.set.csrf ELSE jar.csrf
  BY <1>1, <1>2 DEF With
<1>6. Settled => "csrf" \notin DOMAIN old.set
  BY <1>2 DEF Settled, TabShape
<1>7. /\ x.at = IF old.at = "loading" THEN "shown" ELSE "refused"
      /\ x.forms = old.forms /\ x.set = <<>> /\ x.early = old.early
      /\ x = [at |-> x.at, forms |-> x.forms, set |-> x.set, early |-> x.early]
  BY <1>3
<1>8. TabShape(x)
  BY <1>1, <1>2, <1>7 DEF TabShape
<1>9. TabFits(x)'
  <2> SUFFICES ASSUME x.at = "shown", ~x.early
               PROVE  Settled' /\ \A f \in DOMAIN x.forms : x.forms[f] = jar'.csrf
    BY <1>1, <1>7 DEF TabFits
  <2>1. Settled /\ \A f \in DOMAIN old.forms : old.forms[f] = jar.csrf
    BY <1>1, <1>2, <1>7 DEF TabFits
  <2>2. jar'.csrf = jar.csrf
    BY <1>5, <1>6, <2>1
  <2>3. \A u \in Tabs : tab'[u].at = "loading" => "csrf" \notin DOMAIN tab'[u].set
    <3>1. \A u \in Tabs : u # t => tab'[u] = tab[u]
      BY <1>4 DEF FormsInv
    <3>2. tab'[t] = x
      BY <1>4 DEF FormsInv
    <3> QED
      BY <2>1, <3>1, <3>2 DEF Settled
  <2> QED
    BY <1>7, <2>1, <2>2, <2>3 DEF Settled
<1>10. Settled => jar'.csrf = jar.csrf
  BY <1>5, <1>6
<1>11. x.at # "loading"
  BY <1>7
<1> QED
  BY <1>2, <1>4, <1>5, <1>8, <1>9, <1>10, <1>11, OneTabChanges

\* A form is refused that does not show the cookie: its page was early.
LEMMA RefuseKeeps ==
  ASSUME WebFormsAssumption, FormsInv, NEW t \in Tabs, NEW f \in DOMAIN tab[t].forms, Refuse(t, f)
  PROVE  FormsInv'
<1> DEFINE old == tab[t]
<1>1. /\ old.at = "shown" /\ ~Admitted(t, f) /\ jar' = jar
      /\ tab' = [tab EXCEPT ![t].at = "refusing"]
  BY DEF Refuse
<1>2. TabShape(old) /\ TabFits(old) /\ "csrf" \in DOMAIN jar
  BY DEF FormsInv
<1>3. PICK x : x = [at |-> "refusing", forms |-> old.forms, set |-> old.set, early |-> old.early]
  OBVIOUS
<1>4. tab' = [tab EXCEPT ![t] = x]
  <2>1. tab' = [tab EXCEPT ![t] = [old EXCEPT !.at = "refusing"]]
    BY <1>1 DEF FormsInv
  <2>2. [old EXCEPT !.at = "refusing"] = x
    <3>1. old = [at |-> old.at, forms |-> old.forms, set |-> old.set, early |-> old.early]
      BY <1>2 DEF TabShape
    <3> HIDE DEF old
    <3> QED
      BY <1>3, <3>1
  <2> QED
    BY <2>1, <2>2
<1>5. old.early
  <2> SUFFICES ASSUME ~old.early PROVE FALSE
    BY <1>2 DEF TabShape
  <2>1. Settled /\ old.forms[f] = jar.csrf
    BY <1>1, <1>2 DEF TabFits
  <2> QED
    BY <1>1, <2>1 DEF Admitted, Settled
<1>6. /\ x.at = "refusing" /\ x.forms = old.forms /\ x.set = old.set /\ x.early = old.early
      /\ x = [at |-> x.at, forms |-> x.forms, set |-> x.set, early |-> x.early]
  BY <1>3
<1>7. TabShape(x)
  BY <1>1, <1>2, <1>5, <1>6 DEF TabShape
<1>8. TabFits(x)'
  BY <1>6 DEF TabFits
<1> QED
  BY <1>1, <1>2, <1>4, <1>6, <1>7, <1>8, OneTabChanges

\* A form that is taken sets cookies of other names.
LEMMA PostKeeps ==
  ASSUME WebFormsAssumption, FormsInv, NEW t \in Tabs, NEW f \in DOMAIN tab[t].forms, Post(t, f)
  PROVE  FormsInv'
<1>1. PICK set \in Outcomes(f) : tab' = [tab EXCEPT ![t] = [Blank EXCEPT !.at = "redirected", !.set = set]]
  BY DEF Post
<1>2. jar' = jar /\ f # "page" /\ f \in {"ccpa", "consent"} \cup Announcements
  BY DEF Post, FormsInv, TabShape
<1>3. "csrf" \notin DOMAIN set
  <2>1. CASE f = "consent"
    <3>1. f # "ccpa" /\ f \notin Announcements
      BY <2>1 DEF WebFormsAssumption
    <3> QED
      BY <2>1, <3>1 DEF Outcomes
  <2>2. CASE f = "ccpa"
    <3>1. f # "consent" /\ f \notin Announcements
      BY <2>2 DEF WebFormsAssumption
    <3> QED
      BY <2>2, <3>1 DEF Outcomes
  <2>3. CASE f \in Announcements
    <3>1. f # "consent" /\ f # "ccpa"
      BY <2>3 DEF WebFormsAssumption
    <3> QED
      BY <2>3, <3>1 DEF Outcomes
  <2> QED
    BY <1>2, <2>1, <2>2, <2>3
<1>4. PICK x : x = [at |-> "redirected", forms |-> <<>>, set |-> set, early |-> FALSE]
  OBVIOUS
<1>5. x = [Blank EXCEPT !.at = "redirected", !.set = set]
  <2>1. PICK b : b = Blank
    OBVIOUS
  <2>2. b = [at |-> "blank", forms |-> <<>>, set |-> <<>>, early |-> FALSE]
    BY <2>1 DEF Blank
  <2>3. b = [at |-> b.at, forms |-> b.forms, set |-> b.set, early |-> b.early]
    BY <2>2
  <2>4. [b EXCEPT !.at = "redirected", !.set = set]
          = [at |-> "redirected", forms |-> b.forms, set |-> set, early |-> b.early]
    BY <2>3, TabWith
  <2>5. b.forms = <<>> /\ b.early = FALSE
    BY <2>2
  <2>6. x = [b EXCEPT !.at = "redirected", !.set = set]
    BY <1>4, <2>4, <2>5
  <2> QED
    BY <2>1, <2>6
<1>6. x.at = "redirected" /\ x.forms = <<>> /\ x.set = set /\ x.early = FALSE
      /\ x = [at |-> x.at, forms |-> x.forms, set |-> x.set, early |-> x.early]
  BY <1>4
<1>7. TabShape(x)
  <2>1. DOMAIN x.forms = {}
    BY <1>6
  <2> QED
    BY <1>3, <1>6, <2>1 DEF TabShape
<1>8. TabFits(x)'
  BY <1>6 DEF TabFits
<1>9. tab' = [tab EXCEPT ![t] = x] /\ x.at # "loading" /\ jar'.csrf = jar.csrf /\ "csrf" \in DOMAIN jar'
  BY <1>1, <1>2, <1>5, <1>6 DEF FormsInv
<1> QED
  BY <1>7, <1>8, <1>9, OneTabChanges

\* The cookies of a form that was taken are in the jar when its answer is made.
LEMMA FollowKeeps ==
  ASSUME WebFormsAssumption, FormsInv, NEW t \in Tabs, Follow(t)
  PROVE  FormsInv'
<1>1. jar' = With(jar, tab[t].set) /\ "csrf" \notin DOMAIN tab[t].set /\ "csrf" \in DOMAIN jar
  BY DEF Follow, FormsInv, TabShape
<1>2. PICK cookies : cookies = With(jar, tab[t].set)
  OBVIOUS
<1>3. "csrf" \in DOMAIN cookies /\ cookies.csrf = jar.csrf
  BY <1>1, <1>2 DEF With
<1>4. jar' = cookies /\ Serve(t, cookies)
  <2>1. jar' = cookies
    BY <1>1, <1>2
  <2>2. Serve(t, jar')
    BY DEF Follow
  <2> QED
    BY <2>1, <2>2
<1> QED
  BY <1>3, <1>4, ServeKeeps

\* The browser is closed: no tab shows a page.
LEMMA CloseKeeps ==
  ASSUME WebFormsAssumption, FormsInv, CloseBrowser
  PROVE  FormsInv'
<1>1. DOMAIN jar' = DOMAIN jar /\ tab' = [t \in Tabs |-> Blank]
  BY DEF CloseBrowser
<1>2. Blank.at = "blank" /\ TabShape(Blank)
  <2>1. DOMAIN Blank.forms = {} /\ DOMAIN Blank.set = {}
    BY DEF Blank
  <2> QED
    BY <2>1 DEF Blank, TabShape
<1>3. \A t \in Tabs : tab'[t] = Blank
  BY <1>1
<1>4. \A t \in Tabs : TabShape(tab[t])' /\ TabFits(tab[t])'
  BY <1>2, <1>3 DEF TabShape, TabFits
<1> QED
  BY <1>1, <1>4 DEF FormsInv

LEMMA FormsStep ==
  ASSUME WebFormsAssumption, FormsInv, [FormsNext]_formVars
  PROVE  FormsInv'
<1>1. "csrf" \in DOMAIN jar
  BY DEF FormsInv
<1>2. PICK cookies : cookies = jar
  OBVIOUS
<1>3. CASE \E t \in Tabs : Visit(t) \/ PostContact(t)
  <2>1. PICK t \in Tabs : Visit(t) \/ PostContact(t)
    BY <1>3
  <2>2. Serve(t, cookies) /\ jar' = cookies
    BY <1>2, <2>1 DEF Visit, PostContact
  <2> QED
    BY <1>1, <1>2, <2>2, ServeKeeps
<1>4. CASE UNCHANGED formVars
  BY <1>4 DEF formVars, FormsInv, TabShape, TabFits, Settled
<1>5. CASE \E t \in Tabs : \E f \in DOMAIN tab[t].forms : Refuse(t, f) \/ Post(t, f)
  BY <1>5, RefuseKeeps, PostKeeps
<1>6. CASE \E t \in Tabs : Arrive(t) \/ Follow(t)
  BY <1>6, ArriveKeeps, FollowKeeps
<1>7. CASE CloseBrowser
  BY <1>7, CloseKeeps
<1> QED
  BY <1>3, <1>4, <1>5, <1>6, <1>7 DEF FormsNext

\* The tabs fit the cookies.
LEMMA TabsFit == FormsSpec => []FormsInv
<1> USE WebFormsAssumption
<1>1. FormsInit => FormsInv
  <2> SUFFICES ASSUME FormsInit PROVE FormsInv
    OBVIOUS
  <2>1. "csrf" \in DOMAIN jar /\ tab = [t \in Tabs |-> Blank]
    BY DEF FormsInit
  <2>2. DOMAIN Blank.forms = {} /\ DOMAIN Blank.set = {}
    BY DEF Blank
  <2>3. TabShape(Blank) /\ TabFits(Blank)
    BY <2>2 DEF Blank, TabShape, TabFits
  <2> QED
    BY <2>1, <2>3 DEF FormsInv
<1>2. FormsInv /\ [FormsNext]_formVars => FormsInv'
  BY FormsStep
<1> QED
  BY <1>1, <1>2, PTL DEF FormsSpec

\* No form is refused of a page that was requested after the cookie had settled, however
\* many tabs load and submit (csrfToken, requireCSRF).
THEOREM SettledFormsAreTaken == FormsSpec => []SettledFormsWork
<1>1. FormsInv => SettledFormsWork
  BY DEF FormsInv, TabShape, SettledFormsWork
<1> QED
  BY <1>1, TabsFit, PTL


(***************************************************************************)
(* CliClient, for any servers, searches and commands.                      *)
(***************************************************************************)

\* The screens of a run, and what a run is made of.
Screens == {"idle", "saving", "command", "url", "test", "token", "tui"}
ClientRun == [at : Screens, exit : {0, 1}, cfg : Config, command : Commands,
              answer : [of : Searches \cup {Nothing}, ok : BOOLEAN],
              input : Searches \cup {Nothing}, lookups : SUBSET Searches, loading : BOOLEAN]

CliShape ==
  /\ cli \in ClientRun
  /\ file \in Config \cup {Missing, Broken}
  /\ answering \subseteq Urls


\* A lookup is under way only while the screen says so, and then for the query entered last.
OneLookup ==
  /\ cli.lookups # {} => cli.loading
  /\ cli.lookups \subseteq {lastAsked}

\* Only the interface and a finished run have an answer; the interface is no command's.
AnswerHasScreen ==
  /\ cli.at \notin {"idle", "tui"} => cli.answer = NoAnswer
  /\ cli.at = "tui" => cli.command = "none"

CliInv == CliShape /\ OneLookup /\ AnswerHasScreen /\ ClientTellsTheTruth

LEMMA StartsEmpty == CliAssumption => Idle \in ClientRun
BY DEF CliAssumption, Idle, ClientRun, Config, Default, Channels, Commands, NoAnswer, Screens

\* An answer is of the query it was asked for.
LEMMA AnswerIsOfQuery ==
  ASSUME NEW q \in Searches, NEW a \in Outcome(q)
  PROVE  a \in [of : Searches \cup {Nothing}, ok : BOOLEAN] /\ a.of = q /\ a.ok \in BOOLEAN
<1>1. a \in Answers(q) \/ a = [of |-> q, ok |-> FALSE]
  BY DEF Outcome
<1>2. CASE a \in Answers(q)
  BY <1>2 DEF Answers
<1>3. CASE a = [of |-> q, ok |-> FALSE]
  BY <1>3
<1> QED
  BY <1>1, <1>2, <1>3

\* A run that ends keeps its answer; it is the interface's, or there is none.
LEMMA ExitKeeps ==
  ASSUME CliAssumption, CliInv, NEW code \in {0, 1}, Exit(code), cli.at # "idle",
         lastAsked' = lastAsked, file' \in Config \cup {Missing, Broken},
         answering' = answering
  PROVE  CliInv'
<1>1. cli \in ClientRun
  BY DEF CliInv, CliShape
<1>2. cli' \in ClientRun /\ cli'.at = "idle" /\ cli'.lookups = {} /\ cli'.answer = cli.answer
        /\ cli'.command = cli.command
  BY <1>1 DEF Exit, ClientRun, Screens
<1>3. CliShape'
  BY <1>2 DEF CliInv, CliShape
<1>4. cli.answer # NoAnswer => cli.command # "lookup"
  BY DEF CliInv, AnswerHasScreen
<1> QED
  BY <1>2, <1>3, <1>4 DEF CliInv, OneLookup, AnswerHasScreen, ClientTellsTheTruth,
     AnswerIsLastAsked, ExitMeansAnswered, WizardReachedServer

\* What a save leaves can be loaded, or is broken.
LEMMA SaveLeaves ==
  ASSUME CliShape, NEW cfg \in Config, NEW ok \in BOOLEAN, SaveTo(cfg, ok)
  PROVE  file' \in Config \cup {Missing, Broken}
BY DEF CliShape, SaveTo

\* A run begins with nothing asked and nothing shown.
LEMMA LaunchKeeps ==
  ASSUME CliAssumption, CliInv, NEW command \in Commands, NEW flagServer \in Urls \cup {Nothing},
         NEW tty \in BOOLEAN, Launch(command, flagServer, tty)
  PROVE  CliInv'
<1> DEFINE cfg == Resolve(flagServer)
           start == [Idle EXCEPT !.cfg = cfg, !.command = command]
<1>1. LoadFrom \in Config
  BY DEF CliInv, CliShape, LoadFrom, Config, Default, Channels
<1>2. cfg \in Config
  BY <1>1 DEF Resolve, Config, CliAssumption
<1>3. start \in ClientRun /\ start.lookups = {} /\ start.answer = NoAnswer
        /\ start.command = command /\ start.at = "idle"
  BY <1>2, StartsEmpty DEF ClientRun, Idle
<1> HIDE DEF cfg, start
<1>4. \/ /\ cli' \in {start, [start EXCEPT !.exit = 1]}
      \/ \E s \in {"saving", "command", "url"} : cli' = [start EXCEPT !.at = s]
      \/ command = "none" /\ cli' = [start EXCEPT !.at = "tui"]
  BY DEF Launch, AfterSetup, start, cfg, Commands
<1>5. /\ cli' \in ClientRun /\ cli'.lookups = {} /\ cli'.answer = NoAnswer
      /\ cli'.at \in {"idle", "saving", "command", "url", "tui"}
      /\ cli'.at = "tui" => cli'.command = "none"
  BY <1>3, <1>4 DEF ClientRun, Screens
<1>6. CliShape'
  BY <1>5 DEF CliInv, CliShape, Launch
<1> QED
  BY <1>5, <1>6 DEF CliInv, OneLookup, AnswerHasScreen, ClientTellsTheTruth,
     AnswerIsLastAsked, ExitMeansAnswered, WizardReachedServer

\* A command runs to its end.
LEMMA CommandKeeps ==
  ASSUME CliAssumption, CliInv,
         SetChannel \/ CheckStatus \/ RunLookup \/ RunValidate \/ MissingArgument
  PROVE  CliInv'
<1>1. cli \in ClientRun /\ CliShape
  BY DEF CliInv, CliShape
<1>2. CASE SetChannel
  <2>1. PICK ok \in BOOLEAN, c \in Channels :
          SaveTo([cli.cfg EXCEPT !.channel = c], ok) /\ Exit(IF ok THEN 0 ELSE 1)
    BY <1>2 DEF SetChannel
  <2>2. [cli.cfg EXCEPT !.channel = c] \in Config
    BY <1>1 DEF ClientRun, Config
  <2> QED
    BY <1>1, <1>2, <2>1, <2>2, SaveLeaves, ExitKeeps DEF SetChannel
<1>3. CASE CheckStatus
  <2>1. file' \in Config \cup {Missing, Broken}
    BY <1>1, <1>3 DEF CheckStatus, CliShape
  <2> QED
    BY <1>3, <2>1, ExitKeeps DEF CheckStatus
<1>4. CASE RunLookup
  <2>0. PICK q \in Searches : \E a \in Outcome(q) :
          cli' = [cli EXCEPT !.at = "idle", !.exit = printResult(a), !.answer = a]
    BY <1>4 DEF RunLookup
  <2>1. PICK a \in Outcome(q) :
          cli' = [cli EXCEPT !.at = "idle", !.exit = printResult(a), !.answer = a]
    BY <2>0
  <2>2. a \in [of : Searches \cup {Nothing}, ok : BOOLEAN] /\ printResult(a) \in {0, 1}
          /\ (printResult(a) = 0 <=> a.ok)
    BY AnswerIsOfQuery DEF printResult
  <2>3. cli' \in ClientRun /\ cli'.at = "idle" /\ cli'.answer = a /\ cli'.exit = printResult(a)
          /\ cli'.lookups = cli.lookups /\ cli'.loading = cli.loading
    BY <1>1, <2>1, <2>2 DEF ClientRun, Screens
  <2>4. CliShape'
    BY <1>1, <1>4, <2>3 DEF RunLookup, CliShape
  <2> QED
    BY <1>4, <2>2, <2>3, <2>4 DEF CliInv, RunLookup, OneLookup, AnswerHasScreen,
       ClientTellsTheTruth, AnswerIsLastAsked, ExitMeansAnswered, WizardReachedServer
<1>5. CASE RunValidate
  <2>1. PICK q \in Searches, told \in Told :
          cli' = [cli EXCEPT !.at = "idle", !.exit = Validate(told),
                             !.answer = [of |-> q, ok |-> told = "valid"]]
    BY <1>5 DEF RunValidate
  <2>2. [of |-> q, ok |-> told = "valid"] \in [of : Searches \cup {Nothing}, ok : BOOLEAN]
          /\ Validate(told) \in {0, 1}
    BY DEF Validate
  <2>3. cli' \in ClientRun /\ cli'.at = "idle" /\ cli'.command = cli.command
          /\ cli'.lookups = cli.lookups /\ cli'.loading = cli.loading
    BY <1>1, <2>1, <2>2 DEF ClientRun, Screens
  <2>4. CliShape'
    BY <1>1, <1>5, <2>3 DEF RunValidate, CliShape
  <2>5. cli'.command = "validate"
    BY <1>5, <2>3 DEF RunValidate
  <2> QED
    BY <1>5, <2>3, <2>4, <2>5 DEF CliInv, RunValidate, OneLookup, AnswerHasScreen,
       ClientTellsTheTruth, AnswerIsLastAsked, ExitMeansAnswered, WizardReachedServer
<1>6. CASE MissingArgument
  BY <1>1, <1>6, ExitKeeps DEF MissingArgument, CliShape
<1> QED
  BY <1>2, <1>3, <1>4, <1>5, <1>6

\* The wizard shows no answer, and moves on after a health check alone.
LEMMA WizardKeeps ==
  ASSUME CliAssumption, CliInv, EnterUrl \/ TestDone \/ EnterToken \/ CancelSetup
  PROVE  CliInv'
<1>1. cli \in ClientRun /\ CliShape /\ cli.lookups \subseteq {lastAsked}
  BY DEF CliInv, CliShape, OneLookup
<1>2. ASSUME NEW s \in {"test", "token", "url", "command", "tui"}, NEW c \in Config,
             cli' = [cli EXCEPT !.at = s, !.cfg = c], lastAsked' = lastAsked, 
             answering' = answering, file' \in Config \cup {Missing, Broken},
             cli.at \notin {"idle", "tui"}, s = "tui" => cli.command = "none",
             s = "token" => c.server \in reached'
      PROVE  CliInv'
  <2>1. cli' \in ClientRun /\ cli'.at = s /\ cli'.answer = cli.answer /\ cli'.cfg = c
          /\ cli'.lookups = cli.lookups /\ cli'.loading = cli.loading
          /\ cli'.command = cli.command
    BY <1>1, <1>2 DEF ClientRun, Screens
  <2>2. CliShape'
    BY <1>1, <1>2, <2>1 DEF CliShape
  <2>3. cli.answer = NoAnswer
    BY <1>2 DEF CliInv, AnswerHasScreen
  <2> QED
    BY <1>2, <2>1, <2>2, <2>3 DEF CliInv, OneLookup, AnswerHasScreen,
       ClientTellsTheTruth, AnswerIsLastAsked, ExitMeansAnswered, WizardReachedServer
<1>3. CASE EnterUrl
  <2>1. PICK u \in Urls : cli' = [cli EXCEPT !.at = "test", !.cfg.server = u]
    BY <1>3 DEF EnterUrl
  <2>2. [cli.cfg EXCEPT !.server = u] \in Config
    BY <1>1 DEF ClientRun, Config
  <2>3. cli' = [cli EXCEPT !.at = "test", !.cfg = [cli.cfg EXCEPT !.server = u]]
    BY <1>1, <2>1 DEF ClientRun
  <2> QED
    BY <1>1, <1>2, <1>3, <2>2, <2>3 DEF EnterUrl, CliShape
<1>4. CASE TestDone
  <2>1. cli' = [cli EXCEPT !.at = Tested(Healthy), !.cfg = cli.cfg] /\ cli.cfg \in Config
    BY <1>1, <1>4 DEF TestDone, ClientRun
  <2>2. Tested(Healthy) \in {"token", "url"} /\ (Tested(Healthy) = "token" => Healthy)
    BY DEF Tested
  <2>3. Tested(Healthy) = "token" => cli.cfg.server \in reached'
    BY <1>4, <2>2 DEF TestDone
  <2> QED
    BY <1>1, <1>2, <1>4, <2>1, <2>2, <2>3 DEF TestDone, CliShape
<1>5. CASE EnterToken
  <2>1. PICK ok \in BOOLEAN :
          /\ SaveTo(cli.cfg, ok)
          /\ IF ok THEN cli' = [cli EXCEPT !.at = AfterSetup(cli.command)] ELSE Exit(1)
    BY <1>5 DEF EnterToken
  <2>2. cli.cfg \in Config
    BY <1>1 DEF ClientRun
  <2>3. file' \in Config \cup {Missing, Broken}
    BY <1>1, <2>1, <2>2, SaveLeaves
  <2>4. CASE ok
    <3>1. cli' = [cli EXCEPT !.at = AfterSetup(cli.command), !.cfg = cli.cfg]
      BY <1>1, <2>1, <2>4 DEF ClientRun
    <3>2. AfterSetup(cli.command) \in {"tui", "command"}
            /\ (AfterSetup(cli.command) = "tui" => cli.command = "none")
      BY DEF AfterSetup
    <3> QED
      BY <1>2, <1>5, <2>2, <2>3, <3>1, <3>2 DEF EnterToken
  <2>5. CASE ~ok
    BY <1>5, <2>1, <2>3, <2>5, ExitKeeps DEF EnterToken
  <2> QED
    BY <2>4, <2>5
<1>6. CASE CancelSetup
  BY <1>1, <1>6, ExitKeeps DEF CancelSetup, CliShape
<1> QED
  BY <1>3, <1>4, <1>5, <1>6

\* The interface: Enter starts the only lookup, whose answer is the last one asked for.
LEMMA ScreenKeeps ==
  ASSUME CliAssumption, CliInv, TypeQuery \/ EnterQuery \/ LookupDone \/ Escape
  PROVE  CliInv'
<1>1. cli \in ClientRun /\ CliShape /\ cli.at = "tui"
  BY DEF CliInv, CliShape, TypeQuery, EnterQuery, LookupDone, Escape
<1>2. ASSUME cli' \in ClientRun, cli'.at = "tui", cli'.command = cli.command,
             cli'.lookups # {} => cli'.loading, cli'.lookups \subseteq {lastAsked'},
             cli'.answer # NoAnswer => cli'.answer.of = lastAsked',
             file' = file, answering' = answering
      PROVE  CliInv'
  <2>1. CliShape'
    BY <1>1, <1>2 DEF CliShape
  <2> QED
    BY <1>1, <1>2, <2>1 DEF CliInv, OneLookup, AnswerHasScreen,
       ClientTellsTheTruth, AnswerIsLastAsked, ExitMeansAnswered, WizardReachedServer
<1>3. /\ cli.lookups # {} => cli.loading
      /\ cli.lookups \subseteq {lastAsked}
      /\ cli.answer # NoAnswer => cli.answer.of = lastAsked
  BY <1>1 DEF CliInv, OneLookup, ClientTellsTheTruth, AnswerIsLastAsked
<1>4. CASE TypeQuery
  <2>1. PICK q \in Searches : cli' = [cli EXCEPT !.input = q]
    BY <1>4 DEF TypeQuery
  <2>2. cli' \in ClientRun /\ cli'.at = "tui" /\ cli'.command = cli.command
          /\ cli'.lookups = cli.lookups /\ cli'.loading = cli.loading /\ cli'.answer = cli.answer
    BY <1>1, <2>1 DEF ClientRun
  <2> QED
    BY <1>2, <1>3, <1>4, <2>2 DEF TypeQuery
<1>5. CASE EnterQuery
  <2>1. cli.lookups = {} /\ cli.input \in Searches
    BY <1>1, <1>3, <1>5 DEF EnterQuery, MayAsk, ClientRun
  <2>2. cli' \in ClientRun /\ cli'.at = "tui" /\ cli'.command = cli.command
          /\ cli'.lookups = {cli.input} /\ cli'.loading = TRUE /\ cli'.answer = NoAnswer
    BY <1>1, <1>5, <2>1 DEF EnterQuery, ClientRun, NoAnswer
  <2> QED
    BY <1>2, <1>5, <2>2 DEF EnterQuery
<1>6. CASE LookupDone
  <2>0. PICK q \in cli.lookups : \E a \in Outcome(q) :
          cli' = [cli EXCEPT !.loading = FALSE, !.answer = a, !.lookups = @ \ {q}]
    BY <1>6 DEF LookupDone
  <2>1. PICK a \in Outcome(q) :
          cli' = [cli EXCEPT !.loading = FALSE, !.answer = a, !.lookups = @ \ {q}]
    BY <2>0
  <2>2. q = lastAsked /\ q \in Searches /\ cli.lookups \ {q} = {}
    BY <1>1, <1>3 DEF ClientRun
  <2>3. a \in [of : Searches \cup {Nothing}, ok : BOOLEAN] /\ a.of = q
    BY <2>2, AnswerIsOfQuery
  <2>4. cli' \in ClientRun /\ cli'.at = "tui" /\ cli'.command = cli.command
          /\ cli'.lookups = {} /\ cli'.answer = a
    BY <1>1, <2>1, <2>2, <2>3 DEF ClientRun
  <2> QED
    BY <1>2, <1>6, <2>2, <2>3, <2>4 DEF LookupDone
<1>7. CASE Escape
  <2>1. CASE cli.input = Nothing
    BY <1>1, <1>7, <2>1, ExitKeeps DEF Escape, CliShape
  <2>2. CASE cli.input # Nothing
    <3>1. cli' = [cli EXCEPT !.input = Nothing, !.answer = NoAnswer]
            /\ NoAnswer \in [of : Searches \cup {Nothing}, ok : BOOLEAN]
      BY <1>7, <2>2 DEF Escape, NoAnswer
    <3>2. cli' \in ClientRun /\ cli'.at = "tui" /\ cli'.command = cli.command
            /\ cli'.lookups = cli.lookups /\ cli'.loading = cli.loading /\ cli'.answer = NoAnswer
      BY <1>1, <3>1 DEF ClientRun
    <3> QED
      BY <1>2, <1>3, <1>7, <3>2 DEF Escape
  <2> QED
    BY <2>1, <2>2
<1> QED
  BY <1>4, <1>5, <1>6, <1>7

\* A server that comes or goes moves nothing of the client.
LEMMA FlipKeeps ==
  ASSUME CliAssumption, CliInv, FlipServer \/ UNCHANGED cliVars
  PROVE  CliInv'
<1>1. answering' \subseteq Urls
  BY DEF CliInv, CliShape, FlipServer, cliVars
<1>2. cli' = cli /\ file' = file /\ lastAsked' = lastAsked /\ reached' = reached
  BY DEF FlipServer, cliVars
<1> QED
  BY <1>1, <1>2 DEF CliInv, CliShape, OneLookup, AnswerHasScreen, ClientTellsTheTruth,
     AnswerIsLastAsked, ExitMeansAnswered, WizardReachedServer

\* The runs of the client keep to the invariant.
LEMMA RunsAreSound == CliSpec => []CliInv
<1> USE CliAssumption
<1>1. CliInit => CliInv
  <2> SUFFICES ASSUME CliInit PROVE CliInv
    OBVIOUS
  <2>1. cli \in ClientRun /\ cli.answer = NoAnswer /\ cli.lookups = {} /\ cli.at = "idle"
    BY StartsEmpty DEF CliInit, Idle
  <2> QED
    BY <2>1 DEF CliInit, CliInv, CliShape, OneLookup, AnswerHasScreen, ClientTellsTheTruth,
       AnswerIsLastAsked, ExitMeansAnswered, WizardReachedServer
<1>2. CliInv /\ [CliNext]_cliVars => CliInv'
  BY LaunchKeeps, CommandKeeps, WizardKeeps, ScreenKeeps, FlipKeeps DEF CliNext
<1> QED
  BY <1>1, <1>2, PTL DEF CliSpec

\* The user is told the truth about lookups for every set of servers, queries and keys: the
\* answer on the screen is that of the query entered last, which the input may no longer hold
\* (tui.go's Update), a lookup that exits with 0 has data (printResult), the wizard goes past
\* the test with a server that has answered (setup.go).
THEOREM ClientIsTruthful == CliSpec => []ClientTellsTheTruth
BY RunsAreSound, PTL DEF CliInv

-----------------------------------------------------------------------------
(***************************************************************************)
(* The shape of the data, of each component and of MCRequests, which moves *)
(* one of them at a time: no step writes a value that another one cannot   *)
(* read, and the counters of the server stay within what has arrived.      *)
(***************************************************************************)

\* The bounds of the client, and the servers reached.
CliBounds ==
  /\ runs \in 0..MaxRuns /\ keys \in 0..MaxKeys /\ flips \in 0..MaxFlips
  /\ reached \subseteq Urls

LEMMA CliBoundsStep ==
  ASSUME CliAssumption, CliInv, CliBounds, [CliNext]_cliVars
  PROVE  CliBounds'
<1> USE DEF CliBounds
<1>1. runs \in Nat /\ keys \in Nat /\ flips \in Nat /\ MaxRuns \in Nat /\ MaxKeys \in Nat /\ MaxFlips \in Nat
  BY DEF CliAssumption
<1>2. cli.cfg.server \in answering => cli.cfg.server \in Urls
  BY DEF CliInv, CliShape
<1>3. ASSUME NEW command, NEW flagServer, NEW tty, Launch(command, flagServer, tty)
      PROVE  CliBounds'
  BY <1>1, <1>3 DEF Launch
<1>4. CASE SetChannel \/ RunLookup \/ RunValidate \/ MissingArgument \/ LookupDone
  BY <1>4 DEF SetChannel, RunLookup, RunValidate, MissingArgument, LookupDone
<1>5. CASE CheckStatus \/ TestDone
  BY <1>2, <1>5 DEF CheckStatus, TestDone, Healthy
<1>6. CASE EnterUrl \/ EnterToken \/ CancelSetup \/ TypeQuery \/ EnterQuery \/ Escape
  <2>1. Key /\ UNCHANGED <<reached, runs, flips>>
    BY <1>6 DEF EnterUrl, EnterToken, CancelSetup, TypeQuery, EnterQuery, Escape
  <2> QED
    BY <1>1, <2>1 DEF Key
<1>7. CASE FlipServer
  BY <1>1, <1>7 DEF FlipServer
<1>8. CASE UNCHANGED cliVars
  BY <1>8 DEF cliVars
<1> QED
  BY <1>3, <1>4, <1>5, <1>6, <1>7, <1>8 DEF CliNext

LEMMA CliTypes == CliSpec => []CliTypeOK
<1> USE CliAssumption
<1>1. CliInit => CliBounds
  BY DEF CliInit, CliBounds, CliAssumption
<1>2. CliInv /\ CliBounds /\ [CliNext]_cliVars => CliBounds'
  BY CliBoundsStep
<1>3. CliInv /\ CliBounds => CliTypeOK
  BY DEF CliInv, CliShape, ClientRun, Screens, CliBounds, CliTypeOK
<1> QED
  BY <1>1, <1>2, <1>3, RunsAreSound, PTL DEF CliSpec

-----------------------------------------------------------------------------
\* The cookies of the browser, and those an answer may bring, when n tokens are out.
Jars(n) == [csrf : 0..n, consent : Consents \cup {"none"},
            dismissed : SUBSET Announcements, ccpa : BOOLEAN]
Brings(set, n) ==
  /\ "csrf" \in DOMAIN set => set.csrf \in 1..n
  /\ "consent" \in DOMAIN set => set.consent \in Consents
  /\ "dismissed" \in DOMAIN set => set.dismissed \subseteq Announcements
  /\ "ccpa" \in DOMAIN set => set.ccpa \in BOOLEAN

LEMMA WithIsJar ==
  ASSUME NEW n \in Nat, NEW cookies \in Jars(n), NEW set, Brings(set, n)
  PROVE  With(cookies, set) \in Jars(n)
<1> DEFINE w == With(cookies, set)
<1>1. DOMAIN cookies = {"csrf", "consent", "dismissed", "ccpa"}
      /\ cookies.csrf \in 0..n /\ cookies.consent \in Consents \cup {"none"}
      /\ cookies.dismissed \in SUBSET Announcements
  BY DEF Jars
<1>2. cookies.ccpa \in BOOLEAN
  BY DEF Jars
<1>3. w = [c \in {"csrf", "consent", "dismissed", "ccpa"} |->
            IF c \in DOMAIN set THEN set[c] ELSE cookies[c]]
  BY <1>1 DEF With
<1>4. w = [csrf |-> w.csrf, consent |-> w.consent, dismissed |-> w.dismissed, ccpa |-> w.ccpa]
  BY <1>3
<1>5. w.csrf \in 0..n /\ w.consent \in Consents \cup {"none"} /\ w.dismissed \in SUBSET Announcements
  BY <1>1, <1>3 DEF Brings
<1>6. w.ccpa \in BOOLEAN
  <2>1. w.ccpa = IF "ccpa" \in DOMAIN set THEN set.ccpa ELSE cookies.ccpa
    BY <1>3
  <2> QED
    BY <1>2, <2>1, Zenon DEF Brings
<1> HIDE DEF w
<1>7. [csrf |-> w.csrf, consent |-> w.consent, dismissed |-> w.dismissed, ccpa |-> w.ccpa] \in Jars(n)
  <2>1. ASSUME NEW a \in 0..n, NEW b \in Consents \cup {"none"}, NEW c \in SUBSET Announcements,
               NEW d \in BOOLEAN
        PROVE  [csrf |-> a, consent |-> b, dismissed |-> c, ccpa |-> d] \in Jars(n)
    BY DEF Jars
  <2> QED
    BY <1>5, <1>6, <2>1, Zenon
<1> QED
  BY <1>4, <1>7 DEF w

\* The tabs, when n tokens are out.
TabTyped(x, n) ==
  /\ x.at \in {"blank", "loading", "shown", "redirected", "refusing", "refused"}
  /\ \A f \in DOMAIN x.forms : x.forms[f] \in 1..n
  /\ Brings(x.set, n)

TabsTyped ==
  /\ issued \in Nat /\ jar \in Jars(issued)
  /\ \A t \in Tabs : TabTyped(tab[t], issued)

FormBounds ==
  /\ mails \in 0..posts
  /\ visits \in 0..MaxVisits /\ posts \in 0..MaxPosts /\ sessions \in 0..MaxSessions

\* Nothing of it is lost when more tokens are out.
LEMMA MoreTokens ==
  ASSUME NEW n \in Nat, NEW m \in Nat, n <= m
  PROVE  /\ Jars(n) \subseteq Jars(m)
         /\ \A x : TabTyped(x, n) => TabTyped(x, m)
<1>1. 0..n \subseteq 0..m /\ 1..n \subseteq 1..m
  OBVIOUS
<1>2. Jars(n) \subseteq Jars(m)
  BY <1>1, Zenon DEF Jars
<1>3. \A x : TabTyped(x, n) => TabTyped(x, m)
  BY <1>1, Zenon DEF TabTyped, Brings
<1> QED
  BY <1>2, <1>3

\* One tab changes, and tokens are generated.
LEMMA OneTabTyped ==
  ASSUME FormsInv, TabsTyped, NEW t \in Tabs, NEW x, tab' = [tab EXCEPT ![t] = x],
         issued' \in Nat, issued <= issued', jar' \in Jars(issued'), TabTyped(x, issued')
  PROVE  TabsTyped'
<1>1. \A u \in Tabs : tab'[u] = IF u = t THEN x ELSE tab[u]
  BY DEF FormsInv
<1>2. \A u \in Tabs : TabTyped(tab[u], issued')
  BY MoreTokens DEF TabsTyped
<1>3. \A u \in Tabs : TabTyped(tab'[u], issued')
  BY <1>1, <1>2, Zenon
<1> QED
  BY <1>3 DEF TabsTyped

\* The tokens of a page are those of the calls made for it, or the browser's.
LEMMA PageTyped ==
  ASSUME WebFormsAssumption, NEW n \in Nat, n = issued,
         NEW cookies \in Jars(n), NEW current \in SUBSET Announcements
  PROVE  /\ Calls(cookies) \in 1..3
         /\ TabTyped(Page(cookies, current), n + Calls(cookies))
<1> DEFINE notices == activeAnnouncements(cookies, current)
           banner == IF cookies.consent = "none" THEN {"consent"} ELSE {}
           x == Page(cookies, current)
           k == Calls(cookies)
           m == n + k
<1>1. /\ k \in 1..3 /\ NoticeCall(cookies) \in 2..3
      /\ Announcements # {} => k = NoticeCall(cookies)
      /\ cookies.consent = "none" => k >= 2
  BY DEF Calls, NoticeCall
<1>2. m \in Nat /\ m >= 1 /\ cookies.csrf \in 0..n
  BY <1>1 DEF Jars
<1>3. ASSUME NEW c \in 1..k PROVE csrfToken(cookies, c) \in 1..m
  <2>1. CASE cookies.csrf # NoToken
    BY <1>1, <1>2, <2>1 DEF csrfToken, NoToken
  <2>2. CASE cookies.csrf = NoToken
    <3>1. csrfToken(cookies, c) = n + c
      BY <2>2 DEF csrfToken
    <3> QED
      BY <1>1, <3>1
  <2> QED
    BY <2>1, <2>2
<1>4. DOMAIN newPageData(cookies, current) = {"page", "ccpa"} \cup banner \cup notices
  BY DEF newPageData
<1>5. notices \subseteq Announcements
  BY DEF activeAnnouncements
<1>6. ASSUME NEW f \in DOMAIN newPageData(cookies, current)
      PROVE  newPageData(cookies, current)[f] \in 1..m
  <2>1. newPageData(cookies, current)[f] =
          CASE f \in {"page", "ccpa"} -> csrfToken(cookies, 1)
            [] f = "consent" -> csrfToken(cookies, BannerCall)
            [] f \in notices -> csrfToken(cookies, NoticeCall(cookies))
    BY <1>4, <1>6 DEF newPageData
  <2>2. CASE f \in {"page", "ccpa"}
    <3>1. f # "consent" /\ f \notin notices
      BY <1>5, <2>2 DEF WebFormsAssumption
    <3>2. newPageData(cookies, current)[f] = csrfToken(cookies, 1) /\ 1 \in 1..k
      BY <1>1, <2>1, <2>2, <3>1
    <3> QED
      BY <1>3, <3>2
  <2>3. CASE f = "consent"
    <3>1. f \notin {"page", "ccpa"} /\ f \notin notices
      BY <1>5, <2>3 DEF WebFormsAssumption
    <3>2. cookies.consent = "none"
      BY <1>4, <1>6, <2>3, <3>1
    <3>3. newPageData(cookies, current)[f] = csrfToken(cookies, 2) /\ 2 \in 1..k
      BY <1>1, <2>1, <2>3, <3>1, <3>2 DEF BannerCall
    <3> QED
      BY <1>3, <3>3
  <2>4. CASE f \in notices
    <3>1. f \notin {"page", "ccpa"} /\ f # "consent"
      BY <1>5, <2>4 DEF WebFormsAssumption
    <3>2. newPageData(cookies, current)[f] = csrfToken(cookies, NoticeCall(cookies))
      BY <2>1, <2>4, <3>1
    <3>3. NoticeCall(cookies) \in 1..k
      BY <1>1, <1>5, <2>4
    <3> QED
      BY <1>3, <3>2, <3>3
  <2> QED
    BY <1>4, <1>6, <2>2, <2>3, <2>4
<1>7. x.at = "loading" /\ x.forms = newPageData(cookies, current)
  BY DEF Page
<1>8. Brings(x.set, m)
  <2>1. x.set = <<>> \/ x.set = [csrf |-> csrfToken(cookies, k)]
    BY DEF Page
  <2>2. CASE x.set = <<>>
    <3>1. DOMAIN x.set = {}
      BY <2>2
    <3> QED
      BY <3>1, Zenon DEF Brings
  <2>3. CASE x.set = [csrf |-> csrfToken(cookies, k)]
    <3>1. DOMAIN x.set = {"csrf"} /\ x.set.csrf = csrfToken(cookies, k) /\ k \in 1..k
      BY <1>1, <2>3
    <3>2. x.set.csrf \in 1..m
      BY <1>3, <3>1
    <3>3. "consent" \notin DOMAIN x.set /\ "dismissed" \notin DOMAIN x.set /\ "ccpa" \notin DOMAIN x.set
      BY <3>1
    <3> QED
      BY <3>2, <3>3, Zenon DEF Brings
  <2> QED
    BY <2>1, <2>2, <2>3
<1> HIDE DEF x, m, k
<1>9. TabTyped(x, m)
  BY <1>6, <1>7, <1>8 DEF TabTyped
<1> QED
  BY <1>1, <1>9 DEF x, m, k

\* What the handlers' answers bring.
LEMMA OutcomesTyped ==
  ASSUME WebFormsAssumption, TabsTyped, NEW f \in {"ccpa", "consent"} \cup Announcements,
         NEW set \in Outcomes(f)
  PROVE  Brings(set, issued)
<1>1. CASE f = "consent"
  <2>1. f # "ccpa" /\ f \notin Announcements
    BY <1>1 DEF WebFormsAssumption
  <2>2. PICK c \in Consents : set = [consent |-> c]
    BY <1>1, <2>1 DEF Outcomes
  <2>3. DOMAIN set = {"consent"} /\ set.consent = c
    BY <2>2
  <2> QED
    BY <2>3 DEF Brings
<1>2. CASE f = "ccpa"
  <2>1. f # "consent" /\ f \notin Announcements
    BY <1>2 DEF WebFormsAssumption
  <2>2. Outcomes(f) = {[ccpa |-> out] : out \in BOOLEAN}
    BY <1>2, <2>1 DEF Outcomes
  <2>3. PICK out \in BOOLEAN : set = [ccpa |-> out]
    BY <2>2, Zenon
  <2>4. DOMAIN set = {"ccpa"} /\ set.ccpa = out
    BY <2>3
  <2>5. set.ccpa \in BOOLEAN
    BY <2>4, Zenon
  <2>6. "csrf" \notin DOMAIN set /\ "consent" \notin DOMAIN set /\ "dismissed" \notin DOMAIN set
    BY <2>4
  <2> QED
    BY <2>5, <2>6, Zenon DEF Brings
<1>3. CASE f \in Announcements
  <2>1. f # "consent" /\ f # "ccpa"
    BY <1>3 DEF WebFormsAssumption
  <2>2. set = [dismissed |-> jar.dismissed \cup {f}] /\ jar.dismissed \subseteq Announcements
    BY <1>3, <2>1 DEF Outcomes, TabsTyped, Jars
  <2>3. DOMAIN set = {"dismissed"} /\ set.dismissed \subseteq Announcements
    BY <1>3, <2>2
  <2> QED
    BY <2>3 DEF Brings
<1> QED
  BY <1>1, <1>2, <1>3

\* The server answers with a page.
LEMMA ServeTyped ==
  ASSUME WebFormsAssumption, FormsInv, TabsTyped, NEW t \in Tabs, NEW cookies \in Jars(issued),
         Serve(t, cookies), jar' = cookies
  PROVE  TabsTyped'
<1>1. PICK current \in SUBSET Announcements : tab' = [tab EXCEPT ![t] = Page(cookies, current)]
  BY DEF Serve
<1>2. PICK n : n = issued
  OBVIOUS
<1>3. PICK k : k = Calls(cookies)
  OBVIOUS
<1>4. n \in Nat /\ k \in 1..3 /\ TabTyped(Page(cookies, current), n + k)
  BY <1>2, <1>3, PageTyped DEF TabsTyped
<1>5. issued' = n + k
  BY <1>2, <1>3 DEF Serve
<1>6. issued' \in Nat /\ issued <= issued'
  BY <1>2, <1>4, <1>5
<1>7. jar' \in Jars(issued')
  BY <1>2, <1>4, <1>6, MoreTokens
<1> QED
  BY <1>1, <1>4, <1>5, <1>6, <1>7, OneTabTyped

LEMMA TabsTypedStep ==
  ASSUME WebFormsAssumption, FormsInv, TabsTyped, [FormsNext]_formVars
  PROVE  TabsTyped'
<1>1. issued \in Nat /\ jar \in Jars(issued) /\ issued <= issued
  BY DEF TabsTyped
<1>2. \A u \in Tabs : TabTyped(tab[u], issued) /\ TabShape(tab[u])
  BY DEF TabsTyped, FormsInv
<1>3. ASSUME NEW t \in Tabs, Visit(t) \/ PostContact(t) PROVE TabsTyped'
  <2>1. Serve(t, jar) /\ jar' = jar
    BY <1>3 DEF Visit, PostContact
  <2> QED
    BY <1>1, <2>1, ServeTyped
<1>4. ASSUME NEW t \in Tabs, Follow(t) PROVE TabsTyped'
  <2>1. jar' = With(jar, tab[t].set) /\ Serve(t, jar')
    BY <1>4 DEF Follow
  <2>2. PICK cookies : cookies = With(jar, tab[t].set)
    OBVIOUS
  <2>3. cookies \in Jars(issued)
    BY <1>1, <1>2, <2>2, WithIsJar DEF TabTyped
  <2>4. Serve(t, cookies) /\ jar' = cookies
    BY <2>1, <2>2
  <2> QED
    BY <2>3, <2>4, ServeTyped
<1>5. ASSUME NEW t \in Tabs, Arrive(t) PROVE TabsTyped'
  <2> DEFINE old == tab[t]
  <2>1. /\ jar' = With(jar, old.set) /\ issued' = issued
        /\ tab' = [tab EXCEPT ![t] = [[old EXCEPT !.at = IF @ = "loading" THEN "shown" ELSE "refused"]
                                        EXCEPT !.set = <<>>]]
    BY <1>5 DEF Arrive, FormsInv
  <2>2. old = [at |-> old.at, forms |-> old.forms, set |-> old.set, early |-> old.early]
    BY <1>2 DEF TabShape
  <2>3. PICK x : x = [at |-> IF old.at = "loading" THEN "shown" ELSE "refused",
                      forms |-> old.forms, set |-> <<>>, early |-> old.early]
    OBVIOUS
  <2>4. jar' \in Jars(issued') /\ TabTyped(old, issued)
    BY <1>1, <1>2, <2>1, WithIsJar DEF TabTyped
  <2> HIDE DEF old
  <2>5. tab' = [tab EXCEPT ![t] = x]
    BY <2>1, <2>2, <2>3, TabWith
  <2>6. x.at \in {"shown", "refused"} /\ x.forms = old.forms /\ x.set = <<>> /\ DOMAIN x.set = {}
    BY <2>3
  <2>7. Brings(x.set, issued)
    BY <2>6, Zenon DEF Brings
  <2>8. TabTyped(x, issued')
    BY <2>1, <2>4, <2>6, <2>7 DEF TabTyped
  <2> QED
    BY <1>1, <2>1, <2>4, <2>5, <2>8, OneTabTyped
<1>6. ASSUME NEW t \in Tabs, NEW f \in DOMAIN tab[t].forms, Refuse(t, f) PROVE TabsTyped'
  <2> DEFINE old == tab[t]
  <2>1. jar' = jar /\ issued' = issued /\ tab' = [tab EXCEPT ![t] = [old EXCEPT !.at = "refusing"]]
    BY <1>6 DEF Refuse, FormsInv
  <2>2. old = [at |-> old.at, forms |-> old.forms, set |-> old.set, early |-> old.early]
    BY <1>2 DEF TabShape
  <2>3. PICK x : x = [at |-> "refusing", forms |-> old.forms, set |-> old.set, early |-> old.early]
    OBVIOUS
  <2>4. TabTyped(old, issued)
    BY <1>2
  <2> HIDE DEF old
  <2>5. [old EXCEPT !.at = "refusing"] = x
    BY <2>2, <2>3
  <2>6. x.at = "refusing" /\ x.forms = old.forms /\ x.set = old.set
    BY <2>3
  <2>7. TabTyped(x, issued)
    BY <2>4, <2>6 DEF TabTyped
  <2> QED
    BY <1>1, <2>1, <2>5, <2>7, OneTabTyped
<1>7. ASSUME NEW t \in Tabs, NEW f \in DOMAIN tab[t].forms, Post(t, f) PROVE TabsTyped'
  <2>1. PICK set \in Outcomes(f) :
          tab' = [tab EXCEPT ![t] = [Blank EXCEPT !.at = "redirected", !.set = set]]
    BY <1>7 DEF Post
  <2>2. jar' = jar /\ issued' = issued /\ f \in {"ccpa", "consent"} \cup Announcements
    BY <1>2, <1>7 DEF Post, TabShape
  <2>3. Brings(set, issued)
    BY <2>1, <2>2, OutcomesTyped
  <2>4. PICK x : x = [Blank EXCEPT !.at = "redirected", !.set = set]
    OBVIOUS
  <2>5. x.at = "redirected" /\ x.set = set /\ DOMAIN x.forms = {}
    BY <2>4 DEF Blank
  <2>6. TabTyped(x, issued)
    BY <2>3, <2>5, Zenon DEF TabTyped
  <2> QED
    BY <1>1, <2>1, <2>2, <2>4, <2>6, OneTabTyped
<1>8. CASE CloseBrowser
  <2>1. /\ jar' = [jar EXCEPT !.csrf = 0] /\ issued' = issued /\ tab' = [t \in Tabs |-> Blank]
    BY <1>8 DEF CloseBrowser, NoToken
  <2>2. jar' \in Jars(issued)
    BY <1>1, <2>1 DEF Jars
  <2>3. Blank.at = "blank" /\ DOMAIN Blank.forms = {} /\ DOMAIN Blank.set = {}
    BY DEF Blank
  <2>4. TabTyped(Blank, issued)
    BY <2>3, Zenon DEF TabTyped, Brings
  <2>5. \A t \in Tabs : tab'[t] = Blank
    BY <2>1
  <2> QED
    BY <1>1, <2>1, <2>2, <2>4, <2>5 DEF TabsTyped
<1>9. CASE UNCHANGED formVars
  <2>1. jar' = jar /\ tab' = tab /\ issued' = issued
    BY <1>9 DEF formVars
  <2>2. jar' \in Jars(issued') /\ issued' \in Nat /\ \A t \in Tabs : TabTyped(tab'[t], issued')
    BY <1>1, <1>2, <2>1, Zenon
  <2> QED
    BY <2>2 DEF TabsTyped
<1> QED
  BY <1>3, <1>4, <1>5, <1>6, <1>7, <1>8, <1>9 DEF FormsNext

LEMMA FormBoundsStep ==
  ASSUME WebFormsAssumption, FormBounds, [FormsNext]_formVars
  PROVE  FormBounds'
<1>1. /\ visits \in Nat /\ posts \in Nat /\ sessions \in Nat /\ mails \in Nat /\ mails <= posts
      /\ MaxVisits \in Nat /\ MaxPosts \in Nat /\ MaxSessions \in Nat
  BY DEF FormBounds, WebFormsAssumption
<1>2. ASSUME NEW t \in Tabs, Visit(t) \/ Arrive(t) \/ Follow(t) \/ PostContact(t) PROVE FormBounds'
  BY <1>1, <1>2 DEF FormBounds, Visit, Arrive, Follow, PostContact
<1>3. ASSUME NEW t \in Tabs, NEW f \in DOMAIN tab[t].forms, Refuse(t, f) \/ Post(t, f) PROVE FormBounds'
  <2>1. posts < MaxPosts /\ posts' = posts + 1 /\ UNCHANGED <<mails, visits, sessions>>
    BY <1>3, Zenon DEF Refuse, Post
  <2> QED
    BY <1>1, <2>1 DEF FormBounds
<1>4. CASE CloseBrowser
  BY <1>1, <1>4 DEF FormBounds, CloseBrowser
<1>5. CASE UNCHANGED formVars
  BY <1>5 DEF FormBounds, formVars
<1> QED
  BY <1>2, <1>3, <1>4, <1>5 DEF FormsNext

LEMMA FormTypes == FormsSpec => []FormsTypeOK
<1> USE WebFormsAssumption
<1>1. FormsInit => TabsTyped /\ FormBounds
  <2> SUFFICES ASSUME FormsInit PROVE TabsTyped /\ FormBounds
    OBVIOUS
  <2>1. jar = [csrf |-> 0, consent |-> "none", dismissed |-> {}, ccpa |-> FALSE] /\ issued = 0
    BY DEF FormsInit, NoToken
  <2>2. jar \in Jars(issued)
    BY <2>1 DEF Jars
  <2>3. Blank.at = "blank" /\ DOMAIN Blank.forms = {} /\ DOMAIN Blank.set = {}
    BY DEF Blank
  <2>4. TabTyped(Blank, issued)
    BY <2>3, Zenon DEF TabTyped, Brings
  <2>5. \A t \in Tabs : tab[t] = Blank
    BY DEF FormsInit
  <2>6. FormBounds
    BY DEF FormsInit, FormBounds, WebFormsAssumption
  <2> QED
    BY <2>1, <2>2, <2>4, <2>5, <2>6 DEF TabsTyped
<1>2. FormsInv /\ TabsTyped /\ FormBounds /\ [FormsNext]_formVars => TabsTyped' /\ FormBounds'
  BY TabsTypedStep, FormBoundsStep
<1>3. TabsTyped /\ FormBounds => FormsTypeOK
  BY Zenon DEF TabsTyped, TabTyped, FormBounds, FormsTypeOK, Jars
<1> QED
  BY <1>1, <1>2, <1>3, TabsFit, PTL DEF FormsSpec

\* A request carries what it was sent with until it is answered, and a day once it has
\* read the clock.
FlightTyped(x, day) ==
  /\ "q" \in DOMAIN x => x.q \in Shapes
  /\ x.at \notin {"gone", "close"} => "q" \in DOMAIN x
  /\ x.at \in {"load", "claim"} => x.today \in 0..day

PipeTyped ==
  /\ \A h \in Handlers : FlightTyped(flight[h], utcDay)
  /\ utcDay \in 1..MaxDays /\ stats.dayStart \in 0..utcDay /\ stats.queries \in Nat
  /\ seen \in [1..MaxDays -> Nat]
  /\ arrivals \in 0..MaxArrivals /\ edits \in 0..MaxTokenEdits

\* The requests that the total, a day, and the queries may still count.
Entering == Cardinality(In({"open"}))
Unseen == Cardinality(In({"open", "day"}))
Unanswered == Cardinality(In(Served \ {"close"}))

\* Nothing is counted that has not arrived, and no query that is not a request.
CountedOnce ==
  /\ stats.total + Entering <= arrivals
  /\ \A d \in 1..MaxDays : seen[d] + Unseen <= arrivals
  /\ stats.queries + Unanswered <= stats.total

PipeFits == PipeShape /\ PipeTyped /\ CountedOnce

LEMMA TheyAreNumbers == Entering \in Nat /\ Unseen \in Nat /\ Unanswered \in Nat
BY FinitelyMany DEF Entering, Unseen, Unanswered

\* A step moves one request, and the numbers with it.
LEMMA TheyMove ==
  ASSUME NEW h \in Handlers, NEW place, Moves(h, place)
  PROVE  /\ (flight[h].at = "open" <=> place = "open") => Entering' = Entering
         /\ flight[h].at # "open" /\ place = "open" => Entering' = Entering + 1
         /\ flight[h].at = "open" /\ place # "open" => Entering' = Entering - 1
         /\ (flight[h].at \in {"open", "day"} <=> place \in {"open", "day"}) => Unseen' = Unseen
         /\ flight[h].at \notin {"open", "day"} /\ place \in {"open", "day"} => Unseen' = Unseen + 1
         /\ flight[h].at \in {"open", "day"} /\ place \notin {"open", "day"} => Unseen' = Unseen - 1
         /\ (flight[h].at \in Served \ {"close"} <=> place \in Served \ {"close"}) =>
              Unanswered' = Unanswered
         /\ flight[h].at \notin Served \ {"close"} /\ place \in Served \ {"close"} =>
              Unanswered' = Unanswered + 1
         /\ flight[h].at \in Served \ {"close"} /\ place \notin Served \ {"close"} =>
              Unanswered' = Unanswered - 1
<1>1. flight[h].at \in {"open"} <=> flight[h].at = "open"
  OBVIOUS
<1>2. place \in {"open"} <=> place = "open"
  OBVIOUS
<1> QED
  BY <1>1, <1>2, Stays, Enters, Leaves DEF Entering, Unseen, Unanswered

\* What each step does to the request it moves.
LEMMA OneFlight ==
  ASSUME PipeShape, PipeTyped, NEW h \in Handlers, NEW f, FlightTyped(f, utcDay),
         flight' = [flight EXCEPT ![h] = f], utcDay' = utcDay
  PROVE  (\A g \in Handlers : FlightTyped(flight[g], utcDay))'
<1>1. \A g \in Handlers : flight'[g] = IF g = h THEN f ELSE flight[g]
  BY DEF PipeShape
<1>2. \A g \in Handlers : FlightTyped(flight[g], utcDay)
  BY DEF PipeTyped
<1>3. \A g \in Handlers : FlightTyped(flight'[g], utcDay')
  BY <1>1, <1>2
<1> QED
  BY <1>3

LEMMA FlightMoves ==
  ASSUME PipeShape, PipeTyped, NEW h \in Handlers, NEW place,
         place \in {"gone", "close"} \/ "q" \in DOMAIN flight[h],
         place \notin {"load", "claim"},
         flight' = [flight EXCEPT ![h].at = place], utcDay' = utcDay
  PROVE  (\A g \in Handlers : FlightTyped(flight[g], utcDay))'
<1>1. PICK f : f = [flight[h] EXCEPT !.at = place]
  OBVIOUS
<1>2. flight' = [flight EXCEPT ![h] = f]
  BY <1>1
<1>3. f.at = place /\ DOMAIN f = DOMAIN flight[h] /\ ("q" \in DOMAIN f => f.q = flight[h].q)
  BY <1>1 DEF PipeShape
<1>4. FlightTyped(f, utcDay)
  BY <1>3 DEF PipeTyped, FlightTyped
<1> QED
  BY <1>2, <1>4, OneFlight

LEMMA FlightsTyped ==
  ASSUME PipelineAssumption, PipeShape, PipeTyped, NEW h \in Handlers,
         \/ EnterChain(h) \/ Open(h) \/ LookAtDay(h) \/ LoadDay(h) \/ ClaimDay(h) \/ StoreDay(h)
         \/ Authorize(h) \/ RunHandler(h) \/ Panic(h) \/ Close(h)
  PROVE  (\A g \in Handlers : FlightTyped(flight[g], utcDay))'
<1>1. FlightTyped(flight[h], utcDay) /\ utcDay \in Nat /\ stats.dayStart \in 0..utcDay
  BY DEF PipeTyped, PipelineAssumption
<1>2. FlightTyped(Gone, utcDay) /\ FlightTyped([at |-> "close"], utcDay)
  <2>1. "q" \notin DOMAIN Gone /\ Gone.at = "gone"
    BY DEF Gone
  <2> QED
    BY <2>1 DEF FlightTyped
<1>3. CASE EnterChain(h)
  <2>1. PICK q \in Shapes : \E s :
          flight' = [flight EXCEPT ![h] = IF s = 0 THEN [at |-> "open", q |-> q] ELSE Gone]
    BY <1>3, Zenon DEF EnterChain
  <2>2. \/ flight' = [flight EXCEPT ![h] = [at |-> "open", q |-> q]]
        \/ flight' = [flight EXCEPT ![h] = Gone]
    BY <2>1, Zenon
  <2>3. FlightTyped([at |-> "open", q |-> q], utcDay) /\ utcDay' = utcDay
    BY <1>3 DEF EnterChain, FlightTyped
  <2> QED
    BY <1>2, <2>2, <2>3, OneFlight
<1>4. CASE Open(h)
  <2>1. "q" \in DOMAIN flight[h] /\ utcDay' = utcDay
    BY <1>1, <1>4 DEF Open, FlightTyped
  <2>2. flight' = [flight EXCEPT ![h].at = "day"]
    BY <1>4 DEF Open
  <2>3. "day" \notin {"load", "claim"}
    OBVIOUS
  <2> QED
    BY <2>1, <2>2, <2>3, FlightMoves, Zenon
<1>5. CASE LookAtDay(h)
  <2>1. PICK f : f = [at |-> "load", q |-> flight[h].q, today |-> utcDay]
    OBVIOUS
  <2>2. f.q \in Shapes /\ f.today \in 0..utcDay /\ f.at = "load" /\ "q" \in DOMAIN f
    BY <1>1, <1>5, <2>1 DEF LookAtDay, FlightTyped
  <2>3. FlightTyped(f, utcDay) /\ flight' = [flight EXCEPT ![h] = f] /\ utcDay' = utcDay
    BY <1>5, <2>1, <2>2 DEF LookAtDay, FlightTyped
  <2> QED
    BY <2>3, OneFlight
<1>6. CASE LoadDay(h)
  <2>1. PICK f : f = [at |-> IF stats.dayStart = flight[h].today THEN "add" ELSE "claim",
                      q |-> flight[h].q, today |-> flight[h].today, old |-> stats.dayStart]
    OBVIOUS
  <2>2. f.q \in Shapes /\ f.today \in 0..utcDay /\ f.at \in {"add", "claim"} /\ "q" \in DOMAIN f
    BY <1>1, <1>6, <2>1 DEF LoadDay, FlightTyped
  <2>3. FlightTyped(f, utcDay) /\ flight' = [flight EXCEPT ![h] = f] /\ utcDay' = utcDay
    BY <1>6, <2>1, <2>2 DEF LoadDay, FlightTyped
  <2> QED
    BY <2>3, OneFlight
<1>7. CASE ClaimDay(h)
  <2>1. "q" \in DOMAIN flight[h] /\ utcDay' = utcDay
    BY <1>1, <1>7 DEF ClaimDay, FlightTyped
  <2>2. \/ flight' = [flight EXCEPT ![h].at = "reset"]
        \/ flight' = [flight EXCEPT ![h].at = "add"]
    BY <1>7 DEF ClaimDay
  <2> QED
    BY <2>1, <2>2, FlightMoves
<1>8. CASE StoreDay(h)
  <2>1. PICK f : f = [at |-> "handle", q |-> flight[h].q]
    OBVIOUS
  <2>2. f.q \in Shapes /\ f.at = "handle" /\ "q" \in DOMAIN f
    BY <1>1, <1>8, <2>1 DEF StoreDay, FlightTyped
  <2>3. FlightTyped(f, utcDay) /\ flight' = [flight EXCEPT ![h] = f] /\ utcDay' = utcDay
    BY <1>8, <2>1, <2>2 DEF StoreDay, FlightTyped
  <2> QED
    BY <2>3, OneFlight
<1>9. CASE Authorize(h)
  <2>1. "q" \in DOMAIN flight[h] /\ utcDay' = utcDay
    BY <1>1, <1>9 DEF Authorize, FlightTyped
  <2>2. \/ flight' = [flight EXCEPT ![h].at = "serve"]
        \/ flight' = [flight EXCEPT ![h] = [at |-> "close"]]
    BY <1>9 DEF Authorize
  <2> QED
    BY <1>2, <2>1, <2>2, FlightMoves, OneFlight
<1>10. CASE RunHandler(h) \/ Panic(h) \/ Close(h)
  <2>1. /\ utcDay' = utcDay
        /\ \/ flight' = [flight EXCEPT ![h] = [at |-> "close"]]
           \/ flight' = [flight EXCEPT ![h] = Gone]
    BY <1>10 DEF RunHandler, Panic, AfterPanic, Close
  <2> QED
    BY <1>2, <2>1, OneFlight
<1> QED
  BY <1>3, <1>4, <1>5, <1>6, <1>7, <1>8, <1>9, <1>10

\* The numbers that a step leaves alone, and the day that it claims.
LEMMA RestTyped ==
  ASSUME PipelineAssumption, PipeShape, PipeTyped, NEW h \in Handlers,
         \/ EnterChain(h) \/ Open(h) \/ LookAtDay(h) \/ LoadDay(h) \/ ClaimDay(h) \/ StoreDay(h)
         \/ Authorize(h) \/ RunHandler(h) \/ Panic(h) \/ Close(h)
  PROVE  PipeTyped'
<1>1. (\A g \in Handlers : FlightTyped(flight[g], utcDay))'
  BY FlightsTyped
<1>2. /\ arrivals' \in 0..MaxArrivals /\ utcDay' = utcDay /\ edits' = edits
      /\ EnterChain(h) => arrivals' = arrivals + 1
      /\ ~EnterChain(h) => arrivals' = arrivals
  BY DEF PipeTyped, PipelineAssumption, EnterChain, Open, LookAtDay, LoadDay, ClaimDay, StoreDay,
         Authorize, RunHandler, Panic, Close
<1>3. seen' \in [1..MaxDays -> Nat]
  BY DEF PipeTyped, PipelineAssumption, EnterChain, Open, LookAtDay, LoadDay, ClaimDay, StoreDay,
         Authorize, RunHandler, Panic, Close
<1>4. stats'.queries \in Nat /\ stats'.dayStart \in 0..utcDay
  <2>1. CASE ClaimDay(h)
    <3>1. flight[h].today \in 0..utcDay
      BY <2>1 DEF ClaimDay, PipeTyped, FlightTyped
    <3> QED
      BY <2>1, <3>1 DEF ClaimDay, PipeTyped, PipeShape
  <2>2. CASE RunHandler(h)
    <3>1. stats' = stats \/ stats' = [stats EXCEPT !.queries = @ + 1]
      BY <2>2 DEF RunHandler
    <3> QED
      BY <3>1 DEF PipeTyped, PipeShape
  <2>3. CASE Open(h) \/ StoreDay(h) \/ Close(h)
    BY <2>3 DEF PipeTyped, PipeShape, Open, StoreDay, Close
  <2>4. CASE EnterChain(h) \/ LookAtDay(h) \/ LoadDay(h) \/ Authorize(h) \/ Panic(h)
    BY <2>4 DEF PipeTyped, EnterChain, LookAtDay, LoadDay, Authorize, Panic
  <2> QED
    BY <2>1, <2>2, <2>3, <2>4
<1> QED
  BY <1>1, <1>2, <1>3, <1>4 DEF PipeTyped

LEMMA TheyStayNumbers == Entering' \in Nat /\ Unseen' \in Nat /\ Unanswered' \in Nat
<1>1. ASSUME NEW A PROVE Cardinality(In(A)') \in Nat
  <2>1. IsFiniteSet(In(A)')
    BY PipelineAssumption, FS_Subset DEF In
  <2> QED
    BY <2>1, FS_CardinalityType
<1> QED
  BY <1>1 DEF Entering, Unseen, Unanswered

LEMMA CountersAreNumbers ==
  ASSUME PipeShape, PipeTyped
  PROVE  /\ stats.total \in Nat /\ arrivals \in Nat /\ stats.queries \in Nat
         /\ \A d \in 1..MaxDays : seen[d] \in Nat
         /\ DOMAIN stats = {"total", "today", "dayStart", "active", "queries"}
         /\ utcDay \in 1..MaxDays
BY DEF PipeShape, PipeTyped

\* What a step does to the counters and to the numbers of requests, in one go: it
\* suffices that no bound is passed.
LEMMA StillCountedOnce ==
  ASSUME PipeFits, PipeShape', PipeTyped',
         stats'.total + Entering' - arrivals' <= stats.total + Entering - arrivals,
         \A d \in 1..MaxDays : seen'[d] + Unseen' - arrivals' <= seen[d] + Unseen - arrivals,
         stats'.queries + Unanswered' - stats'.total <= stats.queries + Unanswered - stats.total
  PROVE  CountedOnce'
<1>1. /\ stats.total \in Nat /\ arrivals \in Nat /\ stats.queries \in Nat
      /\ stats'.total \in Nat /\ arrivals' \in Nat /\ stats'.queries \in Nat
      /\ \A d \in 1..MaxDays : seen[d] \in Nat /\ seen'[d] \in Nat
  BY DEF PipeFits, PipeShape, PipeTyped
<1>2. /\ Entering \in Nat /\ Unseen \in Nat /\ Unanswered \in Nat
      /\ Entering' \in Nat /\ Unseen' \in Nat /\ Unanswered' \in Nat
  BY TheyAreNumbers, TheyStayNumbers
<1>3. stats'.total + Entering' <= arrivals'
  BY <1>1, <1>2 DEF PipeFits, CountedOnce
<1>4. \A d \in 1..MaxDays : seen'[d] + Unseen' <= arrivals'
  BY <1>1, <1>2 DEF PipeFits, CountedOnce
<1>5. stats'.queries + Unanswered' <= stats'.total
  BY <1>1, <1>2 DEF PipeFits, CountedOnce
<1> QED
  BY <1>3, <1>4, <1>5 DEF CountedOnce

LEMMA RequestCountedOnce ==
  ASSUME PipelineAssumption, PipeFits, PipeShape', NEW h \in Handlers,
         \/ EnterChain(h) \/ Open(h) \/ LookAtDay(h) \/ LoadDay(h) \/ ClaimDay(h) \/ StoreDay(h)
         \/ Authorize(h) \/ RunHandler(h) \/ Panic(h) \/ Close(h)
  PROVE  PipeFits'
<1>1. PipeShape /\ PipeTyped /\ PipeTyped'
  BY RestTyped DEF PipeFits
<1>2. /\ stats.total \in Nat /\ arrivals \in Nat /\ stats.queries \in Nat
      /\ \A d \in 1..MaxDays : seen[d] \in Nat
      /\ DOMAIN stats = {"total", "today", "dayStart", "active", "queries"}
      /\ utcDay \in 1..MaxDays
  BY <1>1, CountersAreNumbers
<1>3. Entering \in Nat /\ Unseen \in Nat /\ Unanswered \in Nat
  BY TheyAreNumbers
<1> SUFFICES CountedOnce'
  BY <1>1 DEF PipeFits
<1>4. CASE EnterChain(h)
  <2>1. Step(h, {"gone"}, {"open", "gone"}, Counters)
    BY <1>1, <1>4, Steps
  <2>2. Entering' <= Entering + 1 /\ Unseen' <= Unseen + 1 /\ Unanswered' = Unanswered
    BY <1>3, <2>1, TheyMove DEF Step, Served
  <2>3. arrivals' = arrivals + 1 /\ stats' = stats /\ seen' = seen
    BY <1>4 DEF EnterChain
  <2>4. Entering' \in Nat /\ Unseen' \in Nat
    BY TheyStayNumbers
  <2> QED
    BY <1>1, <1>2, <1>3, <2>2, <2>3, <2>4, StillCountedOnce
<1>5. CASE Open(h)
  <2>1. Step(h, {"open"}, {"day"}, <<stats.total + 1, stats.today, stats.active + 1>>)
    BY <1>1, <1>5, Steps
  <2>2. Entering' = Entering - 1 /\ Unseen' = Unseen /\ Unanswered' = Unanswered + 1
    BY <2>1, TheyMove DEF Step, Served
  <2>3. arrivals' = arrivals /\ seen' = seen
    BY <1>5 DEF Open
  <2>4. stats'.total = stats.total + 1 /\ stats'.queries = stats.queries
    BY <1>2, <1>5 DEF Open
  <2> QED
    BY <1>1, <1>2, <1>3, <2>2, <2>3, <2>4, StillCountedOnce
<1>6. CASE LookAtDay(h)
  <2>1. Step(h, {"day"}, {"load"}, Counters)
    BY <1>1, <1>6, Steps
  <2>2. Entering' = Entering /\ Unseen' = Unseen - 1 /\ Unanswered' = Unanswered
    BY <2>1, TheyMove DEF Step, Served
  <2>3. arrivals' = arrivals /\ stats' = stats /\ seen' = [seen EXCEPT ![utcDay] = @ + 1]
    BY <1>6 DEF LookAtDay
  <2>4. \A d \in 1..MaxDays : seen'[d] <= seen[d] + 1 /\ seen'[d] \in Nat
    BY <1>1, <1>2, <2>3 DEF PipeTyped
  <2> QED
    BY <1>1, <1>2, <1>3, <2>2, <2>3, <2>4, StillCountedOnce
<1>7. CASE LoadDay(h) \/ ClaimDay(h) \/ StoreDay(h)
  <2>1. PICK from \in SUBSET {"load", "claim", "reset", "add"} :
          \E to \in SUBSET {"claim", "reset", "add", "handle"} : \E counters : Step(h, from, to, counters)
    <3>1. \/ Step(h, {"load"}, {"add", "claim"}, Counters)
          \/ Step(h, {"claim"}, {"reset", "add"}, Counters)
          \/ Step(h, {"reset"}, {"handle"}, <<stats.total, 1, stats.active>>)
          \/ Step(h, {"add"}, {"handle"}, <<stats.total, stats.today + 1, stats.active>>)
      BY <1>1, <1>7, Steps
    <3> QED
      BY <3>1
  <2>2. PICK place \in {"claim", "reset", "add", "handle"} :
          flight[h].at \in {"load", "claim", "reset", "add"} /\ Moves(h, place)
    BY <2>1 DEF Step
  <2>3. Entering' = Entering /\ Unseen' = Unseen /\ Unanswered' = Unanswered
    BY <2>2, TheyMove DEF Served
  <2>4. arrivals' = arrivals /\ seen' = seen
    BY <1>7 DEF LoadDay, ClaimDay, StoreDay
  <2>5. stats'.total = stats.total /\ stats'.queries = stats.queries
    BY <1>2, <1>7 DEF LoadDay, ClaimDay, StoreDay
  <2> QED
    BY <1>1, <1>2, <1>3, <2>3, <2>4, <2>5, StillCountedOnce
<1>8. CASE Authorize(h) \/ Panic(h)
  <2>1. \/ Step(h, {"handle"}, {"serve", "close"}, Counters)
        \/ Step(h, {"serve", "handle"}, {"close"}, Counters)
    BY <1>1, <1>8, Steps
  <2>2. PICK place \in {"serve", "close"} : flight[h].at \in {"serve", "handle"} /\ Moves(h, place)
    BY <2>1 DEF Step
  <2>3. Entering' = Entering /\ Unseen' = Unseen /\ Unanswered' <= Unanswered
    BY <1>3, <2>2, TheyMove DEF Served
  <2>4. arrivals' = arrivals /\ seen' = seen /\ stats' = stats
    BY <1>8 DEF Authorize, Panic
  <2>5. Unanswered' \in Nat
    BY TheyStayNumbers
  <2> QED
    BY <1>1, <1>2, <1>3, <2>3, <2>4, <2>5, StillCountedOnce
<1>9. CASE RunHandler(h)
  <2>1. Step(h, {"serve", "handle"}, {"close"}, Counters)
    BY <1>1, <1>9, Steps
  <2>2. Entering' = Entering /\ Unseen' = Unseen /\ Unanswered' = Unanswered - 1
    BY <2>1, TheyMove DEF Step, Served
  <2>3. arrivals' = arrivals /\ seen' = seen
    BY <1>9 DEF RunHandler
  <2>4. stats'.total = stats.total /\ stats'.queries \in {stats.queries, stats.queries + 1}
    <3>1. stats' = stats \/ stats' = [stats EXCEPT !.queries = @ + 1]
      BY <1>9 DEF RunHandler
    <3> QED
      BY <1>2, <3>1
  <2> QED
    BY <1>1, <1>2, <1>3, <2>2, <2>3, <2>4, StillCountedOnce
<1>10. CASE Close(h)
  <2>1. Step(h, {"close"}, {"gone"}, <<stats.total, stats.today, stats.active - 1>>)
    BY <1>1, <1>10, Steps
  <2>2. Entering' = Entering /\ Unseen' = Unseen /\ Unanswered' = Unanswered
    BY <2>1, TheyMove DEF Step, Served
  <2>3. arrivals' = arrivals /\ seen' = seen
    BY <1>10 DEF Close
  <2>4. stats'.total = stats.total /\ stats'.queries = stats.queries
    BY <1>2, <1>10 DEF Close
  <2> QED
    BY <1>1, <1>2, <1>3, <2>2, <2>3, <2>4, StillCountedOnce
<1> QED
  BY <1>4, <1>5, <1>6, <1>7, <1>8, <1>9, <1>10

\* A reload, a midnight and a stutter leave the requests where they are.
LEMMA NoRequestMoves ==
  ASSUME PipelineAssumption, PipeFits, PipeShape', ReloadToken \/ Midnight \/ UNCHANGED pipeVars
  PROVE  PipeFits'
<1>1. /\ flight' = flight /\ stats' = stats /\ seen' = seen /\ arrivals' = arrivals
      /\ (utcDay' = utcDay \/ (utcDay < MaxDays /\ utcDay' = utcDay + 1))
      /\ (edits' = edits \/ (edits < MaxTokenEdits /\ edits' = edits + 1))
  BY DEF ReloadToken, Midnight, pipeVars
<1>2. PipeShape /\ PipeTyped /\ utcDay \in Nat /\ utcDay' \in Nat /\ utcDay <= utcDay'
  <2>1. PipeShape /\ PipeTyped
    BY DEF PipeFits
  <2>2. utcDay \in 1..MaxDays
    BY <2>1 DEF PipeTyped
  <2> QED
    BY <1>1, <2>1, <2>2 DEF PipelineAssumption
<1>3. ASSUME NEW x, FlightTyped(x, utcDay) PROVE FlightTyped(x, utcDay')
  BY <1>2, <1>3 DEF FlightTyped
<1>4. (\A h \in Handlers : FlightTyped(flight[h], utcDay))'
  BY <1>1, <1>2, <1>3 DEF PipeTyped
<1>5. /\ utcDay' \in 1..MaxDays /\ stats'.dayStart \in 0..utcDay' /\ stats'.queries \in Nat
      /\ seen' \in [1..MaxDays -> Nat]
      /\ arrivals' \in 0..MaxArrivals /\ edits' \in 0..MaxTokenEdits
  BY <1>1, <1>2 DEF PipeTyped, PipelineAssumption
<1>6. PipeTyped'
  BY <1>4, <1>5 DEF PipeTyped
<1>7. Entering' = Entering /\ Unseen' = Unseen /\ Unanswered' = Unanswered
  BY <1>1 DEF Entering, Unseen, Unanswered, In
<1>8. CountedOnce'
  BY <1>1, <1>7 DEF PipeFits, CountedOnce
<1> QED
  BY <1>6, <1>8 DEF PipeFits

\* Nothing has arrived.
LEMMA PipeStarts == PipelineAssumption /\ PipeInit => PipeFits
<1> SUFFICES ASSUME PipelineAssumption, PipeInit PROVE PipeFits
  OBVIOUS
<1>1. PipeShape
  BY DEF PipeInit, PipeShape, Gone, Whereabouts
<1>2. "q" \notin DOMAIN Gone /\ Gone.at = "gone"
  BY DEF Gone
<1>3. \A h \in Handlers : FlightTyped(flight[h], utcDay)
  BY <1>2 DEF PipeInit, FlightTyped
<1>4. PipeTyped
  BY <1>3 DEF PipeInit, PipeTyped, PipelineAssumption
<1>5. \A A \in {{"open"}, {"open", "day"}, Served \ {"close"}} : In(A) = {}
  BY <1>2 DEF PipeInit, In, Served
<1>6. Entering = 0 /\ Unseen = 0 /\ Unanswered = 0
  BY <1>5, FS_EmptySet DEF Entering, Unseen, Unanswered
<1>7. stats.total = 0 /\ stats.queries = 0 /\ arrivals = 0 /\ \A d \in 1..MaxDays : seen[d] = 0
  BY DEF PipeInit
<1>8. CountedOnce
  BY <1>6, <1>7 DEF CountedOnce
<1> QED
  BY <1>1, <1>4, <1>8 DEF PipeFits

\* Each request is counted once, in the total, in its day and among the queries.
LEMMA RequestsAreCounted == PipeSpec => []PipeFits
<1>1. PipeInit => PipeFits
  BY PipeStarts, PipelineAssumption
<1>2. PipeFits /\ PipeShape' /\ [PipeNext]_pipeVars => PipeFits'
  BY RequestCountedOnce, NoRequestMoves, PipelineAssumption DEF PipeNext
<1>3. StatsInv => PipeShape
  BY DEF StatsInv
<1> QED
  BY <1>1, <1>2, <1>3, CountersFit, PTL DEF PipeSpec

LEMMA PipeTypes == PipeSpec => []PipeTypeOK
<1>1. StatsInv /\ HashDecides /\ PipeFits => PipeTypeOK
  <2> SUFFICES ASSUME StatsInv, HashDecides, PipeFits PROVE PipeTypeOK
    OBVIOUS
  <2>1. PipeShape /\ PipeTyped /\ CountedOnce
    BY DEF PipeFits
  <2>2. stats.today + Coming <= stats.total /\ Coming \in Nat
    BY InvIsAboutThem, FinitelyMany DEF Coming
  <2>3. /\ stats.total \in Nat /\ arrivals \in Nat /\ stats.queries \in Nat /\ stats.today \in Nat
        /\ \A d \in 1..MaxDays : seen[d] \in Nat
        /\ MaxArrivals \in Nat /\ arrivals <= MaxArrivals
    <3>1. stats.today \in Nat
      BY <2>1 DEF PipeShape
    <3>2. arrivals \in 0..MaxArrivals /\ MaxArrivals \in Nat
      BY <2>1, PipelineAssumption DEF PipeTyped
    <3> QED
      BY <2>1, <3>1, <3>2, CountersAreNumbers
  <2>4. stats.total <= arrivals /\ stats.queries <= stats.total
    BY <2>1, <2>3, TheyAreNumbers DEF CountedOnce
  <2>5. \A d \in 1..MaxDays : seen[d] <= arrivals
    BY <2>1, <2>3, TheyAreNumbers DEF CountedOnce
  <2>6. stats.total \in 0..arrivals /\ stats.today \in 0..arrivals /\ stats.queries \in 0..stats.total
    BY <2>2, <2>3, <2>4
  <2>7. seen \in [1..MaxDays -> 0..MaxArrivals]
    <3>1. \A d \in 1..MaxDays : seen[d] \in 0..MaxArrivals
      BY <2>3, <2>5
    <3>2. seen \in [1..MaxDays -> Nat]
      BY <2>1 DEF PipeTyped
    <3> QED
      BY <3>1, <3>2
  <2>8. \A h \in Handlers : "q" \in DOMAIN flight[h] => flight[h].q \in Shapes
    BY <2>1 DEF PipeTyped, FlightTyped
  <2>9. /\ serverToken \in ServerTokens /\ tokenHash \in ServerTokens \cup {NoBearer}
        /\ letIn \subseteq ServerTokens
    BY DEF HashDecides
  <2> QED
    BY <2>1, <2>6, <2>7, <2>8, <2>9 DEF PipeTyped, PipeTypeOK
<1> QED
  BY <1>1, CountersFit, HashStays, RequestsAreCounted, PTL

LEMMA LimiterTypes == Spec => []TypeOK
BY LimiterCorrect, PTL DEF LimiterInv

-----------------------------------------------------------------------------
\* The composition moves one component at a time and leaves the others as they are.
LEMMA EachIsItself ==
  RequestsSpec =>
    Spec /\ FormsSpec /\ RouteSpec /\ ParseSpec /\ SearchSpec /\ PipeSpec /\ CliSpec
<1>1. RequestsInit =>
        Init /\ FormsInit /\ RouteInit /\ ParseInit /\ SearchInit /\ PipeInit /\ CliInit
  BY DEF RequestsInit
<1>2. [RequestsNext]_<<part, vars, formVars, routeVars, parseVars, searchVars, pipeVars, cliVars>> =>
        /\ [Next]_vars /\ [FormsNext]_formVars /\ [RouteNext]_routeVars /\ [ParseNext]_parseVars
        /\ [SearchNext]_searchVars /\ [PipeNext]_pipeVars /\ [CliNext]_cliVars
  BY DEF RequestsNext
<1> QED
  BY <1>1, <1>2, PTL
     DEF RequestsSpec, Spec, FormsSpec, RouteSpec, ParseSpec, SearchSpec, PipeSpec, CliSpec

\* Whatever the clients, tabs, tables, rows, requests and servers are, the data of every
\* component keep to their shape, and the counters of stats.go to what has arrived: each
\* request is counted at most once in the total, in its day and among the queries.
THEOREM RequestDataFits == RequestsSpec => []RequestsTypeOK
BY EachIsItself, LimiterTypes, FormTypes, RouteTypes, ParseTypes, SearchTypes, PipeTypes,
   CliTypes, PTL DEF RequestsTypeOK
=============================================================================
