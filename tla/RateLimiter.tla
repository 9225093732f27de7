---------------------------- MODULE RateLimiter ----------------------------
(***************************************************************************)
(* The per-client request limiter (src/src/ratelimit/ratelimit.go) behind  *)
(* RateLimitMiddleware (src/src/server/middleware.go): one window per      *)
(* client, started by the client's first request and replaced once it is   *)
(* Duration old, and a cleanup goroutine that forgets old windows.         *)
(*                                                                         *)
(* Allow and cleanupExpired run under l.mu and read the clock there: each  *)
(* is one step.  A client is the key GetKey derives from the request.      *)
(***************************************************************************)
EXTENDS Integers, FiniteSets

CONSTANTS
  Clients,       \* rate-limit keys
  Limit,         \* l.requests
  Duration,      \* l.duration
  CleanupEvery,  \* l.cleanupInt
  MaxTime        \* bound: the clock runs over 1..MaxTime

ASSUME LimiterAssumption ==
  /\ Limit \in Nat \ {0}
  /\ Duration \in Nat \ {0}
  /\ CleanupEvery \in Nat \ {0}
  /\ MaxTime \in Nat \ {0}

VARIABLES
  now,       \* the clock
  windows,   \* l.windows: windows[c] is a window, or NoWindow
  ticker,    \* the next tick of the cleanup loop
  accepted   \* history variable: the requests of c that were let through

vars == <<now, windows, ticker, accepted>>

NoWindow == [requests |-> 0, windowTime |-> 0]
Window == [requests : Nat \ {0}, windowTime : Nat \ {0}]
Exists(c) == windows[c] # NoWindow
Elapsed(c) == now - windows[c].windowTime

\* A request let through: when, in the window that began when, and which one.
Request == [at : Nat, win : Nat, n : Nat]
Accept(c, win) ==
  accepted' = [accepted EXCEPT ![c] =
    @ \cup {[at |-> now, win |-> win, n |-> Cardinality(accepted[c]) + 1]}]
-----------------------------------------------------------------------------
Init ==
  /\ now = 1
  /\ windows = [c \in Clients |-> NoWindow]
  /\ ticker = 1 + CleanupEvery
  /\ accepted = [c \in Clients |-> {}]

Tick ==
  /\ now < MaxTime
  /\ now' = now + 1
  /\ UNCHANGED <<windows, ticker, accepted>>

\* Operators named Mutant... are slips a change to the code could make; the
\* specification does not use them, each shows that a property notices one.

\* The first request of a window is counted twice.
MutantCountTwice(c) ==
  /\ ~Exists(c) \/ Elapsed(c) >= Duration
  /\ windows' = [windows EXCEPT ![c] = [requests |-> 2, windowTime |-> now]]
  /\ Accept(c, now)
  /\ UNCHANGED <<now, ticker>>

\* Allow, first request of a window.
AllowFirst(c) ==
  /\ ~Exists(c) \/ Elapsed(c) >= Duration
  /\ windows' = [windows EXCEPT ![c] = [requests |-> 1, windowTime |-> now]]
  /\ Accept(c, now)
  /\ UNCHANGED <<now, ticker>>

\* Allow, a further request of the window.
AllowNext(c) ==
  /\ Exists(c) /\ Elapsed(c) < Duration
  /\ windows[c].requests < Limit
  /\ windows' = [windows EXCEPT ![c].requests = @ + 1]
  /\ Accept(c, windows[c].windowTime)
  /\ UNCHANGED <<now, ticker>>

\* Allow says no: the middleware answers 429.
Refused(c) == Exists(c) /\ Elapsed(c) < Duration /\ windows[c].requests >= Limit
AllowRefused(c) == Refused(c) /\ UNCHANGED vars

\* Windows are forgotten as soon as the ticker fires, used or not.
MutantForgetAll ==
  /\ now >= ticker
  /\ ticker' = ticker + CleanupEvery
  /\ windows' = [c \in Clients |-> NoWindow]
  /\ UNCHANGED <<now, accepted>>

\* The ticker fires: windows older than twice the duration are deleted.
cleanupExpired ==
  /\ now >= ticker
  /\ ticker' = ticker + CleanupEvery
  /\ windows' = [c \in Clients |-> IF Exists(c) /\ Elapsed(c) > Duration * 2
                                   THEN NoWindow ELSE windows[c]]
  /\ UNCHANGED <<now, accepted>>

Next ==
  \/ Tick
  \/ \E c \in Clients : AllowFirst(c) \/ AllowNext(c) \/ AllowRefused(c)
  \/ cleanupExpired

Spec == Init /\ [][Next]_vars
-----------------------------------------------------------------------------
TypeOK ==
  /\ now \in 1..MaxTime
  /\ windows \in [Clients -> Window \cup {NoWindow}]
  /\ ticker \in Nat
  /\ accepted \in [Clients -> SUBSET Request]

\* The requests of c let through in the Duration instants from a on.
Within(c, a) == {r \in accepted[c] : a <= r.at /\ r.at < a + Duration}

(***************************************************************************)
(* However windows are started, replaced and cleaned up, no client gets    *)
(* more than twice the limit through in any stretch of Duration.           *)
(***************************************************************************)
TwiceTheLimit ==
  \A c \in Clients : \A a \in 1..MaxTime : Cardinality(Within(c, a)) <= 2 * Limit

(***************************************************************************)
(* Allow says no only to a client that got Limit requests through during   *)
(* the last Duration.                                                      *)
(***************************************************************************)
RefusalIsDeserved ==
  \A c \in Clients :
    Refused(c) => Cardinality(Within(c, now - Duration + 1)) >= Limit

=============================================================================
