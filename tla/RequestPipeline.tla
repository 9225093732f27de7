---------------------------- MODULE RequestPipeline ----------------------------
(***************************************************************************)
(* A request on its way through one server process: the chain that         *)
(* setupMiddleware builds, the counters of stats.go that LoggingMiddleware *)
(* moves, the token of requireToken, and the statuses of the handlers.     *)
(* The counters are atomics: each step of recordRequest is one of them.    *)
(***************************************************************************)
EXTENDS Naturals, FiniteSets

CONSTANTS
  Handlers,      \* the requests that may be in flight together
  Shapes,        \* the requests that arrive: see RequestShape
  ServerTokens,  \* what server.token may say
  CorsOn,        \* BOOLEAN: cors.allowed_origins is not the single ""
  MaxArrivals,   \* bound: requests
  MaxDays,       \* bound: UTC days
  MaxTokenEdits  \* bound: reloads that bring another token

NoBearer == "none"

Routes == {"page", "lookup", "plain", "bulk", "ops", "unknown"}

\* What the chain looks at.  path: as sent, with a trailing slash, or with "..".
RequestShape ==
  [path : {"plain", "slash", "dots"}, api : BOOLEAN, method : {"GET", "POST", "OPTIONS"},
   cross : BOOLEAN, navigate : BOOLEAN, bearer : ServerTokens \cup {NoBearer, "other"},
   route : Routes]

ASSUME PipelineAssumption ==
  /\ IsFiniteSet(Handlers)
  /\ NoBearer \notin ServerTokens /\ "other" \notin ServerTokens
  /\ Shapes \subseteq RequestShape /\ CorsOn \in BOOLEAN
  /\ MaxArrivals \in Nat /\ MaxDays \in Nat \ {0} /\ MaxTokenEdits \in Nat

VARIABLES
  flight,      \* flight[h]: where the request of h is, what it is, and what it has read
  serverToken, \* config.ServerToken, which a reload replaces
  tokenHash,   \* serverTokenHashVal, or NoBearer before sync.Once has run
  stats,       \* serverStats: total, today (requests24h), dayStart, active, queries
  utcDay,      \* the UTC day
  letIn,       \* history: the tokens requireToken has let through
  seen,        \* history: seen[d], requests counted as of day d
  arrivals, edits

pipeVars == <<flight, serverToken, tokenHash, stats, utcDay, letIn, seen, arrivals, edits>>

Gone == [at |-> "gone"]
In(places) == {h \in Handlers : flight[h].at \in places}
-----------------------------------------------------------------------------
\* CORSMiddleware answers the preflight of an API path itself.
Preflight(q) == CorsOn /\ q.api /\ q.method = "OPTIONS"

\* SecFetchValidationMiddleware.
CrossSite(q) ==
  /\ q.method = "POST"
  /\ \/ q.cross /\ q.bearer = NoBearer
     \/ q.navigate /\ q.api

\* The status of a request that URLNormalize, PathSecurity, CORS, SecFetch, RateLimit or
\* GeoIP ends, in their order; 0 when all pass it on.  The last two depend on the client.
Gates(q) ==
  CASE q.path = "slash" -> {301}
    [] q.path = "dots" -> {400}
    [] q.path = "plain" /\ Preflight(q) -> {204}
    [] q.path = "plain" /\ ~Preflight(q) /\ CrossSite(q) -> {403}
    [] OTHER -> {0, 429, 403}

\* requireToken wraps the handler: a method without one never reaches it.
Protected(q) == q.route \in {"bulk", "ops"} /\ q.method # "OPTIONS"

\* What the router and the handlers answer: validation, lookup and store may each fail.
Statuses(q) ==
  CASE q.route = "unknown" -> {404}
    [] q.route # "unknown" /\ q.method = "OPTIONS" -> {405}
    [] q.method # "OPTIONS" /\ q.route = "page" -> {200}
    [] q.method # "OPTIONS" /\ q.route \in {"lookup", "plain"} -> {200, 400, 500}
    [] q.method # "OPTIONS" /\ q.route = "bulk" -> {200, 400}
    [] q.method # "OPTIONS" /\ q.route = "ops" -> {200, 400, 404, 500}
-----------------------------------------------------------------------------
PipeInit ==
  /\ flight = [h \in Handlers |-> Gone]
  /\ serverToken \in ServerTokens
  /\ tokenHash = NoBearer
  /\ stats = [total |-> 0, today |-> 0, dayStart |-> 0, active |-> 0, queries |-> 0]
  /\ utcDay = 1
  /\ letIn = {}
  /\ seen = [d \in 1..MaxDays |-> 0]
  /\ arrivals = 0 /\ edits = 0

\* The chain up to AuthMiddleware; what it ends is neither counted nor logged.
EnterChain(h) ==
  /\ flight[h] = Gone /\ arrivals < MaxArrivals
  /\ arrivals' = arrivals + 1
  /\ \E q \in Shapes : \E s \in Gates(q) :
       flight' = [flight EXCEPT ![h] = IF s = 0 THEN [at |-> "open", q |-> q] ELSE Gone]
  /\ UNCHANGED <<serverToken, tokenHash, stats, utcDay, letIn, seen, edits>>

\* connOpen, and the first line of recordRequest.
Open(h) ==
  /\ flight[h].at = "open"
  /\ stats' = [stats EXCEPT !.active = @ + 1, !.total = @ + 1]
  /\ flight' = [flight EXCEPT ![h].at = "day"]
  /\ UNCHANGED <<serverToken, tokenHash, utcDay, letIn, seen, arrivals, edits>>

\* recordRequest takes the time and then loads dayStart.
LookAtDay(h) ==
  /\ flight[h].at = "day"
  /\ flight' = [flight EXCEPT ![h] = [at |-> "load", q |-> @.q, today |-> utcDay]]
  /\ seen' = [seen EXCEPT ![utcDay] = @ + 1]
  /\ UNCHANGED <<serverToken, tokenHash, stats, utcDay, letIn, arrivals, edits>>

LoadDay(h) ==
  /\ flight[h].at = "load"
  /\ flight' = [flight EXCEPT ![h] =
       [at |-> IF stats.dayStart = @.today THEN "add" ELSE "claim",
        q |-> @.q, today |-> @.today, old |-> stats.dayStart]]
  /\ UNCHANGED <<serverToken, tokenHash, stats, utcDay, letIn, seen, arrivals, edits>>

\* The compare-and-swap: its winner resets requests24h, in a step of its own.
ClaimDay(h) ==
  /\ flight[h].at = "claim"
  /\ IF stats.dayStart = flight[h].old
     THEN /\ stats' = [stats EXCEPT !.dayStart = flight[h].today]
          /\ flight' = [flight EXCEPT ![h].at = "reset"]
     ELSE /\ flight' = [flight EXCEPT ![h].at = "add"]
          /\ UNCHANGED stats
  /\ UNCHANGED <<serverToken, tokenHash, utcDay, letIn, seen, arrivals, edits>>

\* The counter goes on from the day before.
MutantStored(h) == IF flight[h].at = "reset" THEN stats.total + 1 ELSE stats.today + 1

\* requests24h after the Store or the Add.
Stored(h) == IF flight[h].at = "reset" THEN 1 ELSE stats.today + 1

StoreDay(h) ==
  /\ flight[h].at \in {"reset", "add"}
  /\ stats' = [stats EXCEPT !.today = Stored(h)]
  /\ flight' = [flight EXCEPT ![h] = [at |-> "handle", q |-> @.q]]
  /\ UNCHANGED <<serverToken, tokenHash, utcDay, letIn, seen, arrivals, edits>>
-----------------------------------------------------------------------------
\* The hash is taken at each request.
MutantHash(hash) == serverToken

\* getServerTokenHash: sync.Once keeps the token its first caller read.
Hash(hash) == IF hash = NoBearer THEN serverToken ELSE hash

\* requireToken lets the request through only if it shows the token.
Authorize(h) ==
  /\ flight[h].at = "handle" /\ Protected(flight[h].q)
  /\ LET bearer == flight[h].q.bearer
     IN  /\ tokenHash' = IF bearer = NoBearer THEN tokenHash ELSE Hash(tokenHash)
         /\ IF bearer # NoBearer /\ bearer = tokenHash'
            THEN /\ letIn' = letIn \cup {bearer}
                 /\ flight' = [flight EXCEPT ![h].at = "serve"]
            ELSE /\ flight' = [flight EXCEPT ![h] = [at |-> "close"]]       \* 401
                 /\ UNCHANGED letIn
  /\ UNCHANGED <<serverToken, stats, utcDay, seen, arrivals, edits>>

\* The handler runs; the typed lookups count a query of the right type first.
RunHandler(h) ==
  /\ \/ flight[h].at = "serve"
     \/ flight[h].at = "handle" /\ ~Protected(flight[h].q)
  /\ \E s \in Statuses(flight[h].q), typed \in BOOLEAN :
       /\ IF flight[h].q.route = "lookup" /\ s \in {200, 400, 500}
          THEN s # 400 => typed ELSE ~typed
       /\ stats' = IF typed THEN [stats EXCEPT !.queries = @ + 1] ELSE stats
  /\ flight' = [flight EXCEPT ![h] = [at |-> "close"]]
  /\ UNCHANGED <<serverToken, tokenHash, utcDay, letIn, seen, arrivals, edits>>

\* Nothing is deferred.
MutantAfterPanic(h) == [flight EXCEPT ![h] = Gone]

\* A handler panics: net/http ends the connection, the deferred connClose runs.
AfterPanic(h) == [flight EXCEPT ![h] = [at |-> "close"]]

Panic(h) ==
  /\ flight[h].at = "serve" \/ (flight[h].at = "handle" /\ ~Protected(flight[h].q))
  /\ flight' = AfterPanic(h)
  /\ UNCHANGED <<serverToken, tokenHash, stats, utcDay, letIn, seen, arrivals, edits>>

\* connClose.
Close(h) ==
  /\ flight[h].at = "close"
  /\ stats' = [stats EXCEPT !.active = @ - 1]
  /\ flight' = [flight EXCEPT ![h] = Gone]
  /\ UNCHANGED <<serverToken, tokenHash, utcDay, letIn, seen, arrivals, edits>>

\* applyHotReloadSettings replaces the configuration, its token included.
ReloadToken ==
  /\ edits < MaxTokenEdits
  /\ edits' = edits + 1
  /\ serverToken' \in ServerTokens \ {serverToken}
  /\ UNCHANGED <<flight, tokenHash, stats, utcDay, letIn, seen, arrivals>>

Midnight ==
  /\ utcDay < MaxDays
  /\ utcDay' = utcDay + 1
  /\ UNCHANGED <<flight, serverToken, tokenHash, stats, letIn, seen, arrivals, edits>>

PipeNext ==
  \/ ReloadToken \/ Midnight
  \/ \E h \in Handlers :
       \/ EnterChain(h) \/ Open(h) \/ LookAtDay(h) \/ LoadDay(h) \/ ClaimDay(h) \/ StoreDay(h)
       \/ Authorize(h) \/ RunHandler(h) \/ Panic(h) \/ Close(h)

PipeSpec == PipeInit /\ [][PipeNext]_pipeVars
-----------------------------------------------------------------------------
PipeTypeOK ==
  /\ \A h \in Handlers : "q" \in DOMAIN flight[h] => flight[h].q \in Shapes
  /\ serverToken \in ServerTokens /\ tokenHash \in ServerTokens \cup {NoBearer}
  /\ stats.total \in 0..arrivals /\ stats.today \in 0..arrivals
  /\ stats.dayStart \in 0..utcDay /\ stats.queries \in 0..stats.total
  /\ letIn \subseteq ServerTokens /\ seen \in [1..MaxDays -> 0..MaxArrivals]
  /\ utcDay \in 1..MaxDays /\ arrivals \in 0..MaxArrivals /\ edits \in 0..MaxTokenEdits

\* One process accepts one token, whatever reloads bring while requests are checked: a
\* client that has been let in is not locked out by an edit of server.yml, and no two
\* clients with different tokens are (getServerTokenHash).
OneToken == Cardinality(letIn) <= 1

\* What /healthz reports hangs together: the gauge is the number of requests between
\* connOpen and connClose, also after a panic, and the requests of a day never exceed
\* the total, in whatever order the steps of recordRequest interleave at midnight.
StatsHangTogether ==
  /\ stats.active = Cardinality(In({"day", "load", "claim", "reset", "add",
                                    "handle", "serve", "close"}))
  /\ stats.today + Cardinality(In({"day", "load", "claim", "add"})) <= stats.total

\* stats.go:30-31, "If CAS fails another goroutine already reset it; just increment":
\* once the requests of a day are counted, requests24h is their number.
CountedToday ==
  In({"day", "load", "claim", "reset", "add"}) = {} /\ stats.dayStart = utcDay =>
    stats.today = seen[utcDay]
=============================================================================
