---------------------------- MODULE WhoisLookup ----------------------------
(***************************************************************************)
(* WHOIS lookups from request to permanent record: QueryWHOISWithCache     *)
(* (src/src/whois/whois.go) as the REST handlers, the bulk handler, the    *)
(* /whois page and the whois_records_refresh task call it,                 *)
(* LookupService.Lookup (src/src/whois/lookup.go) as GraphQL calls it, and *)
(* UpsertRecord and RefreshStale (src/src/whois/records/records.go).       *)
(*                                                                         *)
(* Lookups run concurrently and share the cache, of which only             *)
(* CacheContract is assumed, and the whois_records table.  Every access to *)
(* either is one step.  A query is valid: the handlers turn others away    *)
(* before anything happens.                                                *)
(***************************************************************************)
EXTENDS Integers, Sequences, FiniteSets

CONSTANTS
  Requests,     \* request slots: handlers (and refresh runs) in progress at once
  Queries,      \* the query strings users send
  Name,         \* Name[q]: q in lower case, the key of whois_records
  Domains,      \* the queries DetectQueryType takes for a domain
  ResultTTL,    \* DefaultTTLs.Domain (24h); IP and ASN behave alike
  FailureTTL,   \* DefaultTTLs.Failure (5m)
  RefreshAge,   \* records not updated for longer are refreshed (30 days)
  Kinds,        \* who asks, see Kind
  NotFound,     \* a cache miss
  DbFaults,     \* may a statement on server.db fail?
  MaxRequests,  \* bound: requests in a behaviour
  MaxTime       \* bound: the clock runs over 1..MaxTime

\* typed: /whois/{domain,ip,asn}/q; plain: /whois/q and the /whois page;
\* bulk: POST /whois/bulk; graphql; refresh: the scheduler's task.
Kind == {"typed", "plain", "bulk", "graphql", "refresh"}

\* What a registry sends: tcpQuery takes an end without a byte for an answer too, and
\* ParseDomain makes a result of it, with no field filled.
Sent == {"full", "empty"}

\* What is cached: the JSON of a WHOISResult or a UnifiedResult, with what the
\* registry sent, or a failure marker; and when (history).
Cached == [schema : {"whois", "unified", "marker"}, content : Sent \cup {"failed"},
           stored : 1..MaxTime]

ASSUME LookupAssumption ==
  /\ Name \in [Queries -> Queries]
  /\ Domains \subseteq Queries
  /\ \A q \in Queries : Name[Name[q]] = Name[q] /\ (q \in Domains <=> Name[q] \in Domains)
  /\ ResultTTL \in Nat \ {0}
  /\ FailureTTL \in Nat \ {0}
  /\ RefreshAge \in Nat
  /\ Kinds \subseteq Kind
  /\ NotFound \notin Cached
  /\ DbFaults \in BOOLEAN
  /\ MaxRequests \in Nat
  /\ MaxTime \in Nat \ {0}

VARIABLES
  now,       \* the clock
  store,     \* the cache (see CacheContract)
  req,       \* req[r]: the request in slot r
  job,       \* job[r]: the UpsertRecord call of request r
  records,   \* whois_records: records[n] is a row, or NoRecord
  started,   \* requests so far
  answered,  \* history variable: domains successfully looked up over HTTP
  fetched    \* history variable: what registries sent, by name and time

vars == <<now, store, req, job, records, started, answered, fetched>>

Key == {"whois", "failure"} \X Queries
\* What the cache answers goes straight into req, by Cache!Answers.
Cache == INSTANCE CacheContract
  WITH Keys <- Key, Values <- Cached, TTLs <- {ResultTTL, FailureTTL},
       DefaultTTL <- ResultTTL, Readers <- {}, answer <- <<>>

Names == {Name[q] : q \in Queries}

\* The outcome of one lookup: what a registry sent; "blank", a result read from the other
\* service's bytes; "recent", the refusal "failed recently"; "failed", an upstream failure.
Outcome == Sent \cup {"blank", "recent", "failed"}
NoResult == [outcome |-> "failed", via |-> "none", stored |-> 0, at |-> 0]
Result == [outcome : Outcome, via : {"none", "cache", "upstream"},
           stored : 0..MaxTime, at : 0..MaxTime]
Successful(res) == res.outcome \in Sent \cup {"blank"}

Idle == [pc |-> "idle"]
Steps == {"get", "exists", "rdap", "tcp", "store", "mark", "done", "upsert", "respond"}
Request == [pc : Steps, kind : Kinds, todo : Seq(Queries), res : Result]

NoJob == [st |-> "none"]
Job == [st : {"called", "stamped"}, name : Queries, content : Outcome, stored : 0..MaxTime,
        stamp : 0..MaxTime, cancelled : BOOLEAN]

NoRecord == [first |-> 0, seen |-> 0, content |-> "failed", stored |-> 0]
Record == [first : 1..MaxTime, seen : 1..MaxTime, content : Outcome, stored : 0..MaxTime]

Query(r) == Head(req[r].todo)
At(r, pc) == req[r] # Idle /\ req[r].pc = pc
Goto(r, pc) == req' = [req EXCEPT ![r] = [@ EXCEPT !.pc = pc]]
Fetched(r, pc, outcome) ==
  req' = [req EXCEPT ![r] = [@ EXCEPT !.pc = pc,
                                      !.res = [req[r].res EXCEPT !.outcome = outcome]]]
Finish(r, outcome, via, stored) ==
  req' = [req EXCEPT ![r] = [@ EXCEPT !.pc = "done", !.res =
            [outcome |-> outcome, via |-> via, stored |-> stored, at |-> now]]]
-----------------------------------------------------------------------------
Init ==
  /\ now = 1
  /\ store = [k \in Key |-> Cache!NoEntry]
  /\ req = [r \in Requests |-> Idle]
  /\ job = [r \in Requests |-> NoJob]
  /\ records = [n \in Names |-> NoRecord]
  /\ started = 0
  /\ answered = {}
  /\ fetched = {}

Tick ==
  /\ Cache!Tick
  /\ UNCHANGED <<req, job, records, started, answered, fetched>>

\* Eviction and cleanup in the cache.
Evict ==
  /\ Cache!Forget
  /\ UNCHANGED <<req, job, records, started, answered, fetched>>

\* RefreshStale: the records not updated for RefreshAge, oldest first.
RefreshStale(qs) ==
  LET stale == {n \in Names : records[n] # NoRecord /\ records[n].seen < now - RefreshAge}
  IN  /\ Len(qs) = Cardinality(stale)
      /\ {qs[i] : i \in DOMAIN qs} = stale
      /\ \A i, j \in DOMAIN qs : i < j => records[qs[i]].seen <= records[qs[j]].seen

\* A request comes in, or the scheduler starts a refresh.
Begin(r, kind, qs) ==
  /\ req[r] = Idle /\ job[r] = NoJob
  /\ started < MaxRequests
  /\ CASE kind = "refresh" -> qs # <<>> /\ RefreshStale(qs)
       [] kind = "bulk"    -> qs # <<>>
       [] OTHER            -> Len(qs) = 1
  /\ started' = started + 1
  /\ req' = [req EXCEPT ![r] = [pc |-> "get", kind |-> kind, todo |-> qs, res |-> NoResult]]
  /\ UNCHANGED <<now, store, job, records, answered, fetched>>
-----------------------------------------------------------------------------
\* Operators named Mutant... are slips a change to the code could make; the
\* specification does not use them, each shows that a property notices one.

\* json.Unmarshal of the cached bytes: a WHOISResult and a UnifiedResult share
\* no field that carries content, so the one read as the other is blank.
Unmarshal(kind, v) ==
  IF v.schema = (IF kind = "graphql" THEN "unified" ELSE "whois") THEN v.content ELSE "blank"

\* A hit is cached again, with a new lifetime.
MutantCacheGet(r) ==
  LET q == Query(r)  hit == store[<<"whois", q>>] IN
  /\ At(r, "get")
  /\ IF Cache!Fresh(hit)
     THEN /\ Finish(r, Unmarshal(req[r].kind, hit.value), "cache", hit.value.stored)
          /\ Cache!Write({<<"whois", q>>}, [k \in {<<"whois", q>>} |-> hit.value], ResultTTL)
     ELSE Goto(r, "exists") /\ UNCHANGED <<now, store>>
  /\ UNCHANGED <<job, records, started, answered, fetched>>

\* The cached result, if there is one.
CacheGet(r) ==
  /\ At(r, "get")
  /\ \E v \in Cache!Answers(<<"whois", Query(r)>>) :
       IF v # NotFound
       THEN Finish(r, Unmarshal(req[r].kind, v), "cache", v.stored)
       ELSE Goto(r, "exists")
  /\ UNCHANGED <<now, store, job, records, started, answered, fetched>>

\* The failure marker.  GraphQL goes on with RDAP, everyone else with WHOIS.
CacheExists(r) ==
  /\ At(r, "exists")
  /\ \E v \in Cache!Answers(<<"failure", Query(r)>>) :
       IF v # NotFound
       THEN Finish(r, "recent", "cache", v.stored)
       ELSE Goto(r, IF req[r].kind = "graphql" THEN "rdap" ELSE "tcp")
  /\ UNCHANGED <<now, store, job, records, started, answered, fetched>>

\* lookupRDAP answers; or there is no bootstrap data, no endpoint, no answer.
RdapQuery(r, ok) ==
  /\ At(r, "rdap")
  /\ IF ok THEN Fetched(r, "store", "full") ELSE Goto(r, "tcp")
  /\ UNCHANGED <<now, store, job, records, started, answered, fetched>>

\* After an upstream failure the lookup begins again, for as long as it takes.
MutantTcpQuery(r, outcome) ==
  /\ At(r, "tcp")
  /\ Fetched(r, IF outcome = "failed" THEN "get" ELSE "store", outcome)
  /\ UNCHANGED <<now, store, job, records, started, answered, fetched>>

\* tcpQuery answers or fails within its deadlines.  It reads once and returns what has
\* arrived by then: an answer cut short is an answer, and so is none at all.
TcpQuery(r, outcome) ==
  /\ At(r, "tcp")
  /\ Fetched(r, IF outcome = "failed" THEN "mark" ELSE "store", outcome)
  /\ UNCHANGED <<now, store, job, records, started, answered, fetched>>

CacheSet(q, key, v, ttl) == Cache!Write({<<key, q>>}, [k \in {<<key, q>>} |-> v], ttl)

Answer(name, content, stored) == [name |-> name, content |-> content, stored |-> stored]

\* The result is cached under "whois:" + query, by either service.
StoreResult(r) ==
  /\ At(r, "store")
  /\ CacheSet(Query(r), "whois",
       [schema |-> IF req[r].kind = "graphql" THEN "unified" ELSE "whois",
        content |-> req[r].res.outcome, stored |-> now], ResultTTL)
  /\ Finish(r, req[r].res.outcome, "upstream", now)
  /\ fetched' = fetched \cup {Answer(Name[Query(r)], req[r].res.outcome, now)}
  /\ UNCHANGED <<job, records, started, answered>>

\* The failure is cached under "whois:failure:" + query.
MarkFailure(r) ==
  /\ At(r, "mark")
  /\ CacheSet(Query(r), "failure",
       [schema |-> "marker", content |-> "failed", stored |-> now], FailureTTL)
  /\ Finish(r, "failed", "upstream", now)
  /\ UNCHANGED <<job, records, started, answered, fetched>>
-----------------------------------------------------------------------------
\* Any successful lookup of a domain.
MutantHasDomain(r) == Successful(req[r].res) /\ Query(r) \in Domains

\* result.Domain # nil: a domain that a registry answered about, be it with nothing.
HasDomain(r) == req[r].res.outcome \in Sent /\ Query(r) \in Domains

NewJob(r) ==
  [st |-> "called", name |-> Name[Query(r)], content |-> req[r].res.outcome,
   stored |-> req[r].res.stored, stamp |-> 0, cancelled |-> FALSE]

\* The next query of a bulk request or a refresh.
NextQuery(r) ==
  IF Len(req[r].todo) = 1
  THEN [req[r] EXCEPT !.pc = "respond"]
  ELSE [req[r] EXCEPT !.pc = "get", !.todo = Tail(req[r].todo), !.res = NoResult]

\* A lookup is over: performWHOISLookup starts a goroutine that saves the
\* domain, the refresh hook saves it itself, the others do not.
Continue(r) ==
  /\ At(r, "done")
  /\ LET kind == req[r].kind IN
       \/ /\ kind = "typed" /\ HasDomain(r)
          /\ job' = [job EXCEPT ![r] = NewJob(r)]
          /\ Goto(r, "respond")
       \/ /\ kind = "refresh" /\ HasDomain(r)
          /\ job' = [job EXCEPT ![r] = NewJob(r)]
          /\ Goto(r, "upsert")
       \/ /\ kind \in {"plain", "graphql", "bulk"} \/ ~HasDomain(r)
          /\ req' = [req EXCEPT ![r] = NextQuery(r)]
          /\ UNCHANGED job
  /\ UNCHANGED <<now, store, records, started, answered, fetched>>

\* The response is written and the handler returns, which cancels r.Context().
Respond(r) ==
  /\ At(r, "respond")
  /\ req' = [req EXCEPT ![r] = Idle]
  /\ job' = [job EXCEPT ![r] = IF @ = NoJob THEN @ ELSE [@ EXCEPT !.cancelled = TRUE]]
  /\ answered' = IF req[r].kind # "refresh" /\ Successful(req[r].res) /\ Query(r) \in Domains
                 THEN answered \cup {Name[Query(r)]} ELSE answered
  /\ UNCHANGED <<now, store, records, started, fetched>>

\* UpsertRecord reads the clock ...
Stamp(r) ==
  /\ job[r].st = "called"
  /\ job' = [job EXCEPT ![r] = [@ EXCEPT !.st = "stamped", !.stamp = now]]
  /\ UNCHANGED <<now, store, req, records, started, answered, fetched>>

\* The row is replaced as a whole.
MutantUpserted(row, j) ==
  [first |-> j.stamp, seen |-> j.stamp, content |-> j.content, stored |-> j.stored]

\* ON CONFLICT(query) DO UPDATE keeps first_seen.
Upserted(row, j) ==
  [first |-> IF row = NoRecord THEN j.stamp ELSE row.first,
   seen |-> j.stamp, content |-> j.content, stored |-> j.stored]

\* ... and executes the statement, which fails if the context is cancelled.
\* The refresh hook goes on to its next query, or ends with the error.
Upsert(r, ok) ==
  /\ job[r].st = "stamped"
  /\ ok => ~job[r].cancelled
  /\ ~ok => job[r].cancelled \/ DbFaults
  /\ job' = [job EXCEPT ![r] = NoJob]
  /\ records' = IF ok THEN [records EXCEPT ![job[r].name] = Upserted(@, job[r])] ELSE records
  /\ req' = IF At(r, "upsert")
            THEN [req EXCEPT ![r] = IF ok THEN NextQuery(r) ELSE Idle]
            ELSE req
  /\ UNCHANGED <<now, store, started, answered, fetched>>

Lookup(r) ==
  \/ CacheGet(r) \/ CacheExists(r)
  \/ \E ok \in BOOLEAN : RdapQuery(r, ok)
  \/ \E outcome \in Sent \cup {"failed"} : TcpQuery(r, outcome)
  \/ StoreResult(r) \/ MarkFailure(r) \/ Continue(r) \/ Respond(r)
Save(r) == Stamp(r) \/ \E ok \in BOOLEAN : Upsert(r, ok)

Asked == UNION {[1..n -> Queries] : n \in 1..2}   \* bound: two queries a bulk request

Next ==
  \/ Tick \/ Evict
  \/ \E r \in Requests :
       \/ \E kind \in Kinds : \E qs \in Asked : Begin(r, kind, qs)
       \/ Lookup(r) \/ Save(r)

Spec == Init /\ [][Next]_vars

(***************************************************************************)
(* The Go runtime runs every goroutine, and every upstream call is bounded *)
(* (tcpQuery: 10s to connect, 30s to answer; RDAP: an HTTP client with a   *)
(* timeout).                                                               *)
(***************************************************************************)
Fairness == \A r \in Requests : WF_vars(Lookup(r)) /\ WF_vars(Save(r))

FairSpec == Spec /\ Fairness
-----------------------------------------------------------------------------
TypeOK ==
  /\ now \in 1..MaxTime
  /\ store \in [Key -> Cache!Entry \cup {Cache!NoEntry}]
  /\ \A r \in Requests :
       /\ req[r] # Idle => /\ req[r].pc \in Steps /\ req[r].kind \in Kinds
                           /\ req[r].todo \in Asked /\ req[r].res \in Result
       /\ job[r] # NoJob => job[r] \in Job
  /\ records \in [Names -> Record \cup {NoRecord}]
  /\ started \in 0..MaxRequests
  /\ answered \subseteq Names
  /\ fetched \subseteq [name : Names, content : Sent, stored : 1..MaxTime]

(***************************************************************************)
(* An answer taken from the cache was put there within its lifetime: a     *)
(* result at most ResultTTL ago (hits do not prolong it), and a refusal    *)
(* "failed recently" rests on a failed upstream query at most FailureTTL   *)
(* ago.                                                                    *)
(***************************************************************************)
CachedAnswersInTime ==
  \A r \in Requests :
    req[r] # Idle /\ req[r].res.via = "cache" =>
      req[r].res.at - req[r].res.stored <=
        IF req[r].res.outcome = "recent" THEN FailureTTL ELSE ResultTTL

(***************************************************************************)
(* The permanent dataset only ever holds what a registry sent about the    *)
(* name of the record, at the time the record carries: no record is made   *)
(* from, or overwritten by, a blank result read back from the cache in the *)
(* other service's format, a failure, or the answer to another query of a  *)
(* bulk request or a refresh (QueryWHOISWithCache, UpsertRecord).          *)
(***************************************************************************)
RecordsAsSent ==
  \A n \in Names : records[n] # NoRecord =>
    n \in Domains /\ Answer(n, records[n].content, records[n].stored) \in fetched

\* "first_seen is preserved": a record keeps it, and is never deleted.
FirstSeenPreserved ==
  [][\A n \in Names : records[n] # NoRecord => records'[n].first = records[n].first]_vars

\* Every request is answered, and every refresh run ends, whatever fails.
EveryRequestEnds == \A r \in Requests : req[r] # Idle ~> req[r] = Idle

(***************************************************************************)
(* README.md: "Every successful lookup is stored permanently in SQLite".   *)
(* A domain that was successfully looked up has a record, or one is being  *)
(* written.                                                                *)
(***************************************************************************)
EverySuccessStored ==
  \A n \in answered :
    records[n] # NoRecord \/ \E r \in Requests : job[r] # NoJob /\ job[r].name = n

(***************************************************************************)
(* IDEA.md: "The API response and database storage use the same fields     *)
(* regardless of which protocol returned the data."  A successful answer   *)
(* carries what was fetched.                                               *)
(***************************************************************************)
AnswersHaveContent ==
  \A r \in Requests : req[r] # Idle => req[r].res.outcome # "blank"

(***************************************************************************)
(* IDEA.md: "Every successful lookup is stored permanently."  What a       *)
(* registry once sent is not replaced by nothing.                          *)
(***************************************************************************)
NeverEmptied ==
  [][\A n \in Names : records[n] # NoRecord /\ records[n].content = "full" =>
       records'[n].content = "full"]_vars

(***************************************************************************)
(* UpsertRecord: "On conflict (same query), the registrant and record      *)
(* fields are refreshed and last_seen/last_updated are bumped".  An update *)
(* brings back neither an earlier time nor an older answer.                *)
(***************************************************************************)
RefreshedAndBumped ==
  [][\A n \in Names : records[n] # NoRecord =>
       /\ records'[n].seen >= records[n].seen
       /\ records'[n].stored >= records[n].stored]_vars
=============================================================================
