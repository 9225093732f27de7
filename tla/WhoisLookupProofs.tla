-------------------------- MODULE WhoisLookupProofs --------------------------
(***************************************************************************)
(* Proofs about WhoisLookup for any queries, lifetimes, callers and number *)
(* of requests in progress, whether or not statements on server.db fail,   *)
(* and whatever the cache forgets.                                         *)
(***************************************************************************)
EXTENDS WhoisLookup, SequenceTheorems, TLAPS

\* The lifetime of what is stored under a key.
TTL(k) == IF k[1] = "whois" THEN ResultTTL ELSE FailureTTL

\* An entry expires one lifetime after it was stored; a result is what a registry sent.
Entries(k) == {e \in Cache!Entry : /\ e.expiration = e.value.stored + TTL(k)
                                   /\ k[1] = "whois" => e.value.content \in Sent}

\* Until the lookup ends its answer comes from nowhere; to store is what a registry
\* sent; what it sent has been stored, and from the cache within its lifetime.
Before == {"get", "exists", "rdap", "tcp", "store", "mark"}
SoundResults(pc) ==
  {x \in Result :
     /\ pc \in Before => x.via = "none"
     /\ pc = "store" => x.outcome \in Sent
     /\ pc \notin Before /\ x.outcome \in Sent => x.stored # 0
     /\ x.via = "cache" =>
          x.at - x.stored <= IF x.outcome = "recent" THEN FailureTTL ELSE ResultTTL}
Questions == Seq(Queries) \ {<<>>}
SoundRequests ==
  {q \in [pc : Steps, kind : Kinds, todo : Questions, res : Result] :
     q.res \in SoundResults(q.pc)}

\* What is saved is what a registry sent about a domain.
SoundJobs ==
  [st : {"called"}, name : Names \cap Domains, content : Sent, stored : 1..MaxTime,
   stamp : 0..MaxTime, cancelled : BOOLEAN]
  \cup
  [st : {"stamped"}, name : Names \cap Domains, content : Sent, stored : 1..MaxTime,
   stamp : 1..MaxTime, cancelled : BOOLEAN]
SoundRecords ==
  [first : 1..MaxTime, seen : 1..MaxTime, content : Sent, stored : 1..MaxTime]

StoreSound ==
  /\ store = [k \in Key |-> store[k]]
  /\ \A k \in Key : store[k] \in Entries(k) \cup {Cache!NoEntry}
RequestsSound == req \in [Requests -> SoundRequests \cup {Idle}]
JobsSound == job \in [Requests -> SoundJobs \cup {NoJob}]
RecordsSound ==
  /\ records \in [Names -> SoundRecords \cup {NoRecord}]
  /\ \A n \in Names : records[n] # NoRecord => n \in Domains

LookupInv ==
  now \in 1..MaxTime /\ StoreSound /\ RequestsSound /\ JobsSound /\ RecordsSound

\* Where a registry's answer is kept, it is one that it sent about the name: in the cache
\* under each query, in the answer to a request, in what is saved, and in the records.
WasSent(name, content, stored) == Answer(name, content, stored) \in fetched
CacheSourced ==
  \A q \in Queries : store[<<"whois", q>>] # Cache!NoEntry =>
    WasSent(Name[q], store[<<"whois", q>>].value.content, store[<<"whois", q>>].value.stored)
RequestSourced(r) ==
  req[r] # Idle /\ req[r].pc \notin Before /\ req[r].res.outcome \in Sent =>
    WasSent(Name[Query(r)], req[r].res.outcome, req[r].res.stored)
JobSourced(r) == job[r] # NoJob => WasSent(job[r].name, job[r].content, job[r].stored)
RecordsSourced ==
  \A n \in Names : records[n] # NoRecord => WasSent(n, records[n].content, records[n].stored)

Sourced ==
  /\ CacheSourced /\ RecordsSourced
  /\ \A r \in Requests : RequestSourced(r) /\ JobSourced(r)
-----------------------------------------------------------------------------
\* A request in progress is not idle, and a sound one.
LEMMA InProgress ==
  ASSUME RequestsSound, NEW r \in Requests, req[r] # Idle
  PROVE  /\ req[r] \in SoundRequests
         /\ req[r].pc \in Steps /\ req[r].kind \in Kinds
         /\ req[r].todo \in Questions /\ req[r].res \in SoundResults(req[r].pc)
         /\ Query(r) \in Queries
<1>1. req[r] \in SoundRequests
  BY DEF RequestsSound
<1>2. /\ req[r].pc \in Steps /\ req[r].kind \in Kinds
      /\ req[r].todo \in Questions /\ req[r].res \in SoundResults(req[r].pc)
  BY <1>1 DEF SoundRequests
<1>3. Query(r) \in Queries
  BY <1>2, HeadTailProperties DEF Query, Questions
<1> QED
  BY <1>1, <1>2, <1>3

\* A request in progress with another step and answer.
LEMMA StepAndAnswer ==
  ASSUME NEW q \in SoundRequests, NEW pc \in Steps, NEW x \in SoundResults(pc)
  PROVE  [q EXCEPT !.pc = pc, !.res = x] \in SoundRequests
<1> DEFINE p == [q EXCEPT !.pc = pc, !.res = x]
<1>1. x \in Result
  BY DEF SoundResults
<1>2. p \in [pc : Steps, kind : Kinds, todo : Questions, res : Result]
  BY <1>1 DEF SoundRequests
<1>3. p.pc = pc /\ p.res = x
  BY DEF SoundRequests
<1> HIDE DEF p
<1> QED
  BY <1>2, <1>3 DEF SoundRequests

\* One request goes on to a step pc with the answer x.
LEMMA GoesOn ==
  ASSUME RequestsSound, NEW r \in Requests, req[r] # Idle, NEW pc \in Steps,
         NEW x \in SoundResults(pc),
         req' = [req EXCEPT ![r] = [req[r] EXCEPT !.pc = pc, !.res = x]]
  PROVE  RequestsSound'
<1> DEFINE q == [req[r] EXCEPT !.pc = pc, !.res = x]
<1>1. q \in SoundRequests
  BY InProgress, StepAndAnswer
<1> HIDE DEF q
<1>2. req' = [req EXCEPT ![r] = q]
  BY DEF q
<1> QED
  BY <1>1, <1>2 DEF RequestsSound

\* One request goes on, its answer unchanged.
LEMMA Proceeds ==
  ASSUME RequestsSound, NEW r \in Requests, req[r] # Idle, NEW pc \in Steps,
         req[r].res \in SoundResults(pc), Goto(r, pc)
  PROVE  RequestsSound'
<1>1. req[r] \in SoundRequests
  BY InProgress
<1>2. [req[r] EXCEPT !.pc = pc] = [req[r] EXCEPT !.pc = pc, !.res = req[r].res]
  BY <1>1 DEF SoundRequests
<1>3. req' = [req EXCEPT ![r] = [req[r] EXCEPT !.pc = pc, !.res = req[r].res]]
  BY <1>2 DEF Goto
<1> QED
  BY <1>3, GoesOn

\* A lookup ends.
LEMMA Finishes ==
  ASSUME RequestsSound, NEW r \in Requests, req[r] # Idle, now \in 1..MaxTime,
         NEW outcome \in Outcome, NEW via \in {"cache", "upstream"}, NEW stored \in 1..MaxTime,
         via = "cache" =>
           now - stored <= IF outcome = "recent" THEN FailureTTL ELSE ResultTTL,
         Finish(r, outcome, via, stored)
  PROVE  RequestsSound'
<1> DEFINE x == [outcome |-> outcome, via |-> via, stored |-> stored, at |-> now]
<1>1. x \in Result
  BY DEF Result
<1>2. x \in SoundResults("done")
  BY <1>1 DEF SoundResults, Before
<1>3. req' = [req EXCEPT ![r] = [req[r] EXCEPT !.pc = "done", !.res = x]]
  BY DEF RequestsSound, Finish
<1> HIDE DEF x
<1> QED
  BY <1>2, <1>3, GoesOn DEF Steps

\* The cache answers with what it was given, within its lifetime.
LEMMA HitsAreInTime ==
  ASSUME LookupInv, NEW k \in Key, NEW v \in Cache!Answers(k), v # NotFound
  PROVE  /\ v \in Cached /\ v.stored \in 1..MaxTime /\ now - v.stored <= TTL(k)
         /\ k[1] = "whois" => v.content \in Sent
<1>1. Cache!Fresh(store[k]) /\ v = store[k].value
  BY DEF Cache!Answers
<1>2. store[k] \in Entries(k) /\ now <= store[k].expiration
  BY <1>1 DEF LookupInv, StoreSound, Cache!Fresh
<1>3. /\ v \in Cached /\ store[k].expiration = v.stored + TTL(k)
      /\ k[1] = "whois" => v.content \in Sent
  BY <1>1, <1>2 DEF Entries, Cache!Entry
<1>4. v.stored \in 1..MaxTime
  BY <1>3 DEF Cached
<1>5. TTL(k) \in Nat
  BY LookupAssumption DEF TTL
<1> QED
  BY <1>2, <1>3, <1>4, <1>5, LookupAssumption DEF LookupInv

\* What a service stores now expires one lifetime from now; other keys may be forgotten.
LEMMA WritesAreSound ==
  ASSUME LookupInv, NEW q \in Queries, NEW key \in {"whois", "failure"}, NEW v \in Cached,
         v.stored = now, key = "whois" => v.content \in Sent,
         CacheSet(q, key, v, TTL(<<key, q>>))
  PROVE  StoreSound' /\ now' = now
<1> DEFINE k == <<key, q>>
           e == [value |-> v, expiration |-> now + Cache!Lifetime(TTL(k))]
<1>1. k \in Key
  BY DEF Key
<1>2. TTL(k) \in Nat \ {0}
  BY LookupAssumption DEF TTL
<1>3. Cache!Lifetime(TTL(k)) = TTL(k)
  BY <1>2 DEF Cache!Lifetime
<1>4. now \in Nat \ {0}
  BY LookupAssumption DEF LookupInv
<1>5. e = [value |-> v, expiration |-> now + TTL(k)]
  BY <1>3
<1>6. e \in Cache!Entry /\ e.expiration = e.value.stored + TTL(k)
  BY <1>2, <1>4, <1>5 DEF Cache!Entry
<1>7. e \in Entries(k)
  <2>1. k[1] = key
    OBVIOUS
  <2>2. e.value = v
    OBVIOUS
  <2> HIDE DEF k, e
  <2> QED
    BY <1>6, <2>1, <2>2 DEF Entries
<1>8. PICK gone \in SUBSET Key :
        store' = [c \in Key |-> IF c \in {k}
                                THEN [value |-> [d \in {k} |-> v][c],
                                      expiration |-> now + Cache!Lifetime(TTL(k))]
                                ELSE IF c \in gone THEN Cache!NoEntry ELSE store[c]]
  BY DEF CacheSet, Cache!Write
<1>9. \A c \in Key : store'[c] = IF c = k THEN e
                                 ELSE IF c \in gone THEN Cache!NoEntry ELSE store[c]
  BY <1>8
<1>10. now' = now
  BY DEF CacheSet, Cache!Write
<1>11. store' = [c \in Key |-> store'[c]]
  BY <1>8
<1> HIDE DEF k, e
<1>12. \A c \in Key : store'[c] \in Entries(c) \cup {Cache!NoEntry}
  BY <1>7, <1>9 DEF LookupInv, StoreSound
<1> QED
  BY <1>10, <1>11, <1>12 DEF StoreSound
-----------------------------------------------------------------------------
\* The cached result is a sound answer; without one the lookup goes on.
LEMMA CacheGetIsSound ==
  ASSUME LookupInv, NEW r \in Requests, CacheGet(r)
  PROVE  RequestsSound'
<1> DEFINE k == <<"whois", Query(r)>>
<1>1. req[r] # Idle /\ req[r].pc = "get" /\ RequestsSound /\ now \in 1..MaxTime
  BY DEF CacheGet, At, LookupInv
<1>2. k \in Key /\ TTL(k) = ResultTTL /\ k[1] = "whois"
  BY <1>1, InProgress DEF Key, TTL
<1>3. PICK v \in Cache!Answers(k) :
        IF v # NotFound THEN Finish(r, Unmarshal(req[r].kind, v), "cache", v.stored)
                        ELSE Goto(r, "exists")
  BY DEF CacheGet
<1> HIDE DEF k
<1>4. CASE v # NotFound
  <2>1. v.stored \in 1..MaxTime /\ now - v.stored <= ResultTTL /\ v.content \in Sent
    BY <1>2, <1>4, HitsAreInTime
  <2>2. Unmarshal(req[r].kind, v) \in Outcome /\ Unmarshal(req[r].kind, v) # "recent"
    BY <2>1 DEF Unmarshal, Outcome, Sent
  <2> QED
    BY <1>1, <1>3, <1>4, <2>1, <2>2, Finishes
<1>5. CASE v = NotFound
  <2>1. req[r].res \in SoundResults("exists")
    BY <1>1, InProgress DEF SoundResults, Before
  <2> QED
    BY <1>1, <1>3, <1>5, <2>1, Proceeds DEF Steps
<1> QED
  BY <1>4, <1>5

\* A failure marker is a refusal; without one the lookup goes on upstream.
LEMMA CacheExistsIsSound ==
  ASSUME LookupInv, NEW r \in Requests, CacheExists(r)
  PROVE  RequestsSound'
<1> DEFINE k == <<"failure", Query(r)>>
           next == IF req[r].kind = "graphql" THEN "rdap" ELSE "tcp"
<1>1. req[r] # Idle /\ req[r].pc = "exists" /\ RequestsSound /\ now \in 1..MaxTime
  BY DEF CacheExists, At, LookupInv
<1>2. k \in Key /\ TTL(k) = FailureTTL
  BY <1>1, InProgress DEF Key, TTL
<1>3. PICK v \in Cache!Answers(k) :
        IF v # NotFound THEN Finish(r, "recent", "cache", v.stored) ELSE Goto(r, next)
  BY DEF CacheExists
<1>4. next \in Steps /\ next \in Before /\ next # "store"
  BY DEF Steps, Before
<1> HIDE DEF k, next
<1>5. CASE v # NotFound
  <2>1. v.stored \in 1..MaxTime /\ now - v.stored <= FailureTTL
    BY <1>2, <1>5, HitsAreInTime
  <2> QED
    BY <1>1, <1>3, <1>5, <2>1, Finishes DEF Outcome
<1>6. CASE v = NotFound
  <2>1. req[r].res \in SoundResults(next)
    BY <1>1, <1>4, InProgress DEF SoundResults, Before
  <2> QED
    BY <1>1, <1>3, <1>4, <1>6, <2>1, Proceeds
<1> QED
  BY <1>5, <1>6

\* An upstream answer, which has not been stored yet.
LEMMA FetchedIsSound ==
  ASSUME RequestsSound, NEW r \in Requests, req[r] # Idle, req[r].pc \in Before,
         NEW pc \in Before, NEW outcome \in Outcome, pc = "store" => outcome \in Sent,
         Fetched(r, pc, outcome)
  PROVE  RequestsSound'
<1> DEFINE x == [req[r].res EXCEPT !.outcome = outcome]
<1>1. req[r].res \in Result /\ req[r].res.via = "none"
  BY InProgress DEF SoundResults
<1>2. x \in Result /\ x.via = "none" /\ x.outcome = outcome
  BY <1>1 DEF Result
<1>3. x \in SoundResults(pc)
  BY <1>2 DEF SoundResults
<1>4. pc \in Steps
  BY DEF Before, Steps
<1>5. req' = [req EXCEPT ![r] = [req[r] EXCEPT !.pc = pc, !.res = x]]
  BY DEF Fetched
<1> HIDE DEF x
<1> QED
  BY <1>3, <1>4, <1>5, GoesOn

LEMMA UpstreamIsSound ==
  ASSUME LookupInv, NEW r \in Requests
  PROVE  /\ \A ok \in BOOLEAN : RdapQuery(r, ok) => RequestsSound'
         /\ \A outcome \in Sent \cup {"failed"} : TcpQuery(r, outcome) => RequestsSound'
<1>1. RequestsSound
  BY DEF LookupInv
<1>2. ASSUME NEW ok \in BOOLEAN, RdapQuery(r, ok) PROVE RequestsSound'
  <2>1. req[r] # Idle /\ req[r].pc = "rdap"
    BY <1>2 DEF RdapQuery, At
  <2>2. CASE ok
    BY <1>1, <1>2, <2>1, <2>2, FetchedIsSound DEF RdapQuery, Before, Outcome, Sent
  <2>3. CASE ~ok
    <3>1. Goto(r, "tcp")
      BY <1>2, <2>3 DEF RdapQuery
    <3>2. req[r].res \in SoundResults("tcp")
      BY <1>1, <2>1, InProgress DEF SoundResults, Before
    <3> QED
      BY <1>1, <2>1, <3>1, <3>2, Proceeds DEF Steps
  <2> QED
    BY <2>2, <2>3
<1>3. ASSUME NEW outcome \in Sent \cup {"failed"}, TcpQuery(r, outcome) PROVE RequestsSound'
  <2>1. req[r] # Idle /\ req[r].pc = "tcp"
    BY <1>3 DEF TcpQuery, At
  <2>2. PICK pc \in {"mark", "store"} :
          Fetched(r, pc, outcome) /\ (pc = "store" => outcome # "failed")
    BY <1>3 DEF TcpQuery
  <2> QED
    BY <1>1, <2>1, <2>2, FetchedIsSound DEF Before, Outcome
<1> QED
  BY <1>2, <1>3

\* The answer, or the failure, is stored at the time it carries.
LEMMA StoringIsSound ==
  ASSUME LookupInv, NEW r \in Requests, StoreResult(r) \/ MarkFailure(r)
  PROVE  RequestsSound' /\ StoreSound' /\ now' = now
<1>1. RequestsSound /\ now \in 1..MaxTime
  BY DEF LookupInv
<1>2. CASE StoreResult(r)
  <2> DEFINE v == [schema |-> IF req[r].kind = "graphql" THEN "unified" ELSE "whois",
                   content |-> req[r].res.outcome, stored |-> now]
  <2>1. req[r] # Idle /\ req[r].pc = "store"
    BY <1>2 DEF StoreResult, At
  <2>2. Query(r) \in Queries /\ req[r].res.outcome \in Outcome /\ req[r].res.outcome \in Sent
    BY <1>1, <2>1, InProgress DEF SoundResults, Result
  <2>3. RequestsSound'
    BY <1>1, <1>2, <2>1, <2>2, Finishes DEF StoreResult
  <2>4. v \in Cached /\ v.stored = now /\ v.content \in Sent
    BY <1>1, <2>2 DEF Cached
  <2>5. CacheSet(Query(r), "whois", v, TTL(<<"whois", Query(r)>>))
    BY <1>2 DEF StoreResult, TTL
  <2> HIDE DEF v
  <2> QED
    BY <2>2, <2>3, <2>4, <2>5, WritesAreSound
<1>3. CASE MarkFailure(r)
  <2> DEFINE v == [schema |-> "marker", content |-> "failed", stored |-> now]
  <2>1. req[r] # Idle /\ req[r].pc = "mark"
    BY <1>3 DEF MarkFailure, At
  <2>2. Query(r) \in Queries
    BY <1>1, <2>1, InProgress
  <2>3. RequestsSound'
    BY <1>1, <1>3, <2>1, Finishes DEF MarkFailure, Outcome
  <2>4. v \in Cached /\ v.stored = now
    BY <1>1 DEF Cached
  <2>5. CacheSet(Query(r), "failure", v, TTL(<<"failure", Query(r)>>))
    BY <1>3 DEF MarkFailure, TTL
  <2> HIDE DEF v
  <2> QED
    BY <2>2, <2>3, <2>4, <2>5, WritesAreSound
<1> QED
  BY <1>2, <1>3
-----------------------------------------------------------------------------
\* The next query of a request, with no answer yet; or its response, with the last.
LEMMA NextQueryIsSound ==
  ASSUME RequestsSound, NEW r \in Requests, req[r] # Idle, req[r].pc \notin Before
  PROVE  NextQuery(r) \in SoundRequests
<1>1. /\ req[r] \in SoundRequests /\ req[r].todo \in Questions
      /\ req[r].res \in SoundResults(req[r].pc)
  BY InProgress
<1>2. CASE Len(req[r].todo) = 1
  <2>1. req[r].res \in SoundResults("respond")
    BY <1>1 DEF SoundResults, Before
  <2>2. NextQuery(r) = [req[r] EXCEPT !.pc = "respond", !.res = req[r].res]
    BY <1>1, <1>2 DEF NextQuery, SoundRequests
  <2> QED
    BY <1>1, <2>1, <2>2, StepAndAnswer DEF Steps
<1>3. CASE Len(req[r].todo) # 1
  <2> DEFINE rest == Tail(req[r].todo)
  <2>1. Len(req[r].todo) \in Nat \ {0, 1}
    BY <1>1, <1>3, EmptySeq, LenProperties DEF Questions
  <2>2. rest \in Seq(Queries) /\ Len(rest) = Len(req[r].todo) - 1
    BY <1>1, HeadTailProperties DEF Questions
  <2>3. rest \in Questions
    <3> HIDE DEF rest
    <3>1. Len(rest) # 0
      BY <2>1, <2>2
    <3> QED
      BY <2>2, <3>1, EmptySeq DEF Questions
  <2>4. NextQuery(r) = [pc |-> "get", kind |-> req[r].kind, todo |-> rest, res |-> NoResult]
    BY <1>1, <1>3 DEF NextQuery, SoundRequests
  <2>5. NoResult \in Result /\ NoResult.via = "none"
    BY LookupAssumption DEF NoResult, Result, Outcome
  <2>6. NoResult \in SoundResults("get")
    BY <2>5 DEF SoundResults, Before
  <2> HIDE DEF rest
  <2> QED
    BY <1>1, <2>3, <2>4, <2>5, <2>6 DEF SoundRequests, Steps
<1> QED
  BY <1>2, <1>3

\* What is saved is a registry's answer to a question about a domain.
LEMMA NewJobIsSound ==
  ASSUME RequestsSound, NEW r \in Requests, req[r] # Idle, req[r].pc = "done", HasDomain(r)
  PROVE  NewJob(r) \in SoundJobs
<1>1. Query(r) \in Queries /\ req[r].res \in SoundResults("done")
  BY InProgress
<1>2. req[r].res.stored \in 1..MaxTime
  BY <1>1, LookupAssumption DEF HasDomain, SoundResults, Before, Result
<1>3. Name[Query(r)] \in Names \cap Domains
  BY <1>1, LookupAssumption DEF HasDomain, Names
<1> QED
  BY <1>2, <1>3, LookupAssumption DEF NewJob, SoundJobs, HasDomain
\* A lookup is over: a job, if any, is made of a registry's answer.
LEMMA ContinueIsSound ==
  ASSUME LookupInv, NEW r \in Requests, Continue(r)
  PROVE  RequestsSound' /\ JobsSound'
<1>1. /\ req[r] # Idle /\ req[r].pc = "done" /\ RequestsSound /\ JobsSound
      /\ req[r].res \in SoundResults("done")
  BY InProgress DEF Continue, At, LookupInv
<1>2. CASE \E pc \in {"respond", "upsert"} :
             HasDomain(r) /\ job' = [job EXCEPT ![r] = NewJob(r)] /\ Goto(r, pc)
  <2>1. PICK pc \in {"respond", "upsert"} :
          HasDomain(r) /\ job' = [job EXCEPT ![r] = NewJob(r)] /\ Goto(r, pc)
    BY <1>2
  <2>2. NewJob(r) \in SoundJobs
    BY <1>1, <2>1, NewJobIsSound
  <2>3. req[r].res \in SoundResults(pc)
    BY <1>1 DEF SoundResults, Before
  <2>4. RequestsSound'
    BY <1>1, <2>1, <2>3, Proceeds DEF Steps
  <2> QED
    BY <1>1, <2>1, <2>2, <2>4 DEF JobsSound
<1>3. CASE req' = [req EXCEPT ![r] = NextQuery(r)] /\ UNCHANGED job
  <2>1. NextQuery(r) \in SoundRequests
    BY <1>1, NextQueryIsSound DEF Before
  <2> QED
    BY <1>1, <1>3, <2>1 DEF RequestsSound, JobsSound
<1> QED
  BY <1>2, <1>3 DEF Continue

\* The handler returns: the job it started goes on with a cancelled context.
LEMMA RespondIsSound ==
  ASSUME LookupInv, NEW r \in Requests, Respond(r)
  PROVE  RequestsSound' /\ JobsSound'
<1>1. RequestsSound /\ JobsSound
  BY DEF LookupInv
<1>2. RequestsSound'
  BY <1>1 DEF RequestsSound, Respond
<1>3. job[r] \in SoundJobs \cup {NoJob}
  BY <1>1 DEF JobsSound
<1> DEFINE j == IF job[r] = NoJob THEN job[r] ELSE [job[r] EXCEPT !.cancelled = TRUE]
<1>4. j \in SoundJobs \cup {NoJob}
  BY <1>3 DEF SoundJobs
<1>5. job' = [job EXCEPT ![r] = j]
  BY DEF Respond
<1> HIDE DEF j
<1> QED
  BY <1>1, <1>2, <1>4, <1>5 DEF JobsSound

\* UpsertRecord reads the clock.
LEMMA StampIsSound ==
  ASSUME LookupInv, NEW r \in Requests, Stamp(r)
  PROVE  JobsSound'
<1>1. JobsSound /\ now \in 1..MaxTime /\ job[r].st = "called"
  BY DEF LookupInv, Stamp
<1>2. job[r] \in SoundJobs \cup {NoJob}
  BY <1>1 DEF JobsSound
<1>3. job[r] \in SoundJobs
  BY <1>1, <1>2 DEF NoJob
<1> DEFINE j == [job[r] EXCEPT !.st = "stamped", !.stamp = now]
<1>4. j \in SoundJobs
  BY <1>1, <1>3 DEF SoundJobs
<1>5. job' = [job EXCEPT ![r] = j]
  BY DEF Stamp
<1> HIDE DEF j
<1> QED
  BY <1>1, <1>4, <1>5 DEF JobsSound

\* A job that executes its statement carries a time, and a registry's answer.
LEMMA StampedJob ==
  ASSUME LookupInv, NEW r \in Requests, job[r].st = "stamped"
  PROVE  /\ job[r].name \in Names \cap Domains /\ job[r].content \in Sent
         /\ job[r].stored \in 1..MaxTime /\ job[r].stamp \in 1..MaxTime
<1>1. job[r] \in SoundJobs \cup {NoJob}
  BY DEF LookupInv, JobsSound
<1> QED
  BY <1>1 DEF SoundJobs, NoJob

\* The row it writes keeps its first_seen.
LEMMA UpsertedIsSound ==
  ASSUME LookupInv, NEW r \in Requests, job[r].st = "stamped"
  PROVE  LET old == records[job[r].name]
         IN  /\ Upserted(old, job[r]) \in SoundRecords
             /\ old # NoRecord => Upserted(old, job[r]).first = old.first
<1> DEFINE old == records[job[r].name]
<1>1. /\ job[r].name \in Names /\ job[r].content \in Sent
      /\ job[r].stored \in 1..MaxTime /\ job[r].stamp \in 1..MaxTime
  BY StampedJob
<1>2. old \in SoundRecords \cup {NoRecord}
  BY <1>1 DEF LookupInv, RecordsSound
<1>3. old # NoRecord => old.first \in 1..MaxTime
  BY <1>2 DEF SoundRecords
<1> HIDE DEF old
<1>4. Upserted(old, job[r]) \in SoundRecords
  BY <1>1, <1>3 DEF Upserted, SoundRecords
<1>5. old # NoRecord => Upserted(old, job[r]).first = old.first
  BY DEF Upserted
<1> QED
  BY <1>4, <1>5 DEF old

LEMMA UpsertIsSound ==
  ASSUME LookupInv, NEW r \in Requests, NEW ok \in BOOLEAN, Upsert(r, ok)
  PROVE  RequestsSound' /\ JobsSound' /\ RecordsSound'
<1>1. RequestsSound /\ JobsSound /\ RecordsSound /\ job[r].st = "stamped"
  BY DEF LookupInv, Upsert
<1>2. JobsSound'
  BY <1>1 DEF Upsert, JobsSound
<1>3. RequestsSound'
  <2>1. CASE At(r, "upsert")
    <3>1. NextQuery(r) \in SoundRequests
      BY <1>1, <2>1, NextQueryIsSound DEF At, Before
    <3>2. PICK q \in SoundRequests \cup {Idle} : req' = [req EXCEPT ![r] = q]
      BY <2>1, <3>1 DEF Upsert
    <3> QED
      BY <1>1, <3>2 DEF RequestsSound
  <2>2. CASE ~At(r, "upsert")
    BY <1>1, <2>2 DEF Upsert, RequestsSound
  <2> QED
    BY <2>1, <2>2
<1>4. RecordsSound'
  <2> DEFINE n == job[r].name
             row == Upserted(records[n], job[r])
  <2>1. row \in SoundRecords /\ n \in Names \cap Domains
    BY <1>1, StampedJob, UpsertedIsSound
  <2>2. records' = records \/ records' = [records EXCEPT ![n] = row]
    BY DEF Upsert
  <2> HIDE DEF n, row
  <2> QED
    BY <1>1, <2>1, <2>2 DEF RecordsSound
<1> QED
  BY <1>2, <1>3, <1>4

\* A request begins with its first query.
LEMMA BeginIsSound ==
  ASSUME LookupInv, NEW r \in Requests, NEW kind \in Kinds, NEW qs \in Asked,
         Begin(r, kind, qs)
  PROVE  RequestsSound'
<1> DEFINE q == [pc |-> "get", kind |-> kind, todo |-> qs, res |-> NoResult]
<1>1. qs \in Questions
  <2>1. PICK n \in 1..2 : qs \in [1..n -> Queries]
    BY DEF Asked
  <2>2. qs \in Seq(Queries) /\ Len(qs) = n
    BY <2>1
  <2> QED
    BY <2>1, <2>2, EmptySeq DEF Questions
<1>2. NoResult \in Result /\ NoResult.via = "none"
  BY LookupAssumption DEF NoResult, Result, Outcome
<1>3. NoResult \in SoundResults("get")
  BY <1>2 DEF SoundResults, Before
<1>4. q \in SoundRequests
  BY <1>1, <1>2, <1>3 DEF SoundRequests, Steps
<1>5. req' = [req EXCEPT ![r] = q]
  BY DEF Begin
<1> HIDE DEF q
<1> QED
  BY <1>4, <1>5 DEF LookupInv, RequestsSound

\* The cache forgets, and the clock ticks.
LEMMA ForgettingIsSound ==
  LookupInv /\ Evict => StoreSound' /\ now' = now
<1> SUFFICES ASSUME LookupInv, Evict PROVE StoreSound' /\ now' = now
  OBVIOUS
<1>1. PICK gone \in SUBSET Key :
        store' = [k \in Key |-> IF k \in gone THEN Cache!NoEntry ELSE store[k]]
  BY DEF Evict, Cache!Forget
<1>2. now' = now
  BY DEF Evict, Cache!Forget
<1>3. \A k \in Key : store'[k] \in Entries(k) \cup {Cache!NoEntry}
  BY <1>1 DEF LookupInv, StoreSound
<1>4. store' = [k \in Key |-> store'[k]]
  BY <1>1
<1> QED
  BY <1>2, <1>3, <1>4 DEF StoreSound
-----------------------------------------------------------------------------
LEMMA InitIsSound == Init => LookupInv
<1> SUFFICES ASSUME Init PROVE LookupInv
  OBVIOUS
<1>1. now \in 1..MaxTime
  BY LookupAssumption DEF Init
<1>2. StoreSound
  BY DEF Init, StoreSound
<1>3. RequestsSound /\ JobsSound
  BY DEF Init, RequestsSound, JobsSound
<1>4. RecordsSound
  BY DEF Init, RecordsSound
<1> QED
  BY <1>1, <1>2, <1>3, <1>4 DEF LookupInv

\* Every step preserves the invariant, one part at a time.
LEMMA StepIsSound == LookupInv /\ [Next]_vars => LookupInv'
<1> SUFFICES ASSUME LookupInv, [Next]_vars PROVE LookupInv'
  OBVIOUS
<1>1. CASE Tick
  BY <1>1, LookupAssumption
     DEF Tick, Cache!Tick, LookupInv, StoreSound, RequestsSound, JobsSound, RecordsSound
<1>2. CASE Evict
  BY <1>2, ForgettingIsSound DEF Evict, LookupInv, RequestsSound, JobsSound, RecordsSound
<1>3. ASSUME NEW r \in Requests, NEW kind \in Kinds, NEW qs \in Asked, Begin(r, kind, qs)
      PROVE  LookupInv'
  BY <1>3, BeginIsSound DEF Begin, LookupInv, StoreSound, JobsSound, RecordsSound
<1>4. ASSUME NEW r \in Requests, Lookup(r) PROVE LookupInv'
  <2>1. CASE CacheGet(r)
    BY <2>1, CacheGetIsSound DEF CacheGet, LookupInv, StoreSound, JobsSound, RecordsSound
  <2>2. CASE CacheExists(r)
    BY <2>2, CacheExistsIsSound DEF CacheExists, LookupInv, StoreSound, JobsSound, RecordsSound
  <2>3. ASSUME NEW ok \in BOOLEAN, RdapQuery(r, ok) PROVE LookupInv'
    BY <2>3, UpstreamIsSound DEF RdapQuery, LookupInv, StoreSound, JobsSound, RecordsSound
  <2>4. ASSUME NEW outcome \in Sent \cup {"failed"}, TcpQuery(r, outcome) PROVE LookupInv'
    BY <2>4, UpstreamIsSound DEF TcpQuery, LookupInv, StoreSound, JobsSound, RecordsSound
  <2>5. CASE StoreResult(r) \/ MarkFailure(r)
    <3>1. UNCHANGED <<job, records>>
      BY <2>5 DEF StoreResult, MarkFailure
    <3> QED
      BY <2>5, <3>1, StoringIsSound DEF LookupInv, JobsSound, RecordsSound
  <2>6. CASE Continue(r)
    BY <2>6, ContinueIsSound DEF Continue, LookupInv, StoreSound, RecordsSound
  <2>7. CASE Respond(r)
    BY <2>7, RespondIsSound DEF Respond, LookupInv, StoreSound, RecordsSound
  <2> QED
    BY <1>4, <2>1, <2>2, <2>3, <2>4, <2>5, <2>6, <2>7 DEF Lookup
<1>5. ASSUME NEW r \in Requests, Save(r) PROVE LookupInv'
  <2>1. CASE Stamp(r)
    BY <2>1, StampIsSound DEF Stamp, LookupInv, StoreSound, RequestsSound, RecordsSound
  <2>2. ASSUME NEW ok \in BOOLEAN, Upsert(r, ok) PROVE LookupInv'
    BY <2>2, UpsertIsSound DEF Upsert, LookupInv, StoreSound
  <2> QED
    BY <1>5, <2>1, <2>2 DEF Save
<1>6. CASE UNCHANGED vars
  BY <1>6 DEF vars, LookupInv, StoreSound, RequestsSound, JobsSound, RecordsSound
<1> QED
  BY <1>1, <1>2, <1>3, <1>4, <1>5, <1>6 DEF Next

LEMMA LookupsAreSound == Spec => []LookupInv
BY InitIsSound, StepIsSound, PTL DEF Spec

(***************************************************************************)
(* An answer from the cache is never older than its lifetime: a result at  *)
(* most ResultTTL, a refusal at most FailureTTL (QueryWHOISWithCache,      *)
(* Lookup), whatever else is looked up, evicted or refreshed meanwhile.    *)
(***************************************************************************)
THEOREM AnswersAreInTime == Spec => []CachedAnswersInTime
<1>1. LookupInv => CachedAnswersInTime
  BY InProgress DEF LookupInv, CachedAnswersInTime, SoundResults
<1> QED
  BY <1>1, LookupsAreSound, PTL

-----------------------------------------------------------------------------
\* What a registry sent stays what it sent.
LEMMA SentStays == [Next]_vars => fetched \subseteq fetched'
  BY DEF Next, vars, Tick, Evict, Begin, Lookup, Save, CacheGet, CacheExists, RdapQuery, TcpQuery,
         StoreResult, MarkFailure, Continue, Respond, Stamp, Upsert, Cache!Tick, Cache!Forget

\* A request in progress asks about something.
LEMMA AskedIs ==
  ASSUME LookupInv, NEW r \in Requests, NEW pc, At(r, pc)
  PROVE  Query(r) \in Queries /\ req[r] # Idle
  BY InProgress DEF LookupInv, At

\* What a write leaves under a result's key: what was there, nothing, or what it stores.
LEMMA CacheSetSets ==
  ASSUME NEW q \in Queries, NEW p \in Queries, <<"whois", q>> \in Key, NEW v,
         CacheSet(p, "whois", v, ResultTTL), store'[<<"whois", q>>] # Cache!NoEntry
  PROVE  \/ store'[<<"whois", q>>] = store[<<"whois", q>>]
         \/ q = p /\ store'[<<"whois", q>>].value = v
<1> DEFINE k == <<"whois", q>>
           w == <<"whois", p>>
<1>1. PICK gone \in SUBSET Key :
        store' = [c \in Key |-> IF c \in {w}
                                THEN [value |-> [d \in {w} |-> v][c],
                                      expiration |-> now + Cache!Lifetime(ResultTTL)]
                                ELSE IF c \in gone THEN Cache!NoEntry ELSE store[c]]
  BY DEF CacheSet, Cache!Write
<1>2. k = w => q = p
  OBVIOUS
<1> HIDE DEF k, w
<1>3. k \in Key
  BY DEF k
<1>4. CASE k = w
  <2>1. store'[k].value = v
    BY <1>1, <1>3, <1>4
  <2> QED
    BY <1>2, <1>4, <2>1 DEF k
<1>5. CASE k # w
  <2>1. store'[k] = Cache!NoEntry \/ store'[k] = store[k]
    BY <1>1, <1>3, <1>5
  <2> QED
    BY <2>1 DEF k
<1> QED
  BY <1>4, <1>5

LEMMA CacheSetSpares ==
  ASSUME NEW q \in Queries, NEW p \in Queries, <<"whois", q>> \in Key, NEW v,
         CacheSet(p, "failure", v, FailureTTL), store'[<<"whois", q>>] # Cache!NoEntry
  PROVE  store'[<<"whois", q>>] = store[<<"whois", q>>]
<1> DEFINE k == <<"whois", q>>
           w == <<"failure", p>>
<1>1. PICK gone \in SUBSET Key :
        store' = [c \in Key |-> IF c \in {w}
                                THEN [value |-> [d \in {w} |-> v][c],
                                      expiration |-> now + Cache!Lifetime(FailureTTL)]
                                ELSE IF c \in gone THEN Cache!NoEntry ELSE store[c]]
  BY DEF CacheSet, Cache!Write
<1>2. k # w
  OBVIOUS
<1> HIDE DEF k, w
<1>3. k \in Key
  BY DEF k
<1>4. store'[k] = Cache!NoEntry \/ store'[k] = store[k]
  BY <1>1, <1>2, <1>3
<1> QED
  BY <1>4 DEF k

\* An entry under a query's key is there before, or is the answer just stored.
LEMMA CacheStaysSourced ==
  ASSUME LookupInv, Sourced, [Next]_vars
  PROVE  CacheSourced'
<1> SUFFICES ASSUME NEW q \in Queries, store'[<<"whois", q>>] # Cache!NoEntry
             PROVE  WasSent(Name[q], store[<<"whois", q>>].value.content,
                            store[<<"whois", q>>].value.stored)'
  BY DEF CacheSourced
<1> DEFINE k == <<"whois", q>>
<1>1. k \in Key
  BY DEF Key
<1>2. CASE store'[k] = store[k]
  BY <1>2, SentStays DEF Sourced, CacheSourced, WasSent
<1>3. CASE \E r \in Requests : StoreResult(r)
  <2>1. PICK r \in Requests : StoreResult(r)
    BY <1>3
  <2> DEFINE v == [schema |-> IF req[r].kind = "graphql" THEN "unified" ELSE "whois",
                   content |-> req[r].res.outcome, stored |-> now]
  <2>2. CacheSet(Query(r), "whois", v, ResultTTL)
    BY <2>1 DEF StoreResult
  <2>3. v.content = req[r].res.outcome /\ v.stored = now
    OBVIOUS
  <2> HIDE DEF v
  <2>4. store'[k] = store[k] \/ (q = Query(r) /\ store'[k].value = v)
    BY <1>1, <2>1, <2>2, CacheSetSets, AskedIs DEF StoreResult
  <2>5. Answer(Name[Query(r)], req[r].res.outcome, now) \in fetched'
    BY <2>1 DEF StoreResult
  <2> QED
    BY <1>2, <2>3, <2>4, <2>5 DEF WasSent
<1>4. CASE \E r \in Requests : MarkFailure(r)
  <2>1. PICK r \in Requests : MarkFailure(r)
    BY <1>4
  <2>2. PICK v \in {[schema |-> "marker", content |-> "failed", stored |-> now]} :
          CacheSet(Query(r), "failure", v, FailureTTL)
    BY <2>1 DEF MarkFailure
  <2>3. store'[k] = store[k]
    BY <1>1, <2>1, <2>2, CacheSetSpares, AskedIs DEF MarkFailure
  <2> QED
    BY <1>2, <2>3
<1>5. CASE Evict
  <2>1. store'[k] = store[k]
    BY <1>1, <1>5 DEF Evict, Cache!Forget
  <2> QED
    BY <1>2, <2>1
<1>6. CASE UNCHANGED store
  BY <1>2, <1>6
<1>7. UNCHANGED store \/ Evict \/ \E r \in Requests : StoreResult(r) \/ MarkFailure(r)
  BY DEF Next, vars, Tick, Cache!Tick, Begin, Lookup, Save, CacheGet, CacheExists, RdapQuery,
         TcpQuery, Continue, Respond, Stamp, Upsert
<1> QED
  BY <1>3, <1>4, <1>5, <1>6, <1>7

\* A request with another step and the same question and answer, which was known before.
LEMMA AnswerGoesOn ==
  ASSUME Sourced, [Next]_vars, NEW r \in Requests, req[r] # Idle, req[r].pc \notin Before,
         req'[r].res = req[r].res, req'[r].todo = req[r].todo
  PROVE  RequestSourced(r)'
<1>1. RequestSourced(r) /\ fetched \subseteq fetched'
  BY SentStays DEF Sourced
<1> QED
  BY <1>1 DEF RequestSourced, WasSent, Query

\* The next query has no answer yet; the last one keeps its own.
LEMMA NextAnswer ==
  ASSUME LookupInv, Sourced, [Next]_vars, NEW r \in Requests, req[r] # Idle,
         req[r].pc \notin Before, req'[r] = NextQuery(r)
  PROVE  RequestSourced(r)'
<1>1. req[r] \in SoundRequests
  BY InProgress DEF LookupInv
<1>2. CASE Len(req[r].todo) = 1
  <2>1. req'[r].res = req[r].res /\ req'[r].todo = req[r].todo
    BY <1>1, <1>2 DEF NextQuery, SoundRequests
  <2> QED
    BY <2>1, AnswerGoesOn
<1>3. CASE Len(req[r].todo) # 1
  <2>1. req'[r].pc = "get"
    BY <1>1, <1>3 DEF NextQuery, SoundRequests
  <2> QED
    BY <2>1 DEF RequestSourced, Before
<1> QED
  BY <1>2, <1>3

\* An answer comes from the cache, or has just been stored; until then it is none.
LEMMA RequestsStaySourced ==
  ASSUME LookupInv, Sourced, [Next]_vars, NEW r \in Requests
  PROVE  RequestSourced(r)'
<1>1. CASE req'[r] = req[r]
  <2>1. RequestSourced(r) /\ fetched \subseteq fetched'
    BY SentStays DEF Sourced
  <2> QED
    BY <1>1, <2>1 DEF RequestSourced, WasSent, Query
<1>2. CASE req'[r] = Idle \/ req'[r].pc \in Before
  BY <1>2 DEF RequestSourced
<1>3. /\ req \in [Requests -> SoundRequests \cup {Idle}] /\ RequestsSound
      /\ req[r] # Idle => req[r] \in SoundRequests
  BY DEF LookupInv, RequestsSound
<1>4. ASSUME NEW kind \in Kinds, NEW qs \in Asked, Begin(r, kind, qs) PROVE RequestSourced(r)'
  <2>1. req'[r].pc = "get"
    BY <1>3, <1>4 DEF Begin
  <2> QED
    BY <1>2, <2>1 DEF Before
<1>5. CASE CacheGet(r)
  <2> DEFINE k == <<"whois", Query(r)>>
  <2>1. req[r] # Idle /\ Query(r) \in Queries /\ fetched' = fetched
    BY <1>5, AskedIs DEF CacheGet
  <2>2. PICK v \in Cache!Answers(k) :
          IF v # NotFound THEN Finish(r, Unmarshal(req[r].kind, v), "cache", v.stored)
                          ELSE Goto(r, "exists")
    BY <1>5 DEF CacheGet
  <2>3. CASE v = NotFound
    <3>1. req'[r].pc = "exists"
      BY <1>3, <2>1, <2>2, <2>3 DEF Goto, SoundRequests
    <3> QED
      BY <1>2, <3>1 DEF Before
  <2>4. CASE v # NotFound
    <3>1. Cache!Fresh(store[k]) /\ v = store[k].value
      BY <2>4 DEF Cache!Answers
    <3>2. WasSent(Name[Query(r)], v.content, v.stored)
      BY <2>1, <3>1 DEF Sourced, CacheSourced, Cache!Fresh
    <3> DEFINE o == Unmarshal(req[r].kind, v)
    <3>3. o \in Sent => o = v.content
      BY DEF Unmarshal, Sent
    <3> HIDE DEF o
    <3>4. /\ req'[r].res.outcome = o /\ req'[r].res.stored = v.stored
          /\ req'[r].todo = req[r].todo
      <4>1. /\ req'[r] = [req[r] EXCEPT !.pc = "done", !.res = [outcome |-> o, via |-> "cache",
                                                                stored |-> v.stored, at |-> now]]
            /\ req[r] \in SoundRequests
        BY <1>3, <2>1, <2>2, <2>4 DEF Finish, o
      <4> QED
        BY <4>1 DEF SoundRequests
    <3> QED
      BY <2>1, <3>2, <3>3, <3>4 DEF RequestSourced, WasSent, Query
  <2> QED
    BY <2>3, <2>4
<1>6. CASE CacheExists(r) \/ MarkFailure(r)
  <2>1. req[r] # Idle /\ req[r] \in SoundRequests
    BY <1>3, <1>6 DEF CacheExists, MarkFailure, At
  <2>2. \/ \E pc \in {"rdap", "tcp"} : Goto(r, pc)
        \/ \E outcome \in {"recent", "failed"} : \E via, stored : Finish(r, outcome, via, stored)
    BY <1>6 DEF CacheExists, MarkFailure
  <2>3. CASE \E pc \in {"rdap", "tcp"} : Goto(r, pc)
    BY <1>2, <1>3, <2>1, <2>3 DEF Goto, SoundRequests, Before
  <2>4. ASSUME NEW outcome \in {"recent", "failed"}, NEW via, NEW stored,
               Finish(r, outcome, via, stored)
        PROVE  RequestSourced(r)'
    <3>1. req'[r] = [req[r] EXCEPT !.pc = "done", !.res = [outcome |-> outcome, via |-> via,
                                                          stored |-> stored, at |-> now]]
      BY <1>3, <2>4 DEF Finish
    <3>2. req'[r].res.outcome = outcome
      BY <2>1, <3>1 DEF SoundRequests
    <3> QED
      BY <3>2 DEF RequestSourced, Sent
  <2> QED
    BY <2>2, <2>3, <2>4
<1>7. ASSUME \/ \E ok \in BOOLEAN : RdapQuery(r, ok)
             \/ \E outcome \in Sent \cup {"failed"} : TcpQuery(r, outcome)
      PROVE  RequestSourced(r)'
  <2>1. req[r] \in SoundRequests
    BY <1>3, <1>7 DEF RdapQuery, TcpQuery, At
  <2>2. \E pc \in {"store", "tcp", "mark"} : Goto(r, pc) \/ \E outcome : Fetched(r, pc, outcome)
    BY <1>7 DEF RdapQuery, TcpQuery
  <2>3. req'[r].pc \in Before
    BY <1>3, <2>1, <2>2 DEF Fetched, Goto, SoundRequests, Before
  <2> QED
    BY <1>2, <2>3
<1>8. CASE StoreResult(r)
  <2>1. /\ req'[r].res.outcome = req[r].res.outcome /\ req'[r].res.stored = now
        /\ req'[r].todo = req[r].todo
    BY <1>3, <1>8 DEF StoreResult, Finish, At, SoundRequests
  <2>2. Answer(Name[Query(r)], req[r].res.outcome, now) \in fetched'
    BY <1>8 DEF StoreResult
  <2> QED
    BY <2>1, <2>2 DEF RequestSourced, WasSent, Query
<1>9. CASE Continue(r)
  <2>1. req[r] # Idle /\ req[r].pc \notin Before
    BY <1>9 DEF Continue, At, Before
  <2>2. CASE req' = [req EXCEPT ![r] = NextQuery(r)]
    BY <1>3, <2>1, <2>2, NextAnswer
  <2>3. CASE \E pc \in Steps : Goto(r, pc)
    <3>1. req'[r].res = req[r].res /\ req'[r].todo = req[r].todo
      BY <1>3, <2>1, <2>3 DEF Goto, SoundRequests
    <3> QED
      BY <2>1, <3>1, AnswerGoesOn
  <2> QED
    BY <1>9, <2>2, <2>3 DEF Continue, Steps
<1>10. CASE Respond(r)
  <2>1. req'[r] = Idle
    BY <1>3, <1>10 DEF Respond
  <2> QED
    BY <1>2, <2>1
<1>11. ASSUME NEW ok \in BOOLEAN, Upsert(r, ok) PROVE RequestSourced(r)'
  <2>1. CASE ~At(r, "upsert")
    BY <1>1, <1>11, <2>1 DEF Upsert
  <2>2. CASE At(r, "upsert")
    <3>1. req[r] # Idle /\ req[r].pc \notin Before
      BY <2>2 DEF At, Before
    <3>2. req'[r] = NextQuery(r) \/ req'[r] = Idle
      BY <1>3, <1>11, <2>2 DEF Upsert
    <3> QED
      BY <1>2, <3>1, <3>2, NextAnswer
  <2> QED
    BY <2>1, <2>2
<1>12. CASE UNCHANGED req
  BY <1>1, <1>12
<1>13. ASSUME NEW s \in Requests, s # r, \/ \E kind \in Kinds, qs \in Asked : Begin(s, kind, qs)
                                        \/ Lookup(s) \/ Save(s)
       PROVE  req'[r] = req[r]
  BY <1>3, <1>13 DEF Begin, Lookup, Save, CacheGet, CacheExists, RdapQuery, TcpQuery, StoreResult,
     MarkFailure, Continue, Respond, Stamp, Upsert, Finish, Goto, Fetched
<1>14. CASE Lookup(r)
  BY <1>5, <1>6, <1>7, <1>8, <1>9, <1>10, <1>14 DEF Lookup
<1>15. CASE Save(r)
  BY <1>11, <1>12, <1>15 DEF Save, Stamp
<1>16. CASE Tick \/ Evict \/ UNCHANGED vars
  BY <1>12, <1>16 DEF Tick, Evict, vars
<1> QED
  BY <1>1, <1>4, <1>13, <1>14, <1>15, <1>16 DEF Next

\* What is saved is the answer to the request.
LEMMA JobsStaySourced ==
  ASSUME LookupInv, Sourced, [Next]_vars, NEW r \in Requests
  PROVE  JobSourced(r)'
<1>1. job \in [Requests -> SoundJobs \cup {NoJob}] /\ RequestsSound
  BY DEF LookupInv, JobsSound
<1>2. JobSourced(r) /\ RequestSourced(r) /\ fetched \subseteq fetched'
  BY SentStays DEF Sourced
<1>3. CASE job'[r] = NoJob
  BY <1>3 DEF JobSourced
<1>4. CASE \/ job'[r] = job[r]
           \/ /\ job[r] # NoJob /\ job'[r].name = job[r].name
              /\ job'[r].content = job[r].content /\ job'[r].stored = job[r].stored
  BY <1>2, <1>4 DEF JobSourced, WasSent
<1>5. CASE Continue(r)
  <2>1. CASE HasDomain(r) /\ job' = [job EXCEPT ![r] = NewJob(r)]
    <3>1. job'[r] = NewJob(r)
      BY <1>1, <2>1
    <3>2. WasSent(Name[Query(r)], req[r].res.outcome, req[r].res.stored)
      BY <1>2, <1>5, <2>1 DEF RequestSourced, Continue, At, Before, HasDomain
    <3> QED
      BY <1>2, <3>1, <3>2 DEF JobSourced, WasSent, NewJob
  <2>2. CASE UNCHANGED job
    BY <1>4, <2>2
  <2> QED
    BY <1>5, <2>1, <2>2 DEF Continue
<1>6. CASE Respond(r)
  <2>1. job'[r] = IF job[r] = NoJob THEN job[r] ELSE [job[r] EXCEPT !.cancelled = TRUE]
    BY <1>1, <1>6 DEF Respond
  <2> QED
    BY <1>1, <1>4, <2>1 DEF SoundJobs
<1>7. CASE Stamp(r)
  <2>1. job[r] \in SoundJobs /\ job[r] # NoJob
    BY <1>1, <1>7 DEF Stamp, NoJob, SoundJobs
  <2>2. job'[r] = [job[r] EXCEPT !.st = "stamped", !.stamp = now]
    BY <1>1, <1>7 DEF Stamp
  <2> QED
    BY <1>4, <2>1, <2>2 DEF SoundJobs
<1>8. ASSUME NEW ok \in BOOLEAN, Upsert(r, ok) PROVE JobSourced(r)'
  BY <1>1, <1>3, <1>8 DEF Upsert
<1>9. CASE UNCHANGED job
  BY <1>4, <1>9
<1>10. ASSUME NEW s \in Requests, s # r, Continue(s) \/ Respond(s) \/ Save(s)
       PROVE  job'[r] = job[r]
  BY <1>1, <1>10 DEF Continue, Respond, Save, Stamp, Upsert
<1>11. \/ UNCHANGED job
       \/ \E s \in Requests : Continue(s) \/ Respond(s) \/ Save(s)
  BY DEF Next, vars, Tick, Evict, Begin, Lookup, CacheGet, CacheExists, RdapQuery, TcpQuery,
         StoreResult, MarkFailure
<1> QED
  BY <1>4, <1>5, <1>6, <1>7, <1>8, <1>9, <1>10, <1>11 DEF Save

\* A row is what was saved, or what it was.
LEMMA RecordsStaySourced ==
  ASSUME LookupInv, Sourced, [Next]_vars
  PROVE  RecordsSourced'
<1>1. /\ records \in [Names -> SoundRecords \cup {NoRecord}]
      /\ fetched \subseteq fetched'
  BY SentStays DEF LookupInv, RecordsSound
<1>2. CASE UNCHANGED records
  BY <1>1, <1>2 DEF Sourced, RecordsSourced, WasSent
<1>3. ASSUME NEW r \in Requests, NEW ok \in BOOLEAN, Upsert(r, ok) PROVE RecordsSourced'
  <2>1. /\ job[r] # NoJob /\ job[r].name \in Names
        /\ WasSent(job[r].name, job[r].content, job[r].stored)
    BY <1>3, StampedJob DEF Upsert, NoJob, Sourced, JobSourced
  <2> DEFINE n == job[r].name
             row == Upserted(records[n], job[r])
  <2>2. row.content = job[r].content /\ row.stored = job[r].stored
    BY DEF Upserted
  <2>3. records' = records \/ records' = [records EXCEPT ![n] = row]
    BY <1>3 DEF Upsert
  <2>4. n \in Names /\ WasSent(n, row.content, row.stored)
    BY <2>1, <2>2
  <2> HIDE DEF n, row
  <2> QED
    BY <1>1, <1>2, <2>3, <2>4 DEF Sourced, RecordsSourced, WasSent
<1>4. UNCHANGED records \/ \E r \in Requests : \E ok \in BOOLEAN : Upsert(r, ok)
  BY DEF Next, vars, Tick, Evict, Begin, Lookup, Save, CacheGet, CacheExists, RdapQuery, TcpQuery,
         StoreResult, MarkFailure, Continue, Respond, Stamp
<1> QED
  BY <1>2, <1>3, <1>4

(***************************************************************************)
(* A row of whois_records is what a registry sent about its name, at the   *)
(* time the row carries (QueryWHOISWithCache, UpsertRecord), also when a   *)
(* cached answer is read in the format of the other service, and whatever  *)
(* the requests, saves and refreshes in progress.                          *)
(***************************************************************************)
THEOREM RecordsAreSent == Spec => []RecordsAsSent
<1>1. Init => Sourced
  BY DEF Init, Sourced, CacheSourced, RecordsSourced, RequestSourced, JobSourced, Key, Names
<1>2. LookupInv /\ Sourced /\ [Next]_vars => Sourced'
  BY CacheStaysSourced, RequestsStaySourced, JobsStaySourced, RecordsStaySourced DEF Sourced
<1>3. LookupInv /\ Sourced => RecordsAsSent
  BY DEF LookupInv, RecordsSound, Sourced, RecordsSourced, WasSent, RecordsAsSent
<1> QED
  BY <1>1, <1>2, <1>3, LookupsAreSound, PTL DEF Spec

(***************************************************************************)
(* A record keeps its first_seen, and is never deleted (ON CONFLICT(query) *)
(* DO UPDATE), however the saves of one name interleave.                   *)
(***************************************************************************)
THEOREM FirstSeenIsKept == Spec => FirstSeenPreserved
<1> DEFINE Kept == \A n \in Names :
                     records[n] # NoRecord => records'[n].first = records[n].first
<1>1. LookupInv /\ [Next]_vars => [Kept]_vars
  <2> SUFFICES ASSUME LookupInv, Next PROVE Kept
    OBVIOUS
  <2>1. CASE UNCHANGED records
    BY <2>1
  <2>2. ASSUME NEW r \in Requests, NEW ok \in BOOLEAN, Upsert(r, ok) PROVE Kept
    <3>1. RecordsSound /\ job[r].st = "stamped"
      BY <2>2 DEF LookupInv, Upsert
    <3> DEFINE n == job[r].name
               row == Upserted(records[n], job[r])
    <3>2. records[n] # NoRecord => row.first = records[n].first
      BY <3>1, UpsertedIsSound
    <3>3. records' = records \/ records' = [records EXCEPT ![n] = row]
      BY <2>2 DEF Upsert
    <3> HIDE DEF n, row
    <3> QED
      BY <3>1, <3>2, <3>3 DEF RecordsSound
  <2>3. UNCHANGED records \/ \E r \in Requests : \E ok \in BOOLEAN : Upsert(r, ok)
    BY DEF Next, Tick, Evict, Begin, Lookup, Save, CacheGet, CacheExists, RdapQuery, TcpQuery,
           StoreResult, MarkFailure, Continue, Respond, Stamp
  <2> QED
    BY <2>1, <2>2, <2>3
<1> QED
  BY <1>1, LookupsAreSound, PTL DEF Spec, FirstSeenPreserved
=============================================================================
