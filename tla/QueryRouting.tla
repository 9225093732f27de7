----------------------------- MODULE QueryRouting -----------------------------
(***************************************************************************)
(* Where one lookup is sent once the cache has not answered it (module     *)
(* WhoisLookup has the cache): the type of the query, its validation, the  *)
(* RDAP endpoints of the bootstrap tables, tried one after the other, and  *)
(* the WHOIS server.  The REST handlers validate and go to WHOIS; GraphQL  *)
(* does not validate, and tries RDAP first.                                *)
(***************************************************************************)
EXTENDS Naturals, FiniteSets, SequencesExt

CONSTANTS
  RouteQueries,   \* queries, see RouteQuery
  Tables,         \* bootstrap tables: [dns, ipv4, ipv6, asn]
  MaxASN,         \* 2^32 - 1
  TldServers,     \* the labels in tldServers
  OctetRIR        \* GetServerForIP: IPv4 address -> registry

LongLabel == "long"   \* stands for a label of more than 63 characters

\* What the user types: labels, a number after "AS", "as", "As" or nothing, an
\* address, or something else.
RouteQuery ==
  [kind : {"labels"}, labels : Seq(STRING)] \cup [kind : {"number"}, n : Nat, prefix : STRING]
    \cup [kind : {"ipv4", "ipv6"}, addr : Nat] \cup [kind : {"other"}]

ASSUME RoutingAssumption ==
  /\ RouteQueries \subseteq RouteQuery
  /\ MaxASN \in Nat \ {0}
  /\ \A t \in Tables :
       /\ DOMAIN t.dns \subseteq Seq(STRING) /\ t.dns \in [DOMAIN t.dns -> Seq(STRING)]
       /\ \A f \in {"ipv4", "ipv6", "asn"} : t[f] \in Seq([lo : Nat, hi : Nat, urls : Seq(STRING)])

VARIABLES
  tables,    \* the bootstrap tables of the process
  asked,     \* the query under way, and whether REST or GraphQL has it
  at,        \* where it stands
  left,      \* the RDAP endpoints not tried yet
  tried,     \* the RDAP endpoints that have been tried
  answer     \* where the answer came from

routeVars == <<tables, asked, at, left, tried, answer>>

None == [source |-> "none", server |-> "none"]
-----------------------------------------------------------------------------
\* DetectQueryType: "As5" is no number for its regular expression, but is a name.
DetectQueryType(q) ==
  CASE q.kind = "number" -> IF q.prefix = "As" THEN "domain" ELSE "asn"
    [] q.kind = "labels" -> "domain"
    [] q.kind \in {"ipv4", "ipv6"} -> q.kind
    [] OTHER -> "unknown"

\* A number taken for a name is one label, which its prefix stands for.
Labels(q) == IF q.kind = "labels" THEN q.labels ELSE <<q.prefix>>

\* ValidateQuery: a domain has two labels, none too long; a number is an ASN.
ValidateQuery(q) ==
  CASE DetectQueryType(q) = "domain" ->
         Len(Labels(q)) >= 2 /\ \A i \in DOMAIN Labels(q) : Labels(q)[i] # LongLabel
    [] DetectQueryType(q) = "asn" -> q.n \in 1..MaxASN
    [] OTHER -> DetectQueryType(q) # "unknown"

\* parseASNNumber: 0 is no ASN.
parseASNNumber(q) == IF q.n \in 0..MaxASN THEN q.n ELSE 0

\* The shorter suffixes are tried first.
MutantGetDomainEndpoints(labels) ==
  LET known == {i \in 1..Len(labels) : SubSeq(labels, i, Len(labels)) \in DOMAIN tables.dns} IN
  IF known = {} THEN <<>> ELSE tables.dns[SubSeq(labels, Max(known), Len(labels))]

\* GetDomainEndpoints: the name and then its ever shorter suffixes are looked up.
GetDomainEndpoints(labels) ==
  LET known == {i \in 1..Len(labels) : SubSeq(labels, i, Len(labels)) \in DOMAIN tables.dns} IN
  IF known = {} THEN <<>> ELSE tables.dns[SubSeq(labels, Min(known), Len(labels))]

\* GetIPv4Endpoints, GetIPv6Endpoints, GetASNEndpoints: the first range that holds it.
GetRangeEndpoints(ranges, n) ==
  LET holding == {i \in DOMAIN ranges : n \in ranges[i].lo..ranges[i].hi} IN
  IF holding = {} THEN <<>> ELSE ranges[Min(holding)].urls

\* QueryDomain, QueryIP and QueryASN ask the bootstrap tables.
Endpoints(q) ==
  CASE DetectQueryType(q) = "domain" -> GetDomainEndpoints(Labels(q))
    [] DetectQueryType(q) \in {"ipv4", "ipv6"} -> GetRangeEndpoints(tables[q.kind], q.addr)
    [] OTHER -> IF parseASNNumber(q) = 0 THEN <<>> ELSE GetRangeEndpoints(tables.asn, q.n)

HasData == tables.dns # <<>> \/ \E f \in {"ipv4", "ipv6", "asn"} : tables[f] # <<>>

\* SelectServer.
SelectServer(q) ==
  CASE DetectQueryType(q) = "domain" ->
         IF Len(Labels(q)) >= 2 /\ Last(Labels(q)) \in TldServers THEN Last(Labels(q)) ELSE "iana"
    [] q.kind = "ipv4" -> IF q.addr \in DOMAIN OctetRIR THEN OctetRIR[q.addr] ELSE "iana"
    [] OTHER -> "iana"
-----------------------------------------------------------------------------
RouteInit ==
  /\ tables \in Tables
  /\ asked = [q |-> [kind |-> "other"], by |-> "rest"]
  /\ at = "idle" /\ left = <<>> /\ tried = <<>> /\ answer = None

\* A query that Lookup or QueryWHOISWithCache takes up, or that is refused.
Ask(q, by) ==
  /\ at \in {"idle", "answered", "refused", "failed"}
  /\ asked' = [q |-> q, by |-> by]
  /\ tried' = <<>> /\ answer' = None
  /\ IF DetectQueryType(q) = "unknown" \/ (by = "rest" /\ ~ValidateQuery(q))
     THEN at' = "refused" /\ left' = <<>>
     ELSE IF by = "graphql" /\ HasData
     THEN at' = "rdap" /\ left' = Endpoints(q)
     ELSE at' = "whois" /\ left' = <<>>
  /\ UNCHANGED tables

\* One endpoint is asked; a failed request, a refusal, or what is no JSON, moves on.
TryEndpoint(ok) ==
  /\ at = "rdap" /\ left # <<>>
  /\ tried' = Append(tried, Head(left))
  /\ left' = Tail(left)
  /\ IF ok THEN at' = "answered" /\ answer' = [source |-> "rdap", server |-> Head(left)]
           ELSE UNCHANGED <<at, answer>>
  /\ UNCHANGED <<tables, asked>>

\* No endpoint is left: Lookup falls back to WHOIS.
FallBack ==
  /\ at = "rdap" /\ left = <<>>
  /\ at' = "whois"
  /\ UNCHANGED <<tables, asked, left, tried, answer>>

\* tcpQuery.
AskWHOIS(ok) ==
  /\ at = "whois"
  /\ IF ok THEN at' = "answered" /\ answer' = [source |-> "whois", server |-> SelectServer(asked.q)]
           ELSE at' = "failed" /\ UNCHANGED answer
  /\ UNCHANGED <<tables, asked, left, tried>>

RouteNext ==
  \/ FallBack
  \/ \E q \in RouteQueries, by \in {"rest", "graphql"} : Ask(q, by)
  \/ \E ok \in BOOLEAN : TryEndpoint(ok) \/ AskWHOIS(ok)

RouteSpec == RouteInit /\ [][RouteNext]_routeVars
-----------------------------------------------------------------------------
RouteTypeOK ==
  /\ tables \in Tables
  /\ asked.q \in RouteQueries \cup {[kind |-> "other"]} /\ asked.by \in {"rest", "graphql"}
  /\ at \in {"idle", "rdap", "whois", "answered", "refused", "failed"}
  /\ left \in Seq(STRING) /\ tried \in Seq(STRING)
  /\ answer.source \in {"none", "rdap", "whois"}

\* The endpoints a query belongs to: of the registry with the longest suffix of the
\* name, or of a range that holds the number; a number that is no ASN belongs to none.
Responsible(q) ==
  CASE DetectQueryType(q) = "domain" ->
         LET known == {s \in DOMAIN tables.dns : s # <<>> /\ IsSuffix(s, Labels(q))}
         IN  {tables.dns[s] : s \in {s \in known : \A t \in known : Len(t) <= Len(s)}}
    [] q.kind \in {"ipv4", "ipv6"} ->
         {r.urls : r \in {r \in Range(tables[q.kind]) : r.lo <= q.addr /\ q.addr <= r.hi}}
    [] DetectQueryType(q) = "asn" ->
         {r.urls : r \in {r \in Range(tables.asn) : q.n \in 1..MaxASN /\ r.lo <= q.n /\ q.n <= r.hi}}
    [] OTHER -> {}

\* Each lookup tries the endpoints of its own registry, in the order the registry gives
\* them, and no others; RDAP answers through the last one tried; WHOIS is asked only
\* when every endpoint has failed, and at once only when no registry is responsible or
\* one has no endpoint; and what REST sends out is valid, an ASN being valid exactly if
\* the lookup finds a number in it (Lookup, lookupRDAP, QueryDomain,
\* GetDomainEndpoints, ValidateASN, parseASNNumber).
RoutingRight ==
  /\ tried # <<>> => \E urls \in Responsible(asked.q) : tried \o left = urls
  /\ at = "answered" /\ answer.source = "rdap" => answer.server = Last(tried)
  /\ at = "whois" /\ asked.by = "graphql" /\ HasData /\ tried = <<>> =>
       Responsible(asked.q) = {} \/ <<>> \in Responsible(asked.q)
  /\ DetectQueryType(asked.q) = "asn" /\ at \notin {"idle", "refused"} /\ asked.by = "rest" =>
       parseASNNumber(asked.q) # 0
=============================================================================
