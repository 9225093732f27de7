----------------------------- MODULE AnswerProofs -----------------------------
(***************************************************************************)
(* Proofs about the answers: the server that QueryRouting chooses, what    *)
(* ResultParsing keeps of a truncated answer, and what OwnerSearch shows.  *)
(***************************************************************************)
EXTENDS QueryRouting, ResultParsing, OwnerSearch, SequenceTheorems, FiniteSetTheorems,
        TLAPS

(***************************************************************************)
(* QueryRouting, for any registries, servers and queries.                  *)
(***************************************************************************)

LEMMA LeastNat ==
  ASSUME NEW T, T \subseteq Nat, T # {}
  PROVE  \E x \in T : \A y \in T : x <= y
<1> DEFINE U == {0..n : n \in T}
<1>1. U \subseteq FiniteSubsetsOf(Nat) /\ U # {}
  <2>1. ASSUME NEW n \in T PROVE 0..n \in FiniteSubsetsOf(Nat)
    <3>1. n \in Int /\ 0 \in Int /\ 0..n \subseteq Nat
      OBVIOUS
    <3>2. IsFiniteSet(0..n)
      BY <3>1, FS_Interval
    <3> QED
      BY <3>1, <3>2 DEF FiniteSubsetsOf
  <2> QED
    BY <2>1
<1>2. PICK s \in U : \A r \in U : ~ (<<r, s>> \in StrictSubsetOrdering(Nat))
  BY <1>1, FS_StrictSubsetOrderingWellFounded, WFMin
<1>3. PICK x \in T : s = 0..x
  OBVIOUS
<1>4. ASSUME NEW y \in T PROVE x <= y
  <2>1. SUFFICES ASSUME y < x PROVE FALSE
    OBVIOUS
  <2>2. 0..y \subseteq 0..x /\ 0..y # 0..x /\ 0..y \subseteq Nat /\ 0..x \subseteq Nat
    BY <2>1
  <2>3. <<0..y, s>> \in StrictSubsetOrdering(Nat)
    BY <1>3, <2>2 DEF StrictSubsetOrdering
  <2> QED
    BY <1>2, <2>3
<1> QED
  BY <1>4

\* The least of a set of naturals is one of it.
LEMMA MinIsLeast ==
  ASSUME NEW T, T \subseteq Nat, T # {}
  PROVE  Min(T) \in T /\ \A y \in T : Min(T) <= y
BY LeastNat DEF Min

-----------------------------------------------------------------------------
\* A suffix of a sequence is its end from some place on.
LEMMA SuffixIsEnd ==
  ASSUME NEW S, NEW s \in Seq(S), NEW t \in Seq(S)
  PROVE  IsSuffix(s, t) <=>
           Len(s) <= Len(t) /\ s = SubSeq(t, Len(t) - Len(s) + 1, Len(t))
<1> DEFINE m == Len(s)
           n == Len(t)
           e == SubSeq(t, n - m + 1, n)
<1>1. m \in Nat /\ n \in Nat /\ (\A i \in 1..m : s[i] \in S) /\ (\A i \in 1..n : t[i] \in S)
  BY LenProperties, ElementOfSeq
<1>2. ASSUME NEW u \in Seq(S)
      PROVE  /\ Reverse(u) \in Seq(S) /\ Len(Reverse(u)) = Len(u)
             /\ \A i \in 1..Len(u) : Reverse(u)[i] = u[(Len(u) - i) + 1]
  <2>1. Len(u) \in Nat /\ \A i \in 1..Len(u) : u[i] \in S
    BY LenProperties, ElementOfSeq
  <2>2. Reverse(u) = [i \in 1..Len(u) |-> u[(Len(u) - i) + 1]]
    BY DEF Reverse
  <2>3. \A i \in 1..Len(u) : u[(Len(u) - i) + 1] \in S
    BY <2>1
  <2>4. Reverse(u) \in [1..Len(u) -> S]
    BY <2>2, <2>3
  <2>5. Reverse(u) \in Seq(S)
    BY <2>1, <2>4, SeqDef
  <2>6. DOMAIN Reverse(u) = 1..Len(Reverse(u)) /\ Len(Reverse(u)) \in Nat
    BY <2>5, LenProperties
  <2>7. Len(Reverse(u)) = Len(u)
    BY <2>1, <2>2, <2>6
  <2> QED
    BY <2>2, <2>5, <2>7
<1> DEFINE rs == Reverse(s)
           rt == Reverse(t)
           p == SubSeq(rs, 1, m)
           q == SubSeq(rt, 1, m)
<1>3. /\ rs \in Seq(S) /\ Len(rs) = m /\ \A i \in 1..m : rs[i] = s[(m - i) + 1]
  BY <1>2
<1>4. /\ rt \in Seq(S) /\ Len(rt) = n /\ \A i \in 1..n : rt[i] = t[(n - i) + 1]
  BY <1>2
<1>5. IsSuffix(s, t) <=> m <= n /\ p = q
  BY <1>3, <1>4 DEF IsSuffix, IsPrefix
<1> HIDE DEF m, n, rs, rt
<1>6. ASSUME m <= n PROVE p = q <=> s = e
  <2>1. /\ p \in Seq(S) /\ Len(p) = m /\ \A i \in 1..m : p[i] = rs[i]
    <3>1. \A i \in 1..m : rs[i] \in S
      BY <1>3, ElementOfSeq
    <3> QED
      BY <1>1, <3>1, SubSeqProperties
  <2>2. /\ q \in Seq(S) /\ Len(q) = m /\ \A i \in 1..m : q[i] = rt[i]
    <3>1. \A i \in 1..m : rt[i] \in S
      BY <1>1, <1>4, <1>6, ElementOfSeq
    <3> QED
      BY <1>1, <3>1, SubSeqProperties
  <2>3. /\ e \in Seq(S) /\ Len(e) = m /\ \A i \in 1..m : e[i] = t[(n - m) + i]
    <3>1. /\ n - m + 1 \in Int /\ n \in Int /\ \A i \in n - m + 1..n : t[i] \in S
      BY <1>1, <1>6
    <3>2. /\ e \in Seq(S) /\ Len(e) = IF n - m + 1 <= n THEN n - (n - m + 1) + 1 ELSE 0
          /\ \A i \in 1..n - (n - m + 1) + 1 : e[i] = t[(n - m + 1) + i - 1]
      BY <3>1, SubSeqProperties
    <3>3. n - (n - m + 1) + 1 = m /\ \A i \in 1..m : (n - m + 1) + i - 1 = (n - m) + i
      BY <1>1
    <3> QED
      BY <1>1, <3>2, <3>3
  <2> HIDE DEF p, q, e
  <2>4. ASSUME p = q PROVE s = e
    <3>1. ASSUME NEW i \in 1..m PROVE s[i] = e[i]
      <4> DEFINE j == (m - i) + 1
      <4>1. j \in 1..m /\ j \in 1..n /\ (m - j) + 1 = i /\ (n - j) + 1 = (n - m) + i
        BY <1>1, <1>6
      <4> HIDE DEF j
      <4>2. p[j] = s[(m - j) + 1] /\ q[j] = t[(n - j) + 1]
        BY <1>3, <1>4, <2>1, <2>2, <4>1
      <4> QED
        BY <2>3, <2>4, <4>1, <4>2
    <3> QED
      BY <2>3, <3>1, SeqEqual DEF m
  <2>5. ASSUME s = e PROVE p = q
    <3>1. ASSUME NEW j \in 1..m PROVE p[j] = q[j]
      <4> DEFINE i == (m - j) + 1
      <4>1. i \in 1..m /\ j \in 1..n /\ (n - j) + 1 = (n - m) + i
        BY <1>1, <1>6
      <4>2. p[j] = s[i] /\ q[j] = t[(n - j) + 1]
        BY <1>3, <1>4, <2>1, <2>2, <4>1
      <4> QED
        BY <2>3, <2>5, <4>1, <4>2
    <3> QED
      BY <2>1, <2>2, <3>1, SeqEqual
  <2> QED
    BY <2>4, <2>5
<1> QED
  BY <1>5, <1>6 DEF m, n, e, p, q

-----------------------------------------------------------------------------
RouteShape ==
  /\ tables \in Tables
  /\ asked.q \in RouteQueries \cup {[kind |-> "other"]} /\ asked.by \in {"rest", "graphql"}
  /\ left \in Seq(STRING) /\ tried \in Seq(STRING)

\* Out of RDAP's hands nothing is left; an answer is there at the end alone.
RouteStages ==
  /\ at = "whois" => left = <<>>
  /\ at \in {"rdap", "whois"} => answer = None
  /\ at = "rdap" => asked.by = "graphql"
  /\ tried # <<>> => at \notin {"idle", "refused"}
  /\ at \notin {"idle", "refused"} => DetectQueryType(asked.q) # "unknown"

\* What RDAP has tried and what is left are the endpoints of the query, in their order.
EndpointsInOrder ==
  at = "rdap" \/ tried # <<>> \/ (at = "whois" /\ asked.by = "graphql" /\ HasData) =>
    tried \o left = Endpoints(asked.q)

RouteInv ==
  /\ RouteShape /\ RouteStages /\ EndpointsInOrder
  /\ at = "answered" /\ answer.source = "rdap" => answer.server = Last(tried)
  /\ asked.by = "rest" /\ at \notin {"idle", "refused"} => ValidateQuery(asked.q)

\* The queries by their kind.
LEMMA QueryKinds ==
  ASSUME RoutingAssumption, NEW q \in RouteQueries \cup {[kind |-> "other"]}
  PROVE  \/ q.kind = "labels" /\ q.labels \in Seq(STRING)
         \/ q.kind = "number" /\ q.n \in Nat
         \/ q.kind \in {"ipv4", "ipv6"} /\ q.addr \in Nat
         \/ q.kind = "other"
BY DEF RoutingAssumption, RouteQuery

\* What is found for a name is what the registry of its longest suffix gives.
LEMMA DomainEndpoints ==
  ASSUME RoutingAssumption, tables \in Tables, NEW labels \in Seq(STRING)
  PROVE  LET known == {s \in DOMAIN tables.dns : s # <<>> /\ IsSuffix(s, labels)}
             longest == {s \in known : \A t \in known : Len(t) <= Len(s)}
         IN  /\ GetDomainEndpoints(labels) \in Seq(STRING)
             /\ \/ \E s \in longest : GetDomainEndpoints(labels) = tables.dns[s]
                \/ GetDomainEndpoints(labels) = <<>> /\ known = {}
<1> DEFINE n == Len(labels)
           End(i) == SubSeq(labels, i, n)
           places == {i \in 1..n : End(i) \in DOMAIN tables.dns}
           known == {s \in DOMAIN tables.dns : s # <<>> /\ IsSuffix(s, labels)}
           longest == {s \in known : \A t \in known : Len(t) <= Len(s)}
<1>1. n \in Nat /\ DOMAIN tables.dns \subseteq Seq(STRING) /\ tables.dns \in [DOMAIN tables.dns -> Seq(STRING)]
  BY LenProperties DEF RoutingAssumption
<1>2. \A i \in 1..n : End(i) \in Seq(STRING) /\ Len(End(i)) = n - i + 1
  <2> TAKE i \in 1..n
  <2>1. i \in Int /\ n \in Int /\ \A j \in i..n : labels[j] \in STRING
    BY <1>1, ElementOfSeq
  <2> HIDE DEF n
  <2> QED
    BY <2>1, SubSeqProperties
<1>3. \A s \in known : n - Len(s) + 1 \in places /\ End(n - Len(s) + 1) = s /\ Len(s) \in Nat
  <2> TAKE s \in known
  <2>1. s \in Seq(STRING) /\ Len(s) \in Nat \ {0}
    BY <1>1, EmptySeq
  <2>2. Len(s) <= n /\ s = End(n - Len(s) + 1)
    BY <2>1, SuffixIsEnd
  <2>3. n - Len(s) + 1 \in 1..n
    BY <1>1, <2>1, <2>2
  <2> QED
    BY <2>1, <2>2, <2>3
<1>4. \A i \in places : End(i) \in known
  <2> TAKE i \in places
  <2>1. i \in 1..n /\ End(i) \in Seq(STRING) /\ Len(End(i)) = n - i + 1 /\ End(i) \in DOMAIN tables.dns
    BY <1>2
  <2>2. Len(End(i)) <= n /\ n - Len(End(i)) + 1 = i /\ Len(End(i)) > 0
    BY <1>1, <2>1
  <2>3. End(i) # <<>>
    <3> DEFINE s == End(i)
    <3>1. Len(s) > 0
      BY <2>2
    <3> HIDE DEF s
    <3>2. s # <<>>
      BY <3>1, EmptySeq
    <3> QED
      BY <3>2 DEF s
  <2>4. IsSuffix(End(i), labels)
    <3> DEFINE s == End(i)
    <3>1. s \in Seq(STRING) /\ Len(s) <= n /\ s = SubSeq(labels, n - Len(s) + 1, n)
      BY <2>1, <2>2
    <3> HIDE DEF s
    <3>2. IsSuffix(s, labels)
      BY <3>1, SuffixIsEnd
    <3> QED
      BY <3>2 DEF s
  <2> QED
    BY <2>1, <2>3, <2>4
<1>5. GetDomainEndpoints(labels) = IF places = {} THEN <<>> ELSE tables.dns[End(Min(places))]
  BY DEF GetDomainEndpoints
<1> HIDE DEF known, places, End
<1>6. CASE places = {}
  <2>1. known = {}
    BY <1>3, <1>6
  <2>2. <<>> \in Seq(STRING)
    BY EmptySeq
  <2> QED
    BY <1>5, <1>6, <2>1, <2>2 DEF known
<1>7. CASE places # {}
  <2>1. Min(places) \in places /\ (\A i \in places : Min(places) <= i) /\ places \subseteq 1..n
    <3>1. places \subseteq 1..n
      BY DEF places
    <3>2. places \subseteq Nat
      BY <1>1, <3>1
    <3>3. Min(places) \in places /\ \A i \in places : Min(places) <= i
      BY <1>7, <3>2, MinIsLeast
    <3> QED
      BY <3>1, <3>3
  <2> DEFINE i == Min(places)
  <2>2. i \in 1..n /\ End(i) \in known /\ Len(End(i)) = n - i + 1
    BY <1>2, <1>4, <2>1
  <2>3. \A t \in known : Len(t) <= Len(End(i))
    <3> TAKE t \in known
    <3>1. n - Len(t) + 1 \in places /\ Len(t) \in Nat
      BY <1>3
    <3>2. i <= n - Len(t) + 1
      BY <2>1, <3>1
    <3> QED
      BY <1>1, <2>2, <3>1, <3>2
  <2>4. GetDomainEndpoints(labels) = tables.dns[End(i)] /\ End(i) \in longest
    BY <1>5, <1>7, <2>2, <2>3
  <2>5. GetDomainEndpoints(labels) \in Seq(STRING)
    BY <1>1, <2>2, <2>4 DEF known
  <2> QED
    BY <2>4, <2>5 DEF known
<1> QED
  BY <1>6, <1>7

\* What is found for a number is what a range that holds it gives.
LEMMA RangeEndpoints ==
  ASSUME NEW ranges \in Seq([lo : Nat, hi : Nat, urls : Seq(STRING)]), NEW n \in Nat
  PROVE  LET holding == {r \in Range(ranges) : r.lo <= n /\ n <= r.hi}
         IN  /\ GetRangeEndpoints(ranges, n) \in Seq(STRING)
             /\ \/ \E r \in holding : GetRangeEndpoints(ranges, n) = r.urls
                \/ GetRangeEndpoints(ranges, n) = <<>> /\ holding = {}
<1> DEFINE places == {i \in DOMAIN ranges : n \in ranges[i].lo..ranges[i].hi}
           holding == {r \in Range(ranges) : r.lo <= n /\ n <= r.hi}
<1>1. /\ DOMAIN ranges = 1..Len(ranges) /\ Len(ranges) \in Nat
      /\ \A i \in DOMAIN ranges : ranges[i] \in [lo : Nat, hi : Nat, urls : Seq(STRING)]
  BY LenProperties, ElementOfSeq
<1>2. \A r \in holding : \E i \in places : r = ranges[i]
  BY <1>1 DEF Range
<1>3. \A i \in places : ranges[i] \in holding
  BY <1>1 DEF Range
<1>4. GetRangeEndpoints(ranges, n) = IF places = {} THEN <<>> ELSE ranges[Min(places)].urls
  BY DEF GetRangeEndpoints
<1>5. places \subseteq Nat /\ places \subseteq DOMAIN ranges
  BY <1>1
<1> HIDE DEF places, holding
<1>6. CASE places = {}
  <2>1. <<>> \in Seq(STRING)
    BY EmptySeq
  <2> QED
    BY <1>2, <1>4, <1>6, <2>1 DEF holding
<1>7. CASE places # {}
  <2>1. Min(places) \in places
    BY <1>5, <1>7, MinIsLeast
  <2> QED
    BY <1>1, <1>3, <1>4, <1>5, <1>7, <2>1 DEF holding
<1> QED
  BY <1>6, <1>7

\* The endpoints of a query are those of a registry responsible for it.
LEMMA EndpointsAreResponsible ==
  ASSUME RoutingAssumption, tables \in Tables, NEW q \in RouteQueries \cup {[kind |-> "other"]},
         DetectQueryType(q) # "unknown"
  PROVE  /\ Endpoints(q) \in Seq(STRING)
         /\ \/ Endpoints(q) \in Responsible(q)
            \/ Endpoints(q) = <<>> /\ Responsible(q) = {}
<1>1. CASE DetectQueryType(q) = "domain"
  <2>1. Labels(q) \in Seq(STRING)
    <3>1. CASE q.kind = "labels"
      BY <3>1, QueryKinds DEF Labels
    <3>2. CASE q.kind # "labels"
      <4>1. q.kind = "number" /\ q.prefix \in STRING
        BY <1>1, <3>2 DEF DetectQueryType, RoutingAssumption, RouteQuery
      <4>2. <<q.prefix>> \in Seq(STRING)
        BY <4>1
      <4> QED
        BY <3>2, <4>2 DEF Labels
    <3> QED
      BY <3>1, <3>2
  <2>2. Endpoints(q) = GetDomainEndpoints(Labels(q))
    BY <1>1 DEF Endpoints
  <2> DEFINE known == {s \in DOMAIN tables.dns : s # <<>> /\ IsSuffix(s, Labels(q))}
             longest == {s \in known : \A t \in known : Len(t) <= Len(s)}
  <2>3. Responsible(q) = {tables.dns[s] : s \in longest}
    <3>1. q.kind \notin {"ipv4", "ipv6"}
      BY <1>1 DEF DetectQueryType
    <3> QED
      BY <1>1, <3>1 DEF Responsible
  <2>4. /\ GetDomainEndpoints(Labels(q)) \in Seq(STRING)
        /\ \/ \E s \in longest : GetDomainEndpoints(Labels(q)) = tables.dns[s]
           \/ GetDomainEndpoints(Labels(q)) = <<>> /\ known = {}
    BY <2>1, DomainEndpoints
  <2>5. known = {} => longest = {}
    OBVIOUS
  <2> HIDE DEF known, longest
  <2> QED
    BY <2>2, <2>3, <2>4, <2>5
<1>2. CASE q.kind \in {"ipv4", "ipv6"}
  <2> DEFINE holding == {r \in Range(tables[q.kind]) : r.lo <= q.addr /\ q.addr <= r.hi}
  <2>1. DetectQueryType(q) = q.kind
    BY <1>2 DEF DetectQueryType
  <2>2. Endpoints(q) = GetRangeEndpoints(tables[q.kind], q.addr)
    BY <1>2, <2>1 DEF Endpoints
  <2>3. Responsible(q) = {r.urls : r \in holding}
    BY <1>2, <2>1 DEF Responsible
  <2>4. tables[q.kind] \in Seq([lo : Nat, hi : Nat, urls : Seq(STRING)]) /\ q.addr \in Nat
    BY <1>2, QueryKinds DEF RoutingAssumption
  <2>5. /\ GetRangeEndpoints(tables[q.kind], q.addr) \in Seq(STRING)
        /\ \/ \E r \in holding : GetRangeEndpoints(tables[q.kind], q.addr) = r.urls
           \/ GetRangeEndpoints(tables[q.kind], q.addr) = <<>> /\ holding = {}
    BY <2>4, RangeEndpoints
  <2> HIDE DEF holding
  <2> QED
    BY <2>2, <2>3, <2>5
<1>3. CASE DetectQueryType(q) = "asn"
  <2> DEFINE holding == {r \in Range(tables.asn) : r.lo <= q.n /\ q.n <= r.hi}
  <2>1. q.kind = "number" /\ q.n \in Nat
    BY <1>3, QueryKinds DEF DetectQueryType
  <2>2. tables.asn \in Seq([lo : Nat, hi : Nat, urls : Seq(STRING)])
    BY DEF RoutingAssumption
  <2>3. MaxASN \in Nat
    BY DEF RoutingAssumption
  <2>4. Responsible(q) = {r.urls : r \in {r \in Range(tables.asn) : q.n \in 1..MaxASN /\ r.lo <= q.n /\ q.n <= r.hi}}
    BY <1>3, <2>1 DEF Responsible
  <2>5. Endpoints(q) = IF parseASNNumber(q) = 0 THEN <<>> ELSE GetRangeEndpoints(tables.asn, q.n)
    BY <1>3 DEF Endpoints
  <2>6. parseASNNumber(q) = 0 <=> q.n \notin 1..MaxASN
    BY <2>1, <2>3 DEF parseASNNumber
  <2>7. CASE q.n \notin 1..MaxASN
    <3>1. Responsible(q) = {} /\ Endpoints(q) = <<>>
      BY <2>4, <2>5, <2>6, <2>7
    <3> QED
      BY <3>1, EmptySeq
  <2>8. CASE q.n \in 1..MaxASN
    <3>1. Responsible(q) = {r.urls : r \in holding}
      BY <2>4, <2>8
    <3>2. /\ GetRangeEndpoints(tables.asn, q.n) \in Seq(STRING)
          /\ \/ \E r \in holding : GetRangeEndpoints(tables.asn, q.n) = r.urls
             \/ GetRangeEndpoints(tables.asn, q.n) = <<>> /\ holding = {}
      BY <2>1, <2>2, RangeEndpoints
    <3> HIDE DEF holding
    <3> QED
      BY <2>5, <2>6, <2>8, <3>1, <3>2
  <2> QED
    BY <2>7, <2>8
<1> QED
  BY <1>1, <1>2, <1>3, QueryKinds DEF DetectQueryType

\* A query is taken up with all of its endpoints left, or none.
LEMMA AskKeeps ==
  ASSUME RoutingAssumption, RouteInv, NEW q \in RouteQueries, NEW by \in {"rest", "graphql"},
         Ask(q, by)
  PROVE  RouteInv'
<1>1. /\ tables' = tables /\ tables \in Tables /\ asked' = [q |-> q, by |-> by]
      /\ tried' = <<>> /\ answer' = None
  BY DEF RouteInv, RouteShape, Ask
<1>2. asked'.q = q /\ asked'.by = by
  BY <1>1
<1>3. <<>> \in Seq(STRING) /\ None.source = "none"
  BY EmptySeq DEF None
<1>4. HasData' = HasData /\ Endpoints(q)' = Endpoints(q)
  BY <1>1 DEF HasData, Endpoints, GetDomainEndpoints
<1>5. CASE DetectQueryType(q) = "unknown" \/ (by = "rest" /\ ~ValidateQuery(q))
  <2>1. at' = "refused" /\ left' = <<>>
    BY <1>5 DEF Ask
  <2> QED
    BY <1>1, <1>2, <1>3, <2>1 DEF RouteInv, RouteShape, RouteStages, EndpointsInOrder
<1>6. CASE DetectQueryType(q) # "unknown" /\ (by = "rest" => ValidateQuery(q))
  <2>1. Endpoints(q) \in Seq(STRING)
    BY <1>1, <1>6, EndpointsAreResponsible
  <2>2. CASE by = "graphql" /\ HasData
    <3>1. at' = "rdap" /\ left' = Endpoints(q)
      BY <1>6, <2>2 DEF Ask
    <3>2. tried' \o left' = Endpoints(q)
      BY <1>1, <2>1, <3>1, ConcatEmptySeq
    <3>3. EndpointsInOrder'
      BY <1>2, <1>4, <3>2 DEF EndpointsInOrder, Endpoints
    <3>4. RouteShape' /\ RouteStages'
      BY <1>1, <1>2, <1>3, <1>6, <2>1, <2>2, <3>1 DEF RouteShape, RouteStages
    <3> QED
      BY <1>2, <2>2, <3>1, <3>3, <3>4 DEF RouteInv
  <2>3. CASE ~(by = "graphql" /\ HasData)
    <3>1. at' = "whois" /\ left' = <<>>
      BY <1>6, <2>3 DEF Ask
    <3>2. EndpointsInOrder'
      BY <1>1, <1>2, <1>4, <2>3, <3>1 DEF EndpointsInOrder
    <3>3. RouteShape' /\ RouteStages'
      BY <1>1, <1>2, <1>3, <1>6, <3>1 DEF RouteShape, RouteStages
    <3> QED
      BY <1>2, <1>6, <3>1, <3>2, <3>3 DEF RouteInv, ValidateQuery
  <2> QED
    BY <2>2, <2>3
<1> QED
  BY <1>5, <1>6

\* An endpoint that is tried moves from the ones left to the end of the ones tried.
LEMMA TryKeeps ==
  ASSUME RoutingAssumption, RouteInv, NEW ok \in BOOLEAN, TryEndpoint(ok)
  PROVE  RouteInv'
<1>1. /\ at = "rdap" /\ left # <<>> /\ left \in Seq(STRING) /\ tried \in Seq(STRING)
      /\ tried' = Append(tried, Head(left)) /\ left' = Tail(left)
      /\ tables' = tables /\ asked' = asked /\ answer = None /\ asked.by = "graphql"
      /\ tried \o left = Endpoints(asked.q)
      /\ DetectQueryType(asked.q) # "unknown"
  BY DEF RouteInv, RouteShape, RouteStages, EndpointsInOrder, TryEndpoint
<1>2. HasData' = HasData /\ Endpoints(asked.q)' = Endpoints(asked.q)
  BY <1>1 DEF HasData, Endpoints, GetDomainEndpoints
<1>3. /\ tried' \in Seq(STRING) /\ left' \in Seq(STRING) /\ Head(left) \in STRING
      /\ Len(tried') = Len(tried) + 1 /\ tried'[Len(tried) + 1] = Head(left)
  BY <1>1, HeadTailProperties, AppendProperties
<1>4. tried' # <<>> /\ Last(tried)' = Head(left)
  <2>1. Len(tried) \in Nat /\ Len(<<>>) = 0
    BY <1>1, LenProperties, EmptySeq
  <2> QED
    BY <1>3, <2>1 DEF Last
<1>5. tried' \o left' = tried \o left
  <2> DEFINE h == Head(left)
             r == Tail(left)
  <2>1. /\ h \in STRING /\ r \in Seq(STRING) /\ <<h>> \in Seq(STRING)
        /\ left = <<h>> \o r
    <3>1. Len(left) \in Nat \ {0} /\ h = left[1] /\ h \in STRING /\ r \in Seq(STRING)
            /\ Len(r) = Len(left) - 1 /\ \A i \in 1..Len(r) : r[i] = left[i + 1]
      BY <1>1, HeadTailProperties, EmptySeq
    <3> DEFINE o == <<h>>
    <3>2. o \in Seq(STRING) /\ Len(o) = 1 /\ o[1] = h
      BY <3>1
    <3> HIDE DEF h, r, o
    <3>3. /\ o \o r \in Seq(STRING) /\ Len(o \o r) = 1 + Len(r)
          /\ \A i \in 1..1 + Len(r) : (o \o r)[i] = IF i <= 1 THEN o[i] ELSE r[i - 1]
      <4>1. /\ o \o r \in Seq(STRING) /\ Len(o \o r) = Len(o) + Len(r)
            /\ \A i \in 1..Len(o) + Len(r) :
                 (o \o r)[i] = IF i <= Len(o) THEN o[i] ELSE r[i - Len(o)]
        BY <3>1, <3>2, ConcatProperties
      <4> QED
        BY <3>2, <4>1
    <3>4. \A i \in 1..Len(left) : left[i] = (o \o r)[i]
      <4> TAKE i \in 1..Len(left)
      <4>1. CASE i = 1
        BY <3>1, <3>2, <3>3, <4>1
      <4>2. CASE i # 1
        <5>1. i - 1 \in 1..Len(r) /\ (i - 1) + 1 = i /\ i \in 1..1 + Len(r) /\ ~(i <= 1)
          BY <3>1, <4>2
        <5>2. r[i - 1] = left[(i - 1) + 1] /\ (o \o r)[i] = r[i - 1]
          BY <3>1, <3>3, <5>1
        <5> QED
          BY <5>1, <5>2
      <4> QED
        BY <4>1, <4>2
    <3>5. Len(left) = Len(o \o r)
      BY <3>1, <3>3
    <3>6. left = o \o r
      BY <1>1, <3>3, <3>4, <3>5, SeqEqual
    <3> QED
      BY <3>1, <3>2, <3>6 DEF o
  <2> HIDE DEF h, r
  <2>2. Append(tried, h) = tried \o <<h>>
    BY <1>1, <2>1, AppendIsConcat
  <2>3. (tried \o <<h>>) \o r = tried \o (<<h>> \o r)
    BY <1>1, <2>1, ConcatAssociative
  <2> QED
    BY <1>1, <2>1, <2>2, <2>3 DEF h, r
<1>6. /\ at' \in {"rdap", "answered"}
      /\ at' = "rdap" => answer' = None
      /\ at' = "answered" => answer'.server = Head(left)
  BY <1>1 DEF TryEndpoint
<1>7. RouteShape'
  BY <1>1, <1>3 DEF RouteInv, RouteShape
<1>8. RouteStages'
  BY <1>1, <1>6 DEF RouteStages
<1>9. EndpointsInOrder'
  BY <1>1, <1>2, <1>5 DEF EndpointsInOrder
<1>10. (asked.by = "rest" /\ at \notin {"idle", "refused"} => ValidateQuery(asked.q))'
  BY <1>1
<1> QED
  BY <1>4, <1>6, <1>7, <1>8, <1>9, <1>10 DEF RouteInv

\* Nothing is left for RDAP; WHOIS answers, or fails.
LEMMA WhoisKeeps ==
  ASSUME RoutingAssumption, RouteInv, FallBack \/ (\E ok \in BOOLEAN : AskWHOIS(ok)) \/ UNCHANGED routeVars
  PROVE  RouteInv'
<1>1. /\ tables' = tables /\ asked' = asked /\ left' = left /\ tried' = tried
  BY DEF FallBack, AskWHOIS, routeVars
<1>2. HasData' = HasData /\ Endpoints(asked.q)' = Endpoints(asked.q)
  BY <1>1 DEF HasData, Endpoints, GetDomainEndpoints
<1>3. CASE FallBack
  <2>1. at = "rdap" /\ left = <<>> /\ at' = "whois" /\ answer' = answer
    BY <1>3 DEF FallBack
  <2>2. answer = None /\ asked.by = "graphql" /\ tried \o left = Endpoints(asked.q)
          /\ DetectQueryType(asked.q) # "unknown"
    BY <2>1 DEF RouteInv, RouteStages, EndpointsInOrder
  <2> QED
    BY <1>1, <1>2, <2>1, <2>2 DEF RouteInv, RouteShape, RouteStages, EndpointsInOrder
<1>4. CASE \E ok \in BOOLEAN : AskWHOIS(ok)
  <2>1. at = "whois" /\ at' \in {"answered", "failed"}
    BY <1>4 DEF AskWHOIS
  <2>2. at' = "answered" => answer'.source = "whois"
    BY <1>4 DEF AskWHOIS
  <2>3. DetectQueryType(asked.q) # "unknown" /\ (asked.by = "rest" => ValidateQuery(asked.q))
    BY <2>1 DEF RouteInv, RouteStages
  <2>4. RouteShape' /\ RouteStages'
    BY <1>1, <2>1, <2>3 DEF RouteInv, RouteShape, RouteStages
  <2>5. EndpointsInOrder'
    BY <1>1, <1>2, <2>1 DEF RouteInv, EndpointsInOrder
  <2>6. (asked.by = "rest" /\ at \notin {"idle", "refused"} => ValidateQuery(asked.q))'
    BY <1>1, <2>3
  <2> QED
    BY <2>1, <2>2, <2>4, <2>5, <2>6 DEF RouteInv
<1>5. CASE UNCHANGED routeVars
  BY <1>1, <1>2, <1>5 DEF routeVars, RouteInv, RouteShape, RouteStages, EndpointsInOrder
<1> QED
  BY <1>3, <1>4, <1>5

\* What has been tried and what is left fit the query.
LEMMA RoutesFit == RouteSpec => []RouteInv
<1> USE RoutingAssumption
<1>1. RouteInit => RouteInv
  <2> SUFFICES ASSUME RouteInit PROVE RouteInv
    OBVIOUS
  <2>1. asked.q = [kind |-> "other"] /\ asked.by = "rest"
    BY DEF RouteInit
  <2>2. <<>> \in Seq(STRING)
    BY EmptySeq
  <2> QED
    BY <2>1, <2>2 DEF RouteInit, RouteInv, RouteShape, RouteStages, EndpointsInOrder
<1>2. RouteInv /\ [RouteNext]_routeVars => RouteInv'
  BY AskKeeps, TryKeeps, WhoisKeeps DEF RouteNext
<1> QED
  BY <1>1, <1>2, PTL DEF RouteSpec

\* Every lookup is routed right, whatever the tables hold (Lookup, lookupRDAP,
\* GetDomainEndpoints and its siblings, ValidateQuery): the endpoints tried and left are, in
\* order, those of the longest suffix or of a range that holds the number.
THEOREM RoutesRight == RouteSpec => []RoutingRight
<1> USE RoutingAssumption
<1>1. RouteInv => RoutingRight
  <2> SUFFICES ASSUME RouteInv PROVE RoutingRight
    OBVIOUS
  <2>1. /\ tables \in Tables /\ asked.q \in RouteQueries \cup {[kind |-> "other"]}
        /\ left \in Seq(STRING) /\ tried \in Seq(STRING)
    BY DEF RouteInv, RouteShape
  <2>2. ASSUME DetectQueryType(asked.q) # "unknown"
        PROVE  Endpoints(asked.q) \in Responsible(asked.q)
                 \/ (Endpoints(asked.q) = <<>> /\ Responsible(asked.q) = {})
    BY <2>1, <2>2, EndpointsAreResponsible
  <2>3. ASSUME tried # <<>> PROVE \E urls \in Responsible(asked.q) : tried \o left = urls
    <3>1. tried \o left = Endpoints(asked.q) /\ DetectQueryType(asked.q) # "unknown"
      BY <2>3 DEF RouteInv, EndpointsInOrder, RouteStages
    <3>2. tried \o left # <<>>
      BY <2>1, <2>3, ConcatEqualIffEmpty
    <3> QED
      BY <2>2, <3>1, <3>2
  <2>4. ASSUME at = "whois", asked.by = "graphql", HasData, tried = <<>>
        PROVE  Responsible(asked.q) = {} \/ <<>> \in Responsible(asked.q)
    <3>1. tried \o left = Endpoints(asked.q) /\ DetectQueryType(asked.q) # "unknown" /\ left = <<>>
      BY <2>4 DEF RouteInv, EndpointsInOrder, RouteStages
    <3>2. <<>> \o <<>> = <<>>
      BY <2>1, ConcatEmptySeq, EmptySeq
    <3> QED
      BY <2>2, <2>4, <3>1, <3>2
  <2>5. ASSUME DetectQueryType(asked.q) = "asn", at \notin {"idle", "refused"}, asked.by = "rest"
        PROVE  parseASNNumber(asked.q) # 0
    <3>1. ValidateQuery(asked.q) /\ MaxASN \in Nat
      BY <2>5 DEF RouteInv, RoutingAssumption
    <3>2. asked.q.n \in 1..MaxASN
      BY <2>5, <3>1 DEF ValidateQuery
    <3> QED
      BY <3>1, <3>2 DEF parseASNNumber
  <2> QED
    BY <2>3, <2>4, <2>5 DEF RouteInv, RoutingRight
<1> QED
  BY <1>1, RoutesFit, PTL


(***************************************************************************)
(* ResultParsing, for any values and any length of answer.                 *)
(***************************************************************************)

\* What is typed of a WHOIS answer: sequences of values under the names of its form, and a
\* cut line of one of its kinds.
ParseInv ==
  /\ form \in {"domain", "ip", "asn", "rdap"} /\ read \in Nat
  /\ fields = [f \in FieldsOf(form) |-> fields[f]]
  /\ form # "rdap" => \A f \in FieldsOf(form) : fields[f] \in Seq(Values)
  /\ cut = NoLine \/ (form # "rdap" /\ cut.kind \in Lines(form) /\ cut.value \in Values)

\* What comes of a field at a line: nothing, one value more, or one for a generic name.
Grows(f, old, new) ==
  \/ new = old
  \/ \E v \in Values : new = Append(old, v)
  \/ f \in Organizations(form) /\ old = <<"generic">> /\ \E v \in Values : new = <<v>>

\* A sequence begins itself, and what is appended to it.
LEMMA BeginsWith ==
  ASSUME NEW S, NEW s \in Seq(S), NEW v \in S
  PROVE  IsPrefix(s, s) /\ Append(s, v) \in Seq(S) /\ IsPrefix(s, Append(s, v))
         /\ Range(s) \subseteq Range(Append(s, v))
<1> DEFINE n == Len(s)
           t == Append(s, v)
           p == SubSeq(s, 1, n)
           q == SubSeq(t, 1, n)
<1>1. n \in Nat /\ \A i \in 1..n : s[i] \in S
  BY LenProperties, ElementOfSeq
<1>2. t \in Seq(S) /\ Len(t) = n + 1 /\ \A i \in 1..n : t[i] = s[i]
  BY AppendProperties
<1>3. Range(s) \subseteq Range(t)
  <2>1. t = s \o <<v>> /\ <<v>> \in Seq(S)
    BY AppendIsConcat
  <2>2. Range(s \o <<v>>) = Range(s) \cup Range(<<v>>)
    BY <2>1, RangeConcatenation
  <2> QED
    BY <2>1, <2>2
<1> HIDE DEF n, t
<1>4. p \in Seq(S) /\ Len(p) = n /\ \A i \in 1..n : p[i] = s[i]
  BY <1>1, SubSeqProperties
<1>5. q \in Seq(S) /\ Len(q) = n /\ \A i \in 1..n : q[i] = t[i]
  BY <1>1, <1>2, SubSeqProperties
<1> HIDE DEF p, q
<1>6. p = q
  BY <1>2, <1>4, <1>5, SeqEqual
<1> QED
  BY <1>1, <1>2, <1>3, <1>6 DEF IsPrefix, n, t, p, q

\* The fields of a line, by how the scanner treats them.
LEMMA LineIsOfOneSort ==
  ASSUME form \in {"domain", "ip", "asn"}, NEW kind \in Lines(form)
  PROVE  /\ FieldOf(kind) \in FieldsOf(form) /\ kind # "none"
         /\ \/ kind \in First(form) \cup {"asName"} \/ kind \in Dates(form)
            \/ kind \in Organizations(form) \/ kind \in Lists(form)
         /\ kind \in Organizations(form) => FieldOf(kind) = kind
         /\ kind \in First(form) \cup {"asName"} =>
              kind \notin Dates(form) \cup Organizations(form) \cup Lists(form)
         /\ kind \in Dates(form) => kind \notin Organizations(form) \cup Lists(form)
         /\ kind \in Organizations(form) => kind \notin Lists(form)
<1>1. CASE form = "domain"
  BY <1>1 DEF Lines, FieldOf, FieldsOf, First, Dates, Organizations, Lists
<1>2. CASE form = "ip"
  BY <1>2 DEF Lines, FieldOf, FieldsOf, First, Dates, Organizations, Lists
<1>3. CASE form = "asn"
  BY <1>3 DEF Lines, FieldOf, FieldsOf, First, Dates, Organizations, Lists
<1> QED
  BY <1>1, <1>2, <1>3

\* A line leaves its field as it is, adds to it, or replaces a generic organisation.
LEMMA FoundExtends ==
  ASSUME ParseInv, form # "rdap", NEW kind \in Lines(form), NEW value \in Values
  PROVE  Grows(FieldOf(kind), fields[FieldOf(kind)], Found(kind, value))
<1> DEFINE known == fields[FieldOf(kind)]
           found == Found(kind, value)
<1>1. form \in {"domain", "ip", "asn"} /\ known \in Seq(Values)
  BY LineIsOfOneSort DEF ParseInv
<1>2. Append(<<>>, value) = <<value>>
  OBVIOUS
<1>3. /\ \/ kind \in First(form) \cup {"asName"} \/ kind \in Dates(form)
         \/ kind \in Organizations(form) \/ kind \in Lists(form)
      /\ kind \in Organizations(form) => FieldOf(kind) = kind
      /\ kind \in First(form) \cup {"asName"} =>
           kind \notin Dates(form) \cup Organizations(form) \cup Lists(form)
      /\ kind \in Dates(form) => kind \notin Organizations(form) \cup Lists(form)
      /\ kind \in Organizations(form) => kind \notin Lists(form)
  BY <1>1, LineIsOfOneSort
<1>4. CASE kind \in First(form) \cup {"asName"}
  <2>1. found = IF known = <<>> THEN <<value>> ELSE known
    BY <1>3, <1>4 DEF Found
  <2> HIDE DEF known, found
  <2>2. found = known \/ found = Append(known, value)
    BY <1>2, <2>1
  <2> QED
    BY <2>2 DEF Grows, known, found
<1>5. CASE kind \in Dates(form)
  <2>1. found = IF known = <<>> /\ value # "unparsable" THEN <<value>> ELSE known
    BY <1>3, <1>5 DEF Found
  <2> HIDE DEF known, found
  <2>2. found = known \/ found = Append(known, value)
    BY <1>2, <2>1
  <2> QED
    BY <2>2 DEF Grows, known, found
<1>6. CASE kind \in Organizations(form)
  <2>1. found = IF Empty(known) /\ value # "generic" THEN <<value>> ELSE known
    BY <1>3, <1>6 DEF Found
  <2> HIDE DEF known, found
  <2>2. FieldOf(kind) \in Organizations(form)
    BY <1>3, <1>6
  <2> QED
    BY <1>2, <2>1, <2>2 DEF Grows, Empty, known, found
<1>7. CASE kind \in Lists(form)
  <2>1. found = IF value \in Range(known) THEN known ELSE Append(known, value)
    BY <1>3, <1>7 DEF Found
  <2> HIDE DEF known, found
  <2> QED
    BY <2>1 DEF Grows, known, found
<1> QED
  BY <1>3, <1>4, <1>5, <1>6, <1>7

\* So it stays what it is, of values, and other fields are as they were.
LEMMA WithExtends ==
  ASSUME ParseInv, form # "rdap", NEW kind \in Lines(form), NEW value \in Values
  PROVE  LET w == Filled(kind, value) IN
         /\ w = [f \in FieldsOf(form) |-> w[f]] /\ \A f \in FieldsOf(form) : w[f] \in Seq(Values)
         /\ \A f \in FieldsOf(form) : f # FieldOf(kind) => w[f] = fields[f]
         /\ \A f \in FieldsOf(form) :
              \/ IsPrefix(fields[f], w[f]) /\ Range(fields[f]) \subseteq Range(w[f])
              \/ f \in Organizations(form) /\ fields[f] = <<"generic">>
<1> DEFINE w == Filled(kind, value)
           g == FieldOf(kind)
<1>1. /\ form \in {"domain", "ip", "asn"} /\ fields = [f \in FieldsOf(form) |-> fields[f]]
      /\ \A f \in FieldsOf(form) : fields[f] \in Seq(Values)
      /\ g \in FieldsOf(form)
  BY LineIsOfOneSort DEF ParseInv
<1>2. /\ w = [f \in FieldsOf(form) |-> w[f]] /\ w[g] = Found(kind, value)
      /\ \A f \in FieldsOf(form) : f # g => w[f] = fields[f]
  BY <1>1 DEF Filled
<1>3. Grows(g, fields[g], w[g])
  BY <1>2, FoundExtends
<1> HIDE DEF w, g
<1>4. /\ w[g] \in Seq(Values)
      /\ \/ IsPrefix(fields[g], w[g]) /\ Range(fields[g]) \subseteq Range(w[g])
         \/ g \in Organizations(form) /\ fields[g] = <<"generic">>
  <2>1. fields[g] \in Seq(Values)
    BY <1>1
  <2>2. IsPrefix(fields[g], fields[g])
    BY <2>1, BeginsWith DEF Values
  <2>3. ASSUME NEW v \in Values
        PROVE  /\ Append(fields[g], v) \in Seq(Values) /\ IsPrefix(fields[g], Append(fields[g], v))
               /\ Range(fields[g]) \subseteq Range(Append(fields[g], v)) /\ <<v>> \in Seq(Values)
    BY <2>1, BeginsWith
  <2> QED
    BY <1>3, <2>1, <2>2, <2>3 DEF Grows
<1>5. \A f \in FieldsOf(form) : IsPrefix(fields[f], fields[f])
  BY <1>1, BeginsWith DEF Values
<1> QED
  BY <1>1, <1>2, <1>4, <1>5 DEF w, g

\* A line, whole or cut: of what was sure before, the answer says at least that.
LEMMA LineAdds ==
  ASSUME ParseInv, NEW kind \in Lines(form), NEW value \in Values,
         Line(kind, value) \/ CutLine(kind, value)
  PROVE  /\ ParseInv'
         /\ \E g \in DOMAIN fields :
              LET sure == [Says EXCEPT ![g] = fields[g]] IN
              /\ \A f \in DOMAIN fields :
                   \/ IsPrefix(sure[f], Says'[f])
                   \/ f \in Organizations(form) /\ sure[f] = <<"generic">>
              /\ form = "ip" => Range(AbuseContact(sure)) \subseteq Range(AbuseContact(Says'))
<1> DEFINE w == Filled(kind, value)
           g == FieldOf(kind)
           sure == [Says EXCEPT ![g] = fields[g]]
<1>1. /\ form \in {"domain", "ip", "asn"} /\ form # "rdap" /\ form' = form
      /\ fields = [f \in FieldsOf(form) |-> fields[f]] /\ read \in Nat /\ read' \in Nat
      /\ \A f \in FieldsOf(form) : fields[f] \in Seq(Values)
      /\ g \in FieldsOf(form) /\ kind # "none"
  BY LineIsOfOneSort DEF ParseInv, Line, CutLine
<1>2. /\ w = [f \in FieldsOf(form) |-> w[f]] /\ \A f \in FieldsOf(form) : w[f] \in Seq(Values)
      /\ \A f \in FieldsOf(form) : f # g => w[f] = fields[f]
      /\ \A f \in FieldsOf(form) :
           \/ IsPrefix(fields[f], w[f]) /\ Range(fields[f]) \subseteq Range(w[f])
           \/ f \in Organizations(form) /\ fields[f] = <<"generic">>
  BY <1>1, WithExtends
<1>3. sure = fields
  <2>1. CASE cut = NoLine
    <3>1. sure = [fields EXCEPT ![g] = fields[g]]
      BY <2>1 DEF Says
    <3> HIDE DEF g
    <3> QED
      BY <1>1, <3>1
  <2>2. CASE cut # NoLine
    <3>1. cut.kind = kind /\ cut.value \in Values
      BY <2>2 DEF ParseInv, Line, CutLine
    <3>2. Says = Filled(kind, cut.value)
      BY <2>2, <3>1 DEF Says
    <3>3. Says = [f \in FieldsOf(form) |-> Says[f]] /\ \A f \in FieldsOf(form) : f # g => Says[f] = fields[f]
      BY <1>1, <3>1, <3>2, WithExtends
    <3>5. sure = [f \in FieldsOf(form) |-> IF f = g THEN fields[g] ELSE Says[f]]
      BY <1>1, <3>3
    <3>6. \A f \in FieldsOf(form) : (IF f = g THEN fields[g] ELSE Says[f]) = fields[f]
      BY <3>3
    <3> HIDE DEF sure, g
    <3> QED
      BY <1>1, <3>5, <3>6
  <2> QED
    BY <2>1, <2>2
<1>4. Says' = w
  <2>1. CASE Line(kind, value)
    BY <2>1 DEF Line, Says
  <2>2. CASE CutLine(kind, value)
    <3>1. cut' = [kind |-> kind, value |-> value] /\ fields' = fields /\ form' = form
      BY <2>2 DEF CutLine
    <3>2. cut' # NoLine /\ cut'.kind = kind /\ cut'.value = value
      BY <1>1, <3>1 DEF NoLine
    <3>3. Filled(kind, value)' = Filled(kind, value)
      BY <3>1 DEF Filled, Found
    <3> QED
      BY <3>2, <3>3 DEF Says
  <2> QED
    BY <2>1, <2>2
<1>5. ParseInv'
  <2>1. FieldsOf(form)' = FieldsOf(form) /\ Lines(form)' = Lines(form) /\ form' # "rdap"
    BY <1>1
  <2>2. CASE Line(kind, value)
    <3>1. fields' = w /\ cut' = NoLine
      BY <2>2 DEF Line
    <3> HIDE DEF w
    <3> QED
      BY <1>1, <1>2, <2>1, <3>1 DEF ParseInv
  <2>3. CASE CutLine(kind, value)
    <3>1. fields' = fields /\ cut'.kind \in Lines(form) /\ cut'.value \in Values
      BY <2>3 DEF CutLine
    <3> QED
      BY <1>1, <2>1, <3>1 DEF ParseInv
  <2> QED
    BY <2>2, <2>3
<1> HIDE DEF w, g, sure
<1>6. form = "ip" => Range(AbuseContact(fields)) \subseteq Range(AbuseContact(w))
  <2> SUFFICES ASSUME form = "ip" PROVE Range(AbuseContact(fields)) \subseteq Range(AbuseContact(w))
    OBVIOUS
  <2>1. /\ {"abuseEmail", "abusePhone"} \subseteq FieldsOf(form)
        /\ "abuseEmail" \notin Organizations(form) /\ "abusePhone" \notin Organizations(form)
    BY DEF FieldsOf, First, Organizations
  <2>2. /\ Range(fields["abuseEmail"]) \subseteq Range(w["abuseEmail"])
        /\ Range(fields["abusePhone"]) \subseteq Range(w["abusePhone"])
    BY <1>2, <2>1
  <2>3. /\ fields["abuseEmail"] \in Seq(Values) /\ fields["abusePhone"] \in Seq(Values)
        /\ w["abuseEmail"] \in Seq(Values) /\ w["abusePhone"] \in Seq(Values)
    BY <1>1, <1>2, <2>1
  <2> QED
    BY <2>2, <2>3, RangeConcatenation DEF AbuseContact
<1>7. \A f \in DOMAIN fields : \/ IsPrefix(sure[f], Says'[f])
                               \/ f \in Organizations(form) /\ sure[f] = <<"generic">>
  BY <1>1, <1>2, <1>3, <1>4
<1>8. form = "ip" => Range(AbuseContact(sure)) \subseteq Range(AbuseContact(Says'))
  BY <1>3, <1>4, <1>6
<1> QED
  BY <1>1, <1>5, <1>7, <1>8 DEF sure

\* A line that is no such field after all takes back what it said alone.
LEMMA MismatchKeeps ==
  ASSUME ParseInv, Mismatch
  PROVE  /\ ParseInv'
         /\ \E g \in DOMAIN fields :
              LET sure == [Says EXCEPT ![g] = fields[g]] IN
              /\ \A f \in DOMAIN fields :
                   \/ IsPrefix(sure[f], Says'[f])
                   \/ f \in Organizations(form) /\ sure[f] = <<"generic">>
              /\ form = "ip" => Range(AbuseContact(sure)) \subseteq Range(AbuseContact(Says'))
<1> DEFINE g == FieldOf(cut.kind)
           sure == [Says EXCEPT ![g] = fields[g]]
<1>1. /\ form \in {"ip", "asn"} /\ form # "rdap" /\ cut # NoLine
      /\ fields = [f \in FieldsOf(form) |-> fields[f]]
      /\ \A f \in FieldsOf(form) : fields[f] \in Seq(Values)
      /\ cut.kind \in Lines(form) /\ cut.value \in Values
  BY DEF ParseInv, Mismatch, First, NoLine
<1>2. g \in FieldsOf(form)
  BY <1>1, LineIsOfOneSort
<1>3. /\ Says = [f \in FieldsOf(form) |-> Says[f]]
      /\ \A f \in FieldsOf(form) : f # g => Says[f] = fields[f]
  BY <1>1, WithExtends DEF Says
<1> HIDE DEF g
<1>4. sure = fields
  <2>1. sure = [f \in FieldsOf(form) |-> IF f = g THEN fields[g] ELSE Says[f]]
    BY <1>2, <1>3
  <2>2. \A f \in FieldsOf(form) : (IF f = g THEN fields[g] ELSE Says[f]) = fields[f]
    BY <1>3
  <2> HIDE DEF sure
  <2> QED
    BY <1>1, <2>1, <2>2
<1>5. Says' = fields
  BY DEF Mismatch, Says
<1>6. \A f \in FieldsOf(form) : IsPrefix(fields[f], fields[f])
  BY <1>1, BeginsWith DEF Values
<1>7. ParseInv'
  <2>1. form' = form /\ fields' = fields /\ cut' = NoLine
    BY DEF Mismatch
  <2>2. read' \in Nat
    BY DEF ParseInv, Mismatch
  <2> QED
    BY <2>1, <2>2 DEF ParseInv
<1> HIDE DEF sure
<1> QED
  BY <1>1, <1>2, <1>4, <1>5, <1>6, <1>7 DEF sure

\* An answer that starts has nothing; an RDAP answer has other fields.
LEMMA AnswerStarts ==
  ASSUME NextAnswer
  PROVE  ParseInv' /\ read' = 0 /\ cut' = NoLine
<1>1. \A f \in FieldsOf(form') : fields'[f] = <<>> /\ <<>> \in Seq(Values)
  BY EmptySeq DEF NextAnswer
<1> QED
  BY <1>1 DEF NextAnswer, ParseInv, FieldsOf

LEMMA EntityKeeps ==
  ASSUME ParseInv, NEW roles, NEW has, parseEntity(roles, has)
  PROVE  ParseInv' /\ form = "rdap"
<1>1. cut = NoLine /\ cut' = cut
  BY DEF ParseInv, parseEntity
<1> QED
  BY <1>1 DEF ParseInv, parseEntity, FieldsOf

\* A step on which an answer grows adds to it.
GrowthAdds ==
  form # "rdap" /\ (read' > read \/ cut' # NoLine) =>
    \E g \in DOMAIN fields :
      LET sure == [Says EXCEPT ![g] = fields[g]] IN
      /\ \A f \in DOMAIN fields :
           \/ IsPrefix(sure[f], Says'[f])
           \/ f \in Organizations(form) /\ sure[f] = <<"generic">>
      /\ form = "ip" => Range(AbuseContact(sure)) \subseteq Range(AbuseContact(Says'))

LEMMA ParseStep ==
  ASSUME ParseInv, ParseNext
  PROVE  ParseInv' /\ GrowthAdds
<1>1. read \in Nat
  BY DEF ParseInv
<1>2. CASE NextAnswer
  BY <1>1, <1>2, AnswerStarts DEF GrowthAdds
<1>3. CASE \E kind \in Lines(form), value \in Values : Line(kind, value) \/ CutLine(kind, value)
  BY <1>3, LineAdds DEF GrowthAdds
<1>4. CASE \E roles \in SUBSET {"registrant", "registrar"}, has \in SUBSET {"name", "org", "email", "id"} :
             parseEntity(roles, has)
  BY <1>4, EntityKeeps DEF GrowthAdds
<1>5. CASE Mismatch
  BY <1>5, MismatchKeeps DEF GrowthAdds
<1> QED
  BY <1>2, <1>3, <1>4, <1>5 DEF ParseNext

\* The fields hold sequences.
LEMMA FieldsAreTyped == ParseSpec => []ParseInv
<1>1. ParseInit => ParseInv
  <2> SUFFICES ASSUME ParseInit PROVE ParseInv
    OBVIOUS
  <2>1. /\ form = "domain" /\ read = 0 /\ cut = NoLine
        /\ \A f \in FieldsOf(form) : fields[f] = <<>> /\ <<>> \in Seq(Values)
    BY EmptySeq DEF ParseInit
  <2> QED
    BY <2>1 DEF ParseInit, ParseInv
<1>2. ParseInv /\ [ParseNext]_parseVars => ParseInv'
  <2>1. ParseInv /\ UNCHANGED parseVars => ParseInv'
    BY DEF ParseInv, parseVars
  <2> QED
    BY <2>1, ParseStep
<1> QED
  BY <1>1, <1>2, PTL DEF ParseSpec

\* However much of a WHOIS answer is read, and wherever in a line the Read ends, what has
\* been found stays, but for the last value of the line that was cut (ParseDomain, ParseIP,
\* ParseASN behind the one Read of tcpQuery).
THEOREM PartialIsPrefix == ParseSpec => TruncatedSaysLess
<1>1. ParseInv /\ [ParseNext]_parseVars => [GrowthAdds]_parseVars
  BY ParseStep
<1> QED
  BY <1>1, FieldsAreTyped, PTL DEF ParseSpec, TruncatedSaysLess, GrowthAdds


(***************************************************************************)
(* OwnerSearch, for any records, page size and provider.                   *)
(***************************************************************************)

\* The records before one of the owner's in the order of the pages, and its place.
Before(q) ==
  {r \in Matching : row[r].seen > row[q].seen \/ (row[r].seen = row[q].seen /\ r < q)}
Place(q) == Cardinality(Before(q)) + 1

\* What the client has to be shown.
Standing == Matching \ touched

ClientRecord == [at : {"idle", "search", "count", "next", "done"}, page : Nat,
                 shown : SUBSET (Rows \cup Provided), local : SUBSET Rows, pages : Int]

SearchShape ==
  /\ row \in [Rows -> [seen : Nat, owned : BOOLEAN]]
  /\ clock \in Nat
  /\ search \in ClientRecord
  /\ search.at \in {"search", "count", "next"} => search.page > 0
  /\ receded \in BOOLEAN

\* The standing records on the first n pages have been shown, or are about to be.
ShownUpTo(n) ==
  \A q \in Standing : Place(q) <= n * PageSize => q \in search.shown \cup search.local

\* How far the client has come.
PagesRead ==
  ~receded =>
    /\ search.at = "search" => ShownUpTo(search.page - 1) /\ search.local = {}
    /\ search.at = "count" => ShownUpTo(search.page)
    /\ search.at = "next" => ShownUpTo(search.page) /\ search.local = {}
    /\ search.at = "done" => Standing \subseteq search.shown

\* A first page without records was read when no record stood.
EmptyIsEmpty ==
  search.at = "count" /\ search.page = 1 /\ search.local = {} => Standing = {}

SearchInv == SearchShape /\ PagesRead /\ EmptyIsEmpty

\* Places are numbers, and none is past the last.
LEMMA PlaceBounds ==
  ASSUME OwnerSearchAssumption, SearchShape, NEW q \in Matching
  PROVE  /\ IsFiniteSet(Matching) /\ IsFiniteSet(Before(q))
         /\ Place(q) \in Nat /\ Cardinality(Matching) \in Nat
         /\ Place(q) >= 1 /\ Place(q) <= Cardinality(Matching)
<1>1. IsFiniteSet(Matching) /\ Cardinality(Matching) \in Nat
  <2>1. Matching \subseteq Rows /\ IsFiniteSet(Rows)
    BY DEF Matching, OwnerSearchAssumption
  <2> QED
    BY <2>1, FS_Subset, FS_CardinalityType
<1>2. q \in Rows /\ q \in Nat /\ row[q].seen \in Nat
  BY DEF Matching, OwnerSearchAssumption, SearchShape
<1>3. Before(q) \subseteq Matching \ {q}
  BY <1>2 DEF Before
<1>4. IsFiniteSet(Matching \ {q}) /\ Cardinality(Matching \ {q}) = Cardinality(Matching) - 1
  BY <1>1, FS_RemoveElement
<1>5. IsFiniteSet(Before(q)) /\ Cardinality(Before(q)) <= Cardinality(Matching \ {q})
        /\ Cardinality(Before(q)) \in Nat
  BY <1>3, <1>4, FS_Subset, FS_CardinalityType
<1> QED
  BY <1>1, <1>4, <1>5 DEF Place

\* The order of the pages has no cycle.
LEMMA BeforeIsTransitive ==
  ASSUME OwnerSearchAssumption, SearchShape, NEW q \in Matching, NEW r \in Before(q)
  PROVE  r \in Matching /\ Before(r) \subseteq Before(q) /\ r \notin Before(r)
<1>1. /\ Matching \subseteq Rows /\ \A p \in Matching : p \in Nat /\ row[p].seen \in Nat
  BY DEF Matching, OwnerSearchAssumption, SearchShape
<1> QED
  BY <1>1 DEF Before

\* A record of the owner comes first, when there is one: the one with the fewest before it.
LEMMA SomeoneIsFirst ==
  ASSUME OwnerSearchAssumption, SearchShape, Matching # {}
  PROVE  \E q \in Matching : Place(q) = 1
<1> DEFINE U == {Before(q) : q \in Matching}
<1>1. \A q \in Matching : Before(q) \in FiniteSubsetsOf(Rows)
  BY PlaceBounds DEF FiniteSubsetsOf, Before, Matching
<1>2. PICK q \in Matching : \A r \in Matching : ~ (<<Before(r), Before(q)>> \in StrictSubsetOrdering(Rows))
  <2>1. U \subseteq FiniteSubsetsOf(Rows) /\ U # {}
    BY <1>1
  <2>2. PICK s \in U : \A r \in U : ~ (<<r, s>> \in StrictSubsetOrdering(Rows))
    BY <2>1, FS_StrictSubsetOrderingWellFounded, WFMin
  <2> QED
    BY <2>2
<1>3. Before(q) = {}
  <2>1. SUFFICES ASSUME NEW r \in Before(q) PROVE FALSE
    OBVIOUS
  <2>2. r \in Matching /\ Before(r) \subseteq Before(q) /\ Before(r) # Before(q)
    BY BeforeIsTransitive
  <2>3. <<Before(r), Before(q)>> \in StrictSubsetOrdering(Rows)
    BY <1>1, <2>2 DEF StrictSubsetOrdering, FiniteSubsetsOf
  <2> QED
    BY <1>2, <2>2, <2>3
<1>4. Place(q) = 1
  BY <1>3, FS_EmptySet DEF Place
<1> QED
  BY <1>4

\* The last page holds the last record.
LEMMA LastPageIsEnough ==
  ASSUME OwnerSearchAssumption, NEW total \in Nat, NEW page \in Nat, ~ (page < Pages(total))
  PROVE  total <= page * PageSize
<1> DEFINE P == PageSize
<1>1. P \in Nat \ {0}
  BY DEF OwnerSearchAssumption
<1> HIDE DEF P
<1>2. ASSUME NEW t \in Nat, page * P < t PROVE page < (t + P - 1) \div P
  <2>1. page * P \in Nat /\ (page + 1) * P = page * P + P
    BY <1>1
  <2>2. t + P - 1 >= (page + 1) * P
    BY <1>1, <1>2, <2>1
  <2> DEFINE x == t + P - 1
  <2>3. x \in Nat /\ x >= (page + 1) * P
    BY <1>1, <2>2
  <2> HIDE DEF x
  <2>4. x \div P \in Nat /\ x < P * ((x \div P) + 1)
    BY <1>1, <2>3
  <2>5. SUFFICES ASSUME x \div P <= page PROVE FALSE
    BY <2>4 DEF x
  <2>6. P * ((x \div P) + 1) <= P * (page + 1)
    BY <1>1, <2>4, <2>5
  <2> QED
    BY <1>1, <2>3, <2>4, <2>6
<1> QED
  BY <1>1, <1>2 DEF Pages, P

\* A record that stands keeps its time, and none of those before it goes behind it while
\* none recedes: places only grow.
LEMMA PlacesOnlyGrow ==
  ASSUME OwnerSearchAssumption, SearchShape, NEW q \in Rows, NEW owned \in BOOLEAN,
         NEW stamp \in Nat, Upsert(q, owned, stamp), ~receded', NEW r \in Standing'
  PROVE  r \in Standing /\ Place(r) <= Place(r)' /\ Place(r) \in Nat /\ Place(r)' \in Nat
<1>1. /\ row \in [Rows -> [seen : Nat, owned : BOOLEAN]]
      /\ row' = [row EXCEPT ![q] = [seen |-> stamp, owned |-> owned]]
      /\ touched' = touched \cup {q}
      /\ ~receded
      /\ row[q].owned => owned /\ stamp >= row[q].seen
  BY DEF SearchShape, Upsert
<1>2. r \in Standing /\ r # q /\ r \in Rows /\ row'[r] = row[r] /\ r \in Matching
  BY <1>1 DEF Standing, Matching
<1>3. \A p \in Rows : p # q => row'[p] = row[p]
  BY <1>1
<1>4. row'[q].seen = stamp /\ row'[q].owned = owned
  BY <1>1
<1>5. Before(r) \subseteq Before(r)'
  <2>1. SUFFICES ASSUME NEW p \in Before(r) PROVE p \in Before(r)'
    OBVIOUS
  <2>2. p \in Rows /\ row[p].owned /\ (row[p].seen > row[r].seen \/ (row[p].seen = row[r].seen /\ p < r))
    BY DEF Before, Matching
  <2>3. row[p].seen \in Nat /\ row[r].seen \in Nat
    BY <1>1, <1>2, <2>2
  <2>4. row'[p].owned /\ row'[p].seen >= row[p].seen /\ row'[p].seen \in Nat
    BY <1>1, <1>3, <1>4, <2>2, <2>3
  <2> QED
    BY <1>2, <2>2, <2>3, <2>4 DEF Before, Matching
<1>6. IsFiniteSet(Before(r)') /\ IsFiniteSet(Before(r))
  <2>1. Before(r)' \subseteq Rows /\ Before(r) \subseteq Rows
    BY DEF Before, Matching
  <2> QED
    BY <2>1, FS_Subset DEF OwnerSearchAssumption
<1>7. /\ Cardinality(Before(r)) <= Cardinality(Before(r)')
      /\ Cardinality(Before(r)) \in Nat /\ Cardinality(Before(r)') \in Nat
  BY <1>5, <1>6, FS_Subset, FS_CardinalityType
<1> QED
  BY <1>2, <1>7 DEF Place

\* An upsert takes records out of what stands and moves the rest towards later pages.
LEMMA UpsertKeeps ==
  ASSUME OwnerSearchAssumption, SearchInv, NEW q \in Rows, NEW owned \in BOOLEAN,
         NEW stamp \in Nat, Upsert(q, owned, stamp)
  PROVE  SearchInv'
<1>1. /\ SearchShape /\ PagesRead /\ EmptyIsEmpty
      /\ search' = search /\ clock' = clock
      /\ row' = [row EXCEPT ![q] = [seen |-> stamp, owned |-> owned]]
      /\ touched' = touched \cup {q}
  BY DEF SearchInv, Upsert
<1>2. SearchShape'
  <2>1. row' \in [Rows -> [seen : Nat, owned : BOOLEAN]]
    BY <1>1 DEF SearchShape
  <2>2. receded' \in BOOLEAN
    BY DEF Upsert, SearchInv, SearchShape
  <2> QED
    BY <1>1, <2>1, <2>2 DEF SearchShape
<1>3. Standing' \subseteq Standing
  BY <1>1 DEF Standing, Matching, SearchShape
<1>4. EmptyIsEmpty'
  BY <1>1, <1>3 DEF EmptyIsEmpty
<1>5. ASSUME ~receded', NEW n \in Nat, ShownUpTo(n) PROVE ShownUpTo(n)'
  <2>1. SUFFICES ASSUME NEW r \in Standing', Place(r)' <= n * PageSize
                 PROVE  r \in search.shown \cup search.local
    BY <1>1 DEF ShownUpTo
  <2>2. r \in Standing /\ Place(r) <= Place(r)' /\ Place(r) \in Nat /\ Place(r)' \in Nat
    BY <1>1, <1>5, PlacesOnlyGrow
  <2>3. n * PageSize \in Nat
    BY DEF OwnerSearchAssumption
  <2>4. Place(r) <= n * PageSize
    BY <2>1, <2>2, <2>3
  <2> QED
    BY <1>5, <2>2, <2>4 DEF ShownUpTo
<1>6. PagesRead'
  <2>1. SUFFICES ASSUME ~receded' PROVE PagesRead'
    BY DEF PagesRead
  <2>2. ~receded
    BY <2>1 DEF Upsert
  <2>3. search \in ClientRecord /\ (search.at \in {"search", "count", "next"} => search.page > 0)
    BY <1>1 DEF SearchShape
  <2>4. search.page \in Nat /\ (search.at = "search" => search.page - 1 \in Nat)
    BY <2>3 DEF ClientRecord
  <2> QED
    BY <1>1, <1>3, <1>5, <2>1, <2>2, <2>4 DEF PagesRead
<1> QED
  BY <1>2, <1>4, <1>6 DEF SearchInv

\* The place of a record is its row's and the others', and no concern of the client's.
LEMMA RowsDecide ==
  ASSUME row' = row
  PROVE  /\ Matching' = Matching
         /\ \A q : Before(q)' = Before(q) /\ Place(q)' = Place(q)
         /\ touched' = touched => Standing' = Standing
<1>1. Matching' = Matching
  BY DEF Matching
<1>2. \A q : Before(q)' = Before(q)
  BY <1>1 DEF Before
<1> QED
  BY <1>1, <1>2 DEF Place, Standing

\* A page holds the records with its places; the first holds one, when there is one.
LEMMA SearchKeeps ==
  ASSUME OwnerSearchAssumption, SearchInv, SearchRecords
  PROVE  SearchInv'
<1> DEFINE off == (search.page - 1) * PageSize
           found == SearchByOwner(PageSize, off)
<1>1. /\ SearchShape /\ PagesRead /\ search.at = "search" /\ search \in ClientRecord
      /\ search.page \in Nat /\ search.page > 0
      /\ search' = [search EXCEPT !.at = "count", !.local = found]
      /\ row' = row /\ clock' = clock /\ touched' = touched /\ receded' = receded
  BY DEF SearchInv, SearchShape, SearchRecords, ClientRecord
<1>2. found = {q \in Matching : Place(q) \in (off + 1)..(off + PageSize)}
  BY DEF SearchByOwner, Place, Before
<1>3. PageSize \in Nat \ {0} /\ off \in Nat /\ off + PageSize = search.page * PageSize
  BY <1>1 DEF OwnerSearchAssumption
<1>4. found \subseteq Rows
  BY <1>2 DEF Matching
<1> HIDE DEF found
<1>5. /\ search' \in ClientRecord /\ search'.at = "count" /\ search'.local = found
      /\ search'.page = search.page /\ search'.shown = search.shown
  BY <1>1, <1>4 DEF ClientRecord
<1>6. SearchShape'
  BY <1>1, <1>5 DEF SearchShape
<1>7. EmptyIsEmpty'
  <2>1. SUFFICES ASSUME search.page = 1, found = {} PROVE Matching = {}
    BY <1>1, <1>5, RowsDecide DEF EmptyIsEmpty, Standing
  <2>2. off = 0
    BY <1>3, <2>1 DEF OwnerSearchAssumption
  <2>3. ~ \E q \in Matching : Place(q) = 1
    BY <1>2, <1>3, <2>1, <2>2
  <2> QED
    BY <1>1, <2>3, SomeoneIsFirst
<1>8. PagesRead'
  <2>1. SUFFICES ASSUME ~receded PROVE ShownUpTo(search.page)'
    BY <1>1, <1>5 DEF PagesRead
  <2>2. SUFFICES ASSUME NEW q \in Standing, Place(q) <= search.page * PageSize
                 PROVE  q \in search.shown \cup found
    BY <1>1, <1>5, RowsDecide DEF ShownUpTo
  <2>3. q \in Matching /\ Place(q) \in Nat
    BY <1>1, PlaceBounds DEF Standing
  <2>4. CASE Place(q) <= off
    <3>1. ShownUpTo(search.page - 1) /\ search.local = {}
      BY <1>1, <2>1 DEF PagesRead
    <3> QED
      BY <2>2, <2>4, <3>1 DEF ShownUpTo
  <2>5. CASE Place(q) > off
    <3>1. Place(q) \in (off + 1)..(off + PageSize)
      BY <1>3, <2>2, <2>3, <2>5
    <3> QED
      BY <1>2, <2>3, <3>1
  <2> QED
    BY <1>3, <2>3, <2>4, <2>5
<1> QED
  BY <1>6, <1>7, <1>8 DEF SearchInv

\* The count ends the search on the last page of what is there.
LEMMA CountKeeps ==
  ASSUME OwnerSearchAssumption, SearchInv, NEW counted \in BOOLEAN, NEW reached \in BOOLEAN,
         CountRecords(counted, reached)
  PROVE  SearchInv'
<1> DEFINE asks == search.local = {} /\ search.page = 1 /\ reached
           external == IF asks THEN Provided ELSE {}
           total == CASE asks -> Cardinality(external)
                      [] ~asks /\ counted -> CountByOwner
                      [] OTHER -> Cardinality(search.local)
           arrived == IF search.page < Pages(total) THEN "next" ELSE "done"
           shown == search.shown \cup search.local \cup external
<1>1. /\ SearchShape /\ PagesRead /\ EmptyIsEmpty /\ search.at = "count" /\ search \in ClientRecord
      /\ search.page \in Nat /\ search.page > 0
      /\ row' = row /\ clock' = clock /\ touched' = touched
      /\ receded' = (receded \/ ~counted)
  BY DEF SearchInv, SearchShape, CountRecords, ClientRecord
<1>2. search' = [search EXCEPT !.shown = shown, !.local = {}, !.pages = Pages(total), !.at = arrived]
  BY <1>1 DEF CountRecords, ClientRecord
<1>3. total \in Nat
  <2>1. IsFiniteSet(search.local)
    BY <1>1, FS_Subset DEF ClientRecord, OwnerSearchAssumption
  <2>2. IsFiniteSet(Matching) /\ IsFiniteSet(external)
    <3>1. Matching \subseteq Rows
      BY DEF Matching
    <3> QED
      BY <3>1, FS_Subset, FS_EmptySet DEF OwnerSearchAssumption
  <2>3. Cardinality(search.local) \in Nat /\ Cardinality(Matching) \in Nat /\ Cardinality(external) \in Nat
    BY <2>1, <2>2, FS_CardinalityType
  <2> QED
    BY <2>3 DEF CountByOwner
<1>4. shown \subseteq Rows \cup Provided
  BY <1>1 DEF ClientRecord
<1>5. Pages(total) \in Int
  BY <1>3 DEF Pages, OwnerSearchAssumption
<1>6. ~counted \/ asks \/ total = Cardinality(Matching)
  BY DEF CountByOwner
<1>7. asks => Standing = {}
  BY <1>1 DEF EmptyIsEmpty
<1>8. search.shown \cup search.local \subseteq shown
  OBVIOUS
<1>9. arrived \in {"next", "done"} /\ (arrived = "done" => ~ (search.page < Pages(total)))
  OBVIOUS
<1> HIDE DEF total, arrived, shown, external, asks
<1>10. /\ search' \in ClientRecord /\ search'.at = arrived /\ search'.shown = shown
       /\ search'.local = {} /\ search'.page = search.page
  BY <1>1, <1>2, <1>4, <1>5, <1>9 DEF ClientRecord
<1>11. SearchShape'
  BY <1>1, <1>9, <1>10 DEF SearchShape
<1>12. EmptyIsEmpty'
  BY <1>9, <1>10 DEF EmptyIsEmpty
<1>13. PagesRead'
  <2>1. SUFFICES ASSUME ~receded, counted PROVE PagesRead'
    BY <1>1 DEF PagesRead
  <2>2. ShownUpTo(search.page)
    BY <1>1, <2>1 DEF PagesRead
  <2>3. ShownUpTo(search.page)'
    BY <1>1, <1>8, <1>10, <2>2, RowsDecide DEF ShownUpTo
  <2>4. ASSUME arrived = "done" PROVE Standing \subseteq shown
    <3>1. SUFFICES ASSUME NEW q \in Standing PROVE q \in shown
      OBVIOUS
    <3>2. total = Cardinality(Matching) /\ q \in Matching
      BY <1>6, <1>7, <2>1 DEF Standing
    <3>3. Place(q) \in Nat /\ Place(q) <= total
      BY <1>1, <3>2, PlaceBounds
    <3>4. total <= search.page * PageSize
      BY <1>1, <1>3, <1>9, <2>4, LastPageIsEnough
    <3>5. search.page * PageSize \in Nat
      BY <1>1 DEF OwnerSearchAssumption
    <3>6. Place(q) <= search.page * PageSize
      BY <1>3, <3>3, <3>4, <3>5
    <3> QED
      BY <1>8, <2>2, <3>6 DEF ShownUpTo
  <2>5. Standing' = Standing
    BY <1>1, RowsDecide
  <2> QED
    BY <1>9, <1>10, <2>3, <2>4, <2>5 DEF PagesRead
<1> QED
  BY <1>11, <1>12, <1>13 DEF SearchInv

\* The client asks for the first page, or the one after; time passes.
LEMMA PageKeeps ==
  ASSUME OwnerSearchAssumption, SearchInv,
         BeginSearch \/ NextPage \/ Second \/ UNCHANGED searchVars
  PROVE  SearchInv'
<1>1. SearchShape /\ PagesRead /\ EmptyIsEmpty /\ row' = row /\ search \in ClientRecord
  BY DEF SearchInv, SearchShape, BeginSearch, NextPage, Second, searchVars
<1>2. Matching' = Matching /\ (\A q : Place(q)' = Place(q)) /\ (touched' = touched => Standing' = Standing)
  BY <1>1, RowsDecide
<1>3. CASE BeginSearch
  <2>1. /\ search' = [NoSearch EXCEPT !.at = "search", !.page = 1]
        /\ clock' = clock /\ receded' = FALSE
    BY <1>3 DEF BeginSearch
  <2>2. /\ search' \in ClientRecord /\ search'.at = "search" /\ search'.page = 1
        /\ search'.local = {}
    <3>1. /\ NoSearch \in ClientRecord /\ NoSearch.local = {}
      BY DEF NoSearch, ClientRecord
    <3> QED
      BY <2>1, <3>1 DEF ClientRecord
  <2>3. SearchShape'
    <3>1. receded' \in BOOLEAN /\ clock' = clock
      BY <2>1
    <3>2. search'.page > 0
      BY <2>2
    <3> QED
      BY <1>1, <2>2, <3>1, <3>2 DEF SearchShape
  <2>4. ShownUpTo(0)'
    <3>1. SUFFICES ASSUME NEW q \in Matching PROVE ~ (Place(q) <= 0 * PageSize)
      BY <1>2 DEF ShownUpTo, Standing
    <3>2. Place(q) \in Nat /\ Place(q) >= 1
      BY <1>1, PlaceBounds
    <3>3. 0 * PageSize = 0
      BY DEF OwnerSearchAssumption
    <3> QED
      BY <3>2, <3>3
  <2>5. search'.page - 1 = 0
    BY <2>2
  <2> QED
    BY <2>2, <2>3, <2>4, <2>5 DEF SearchInv, PagesRead, EmptyIsEmpty
<1>4. CASE NextPage
  <2>1. PICK n \in Nat : n = search.page
    BY <1>1 DEF ClientRecord
  <2>2. /\ search' = [search EXCEPT !.at = "search", !.page = n + 1] /\ search.at = "next"
        /\ clock' = clock /\ receded' = receded /\ touched' = touched
    BY <1>1, <1>4, <2>1 DEF NextPage, ClientRecord
  <2>3. n + 1 \in Nat /\ n + 1 > 0 /\ (n + 1) - 1 = n
    OBVIOUS
  <2>4. /\ search' \in ClientRecord /\ search'.at = "search" /\ search'.page = n + 1
        /\ search'.local = search.local /\ search'.shown = search.shown
    BY <1>1, <2>2, <2>3 DEF ClientRecord
  <2>5. SearchShape'
    BY <1>1, <2>2, <2>3, <2>4 DEF SearchShape
  <2>6. ~receded => ShownUpTo(n)' /\ search.local = {}
    BY <1>1, <1>2, <2>1, <2>2, <2>4 DEF PagesRead, ShownUpTo
  <2>7. ShownUpTo(search.page - 1)' = ShownUpTo(n)'
    BY <2>3, <2>4 DEF ShownUpTo
  <2> QED
    BY <2>2, <2>4, <2>5, <2>6, <2>7 DEF SearchInv, PagesRead, EmptyIsEmpty
<1>5. CASE Second \/ UNCHANGED searchVars
  <2>1. search' = search /\ touched' = touched /\ receded' = receded /\ clock' \in Nat
    BY <1>1, <1>5 DEF Second, searchVars, SearchShape
  <2>2. \A n : ShownUpTo(n)' = ShownUpTo(n)
    BY <1>2, <2>1 DEF ShownUpTo
  <2> QED
    BY <1>1, <1>2, <2>1, <2>2 DEF SearchInv, SearchShape, PagesRead, EmptyIsEmpty
<1> QED
  BY <1>3, <1>4, <1>5

\* The pages read fit the places of the records.
LEMMA PagesFit == SearchSpec => []SearchInv
<1> USE OwnerSearchAssumption
<1>1. SearchInit => SearchInv
  <2> SUFFICES ASSUME SearchInit PROVE SearchInv
    OBVIOUS
  <2>1. search \in ClientRecord /\ search.at = "idle"
    BY DEF SearchInit, NoSearch, ClientRecord
  <2>2. row \in [Rows -> [seen : Nat, owned : BOOLEAN]]
    BY DEF SearchInit, Absent
  <2> QED
    BY <2>1, <2>2 DEF SearchInit, SearchInv, SearchShape, PagesRead, EmptyIsEmpty
<1>2. SearchInv /\ [SearchNext]_searchVars => SearchInv'
  <2> SUFFICES ASSUME SearchInv, [SearchNext]_searchVars PROVE SearchInv'
    OBVIOUS
  <2>1. ASSUME NEW q \in Rows, NEW owned \in BOOLEAN, NEW late \in {0, 1},
               clock > late, Upsert(q, owned, clock - late)
        PROVE  SearchInv'
    <3>1. clock - late \in Nat
      BY <2>1 DEF SearchInv, SearchShape
    <3> QED
      BY <2>1, <3>1, UpsertKeeps
  <2> QED
    BY <2>1, SearchKeeps, CountKeeps, PageKeeps DEF SearchNext
<1> QED
  BY <1>1, <1>2, PTL DEF SearchSpec

\* For any stored records, page size and upserts meanwhile, a client that has read the last
\* page has been shown every record of the owner that stood still (SearchByOwner,
\* CountByOwner, handleWHOISOwnerSearch): the pages it has read are those of the places
\* behind it, and a place only grows.
THEOREM OwnerSearchMissesNothing == SearchSpec => []NothingStandingMissed
<1>1. SearchInv => NothingStandingMissed
  BY DEF SearchInv, PagesRead, Standing, NothingStandingMissed
<1> QED
  BY <1>1, PagesFit, PTL

-----------------------------------------------------------------------------
\* Where a query stands, and where its answer came from.
AnswerShape ==
  at \in {"idle", "rdap", "whois", "answered", "refused", "failed"}
    /\ answer.source \in {"none", "rdap", "whois"}

LEMMA RouteTypes == RouteSpec => []RouteTypeOK
<1>1. RouteInit => AnswerShape
  BY DEF RouteInit, AnswerShape, None
<1>2. AnswerShape /\ [RouteNext]_routeVars => AnswerShape'
  BY DEF AnswerShape, RouteNext, Ask, TryEndpoint, FallBack, AskWHOIS, None, routeVars
<1>3. RouteInv /\ AnswerShape => RouteTypeOK
  BY DEF RouteInv, RouteShape, AnswerShape, RouteTypeOK
<1> QED
  BY <1>1, <1>2, <1>3, RoutesFit, PTL DEF RouteSpec

-----------------------------------------------------------------------------
\* How much has been read.
ReadSoFar == read \in 0..(MaxLines + MaxEntities) /\ given \in BOOLEAN

LEMMA ParseTypes == ParseSpec => []ParseTypeOK
<1> USE ParsingAssumption DEF ParsingAssumption
<1>1. ParseInit => ReadSoFar
  <2>1. ParseInit => given \in BOOLEAN
    BY Zenon DEF ParseInit
  <2>2. ParseInit => read \in 0..(MaxLines + MaxEntities)
    BY DEF ParseInit
  <2> QED
    BY <2>1, <2>2, Zenon DEF ReadSoFar
<1>2. ReadSoFar /\ [ParseNext]_parseVars => ReadSoFar'
  <2> SUFFICES ASSUME ReadSoFar, [ParseNext]_parseVars PROVE ReadSoFar'
    OBVIOUS
  <2>1. ASSUME NEW roles, NEW has, parseEntity(roles, has) PROVE ReadSoFar'
    <3>1. given' \in BOOLEAN
      BY <2>1, Zenon DEF parseEntity, ReadSoFar
    <3> QED
      BY <2>1, <3>1 DEF parseEntity, ReadSoFar
  <2>2. CASE \/ NextAnswer \/ Mismatch
             \/ \E kind \in Lines(form), value \in Values : Line(kind, value) \/ CutLine(kind, value)
    <3>1. given' \in BOOLEAN
      BY <2>2, Zenon DEF NextAnswer, Mismatch, Line, CutLine, ReadSoFar
    <3>2. read' \in 0..(MaxLines + MaxEntities)
      BY <2>2 DEF NextAnswer, Mismatch, Line, CutLine, ReadSoFar
    <3> QED
      BY <3>1, <3>2, Zenon DEF ReadSoFar
  <2> QED
    BY <2>1, <2>2 DEF ParseNext, parseVars, ReadSoFar
<1>3. ParseInv /\ ReadSoFar => ParseTypeOK
  <2>1. \A f \in {"domain", "ip", "asn", "rdap"} : FieldsOf(f) \subseteq DOMAIN Unified \cup Dropped
    BY DEF FieldsOf, First, Dates, Organizations, Lists, RDAPFields, Unified, Dropped
  <2> QED
    BY <2>1 DEF ParseInv, ReadSoFar, ParseTypeOK
<1> QED
  BY <1>1, <1>2, <1>3, FieldsAreTyped, PTL DEF ParseSpec

-----------------------------------------------------------------------------
\* The clock, what is stored until now, and the bounds.
SearchBounds ==
  /\ row \in [Rows -> [seen : 0..clock, owned : BOOLEAN]]
  /\ clock \in 1..(MaxUpserts + 1) /\ touched \subseteq Rows
  /\ upserts \in 0..MaxUpserts /\ searches \in 0..MaxSearches

LEMMA SearchTypes == SearchSpec => []SearchTypeOK
<1> USE OwnerSearchAssumption DEF OwnerSearchAssumption
<1>1. SearchInit => SearchBounds
  BY DEF SearchInit, SearchBounds, Absent
<1>2. SearchBounds /\ [SearchNext]_searchVars => SearchBounds'
  <2> SUFFICES ASSUME SearchBounds, [SearchNext]_searchVars PROVE SearchBounds'
    OBVIOUS
  <2>1. ASSUME NEW q \in Rows, NEW owned \in BOOLEAN, NEW late \in {0, 1},
               clock > late, Upsert(q, owned, clock - late)
        PROVE  SearchBounds'
    <3>1. clock - late \in 0..clock /\ row' = [row EXCEPT ![q] = [seen |-> clock - late, owned |-> owned]]
      BY <2>1 DEF SearchBounds, Upsert
    <3>2. row' \in [Rows -> [seen : 0..clock, owned : BOOLEAN]]
      BY <3>1 DEF SearchBounds
    <3> QED
      BY <2>1, <3>2 DEF SearchBounds, Upsert
  <2>2. CASE Second
    <3>1. clock' = clock + 1 /\ clock <= MaxUpserts /\ row' = row /\ 0..clock \subseteq 0..clock'
      BY <2>2 DEF SearchBounds, Second
    <3>2. row' \in [Rows -> [seen : 0..clock', owned : BOOLEAN]]
      BY <3>1 DEF SearchBounds
    <3> QED
      BY <2>2, <3>1, <3>2 DEF SearchBounds, Second
  <2>3. CASE BeginSearch
    BY <2>3 DEF SearchBounds, BeginSearch
  <2>4. CASE SearchRecords \/ NextPage \/ UNCHANGED searchVars
    BY <2>4 DEF SearchBounds, SearchRecords, NextPage, searchVars
  <2>5. ASSUME NEW counted, NEW reached, CountRecords(counted, reached) PROVE SearchBounds'
    BY <2>5 DEF SearchBounds, CountRecords
  <2> QED
    BY <2>1, <2>2, <2>3, <2>4, <2>5 DEF SearchNext
<1>3. SearchInv /\ SearchBounds => SearchTypeOK
  BY DEF SearchInv, SearchShape, ClientRecord, SearchBounds, SearchTypeOK
<1> QED
  BY <1>1, <1>2, <1>3, PagesFit, PTL DEF SearchSpec
=============================================================================
