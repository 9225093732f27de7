------------------------------ MODULE MCRequests ------------------------------
(***************************************************************************)
(* What stands between a user and a lookup: the command-line client, the   *)
(* rate limiter, the chain a request passes, the forms of the pages, the   *)
(* routing of a query, the parsing of an answer, the owner search.  They   *)
(* share no state here, so each behaviour moves one of them, chosen by     *)
(* part at the start.                                                      *)
(***************************************************************************)
EXTENDS RateLimiter, WebForms, QueryRouting, ResultParsing, OwnerSearch,
        RequestPipeline, CliClient

VARIABLE part

CONSTANT Parts

MCQueries ==
  {[kind |-> "labels", labels |-> l] :
     l \in {<<"uk">>, <<"example", "uk">>, <<"example", "co", "uk">>, <<"example", "br">>,
            <<"long", "uk">>, <<"co", "uk">>}}
    \cup {[kind |-> "number", n |-> n, prefix |-> p] : n \in {0, 1, 6, 7, 8}, p \in {"AS", "As"}}
    \cup {[kind |-> f, addr |-> a] : f \in {"ipv4", "ipv6"}, a \in {1, 3, 5, 9}}
    \cup {[kind |-> "other"]}
MCNumbers == <<[lo |-> 3, hi |-> 5, urls |-> <<"n1", "n2">>], [lo |-> 1, hi |-> 7, urls |-> <<"w1">>]>>
MCNoTables == [dns |-> <<>>, ipv4 |-> <<>>, ipv6 |-> <<>>, asn |-> <<>>]
MCTables ==
  {MCNoTables,
   [dns |-> (<<"uk">> :> <<"u1", "u2">>) @@ (<<"co", "uk">> :> <<"c1", "c2", "c3">>)
              @@ (<<"br">> :> <<>>),
    ipv4 |-> MCNumbers, ipv6 |-> <<>>, asn |-> MCNumbers],
   [dns |-> <<>>, ipv4 |-> <<>>, ipv6 |-> MCNumbers, asn |-> <<>>]}
MCOctets == (1 :> "ripe") @@ (3 :> "arin")
MCTokens == {"k1", "k2"}
MCPlain == [path |-> "plain", api |-> TRUE, method |-> "GET", cross |-> FALSE,
            navigate |-> FALSE, bearer |-> NoBearer, route |-> "lookup"]
MCShapes ==
  {MCPlain, [MCPlain EXCEPT !.path = "slash"], [MCPlain EXCEPT !.path = "dots"],
   [MCPlain EXCEPT !.method = "OPTIONS"], [MCPlain EXCEPT !.route = "page", !.api = FALSE],
   [MCPlain EXCEPT !.route = "page", !.api = FALSE, !.method = "OPTIONS"],
   [MCPlain EXCEPT !.route = "unknown", !.api = FALSE],
   [MCPlain EXCEPT !.route = "bulk", !.method = "POST", !.cross = TRUE],
   [MCPlain EXCEPT !.route = "bulk", !.method = "POST", !.cross = TRUE, !.bearer = "other"],
   [MCPlain EXCEPT !.route = "bulk", !.method = "POST", !.navigate = TRUE, !.bearer = "k1"]}
  \cup {[MCPlain EXCEPT !.route = "ops", !.bearer = b] : b \in {NoBearer, "k1", "k2"}}

RequestsInit ==
  /\ part \in Parts
  /\ Init /\ FormsInit /\ RouteInit /\ ParseInit /\ SearchInit /\ PipeInit /\ CliInit
  /\ part = "routing" \/ tables = MCNoTables
  /\ part = "client" \/ answering = {}
  /\ serverToken = "k1"    \* the tokens are alike

RequestsNext ==
  /\ UNCHANGED part
  /\ \/ part = "limiter" /\ Next
        /\ UNCHANGED <<formVars, routeVars, parseVars, searchVars, pipeVars, cliVars>>
     \/ part = "forms" /\ FormsNext
        /\ UNCHANGED <<vars, routeVars, parseVars, searchVars, pipeVars, cliVars>>
     \/ part = "routing" /\ RouteNext
        /\ UNCHANGED <<vars, formVars, parseVars, searchVars, pipeVars, cliVars>>
     \/ part = "parsing" /\ ParseNext
        /\ UNCHANGED <<vars, formVars, routeVars, searchVars, pipeVars, cliVars>>
     \/ part = "search" /\ SearchNext
        /\ UNCHANGED <<vars, formVars, routeVars, parseVars, pipeVars, cliVars>>
     \/ part = "pipeline" /\ PipeNext
        /\ UNCHANGED <<vars, formVars, routeVars, parseVars, searchVars, cliVars>>
     \/ part = "client" /\ CliNext
        /\ UNCHANGED <<vars, formVars, routeVars, parseVars, searchVars, pipeVars>>

RequestsSpec ==
  RequestsInit /\ [][RequestsNext]_<<part, vars, formVars, routeVars, parseVars, searchVars, pipeVars, cliVars>>

\* The components keep to the shape of their data.
RequestsTypeOK ==
  /\ TypeOK /\ FormsTypeOK /\ RouteTypeOK /\ ParseTypeOK /\ SearchTypeOK /\ PipeTypeOK
  /\ CliTypeOK
=============================================================================
