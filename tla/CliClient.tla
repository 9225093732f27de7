------------------------------- MODULE CliClient -------------------------------
(***************************************************************************)
(* caswhois-cli: one user runs it again and again against servers that     *)
(* come and go.  A run resolves its configuration from flags, cli.yml and  *)
(* the environment; it changes the channel, asks for the health of the     *)
(* server, looks one query up, or, on a terminal, walks through the setup  *)
(* wizard and the full-screen interface, whose answers come as messages    *)
(* between the keys.                                                       *)
(***************************************************************************)
EXTENDS Naturals, FiniteSets

CONSTANTS
  Urls,          \* server URLs a user may name
  Searches,      \* queries
  EnvServer,     \* CASWHOIS_SERVER, or Nothing
  MaxRuns,       \* bound: times the client is started
  MaxKeys,       \* bound: keys of one run
  MaxFlips       \* bound: times a server comes or goes

CONSTANT Nothing

ASSUME CliAssumption ==
  /\ Nothing \notin Urls \cup Searches /\ EnvServer \in Urls \cup {Nothing}
  /\ MaxRuns \in Nat /\ MaxKeys \in Nat /\ MaxFlips \in Nat

VARIABLES
  file,      \* cli.yml: its server and channel, or Missing, or Broken
  cli,       \* the run: where it is, its configuration, what its screens hold
  answering, \* the servers that answer
  reached,   \* history: servers whose health check has succeeded
  lastAsked, \* history: the query the user entered last, in this run
  runs, keys, flips

cliVars == <<file, cli, answering, reached, lastAsked, runs, keys, flips>>

Channels == {"stable", "beta"}
Config == [server : Urls \cup {Nothing}, channel : Channels]
Default == [server |-> Nothing, channel |-> "stable"]
Missing == [server |-> Nothing, channel |-> "missing"]
Broken == [server |-> Nothing, channel |-> "broken"]
Commands == {"status", "branch", "lookup", "validate", "none"}

\* An answer: of a query, with data or with an error.
Answers(q) == [of : {q}, ok : BOOLEAN]
NoAnswer == [of |-> Nothing, ok |-> FALSE]

Idle == [at |-> "idle", exit |-> 0, cfg |-> Default, command |-> "none", answer |-> NoAnswer,
         input |-> Nothing, lookups |-> {}, loading |-> FALSE]

\* Run ends: what it exits with is left to be read.
Exit(code) == cli' = [cli EXCEPT !.at = "idle", !.exit = code, !.lookups = {}, !.input = Nothing]
-----------------------------------------------------------------------------
\* LoadFrom: defaults for a file that is missing; main goes on with them when it is broken.
LoadFrom == IF file \in {Missing, Broken} THEN Default ELSE file

\* The flag first, then the file, then the environment (applyEnvOverrides).
Resolve(flagServer) ==
  LET named == IF flagServer # Nothing THEN flagServer ELSE LoadFrom.server
  IN  [LoadFrom EXCEPT !.server = IF named = Nothing THEN EnvServer ELSE named]

\* SaveTo writes the file in place: it may fail before, or half way.
SaveTo(cfg, ok) == file' \in IF ok THEN {cfg} ELSE {file, Broken}

\* Whether the server of this run answers, and what do makes of its answer.
Outcome(q) == IF cli.cfg.server \in answering THEN Answers(q) ELSE {[of |-> q, ok |-> FALSE]}
-----------------------------------------------------------------------------
CliInit ==
  /\ file = Missing /\ cli = Idle
  /\ answering \in SUBSET Urls
  /\ reached = {} /\ lastAsked = Nothing
  /\ runs = 0 /\ keys = 0 /\ flips = 0

\* The screen after the configuration is complete: display.Detect.
AfterSetup(command) == IF command = "none" THEN "tui" ELSE "command"

\* run: --update branch and --status come before the question of the server.
Launch(command, flagServer, tty) ==
  /\ cli.at = "idle" /\ runs < MaxRuns
  /\ runs' = runs + 1 /\ keys' = 0 /\ lastAsked' = Nothing
  /\ LET cfg == Resolve(flagServer)
         start == [Idle EXCEPT !.cfg = cfg, !.command = command]
     IN  cli' = CASE command = "branch" -> [start EXCEPT !.at = "saving"]
                  [] command = "status" ->
                       IF cfg.server = Nothing THEN [start EXCEPT !.exit = 1]
                       ELSE [start EXCEPT !.at = "command"]
                  [] command \notin {"branch", "status"} /\ cfg.server = Nothing ->
                       IF tty THEN [start EXCEPT !.at = "url"] ELSE [start EXCEPT !.exit = 1]
                  [] command \notin {"branch", "status"} /\ cfg.server # Nothing ->
                       IF command = "none" /\ ~tty THEN start    \* showHelp
                       ELSE [start EXCEPT !.at = AfterSetup(command)]
  /\ UNCHANGED <<file, answering, reached, flips>>

\* --update branch=...: the configuration with its overrides is saved.
SetChannel ==
  /\ cli.at = "saving" /\ cli.command = "branch"
  /\ \E ok \in BOOLEAN, c \in Channels :
       SaveTo([cli.cfg EXCEPT !.channel = c], ok) /\ Exit(IF ok THEN 0 ELSE 1)
  /\ UNCHANGED <<answering, reached, lastAsked, runs, keys, flips>>

\* HealthCheck: 200 or not.
Healthy == cli.cfg.server \in answering

CheckStatus ==
  /\ cli.at = "command" /\ cli.command = "status"
  /\ Exit(IF Healthy THEN 0 ELSE 1)
  /\ reached' = IF Healthy THEN reached \cup {cli.cfg.server} ELSE reached
  /\ UNCHANGED <<file, answering, lastAsked, runs, keys, flips>>

\* printResult: the exit code of a lookup.
printResult(answer) == IF answer.ok THEN 0 ELSE 1

\* What Validate is told: nothing; a refusal (ok false); a verdict on the query, in the
\* data of a success; or a body that is no envelope, of any status.
Told == IF Healthy THEN {"nothing", "refused", "valid", "invalid", "foreign"}
                   ELSE {"nothing"}

\* Validate looks at the envelope alone: what is in its data is not read, and a foreign
\* body is its message.
Validate(told) == IF told \in {"nothing", "refused"} THEN 1 ELSE 0

\* runCLICommand: one lookup (domain, ip, asn, lookup, or the query itself).
RunLookup ==
  /\ cli.at = "command" /\ cli.command = "lookup"
  /\ \E q \in Searches : \E a \in Outcome(q) :
       cli' = [cli EXCEPT !.at = "idle", !.exit = printResult(a), !.answer = a]
  /\ UNCHANGED <<file, answering, reached, lastAsked, runs, keys, flips>>

\* runCLICommand: one validation.  The answer holds whether the server called it valid.
RunValidate ==
  /\ cli.at = "command" /\ cli.command = "validate"
  /\ \E q \in Searches, told \in Told :
       cli' = [cli EXCEPT !.at = "idle", !.exit = Validate(told),
                          !.answer = [of |-> q, ok |-> told = "valid"]]
  /\ UNCHANGED <<file, answering, reached, lastAsked, runs, keys, flips>>

\* A command without its argument asks nothing.
MissingArgument ==
  /\ cli.at = "command" /\ cli.command \in {"lookup", "validate"}
  /\ Exit(1)
  /\ UNCHANGED <<file, answering, reached, lastAsked, runs, keys, flips>>
-----------------------------------------------------------------------------
\* A key of the wizard: handleEnter, or Ctrl-C at any step.
Key == keys < MaxKeys /\ keys' = keys + 1

EnterUrl ==
  /\ cli.at = "url" /\ Key
  /\ \E u \in Urls : cli' = [cli EXCEPT !.at = "test", !.cfg.server = u]
  /\ UNCHANGED <<file, answering, reached, lastAsked, runs, flips>>

\* The step after the connection test.
Tested(ok) == IF ok THEN "token" ELSE "url"

TestDone ==
  /\ cli.at = "test"
  /\ cli' = [cli EXCEPT !.at = Tested(Healthy)]
  /\ reached' = IF Healthy THEN reached \cup {cli.cfg.server} ELSE reached
  /\ UNCHANGED <<file, answering, lastAsked, runs, keys, flips>>

\* The token ends the wizard: RunTo saves, run goes on with the new configuration.
EnterToken ==
  /\ cli.at = "token" /\ Key
  /\ \E ok \in BOOLEAN :
       /\ SaveTo(cli.cfg, ok)
       /\ IF ok THEN cli' = [cli EXCEPT !.at = AfterSetup(cli.command)] ELSE Exit(1)
  /\ UNCHANGED <<answering, reached, lastAsked, runs, flips>>

CancelSetup ==
  /\ cli.at \in {"url", "test", "token"} /\ Key
  /\ Exit(1)
  /\ UNCHANGED <<file, answering, reached, lastAsked, runs, flips>>
-----------------------------------------------------------------------------
\* The full-screen interface.  A key that edits the query goes to the input alone.
TypeQuery ==
  /\ cli.at = "tui" /\ Key
  /\ \E q \in Searches : cli' = [cli EXCEPT !.input = q]
  /\ UNCHANGED <<file, answering, reached, lastAsked, runs, flips>>

\* Enter is taken at any time.
MutantMayAsk(screen) == screen.input # Nothing
MayAsk(screen) == screen.input # Nothing /\ ~screen.loading

EnterQuery ==
  /\ cli.at = "tui" /\ Key /\ MayAsk(cli)
  /\ cli' = [cli EXCEPT !.loading = TRUE, !.answer = NoAnswer, !.lookups = @ \cup {cli.input}]
  /\ lastAsked' = cli.input
  /\ UNCHANGED <<file, answering, reached, runs, flips>>

\* lookupDoneMsg, whenever the goroutine of doLookup is done.
LookupDone ==
  /\ cli.at = "tui"
  /\ \E q \in cli.lookups : \E a \in Outcome(q) :
       cli' = [cli EXCEPT !.loading = FALSE, !.answer = a, !.lookups = @ \ {q}]
  /\ UNCHANGED <<file, answering, reached, lastAsked, runs, keys, flips>>

\* Esc clears the input and what is shown, not the lookup under way; it quits when empty.
Escape ==
  /\ cli.at = "tui" /\ Key
  /\ IF cli.input = Nothing THEN Exit(0)
     ELSE cli' = [cli EXCEPT !.input = Nothing, !.answer = NoAnswer]
  /\ UNCHANGED <<file, answering, reached, lastAsked, runs, flips>>

\* A server comes or goes.
FlipServer ==
  /\ flips < MaxFlips /\ flips' = flips + 1
  /\ \E u \in Urls : answering' = (answering \ {u}) \cup ({u} \ answering)
  /\ UNCHANGED <<file, cli, reached, lastAsked, runs, keys>>

CliNext ==
  \/ \E command \in Commands, flagServer \in Urls \cup {Nothing}, tty \in BOOLEAN :
       Launch(command, flagServer, tty)
  \/ SetChannel \/ CheckStatus \/ RunLookup \/ RunValidate \/ MissingArgument
  \/ EnterUrl \/ TestDone \/ EnterToken \/ CancelSetup
  \/ TypeQuery \/ EnterQuery \/ LookupDone \/ Escape
  \/ FlipServer

CliSpec == CliInit /\ [][CliNext]_cliVars
-----------------------------------------------------------------------------
CliTypeOK ==
  /\ file \in Config \cup {Missing, Broken}
  /\ cli.at \in {"idle", "saving", "command", "url", "test", "token", "tui"}
  /\ cli.exit \in {0, 1} /\ cli.cfg \in Config /\ cli.lookups \subseteq Searches
  /\ answering \subseteq Urls /\ reached \subseteq Urls
  /\ runs \in 0..MaxRuns /\ keys \in 0..MaxKeys /\ flips \in 0..MaxFlips

\* Below its input the interface shows the answer to the query that was entered last with
\* Enter, or none: the answer to an earlier query never takes its place, whatever was typed,
\* cleared and entered since.  The query row above shows the input, which may hold another
\* query by then: neither an error nor the message that brings it names its query.
AnswerIsLastAsked == cli.at = "tui" /\ cli.answer # NoAnswer => cli.answer.of = lastAsked

\* A lookup that exits with 0 has printed data of the server.
ExitMeansAnswered ==
  cli.at = "idle" /\ cli.command = "lookup" /\ cli.answer # NoAnswer =>
    (cli.exit = 0 <=> cli.answer.ok)

\* The wizard goes on only with a server that has answered it.
WizardReachedServer ==
  cli.at = "token" => cli.cfg.server \in reached

\* A validation exits with 0 for a query the server has called valid, and for no other:
\* "checks whether a query is valid" (lookup.go:81).  The code does not.
ValidateTellsValid ==
  cli.at = "idle" /\ cli.command = "validate" /\ cli.answer # NoAnswer =>
    (cli.exit = 0 <=> cli.answer.ok)

\* The client tells its user the truth about lookups, in whatever order keys and answers come.
ClientTellsTheTruth == AnswerIsLastAsked /\ ExitMeansAnswered /\ WizardReachedServer
=============================================================================
