# Verification of caswhois

TLA+ models of the WHOIS/RDAP server in this repository, checked with TLC on
small instances, and theorems about them proved with TLAPS for every value of
their constants. Paths below are relative to the repository root; the Go code is
under `src/`. `PROJECT.json` ties every definition to the lines it models, every
property to a run and to a mutation of the model that breaks it, and lists the
hazards the properties are aimed at.

## 1. The system

One process serves lookups over HTTP (REST, pages, GraphQL), keeps results in a
cache and in SQLite, and runs a scheduler for its own maintenance. Commands of the
same binary work on the same database, configuration and files, and a second
binary is a client.

| Component | State | Operations | What is hard |
|---|---|---|---|
| scheduler (`src/scheduler`) | tasks in memory, `scheduler_tasks`, `scheduler_history`, a WaitGroup, a context | Register, Start, catch-up, loop, execute with retries, RunTaskNow, Stop | goroutines that outlive each other, crashes between save and launch, late finishes |
| scheduler subcommand (`src/main.go`) | a second scheduler on the same table | list, show, run, enable, disable, history | two processes writing whole rows |
| rate limiter (`src/ratelimit`) | a window per client | Allow, cleanup | window boundaries, cleanup against live windows |
| cache (`src/cache`) | items with expirations, statistics | Get, Set, Exists, Delete, Clear, multi variants, cleanup, eviction | counters updated under a read lock, expiry at the boundary, eviction at the limit |
| lookup (`src/whois`, `src/server/whois_handlers.go`) | the cache, `whois_records` | lookup by two services, upsert, refresh of stale records | two formats under one key, a goroutine on a cancelled context, stale clock values |
| routing (`src/whois/servers.go`, `validate.go`, `rdap/client.go`) | none of its own | type, validation, registry, endpoints in order | boundaries, empty lists, two callers with different rules |
| parsers (`src/whois/parser`, `rdap/parser.go`, `result.go`) | none of their own | fields of an answer | an answer that stops after its first segment, inside a line |
| owner search (`whois_handlers.go`, `records.go`, `reverse.go`) | `whois_records` | pages by LIMIT and OFFSET, a count, an external provider | rows that move between two pages |
| RDAP bootstrap (`src/whois/rdap/bootstrap.go`) | four tables in memory and on disk | Load, Update | updates that overlap on one temporary name |
| GeoIP (`src/geoip`) | databases on disk, open readers | ensure, update, load | some files replaced, some not |
| certificates (`src/ssl`) | two files per place, the pair served, a renewal loop | load, request, renew, self-sign | a crash between two files, expiry |
| self-update (`src/update`) | the executable, `<exe>.old`, the images of the processes | check, download, verify, replace, restart | two renames, two processes, a crash between them, names that follow a renamed image |
| server (`src/server/server.go`, `pid_unix.go`) | PID file, listener, Tor, signals | Start, shutdown, restart of itself | check-then-write of the PID file, start and shutdown order |
| configuration (`src/config`) | `server.yml`, the live configuration, a pending-restart flag | poll, SIGHUP, apply, save, commands | several loaders, in-place writes, loads that fail |
| logger (`src/logger`) | open files, handlers | write, Rotate, Close | lines that cross a rotation, a reopening that fails half-way |
| backup and restore (`src/backup`, `src/status.go`) | archives, the database with its log | create, verify, retain, restore | live files, retentions that overlap, a restore cut off |
| service manager (`src/service`) | account, unit, enabled, running | install, uninstall, disable, control | a failure after a part of the work, then a retry |
| request chain (`src/server/middleware.go`, `token_auth.go`, `stats.go`) | counters, the token's hash | the middleware in order, requireToken, recordRequest | requests that interleave with reloads and with midnight |
| pages and forms (`csrf.go`, `consent.go`, `announcements.go`, `standard_pages.go`) | the browser's cookies | render, submit | several tabs, several forms of one page |
| client (`src/client`) | `cli.yml`, the screens | resolve, wizard, commands, full-screen interface | answers that come between keys |

Handlers call the lookup functions, which call the cache and the registries; a typed
lookup starts a goroutine that writes `whois_records`. The scheduler calls hooks that
`server.New` has wired (record refresh, backups, RDAP bootstrap, GeoIP, log rotation,
update check). Commands meet the server in the database, in `server.yml`, in the
executable, in the PID file and in the backup directory: that is where several actors
share state, and there the models compose them. What remains is coupled by calls only
(a hook is called, a handler runs), so the modules below are separate, and the
instances for TLC put several of them side by side.

What makes the components correct:

- scheduler: no deadline is launched twice, none is dropped while it runs, everything
  launched ends and is waited for, and a crash loses nothing that was decided;
- limiter: a bound on what passes in any window of time, and no refusal without cause;
- cache: a read answers the last write within its lifetime, or nothing;
- lookup: cached answers are in time, the permanent dataset holds only what a
  registry sent (be it nothing) and keeps its first_seen, every request ends, and each query goes to
  its own registry;
- files (tables, databases, certificates, the program): what stands under its name is
  whole, and what is in use was whole when it was loaded;
- server processes: one of them holds the PID file and runs the scheduler;
- configuration: the server settles on the file, and keeps what it must not change;
- operations: lines are kept, a usable backup stays, a restore brings back what was
  backed up, an installation can be repeated;
- user's side: forms work once there is a cookie, one token is accepted, the search
  misses nothing that stands, the client shows the answer that was asked for.

## 2. The modules

| Module | Contents |
|---|---|
| `Scheduler` | the scheduler inside the server, with crashes, restarts and storage faults |
| `SchedulerCLI` | extends `Scheduler` with the scheduler subcommand as a second process on the table |
| `RateLimiter` | the limiter |
| `CacheContract` | what any cache promises its callers |
| `MemoryCache` | the in-process cache, with a refinement mapping to `CacheContract` |
| `WhoisLookup` | lookups and records over a cache of which only the contract is known |
| `QueryRouting` | type, validation, RDAP endpoints and WHOIS server of one query |
| `ResultParsing` | the line scanners, the RDAP entities, the common result |
| `OwnerSearch` | one search through all its pages while records change |
| `PublishedFiles` | what a component that downloads files promises |
| `RdapBootstrap`, `GeoIP` | two such components, each with a refinement mapping to `PublishedFiles` |
| `Certificates` | the certificate manager |
| `SelfUpdate` | the server's update task and the update command on one executable |
| `ServerLifecycle` | server processes over one PID file and one port |
| `ConfigReload` | `server.yml`, the poller, SIGHUP and the commands that save it |
| `Logger` | writers, rotation, Close |
| `Backup`, `Restore` | which backups the size cap leaves; what they hold and what a restore brings back |
| `ServiceManager` | the service commands as sequences of steps that may fail |
| `RequestPipeline` | the middleware chain, the token, the counters |
| `WebForms` | the forms of the pages and one browser's cookies |
| `CliClient` | the client, run again and again |
| `SchedulerProofs`, `SchedulerCLIProofs`, `MemoryCacheProofs`, `WhoisLookupProofs` | theorems about the module of that name |
| `PublishedFilesProofs` | theorems: RDAP tables, GeoIP, certificates, update |
| `OperationsProofs` | theorems: PID file, logger, configuration, backups, restore, service manager |
| `RequestProofs` | theorems: limiter, request pipeline, forms, client, and `MCRequests`, which composes them |
| `AnswerProofs` | theorems: routing, parsing, owner search |
| `MC...` | instances for TLC |

Operators named `Mutant...` are plausible slips of the code. No specification
uses them; substituting one for the definition next to it must break a property.

`MCPublished`, `MCOperations` and `MCRequests` extend several components that share no
state. Each of their behaviours moves one of them, chosen by `part` in the initial
state; the others stand still. The states of such a run are the sum of the components'
states, and a property of one component says nothing beyond that component. Where
actors do share state (two servers, a server and a command, two updates, two tabs),
they are in one module.

### Scheduler

A section of code under `s.mu` is one step. `life` is where the main goroutine is
(registering, catching up, serving, stopping), `loop` where `runLoop` is, and each
execution of a task has a slot of `exec`. `db` and `history` are the two tables;
`tasks` is the map in memory. `dispatched` is a history variable. Time is a counter
up to `MaxTime`; when it is reached the clock stands still and timers count as
fired. `Every` and `Cron` stand for the schedules: the instants a cron expression
matches are a set, and `nextScheduledTime` picks the first one after now.

- `saveTaskState` is `INSERT OR REPLACE`: it deletes the row, so the cascade of
  `scheduler_history` deletes the task's history. With `SaveFaults` any subset
  of the saves of a step fails (the code only logs that).
- `TimesReadable` tells whether the stored times scan back. The production schema
  declares the columns INTEGER, so they do not; the unit tests' schema declares
  DATETIME. Safety is checked with TRUE (where more survives a restart and more can
  go wrong), progress with FALSE. The theorems hold for both values.
- `Crash` ends the process between steps, `CrashInSave` inside a section that saves
  several rows.
- The select of `runLoop` chooses freely when the timer and the context are both
  ready: `Wake` and `LoopReturn` are both enabled.

`SchedulerCLI` adds a process that registers (loads and saves) a task, then enables,
disables or runs it, from its own copy of the row.

### RateLimiter

`Allow` is `AllowFirst`, `AllowNext` or `AllowRefused`; `cleanupExpired` runs at
most once a tick. `accepted` is a history variable: each request let through,
with its instant and the start of the window that counted it.

### CacheContract and MemoryCache

The contract has three steps: a write gives keys values for a lifetime, entries are
forgotten (any of them, at any moment), and a read answers the stored value if its
time is not over, or nothing. `MemoryCache` has the lock, the size bound, the
eviction and the counters. Readers hold the lock together and increment counters
by a plain load and store, hence the two steps of a read.
`ImplementsContract` is the contract's specification with `store` mapped to `items`.

### WhoisLookup, QueryRouting, ResultParsing, OwnerSearch

`WhoisLookup` has five kinds of caller: the typed endpoints (which also save the record
in a goroutine), the plain endpoint and page, bulk, GraphQL (the other service, with
RDAP first), and the scheduler's refresh. Every cache call and every upstream call is a
step of its own, so that requests interleave between them. `Respond` cancels the context
that the saving goroutine uses. `UpsertRecord` is two steps, since it reads the clock
before it executes its statement. A cached value carries its format, because the two
services store different JSON under the same key, and whether the registry sent text or
closed the connection without a byte (`Sent`), which `tcpQuery` takes for an answer.
`fetched` is a history variable: what was sent, about which name, and when.

`QueryRouting` opens the upstream call of that model: how REST (which validates and goes
to WHOIS) and GraphQL (which does not validate and tries RDAP first) treat every kind of
query. An address is a number and a prefix an interval; a domain is a sequence of
labels. Its tables are those the unmarshalling of the bootstrap files can give: each
suffix, prefix or range with a list of server names. `ResultParsing` opens the answer: an answer is a sequence of lines, each a field
and a value, read one after the other; `cut` is the line that the one `Read` of `tcpQuery`
ended in, with as much of its value as there was, so that every beginning of an answer is a
state, and `Says` is what the parser makes of it. `OwnerSearch` follows one
client through the pages of a search; a record is its time and whether it bears the
owner's name, and an upsert between two pages moves rows across the offset.

### PublishedFiles, RdapBootstrap, GeoIP, Certificates, SelfUpdate

`PublishedFiles` promises that under its name a file is absent or a complete version, and
that memory holds only what was complete on disk when it was loaded; where two downloads
have shared a temporary name, a file may be damaged. `RdapBootstrap` is at the level of
inodes, because two updates truncate each other's `<file>.tmp`; `GeoIP` downloads to a
private file first and never damages one. `Certificates` has the two files of each place
as two variables. `SelfUpdate` has the two renames of `replaceBinary` as two steps, a
server and a command as its agents, and crashes of either. Every process has the name of
its image, as `os.Executable` gives it on Linux: a rename takes it along and a removal
leaves the last name without a file, so an agent may work on `<exe>.old`, and the `exec` of
`restartSelf` finds what stands under that name by then. `Request` of `Certificates`
also covers `GenerateSelfSignedCertificate`, and its renewal loop `StartAutoRenewal`,
which exist in the code and have no caller yet.

### ServerLifecycle, ConfigReload, Logger, Backup, Restore, ServiceManager

Each look at the PID file, its removal, the truncation and the write are steps, so that
two starts interleave in every way; `raced` records that they have. `ConfigReload`
reduces the settings to one that is reloaded, one that needs a restart, one of the section
`web:` that the comparison skips, and the secrets that are generated when absent; an edit
or a save may fall into the read of any of the three loaders, a load may fail after the
poller has noted the time of the file (`refused`), and `--maintenance setup` resets the
file (`wiped`). In `Logger` a writer of server.log picks its handler up before it has the
lock. `Backup` is the directory with what the jobs of the server and the command
write and what `enforceSizeCap` removes: it adds up sizes, of which it may see a part when
a file is still being written (`Seen`), and removes from the oldest on by that total, while
crashes and the other jobs come in between. The counts of `ApplyRetentionPolicy` are no
action: it parses `base[17:27]` as a date, and the prefix of the only names its pattern
finds, `caswhois_backup_`, is 16 characters long, so that nothing the program writes is
ever marked by them (`backup.go:713-717`; `backup_test.go:405-412` writes names with one
more `_`). The names of the server's own backups (`backup-`, `backup-hourly-`) are neither
in the pattern nor under the cap. Two backups that one maker begins in the same second
share a name, which is not modelled. `Restore` is what an archive of a running server holds:
the database is `server.db` with the commits its write-ahead log adds. `ServiceManager`
is one table of steps per init system and a step that works or fails, or, for the enabling
under sysv and rc.d, is passed over without a word (`SkipEnable`).

### RequestPipeline, WebForms, CliClient

`EnterChain` decides in one step what the stateless middleware does to a request (path
normalisation, security checks, CORS, allowlists, rate limit); the steps of
`recordRequest`, the token check, the handler and a panic are steps. In `WebForms` the
server keeps nothing, so the state is the browser: its cookies, and for each tab the
request in flight or the page shown. `CliClient` runs the client several times over one
`cli.yml`, with servers that come and go.

## 3. The runs

Bounds are named in the modules and given in the `.cfg` files.

| Run | Bounds | Shows |
|---|---|---|
| `scheduler_deadlines` | 2 tasks, 2 slots, clock to 5, crashes | `TypeOK`, `AtMostOncePerDeadline`, `WaitGroupExact`, `DurableState` |
| `scheduler_progress` | fair; 1 task, 1 slot, clock to 4, storage faults, times unreadable | `NextRunNeverGoesBack`, `DueIsServed`, `RunsEnd`, `LoopReturns` |
| `cli_counts` | 1 task, 1 slot, 2 commands | `NeverOvercounted` |
| `cache_contract` | 2 keys, 2 values, 2 readers, 3 reads, 3 writes | `CountersNeverInflated`, `ImplementsContract`, `LiveItemsSpared` |
| `lookup_requests` | fair; 1 domain, 2 slots, 2 requests of all kinds, lifetimes 1, clock to 3 | `CachedAnswersInTime`, `RecordsAsSent`, `FirstSeenPreserved`, `EveryRequestEnds` |
| `published_files` | RDAP: fair, 2 files, 2 updaters, 3 updates, 1 crash; GeoIP: the same; update: 3 versions, 4 installations, 3 times `.old`, 1 crash; certificates: 3 pairs, lifetime 2, clock to 6, 1 crash | `DestIsWhole`, `RdapKeepsItsPromise`, `UpdatesReturn`, `GeoKeepsItsPromise`, `InstallationsSound`, `ServedCertificateSound` |
| `operations` | 2 servers, 3 starts, 2 kills; 2 edits, 1 SIGHUP, 1 command; 2 writers, 2 logs, 3 rotations, 4 lines; 4 backups of sizes 1 or 3 under a cap of 2 by 3 jobs, 1 crash; 3 commits, 2 archives, 1 restore; 6 init systems, 4 service commands | `PIDFileNamesServer`, `OneScheduler`, `ReloadSettles`, `IdentityKept`, `LinesKept`, `UsableKept`, `RestoreFaithful`, `RetryInstalls` |
| `requests` | 2 clients, limit 2, window 2, clock to 6; 2 tabs, 3 visits, 3 posts; 3 tables and 25 queries; answers of 3 lines or entities; 3 rows, 4 upserts; 2 requests in flight, 2 days, 1 token edit; 2 client runs, 5 keys | `RequestsTypeOK`, `TwiceTheLimit`, `RefusalIsDeserved`, `SettledFormsWork`, `RoutingRight`, `TruncatedSaysLess`, `NothingStandingMissed`, `OneToken`, `StatsHangTogether`, `ClientTellsTheTruth` |

Why the bounds suffice: a period of 2 with a clock to 4 lets a deadline be missed,
caught up and followed by the next one while the first execution still runs; two
slots let a manual and a scheduled run of one task overlap; three windows fit into
the limiter's clock, so a stretch can touch two of them and a cleanup can fall
between them; two readers and two
keys give every race on a counter and every eviction choice; two requests (one of
which can be a bulk of two lookups) give two upserts of one record, a cached answer of
the other service, and an expiry in between. Two updates give every way to share a
temporary name and the third follows the damage; three starts give a start, one refused
by it and one after a kill; two edits and two reloads give an edit in the middle of a
load and one after it; three rotations give one that fails, one that repairs it and
lines across both; four backups, some above the size cap by themselves and some of which
two fit under it, exceed it more than once, while two retentions and the command overlap;
`<exe>`, `<exe>.old` and `<exe>.old.old` are enough names for a binary to be moved aside
twice, and four installations for one that moves what another has set aside; four service commands give an
installation that fails, what is done about it, and its repetition. In the owner search
three rows on pages of one give a row before, on and after the offset. Two tabs and
three visits give a page requested without a cookie, one that brings another cookie, and
one requested after.

Deadlock is not checked in the runs of several parts: when the bounds on edits, updates,
requests or commands are used up, nothing is left to happen.

Runs that show where the code and its documents disagree (each quoted in
`PROJECT.json`, "findings"):

| Run | The document says | The run shows |
|---|---|---|
| `scheduler_restart` | state survives restarts | stored times do not scan with the production schema |
| `lookup_stored` | every successful lookup is stored | the request's context is cancelled under the goroutine |
| `lookup_content` | the same fields whatever the protocol | one key, two formats: a blank answer |
| `requests_forms` | form and cookie have the same value | on a first visit each form has a value of its own |

### Other statements the models refute

These are definitions of the modules that state what a document says. Adding one to the
configuration named (as an `INVARIANT`, or as a `PROPERTY` those that speak of steps:
`FinishedAttemptKept`, `DisabledStaysDisabled`, `RefreshedAndBumped`, `NeverEmptied`,
`UpdatedRuns` and `NeverRefusedByItself`) makes TLC find the disagreement.

| Definition | Add to | Says | The code |
|---|---|---|---|
| `Scheduler!FinishedAttemptKept` | `MCScheduler_deadlines.cfg` | the recent attempts of a task can be listed (`scheduler.go:398`) | each save deletes them by cascade (`scheduler.go:190`) |
| `SchedulerCLI!DisabledStaysDisabled` | `MCSchedulerCLI_counts.cfg` | disabling is persisted (`scheduler.go:695`) | the server overwrites the row |
| `WhoisLookup!RefreshedAndBumped` | `MCWhoisLookup_requests.cfg` | an upsert refreshes the fields and bumps last_seen (`records.go:39-40`) | the later statement may carry the earlier time |
| `WhoisLookup!NeverEmptied` | `MCWhoisLookup_requests.cfg` | every successful lookup is stored permanently (IDEA.md:230) | an answer without a byte overwrites a full record with NULLs (`whois.go:207-213`) |
| `SelfUpdate!UpdatedRuns` | `MCPublished_files.cfg` | after the replacement the service restarts or is executed again (`status.go:952`, AI.md:31506) | `os.Executable` names the removed `<exe>.old`, and the exec fails (`update_unix.go:50-58`) |
| `RequestPipeline!CountedToday` | `MCRequests_all.cfg` | once counted, requests24h is the number of today's requests (`stats.go:30-31`) | the reset's Store overwrites increments |
| `ServiceManager!InstalledEnabled` | `MCOperations_all.cfg` | an installed service is enabled at boot (`install_unix.go:383`) | without `update-rc.d` and `chkconfig`, or with an unreadable `/etc/rc.conf`, the enabling is passed over (`install_unix.go:383-405`, `573-574`) |
| `ServiceManager!SameIDs` | `MCOperations_all.cfg` | UID and GID are the same number (`install_unix.go:34-36`) | the group of a failed attempt keeps its own |
| `ConfigReload!FlagsInForce` | `MCOperations_all.cfg` | flags come before the file (AI.md:12086) | a reload replaces the overrides |
| `ConfigReload!WebReloaded` | `MCOperations_all.cfg` | an edit of the file is picked up (`reload.go:26-29`) | the comparison skips fields tagged `yaml:"-"` such as `Web` (`reload.go:198-200`) |
| `ConfigReload!FailedLoadRepeated` | `MCOperations_all.cfg` | an edit of the file is picked up (`reload.go:26`) | a load that fails is not repeated: the time of the file is noted before it (`reload.go:74-80`) |
| `Backup!CapHolds` | `MCOperations_all.cfg` | the size cap is a hard cap on the total volume (`config.go:270`) | the server's own backups are neither counted nor removed |
| `Restore!RestoreAtomic` | `MCOperations_all.cfg` | a restore is all or nothing (AI.md:48465) | files are copied one after the other |
| `ServerLifecycle!NeverRefusedByItself` | `MCOperations_all.cfg`, with `FixedPID = TRUE` | a container is not refused by its own number (AI.md:10370) | the check finds the number alive |
| `ResultParsing!FallbackOnly` | `MCRequests_all.cfg` | the handle is a fallback (`rdap/parser.go:279-280`) | a later entity overwrites it |
| `CliClient!ValidateTellsValid` | `MCRequests_all.cfg` | `validate` checks whether a query is valid (`lookup.go:81`) | it exits with 0 for an invalid query and for any body or status |

Further disagreements, visible in the code:

- scheduler: `stopping` is never set, so a run requested over HTTP is launched after Stop
  has cancelled the context (`scheduler.go:581`; AI.md:29108); RunTaskNow runs a disabled
  task (`scheduler.go:551`; AI.md:28960-28965); catch-up launches in the order of a map
  (`scheduler.go:236`; AI.md:28948); tasks interrupted by the end of the process are not
  marked for retry (`scheduler.go:512`; AI.md:29122); the day-of-month step `*/n` of a
  cron expression is ignored;
- the limiter calls itself a sliding window (`ratelimit.go:10`) and lets up to twice the
  limit through around a boundary, which is what `TwiceTheLimit` bounds;
- `tcpQuery` reads the socket once (`whois.go:208`), so an answer in several segments is
  cut off, cached and stored (IDEA.md:66), also inside a line: `Exam` is then shown for
  `Example Corp`; `TruncatedSaysLess` says what such an answer is worth; a connection
  closed without a byte is an answer too, and is stored as a record without content;
- routing: REST never uses RDAP; `As123` is taken for a domain; of several RDAP events the
  last wins; the external owner search is asked only for page 1;
- update: two renames where AI.md:31535 says "Atomic rename"; `defer_days` is applied to
  the daily and devel channels as well (AI.md:31469-31477); a server may go back to the
  release its defer window allows after a command has installed a newer one; a server
  whose image was moved aside works on `<exe>.old`: its next update fails at the Stat, or
  moves the only binary that is left to `<exe>.old.old` (`update.go:234`);
  `SetUpdateChannel` (`update.go:253-309`) writes a top-level `update:` where the
  configuration nests it under `server:`;
- certificates: nothing calls `StartAutoRenewal` or `GenerateSelfSignedCertificate`, and a
  certificate renewed by certbot is not reloaded; `TorHealthHook` is never wired
  (`server.go:230`);
- backup: nothing that the program writes is matched by the retention: the pattern does not
  match the server's names, and of the command's the date does not parse
  (`backup.go:713-717`), so the numbers of backups to keep delete nothing; a cap smaller
  than one backup deletes the only one; encrypted backups of the server lack the suffix
  that Restore asks for; the command's backup leaves `server.db-wal` out; a restore
  leaves an existing log in place and does not look whether the server runs; a
  half-written backup counts like a whole one; backups of one second share a name;
- configuration: writes are in place; the pending-restart flag is never cleared nor shown;
  an edit between the first load and the watch is missed; a setting that is changed back
  stays flagged; `--maintenance setup` saves the defaults, so the secret is lost
  (`status.go:225-238`);
- logger: the check for an open file is outside the lock, so lines are dropped during a
  rotation; a reopening that fails leaves stale handlers;
- server: two starts at once both write the PID file and both run; a restart of itself may be refused by its own PID file; signals before Notify
  leave the PID file; after the privileges are dropped it cannot be removed; when the
  port is taken, the scheduler runs until the process ends;
- service: Uninstall does not remove data, configuration and account
  (`manager.go:111-114`), an installation may be done without being enabled at boot, and it
  removes one of two units when both exist;
- requests: the token's hash is taken at the first request, not "at startup"
  (`token_auth.go:15`); requests that are refused, redirected or preflights are not
  counted (`server.go:687` "records every request"); two tabs that dismiss two
  announcements lose one; the plain lookup endpoints neither count nor store;
- client: `--status` and `validate` exit with 0 whatever the content of the answer;
  `CASWHOIS_FORMAT` has no effect; `--update branch=X` saves the overrides of the
  environment into the file; the answer to a lookup left with Esc is shown; the row `Query:`
  (`tui.go:136-149`) has what is in the input field, while the answer or error below it
  may be that of the query entered before.

### Fairness

`Scheduler!Fairness`: time passes; the main goroutine, the loop and every execution
run when they can (Go schedules every runnable goroutine, and the handlers end: they
work under timeouts of their own or do local work); the return of the loop is
strongly fair, because `select` picks among ready cases at random. Nothing is
assumed about signals, crashes or requests. `WhoisLookup!Fairness`: every request and
every saving goroutine goes on; upstream calls have deadlines (10 s to connect, 30 s
to answer, and the RDAP client's timeout). `RdapBootstrap!RdapFairness`: an update goes
on, since its requests have a 30 s timeout and the rest is local work; nothing is
assumed of their outcome. The other modules are about safety and assume nothing.

## 4. The proofs

The theorems hold for every value of the constants that satisfies the `ASSUME`s of the
modules, and for behaviours of every length.

| Theorem | States |
|---|---|
| `SchedulerProofs!TypeCorrect` | `Spec => [](TypeOK /\ Lifecycle)` |
| `SchedulerProofs!WaitGroupIsExact` | `Spec => []WaitGroupExact` |
| `SchedulerProofs!NextRunIsMonotone` | `Spec => NextRunNeverGoesBack` |
| `SchedulerProofs!LaunchedAtMostOnce` | `~SaveFaults => (Spec => []AtMostOncePerDeadline)` |
| `SchedulerProofs!StateIsDurable` | `~SaveFaults => (Spec => []DurableState)` |
| `SchedulerCLIProofs!NothingCountedTwice` | `CLISpec => []NeverOvercounted` |
| `RequestProofs!AtMostTwice` | `Spec => []TwiceTheLimit` |
| `RequestProofs!RefusalsAreDeserved` | `Spec => []RefusalIsDeserved` |
| `MemoryCacheProofs!CacheTypeCorrect` | `Spec => []TypeOK` |
| `MemoryCacheProofs!CountersAreHonest` | `Spec => []CountersNeverInflated` |
| `MemoryCacheProofs!LiveOnesAreSpared` | `Spec => LiveItemsSpared` |
| `MemoryCacheProofs!CacheMeetsContract` | `Spec => ImplementsContract` |
| `WhoisLookupProofs!AnswersAreInTime` | `Spec => []CachedAnswersInTime` |
| `WhoisLookupProofs!RecordsAreSent` | `Spec => []RecordsAsSent` |
| `WhoisLookupProofs!FirstSeenIsKept` | `Spec => FirstSeenPreserved` |
| `PublishedFilesProofs!GeoTypeCorrect` | `GeoSpec => []GeoTypeOK` |
| `PublishedFilesProofs!GeoImplements` | `GeoSpec => GeoKeepsItsPromise` |
| `PublishedFilesProofs!FilesAreWhole` | `RdapSpec => []DestIsWhole` |
| `PublishedFilesProofs!RdapImplements` | `RdapSpec => RdapKeepsItsPromise` |
| `PublishedFilesProofs!ServedIsSound` | `ChecksOften => (CertSpec => []ServedCertificateSound)` |
| `PublishedFilesProofs!UpdateIsSound` | `UpdSpec => []InstallationsSound` |
| `OperationsProofs!HolderIsNamed` | `SrvSpec => []PIDFileNamesServer` |
| `OperationsProofs!SchedulersDoNotMeet` | `SrvSpec => []OneScheduler` |
| `OperationsProofs!NoLineLost` | `LogSpec => []LinesKept` |
| `OperationsProofs!SecretSurvives` | `CfgSpec => []IdentityKept` |
| `OperationsProofs!ReloadTakesOver` | `CfgSpec => []ReloadSettles` |
| `OperationsProofs!BackupStays` | `BackupSpec => []UsableKept` |
| `OperationsProofs!RestoreBringsBack` | `RestoreSpec => []RestoreFaithful` |
| `OperationsProofs!RetryAlwaysInstalls` | `ServiceSpec => []RetryInstalls` |
| `RequestProofs!StatsAreConsistent` | `PipeSpec => []StatsHangTogether` |
| `RequestProofs!TokenIsOne` | `PipeSpec => []OneToken` |
| `RequestProofs!SettledFormsAreTaken` | `FormsSpec => []SettledFormsWork` |
| `RequestProofs!ClientIsTruthful` | `CliSpec => []ClientTellsTheTruth` |
| `RequestProofs!RequestDataFits` | `RequestsSpec => []RequestsTypeOK` |
| `AnswerProofs!RoutesRight` | `RouteSpec => []RoutingRight` |
| `AnswerProofs!PartialIsPrefix` | `ParseSpec => TruncatedSaysLess` |
| `AnswerProofs!OwnerSearchMissesNothing` | `SearchSpec => []NothingStandingMissed` |

### The arguments

**Scheduler.** `Lifecycle` ties the goroutines to the phase of the process (a loop only
after Start, an execution only in a live process); it is needed for types, since what a
slot holds depends on it, and for `WaitGroupExact`, which is inductive once it is known
that nothing is added after the Wait has returned. `NextRunNeverGoesBack` needs only that
the next instant of a schedule is after the one it is computed from. `AtMostOncePerDeadline`
is not inductive: a crash falls back to the table, so `DeadlineInv` adds that the table
mirrors the memory (`DurableState`), that launches are for instants that have come
(`LaunchesArePast`), and that a stored deadline is after every launch (`StoredIsAhead`).
A save that fails breaks the last two, hence the hypothesis `~SaveFaults`: with storage
faults a deadline may be launched again after a restart.

**Scheduler subcommand.** `CLIInv` says of every copy of a row, in the table, in the
server's memory and in the command's, that its counts do not exceed the executions that
have ended (`RowsFit`, `CommandFits`). Either process may overwrite the other's row with
an older copy; both copies fit, so what is lost is counts and never the bound.

**Rate limiter.** `LimiterInv`: the windows of one client are disjoint and no longer than
the duration, the current one is the last, its counter is the number of requests it let
through, none has let through more than the limit, and a window that was forgotten is
over. A stretch as long as the duration then meets at most two windows, which gives twice
the limit; a refusal is deserved because a full current window has not ended.

**Cache.** `CountersInv` adds that the value a reader has loaded from a counter is not above
the counter (`LoadedIsPast`): lost increments are possible, invented ones are not. The
refinement of `CacheContract` goes step by step: every write under the lock is one
`Write` or `Forget` of the contract, a read is a `Read` followed by a stutter. With types, the
argument needs that an expired item answers nothing whether or not it is still there.

**Lookups.** `LookupInv` says of everything that holds an answer (the cache, the
requests, the saving goroutines, the table) what makes it sound: an entry expires one
lifetime after it was stored; an answer from the cache was stored within its lifetime; a saving
goroutine carries what a registry sent about a domain. For the records, the `Sourced`
invariants add where each of these was obtained: what the cache, a request, a goroutine or
a row has as sent is in `fetched` under its name (`CacheSourced`, `RequestSourced`,
`JobSourced`, `RecordsSourced`). Of the cache only the contract is used, so the theorems hold with any
backend that meets it, and `CacheMeetsContract` proves that the one in the process does.
The step that matters is reading JSON of the other service: it gives a blank answer,
which is in time and never becomes a record.

**Published files.** GeoIP's updates download to a private file, so its types and the
refinement suffice. For RDAP, `RdapInv` is about inodes: no inode has two names
(`NamesApart`), a writer writes an inode and a version that exists (`WritersKnow`), and
unless updates have overlapped, one update writes and nobody else has its inode
(`OneWrites`); then what is renamed is whole. It is assumed that there are enough inodes
(two for each file and one for each updater), so that creating a file never fails for
the lack of one.

**Certificates.** The two files of a pair are compared before they are used, so key and
chain match in every state. That the certificate does not expire needs the clock: while no
order or write fails, the next check is no later than the expiry of the certificate in use
(`LookedAtInTime`), because what a check leaves alone has more than `RenewBefore` days left
and what it renews has a `Lifetime`. Hence the hypothesis `ChecksOften`: checks come within
`RenewBefore + 1` days and within a `Lifetime`; the code has one day and seven, and a
Let's Encrypt certificate lasts ninety.

**Update.** `UpdInv`: whatever is being installed aims at a release that is out, for the
server's task one past the defer window, and what has been verified is that release
(`AimsAtReleases`). While the renames of two installations have not mixed, one update at
most is between its two renames, the old binary is then set aside, and some name has a
binary (`OneRenames`). While no installation was cut off between them either (`severed`),
everyone who renames works on the name of the executable, and no other name has a binary
but `<exe>.old` for as long (`OnlyTheName`): that is what keeps a process whose image has
lost its name from moving the last binary away. While not even checks have overlapped,
what is installed or set aside is not older than what the server runs, and a command aims
at nothing older than what is installed (`NothingOlder`).

**PID file.** `LifecycleInv`: live processes have different numbers (`Identities`), a
scheduler runs only in a process that owns the file or is exiting (`TickingOwns`), and
unless two starts have raced, one process at most is claiming the file, the owner is named
by it, and nobody gets past the first check while it has an owner (`Orderly`). The
properties themselves are restricted to behaviours without such a race: with one, two
servers do run, as `raced` records.

**Logger.** `LogInv`: while the last reopening went through, every log has the file of that
rotation in its handle and in its handler (`FilesCurrent`), and a line that no rotation
has crossed has that file (`LinesCurrent`). A line that was not written was therefore
crossed, or a reopening failed.

**Configuration.** `CfgInv`: the cold setting of the running server is the one it started
with, and while no write has been met half-way and the file has not been reset, whoever
has read the file carries the first secret, and so do the server and, when nobody is
writing, the file (`SecretsFirst`). A load that meets an emptied file makes a new secret,
which `damaged` records; `--maintenance setup` writes a file without one, which `wiped`
records. That reloads settle needs more (`SettleInv`): at most one of the two loads of the
server is at work, and what it carries is what the file held when it took the file's time,
or an edit has made the file newer since (`Settling`). Then, when the poller has seen the
last time, the load that followed did not fail (`refused`) and no load is at work, the
settings in memory that are compared agree with the file.

**Backups.** `BackupInv`: the files that a job has listed for removal are the oldest ones of
the command (`OldestFirst`), as long as the cap allows each single file (`Fits`). While
every backup that the command begins is completed, what is listed still exceeds the cap
with the newer files (`TooMuch`): other jobs also remove the oldest first, so what lies
after it is only added to, and a listing that saw a part of a file counted too little and
not too much. The newest file is then on no list (`NewestSpared`), every file is whole or
the one being written (`AllUsable`), and what the command has completed never runs out
(`Stays`). Any number of retentions may overlap.

**Restore.** `RestoreInv`: an archive that nothing has crossed holds what was committed, in
`server.db` or with the archived log (`ArchivesHonest`), and a restore that runs alone
works from such an archive on a stopped server without a log, and what it has copied is
in place (`RestoreAlone`).

**Service manager.** `ServiceInv` is about the rest of the steps: the group and the user
come first and in this order (`AccountFirst`, `AccountOrder`), and while no tool has failed, what
an installation has to leave behind is either there or among the steps still to do, or, of
the enabling, was passed over (`Accounted`, `OnCourse`). So it holds at the end whatever earlier commands, faults and interruptions
have left, and the only way to fail is that no number is free for the account.

**Requests.** `StatsInv` counts: the requests in the steps before each increment make up the
difference of the counters (`Headroom` is what a reset to 1 leaves room for: the requests
still on their way to the count of the day). `HashDecides` says that whoever was let in had
the token whose hash `sync.Once` has taken, whatever is configured now.

**Forms.** `FormsInv`: a tab whose page was requested once the cookie had settled shows
forms with the cookie's value (`TabFits`), a page that was refused was requested before
that (`TabShape`), and no later answer brings another cookie; so the settled cookie, the forms and the
check of the server agree. It is assumed that no announcement bears the name of one of the
other forms.

**Client.** `CliInv`: a lookup of the interface is under way only while the screen says so, and
then for the query entered last, whatever is in the input field (`OneLookup`), and only the interface and a finished run
hold an answer (`AnswerHasScreen`). A second Enter while an answer is awaited is what the
second part is about.

**Routing.** `RouteInv`: the servers tried and those still to try are, in this order, the
endpoints of the query (`EndpointsInOrder`), RDAP is only asked by GraphQL, and an answer of
RDAP comes from the last server tried. The property then follows from a lemma that the
suffix matched by the longest-first search of `GetDomainEndpoints` is the longest there
is, and one that the first entry of a table that holds a number is the one used.

**Parsing.** `TruncatedSaysLess` is an action property: one more line leaves a field as it is,
fills one that says nothing yet, or appends to it (`FoundExtends`, `WithExtends`), so that
what a shorter answer gives is a prefix, apart from the one field of the line in which the
answer ended. The invariant it needs is only that fields hold sequences and that the cut
line is one of the form (`ParseInv`).

**Owner search.** `SearchInv`: the standing records (those that match and are not touched
while the client reads) with a place on the first n pages have been shown, or are in the page just
read (`PagesRead`), and a first page without records was read when none stood
(`EmptyIsEmpty`). An upsert moves a record to the front, so the place of a record that
stands never decreases, and none passes from a page still to be read to one that has
been. The lemmas count the
records before one: places are numbered from 1 without a gap, and no two are alike.

**The composition.** Every step of `MCRequests` is a step of one of its seven components
that leaves the variables of the others alone, so it implements each of their
specifications (`EachIsItself`), and the theorems about them hold of it. The bounds in
`RequestsTypeOK` say that counters do not invent anything: `CountedOnce` adds, to
each counter of `stats.go`, the requests that may still move it, and bounds the sum
by what has arrived; `FormBounds` does the same for mails sent and forms posted, and
`TabsTyped` says that every token in a browser or a form was issued.

### What is only model-checked

- Liveness (`DueIsServed`, `RunsEnd`, `LoopReturns`, `EveryRequestEnds`, `UpdatesReturn`):
  TLAPS has no rule for fairness that its provers here can apply.
- What recursive functions compute from their whole argument, such as the precedence of the
  configuration: the equations of a recursive function or a fold need an induction
  theorem that takes an operator, which these provers cannot instantiate. Where it is enough
  that a finite set has a least or a greatest element, as with the newest backup and the
  search for a suffix, the well-founded order of the subsets is used instead
  (`LeastNat`, `GreatestOfFinite`).
- The statements of section 3 that the code refutes.

To repeat everything, in this directory:

    tlc -config MCScheduler_deadlines.cfg MCScheduler.tla     # and each MC..._*.cfg
    tlapm SchedulerProofs.tla                                 # and each ...Proofs.tla

## 5. Not modelled

| Part | Why |
|---|---|
| cron parser (`scheduler/cron.go`) | one pure function per field; `Cron` is the set of instants it yields, and only that they come after is used |
| bodies of the scheduler's handlers (`scheduler/tasks.go`) | calls of hooks; those with state of their own are modelled with their component |
| Redis/Valkey cache backends | one network call each; the callers rely on `CacheContract` alone |
| database set-up (`src/db`) | statements run once at start; the two tables with behaviour are in `Scheduler` and `WhoisLookup` |
| Tor (`src/tor`) | configuration text and a child process; its start and stop are steps of `ServerLifecycle` |
| email (`src/email`) | templates and SMTP calls that are not retried |
| metrics (`src/metrics`) | counters that nothing reads back |
| security primitives (`src/security`) | pure checks on one request, decided in `EnterChain` |
| remaining handlers: health, static files, markdown, debug, API description, GraphQL schema, Swagger page | read state or render text, and change nothing |
| client rendering (`src/client/tui` views, formats) | text; what is shown, and when, is in `CliClient` |
| common libraries (`src/common`, `src/mode`, `src/runtime`) | pure helpers |
| Windows variants and `service/daemon.go` | the same sequences with other system calls; the Unix ones are modelled |

External to `src/`, and modelled by what the code expects of them: the registries and
RDAP servers, IANA's bootstrap files, the GeoIP and release servers, the ACME client,
init systems, SQLite with its write-ahead log, the file system, signals and the clock.
