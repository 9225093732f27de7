----------------------------- MODULE ConfigReload -----------------------------
(***************************************************************************)
(* server.yml and the running configuration: LoadServerConfig and Save of  *)
(* config.go, ConfigManager of reload.go, the SIGHUP handler, and the      *)
(* commands that rewrite the file.  A configuration is abstracted to one   *)
(* setting that is reloaded (hot), one that needs a restart (cold), one of *)
(* the section web:, which the comparison skips (web), and the token and   *)
(* installation secret (secret, 0 if absent).  Three parties load the      *)
(* file: the poller, the SIGHUP handler and a command.                     *)
(***************************************************************************)
EXTENDS Naturals

CONSTANTS
  MaxEdits,       \* bound: edits by the operator
  MaxReloads,     \* bound: SIGHUPs
  MaxCommands     \* bound: commands

ASSUME ConfigReloadAssumption ==
  MaxEdits \in Nat /\ MaxReloads \in Nat /\ MaxCommands \in Nat

Loaders == {"poller", "sighup", "command"}
Empty == [hot |-> 0, cold |-> 0, web |-> 0, secret |-> 0]
MaxSecret == 4
MaxHot == MaxEdits + MaxCommands
Configs == [hot : 0..MaxHot, cold : 0..MaxEdits, web : 0..MaxEdits, secret : 0..MaxSecret]

VARIABLES
  file,       \* what server.yml holds; an empty file parses as the defaults
  live,       \* ConfigManager.current: the configuration the server runs with
  flags,      \* whether live has what the command line and loadConfig put over it
  watching,   \* the ConfigManager is up
  noticed,    \* lastFileModTime is the time of the file
  pending,    \* pendingRestart
  load,       \* load[p]: where party p stands, what it has read, and its snapshot
  refused,    \* history variable: the poller's last load failed, and no load since has
              \* succeeded
  stale,      \* history variable: a change came between the server's first load and
              \* its watch, or two of the server's loads overlapped
  damaged,    \* history variable: a file was read in the middle of a write, or two
              \* writes overlapped
  wiped,      \* history variable: the setup command has begun to reset the file
  edits, reloads, commands, secrets

cfgVars == <<file, live, flags, watching, noticed, pending, load, refused, stale, damaged,
             wiped, edits, reloads, commands, secrets>>

Idle == [at |-> "idle", cfg |-> Empty, old |-> Empty]
Busy(p) == load[p].at # "idle"
Writing(p) == load[p].at \in {"write", "rewrite"}
\* p has a configuration that it will write, or is writing it.
Saving(p) == Writing(p) \/ load[p].at \in {"change", "truncate", "retruncate"}
Move(p, where) == load' = [load EXCEPT ![p].at = where]
Done(p) == load' = [load EXCEPT ![p] = Idle]

\* What is compared, but for the settings that need a restart: not the section web:,
\* whose field has the tag yaml:"-".
Hot(c) == <<c.hot, c.secret>>
Changed(c, d) == Hot(c) # Hot(d)
-----------------------------------------------------------------------------
CfgInit ==
  /\ file = [hot |-> 0, cold |-> 0, web |-> 0, secret |-> 1]
  /\ live = file /\ flags = TRUE
  /\ watching = FALSE /\ noticed = FALSE /\ pending = FALSE
  /\ load = [p \in Loaders |-> Idle]
  /\ refused = FALSE /\ stale = FALSE /\ damaged = FALSE /\ wiped = FALSE
  /\ edits = 0 /\ reloads = 0 /\ commands = 0 /\ secrets = 1

\* The operator replaces the file, with another setting of one kind.
EditFile ==
  /\ edits < MaxEdits
  /\ edits' = edits + 1
  /\ file' \in {[file EXCEPT !.hot = MaxCommands + edits'], [file EXCEPT !.cold = edits'],
                [file EXCEPT !.web = edits']}
  /\ noticed' = FALSE
  /\ damaged' = (damaged \/ \E p \in Loaders : Saving(p))
  /\ stale' = (stale \/ ~watching)
  /\ UNCHANGED <<live, flags, watching, pending, load, refused, wiped, reloads, commands,
                 secrets>>

\* Start makes the ConfigManager: it notes the time of the file as it is now.
StartWatch ==
  /\ ~watching
  /\ watching' = TRUE /\ noticed' = TRUE
  /\ UNCHANGED <<file, live, flags, pending, load, refused, stale, damaged, wiped, edits,
                 reloads, commands, secrets>>

\* checkFileChanges: the file is loaded when its time has changed.
Poll ==
  /\ watching /\ ~Busy("poller") /\ ~noticed
  /\ noticed' = TRUE
  /\ Move("poller", "read")
  /\ stale' = (stale \/ Busy("sighup"))
  /\ UNCHANGED <<file, live, flags, watching, pending, refused, damaged, wiped, edits,
                 reloads, commands, secrets>>

\* SIGHUP: the file is loaded whatever its time.
Hangup ==
  /\ watching /\ ~Busy("sighup") /\ reloads < MaxReloads
  /\ reloads' = reloads + 1
  /\ Move("sighup", "read")
  /\ stale' = (stale \/ Busy("poller"))
  /\ UNCHANGED <<file, live, flags, watching, noticed, pending, refused, damaged, wiped,
                 edits, commands, secrets>>

\* --maintenance mode: LoadServerConfig, to change and Save what it returns; or
\* --maintenance setup: Default, to Save it.
Command ==
  /\ ~Busy("command") /\ commands < MaxCommands
  /\ commands' = commands + 1
  /\ \/ Move("command", "read") /\ UNCHANGED wiped
     \/ load' = [load EXCEPT !["command"] = [at |-> "truncate", cfg |-> Empty, old |-> Empty]]
        /\ wiped' = TRUE
  /\ UNCHANGED <<file, live, flags, watching, noticed, pending, refused, stale, damaged,
                 edits, reloads, secrets>>

\* LoadServerConfig fails: the file cannot be read, or does not parse.  The poller has
\* noted its time by then, and does not look at it again before it changes.
ReadFails(p) ==
  /\ load[p].at = "read"
  /\ Done(p)
  /\ refused' = (refused \/ p = "poller")
  /\ UNCHANGED <<file, live, flags, watching, noticed, pending, stale, damaged, wiped,
                 edits, reloads, commands, secrets>>

\* LoadServerConfig reads and parses; a configuration without token or secret gets
\* new ones, and is saved with them (once for each: one Save here).
ReadFile(p) ==
  /\ load[p].at = "read"
  /\ IF file.secret = 0
     THEN /\ secrets < MaxSecret
          /\ secrets' = secrets + 1
          /\ load' = [load EXCEPT ![p].cfg = [file EXCEPT !.secret = secrets'],
                                  ![p].at = "retruncate"]
     ELSE /\ UNCHANGED secrets
          /\ load' = [load EXCEPT ![p].cfg = file,
                                  ![p].at = IF p = "command" THEN "change" ELSE "compare"]
  /\ damaged' = (damaged \/ \E q \in Loaders : Writing(q))
  /\ refused' = (refused /\ p = "command")
  /\ UNCHANGED <<file, live, flags, watching, noticed, pending, stale, wiped, edits,
                 reloads, commands>>

\* The command changes a setting of what it has loaded.
ChangeMode ==
  /\ load["command"].at = "change"
  /\ load' = [load EXCEPT !["command"].cfg.hot = commands, !["command"].at = "truncate"]
  /\ UNCHANGED <<file, live, flags, watching, noticed, pending, refused, stale, damaged,
                 wiped, edits, reloads, commands, secrets>>

\* Save: os.WriteFile truncates server.yml in place, ...
SaveTruncate(p) ==
  /\ load[p].at \in {"truncate", "retruncate"}
  /\ file' = Empty /\ noticed' = FALSE
  /\ Move(p, IF load[p].at = "truncate" THEN "write" ELSE "rewrite")
  /\ damaged' = (damaged \/ \E q \in Loaders \ {p} : Saving(q))
  /\ UNCHANGED <<live, flags, watching, pending, refused, stale, wiped, edits, reloads,
                 commands, secrets>>

\* ... and writes it.
SaveWrite(p) ==
  /\ Writing(p)
  /\ file' = load[p].cfg /\ noticed' = FALSE
  /\ IF load[p].at = "write" THEN Done(p)
     ELSE Move(p, IF p = "command" THEN "change" ELSE "compare")
  /\ stale' = (stale \/ ~watching)
  /\ UNCHANGED <<live, flags, watching, pending, refused, damaged, wiped, edits, reloads,
                 commands, secrets>>

\* applyConfigChanges takes its snapshot under the read lock.
Snapshot(p) ==
  /\ load[p].at = "compare"
  /\ load' = [load EXCEPT ![p].old = live, ![p].at = "apply"]
  /\ UNCHANGED <<file, live, flags, watching, noticed, pending, refused, stale, damaged,
                 wiped, edits, reloads, commands, secrets>>

\* The whole of the new configuration is copied over the live one.
MutantApply(p) ==
  /\ load[p].at = "apply"
  /\ IF Changed(load[p].cfg, load[p].old) \/ flags
     THEN live' = load[p].cfg /\ flags' = FALSE
     ELSE UNCHANGED <<live, flags>>
  /\ Move(p, "flag")
  /\ UNCHANGED <<file, watching, noticed, pending, refused, stale, damaged, wiped, edits,
                 reloads, commands, secrets>>

\* applyHotReloadSettings, under the lock, if a setting that is not cold differs: the
\* new configuration with the cold settings of the live one.  What the command line
\* had set counts as a difference, and is overwritten.
Apply(p) ==
  /\ load[p].at = "apply"
  /\ IF Changed(load[p].cfg, load[p].old) \/ flags
     THEN live' = [load[p].cfg EXCEPT !.cold = live.cold] /\ flags' = FALSE
     ELSE UNCHANGED <<live, flags>>
  /\ Move(p, "flag")
  /\ UNCHANGED <<file, watching, noticed, pending, refused, stale, damaged, wiped, edits,
                 reloads, commands, secrets>>

\* The restart is flagged only if nothing was reloaded.
MutantFlag(p) ==
  /\ load[p].at = "flag"
  /\ pending' = (pending \/ (load[p].cfg.cold # load[p].old.cold /\ ~Changed(load[p].cfg, load[p].old)))
  /\ Done(p)
  /\ UNCHANGED <<file, live, flags, watching, noticed, refused, stale, damaged, wiped,
                 edits, reloads, commands, secrets>>

\* pendingRestart, under the lock again; nothing in the server clears it.
Flag(p) ==
  /\ load[p].at = "flag"
  /\ pending' = (pending \/ load[p].cfg.cold # load[p].old.cold)
  /\ Done(p)
  /\ UNCHANGED <<file, live, flags, watching, noticed, refused, stale, damaged, wiped,
                 edits, reloads, commands, secrets>>

LoadStep(p) == ReadFails(p) \/ ReadFile(p) \/ SaveTruncate(p) \/ SaveWrite(p)
ApplyStep(p) == Snapshot(p) \/ Apply(p) \/ Flag(p)

CfgNext ==
  \/ EditFile \/ StartWatch \/ Poll \/ Hangup \/ Command \/ ChangeMode
  \/ \E p \in Loaders : LoadStep(p) \/ ApplyStep(p)

CfgSpec == CfgInit /\ [][CfgNext]_cfgVars
-----------------------------------------------------------------------------
CfgTypeOK ==
  /\ file \in Configs /\ live \in Configs
  /\ flags \in BOOLEAN /\ watching \in BOOLEAN /\ noticed \in BOOLEAN
  /\ pending \in BOOLEAN
  /\ refused \in BOOLEAN /\ stale \in BOOLEAN /\ damaged \in BOOLEAN /\ wiped \in BOOLEAN
  /\ load \in [Loaders -> [at : {"idle", "read", "change", "truncate", "write", "retruncate",
                                 "rewrite", "compare", "apply", "flag"},
                           cfg : Configs, old : Configs]]
  /\ secrets \in 1..MaxSecret

\* Once the poller has come round and no load of the server is under way, the server
\* runs with the settings of the file that need no restart and that are compared (not
\* those of web:), and says that a restart is pending if the cold ones differ; unless the
\* poller's load failed, which it does not repeat, an edit fell before the watch began,
\* or two loads overlapped (checkFileChanges, applyConfigChanges).  The flag may also be
\* up without need: nothing takes it down.
ReloadSettles ==
  watching /\ noticed /\ ~Busy("poller") /\ ~Busy("sighup")
           /\ ~refused /\ ~stale /\ (\A p \in Loaders : ~Writing(p)) =>
    /\ Hot(live) = Hot(file)
    /\ live.cold # file.cold => pending

\* What needs a restart is never changed in the running server, and the installation
\* secret, in the file and in the server, is still the first one as long as nobody has read
\* or written the file in the middle of another's write, nor begun to reset it with
\* --maintenance setup (applyHotReloadSettings; config.go:933, "Loss of this field makes
\* encrypted PGP private keys unrecoverable").
IdentityKept ==
  /\ live.cold = 0
  /\ ~damaged /\ ~wiped /\ (\A p \in Loaders : ~Writing(p)) => file.secret = 1
  /\ ~damaged /\ ~wiped => live.secret = 1

\* AI.md:12086 "CLI flags (highest priority)": a reload does not take back what the
\* command line has set.
FlagsInForce == flags

\* reload.go:26-29 "anything else as pending-restart": once the poller has come round, the
\* section web: of the file is in force as well.  The code refutes it.
WebReloaded ==
  watching /\ noticed /\ ~Busy("poller") /\ ~Busy("sighup")
           /\ ~refused /\ ~stale /\ (\A p \in Loaders : ~Writing(p)) =>
    live.web = file.web

\* reload.go:26 "polls server.yml for external edits and hot-reloads": also an edit whose
\* first load failed is taken over in the end.  The code refutes it.
FailedLoadRepeated ==
  watching /\ noticed /\ ~Busy("poller") /\ ~Busy("sighup")
           /\ ~stale /\ (\A p \in Loaders : ~Writing(p)) =>
    Hot(live) = Hot(file)
=============================================================================
