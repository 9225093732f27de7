---------------------------- MODULE ServiceManager ----------------------------
(***************************************************************************)
(* caswhois --service: the commands that install, remove and control the   *)
(* service, as the sequences of steps they are.  Each step runs a tool of  *)
(* the host or writes a file, and any of them may fail; some errors end    *)
(* the command, some are ignored; nothing is undone, and the next command  *)
(* starts from what the last one left.  A command that asks for privileges *)
(* runs itself again and is here the elevated run alone.                   *)
(***************************************************************************)
EXTENDS Naturals, Sequences, FiniteSets

CONSTANTS
  Managers,           \* the init systems detectServiceManager may find
  SystemIDs,          \* the range findAvailableSystemID searches, downwards
  TakenIDs,           \* those of other users and groups
  MaxServiceCommands  \* bound: commands issued

ASSUME ServiceAssumption ==
  /\ Managers \subseteq {"systemd", "openrc", "sysv", "runit", "rcd", "launchd"}
  /\ SystemIDs \subseteq Nat \ {0} /\ IsFiniteSet(SystemIDs) /\ TakenIDs \subseteq SystemIDs
  /\ MaxServiceCommands \in Nat

Scopes == {"system", "user"}
NoID == 0

VARIABLES
  manager,   \* the init system
  gid, uid,  \* of the account the server drops to, or NoID
  unit,      \* unit[scope]: the unit file, script or directory exists
  enabled,   \* enabled[scope]: it is started at boot
  running,   \* running[scope]
  command,   \* the last command: its steps to do, its outcome, whether a tool has failed
             \* and whether enabling was skipped for want of one
  orders     \* commands issued so far

serviceVars == <<manager, gid, uid, unit, enabled, running, command, orders>>

NoCommand == [name |-> "none", scope |-> "system", todo |-> <<>>, outcome |-> "ok",
              fault |-> FALSE, skipped |-> FALSE, id |-> NoID]
-----------------------------------------------------------------------------
\* The unit is written, the init system told, the service enabled and started; the
\* first error but that of the user's daemon-reload ends the installation.
installSystemd == <<"write", "rescan", "enable", "start">>
installSystemdUser == <<"write", "try rescan", "enable", "start">>
installOpenRC == <<"write", "enable", "start">>
installSysV == <<"write", "enable", "start">>    \* to enable is update-rc.d or chkconfig
installRCD == <<"write", "enable", "start">>     \* to enable is a line of /etc/rc.conf
installRunit == <<"write", "enable">>            \* runit starts what it finds
installLaunchd == <<"write", "load">>            \* to load both enables and starts
installLaunchdUser == <<"write", "load">>

InstallSystemSteps ==
  CASE manager = "systemd" -> installSystemd
    [] manager = "openrc" -> installOpenRC
    [] manager = "sysv" -> installSysV
    [] manager = "runit" -> installRunit
    [] manager = "rcd" -> installRCD
    [] manager = "launchd" -> installLaunchd

\* launchd manages its own accounts.
installSystemService ==
  (IF manager = "launchd" THEN <<>> ELSE <<"group", "user">>) \o InstallSystemSteps

installUserService == IF manager = "systemd" THEN installSystemdUser ELSE installLaunchdUser

InstallSteps(scope) == IF scope = "system" THEN installSystemService ELSE installUserService

\* uninstall: every error is ignored.
UninstallSteps ==
  CASE manager = "rcd" -> <<"try stop", "try remove", "try disable">>
    [] manager = "launchd" -> <<"try stop", "try unload", "try remove">>
    [] OTHER -> <<"try stop", "try disable", "try remove">>

\* disable: the last error is returned.
DisableSteps ==
  IF manager = "launchd" THEN <<"try stop", "unload">> ELSE <<"try stop", "disable">>

\* start, stop, restart; reload falls back to restart where there is no verb for it.
ControlSteps(name) ==
  CASE name = "restart" /\ manager = "launchd" -> <<"try stop", "start">>
    [] name = "reload" /\ manager = "launchd" -> <<"try stop", "start">>
    [] name = "reload" /\ manager \in {"openrc", "sysv"} -> <<"restart">>
    [] OTHER -> <<name>>

Names == {"install", "uninstall", "disable", "start", "stop", "restart", "reload"}

isSystemServiceInstalled == unit["system"]

ServiceInit ==
  /\ manager \in Managers
  /\ gid = NoID /\ uid = NoID
  /\ unit = [s \in Scopes |-> FALSE]
  /\ enabled = [s \in Scopes |-> FALSE]
  /\ running = [s \in Scopes |-> FALSE]
  /\ command = NoCommand
  /\ orders = 0

\* Execute: what needs privileges it does not have is refused; without them an
\* installation is the user's own, where the init system has such a thing.
Execute(name, elevated) ==
  /\ command.todo = <<>> /\ orders < MaxServiceCommands
  /\ orders' = orders + 1
  /\ LET scope == IF name = "install" THEN (IF elevated THEN "system" ELSE "user")
                  ELSE IF isSystemServiceInstalled \/ manager \notin {"systemd", "launchd"}
                       THEN "system" ELSE "user"
         refused == IF name = "install" THEN scope = "user" /\ manager \notin {"systemd", "launchd"}
                    ELSE isSystemServiceInstalled /\ ~elevated
         steps == CASE name = "install" -> InstallSteps(scope)
                    [] name = "uninstall" -> UninstallSteps
                    [] name = "disable" -> DisableSteps
                    [] OTHER -> ControlSteps(name)
     IN  command' = [NoCommand EXCEPT !.name = name, !.scope = scope,
                       !.todo = IF refused THEN <<>> ELSE steps,
                       !.outcome = IF refused THEN "refused" ELSE "under way"]
  /\ UNCHANGED <<manager, gid, uid, unit, enabled, running>>

Step == IF command.todo = <<>> THEN "none" ELSE Head(command.todo)
Scope == command.scope

\* The step is done, with or without success, or skipped; the command goes on.
Advance(fault, skip) ==
  command' = [command EXCEPT !.todo = Tail(@), !.fault = @ \/ fault, !.skipped = @ \/ skip,
                !.outcome = IF Len(command.todo) = 1 THEN "ok" ELSE @]

\* The step has failed and the command returns its error.
Return(fault) ==
  command' = [command EXCEPT !.todo = <<>>, !.fault = @ \/ fault, !.outcome = "error"]
-----------------------------------------------------------------------------
\* findAvailableSystemID: the highest number that is neither a user's nor a group's.
AvailableIDs == SystemIDs \ (TakenIDs \cup {gid, uid})
findAvailableSystemID == CHOOSE i \in AvailableIDs : \A j \in AvailableIDs : j <= i

\* groupadd is called although the group is there, and refuses.
MutantNeedsGroup == TRUE

\* user.LookupGroup finds nothing.
NeedsGroup == gid = NoID

\* ensureServiceUser, first half: a number, and a group with it unless there is one.
EnsureGroup ==
  /\ Step = "group"
  /\ IF uid # NoID
     THEN /\ command' = [command EXCEPT !.todo = Tail(Tail(@))]
          /\ UNCHANGED gid
     ELSE IF AvailableIDs = {} \/ (NeedsGroup /\ gid # NoID)
     THEN Return(FALSE) /\ UNCHANGED gid
     ELSE /\ command' = [command EXCEPT !.todo = Tail(@), !.id = findAvailableSystemID]
          /\ gid' = IF NeedsGroup THEN findAvailableSystemID ELSE gid
  /\ UNCHANGED <<manager, uid, unit, enabled, running, orders>>

\* ... second half: the user with that number.
EnsureUser ==
  /\ Step = "user"
  /\ uid' = command.id
  /\ Advance(FALSE, FALSE)
  /\ UNCHANGED <<manager, gid, unit, enabled, running, orders>>

\* What a tool refuses to do, whatever its health.
Possible(step) ==
  CASE step \in {"enable", "load"} -> unit[Scope]
    [] step \in {"start", "restart", "reload"} -> unit[Scope] /\ (manager = "rcd" => enabled[Scope])
    [] step = "disable" -> IF manager = "runit" THEN enabled[Scope] ELSE unit[Scope] \/ manager = "rcd"
    [] OTHER -> TRUE

Set(f, v) == [f EXCEPT ![Scope] = v]

\* A step that works.
Work ==
  /\ Step \notin {"none", "group", "user"} /\ Possible(Step)
  /\ unit' = CASE Step = "write" -> Set(unit, TRUE)
               [] Step = "try remove" -> Set(unit, FALSE)
               [] OTHER -> unit
  /\ enabled' = CASE Step \in {"enable", "load"} -> Set(enabled, TRUE)
                  [] Step \in {"disable", "try disable", "unload", "try unload"} -> Set(enabled, FALSE)
                  [] OTHER -> enabled
  /\ running' = CASE Step \in {"start", "restart", "load"} -> Set(running, TRUE)
                  [] Step \in {"stop", "try stop", "unload", "try unload"} -> Set(running, FALSE)
                  [] OTHER -> running
  /\ Advance(FALSE, FALSE)
  /\ UNCHANGED <<manager, gid, uid, orders>>

\* A step that does not: a file may be left half written.
Fail ==
  /\ Step # "none"
  /\ IF Step \in {"try stop", "try rescan", "try disable", "try unload", "try remove"}
     THEN Advance(TRUE, FALSE) ELSE Return(TRUE)
  /\ unit' \in IF Step = "write" THEN {unit, Set(unit, TRUE)} ELSE {unit}
  /\ UNCHANGED <<manager, gid, uid, enabled, running, orders>>

\* installSysV finds neither update-rc.d nor chkconfig, installRCD cannot read rc.conf: both
\* go on to the start without a word.
SkipEnable ==
  /\ Step = "enable" /\ manager \in {"sysv", "rcd"}
  /\ Advance(FALSE, TRUE)
  /\ UNCHANGED <<manager, gid, uid, unit, enabled, running, orders>>

\* The init system starts at boot what is enabled, runit at once; a server may die.
HostStarts(s) ==
  /\ unit[s] /\ enabled[s] /\ ~running[s]
  /\ running' = [running EXCEPT ![s] = TRUE]
  /\ UNCHANGED <<manager, gid, uid, unit, enabled, command, orders>>

HostStops(s) ==
  /\ running[s] /\ running' = [running EXCEPT ![s] = FALSE]
  /\ UNCHANGED <<manager, gid, uid, unit, enabled, command, orders>>

ServiceNext ==
  \/ \E name \in Names, elevated \in BOOLEAN : Execute(name, elevated)
  \/ EnsureGroup \/ EnsureUser \/ Work \/ Fail \/ SkipEnable
  \/ \E s \in Scopes : HostStarts(s) \/ HostStops(s)

ServiceSpec == ServiceInit /\ [][ServiceNext]_serviceVars
-----------------------------------------------------------------------------
ServiceTypeOK ==
  /\ manager \in Managers /\ gid \in SystemIDs \cup {NoID} /\ uid \in SystemIDs \cup {NoID}
  /\ unit \in [Scopes -> BOOLEAN] /\ enabled \in [Scopes -> BOOLEAN]
  /\ running \in [Scopes -> BOOLEAN]
  /\ command.outcome \in {"ok", "error", "refused", "under way"}
  /\ (command.todo = <<>>) = (command.outcome # "under way")
  /\ orders \in 0..MaxServiceCommands

\* An installation repeated after any sequence of failed and interrupted commands
\* succeeds once the tools do and a number is free; then the service is there with its
\* account, and started at boot unless the sysv or rc.d host had nothing to enable it with,
\* which the code passes over (Install, ensureServiceUser and the functions under them).
RetryInstalls ==
  command.name = "install" /\ ~command.fault =>
    /\ command.outcome = "error" => AvailableIDs = {} /\ uid = NoID
    /\ command.outcome = "ok" =>
         /\ unit[Scope]
         /\ enabled[Scope] \/ (command.skipped /\ manager \in {"sysv", "rcd"})
         /\ Scope = "system" /\ manager # "launchd" => uid # NoID /\ gid # NoID

\* install_unix.go:383, "Enable at boot", of what installSysV does before it reports the
\* service as installed.
InstalledEnabled ==
  command.name = "install" /\ command.outcome = "ok" => enabled[Scope]

\* install_unix.go:34-36, of the UID and the GID: "they are always set to the same
\* number".
SameIDs == uid # NoID => uid = gid
=============================================================================
