---------------------------- MODULE ServiceInstall ----------------------------
(***************************************************************************)
(* internal/service: install, uninstall, try, status and the dry run.      *)
(*                                                                         *)
(* A command is a sequence of steps on files of the user's home and on     *)
(* systemd units.  Any step may return an error, which ends the command    *)
(* where it stands, and the process may die in the middle of one.  "The    *)
(* files ARE the state" (gnomekeyring.go): the next command has nothing    *)
(* else to go by.  A file that is written in place is torn when the write  *)
(* is cut short: it is there, and is neither ours nor the user's.          *)
(*                                                                         *)
(* Two files of the user may be in the way and are moved to a backup: the  *)
(* D-Bus activation file ("mask") and the autostart override ("shadow").   *)
(***************************************************************************)
EXTENDS Naturals, Sequences

CONSTANTS
    Versions,      \* contents that the user gives a file of his own
    BackendArgs,   \* values of --backend; "auto" is the empty one
    MaxFaults,     \* bound: steps that fail and processes that die
    MaxEdits       \* bound: changes that the user makes to his files

Keyrings == {"gnome-keyring", "gopass"}

ASSUME InstallAssumption ==
    /\ {"absent", "ours", "torn"} \cap Versions = {}
    /\ BackendArgs \subseteq Keyrings \cup {"auto"}
    /\ MaxFaults \in Nat
    /\ MaxEdits \in Nat

Owners == Keyrings \cup {"none", "dispatcher"}
Modes == {"remote", "local", "full"}
Kept == {"mask", "shadow"}
Contents == Versions \cup {"absent", "ours", "torn"}

allUnitNames == <<"bus.socket", "bus.service", "backend.service", "proxy">>
Units == {allUnitNames[i] : i \in 1..4}

VARIABLES
    place,        \* the two files of the user's, or ours in their place
    backup,       \* the same with the suffix .pre-dispatcher
    dropIn,       \* the drop-in of gnome-keyring-daemon.service is there
    units,        \* unit files
    enabled,      \* units that start at login
    active,       \* units that run
    backend,      \* the daemon in the ExecStart of backend.service
    config,       \* topology in the user's configuration
    trialConfig,  \* topology in the configuration of the trial
    owner,        \* provider that owns org.freedesktop.secrets
    dying,        \* the owner has got SIGTERM and has not exited yet
    cmd,          \* the command under way and its options
    pc,           \* its next step
    provider,     \* what DetectProvider told it
    changed,      \* restoreGnomeKeyring changed something
    done,         \* history: the changes it made
    planned,      \* history: what Plan said it would do
    overtaken,    \* history: it started the proxy's unit while the old one was exiting
    trial,        \* where Try is
    last,         \* history: the command that returned nil, until the next one or an edit
    latest,       \* history: the user's own version of each file
    edits,        \* history: how often the user changed them
    faults,       \* history: steps that failed, processes that died
    disturbed     \* history: a fault, or an edit while we are installed

home == <<place, backup, dropIn, units, backend, config, trialConfig>>
system == <<enabled, active, owner, dying>>
notes == <<planned, overtaken>>
command == <<cmd, pc, provider, changed, done, notes, trial, last>>
user == <<latest, edits>>
vars == <<home, system, command, user, faults, disturbed>>

-----------------------------------------------------------------------------
(* What a mode installs, and what Plan says *)

Needed(mode) == IF mode = "remote" THEN {"proxy"} ELSE Units

When(c, s) == IF c THEN s ELSE <<>>
Change(op, target) == <<[op |-> op, target |-> target]>>

\* Who owns org.freedesktop.secrets, told by the owner's executable.
DetectProvider == owner

\* A file that is there and is not ours is taken for the user's.
UsersOwn(p) == place[p] \notin {"absent", "ours"}

\* The writes and removals of the loop over allUnitNames.
UnitChange(mode, n) ==
    When(n \in Needed(mode) \cup units, Change(IF n \in Needed(mode) THEN "write" ELSE "remove", n))

UnitChanges(mode) ==
    UnitChange(mode, allUnitNames[1]) \o UnitChange(mode, allUnitNames[2])
    \o UnitChange(mode, allUnitNames[3]) \o UnitChange(mode, allUnitNames[4])

SystemctlChanges(mode, start) ==
    Change("run", "daemon-reload")
    \o When(mode # "remote", Change("enable", "bus.socket"))
    \o Change("enable", "proxy")
    \o When(start, When(mode # "remote", Change("start", "bus.socket")) \o Change("start", "proxy"))

Restart == Change("run", "daemon-reload") \o Change("run", "try-restart")

UnmaskChanges ==
    When(place["mask"] = "ours", Change(IF backup["mask"] = "absent" THEN "remove" ELSE "restore", "mask"))

\* Mutant: Plan forgets that restoreGnomeKeyring renames the backup back.
PlanRemoveOnly ==
    UnmaskChanges
    \o When(dropIn, Change("remove", "dropIn"))
    \o When(place["shadow"] = "ours", Change("remove", "shadow"))
    \o When(dropIn \/ place["shadow"] = "ours", Restart)

PlanRemote ==
    UnmaskChanges
    \o When(dropIn, Change("remove", "dropIn"))
    \o When(place["shadow"] = "ours",
            Change("remove", "shadow") \o When(backup["shadow"] # "absent", Change("restore", "shadow")))
    \o When(dropIn \/ place["shadow"] = "ours", Restart)

PlanTakeover ==
    When(UsersOwn("mask"), Change("backup", "mask"))
    \o Change("write", "mask")
    \o When(DetectProvider = "gnome-keyring",
            Change("write", "dropIn")
            \o When(UsersOwn("shadow"), Change("backup", "shadow"))
            \o Change("write", "shadow")
            \o Restart)
    \o When(DetectProvider \notin {"none", "dispatcher"}, Change("signal", "owner"))

Plan(mode, start) ==
    Change("write", "config")
    \o (IF mode = "remote" THEN PlanRemote ELSE PlanTakeover)
    \o UnitChanges(mode)
    \o SystemctlChanges(mode, start)

\* The private backend: what --backend names, or the daemon that owns the
\* name now if that is gnome-keyring, and gopass otherwise.
resolveBackendExec(arg, kind) ==
    IF arg # "auto" THEN arg
    ELSE IF kind = "gnome-keyring" THEN "gnome-keyring" ELSE "gopass"

-----------------------------------------------------------------------------
(* Status *)

Masked == place["mask"] = "ours"
Shadowed == place["shadow"] = "ours"

\* The problems that Status reports.
Problems ==
    IF units = {}
    THEN {x \in {"mask left", "drop-in left", "shadow left"} :
            \/ x = "mask left" /\ Masked
            \/ x = "drop-in left" /\ dropIn
            \/ x = "shadow left" /\ Shadowed}
    ELSE IF "bus.socket" \in units
    THEN {x \in {"not in front", "not masked", "inconsistent", "inactive"} :
            \/ x = "not in front" /\ DetectProvider # "dispatcher"
            \/ x = "not masked" /\ ~Masked
            \/ x = "inconsistent" /\ dropIn # Shadowed
            \/ x = "inactive" /\ ~({"bus.socket", "backend.service", "proxy"} \cap units \subseteq active)}
    ELSE {x \in {"takeover state", "proxy missing", "inactive", "no owner"} :
            \/ x = "takeover state" /\ (Masked \/ dropIn \/ Shadowed)
            \/ x = "proxy missing" /\ "proxy" \notin units
            \/ x = "inactive" /\ "proxy" \in units \ active
            \/ x = "no owner" /\ DetectProvider = "none"}

-----------------------------------------------------------------------------
(* Starting and ending a command *)

NoCommand == [op |-> "none", mode |-> "remote", start |-> FALSE, arg |-> "auto"]

Idle == cmd.op = "none"

Init ==
    /\ latest \in [Kept -> Versions \cup {"absent"}]
    /\ place = latest
    /\ backup = [p \in Kept |-> "absent"]
    /\ dropIn = FALSE
    /\ units = {}
    /\ enabled = {}
    /\ active = {}
    /\ backend = "none"
    /\ config = "none"
    /\ trialConfig = "none"
    /\ owner \in Owners \ {"dispatcher"}
    /\ dying = FALSE
    /\ cmd = NoCommand
    /\ pc = "idle"
    /\ provider = "none"
    /\ changed = FALSE
    /\ done = <<>>
    /\ planned = <<>>
    /\ overtaken = FALSE
    /\ trial = "no"
    /\ last = NoCommand
    /\ edits = 0
    /\ faults = 0
    /\ disturbed = FALSE

Begin(c, step) ==
    /\ cmd' = c
    /\ pc' = step
    /\ done' = <<>>
    /\ planned' = <<>>
    /\ overtaken' = FALSE
    /\ last' = NoCommand
    /\ provider' = "none"
    /\ changed' = FALSE
    /\ UNCHANGED <<home, system, user, faults, disturbed>>

\* runServiceInstall; the trial may be running in another terminal.
StartInstall ==
    /\ Idle
    /\ \E mode \in Modes, start \in BOOLEAN, arg \in BackendArgs :
            Begin([op |-> "install", mode |-> mode, start |-> start, arg |-> arg], "config")
    /\ UNCHANGED trial

StartUninstall ==
    /\ Idle
    /\ Begin([op |-> "uninstall", mode |-> "remote", start |-> FALSE, arg |-> "auto"], "stop")
    /\ UNCHANGED trial

\* Try: refused when a unit file is there, otherwise an installation with the
\* trial's own configuration.
StartTry ==
    /\ Idle
    /\ trial = "no"
    /\ units = {}
    /\ trial' = "installing"
    /\ \E arg \in BackendArgs :
            Begin([op |-> "install", mode |-> "local", start |-> TRUE, arg |-> arg], "config")

\* The command returned nil.
Return ==
    /\ pc = "end"
    /\ cmd' = NoCommand
    /\ pc' = "idle"
    /\ last' = cmd
    /\ trial' = CASE trial = "installing" -> "watching"
                  [] trial = "restoring" -> "no"
                  [] OTHER -> trial
    /\ trialConfig' = IF trial = "restoring" THEN "none" ELSE trialConfig
    /\ provider' = "none"
    /\ changed' = FALSE
    /\ done' = <<>>
    /\ planned' = <<>>
    /\ UNCHANGED <<place, backup, dropIn, units, backend, config, system, overtaken, user, faults, disturbed>>

\* The command returned an error.  A trial that could not be installed is
\* reverted by Uninstall.
ReturnError ==
    /\ provider' = "none"
    /\ changed' = FALSE
    /\ done' = <<>>
    /\ planned' = <<>>
    /\ IF trial = "installing"
       THEN /\ cmd' = [NoCommand EXCEPT !.op = "uninstall"]
            /\ pc' = "stop"
            /\ trial' = "restoring"
       ELSE /\ cmd' = NoCommand
            /\ pc' = "idle"
            /\ trial' = IF trial = "restoring" THEN "no" ELSE trial
    /\ trialConfig' = IF trial = "restoring" THEN "none" ELSE trialConfig
    /\ UNCHANGED <<overtaken, last>>

\* Ctrl-C ends the trial: Uninstall, then the trial's configuration goes.
EndTry ==
    /\ Idle
    /\ trial = "watching"
    /\ trial' = "restoring"
    /\ Begin([op |-> "uninstall", mode |-> "remote", start |-> FALSE, arg |-> "auto"], "stop")

-----------------------------------------------------------------------------
(* Steps of a command *)

\* The step at hand is done, made the given changes, and the next one follows.
Step(from, to, changes) ==
    /\ pc = from
    /\ pc' = to
    /\ done' = done \o changes
    /\ UNCHANGED <<cmd, trial, last, user, faults, disturbed>>

Takeover == cmd.mode # "remote"

\* updateTopologyConfig, which comes first, and DetectProvider.  A dry run at
\* this moment would print the plan.
WriteConfig ==
    /\ Step("config", IF Takeover THEN "backupMask" ELSE "unmask", Change("write", "config"))
    /\ IF trial = "installing"
       THEN trialConfig' = cmd.mode /\ UNCHANGED config
       ELSE config' = cmd.mode /\ UNCHANGED trialConfig
    /\ provider' = IF Takeover THEN DetectProvider ELSE "none"
    /\ planned' = Plan(cmd.mode, cmd.start)
    /\ UNCHANGED <<place, backup, dropIn, units, backend, system, changed, overtaken>>

\* Mutant: a mask of an earlier installation is taken for the user's file.
BackupAnything(p) ==
    IF place[p] # "absent"
    THEN /\ backup' = [backup EXCEPT ![p] = place[p]]
         /\ place' = [place EXCEPT ![p] = "absent"]
    ELSE UNCHANGED <<backup, place>>

\* os.Rename to the backup, over whatever is there.
BackupFile(p) ==
    IF UsersOwn(p)
    THEN /\ backup' = [backup EXCEPT ![p] = place[p]]
         /\ place' = [place EXCEPT ![p] = "absent"]
    ELSE UNCHANGED <<backup, place>>

BackupMask ==
    /\ Step("backupMask", "writeMask", When(UsersOwn("mask"), Change("backup", "mask")))
    /\ BackupFile("mask")
    /\ UNCHANGED <<dropIn, units, backend, config, trialConfig, system, provider, changed, notes>>

WriteMask ==
    /\ Step("writeMask", IF provider = "gnome-keyring" THEN "dropIn" ELSE "signal", Change("write", "mask"))
    /\ place' = [place EXCEPT !["mask"] = "ours"]
    /\ UNCHANGED <<backup, dropIn, units, backend, config, trialConfig, system, provider, changed, notes>>

\* demoteGnomeKeyring, after it found the daemon on PATH.
WriteDropIn ==
    /\ Step("dropIn", "backupShadow", Change("write", "dropIn"))
    /\ dropIn' = TRUE
    /\ UNCHANGED <<place, backup, units, backend, config, trialConfig, system, provider, changed, notes>>

BackupShadow ==
    /\ Step("backupShadow", "writeShadow", When(UsersOwn("shadow"), Change("backup", "shadow")))
    /\ BackupFile("shadow")
    /\ UNCHANGED <<dropIn, units, backend, config, trialConfig, system, provider, changed, notes>>

\* Mutant: the autostart entry is left as it is.
WriteNoShadow ==
    /\ Step("writeShadow", "restartDemoted", Change("write", "shadow"))
    /\ UNCHANGED <<place, backup, dropIn, units, backend, config, trialConfig, system, provider, changed, notes>>

WriteShadow ==
    /\ Step("writeShadow", "restartDemoted", Change("write", "shadow"))
    /\ place' = [place EXCEPT !["shadow"] = "ours"]
    /\ UNCHANGED <<backup, dropIn, units, backend, config, trialConfig, system, provider, changed, notes>>

\* daemon-reload and try-restart: a daemon that is a unit comes back without
\* its secrets component, one that PAM started keeps the name.
RestartDemoted ==
    /\ Step("restartDemoted", "signal", Restart)
    /\ \/ owner = "gnome-keyring" /\ owner' = "none" /\ dying' = FALSE
       \/ UNCHANGED <<owner, dying>>
    /\ UNCHANGED <<home, enabled, active, provider, changed, notes>>

\* stopDBusActivatedService: whoever owns the name gets SIGTERM, and nobody
\* waits for its exit (OwnerExits).
SignalOwner ==
    /\ Step("signal", "units", When(owner # "none", Change("signal", "owner")))
    /\ dying' = (owner # "none")
    /\ UNCHANGED <<home, enabled, active, owner, provider, changed, notes>>

\* Mutant: the mask is removed and the backup stays where it is.
RemoveMask ==
    /\ Step("unmask", "removeDropIn", UnmaskChanges)
    /\ place' = IF place["mask"] = "ours" THEN [place EXCEPT !["mask"] = "absent"] ELSE place
    /\ UNCHANGED <<backup, dropIn, units, backend, config, trialConfig, system, provider, changed, notes>>

\* unmaskDBusActivation: the rename of the backup replaces the mask.
Unmask ==
    /\ Step("unmask", "removeDropIn", UnmaskChanges)
    /\ IF place["mask"] = "ours"
       THEN /\ place' = [place EXCEPT !["mask"] = backup["mask"]]
            /\ backup' = [backup EXCEPT !["mask"] = "absent"]
       ELSE UNCHANGED <<place, backup>>
    /\ UNCHANGED <<dropIn, units, backend, config, trialConfig, system, provider, changed, notes>>

\* Mutant: a shadow that is not ours ends restoreGnomeKeyring at once.
RemoveDropInWithShadow ==
    /\ Step("removeDropIn", "removeShadow", When(dropIn /\ Shadowed, Change("remove", "dropIn")))
    /\ dropIn' = (dropIn /\ ~Shadowed)
    /\ changed' = (dropIn /\ Shadowed)
    /\ UNCHANGED <<place, backup, units, backend, config, trialConfig, system, provider, notes>>

\* restoreGnomeKeyring: the drop-in, the shadow, its backup, and a reload if
\* there was anything to remove.
RemoveDropIn ==
    /\ Step("removeDropIn", "removeShadow", When(dropIn, Change("remove", "dropIn")))
    /\ dropIn' = FALSE
    /\ changed' = dropIn
    /\ UNCHANGED <<place, backup, units, backend, config, trialConfig, system, provider, notes>>

RemoveShadow ==
    /\ Step("removeShadow", IF Shadowed THEN "restoreShadow" ELSE "restartRestored",
            When(Shadowed, Change("remove", "shadow")))
    /\ place' = IF Shadowed THEN [place EXCEPT !["shadow"] = "absent"] ELSE place
    /\ changed' = (changed \/ Shadowed)
    /\ UNCHANGED <<backup, dropIn, units, backend, config, trialConfig, system, provider, notes>>

RestoreShadow ==
    /\ Step("restoreShadow", "restartRestored",
            When(backup["shadow"] # "absent", Change("restore", "shadow")))
    /\ place' = [place EXCEPT !["shadow"] = backup["shadow"]]
    /\ backup' = [backup EXCEPT !["shadow"] = "absent"]
    /\ UNCHANGED <<dropIn, units, backend, config, trialConfig, system, provider, changed, notes>>

RestartRestored ==
    /\ Step("restartRestored", IF cmd.op = "install" THEN "units" ELSE "reload",
            When(changed, Change("run", "daemon-reload") \o Change("run", "try-restart")))
    /\ UNCHANGED <<home, system, provider, changed, notes>>

First(n) == {allUnitNames[i] : i \in 1..n}

\* systemctl stop and disable; stop waits until they are down.  The backend
\* requires the socket, and the proxy's unit of a takeover the backend: what
\* is loaded of them goes down too.
StopAndDisable(S) ==
    \E dragged \in {{}} \cup (IF S \cap {"bus.socket", "backend.service"} = {} THEN {}
                              ELSE {{"backend.service", "proxy"}}) :
        /\ enabled' = enabled \ S
        /\ active' = active \ (S \cup dragged)
        /\ IF owner = "dispatcher" /\ "proxy" \in S \cup dragged
           THEN owner' = "none" /\ dying' = FALSE
           ELSE UNCHANGED <<owner, dying>>

\* The first n units of the loop, written if the mode needs them and otherwise
\* removed; the stale ones of the first m are stopped and disabled before.
UnitsUpTo(n, m) ==
    LET reached == First(n)
        stale == units \ Needed(cmd.mode)
    IN  /\ StopAndDisable(stale \cap First(m))
        /\ units' = (units \ (stale \cap reached)) \cup (reached \cap Needed(cmd.mode))
        /\ backend' = CASE "backend.service" \in stale \cap reached -> "none"
                        [] "backend.service" \in reached \cap Needed(cmd.mode) ->
                                resolveBackendExec(cmd.arg, provider)
                        [] OTHER -> backend

\* buildUnits found the daemons, and the loop over allUnitNames.
WriteUnits ==
    /\ Step("units", "enable", UnitChanges(cmd.mode))
    /\ UnitsUpTo(4, 4)
    /\ UNCHANGED <<place, backup, dropIn, config, trialConfig, provider, changed, notes>>

\* daemon-reload and enable.
Enable ==
    /\ Step("enable", "start", SystemctlChanges(cmd.mode, FALSE))
    /\ enabled' = enabled \cup (IF Takeover THEN {"bus.socket", "proxy"} ELSE {"proxy"})
    /\ UNCHANGED <<home, active, owner, dying, provider, changed, notes>>

\* start: the proxy's unit requires the backend's, which requires the socket.
\* What is active is left as it is, a dispatcher on its way out included.
Start ==
    /\ Step("start", "end",
            When(cmd.start, When(Takeover, Change("start", "bus.socket")) \o Change("start", "proxy")))
    /\ active' = IF cmd.start THEN active \cup Needed(cmd.mode) ELSE active
    /\ overtaken' = (cmd.start /\ dying /\ owner = "dispatcher")
    /\ UNCHANGED <<home, enabled, owner, dying, provider, changed, planned>>

\* Uninstall: stop and disable everything, then remove the unit files.
StopUnits ==
    /\ Step("stop", "removeUnits", <<>>)
    /\ StopAndDisable(Units)
    /\ UNCHANGED <<home, provider, changed, notes>>

RemoveUpTo(n) ==
    /\ units' = units \ First(n)
    /\ backend' = IF "backend.service" \in First(n) THEN "none" ELSE backend

RemoveUnits ==
    /\ Step("removeUnits", "unmask", <<>>)
    /\ RemoveUpTo(4)
    /\ UNCHANGED <<place, backup, dropIn, config, trialConfig, system, provider, changed, notes>>

Reload ==
    /\ Step("reload", "end", <<>>)
    /\ UNCHANGED <<home, system, provider, changed, notes>>

-----------------------------------------------------------------------------
(* Faults *)

\* The steps that have happened or not.
Atomic ==
    {"backupMask", "backupShadow", "restartDemoted", "signal", "unmask", "removeDropIn", "removeShadow",
     "restoreShadow", "restartRestored", "start", "reload"}

Fault ==
    /\ faults < MaxFaults
    /\ faults' = faults + 1
    /\ disturbed' = TRUE

\* os.WriteFile creates or truncates the file and then writes: cut short it
\* leaves the old file, a torn one, or all of the new one.
Torn(old, new) == {old, "torn", new}

\* How far the step at hand got.  A loop over the units may stop anywhere, a
\* unit file or drop-in that is cut short is there, and renames and removals
\* are atomic.
Interrupted ==
    \/ /\ pc = "config"
       /\ config' \in IF trial = "installing" THEN {config} ELSE Torn(config, cmd.mode)
       /\ UNCHANGED <<place, backup, dropIn, units, backend, system>>
    \/ /\ pc \in {"writeMask", "writeShadow"}
       /\ LET p == IF pc = "writeMask" THEN "mask" ELSE "shadow"
          IN  \E v \in Torn(place[p], "ours") : place' = [place EXCEPT ![p] = v]
       /\ UNCHANGED <<backup, dropIn, units, backend, config, system>>
    \/ /\ pc = "dropIn"
       /\ dropIn' \in {dropIn, TRUE}
       /\ UNCHANGED <<place, backup, units, backend, config, system>>
    \/ /\ pc = "units"
       /\ \E n \in 0..4 : \E m \in {n, n + 1} \cap 0..4 : UnitsUpTo(n, m)
       /\ UNCHANGED <<place, backup, dropIn, config>>
    \/ /\ pc = "enable"
       /\ enabled' \in {enabled, enabled \cup (Needed(cmd.mode) \cap {"bus.socket"})}
       /\ UNCHANGED <<place, backup, dropIn, units, backend, config, active, owner, dying>>
    \/ /\ pc = "start" /\ cmd.start
       /\ \E S \in {{}, {"bus.socket"}, Units} : active' = active \cup (S \cap Needed(cmd.mode))
       /\ UNCHANGED <<place, backup, dropIn, units, backend, config, enabled, owner, dying>>
    \/ /\ pc = "stop"
       /\ \E n \in 0..4 : StopAndDisable(First(n))
       /\ UNCHANGED <<place, backup, dropIn, units, backend, config>>
    \/ /\ pc = "removeUnits"
       /\ \E n \in 0..3 : RemoveUpTo(n)
       /\ UNCHANGED <<place, backup, dropIn, config, system>>
    \/ /\ pc \in Atomic
       /\ UNCHANGED <<place, backup, dropIn, units, backend, config, system>>

\* A step returns an error.  Those of stop, disable, SIGTERM and try-restart
\* are ignored by the code.
Fail ==
    /\ Fault
    /\ pc \notin {"stop", "signal"}
    /\ Interrupted
    /\ ReturnError
    /\ UNCHANGED user

\* exec.LookPath does not find a daemon that the command wants to run,
\* --backend names none, or a configuration that an earlier write left torn
\* cannot be read: the steps before it stay done.
NotFound ==
    /\ \/ pc = "config" /\ config = "torn"
       \/ pc = "dropIn"
       \/ pc = "units" /\ Takeover
    /\ ReturnError
    /\ UNCHANGED <<place, backup, dropIn, units, backend, config, system, user, faults, disturbed>>

\* The process dies: nothing is reverted, a trial included.
Crash ==
    /\ Fault
    /\ Interrupted
    /\ cmd' = NoCommand
    /\ pc' = "idle"
    /\ trial' = IF trial = "watching" THEN trial ELSE "no"
    /\ provider' = "none"
    /\ changed' = FALSE
    /\ done' = <<>>
    /\ planned' = <<>>
    /\ UNCHANGED <<trialConfig, overtaken, last, user>>

\* The process that runs the trial dies while it watches.
CrashTry ==
    /\ Idle
    /\ trial = "watching"
    /\ Fault
    /\ trial' = "no"
    /\ UNCHANGED <<home, system, cmd, pc, provider, changed, done, notes, last, user>>

-----------------------------------------------------------------------------
(* External: the desktop session and its user, between two commands *)

\* The owner exits, at any time after the signal.  The dispatcher does so with
\* status 0, and Restart=on-failure leaves its unit down.
OwnerExits ==
    /\ dying
    /\ dying' = FALSE
    /\ owner' = "none"
    /\ active' = IF owner = "dispatcher" THEN active \ {"proxy"} ELSE active
    /\ UNCHANGED <<home, enabled, command, user, faults, disturbed>>

\* A provider takes the free name.  gnome-keyring has three ways in: D-Bus
\* activation, its unit, and its autostart entry.  A drop-in that was cut short
\* shuts nothing.
TakeName ==
    /\ Idle
    /\ owner = "none"
    /\ owner' \in {"gopass"}
                  \cup (IF ~Masked \/ ~dropIn \/ ~Shadowed \/ faults > 0 THEN {"gnome-keyring"} ELSE {})
                  \cup (IF "proxy" \in active THEN {"dispatcher"} ELSE {})
    /\ UNCHANGED <<home, enabled, active, dying, command, user, faults, disturbed>>

\* A new session: what is enabled is started.
Login ==
    /\ Idle
    /\ trial = "no"
    /\ owner' = "none"
    /\ dying' = FALSE
    /\ active' = IF "proxy" \in enabled THEN units ELSE enabled \cap units
    /\ trialConfig' = "none"
    /\ UNCHANGED <<place, backup, dropIn, units, backend, config, enabled, command, user, faults, disturbed>>

\* The user writes or deletes one of the two files.
Edit(p) ==
    /\ Idle
    /\ edits < MaxEdits
    /\ edits' = edits + 1
    /\ \E v \in Versions \cup {"absent"} :
            /\ v # place[p]
            /\ place' = [place EXCEPT ![p] = v]
            /\ latest' = [latest EXCEPT ![p] = v]
    /\ disturbed' = (disturbed \/ place[p] = "ours" \/ backup[p] # "absent")
    /\ last' = NoCommand
    /\ UNCHANGED <<backup, dropIn, units, backend, config, trialConfig, system, faults,
                   cmd, pc, provider, changed, done, notes, trial>>

-----------------------------------------------------------------------------

CommandStep ==
    \/ WriteConfig
    \/ BackupMask \/ WriteMask \/ WriteDropIn \/ BackupShadow \/ WriteShadow \/ RestartDemoted \/ SignalOwner
    \/ Unmask \/ RemoveDropIn \/ RemoveShadow \/ RestoreShadow \/ RestartRestored
    \/ WriteUnits \/ Enable \/ Start
    \/ StopUnits \/ RemoveUnits \/ Reload

Next ==
    \/ StartInstall \/ StartUninstall \/ StartTry \/ EndTry
    \/ CommandStep
    \/ Return
    \/ Fail \/ NotFound \/ Crash \/ CrashTry
    \/ OwnerExits \/ TakeName \/ Login
    \/ \E p \in Kept : Edit(p)

Spec == Init /\ [][Next]_vars

-----------------------------------------------------------------------------
(* Properties *)

Commands ==
    [op : {"none", "install", "uninstall"}, mode : Modes, start : BOOLEAN, arg : Keyrings \cup {"auto"}]

Steps ==
    {"idle", "config", "backupMask", "writeMask", "dropIn", "backupShadow", "writeShadow", "restartDemoted",
     "signal", "unmask", "removeDropIn", "removeShadow", "restoreShadow", "restartRestored", "units", "enable",
     "start", "stop", "removeUnits", "reload", "end"}

\* The types; a command is under way exactly when it has a next step.
TypeOK ==
    /\ place \in [Kept -> Contents] /\ backup \in [Kept -> Contents] /\ dropIn \in BOOLEAN
    /\ latest \in [Kept -> Versions \cup {"absent"}]
    /\ units \subseteq Units /\ enabled \subseteq Units /\ active \subseteq Units
    /\ backend \in Keyrings \cup {"none"}
    /\ config \in Modes \cup {"none", "torn"} /\ trialConfig \in Modes \cup {"none"}
    /\ owner \in Owners /\ provider \in Owners
    /\ dying \in BOOLEAN /\ (dying => owner # "none")
    /\ cmd \in Commands /\ last \in Commands
    /\ pc \in Steps /\ (Idle <=> pc = "idle")
    /\ trial \in {"no", "installing", "watching", "restoring"}
    /\ changed \in BOOLEAN /\ overtaken \in BOOLEAN /\ disturbed \in BOOLEAN
    /\ edits \in Nat /\ faults \in Nat

\* A file of ours that a fault tore was taken for the user's: it is in the
\* backup, or has been put back from there.
Mistaken(p) == backup[p] = "torn" \/ (place[p] = "torn" /\ backup[p] = "absent")

\* Whatever fails, whoever dies and whatever the user does to his files
\* meanwhile, a command destroys his version of the activation file or of the
\* autostart override in one way only: it mistakes a mask or shadow that an
\* earlier command was writing when it failed for the user's file, and backs
\* that up over the backup.  Otherwise the user's version is in its place or in
\* the backup (maskDBusActivation, demoteGnomeKeyring, unmaskDBusActivation,
\* restoreGnomeKeyring).
NothingLost ==
    /\ TypeOK
    /\ \A p \in Kept : latest[p] \in {"absent", place[p], backup[p]} \/ Mistaken(p)

\* Uninstall, a change to the remote topology and the end of a trial put back
\* exactly what the user had, after any sequence of commands of which some may
\* have given up for want of a daemon, provided that no step was cut short and
\* the user kept his hands off the files (Uninstall, Install, restoreTrial).
RestoredExactly ==
    (last.op = "uninstall" \/ (last.op = "install" /\ last.mode = "remote")) /\ ~disturbed =>
        /\ place = latest
        /\ \A p \in Kept : backup[p] = "absent"

\* Commands converge from every state, however it came about: Status has
\* nothing to report after an Uninstall, and after an Install only what it did
\* not set out to do (another program's name, a service it was not to start),
\* or a service that the start did not bring up because the dispatcher that
\* Install had sent SIGTERM was still about to exit.
StatusConverges ==
    LET mayRemain ==
            (IF last.start /\ ~overtaken THEN {} ELSE {"inactive"})
            \cup (IF last.mode = "remote" THEN {"no owner"} ELSE {"not in front"})
            \cup (IF last.mode # "remote" /\ disturbed THEN {"inconsistent"} ELSE {})
    IN  /\ last.op = "uninstall" => Problems = {} /\ enabled = {}
        /\ last.op = "install" => Problems \subseteq mayRemain /\ units = Needed(last.mode) /\ enabled \subseteq units

\* The same changes in the same order, apart from a signal at one place of it.
SameButSignal(s, t) ==
    \E i \in 0..Len(s), a \in {<<>>, Change("signal", "owner")}, b \in {<<>>, Change("signal", "owner")} :
        LET before == SubSeq(s, 1, i)
            after == SubSeq(s, i + Len(a) + 1, Len(s))
        IN  s = before \o (a \o after) /\ t = before \o (b \o after)

\* Plan and Install are two programs that have to agree: a dry run lists the
\* changes the installation makes, in its order.  The signal may be missing in
\* either list: whom Install signals depends on what try-restart did (see the
\* README).
PlanExact == pc = "end" /\ cmd.op = "install" => SameButSignal(done, planned)

\* After a takeover that demoted gnome-keyring it owns the name only until it
\* exits on the signal it was sent, and no login or activation gives the name
\* back: all three ways in stay shut.
NoRegrab ==
    /\ last.op = "install" /\ last.mode # "remote" /\ dropIn /\ ~disturbed
    /\ owner = "gnome-keyring"
    => dying

=============================================================================
