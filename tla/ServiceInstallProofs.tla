------------------------- MODULE ServiceInstallProofs -------------------------
(***************************************************************************)
(* Proofs about ServiceInstall, for any number of commands, faults, deaths *)
(* and edits: what is the user's is never destroyed, and a command that    *)
(* returns has left the files, the units and the name as it promises.      *)
(***************************************************************************)
EXTENDS ServiceInstall, SequenceTheorems, TLAPS

TakeoverSteps ==
    {"backupMask", "writeMask", "dropIn", "backupShadow", "writeShadow", "restartDemoted", "signal"}
RestoreSteps == {"unmask", "removeDropIn", "removeShadow", "restoreShadow", "restartRestored"}

\* Which command a step belongs to, and that a command under way has not
\* returned.
Route ==
    /\ pc \in TakeoverSteps => cmd.op = "install" /\ cmd.mode # "remote"
    /\ pc \in RestoreSteps => cmd.mode = "remote"
    /\ pc \in {"config", "units", "enable", "start"} => cmd.op = "install"
    /\ pc \in {"stop", "removeUnits", "reload"} => cmd.op = "uninstall"
    /\ cmd.op = "uninstall" => cmd.mode = "remote"
    /\ last.op = "uninstall" => last.mode = "remote"
    /\ cmd.op # "none" => last.op = "none"

\* The user's version is in its place or in the backup, unless a torn file of
\* ours went there; what else may be in its place is ours, torn, or nothing.
Safe ==
    \A p \in Kept :
        /\ latest[p] \in {"absent", place[p], backup[p]} \/ Mistaken(p)
        /\ latest[p] # "absent" => place[p] \in {"absent", "ours", "torn", latest[p]}
        /\ backup[p] # "ours"
        /\ (p = "mask" /\ pc = "writeMask") \/ (p = "shadow" /\ pc = "writeShadow") =>
               place[p] \in {"absent", "ours"}
        /\ p = "shadow" /\ pc = "restoreShadow" => place[p] = "absent"

\* As long as nothing was cut short, a file is as the user left it, or ours
\* with his in the backup, or on its way from one to the other.
Untouched(p) == place[p] = latest[p] /\ backup[p] = "absent"
Taken(p) == place[p] = "ours" /\ backup[p] = latest[p]
Moving(p) ==
    /\ place[p] = "absent" /\ backup[p] = latest[p]
    /\ (p = "mask" /\ pc = "writeMask") \/ (p = "shadow" /\ pc \in {"writeShadow", "restoreShadow"})

Orderly == ~disturbed => \A p \in Kept : Untouched(p) \/ Taken(p) \/ Moving(p)

\* How far the restoring commands are with each file.
MaskGone ==
    \/ pc \in {"removeDropIn", "removeShadow", "restoreShadow", "restartRestored", "reload"}
    \/ pc \in {"units", "enable", "start", "end"} /\ cmd.mode = "remote"
    \/ last.op # "none" /\ last.mode = "remote"
ShadowGone ==
    \/ pc \in {"restartRestored", "reload"}
    \/ pc \in {"units", "enable", "start", "end"} /\ cmd.mode = "remote"
    \/ last.op # "none" /\ last.mode = "remote"
MaskThere ==
    \/ pc \in {"dropIn", "backupShadow", "writeShadow", "restartDemoted", "signal"}
    \/ pc \in {"units", "enable", "start", "end"} /\ cmd.mode # "remote"
    \/ last.op # "none" /\ last.mode # "remote"

Files ==
    /\ MaskGone => ~Masked /\ (~disturbed => Untouched("mask"))
    /\ ShadowGone => ~Shadowed /\ (~disturbed => Untouched("shadow"))
    /\ ShadowGone \/ pc \in {"removeShadow", "restoreShadow"} => ~dropIn
    /\ MaskThere => Masked
    /\ pc \in {"backupShadow", "writeShadow"} => dropIn
    /\ ~disturbed /\ pc \notin {"backupShadow", "writeShadow", "removeShadow"} => (dropIn <=> Shadowed)

\* The unit files and what is enabled and runs.
Installed(c) == units = Needed(c.mode)
Running(c) == Needed(c.mode) \subseteq active /\ ~(dying /\ owner = "dispatcher")

UnitFiles ==
    /\ enabled \subseteq units
    /\ pc = "removeUnits" => enabled = {}
    /\ cmd.op = "uninstall" /\ pc \notin {"stop", "removeUnits"} => units = {} /\ enabled = {}
    /\ last.op = "uninstall" => units = {} /\ enabled = {}
    /\ cmd.op = "install" /\ pc \in {"enable", "start", "end"} => Installed(cmd)
    /\ last.op = "install" => Installed(last)
    /\ cmd.op = "install" /\ pc \in {"start", "end"} => "proxy" \in enabled
    /\ last.op = "install" => "proxy" \in enabled
    /\ cmd.op = "install" /\ pc = "end" /\ cmd.start /\ ~overtaken => Running(cmd)
    /\ last.op = "install" /\ last.start /\ ~overtaken => Running(last)

\* gnome-keyring does not have the name after a takeover that demoted it, but
\* for the time it takes to exit.
Leaving == owner = "gnome-keyring" => dying

Demoted ==
    /\ ~disturbed => faults = 0
    /\ pc \in {"units", "enable", "start", "end"} /\ cmd.mode # "remote" => Leaving
    /\ last.op = "install" /\ last.mode # "remote" /\ dropIn /\ ~disturbed => Leaving

InstallInv == TypeOK /\ Route /\ Safe /\ Orderly /\ Files /\ UnitFiles /\ Demoted


-----------------------------------------------------------------------------
(* Types *)

\* The units and which of them a mode needs.
LEMMA UnitNames ==
    /\ Units = {"bus.socket", "bus.service", "backend.service", "proxy"}
    /\ \A i \in 1..4 : allUnitNames[i] \in Units
    /\ \A mode : Needed(mode) \subseteq Units /\ "proxy" \in Needed(mode)
<1>1. /\ allUnitNames[1] = "bus.socket" /\ allUnitNames[2] = "bus.service"
      /\ allUnitNames[3] = "backend.service" /\ allUnitNames[4] = "proxy"
  BY DEF allUnitNames
<1>2. 1..4 = {1, 2, 3, 4}
  OBVIOUS
<1>3. Units = {"bus.socket", "bus.service", "backend.service", "proxy"}
  BY <1>1, <1>2 DEF Units
<1>4. QED
  BY <1>3 DEF Needed, Units

\* The owner is as it was, or gone.
Released == owner' \in {owner, "none"} /\ dying' \in BOOLEAN /\ (dying' <=> dying /\ owner' = owner)

\* systemctl stop takes units away, and perhaps the name's owner with them.
LEMMA StopTyped ==
    ASSUME TypeOK, NEW S, StopAndDisable(S)
    PROVE  /\ enabled' = enabled \ S /\ active' \subseteq active \ S
           /\ Released
<1>1. enabled' = enabled \ S /\ active' \subseteq active \ S
  BY DEF StopAndDisable
<1>2. CASE owner = "dispatcher" /\ owner' = "none" /\ dying' = FALSE
  BY <1>1, <1>2 DEF Released
<1>3. CASE UNCHANGED <<owner, dying>>
  BY <1>1, <1>3 DEF Released, TypeOK
<1>4. QED
  BY <1>1, <1>2, <1>3 DEF StopAndDisable

\* The loop over the units, wherever it stopped: nothing is enabled that is not
\* there, and at its end the units are the ones of the mode.
LEMMA UnitLoop ==
    ASSUME TypeOK, NEW n \in 0..4, NEW m \in 0..4, n \leq m, UnitsUpTo(n, m)
    PROVE  /\ units' \subseteq Units /\ enabled' \subseteq enabled /\ active' \subseteq active
           /\ Released
           /\ backend' \in Keyrings \cup {"none"}
           /\ enabled \subseteq units => enabled' \subseteq units'
           /\ n = 4 => units' = Needed(cmd.mode)
<1> DEFINE stale == units \ Needed(cmd.mode)
<1>1. First(n) \subseteq First(m) /\ (n = 4 => First(n) = Units) /\ Needed(cmd.mode) \subseteq Units
  BY UnitNames DEF Units, First
<1>2. /\ StopAndDisable(stale \cap First(m))
      /\ units' = (units \ (stale \cap First(n))) \cup (First(n) \cap Needed(cmd.mode))
      /\ backend' = CASE "backend.service" \in stale \cap First(n) -> "none"
                      [] "backend.service" \in First(n) \cap Needed(cmd.mode) ->
                              resolveBackendExec(cmd.arg, provider)
                      [] OTHER -> backend
  BY DEF UnitsUpTo
<1>3. resolveBackendExec(cmd.arg, provider) \in Keyrings
  BY DEF resolveBackendExec, TypeOK, Commands, Keyrings
<1>4. units \subseteq Units /\ backend \in Keyrings \cup {"none"}
  BY DEF TypeOK
<1>5. backend' \in Keyrings \cup {"none"}
  BY <1>2, <1>3, <1>4
<1>6. /\ enabled' = enabled \ (stale \cap First(m)) /\ active' \subseteq active /\ Released
  BY <1>2, StopTyped
<1>7. QED
  BY <1>1, <1>2, <1>4, <1>5, <1>6

\* A command begins.
LEMMA BeginTyped ==
    ASSUME TypeOK, NEW c \in Commands, c.op # "none", NEW step \in Steps, step # "idle", Begin(c, step),
           trial' \in {"no", "installing", "watching", "restoring"}
    PROVE  TypeOK'
<1>1. /\ cmd' = c /\ pc' = step /\ last' = NoCommand /\ provider' = "none" /\ changed' = FALSE
      /\ overtaken' = FALSE /\ UNCHANGED <<home, system, user, faults, disturbed>>
  BY DEF Begin
<1>2. NoCommand \in Commands /\ "none" \in Owners
  BY DEF NoCommand, Commands, Modes, Owners
<1>3. QED
  BY <1>1, <1>2 DEF TypeOK, Idle, home, system, user

\* A command returns an error, and Uninstall may follow.
LEMMA ErrorTyped ==
    ASSUME TypeOK, ReturnError
    PROVE  /\ cmd' \in Commands /\ pc' \in Steps /\ (Idle <=> pc = "idle")'
           /\ trial' \in {"no", "installing", "watching", "restoring"}
           /\ last' \in Commands /\ trialConfig' \in Modes \cup {"none"}
           /\ provider' \in Owners /\ changed' \in BOOLEAN /\ overtaken' = overtaken
<1>1. NoCommand \in Commands /\ NoCommand.op = "none" /\ "none" \in Owners
  BY DEF NoCommand, Commands, Modes, Owners
<1>2. [NoCommand EXCEPT !.op = "uninstall"] \in Commands /\ [NoCommand EXCEPT !.op = "uninstall"].op = "uninstall"
  BY <1>1 DEF Commands
<1>3. {"idle", "stop"} \subseteq Steps
  BY DEF Steps
<1>4. QED
  BY <1>1, <1>2, <1>3 DEF ReturnError, TypeOK, Idle

\* A step that leaves the owner alone.
LEMMA StayReleased ==
    ASSUME TypeOK, UNCHANGED <<owner, dying>>
    PROVE  Released
  BY DEF Released, TypeOK

\* An interrupted step leaves files, units and the name with their types.  It
\* touches a file only where it was writing one, and tears it at worst.
LEMMA InterruptedTyped ==
    ASSUME TypeOK, Interrupted
    PROVE  /\ place' \in [Kept -> Contents] /\ backup' = backup /\ dropIn' \in BOOLEAN
           /\ \A p \in Kept :
                 \/ place'[p] = place[p]
                 \/ /\ place'[p] \in {"torn", "ours"}
                    /\ (p = "mask" /\ pc = "writeMask") \/ (p = "shadow" /\ pc = "writeShadow")
           /\ config' \in Modes \cup {"none", "torn"}
           /\ units' \subseteq Units /\ enabled' \subseteq Units /\ active' \subseteq Units
           /\ Released
           /\ backend' \in Keyrings \cup {"none"}
           /\ /\ enabled \subseteq units
              /\ pc = "removeUnits" => enabled = {}
              /\ pc = "enable" => units = Needed(cmd.mode)
              => enabled' \subseteq units'
<1> USE DEF TypeOK
<1>1. CASE /\ pc = "config"
           /\ config' \in IF trial = "installing" THEN {config} ELSE Torn(config, cmd.mode)
           /\ UNCHANGED <<place, backup, dropIn, units, backend, system>>
  BY <1>1, StayReleased DEF Torn, system, Commands
<1>2. ASSUME NEW p \in Kept, NEW v \in Torn(place[p], "ours"), place' = [place EXCEPT ![p] = v],
             (p = "mask" /\ pc = "writeMask") \/ (p = "shadow" /\ pc = "writeShadow"),
             UNCHANGED <<backup, dropIn, units, backend, config, system>>
      PROVE  /\ place' \in [Kept -> Contents]
             /\ \A q \in Kept :
                   \/ place'[q] = place[q]
                   \/ /\ place'[q] \in {"torn", "ours"}
                      /\ (q = "mask" /\ pc = "writeMask") \/ (q = "shadow" /\ pc = "writeShadow")
  <2>1. v \in Contents
    BY <1>2 DEF Torn, Contents
  <2>2. v = place[p] \/ v \in {"torn", "ours"}
    BY <1>2 DEF Torn
  <2>3. QED
    BY <1>2, <2>1, <2>2
<1>3. CASE /\ pc \in {"writeMask", "writeShadow"}
           /\ LET p == IF pc = "writeMask" THEN "mask" ELSE "shadow"
              IN  \E v \in Torn(place[p], "ours") : place' = [place EXCEPT ![p] = v]
           /\ UNCHANGED <<backup, dropIn, units, backend, config, system>>
  <2>1. PICK p \in Kept : /\ (p = "mask" /\ pc = "writeMask") \/ (p = "shadow" /\ pc = "writeShadow")
                          /\ \E v \in Torn(place[p], "ours") : place' = [place EXCEPT ![p] = v]
    BY <1>3 DEF Kept
  <2>2. QED
    BY <1>2, <1>3, <2>1, StayReleased DEF system
<1>4. CASE /\ pc = "dropIn"
           /\ dropIn' \in {dropIn, TRUE}
           /\ UNCHANGED <<place, backup, units, backend, config, system>>
  BY <1>4, StayReleased DEF system
<1>5. CASE /\ pc = "units"
           /\ \E n \in 0..4 : \E m \in {n, n + 1} \cap 0..4 : UnitsUpTo(n, m)
           /\ UNCHANGED <<place, backup, dropIn, config>>
  <2>1. PICK n \in 0..4, m \in 0..4 : n \leq m /\ UnitsUpTo(n, m)
    BY <1>5
  <2>2. QED
    BY <1>5, <2>1, UnitLoop
<1>6. CASE /\ pc = "enable"
           /\ enabled' \in {enabled, enabled \cup (Needed(cmd.mode) \cap {"bus.socket"})}
           /\ UNCHANGED <<place, backup, dropIn, units, backend, config, active, owner, dying>>
  BY <1>6, UnitNames, StayReleased
<1>7. CASE /\ pc = "start" /\ cmd.start
           /\ \E S \in {{}, {"bus.socket"}, Units} : active' = active \cup (S \cap Needed(cmd.mode))
           /\ UNCHANGED <<place, backup, dropIn, units, backend, config, enabled, owner, dying>>
  BY <1>7, UnitNames, StayReleased
<1>8. CASE /\ pc = "stop"
           /\ \E n \in 0..4 : StopAndDisable(First(n))
           /\ UNCHANGED <<place, backup, dropIn, units, backend, config>>
  <2>1. PICK S : StopAndDisable(S)
    BY <1>8
  <2>2. enabled' \subseteq enabled /\ active' \subseteq active /\ Released
    BY <2>1, StopTyped
  <2>3. QED
    BY <1>8, <2>2
<1>9. CASE /\ pc = "removeUnits"
           /\ \E n \in 0..3 : RemoveUpTo(n)
           /\ UNCHANGED <<place, backup, dropIn, config, system>>
  BY <1>9, StayReleased DEF RemoveUpTo, system
<1>10. CASE /\ pc \in Atomic
            /\ UNCHANGED <<place, backup, dropIn, units, backend, config, system>>
  BY <1>10, StayReleased DEF system
<1>11. QED
  BY <1>1, <1>3, <1>4, <1>5, <1>6, <1>7, <1>8, <1>9, <1>10 DEF Interrupted

\* A step of a command that is done: the command goes on.
LEMMA StepTyped ==
    ASSUME TypeOK, NEW from, NEW to \in Steps, NEW changes, from # "idle", to # "idle", Step(from, to, changes)
    PROVE  /\ cmd' = cmd /\ last' = last /\ trial' = trial /\ pc' = to /\ pc = from
           /\ latest' = latest /\ edits' = edits /\ faults' = faults /\ disturbed' = disturbed
           /\ pc' \in Steps /\ (Idle <=> pc = "idle")'
  BY DEF Step, TypeOK, Idle, user

\* Every step keeps the types.
LEMMA TypesKept ==
    ASSUME TypeOK, [Next]_vars
    PROVE  TypeOK'
<1>1. CASE RemoveDropIn
  <2>1. dropIn' \in BOOLEAN /\ changed' \in BOOLEAN
    BY <1>1 DEF RemoveDropIn, TypeOK
  <2>2. UNCHANGED <<place, backup, units, backend, config, trialConfig, system, provider, notes>>
    BY <1>1 DEF RemoveDropIn
  <2>3. Step("removeDropIn", "removeShadow", When(dropIn, Change("remove", "dropIn")))
    BY <1>1 DEF RemoveDropIn
  <2>4. "removeShadow" \in Steps
    BY DEF Steps
  <2>5. QED
    BY <2>1, <2>2, <2>3, <2>4, StepTyped DEF TypeOK, system, notes
<1>2. CASE WriteUnits
  <2>1. /\ Step("units", "enable", UnitChanges(cmd.mode)) /\ UnitsUpTo(4, 4)
        /\ UNCHANGED <<place, backup, dropIn, config, trialConfig, provider, changed, overtaken>>
    BY <1>2 DEF WriteUnits, notes
  <2>2. /\ units' \subseteq Units /\ enabled' \subseteq Units /\ active' \subseteq Units
        /\ Released /\ backend' \in Keyrings \cup {"none"}
    BY <2>1, UnitLoop DEF TypeOK
  <2>3. "enable" \in Steps
    BY DEF Steps
  <2>4. QED
    BY <2>1, <2>2, <2>3, StepTyped DEF TypeOK, Released, Owners
<1>3. CASE Start
  <2>1. active' \subseteq Units
    BY <1>3, UnitNames DEF Start, TypeOK
  <2>2. UNCHANGED <<home, enabled, owner, dying, provider, changed>> /\ overtaken' \in BOOLEAN
    BY <1>3 DEF Start, TypeOK
  <2>3. "end" \in Steps
    BY DEF Steps
  <2>4. QED
    BY <1>3, <2>1, <2>2, <2>3, StepTyped DEF Start, TypeOK, home
<1>4. CASE RemoveUnits
  <2>1. units' \subseteq Units /\ backend' \in Keyrings \cup {"none"}
    BY <1>4 DEF RemoveUnits, RemoveUpTo, TypeOK
  <2>2. "unmask" \in Steps
    BY DEF Steps
  <2>3. QED
    BY <1>4, <2>1, <2>2, StepTyped DEF RemoveUnits, TypeOK, system, notes
<1>5. CASE StartInstall
  <2>1. PICK mode \in Modes, start \in BOOLEAN, arg \in BackendArgs :
          Begin([op |-> "install", mode |-> mode, start |-> start, arg |-> arg], "config")
    BY <1>5 DEF StartInstall
  <2>2. trial' \in {"no", "installing", "watching", "restoring"}
    BY <1>5 DEF StartInstall, TypeOK
  <2>3. [op |-> "install", mode |-> mode, start |-> start, arg |-> arg] \in Commands /\ "config" \in Steps
    BY InstallAssumption DEF Commands, Steps, Modes
  <2>4. QED
    BY <2>1, <2>2, <2>3, BeginTyped
<1>6. CASE StartUninstall
  <2>1. Begin([op |-> "uninstall", mode |-> "remote", start |-> FALSE, arg |-> "auto"], "stop")
    BY <1>6 DEF StartUninstall
  <2>2. trial' \in {"no", "installing", "watching", "restoring"}
    BY <1>6 DEF StartUninstall, TypeOK
  <2>3. [op |-> "uninstall", mode |-> "remote", start |-> FALSE, arg |-> "auto"] \in Commands /\ "stop" \in Steps
    BY DEF Commands, Steps, Modes
  <2>4. QED
    BY <2>1, <2>2, <2>3, BeginTyped
<1>7. CASE StartTry
  <2>1. PICK arg \in BackendArgs :
          Begin([op |-> "install", mode |-> "local", start |-> TRUE, arg |-> arg], "config")
    BY <1>7 DEF StartTry
  <2>2. trial' \in {"no", "installing", "watching", "restoring"}
    BY <1>7 DEF StartTry, TypeOK
  <2>3. [op |-> "install", mode |-> "local", start |-> TRUE, arg |-> arg] \in Commands /\ "config" \in Steps
    BY InstallAssumption DEF Commands, Steps, Modes
  <2>4. QED
    BY <2>1, <2>2, <2>3, BeginTyped
<1>8. CASE EndTry
  <2>1. Begin([op |-> "uninstall", mode |-> "remote", start |-> FALSE, arg |-> "auto"], "stop")
    BY <1>8 DEF EndTry
  <2>2. trial' \in {"no", "installing", "watching", "restoring"}
    BY <1>8 DEF EndTry, TypeOK
  <2>3. [op |-> "uninstall", mode |-> "remote", start |-> FALSE, arg |-> "auto"] \in Commands /\ "stop" \in Steps
    BY DEF Commands, Steps, Modes
  <2>4. QED
    BY <2>1, <2>2, <2>3, BeginTyped
<1>9. CASE Return
  <2>1. NoCommand \in Commands /\ NoCommand.op = "none" /\ "none" \in Owners /\ "idle" \in Steps
    BY DEF NoCommand, Commands, Modes, Owners, Steps
  <2>2. trial' \in {"no", "installing", "watching", "restoring"} /\ trialConfig' \in Modes \cup {"none"}
    BY <1>9 DEF Return, TypeOK
  <2>3. QED
    BY <1>9, <2>1, <2>2 DEF Return, TypeOK, Idle, system, user
<1>10. CASE Fail
  <2>1. Interrupted /\ ReturnError /\ faults' \in Nat /\ disturbed' = TRUE /\ UNCHANGED user
    BY <1>10 DEF Fail, Fault, TypeOK
  <2>2. QED
    BY <2>1, ErrorTyped, InterruptedTyped DEF TypeOK, Released, Owners, user
<1>11. CASE NotFound
  <2>1. ReturnError /\ UNCHANGED <<place, backup, dropIn, units, backend, config, system, user, faults, disturbed>>
    BY <1>11 DEF NotFound
  <2>2. QED
    BY <2>1, ErrorTyped DEF TypeOK, system, user
<1>12. CASE Crash
  <2>1. /\ Interrupted /\ faults' \in Nat /\ disturbed' = TRUE /\ cmd' = NoCommand /\ pc' = "idle"
        /\ provider' = "none" /\ changed' = FALSE /\ overtaken' = overtaken
        /\ trialConfig' = trialConfig /\ last' = last /\ UNCHANGED user
    BY <1>12 DEF Crash, Fault, TypeOK
  <2>2. NoCommand \in Commands /\ NoCommand.op = "none" /\ "none" \in Owners /\ "idle" \in Steps
    BY DEF NoCommand, Commands, Modes, Owners, Steps
  <2>3. trial' \in {"no", "installing", "watching", "restoring"}
    BY <1>12 DEF Crash, TypeOK
  <2>4. QED
    BY <2>1, <2>2, <2>3, InterruptedTyped DEF TypeOK, Idle, Released, Owners, user
<1>19. CASE RestartDemoted
  <2>1. /\ Step("restartDemoted", "signal", Restart) /\ "signal" \in Steps
        /\ UNCHANGED <<home, enabled, active, provider, changed, notes>>
    BY <1>19 DEF RestartDemoted, Steps
  <2>2. CASE owner' = "none" /\ dying' = FALSE
    <3>1. owner' \in Owners /\ dying' \in BOOLEAN /\ ~dying'
      BY <2>2 DEF Owners
    <3>2. QED
      BY <2>1, <3>1, StepTyped DEF TypeOK, home, notes
  <2>3. CASE UNCHANGED <<owner, dying>>
    BY <2>1, <2>3, StepTyped DEF TypeOK, home, notes
  <2>4. QED
    BY <1>19, <2>2, <2>3 DEF RestartDemoted
<1>26. CASE StopUnits
  <2>1. /\ Step("stop", "removeUnits", <<>>) /\ "removeUnits" \in Steps
        /\ StopAndDisable(Units) /\ UNCHANGED <<home, provider, changed, notes>>
    BY <1>26 DEF StopUnits, Steps
  <2>2. enabled' \subseteq enabled /\ active' \subseteq active /\ Released
    BY <2>1, StopTyped
  <2>3. QED
    BY <2>1, <2>2, StepTyped DEF TypeOK, home, notes, Released, Owners
<1>30. CASE Login
  <2>1. /\ owner' = "none" /\ dying' = FALSE /\ active' \subseteq units /\ trialConfig' = "none"
        /\ UNCHANGED <<place, backup, dropIn, units, backend, config, enabled, command, user, faults, disturbed>>
    BY <1>30 DEF Login
  <2>2. owner' \in Owners /\ dying' \in BOOLEAN /\ ~dying'
    BY <2>1 DEF Owners
  <2>3. active' \subseteq Units /\ trialConfig' \in Modes \cup {"none"}
    BY <2>1 DEF TypeOK
  <2>4. /\ UNCHANGED <<place, backup, dropIn, latest, units, backend, config, enabled, provider>>
        /\ UNCHANGED <<cmd, last, pc, trial, changed, overtaken, edits, faults, disturbed>>
    BY <2>1 DEF command, notes, user
  <2>5. QED
    BY <2>2, <2>3, <2>4 DEF TypeOK, Idle
<1>29. CASE OwnerExits \/ TakeName
  <2>1. owner' \in Owners /\ dying' \in BOOLEAN /\ (dying' => owner' # "none") /\ active' \subseteq Units
    <3>1. CASE OwnerExits
      <4>1. ~dying' /\ dying' \in BOOLEAN
        BY <3>1 DEF OwnerExits
      <4>2. QED
        BY <3>1, <4>1 DEF OwnerExits, TypeOK, Owners
    <3>2. CASE TakeName
      <4>1. dying' = dying /\ active' = active
        BY <3>2 DEF TakeName
      <4>2. owner' \in {"gopass", "gnome-keyring", "dispatcher"}
        BY <3>2 DEF TakeName
      <4>3. owner' \in Owners /\ owner' # "none"
        BY <4>2 DEF Owners, Keyrings
      <4>4. dying' \in BOOLEAN /\ active' \subseteq Units
        BY <4>1 DEF TypeOK
      <4>5. QED
        BY <4>3, <4>4
    <3>3. QED
      BY <1>29, <3>1, <3>2
  <2>2. /\ UNCHANGED <<place, backup, dropIn, latest, units, backend, config, trialConfig, enabled, provider>>
        /\ UNCHANGED <<cmd, last, pc, trial, changed, overtaken, edits, faults, disturbed>>
    BY <1>29 DEF OwnerExits, TakeName, home, command, notes, user
  <2>3. QED
    BY <2>1, <2>2 DEF TypeOK, Idle
<1> USE DEF home, system, command, notes, user, Idle, Commands, Steps, Modes, Owners, Keyrings, Contents,
            Kept, TypeOK
<1>13. CASE WriteConfig
  BY <1>13 DEF WriteConfig, Step, Takeover, DetectProvider
<1>14. CASE BackupMask
  BY <1>14 DEF BackupMask, Step, BackupFile, UsersOwn
<1>15. CASE WriteMask
  BY <1>15 DEF WriteMask, Step
<1>16. CASE WriteDropIn
  BY <1>16 DEF WriteDropIn, Step
<1>17. CASE BackupShadow
  BY <1>17 DEF BackupShadow, Step, BackupFile, UsersOwn
<1>18. CASE WriteShadow
  BY <1>18 DEF WriteShadow, Step
<1>20. CASE SignalOwner
  BY <1>20 DEF SignalOwner, Step
<1>21. CASE Unmask
  BY <1>21 DEF Unmask, Step
<1>22. CASE RemoveShadow
  BY <1>22 DEF RemoveShadow, Step
<1>23. CASE RestoreShadow
  BY <1>23 DEF RestoreShadow, Step
<1>24. CASE RestartRestored
  BY <1>24 DEF RestartRestored, Step
<1>25. CASE Enable
  BY <1>25, UnitNames DEF Enable, Step, Takeover
<1>27. CASE Reload
  BY <1>27 DEF Reload, Step
<1>28. CASE CrashTry
  BY <1>28 DEF CrashTry, Fault
<1>31. ASSUME NEW p \in Kept, Edit(p) PROVE TypeOK'
  BY <1>31 DEF Edit, NoCommand
<1>32. CASE UNCHANGED vars
  BY <1>32 DEF vars
<1>33. QED
  BY <1>1, <1>2, <1>3, <1>4, <1>5, <1>6, <1>7, <1>8, <1>9, <1>10, <1>11, <1>12, <1>13, <1>14,
     <1>15, <1>16, <1>17, <1>18, <1>19, <1>20, <1>21, <1>22, <1>23, <1>24, <1>25, <1>26, <1>27,
     <1>28, <1>29, <1>30, <1>31, <1>32 DEF Next, CommandStep

-----------------------------------------------------------------------------
(* The parts of the inductive invariant *)

\* A step belongs to its command.
LEMMA RouteKept ==
    ASSUME TypeOK, Route, [Next]_vars
    PROVE  Route'
<1> USE DEF Route
<1> USE DEF home, system, command, notes, user, TakeoverSteps, RestoreSteps, Idle, TypeOK
<1>1. CASE WriteConfig
  BY <1>1 DEF WriteConfig, Step, Takeover
<1>2. CASE BackupMask
  BY <1>2 DEF BackupMask, Step
<1>3. CASE WriteMask
  BY <1>3 DEF WriteMask, Step
<1>4. CASE WriteDropIn
  BY <1>4 DEF WriteDropIn, Step
<1>5. CASE BackupShadow
  BY <1>5 DEF BackupShadow, Step
<1>6. CASE WriteShadow
  BY <1>6 DEF WriteShadow, Step
<1>7. CASE RestartDemoted
  BY <1>7 DEF RestartDemoted, Step
<1>8. CASE SignalOwner
  BY <1>8 DEF SignalOwner, Step
<1>9. CASE Unmask
  BY <1>9 DEF Unmask, Step
<1>10. CASE RemoveDropIn
  BY <1>10 DEF RemoveDropIn, Step
<1>11. CASE RemoveShadow
  BY <1>11 DEF RemoveShadow, Step
<1>12. CASE RestoreShadow
  BY <1>12 DEF RestoreShadow, Step
<1>13. CASE RestartRestored
  BY <1>13 DEF RestartRestored, Step, Commands
<1>14. CASE WriteUnits
  BY <1>14 DEF WriteUnits, Step
<1>15. CASE Enable
  BY <1>15 DEF Enable, Step
<1>16. CASE Start
  BY <1>16 DEF Start, Step
<1>17. CASE StopUnits
  BY <1>17 DEF StopUnits, Step
<1>18. CASE RemoveUnits
  BY <1>18 DEF RemoveUnits, Step
<1>19. CASE Reload
  BY <1>19 DEF Reload, Step
<1>20. CASE StartInstall
  BY <1>20 DEF StartInstall, Begin, NoCommand
<1>21. CASE StartUninstall
  BY <1>21 DEF StartUninstall, Begin, NoCommand
<1>22. CASE StartTry
  BY <1>22 DEF StartTry, Begin, NoCommand
<1>23. CASE EndTry
  BY <1>23 DEF EndTry, Begin, NoCommand
<1>24. CASE Return
  BY <1>24 DEF Return, NoCommand
<1>25. CASE Fail
  <2>1. pc # "idle" /\ ReturnError
    BY <1>25 DEF Fail, Interrupted, Atomic
  <2>2. QED
    BY <2>1 DEF ReturnError, NoCommand
<1>26. CASE NotFound
  BY <1>26 DEF NotFound, ReturnError, NoCommand
<1>27. CASE Crash
  BY <1>27 DEF Crash, Fault, NoCommand
<1>28. CASE CrashTry
  BY <1>28 DEF CrashTry, Fault
<1>29. CASE OwnerExits \/ TakeName
  BY <1>29 DEF OwnerExits, TakeName
<1>30. CASE Login
  BY <1>30 DEF Login
<1>31. ASSUME NEW p \in Kept, Edit(p) PROVE Route'
  BY <1>31 DEF Edit, NoCommand
<1>32. CASE UNCHANGED vars
  BY <1>32 DEF vars
<1>33. QED
  BY <1>1, <1>2, <1>3, <1>4, <1>5, <1>6, <1>7, <1>8, <1>9, <1>10, <1>11, <1>12, <1>13, <1>14,
     <1>15, <1>16, <1>17, <1>18, <1>19, <1>20, <1>21, <1>22, <1>23, <1>24, <1>25, <1>26, <1>27,
     <1>28, <1>29, <1>30, <1>31, <1>32 DEF Next, CommandStep
\* No step destroys the user's version.
LEMMA SafeKept ==
    ASSUME TypeOK, Safe, Route, [Next]_vars
    PROVE  Safe'
<1> USE InstallAssumption DEF Safe, Mistaken
<1> USE DEF home, system, command, notes, user, TypeOK, Kept, Contents, Idle
<1>1. CASE WriteConfig
  BY <1>1 DEF WriteConfig, Step, Takeover
<1>2. CASE BackupMask
  BY <1>2 DEF BackupMask, Step, BackupFile, UsersOwn
<1>3. CASE WriteMask
  BY <1>3 DEF WriteMask, Step
<1>4. CASE WriteDropIn
  BY <1>4 DEF WriteDropIn, Step
<1>5. CASE BackupShadow
  BY <1>5 DEF BackupShadow, Step, BackupFile, UsersOwn
<1>6. CASE WriteShadow
  BY <1>6 DEF WriteShadow, Step
<1>7. CASE RestartDemoted
  BY <1>7 DEF RestartDemoted, Step
<1>8. CASE SignalOwner
  BY <1>8 DEF SignalOwner, Step
<1>9. CASE Unmask
  BY <1>9 DEF Unmask, Step
<1>10. CASE RemoveDropIn
  BY <1>10 DEF RemoveDropIn, Step
<1>11. CASE RemoveShadow
  BY <1>11 DEF RemoveShadow, Step, Shadowed
<1>12. CASE RestoreShadow
  BY <1>12 DEF RestoreShadow, Step
<1>13. CASE RestartRestored
  BY <1>13 DEF RestartRestored, Step
<1>14. CASE WriteUnits
  BY <1>14 DEF WriteUnits, Step
<1>15. CASE Enable
  BY <1>15 DEF Enable, Step
<1>16. CASE Start
  BY <1>16 DEF Start, Step
<1>17. CASE StopUnits
  BY <1>17 DEF StopUnits, Step
<1>18. CASE RemoveUnits
  BY <1>18 DEF RemoveUnits, Step
<1>19. CASE Reload
  BY <1>19 DEF Reload, Step
<1>20. CASE StartInstall
  BY <1>20 DEF StartInstall, Begin, NoCommand
<1>21. CASE StartUninstall
  BY <1>21 DEF StartUninstall, Begin, NoCommand
<1>22. CASE StartTry
  BY <1>22 DEF StartTry, Begin, NoCommand
<1>23. CASE EndTry
  BY <1>23 DEF EndTry, Begin, NoCommand
<1>24. CASE Return
  BY <1>24 DEF Return, NoCommand
<1>25. CASE Fail
  BY <1>25, InterruptedTyped DEF Fail, ReturnError, NoCommand, Fault
<1>26. CASE NotFound
  BY <1>26 DEF NotFound, ReturnError, NoCommand
<1>27. CASE Crash
  BY <1>27, InterruptedTyped DEF Crash, Fault, NoCommand
<1>28. CASE CrashTry
  BY <1>28 DEF CrashTry, Fault
<1>29. CASE OwnerExits \/ TakeName
  BY <1>29 DEF OwnerExits, TakeName
<1>30. CASE Login
  BY <1>30 DEF Login
<1>31. ASSUME NEW p \in Kept, Edit(p) PROVE Safe'
  BY <1>31 DEF Edit, NoCommand
<1>32. CASE UNCHANGED vars
  BY <1>32 DEF vars
<1>33. QED
  BY <1>1, <1>2, <1>3, <1>4, <1>5, <1>6, <1>7, <1>8, <1>9, <1>10, <1>11, <1>12, <1>13, <1>14,
     <1>15, <1>16, <1>17, <1>18, <1>19, <1>20, <1>21, <1>22, <1>23, <1>24, <1>25, <1>26, <1>27,
     <1>28, <1>29, <1>30, <1>31, <1>32 DEF Next, CommandStep

\* Only a fault or an edit puts a file elsewhere.
LEMMA OrderlyKept ==
    ASSUME TypeOK, Safe, Orderly, Route, [Next]_vars
    PROVE  Orderly'
<1> USE InstallAssumption DEF Orderly, Safe
<1>1. ASSUME NEW p \in Kept, Edit(p) PROVE Orderly'
  <2>1. pc' = pc /\ pc = "idle" /\ backup' = backup /\ disturbed' = (disturbed \/ place[p] = "ours" \/ backup[p] # "absent")
    BY <1>1 DEF Edit, TypeOK
  <2>2. PICK v \in Versions \cup {"absent"} : place' = [place EXCEPT ![p] = v] /\ latest' = [latest EXCEPT ![p] = v]
    BY <1>1 DEF Edit
  <2>3. SUFFICES ASSUME ~disturbed', NEW q \in Kept PROVE Untouched(q)' \/ Taken(q)' \/ Moving(q)'
    OBVIOUS
  <2>4. CASE q = p
    BY <2>1, <2>2, <2>3, <2>4 DEF Untouched, TypeOK
  <2>5. CASE q # p
    BY <2>1, <2>2, <2>3, <2>5 DEF Untouched, Taken, Moving, TypeOK
  <2>6. QED
    BY <2>4, <2>5
<1> USE DEF home, system, command, notes, user, TypeOK, Kept, Contents, Idle, Untouched, Taken, Moving
<1>2. CASE WriteConfig
  BY <1>2 DEF WriteConfig, Step, Takeover
<1>3. CASE BackupMask
  BY <1>3 DEF BackupMask, Step, BackupFile, UsersOwn
<1>4. CASE WriteMask
  BY <1>4 DEF WriteMask, Step
<1>5. CASE WriteDropIn
  BY <1>5 DEF WriteDropIn, Step
<1>6. CASE BackupShadow
  BY <1>6 DEF BackupShadow, Step, BackupFile, UsersOwn
<1>7. CASE WriteShadow
  BY <1>7 DEF WriteShadow, Step
<1>8. CASE RestartDemoted
  BY <1>8 DEF RestartDemoted, Step
<1>9. CASE SignalOwner
  BY <1>9 DEF SignalOwner, Step
<1>10. CASE Unmask
  BY <1>10 DEF Unmask, Step
<1>11. CASE RemoveDropIn
  BY <1>11 DEF RemoveDropIn, Step
<1>12. CASE RemoveShadow
  BY <1>12 DEF RemoveShadow, Step, Shadowed
<1>13. CASE RestoreShadow
  BY <1>13 DEF RestoreShadow, Step
<1>14. CASE RestartRestored
  BY <1>14 DEF RestartRestored, Step
<1>15. CASE WriteUnits
  BY <1>15 DEF WriteUnits, Step
<1>16. CASE Enable
  BY <1>16 DEF Enable, Step
<1>17. CASE Start
  BY <1>17 DEF Start, Step
<1>18. CASE StopUnits
  BY <1>18 DEF StopUnits, Step
<1>19. CASE RemoveUnits
  BY <1>19 DEF RemoveUnits, Step
<1>20. CASE Reload
  BY <1>20 DEF Reload, Step
<1>21. CASE StartInstall
  BY <1>21 DEF StartInstall, Begin, NoCommand
<1>22. CASE StartUninstall
  BY <1>22 DEF StartUninstall, Begin, NoCommand
<1>23. CASE StartTry
  BY <1>23 DEF StartTry, Begin, NoCommand
<1>24. CASE EndTry
  BY <1>24 DEF EndTry, Begin, NoCommand
<1>25. CASE Return
  BY <1>25 DEF Return, NoCommand
<1>26. CASE Fail
  BY <1>26, InterruptedTyped DEF Fail, ReturnError, NoCommand, Fault
<1>27. CASE NotFound
  BY <1>27 DEF NotFound, ReturnError, NoCommand
<1>28. CASE Crash
  BY <1>28, InterruptedTyped DEF Crash, Fault, NoCommand
<1>29. CASE CrashTry
  BY <1>29 DEF CrashTry, Fault
<1>30. CASE OwnerExits \/ TakeName
  BY <1>30 DEF OwnerExits, TakeName
<1>31. CASE Login
  BY <1>31 DEF Login
<1>32. CASE UNCHANGED vars
  BY <1>32 DEF vars
<1>33. QED
  BY <1>1, <1>2, <1>3, <1>4, <1>5, <1>6, <1>7, <1>8, <1>9, <1>10, <1>11, <1>12, <1>13, <1>14,
     <1>15, <1>16, <1>17, <1>18, <1>19, <1>20, <1>21, <1>22, <1>23, <1>24, <1>25, <1>26, <1>27,
     <1>28, <1>29, <1>30, <1>31, <1>32 DEF Next, CommandStep

\* What a command has restored or taken stays so until it is over, and after.
LEMMA FilesKept ==
    ASSUME TypeOK, Safe, Orderly, Route, Files, [Next]_vars
    PROVE  Files'
<1> USE InstallAssumption DEF Files, Safe
<1>25. CASE Fail \/ Crash
  <2>1. pc # "idle" /\ disturbed' = TRUE
    BY <1>25 DEF Fail, Crash, Fault, Interrupted, Atomic
  <2>2. cmd.op # "none" /\ last.op = "none"
    BY <2>1 DEF TypeOK, Idle, Route
  <2>3. pc' \in {"idle", "stop"} /\ last' = last
    BY <1>25 DEF Fail, Crash, ReturnError
  <2>4. QED
    BY <2>1, <2>2, <2>3 DEF MaskGone, ShadowGone, MaskThere
<1> USE DEF home, system, command, notes, user, TypeOK, Kept, Contents, Idle, Commands, TakeoverSteps,
            RestoreSteps, MaskGone, MaskThere, ShadowGone, Masked, Shadowed, Untouched, Taken,
            Moving, Orderly, Route
<1>1. CASE WriteConfig
  BY <1>1 DEF WriteConfig, Step, Takeover
<1>2. CASE BackupMask
  BY <1>2 DEF BackupMask, Step, BackupFile, UsersOwn
<1>3. CASE WriteMask
  BY <1>3 DEF WriteMask, Step
<1>4. CASE WriteDropIn
  BY <1>4 DEF WriteDropIn, Step
<1>5. CASE BackupShadow
  BY <1>5 DEF BackupShadow, Step, BackupFile, UsersOwn
<1>6. CASE WriteShadow
  BY <1>6 DEF WriteShadow, Step
<1>7. CASE RestartDemoted
  BY <1>7 DEF RestartDemoted, Step
<1>8. CASE SignalOwner
  BY <1>8 DEF SignalOwner, Step
<1>9. CASE Unmask
  BY <1>9 DEF Unmask, Step
<1>10. CASE RemoveDropIn
  BY <1>10 DEF RemoveDropIn, Step
<1>11. CASE RemoveShadow
  BY <1>11 DEF RemoveShadow, Step
<1>12. CASE RestoreShadow
  BY <1>12 DEF RestoreShadow, Step
<1>13. CASE RestartRestored
  BY <1>13 DEF RestartRestored, Step
<1>14. CASE WriteUnits
  BY <1>14 DEF WriteUnits, Step
<1>15. CASE Enable
  BY <1>15 DEF Enable, Step
<1>16. CASE Start
  BY <1>16 DEF Start, Step
<1>17. CASE StopUnits
  BY <1>17 DEF StopUnits, Step
<1>18. CASE RemoveUnits
  BY <1>18 DEF RemoveUnits, Step
<1>19. CASE Reload
  BY <1>19 DEF Reload, Step
<1>20. CASE StartInstall
  BY <1>20 DEF StartInstall, Begin, NoCommand
<1>21. CASE StartUninstall
  BY <1>21 DEF StartUninstall, Begin, NoCommand
<1>22. CASE StartTry
  BY <1>22 DEF StartTry, Begin, NoCommand
<1>23. CASE EndTry
  BY <1>23 DEF EndTry, Begin, NoCommand
<1>24. CASE Return
  BY <1>24 DEF Return, NoCommand
<1>26. CASE NotFound
  BY <1>26 DEF NotFound, ReturnError, NoCommand
<1>28. CASE CrashTry
  BY <1>28 DEF CrashTry, Fault
<1>29. CASE OwnerExits \/ TakeName
  BY <1>29 DEF OwnerExits, TakeName
<1>30. CASE Login
  BY <1>30 DEF Login
<1>31. ASSUME NEW p \in Kept, Edit(p) PROVE Files'
  BY <1>31 DEF Edit, NoCommand
<1>32. CASE UNCHANGED vars
  BY <1>32 DEF vars
<1>33. QED
  BY <1>1, <1>2, <1>3, <1>4, <1>5, <1>6, <1>7, <1>8, <1>9, <1>10, <1>11, <1>12, <1>13, <1>14,
     <1>15, <1>16, <1>17, <1>18, <1>19, <1>20, <1>21, <1>22, <1>23, <1>24, <1>25, <1>26,
     <1>28, <1>29, <1>30, <1>31, <1>32 DEF Next, CommandStep

\* A command leaves the units it promises.
LEMMA UnitFilesKept ==
    ASSUME TypeOK, Route, UnitFiles, [Next]_vars
    PROVE  UnitFiles'
<1> USE DEF UnitFiles, Installed, Running
<1>1. CASE RemoveUnits
  <2>1. units' = {}
    BY <1>1 DEF RemoveUnits, RemoveUpTo, First, Units, TypeOK
  <2>2. pc = "removeUnits" /\ pc' = "unmask" /\ UNCHANGED <<cmd, last, system, overtaken>>
    BY <1>1 DEF RemoveUnits, Step, notes
  <2>3. QED
    BY <2>1, <2>2 DEF system, Route
<1>15. CASE WriteUnits
  <2>1. UnitsUpTo(4, 4) /\ pc = "units" /\ pc' = "enable" /\ UNCHANGED <<cmd, last>>
    BY <1>15 DEF WriteUnits, Step
  <2>2. units' = Needed(cmd.mode) /\ enabled' \subseteq units'
    BY <2>1, UnitLoop
  <2>3. cmd.op = "install" /\ last.op = "none"
    BY <2>1 DEF Route
  <2>4. QED
    BY <2>1, <2>2, <2>3
<1>18. CASE StopUnits
  <2>1. /\ StopAndDisable(Units) /\ pc = "stop" /\ pc' = "removeUnits" /\ UNCHANGED <<cmd, last>>
    BY <1>18 DEF StopUnits, Step
  <2>2. enabled' = {}
    BY <2>1, StopTyped DEF TypeOK
  <2>3. cmd.op = "uninstall" /\ last.op = "none"
    BY <2>1 DEF Route
  <2>4. QED
    BY <2>1, <2>2, <2>3
<1>25. CASE Fail \/ Crash
  <2>1. pc # "idle" /\ Interrupted
    BY <1>25 DEF Fail, Crash, Interrupted, Atomic
  <2>2. cmd.op # "none" /\ last.op = "none"
    BY <2>1 DEF TypeOK, Idle, Route
  <2>3. pc' \in {"idle", "stop"} /\ last' = last /\ cmd'.op # "install" /\ (pc' = "idle" => cmd'.op = "none")
    BY <1>25 DEF Fail, Crash, ReturnError, NoCommand
  <2>4. enabled' \subseteq units'
    BY <2>1, InterruptedTyped DEF Route
  <2>5. QED
    BY <2>2, <2>3, <2>4
<1> USE DEF home, system, command, notes, user, TypeOK, Idle, Commands, Route, TakeoverSteps,
            RestoreSteps
<1>2. CASE WriteConfig
  BY <1>2 DEF WriteConfig, Step
<1>3. CASE BackupMask
  BY <1>3 DEF BackupMask, Step
<1>4. CASE WriteMask
  BY <1>4 DEF WriteMask, Step
<1>5. CASE WriteDropIn
  BY <1>5 DEF WriteDropIn, Step
<1>6. CASE BackupShadow
  BY <1>6 DEF BackupShadow, Step
<1>7. CASE WriteShadow
  BY <1>7 DEF WriteShadow, Step
<1>8. CASE RestartDemoted
  BY <1>8 DEF RestartDemoted, Step
<1>9. CASE SignalOwner
  BY <1>9 DEF SignalOwner, Step
<1>10. CASE Unmask
  BY <1>10 DEF Unmask, Step
<1>11. CASE RemoveDropIn
  BY <1>11 DEF RemoveDropIn, Step
<1>12. CASE RemoveShadow
  BY <1>12 DEF RemoveShadow, Step
<1>13. CASE RestoreShadow
  BY <1>13 DEF RestoreShadow, Step
<1>14. CASE RestartRestored
  BY <1>14 DEF RestartRestored, Step
<1>16. CASE Enable
  BY <1>16, UnitNames DEF Enable, Step, Takeover, Needed
<1>17. CASE Start
  BY <1>17, UnitNames DEF Start, Step, Takeover
<1>19. CASE Reload
  BY <1>19 DEF Reload, Step
<1>20. CASE StartInstall
  BY <1>20 DEF StartInstall, Begin, NoCommand
<1>21. CASE StartUninstall
  BY <1>21 DEF StartUninstall, Begin, NoCommand
<1>22. CASE StartTry
  BY <1>22 DEF StartTry, Begin, NoCommand
<1>23. CASE EndTry
  BY <1>23 DEF EndTry, Begin, NoCommand
<1>24. CASE Return
  BY <1>24 DEF Return, NoCommand
<1>26. CASE NotFound
  BY <1>26 DEF NotFound, ReturnError, NoCommand
<1>28. CASE CrashTry
  BY <1>28 DEF CrashTry, Fault
<1>29. CASE OwnerExits \/ TakeName
  BY <1>29 DEF OwnerExits, TakeName
<1>30. CASE Login
  BY <1>30, UnitNames DEF Login
<1>31. ASSUME NEW p \in Kept, Edit(p) PROVE UnitFiles'
  BY <1>31 DEF Edit, NoCommand
<1>32. CASE UNCHANGED vars
  BY <1>32 DEF vars
<1>33. QED
  BY <1>1, <1>2, <1>3, <1>4, <1>5, <1>6, <1>7, <1>8, <1>9, <1>10, <1>11, <1>12, <1>13, <1>14,
     <1>15, <1>16, <1>17, <1>18, <1>19, <1>20, <1>21, <1>22, <1>23, <1>24, <1>25, <1>26,
     <1>28, <1>29, <1>30, <1>31, <1>32 DEF Next, CommandStep

\* Nobody lets a demoted gnome-keyring back in.
LEMMA DemotedKept ==
    ASSUME TypeOK, Route, Orderly, Files, Demoted, [Next]_vars
    PROVE  Demoted'
<1> USE DEF Demoted, Leaving
<1> USE DEF home, system, command, notes, user, TypeOK, Idle, Commands, Route, TakeoverSteps,
            RestoreSteps, Files, MaskThere, Masked, Shadowed
<1>1. CASE WriteConfig
  BY <1>1 DEF WriteConfig, Step
<1>2. CASE BackupMask
  BY <1>2 DEF BackupMask, Step
<1>3. CASE WriteMask
  BY <1>3 DEF WriteMask, Step
<1>4. CASE WriteDropIn
  BY <1>4 DEF WriteDropIn, Step
<1>5. CASE BackupShadow
  BY <1>5 DEF BackupShadow, Step
<1>6. CASE WriteShadow
  BY <1>6 DEF WriteShadow, Step
<1>7. CASE RestartDemoted
  BY <1>7 DEF RestartDemoted, Step
<1>8. CASE SignalOwner
  BY <1>8 DEF SignalOwner, Step
<1>9. CASE Unmask
  BY <1>9 DEF Unmask, Step
<1>10. CASE RemoveDropIn
  BY <1>10 DEF RemoveDropIn, Step
<1>11. CASE RemoveShadow
  BY <1>11 DEF RemoveShadow, Step
<1>12. CASE RestoreShadow
  BY <1>12 DEF RestoreShadow, Step
<1>13. CASE RestartRestored
  BY <1>13 DEF RestartRestored, Step
<1>14. CASE WriteUnits
  BY <1>14, UnitLoop DEF WriteUnits, Step, Released
<1>15. CASE Enable
  BY <1>15 DEF Enable, Step
<1>16. CASE Start
  BY <1>16 DEF Start, Step
<1>17. CASE StopUnits
  BY <1>17, StopTyped DEF StopUnits, Step, Released
<1>18. CASE RemoveUnits
  BY <1>18 DEF RemoveUnits, Step
<1>19. CASE Reload
  BY <1>19 DEF Reload, Step
<1>20. CASE StartInstall
  BY <1>20 DEF StartInstall, Begin, NoCommand
<1>21. CASE StartUninstall
  BY <1>21 DEF StartUninstall, Begin, NoCommand
<1>22. CASE StartTry
  BY <1>22 DEF StartTry, Begin, NoCommand
<1>23. CASE EndTry
  BY <1>23 DEF EndTry, Begin, NoCommand
<1>24. CASE Return
  BY <1>24 DEF Return, NoCommand
<1>25. CASE Fail
  BY <1>25, InterruptedTyped DEF Fail, ReturnError, NoCommand, Fault
<1>26. CASE NotFound
  BY <1>26 DEF NotFound, ReturnError, NoCommand
<1>27. CASE Crash
  BY <1>27, InterruptedTyped DEF Crash, Fault, NoCommand
<1>28. CASE CrashTry
  BY <1>28 DEF CrashTry, Fault
<1>29. CASE OwnerExits \/ TakeName
  BY <1>29 DEF OwnerExits, TakeName
<1>30. CASE Login
  BY <1>30 DEF Login
<1>31. ASSUME NEW p \in Kept, Edit(p) PROVE Demoted'
  BY <1>31 DEF Edit, NoCommand
<1>32. CASE UNCHANGED vars
  BY <1>32 DEF vars
<1>33. QED
  BY <1>1, <1>2, <1>3, <1>4, <1>5, <1>6, <1>7, <1>8, <1>9, <1>10, <1>11, <1>12, <1>13, <1>14,
     <1>15, <1>16, <1>17, <1>18, <1>19, <1>20, <1>21, <1>22, <1>23, <1>24, <1>25, <1>26, <1>27,
     <1>28, <1>29, <1>30, <1>31, <1>32 DEF Next, CommandStep

\* InstallInv is an invariant.
LEMMA InstallInvariance == Spec => []InstallInv
<1>1. Init => InstallInv
  <2> SUFFICES ASSUME Init PROVE InstallInv
    OBVIOUS
  <2>1. NoCommand \in Commands /\ NoCommand.op = "none" /\ {"none", "idle"} \subseteq Owners \cup Steps
    BY DEF NoCommand, Commands, Modes, Owners, Steps
  <2>2. place \in [Kept -> Contents] /\ backup \in [Kept -> Contents] /\ place = latest
    BY DEF Init, Contents
  <2>3. TypeOK
    BY <2>1, <2>2 DEF Init, TypeOK, Idle, Owners, Steps
  <2>4. Route
    BY <2>1 DEF Init, Route, TakeoverSteps, RestoreSteps
  <2>5. \A p \in Kept : place[p] \in Versions \cup {"absent"} /\ backup[p] = "absent"
    BY DEF Init
  <2>6. Safe
    BY <2>2, <2>5, InstallAssumption DEF Init, Safe, Mistaken
  <2>7. Orderly
    BY <2>2, <2>5 DEF Orderly, Untouched
  <2>8. Files
    BY <2>1, <2>5, InstallAssumption
       DEF Init, Files, MaskGone, ShadowGone, MaskThere, Masked, Shadowed, Kept
  <2>9. UnitFiles /\ Demoted
    BY <2>1 DEF Init, UnitFiles, Demoted
  <2>10. QED
    BY <2>3, <2>4, <2>6, <2>7, <2>8, <2>9 DEF InstallInv
<1>2. InstallInv /\ [Next]_vars => InstallInv'
  BY TypesKept, RouteKept, SafeKept, OrderlyKept, FilesKept, UnitFilesKept, DemotedKept
     DEF InstallInv
<1>3. QED
  BY <1>1, <1>2, PTL DEF Spec

-----------------------------------------------------------------------------
(* The dry run *)

Ops == {"write", "remove", "backup", "restore", "run", "enable", "start", "signal"}
Targets == {"config", "mask", "dropIn", "shadow", "owner", "daemon-reload", "try-restart"} \cup Units
Lists == Seq([op : Ops, target : Targets])
Signal == Change("signal", "owner")

\* Concatenation under a name of its own: the provers take \o apart.
s ++ t == s \o t

\* What Install has yet to change before it comes to the signal, from each of
\* its steps on.
ShadowPart ==
    When(UsersOwn("shadow"), Change("backup", "shadow")) ++ (Change("write", "shadow") ++ Restart)
DropInPart == Change("write", "dropIn") ++ ShadowPart
MaskPart(kind) == Change("write", "mask") ++ When(kind = "gnome-keyring", DropInPart)
TakeoverPart(kind) == When(UsersOwn("mask"), Change("backup", "mask")) ++ MaskPart(kind)

RestorePart(any) == When(backup["shadow"] # "absent", Change("restore", "shadow")) ++ When(any, Restart)
UnshadowPart(any) ==
    IF Shadowed THEN Change("remove", "shadow") ++ RestorePart(TRUE) ELSE When(any, Restart)
DropOutPart == When(dropIn, Change("remove", "dropIn")) ++ UnshadowPart(dropIn)
RemotePart == UnmaskChanges ++ DropOutPart

\* And after it.
StartChanges ==
    When(cmd.start, When(Takeover, Change("start", "bus.socket")) ++ Change("start", "proxy"))
Behind == UnitChanges(cmd.mode) ++ SystemctlChanges(cmd.mode, cmd.start)

\* The plan is what was done and the given changes, then perhaps the signal,
\* then the rest.
Coming(ahead) == \E x \in BOOLEAN : planned = (done ++ ahead) ++ (When(x, Signal) ++ Behind)

\* The signal is behind us, and the given changes remain.
Remaining(left) ==
    \E pre, post \in Lists, x, y \in BOOLEAN :
        /\ done = pre ++ (When(y, Signal) ++ post)
        /\ planned = pre ++ (When(x, Signal) ++ (post ++ left))

\* What was done and what lies ahead is what was planned, apart from the signal.
Listing ==
    /\ done \in Lists
    /\ cmd.op = "install" =>
           /\ pc = "config" => done = <<>>
           /\ pc = "backupMask" => Coming(TakeoverPart(provider))
           /\ pc = "writeMask" => Coming(MaskPart(provider))
           /\ pc = "dropIn" => Coming(DropInPart)
           /\ pc = "backupShadow" => Coming(ShadowPart)
           /\ pc = "writeShadow" => Coming(Change("write", "shadow") ++ Restart)
           /\ pc = "restartDemoted" => Coming(Restart)
           /\ pc = "signal" => Coming(<<>>)
           /\ pc = "unmask" => Coming(RemotePart)
           /\ pc = "removeDropIn" => Coming(DropOutPart)
           /\ pc = "removeShadow" => Coming(UnshadowPart(changed))
           /\ pc = "restoreShadow" => Coming(RestorePart(changed))
           /\ pc = "restartRestored" => Coming(When(changed, Restart))
           /\ pc = "units" => Remaining(Behind)
           /\ pc = "enable" => Remaining(SystemctlChanges(cmd.mode, cmd.start))
           /\ pc = "start" => Remaining(StartChanges)
           /\ pc = "end" => Remaining(<<>>)

\* Lists of changes are closed under what Plan builds them with.
LEMMA ListTypes ==
    /\ <<>> \in Lists
    /\ \A op \in Ops, target \in Targets : Change(op, target) \in Lists
    /\ \A c, s : s \in Lists => When(c, s) \in Lists
    /\ \A s, t \in Lists : s ++ t \in Lists
<1>1. <<>> \in Lists
  BY DEF Lists
<1>2. \A op \in Ops, target \in Targets : Change(op, target) \in Lists
  BY DEF Lists, Change
<1>3. \A c, s : s \in Lists => When(c, s) \in Lists
  BY <1>1 DEF When
<1>4. ASSUME NEW s \in Lists, NEW t \in Lists PROVE s ++ t \in Lists
  BY ConcatProperties DEF Lists, ++
<1>5. QED
  BY <1>1, <1>2, <1>3, <1>4

\* The changes that occur are changes.
LEMMA ChangeTypes ==
    /\ Change("write", "config") \in Lists /\ Change("signal", "owner") \in Lists
    /\ Change("backup", "mask") \in Lists /\ Change("backup", "shadow") \in Lists
    /\ Change("write", "mask") \in Lists /\ Change("write", "shadow") \in Lists
    /\ Change("write", "dropIn") \in Lists /\ Change("remove", "dropIn") \in Lists
    /\ Change("remove", "mask") \in Lists /\ Change("restore", "mask") \in Lists
    /\ Change("remove", "shadow") \in Lists /\ Change("restore", "shadow") \in Lists
    /\ Change("run", "daemon-reload") \in Lists /\ Change("run", "try-restart") \in Lists
    /\ Change("enable", "bus.socket") \in Lists /\ Change("enable", "proxy") \in Lists
    /\ Change("start", "bus.socket") \in Lists /\ Change("start", "proxy") \in Lists
  BY ListTypes, UnitNames DEF Ops, Targets

\* Concatenation is associative, and the empty list is its unit.
LEMMA ListLaws ==
    /\ \A s \in Lists : s ++ <<>> = s /\ <<>> ++ s = s
    /\ \A s, t, u \in Lists : (s ++ t) ++ u = s ++ (t ++ u)
<1>1. \A s \in Lists : s ++ <<>> = s /\ <<>> ++ s = s
  BY ConcatEmptySeq DEF Lists, ++
<1>2. ASSUME NEW s \in Lists, NEW t \in Lists, NEW u \in Lists
      PROVE  (s ++ t) ++ u = s ++ (t ++ u)
  BY ConcatAssociative DEF Lists, ++
<1>3. QED
  BY <1>1, <1>2

\* So is everything that Plan and Install put together.
LEMMA PartsTyped ==
    /\ Signal \in Lists /\ Restart \in Lists /\ ShadowPart \in Lists /\ DropInPart \in Lists
    /\ \A kind : MaskPart(kind) \in Lists /\ TakeoverPart(kind) \in Lists
    /\ \A any : RestorePart(any) \in Lists /\ UnshadowPart(any) \in Lists
    /\ UnmaskChanges \in Lists /\ DropOutPart \in Lists /\ RemotePart \in Lists
<1> USE ListTypes, ChangeTypes
<1>1. Signal \in Lists /\ Restart \in Lists /\ UnmaskChanges \in Lists
  BY DEF Signal, Restart, UnmaskChanges, ++
<1>2. ShadowPart \in Lists
  BY <1>1 DEF ShadowPart
<1>3. DropInPart \in Lists
  BY <1>2 DEF DropInPart
<1>4. \A kind : MaskPart(kind) \in Lists
  BY <1>3 DEF MaskPart
<1>5. \A kind : TakeoverPart(kind) \in Lists
  BY <1>4 DEF TakeoverPart
<1>6. \A any : RestorePart(any) \in Lists
  BY <1>1 DEF RestorePart
<1>7. \A any : UnshadowPart(any) \in Lists
  BY <1>1, <1>6 DEF UnshadowPart
<1>8. DropOutPart \in Lists
  BY <1>7 DEF DropOutPart
<1>9. RemotePart \in Lists
  BY <1>1, <1>8 DEF RemotePart
<1>10. QED
  BY <1>1, <1>2, <1>3, <1>4, <1>5, <1>6, <1>7, <1>8, <1>9

\* And what comes after the signal.
LEMMA UnitChangesTyped ==
    /\ \A mode : UnitChanges(mode) \in Lists
    /\ \A mode, start : SystemctlChanges(mode, start) \in Lists
    /\ StartChanges \in Lists /\ Behind \in Lists
<1> USE ListTypes, ChangeTypes
<1>1. ASSUME NEW mode, NEW n \in Units PROVE UnitChange(mode, n) \in Lists
  <2>1. n \in Targets /\ "write" \in Ops /\ "remove" \in Ops
    BY DEF Targets, Ops
  <2>2. Change("write", n) \in Lists /\ Change("remove", n) \in Lists
    BY <2>1
  <2>3. QED
    BY <2>2 DEF UnitChange
<1>2. allUnitNames[1] \in Units /\ allUnitNames[2] \in Units /\ allUnitNames[3] \in Units
      /\ allUnitNames[4] \in Units
  BY UnitNames
<1>3. ASSUME NEW mode PROVE UnitChanges(mode) \in Lists
  BY <1>1, <1>2 DEF UnitChanges, ++
<1>4. \A mode, start : SystemctlChanges(mode, start) \in Lists
  BY DEF SystemctlChanges, ++
<1>5. StartChanges \in Lists
  BY DEF StartChanges
<1>6. QED
  BY <1>3, <1>4, <1>5 DEF Behind

\* A step before the signal does the first of the changes that are coming.
LEMMA ComingStep ==
    ASSUME NEW changes \in Lists, NEW rest \in Lists, done \in Lists, done' = done ++ changes,
           UNCHANGED <<cmd, planned, units>>, Coming(changes ++ rest)
    PROVE  \E x \in BOOLEAN : planned' = (done' ++ rest) ++ (When(x, Signal) ++ Behind')
<1>1. Behind' = Behind
  BY DEF Behind, UnitChanges, UnitChange, SystemctlChanges, Needed
<1>2. PICK x \in BOOLEAN : planned = (done ++ (changes ++ rest)) ++ (When(x, Signal) ++ Behind)
  BY DEF Coming
<1>3. (done ++ changes) ++ rest = done ++ (changes ++ rest)
  BY ListLaws
<1>4. QED
  BY <1>1, <1>2, <1>3

\* A step after it does the first of the changes that remain.
LEMMA RemainingStep ==
    ASSUME NEW changes \in Lists, NEW rest \in Lists, done' = done ++ changes, planned' = planned,
           Remaining(changes ++ rest)
    PROVE  \E pre, post \in Lists, x, y \in BOOLEAN :
               /\ done' = pre ++ (When(y, Signal) ++ post)
               /\ planned' = pre ++ (When(x, Signal) ++ (post ++ rest))
<1>1. PICK pre \in Lists, post \in Lists, x \in BOOLEAN, y \in BOOLEAN :
             /\ done = pre ++ (When(y, Signal) ++ post)
             /\ planned = pre ++ (When(x, Signal) ++ (post ++ (changes ++ rest)))
  BY DEF Remaining
<1>2. /\ When(y, Signal) \in Lists /\ post ++ changes \in Lists
      /\ When(y, Signal) ++ post \in Lists
  BY PartsTyped, ListTypes
<1>3. \A mid \in Lists : (pre ++ mid) ++ changes = pre ++ (mid ++ changes)
  BY ListLaws
<1>4. (When(y, Signal) ++ post) ++ changes = When(y, Signal) ++ (post ++ changes)
  BY <1>2, ListLaws
<1>5. (post ++ changes) ++ rest = post ++ (changes ++ rest)
  BY ListLaws
<1>6. QED
  BY <1>1, <1>2, <1>3, <1>4, <1>5

\* The signal itself, or the step past it.
LEMMA SignalStep ==
    ASSUME NEW changes \in Lists, NEW y \in BOOLEAN, done \in Lists,
           done' = (done ++ changes) ++ When(y, Signal), UNCHANGED <<cmd, planned, units>>,
           Coming(changes)
    PROVE  Remaining(Behind)'
<1>1. /\ When(y, Signal) \in Lists /\ <<>> \in Lists /\ done ++ changes \in Lists
      /\ Behind \in Lists
  BY ListTypes, PartsTyped, UnitChangesTyped
<1>2. Behind' = Behind
  BY DEF Behind, UnitChanges, UnitChange, SystemctlChanges, Needed
<1>3. PICK x \in BOOLEAN : planned = (done ++ changes) ++ (When(x, Signal) ++ Behind)
  BY DEF Coming
<1>4. When(y, Signal) ++ <<>> = When(y, Signal) /\ <<>> ++ Behind = Behind
  BY <1>1, ListLaws
<1>5. /\ done' = (done ++ changes) ++ (When(y, Signal) ++ <<>>)
      /\ planned' = (done ++ changes) ++ (When(x, Signal) ++ (<<>> ++ Behind'))
  BY <1>2, <1>3, <1>4
<1>6. QED
  BY <1>1, <1>5 DEF Remaining

\* Regrouping, four and five lists at a time.
LEMMA Regroup4 ==
    ASSUME NEW a \in Lists, NEW b \in Lists, NEW c \in Lists, NEW d \in Lists
    PROVE  ((a ++ b) ++ c) ++ d = a ++ (b ++ (c ++ d))
<1>1. (a ++ b) ++ c = a ++ (b ++ c) /\ b ++ c \in Lists
  BY ListLaws, ListTypes
<1>2. \A bc \in Lists : (a ++ bc) ++ d = a ++ (bc ++ d)
  BY ListLaws
<1>3. (b ++ c) ++ d = b ++ (c ++ d)
  BY ListLaws
<1>4. QED
  BY <1>1, <1>2, <1>3

LEMMA Regroup5 ==
    ASSUME NEW a \in Lists, NEW b \in Lists, NEW c \in Lists, NEW d \in Lists, NEW e \in Lists
    PROVE  ((a ++ (b ++ c)) ++ d) ++ e = (a ++ b) ++ (c ++ (d ++ e))
<1>1. a ++ (b ++ c) = (a ++ b) ++ c /\ a ++ b \in Lists
  BY ListLaws, ListTypes
<1>2. \A ab \in Lists : ((ab ++ c) ++ d) ++ e = ab ++ (c ++ (d ++ e))
  BY Regroup4
<1>3. QED
  BY <1>1, <1>2

\* What Plan lists, grouped the way Install does it.
LEMMA PlanGrouped ==
    ASSUME NEW mode, NEW start
    PROVE  \E x \in BOOLEAN :
               Plan(mode, start) =
                   (Change("write", "config") ++ (IF mode = "remote" THEN RemotePart ELSE TakeoverPart(owner)))
                   ++ (When(x, Signal) ++ (UnitChanges(mode) ++ SystemctlChanges(mode, start)))
<1> DEFINE cfg == Change("write", "config")
<1>1. cfg \in Lists /\ UnitChanges(mode) \in Lists /\ SystemctlChanges(mode, start) \in Lists
  BY ChangeTypes, UnitChangesTyped
<1>2. RemotePart \in Lists /\ TakeoverPart(owner) \in Lists /\ <<>> \in Lists
  BY PartsTyped, ListTypes
<1>3. PlanRemote = RemotePart
  <2> DEFINE out == When(dropIn, Change("remove", "dropIn"))
             back == When(backup["shadow"] # "absent", Change("restore", "shadow"))
             shadow == When(Shadowed, Change("remove", "shadow") ++ back)
             restart == When(dropIn \/ Shadowed, Restart)
  <2>1. PlanRemote = ((UnmaskChanges ++ out) ++ shadow) ++ restart
    BY DEF PlanRemote, Shadowed, ++
  <2>2. /\ out \in Lists /\ back \in Lists /\ shadow \in Lists /\ restart \in Lists
        /\ UnmaskChanges \in Lists /\ Restart \in Lists /\ Change("remove", "shadow") \in Lists
    BY ListTypes, ChangeTypes, PartsTyped
  <2>3. shadow ++ restart = UnshadowPart(dropIn)
    <3>1. CASE Shadowed
      <4>1. shadow = Change("remove", "shadow") ++ back /\ restart = Restart /\ When(TRUE, Restart) = Restart
        BY <3>1 DEF When
      <4>2. UnshadowPart(dropIn) = Change("remove", "shadow") ++ (back ++ Restart)
        BY <3>1, <4>1 DEF UnshadowPart, RestorePart
      <4> HIDE DEF back, shadow, restart
      <4>3. (Change("remove", "shadow") ++ back) ++ Restart = Change("remove", "shadow") ++ (back ++ Restart)
        BY <2>2, ListLaws
      <4>4. QED
        BY <4>1, <4>2, <4>3
    <3>2. CASE ~Shadowed
      <4>1. shadow = <<>> /\ restart = When(dropIn, Restart)
        BY <3>2 DEF When
      <4>2. UnshadowPart(dropIn) = When(dropIn, Restart)
        BY <3>2 DEF UnshadowPart
      <4> HIDE DEF shadow, restart
      <4>3. <<>> ++ When(dropIn, Restart) = When(dropIn, Restart)
        BY ListLaws, ListTypes, PartsTyped
      <4>4. QED
        BY <4>1, <4>2, <4>3
    <3>3. QED
      BY <3>1, <3>2
  <2>4. RemotePart = UnmaskChanges ++ (out ++ UnshadowPart(dropIn))
    BY DEF RemotePart, DropOutPart
  <2> HIDE DEF out, back, shadow, restart
  <2>5. ((UnmaskChanges ++ out) ++ shadow) ++ restart = UnmaskChanges ++ (out ++ (shadow ++ restart))
    BY <2>2, Regroup4
  <2>6. QED
    BY <2>1, <2>3, <2>4, <2>5
<1>4. PlanTakeover = TakeoverPart(owner) ++ When(owner \notin {"none", "dispatcher"}, Signal)
  <2> DEFINE away == When(UsersOwn("mask"), Change("backup", "mask"))
             hide == When(UsersOwn("shadow"), Change("backup", "shadow"))
             demote == ((Change("write", "dropIn") ++ hide) ++ Change("write", "shadow")) ++ Restart
             demoted == When(owner = "gnome-keyring", demote)
             sig == When(owner \notin {"none", "dispatcher"}, Signal)
  <2>1. PlanTakeover = ((away ++ Change("write", "mask")) ++ demoted) ++ sig
    BY DEF PlanTakeover, DetectProvider, Signal, ++
  <2>2. /\ away \in Lists /\ hide \in Lists /\ demoted \in Lists /\ sig \in Lists
        /\ Change("write", "mask") \in Lists /\ Change("write", "dropIn") \in Lists
        /\ Change("write", "shadow") \in Lists /\ Restart \in Lists
    BY ListTypes, ChangeTypes, PartsTyped
  <2>3. demote = DropInPart
    <3> HIDE DEF hide
    <3>1. demote = Change("write", "dropIn") ++ (hide ++ (Change("write", "shadow") ++ Restart))
      BY <2>2, Regroup4
    <3>2. QED
      BY <3>1 DEF DropInPart, ShadowPart, hide
  <2>4. TakeoverPart(owner) = away ++ (Change("write", "mask") ++ demoted)
    BY <2>3 DEF TakeoverPart, MaskPart
  <2> HIDE DEF away, demoted, sig
  <2>5. (away ++ Change("write", "mask")) ++ demoted = away ++ (Change("write", "mask") ++ demoted)
    BY <2>2, ListLaws
  <2>6. QED
    BY <2>1, <2>4, <2>5 DEF sig
<1>5. CASE mode = "remote"
  <2>1. Plan(mode, start) =
          ((cfg ++ RemotePart) ++ UnitChanges(mode)) ++ SystemctlChanges(mode, start)
    BY <1>3, <1>5 DEF Plan, ++
  <2>2. RemotePart ++ <<>> = RemotePart
    BY <1>2, ListLaws
  <2>3. Plan(mode, start) =
          (cfg ++ RemotePart)
          ++ (<<>> ++ (UnitChanges(mode) ++ SystemctlChanges(mode, start)))
    <3> HIDE DEF cfg
    <3>1. QED
      BY <1>1, <1>2, <2>1, <2>2, Regroup5
  <2>4. When(FALSE, Signal) = <<>>
    BY DEF When
  <2>5. QED
    BY <1>5, <2>3, <2>4
<1>6. CASE mode # "remote"
  <2> DEFINE sig == When(owner \notin {"none", "dispatcher"}, Signal)
  <2>1. Plan(mode, start) =
          ((cfg ++ (TakeoverPart(owner) ++ sig)) ++ UnitChanges(mode))
          ++ SystemctlChanges(mode, start)
    BY <1>4, <1>6 DEF Plan, ++
  <2>2. sig \in Lists
    BY ListTypes, PartsTyped
  <2>3. Plan(mode, start) =
          (cfg ++ TakeoverPart(owner))
          ++ (sig ++ (UnitChanges(mode) ++ SystemctlChanges(mode, start)))
    <3> HIDE DEF sig, cfg
    <3>1. QED
      BY <1>1, <1>2, <2>1, <2>2, Regroup5
  <2>4. QED
    BY <1>6, <2>3
<1>7. QED
  BY <1>5, <1>6

\* When Install begins, nothing is done.
LEMMA BeginListing ==
    ASSUME NEW c, NEW step \in {"config", "stop"}, step = "stop" => c.op = "uninstall", Begin(c, step)
    PROVE  Listing'
  BY ListTypes DEF Begin, Listing

\* Every step leaves done and what lies ahead in accord with the plan.
LEMMA ListingKept ==
    ASSUME TypeOK, Route, Listing, [Next]_vars
    PROVE  Listing'
<1> USE ListTypes, ChangeTypes
<1>0. done \in Lists
  BY DEF Listing
<1>1. CASE BackupMask
  <2> DEFINE changes == When(UsersOwn("mask"), Change("backup", "mask"))
  <2>1. /\ Step("backupMask", "writeMask", changes) /\ UNCHANGED <<dropIn, units, provider>> /\ BackupFile("mask")
    BY <1>1 DEF BackupMask
  <2>2. changes \in Lists /\ MaskPart(provider) \in Lists
    BY PartsTyped
  <2>3. TakeoverPart(provider) = changes ++ MaskPart(provider)
    BY DEF TakeoverPart
  <2>4. MaskPart(provider)' = MaskPart(provider)
    BY <1>1 DEF BackupMask, BackupFile, MaskPart, DropInPart, ShadowPart, UsersOwn, TypeOK, Kept
  <2>5. /\ pc = "backupMask" /\ pc' = "writeMask" /\ done' = done ++ changes
        /\ UNCHANGED <<cmd, planned, units>>
    BY <1>1, <2>1 DEF BackupMask, Step, notes, ++
  <2>6. done' \in Lists
    BY <1>0, <2>2, <2>5
  <2>7. ASSUME cmd.op = "install" PROVE Coming(MaskPart(provider))'
    <3>1. Coming(changes ++ MaskPart(provider))
      BY <2>3, <2>5, <2>7 DEF Listing
    <3> HIDE DEF changes
    <3>2. \E x \in BOOLEAN : planned' = (done' ++ MaskPart(provider)) ++ (When(x, Signal) ++ Behind')
      BY <1>0, <2>2, <2>5, <3>1, ComingStep
    <3>3. QED
      BY <2>4, <3>2 DEF Coming
  <2>8. QED
    BY <2>5, <2>6, <2>7 DEF Listing
<1>2. CASE WriteDropIn
  <2> DEFINE changes == Change("write", "dropIn")
  <2>1. /\ Step("dropIn", "backupShadow", changes) /\ UNCHANGED <<place, units>>
    BY <1>2 DEF WriteDropIn
  <2>2. changes \in Lists /\ ShadowPart \in Lists
    BY PartsTyped
  <2>3. DropInPart = changes ++ ShadowPart
    BY DEF DropInPart
  <2>4. ShadowPart' = ShadowPart
    BY <1>2 DEF WriteDropIn, ShadowPart, UsersOwn, TypeOK, Kept
  <2>5. /\ pc = "dropIn" /\ pc' = "backupShadow" /\ done' = done ++ changes
        /\ UNCHANGED <<cmd, planned, units>>
    BY <1>2, <2>1 DEF WriteDropIn, Step, notes, ++
  <2>6. done' \in Lists
    BY <1>0, <2>2, <2>5
  <2>7. ASSUME cmd.op = "install" PROVE Coming(ShadowPart)'
    <3>1. Coming(changes ++ ShadowPart)
      BY <2>3, <2>5, <2>7 DEF Listing
    <3> HIDE DEF changes
    <3>2. \E x \in BOOLEAN : planned' = (done' ++ ShadowPart) ++ (When(x, Signal) ++ Behind')
      BY <1>0, <2>2, <2>5, <3>1, ComingStep
    <3>3. QED
      BY <2>4, <3>2 DEF Coming
  <2>8. QED
    BY <2>5, <2>6, <2>7 DEF Listing
<1>3. CASE BackupShadow
  <2> DEFINE changes == When(UsersOwn("shadow"), Change("backup", "shadow"))
  <2>1. /\ Step("backupShadow", "writeShadow", changes) /\ UNCHANGED <<units>>
    BY <1>3 DEF BackupShadow
  <2>2. changes \in Lists /\ (Change("write", "shadow") ++ Restart) \in Lists
    BY PartsTyped
  <2>3. ShadowPart = changes ++ (Change("write", "shadow") ++ Restart)
    BY DEF ShadowPart
  <2>4. /\ pc = "backupShadow" /\ pc' = "writeShadow" /\ done' = done ++ changes
        /\ UNCHANGED <<cmd, planned, units>>
    BY <1>3, <2>1 DEF BackupShadow, Step, notes, ++
  <2>5. done' \in Lists
    BY <1>0, <2>2, <2>4
  <2>6. ASSUME cmd.op = "install" PROVE Coming((Change("write", "shadow") ++ Restart))'
    <3>1. Coming(changes ++ (Change("write", "shadow") ++ Restart))
      BY <2>3, <2>4, <2>6 DEF Listing
    <3> HIDE DEF changes
    <3>2. \E x \in BOOLEAN : planned' = (done' ++ (Change("write", "shadow") ++ Restart)) ++ (When(x, Signal) ++ Behind')
      BY <1>0, <2>2, <2>4, <3>1, ComingStep
    <3>3. QED
      BY <3>2 DEF Coming
  <2>7. QED
    BY <2>4, <2>5, <2>6 DEF Listing
<1>4. CASE WriteShadow
  <2> DEFINE changes == Change("write", "shadow")
  <2>1. /\ Step("writeShadow", "restartDemoted", changes) /\ UNCHANGED <<units>>
    BY <1>4 DEF WriteShadow
  <2>2. changes \in Lists /\ Restart \in Lists
    BY PartsTyped
  <2>3. Change("write", "shadow") ++ Restart = changes ++ Restart
    BY PartsTyped
  <2>4. /\ pc = "writeShadow" /\ pc' = "restartDemoted" /\ done' = done ++ changes
        /\ UNCHANGED <<cmd, planned, units>>
    BY <1>4, <2>1 DEF WriteShadow, Step, notes, ++
  <2>5. done' \in Lists
    BY <1>0, <2>2, <2>4
  <2>6. ASSUME cmd.op = "install" PROVE Coming(Restart)'
    <3>1. Coming(changes ++ Restart)
      BY <2>3, <2>4, <2>6 DEF Listing
    <3> HIDE DEF changes
    <3>2. \E x \in BOOLEAN : planned' = (done' ++ Restart) ++ (When(x, Signal) ++ Behind')
      BY <1>0, <2>2, <2>4, <3>1, ComingStep
    <3>3. QED
      BY <3>2 DEF Coming
  <2>7. QED
    BY <2>4, <2>5, <2>6 DEF Listing
<1>5. CASE RestartDemoted
  <2> DEFINE changes == Restart
  <2>1. /\ Step("restartDemoted", "signal", changes) /\ UNCHANGED <<units>>
    BY <1>5 DEF RestartDemoted, home, system
  <2>2. changes \in Lists /\ <<>> \in Lists
    BY PartsTyped
  <2>3. Restart = changes ++ <<>>
    BY PartsTyped, ListLaws
  <2>4. /\ pc = "restartDemoted" /\ pc' = "signal" /\ done' = done ++ changes
        /\ UNCHANGED <<cmd, planned, units>>
    BY <1>5, <2>1 DEF RestartDemoted, Step, notes, ++
  <2>5. done' \in Lists
    BY <1>0, <2>2, <2>4
  <2>6. ASSUME cmd.op = "install" PROVE Coming(<<>>)'
    <3>1. Coming(changes ++ <<>>)
      BY <2>3, <2>4, <2>6 DEF Listing
    <3> HIDE DEF changes
    <3>2. \E x \in BOOLEAN : planned' = (done' ++ <<>>) ++ (When(x, Signal) ++ Behind')
      BY <1>0, <2>2, <2>4, <3>1, ComingStep
    <3>3. QED
      BY <3>2 DEF Coming
  <2>7. QED
    BY <2>4, <2>5, <2>6 DEF Listing
<1>6. CASE Unmask
  <2> DEFINE changes == UnmaskChanges
  <2>1. /\ Step("unmask", "removeDropIn", changes) /\ UNCHANGED <<dropIn, units>>
    BY <1>6 DEF Unmask
  <2>2. changes \in Lists /\ DropOutPart \in Lists
    BY PartsTyped
  <2>3. RemotePart = changes ++ DropOutPart
    BY DEF RemotePart
  <2>4. DropOutPart' = DropOutPart
    BY <1>6 DEF Unmask, DropOutPart, UnshadowPart, RestorePart, Shadowed, TypeOK, Kept
  <2>5. /\ pc = "unmask" /\ pc' = "removeDropIn" /\ done' = done ++ changes
        /\ UNCHANGED <<cmd, planned, units>>
    BY <1>6, <2>1 DEF Unmask, Step, notes, ++
  <2>6. done' \in Lists
    BY <1>0, <2>2, <2>5
  <2>7. ASSUME cmd.op = "install" PROVE Coming(DropOutPart)'
    <3>1. Coming(changes ++ DropOutPart)
      BY <2>3, <2>5, <2>7 DEF Listing
    <3> HIDE DEF changes
    <3>2. \E x \in BOOLEAN : planned' = (done' ++ DropOutPart) ++ (When(x, Signal) ++ Behind')
      BY <1>0, <2>2, <2>5, <3>1, ComingStep
    <3>3. QED
      BY <2>4, <3>2 DEF Coming
  <2>8. QED
    BY <2>5, <2>6, <2>7 DEF Listing
<1>7. CASE RemoveDropIn
  <2> DEFINE changes == When(dropIn, Change("remove", "dropIn"))
  <2>1. /\ Step("removeDropIn", "removeShadow", changes) /\ UNCHANGED <<place, backup, units>> /\ changed' = dropIn
    BY <1>7 DEF RemoveDropIn
  <2>2. changes \in Lists /\ UnshadowPart(dropIn) \in Lists
    BY PartsTyped
  <2>3. DropOutPart = changes ++ UnshadowPart(dropIn)
    BY DEF DropOutPart
  <2>4. UnshadowPart(changed)' = UnshadowPart(dropIn)
    BY <2>1 DEF UnshadowPart, RestorePart, Shadowed
  <2>5. /\ pc = "removeDropIn" /\ pc' = "removeShadow" /\ done' = done ++ changes
        /\ UNCHANGED <<cmd, planned, units>>
    BY <1>7, <2>1 DEF RemoveDropIn, Step, notes, ++
  <2>6. done' \in Lists
    BY <1>0, <2>2, <2>5
  <2>7. ASSUME cmd.op = "install" PROVE Coming(UnshadowPart(changed))'
    <3>1. Coming(changes ++ UnshadowPart(dropIn))
      BY <2>3, <2>5, <2>7 DEF Listing
    <3> HIDE DEF changes
    <3>2. \E x \in BOOLEAN : planned' = (done' ++ UnshadowPart(dropIn)) ++ (When(x, Signal) ++ Behind')
      BY <1>0, <2>2, <2>5, <3>1, ComingStep
    <3>3. QED
      BY <2>4, <3>2 DEF Coming
  <2>8. QED
    BY <2>5, <2>6, <2>7 DEF Listing
<1>8. CASE RestoreShadow
  <2> DEFINE changes == When(backup["shadow"] # "absent", Change("restore", "shadow"))
  <2>1. /\ Step("restoreShadow", "restartRestored", changes) /\ UNCHANGED <<units, changed>>
    BY <1>8 DEF RestoreShadow
  <2>2. changes \in Lists /\ When(changed, Restart) \in Lists
    BY PartsTyped
  <2>3. RestorePart(changed) = changes ++ When(changed, Restart)
    BY DEF RestorePart
  <2>4. When(changed, Restart)' = When(changed, Restart)
    BY <2>1 DEF When, Restart, Change
  <2>5. /\ pc = "restoreShadow" /\ pc' = "restartRestored" /\ done' = done ++ changes
        /\ UNCHANGED <<cmd, planned, units>>
    BY <1>8, <2>1 DEF RestoreShadow, Step, notes, ++
  <2>6. done' \in Lists
    BY <1>0, <2>2, <2>5
  <2>7. ASSUME cmd.op = "install" PROVE Coming(When(changed, Restart))'
    <3>1. Coming(changes ++ When(changed, Restart))
      BY <2>3, <2>5, <2>7 DEF Listing
    <3> HIDE DEF changes
    <3>2. \E x \in BOOLEAN : planned' = (done' ++ When(changed, Restart)) ++ (When(x, Signal) ++ Behind')
      BY <1>0, <2>2, <2>5, <3>1, ComingStep
    <3>3. QED
      BY <2>4, <3>2 DEF Coming
  <2>8. QED
    BY <2>5, <2>6, <2>7 DEF Listing
<1>9. CASE WriteConfig
  <2> DEFINE changes == Change("write", "config")
             rest == IF cmd.mode = "remote" THEN RemotePart ELSE TakeoverPart(owner)
  <2>1. /\ pc = "config" /\ pc' = (IF Takeover THEN "backupMask" ELSE "unmask")
        /\ done' = done ++ changes /\ UNCHANGED <<cmd, place, backup, dropIn, units>>
        /\ planned' = Plan(cmd.mode, cmd.start)
        /\ Takeover => provider' = owner
    BY <1>9 DEF WriteConfig, Step, notes, DetectProvider, ++
  <2>2. changes \in Lists /\ rest \in Lists
    BY PartsTyped
  <2>3. /\ Takeover => TakeoverPart(provider)' = rest
        /\ ~Takeover => RemotePart' = rest
    BY <2>1 DEF Takeover, RemotePart, UnmaskChanges, DropOutPart, UnshadowPart, RestorePart, Shadowed,
                TakeoverPart, MaskPart, DropInPart, ShadowPart, UsersOwn
  <2>4. cmd.op = "install" /\ done' = changes
    BY <2>1, <2>2, ListLaws DEF Route, Listing
  <2>5. Behind' = UnitChanges(cmd.mode) ++ SystemctlChanges(cmd.mode, cmd.start)
    BY <2>1 DEF Behind, UnitChanges, UnitChange, Needed
  <2>6. \E x \in BOOLEAN : planned' = (changes ++ rest) ++ (When(x, Signal) ++ Behind')
    BY <2>1, <2>5, PlanGrouped
  <2> HIDE DEF changes, rest
  <2>7. \E x \in BOOLEAN : planned' = (done' ++ rest) ++ (When(x, Signal) ++ Behind')
    BY <2>4, <2>6
  <2>8. /\ Takeover => Coming(TakeoverPart(provider))'
        /\ ~Takeover => Coming(RemotePart)'
    BY <2>3, <2>7 DEF Coming
  <2>9. done' \in Lists
    BY <2>2, <2>4
  <2>10. QED
    BY <2>1, <2>8, <2>9 DEF Listing
<1>10. CASE WriteMask
  <2> DEFINE changes == Change("write", "mask")
             rest == When(provider = "gnome-keyring", DropInPart)
  <2>1. /\ pc = "writeMask" /\ pc' = (IF provider = "gnome-keyring" THEN "dropIn" ELSE "signal")
        /\ done' = done ++ changes /\ UNCHANGED <<cmd, planned, units>>
        /\ place' = [place EXCEPT !["mask"] = "ours"]
    BY <1>10 DEF WriteMask, Step, notes, ++
  <2>2. changes \in Lists /\ rest \in Lists
    BY PartsTyped
  <2>3. DropInPart' = DropInPart
    BY <2>1 DEF DropInPart, ShadowPart, UsersOwn, TypeOK, Kept
  <2>4. /\ provider = "gnome-keyring" => DropInPart' = rest
        /\ provider # "gnome-keyring" => <<>> = rest
    BY <2>3 DEF When
  <2>5. done' \in Lists
    BY <1>0, <2>1, <2>2
  <2>6. ASSUME cmd.op = "install"
        PROVE  /\ provider = "gnome-keyring" => Coming(DropInPart)'
               /\ provider # "gnome-keyring" => Coming(<<>>)'
    <3>1. Coming(changes ++ rest)
      BY <2>1, <2>6 DEF Listing, MaskPart
    <3> HIDE DEF changes, rest
    <3>2. \E x \in BOOLEAN : planned' = (done' ++ rest) ++ (When(x, Signal) ++ Behind')
      BY <1>0, <2>1, <2>2, <3>1, ComingStep
    <3>3. QED
      BY <2>4, <3>2 DEF Coming
  <2>7. QED
    BY <2>1, <2>5, <2>6 DEF Listing
<1>11. CASE RemoveShadow
  <2> DEFINE changes == When(Shadowed, Change("remove", "shadow"))
             rest == IF Shadowed THEN RestorePart(TRUE) ELSE When(changed, Restart)
  <2>1. /\ pc = "removeShadow" /\ pc' = (IF Shadowed THEN "restoreShadow" ELSE "restartRestored")
        /\ done' = done ++ changes /\ UNCHANGED <<cmd, planned, units, backup>>
        /\ changed' = (changed \/ Shadowed)
    BY <1>11 DEF RemoveShadow, Step, notes, ++
  <2>2. changes \in Lists /\ rest \in Lists
    BY PartsTyped
  <2>3. changed \in BOOLEAN /\ Shadowed \in BOOLEAN
    BY DEF TypeOK, Shadowed
  <2>4. UnshadowPart(changed) = changes ++ rest
    <3>1. CASE Shadowed
      BY <3>1 DEF UnshadowPart, When
    <3>2. CASE ~Shadowed
      <4>1. changes = <<>> /\ rest = When(changed, Restart) /\ UnshadowPart(changed) = When(changed, Restart)
        BY <3>2 DEF UnshadowPart, When
      <4>2. QED
        BY <2>2, <4>1, ListLaws
    <3>3. QED
      BY <3>1, <3>2
  <2>5. /\ Shadowed => RestorePart(changed)' = rest
        /\ ~Shadowed => When(changed, Restart)' = rest
    <3>1. Shadowed => changed' = TRUE
      BY <2>1
    <3>2. ~Shadowed => changed' = changed
      BY <2>1, <2>3
    <3>3. Restart' = Restart
      BY DEF Restart, Change
    <3>4. QED
      BY <2>1, <3>1, <3>2, <3>3 DEF RestorePart, When
  <2>6. done' \in Lists
    BY <1>0, <2>1, <2>2
  <2>7. ASSUME cmd.op = "install"
        PROVE  /\ Shadowed => Coming(RestorePart(changed))'
               /\ ~Shadowed => Coming(When(changed, Restart))'
    <3>1. Coming(changes ++ rest)
      BY <2>1, <2>4, <2>7 DEF Listing
    <3> HIDE DEF changes, rest
    <3>2. \E x \in BOOLEAN : planned' = (done' ++ rest) ++ (When(x, Signal) ++ Behind')
      BY <1>0, <2>1, <2>2, <3>1, ComingStep
    <3>3. QED
      BY <2>5, <3>2 DEF Coming
  <2>8. QED
    BY <2>1, <2>6, <2>7 DEF Listing
<1>12. CASE RestartRestored
  <2> DEFINE changes == When(changed, Restart)
  <2>1. /\ pc = "restartRestored" /\ pc' = (IF cmd.op = "install" THEN "units" ELSE "reload")
        /\ done' = done ++ changes /\ UNCHANGED <<cmd, planned, units>>
    BY <1>12 DEF RestartRestored, Step, notes, home, Restart, ++
  <2>2. changes \in Lists /\ done ++ changes \in Lists /\ done' \in Lists
    BY <1>0, <2>1, PartsTyped
  <2>3. ASSUME cmd.op = "install" PROVE Remaining(Behind)'
    <3>1. Coming(changes)
      BY <2>1, <2>3 DEF Listing
    <3>2. When(FALSE, Signal) = <<>>
      BY DEF When
    <3> HIDE DEF changes
    <3>3. done' = (done ++ changes) ++ When(FALSE, Signal)
      BY <2>1, <2>2, <3>2, ListLaws
    <3>4. QED
      BY <1>0, <2>1, <2>2, <3>1, <3>3, SignalStep
  <2>4. QED
    BY <2>1, <2>2, <2>3 DEF Listing
<1>13. CASE SignalOwner
  <2>1. /\ pc = "signal" /\ pc' = "units" /\ UNCHANGED <<cmd, planned, units>>
        /\ done' = done ++ When(owner # "none", Signal)
    BY <1>13 DEF SignalOwner, Step, notes, home, Signal, ++
  <2>2. When(owner # "none", Signal) \in Lists /\ done ++ <<>> = done
    BY <1>0, PartsTyped, ListLaws
  <2>3. done' \in Lists
    BY <1>0, <2>1, <2>2
  <2>4. ASSUME cmd.op = "install" PROVE Remaining(Behind)'
    <3>1. Coming(<<>>)
      BY <2>1, <2>4 DEF Listing
    <3>2. done' = (done ++ <<>>) ++ When(owner # "none", Signal)
      BY <2>1, <2>2
    <3>3. QED
      BY <1>0, <2>1, <3>1, <3>2, SignalStep
  <2>5. QED
    BY <2>1, <2>3, <2>4 DEF Listing
<1>14. CASE WriteUnits
  <2> DEFINE changes == UnitChanges(cmd.mode)
             rest == SystemctlChanges(cmd.mode, cmd.start)
  <2>1. /\ pc = "units" /\ pc' = "enable" /\ UNCHANGED <<cmd, planned>>
        /\ done' = done ++ changes
    BY <1>14 DEF WriteUnits, Step, notes, ++
  <2>2. changes \in Lists /\ rest \in Lists
    BY UnitChangesTyped
  <2>3. done' \in Lists
    BY <1>0, <2>1, <2>2
  <2>4. SystemctlChanges(cmd.mode, cmd.start)' = rest
    BY <2>1 DEF SystemctlChanges
  <2>5. ASSUME cmd.op = "install" PROVE Remaining(SystemctlChanges(cmd.mode, cmd.start))'
    <3>1. Remaining(changes ++ rest)
      BY <2>1, <2>5 DEF Listing, Behind
    <3> HIDE DEF changes, rest
    <3>2. \E pre, post \in Lists, x, y \in BOOLEAN :
             /\ done' = pre ++ (When(y, Signal) ++ post)
             /\ planned' = pre ++ (When(x, Signal) ++ (post ++ rest))
      BY <2>1, <2>2, <3>1, RemainingStep
    <3>3. QED
      BY <2>4, <3>2 DEF Remaining
  <2>6. QED
    BY <2>1, <2>3, <2>5 DEF Listing
<1>15. CASE Enable
  <2> DEFINE changes == SystemctlChanges(cmd.mode, FALSE)
  <2>1. /\ pc = "enable" /\ pc' = "start" /\ UNCHANGED <<cmd, planned>>
        /\ done' = done ++ changes
    BY <1>15 DEF Enable, Step, notes, ++
  <2>2. changes \in Lists /\ StartChanges \in Lists
    BY UnitChangesTyped
  <2>3. done' \in Lists
    BY <1>0, <2>1, <2>2
  <2>4. StartChanges' = StartChanges
    BY <2>1 DEF StartChanges, Takeover
  <2>5. SystemctlChanges(cmd.mode, cmd.start) = changes ++ StartChanges
    <3> DEFINE enable == (Change("run", "daemon-reload")
                          ++ When(cmd.mode # "remote", Change("enable", "bus.socket")))
                         ++ Change("enable", "proxy")
    <3>1. /\ SystemctlChanges(cmd.mode, cmd.start) = enable ++ StartChanges
          /\ changes = enable ++ When(FALSE, When(cmd.mode # "remote", Change("start", "bus.socket"))
                                             ++ Change("start", "proxy"))
      BY DEF SystemctlChanges, StartChanges, Takeover, ++
    <3>2. enable \in Lists
      OBVIOUS
    <3>3. changes = enable ++ <<>>
      BY <3>1 DEF When
    <3> HIDE DEF enable, changes
    <3>4. QED
      BY <3>1, <3>2, <3>3, ListLaws
  <2>6. ASSUME cmd.op = "install" PROVE Remaining(StartChanges)'
    <3>1. Remaining(changes ++ StartChanges)
      BY <2>1, <2>5, <2>6 DEF Listing
    <3> HIDE DEF changes
    <3>2. \E pre, post \in Lists, x, y \in BOOLEAN :
             /\ done' = pre ++ (When(y, Signal) ++ post)
             /\ planned' = pre ++ (When(x, Signal) ++ (post ++ StartChanges))
      BY <2>1, <2>2, <3>1, RemainingStep
    <3>3. QED
      BY <2>4, <3>2 DEF Remaining
  <2>7. QED
    BY <2>1, <2>3, <2>6 DEF Listing
<1>16. CASE Start
  <2>1. /\ pc = "start" /\ pc' = "end" /\ UNCHANGED <<cmd, planned>>
        /\ done' = done ++ StartChanges
    BY <1>16 DEF Start, Step, notes, StartChanges, ++
  <2>2. StartChanges \in Lists /\ StartChanges ++ <<>> = StartChanges /\ <<>> \in Lists
    BY UnitChangesTyped, ListLaws
  <2>3. done' \in Lists
    BY <1>0, <2>1, <2>2
  <2>4. ASSUME cmd.op = "install" PROVE Remaining(<<>>)'
    <3>1. Remaining(StartChanges ++ <<>>)
      BY <2>1, <2>2, <2>4 DEF Listing
    <3>2. \E pre, post \in Lists, x, y \in BOOLEAN :
             /\ done' = pre ++ (When(y, Signal) ++ post)
             /\ planned' = pre ++ (When(x, Signal) ++ (post ++ <<>>))
      BY <2>1, <2>2, <3>1, RemainingStep
    <3>3. QED
      BY <3>2 DEF Remaining
  <2>5. QED
    BY <2>1, <2>3, <2>4 DEF Listing
<1>17. CASE StartInstall
  BY <1>17, BeginListing DEF StartInstall
<1>18. CASE StartTry
  BY <1>18, BeginListing DEF StartTry
<1>19. ASSUME done' \in Lists, cmd'.op # "install" PROVE Listing'
  BY <1>19 DEF Listing
<1>20. CASE StopUnits \/ RemoveUnits \/ Reload
  <2>1. done' = done ++ <<>> /\ cmd' = cmd /\ cmd.op = "uninstall"
    BY <1>20 DEF StopUnits, RemoveUnits, Reload, Step, Route, ++
  <2>2. QED
    BY <1>0, <1>19, <2>1
<1>21. CASE StartUninstall \/ EndTry
  <2>1. done' = <<>> /\ cmd'.op = "uninstall"
    BY <1>21 DEF StartUninstall, EndTry, Begin
  <2>2. QED
    BY <1>19, <2>1
<1>22. CASE Return \/ Fail \/ NotFound \/ Crash
  <2>1. done' = <<>> /\ cmd'.op # "install"
    BY <1>22 DEF Return, Fail, NotFound, Crash, ReturnError, NoCommand
  <2>2. QED
    BY <1>19, <2>1
<1>23. CASE CrashTry \/ TakeName \/ Login \/ \E p \in Kept : Edit(p)
  <2>1. done' = done /\ cmd' = cmd /\ cmd.op # "install"
    BY <1>23 DEF CrashTry, TakeName, Login, Edit, Idle, command
  <2>2. QED
    BY <1>0, <1>19, <2>1
<1>24. CASE OwnerExits \/ UNCHANGED vars
  <2>1. UNCHANGED <<place, backup, dropIn, units, cmd, pc, provider, changed, done, planned>>
    BY <1>24 DEF OwnerExits, vars, home, command, notes
  <2>2. /\ TakeoverPart(provider)' = TakeoverPart(provider)
        /\ MaskPart(provider)' = MaskPart(provider) /\ DropInPart' = DropInPart /\ ShadowPart' = ShadowPart
    BY <2>1 DEF TakeoverPart, MaskPart, DropInPart, ShadowPart, UsersOwn
  <2>3. /\ RemotePart' = RemotePart /\ DropOutPart' = DropOutPart
        /\ UnshadowPart(changed)' = UnshadowPart(changed) /\ RestorePart(changed)' = RestorePart(changed)
    BY <2>1 DEF RemotePart, UnmaskChanges, DropOutPart, UnshadowPart, RestorePart, Shadowed
  <2>4. Behind' = Behind /\ StartChanges' = StartChanges
    BY <2>1 DEF Behind, StartChanges, Takeover, UnitChanges, UnitChange, Needed
  <2>5. QED
    BY <2>1, <2>2, <2>3, <2>4 DEF Listing, Coming, Remaining
<1>25. QED
  BY <1>1, <1>2, <1>3, <1>4, <1>5, <1>6, <1>7, <1>8, <1>9, <1>10, <1>11, <1>12, <1>13, <1>14,
     <1>15, <1>16, <1>17, <1>18, <1>20, <1>21, <1>22, <1>23, <1>24 DEF Next, CommandStep

\* So Listing is an invariant.
LEMMA ListingInvariance == Spec => []Listing
<1>1. Init => Listing
  BY ListTypes DEF Init, NoCommand, Listing
<1>2. InstallInv /\ Listing /\ [Next]_vars => Listing'
  BY ListingKept DEF InstallInv
<1>3. QED
  BY <1>1, <1>2, InstallInvariance, PTL DEF Spec

-----------------------------------------------------------------------------
(* Theorems *)

\* Whatever fails, dies or is edited, and in whatever order the commands come,
\* the user's version of each file is in its place or in the backup, or a file
\* that a fault tore was backed up over it.
THEOREM NothingIsLost == Spec => []NothingLost
<1>1. InstallInv => NothingLost
  BY DEF InstallInv, Safe, NothingLost
<1>2. QED
  BY <1>1, InstallInvariance, PTL

\* An undisturbed Uninstall, change to remote or end of a trial puts back what
\* the user had, after any number of commands.
THEOREM RestoresExactly == Spec => []RestoredExactly
<1>1. InstallInv => RestoredExactly
  BY DEF InstallInv, Route, Files, MaskGone, ShadowGone, Untouched, RestoredExactly, TypeOK, Kept
<1>2. QED
  BY <1>1, InstallInvariance, PTL

\* From any state that faults and edits can lead to, a command that returns
\* nil leaves a system in which Status finds nothing it should have mended,
\* unless it started a dispatcher that was still exiting.
THEOREM CommandsConverge == Spec => []StatusConverges
<1>1. InstallInv => StatusConverges
  <2> SUFFICES ASSUME InstallInv PROVE StatusConverges
    OBVIOUS
  <2>1. last.op \in {"none", "install", "uninstall"} /\ last.mode \in Modes /\ last.start \in BOOLEAN
    BY DEF InstallInv, TypeOK, Commands
  <2>2. CASE last.op = "uninstall"
    <3>1. ~Masked /\ ~Shadowed /\ ~dropIn /\ units = {} /\ enabled = {}
      BY <2>2 DEF InstallInv, Files, UnitFiles, MaskGone, ShadowGone, Route
    <3>2. Problems = {}
      BY <3>1 DEF Problems
    <3>3. QED
      BY <2>2, <3>1, <3>2 DEF StatusConverges
  <2>3. CASE last.op = "install" /\ last.mode = "remote"
    <3>1. /\ ~Masked /\ ~Shadowed /\ ~dropIn /\ units = {"proxy"} /\ enabled \subseteq units
          /\ last.start /\ ~overtaken => "proxy" \in active
      BY <2>3 DEF InstallInv, Files, UnitFiles, MaskGone, ShadowGone, Installed, Running, Needed
    <3>2. Problems \subseteq {"no owner"} \cup (IF last.start /\ ~overtaken THEN {} ELSE {"inactive"})
      BY <3>1 DEF Problems
    <3>3. QED
      BY <2>3, <3>1, <3>2 DEF StatusConverges, Needed
  <2>4. CASE last.op = "install" /\ last.mode # "remote"
    <3>1. /\ Masked /\ units = Units /\ enabled \subseteq units
          /\ last.start /\ ~overtaken => Units \subseteq active
      BY <2>4 DEF InstallInv, Files, UnitFiles, MaskThere, Installed, Running, Needed
    <3>2. pc = "idle"
      BY <2>4 DEF InstallInv, Route, TypeOK, Idle
    <3>3. ~disturbed => (dropIn <=> Shadowed)
      BY <3>2 DEF InstallInv, Files
    <3>4. "bus.socket" \in Units
      BY UnitNames
    <3>5. /\ "inactive" \in Problems => ~last.start \/ overtaken
          /\ "inconsistent" \in Problems => disturbed
          /\ Problems \subseteq {"not in front", "inconsistent", "inactive"}
      <4>1. /\ Problems \subseteq {"not in front", "not masked", "inconsistent", "inactive"}
            /\ "not masked" \notin Problems
            /\ "inconsistent" \in Problems => dropIn # Shadowed
            /\ "inactive" \in Problems =>
                  ~({"bus.socket", "backend.service", "proxy"} \cap units \subseteq active)
        BY <3>1, <3>4 DEF Problems
      <4>2. dropIn \in BOOLEAN /\ Shadowed \in BOOLEAN
        BY DEF InstallInv, TypeOK, Shadowed
      <4>3. ~disturbed => dropIn = Shadowed
        BY <3>3, <4>2
      <4>4. QED
        BY <3>1, <4>1, <4>3
    <3>6. QED
      BY <2>4, <3>1, <3>5 DEF StatusConverges, Needed
  <2>5. CASE last.op = "none"
    BY <2>5 DEF StatusConverges
  <2>6. QED
    BY <2>1, <2>2, <2>3, <2>4, <2>5
<1>2. QED
  BY <1>1, InstallInvariance, PTL

\* After an undisturbed takeover that demoted gnome-keyring no login,
\* activation or later command gives it the name back once it has exited.
THEOREM NeverRegrabbed == Spec => []NoRegrab
<1>1. InstallInv => NoRegrab
  BY DEF InstallInv, Demoted, Leaving, NoRegrab
<1>2. QED
  BY <1>1, InstallInvariance, PTL

\* When Install is through, the dry run had listed what it did, in the same
\* order and from any state of the files, the units and the name; only the
\* signal may be in one of the lists and not in the other.
THEOREM DryRunIsTrue == Spec => []PlanExact
<1>1. Listing => PlanExact
  <2> SUFFICES ASSUME Listing, pc = "end", cmd.op = "install"
               PROVE  SameButSignal(done, planned)
    BY DEF PlanExact
  <2>1. PICK pre \in Lists, post \in Lists, x \in BOOLEAN, y \in BOOLEAN :
          /\ done = pre ++ (When(y, Signal) ++ post)
          /\ planned = pre ++ (When(x, Signal) ++ (post ++ <<>>))
    BY DEF Listing, Remaining
  <2> DEFINE a == When(y, Signal)
             b == When(x, Signal)
  <2>2. a \in Lists /\ post ++ <<>> = post
    BY PartsTyped, ListTypes, ListLaws
  <2>3. a \in {<<>>, Change("signal", "owner")} /\ b \in {<<>>, Change("signal", "owner")}
    BY DEF When, Signal
  <2>4. done = pre \o (a \o post) /\ planned = pre \o (b \o post)
    BY <2>1, <2>2 DEF ++
  <2> HIDE DEF a, b
  <2>5. pre \in Seq([op : Ops, target : Targets]) /\ a \in Seq([op : Ops, target : Targets])
        /\ post \in Seq([op : Ops, target : Targets])
    BY <2>2 DEF Lists
  <2>6. SubSeq(done, 1, Len(pre)) = pre
    BY <2>4, <2>5
  <2>7. SubSeq(done, Len(pre) + Len(a) + 1, Len(done)) = post
    BY <2>4, <2>5
  <2>8. Len(pre) \in 0..Len(done)
    BY <2>4, <2>5
  <2>9. QED
    BY <2>3, <2>4, <2>6, <2>7, <2>8 DEF SameButSignal
<1>2. QED
  BY <1>1, ListingInvariance, PTL
=============================================================================
