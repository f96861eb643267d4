------------------------------- MODULE Cutover -------------------------------
(***************************************************************************)
(* The one-time move from the legacy router, which listens on the public   *)
(* ports itself, to Caddy in front of the blue slot (cutover.go), and the  *)
(* service commands that start, stop, install and uninstall the router     *)
(* before and after it (internal/cli/service_cmd.go).                      *)
(*                                                                         *)
(* Three launchd agents matter: "legacy", "blue" and "caddy".  launchd     *)
(* restarts what it has loaded and loads every installed agent at a login. *)
(* The two public ports are taken and freed together.  One operator gives  *)
(* cutover, stop, install and uninstall one at a time; start takes no lock *)
(* and claude-local runs it by itself, so it runs beside any of them.  A   *)
(* fault of the kind "kill" ends a command between two calls, with no      *)
(* rollback.  MaxFaults, MaxCutovers and MaxCommands bound a behaviour.    *)
(* The green slot comes with the first deploy, after this.                 *)
(***************************************************************************)
EXTENDS Integers, FiniteSets

CONSTANTS MaxFaults, MaxCutovers, MaxCommands

ASSUME BoundsAssumption == {MaxFaults, MaxCutovers, MaxCommands} \subseteq Nat

VARIABLES
    plists,     \* the agents installed in LaunchAgents
    loaded,     \* what launchd has of each agent: "no", "yes", "unloading"
    front,      \* who holds the public ports: "none", "legacy", "hand", "caddy"
    hand,       \* a router runs that was started without launchd
    blue,       \* the lifecycle mode of blue's process, "down" when none runs
    marker,     \* the active-slot file names blue
    recorded,   \* deploy.json exists
    pc,         \* the next call of the command, "idle" between commands
    local,      \* cutover's locals legacyStopped and caddyStarted
    seen,       \* blue is still the process cutover saw in standby
    told,       \* the Stop under way has sent its bootout
    starting,   \* what a `router start` under way has found down and not started yet
    wanted,     \* the router is to run: a start ended well, or launchd had it, and no
                \* stop or failed install came after; nor is it a hand-started one that died
    left,       \* what a killed command, a failed rollback or record left undone;
                \* "unmarked": a rerun took the marker of an unrecorded switch;
                \* "beside": the legacy router was started beside a switch
    faults, cutovers, commands

launchd == <<plists, loaded>>
processes == <<front, hand, blue, seen>>
files == <<marker, recorded>>
command == <<pc, local>>
tasks == <<cutovers, commands, starting>>
counters == <<faults, tasks>>
vars == <<launchd, processes, files, command, wanted, told, left, counters>>

Agents == {"legacy", "blue", "caddy"}

Init ==
    /\ \/ plists = {"legacy"} /\ hand = FALSE
       \/ plists = {} /\ hand = TRUE
    /\ loaded = [a \in Agents |-> IF a \in plists THEN "yes" ELSE "no"]
    /\ front = "none" /\ blue = "down" /\ seen = FALSE
    /\ marker = FALSE /\ recorded = FALSE
    /\ pc = "idle" /\ local = {} /\ wanted = TRUE /\ told = FALSE /\ left = {}
    /\ starting = {} /\ faults = 0 /\ cutovers = 0 /\ commands = 0

Strike == faults < MaxFaults /\ faults' = faults + 1
Goes(to) == pc' = to /\ UNCHANGED local
Leaves(what) == left' = left \union {what}

-----------------------------------------------------------------------------
(* launchd and the processes.                                              *)

BlueListens == blue # "down" /\ loaded["blue"] = "yes"
LegacyAnswers == front \in {"legacy", "hand"}
BlueServes == front = "caddy" /\ BlueListens /\ blue = "active"

\* A router that finds the ports taken exits; launchd starts its own again.
Bind ==
    /\ front = "none"
    /\ \/ loaded["legacy"] = "yes" /\ front' = "legacy"
       \/ loaded["caddy"] = "yes" /\ front' = "caddy"
       \/ hand /\ front' = "hand"
    /\ hand' = (front' = "hand")
    /\ UNCHANGED <<launchd, blue, seen, files, command, wanted, told, left, counters>>

\* A slot is active after a restart only if the marker names it.
RunBlue ==
    /\ blue = "down" /\ loaded["blue"] = "yes"
    /\ blue' = IF marker THEN "active" ELSE "standby"
    /\ UNCHANGED <<launchd, front, hand, seen, files, command, wanted, told, left, counters>>

\* What is told to stop closes its listener at once; launchd has the agent
\* until the program has exited.
Bootout(a) ==
    /\ loaded' = [loaded EXCEPT ![a] = "unloading"]
    /\ front' = IF front = a THEN "none" ELSE front

Unload ==
    /\ \E a \in Agents :
        /\ loaded[a] = "unloading" /\ loaded' = [loaded EXCEPT ![a] = "no"]
        /\ blue' = IF a = "blue" THEN "down" ELSE blue
        /\ seen' = (seen /\ a # "blue")
    /\ UNCHANGED <<plists, front, hand, files, command, wanted, told, left, counters>>

Crash ==
    /\ Strike
    /\ \/ /\ front # "none" /\ front' = "none"
          /\ IF front = "hand" THEN hand' = FALSE /\ wanted' = FALSE ELSE UNCHANGED <<hand, wanted>>
          /\ UNCHANGED <<blue, seen>>
       \/ /\ blue # "down" /\ blue' = "down" /\ seen' = FALSE
          /\ UNCHANGED <<front, hand, wanted>>
    /\ UNCHANGED <<launchd, files, command, told, left, tasks>>

\* From the stop of the legacy router until the return has stopped blue, and while
\* the switch is not recorded, a legacy router that is started writes beside blue;
\* the rerun that records the switch does not unload it.
Switched ==
    {"stopLegacy", "portsFree", "save", "activate", "check", "installCaddy", "startCaddy", "ready", "record",
     "rename", "deployFile", "compact", "stopCaddy", "removeCaddy", "unmark", "stopBlue"}
Beside == IF pc \in Switched \/ recorded \/ "record" \in left THEN {"beside"} ELSE {}

\* All that ran ends, a command too; launchd loads the installed agents.
Login ==
    /\ Strike
    /\ loaded' = [a \in Agents |-> IF a \in plists THEN "yes" ELSE "no"]
    /\ front' = "none" /\ hand' = FALSE /\ blue' = "down" /\ seen' = FALSE
    /\ pc' = "idle" /\ local' = {} /\ told' = FALSE /\ starting' = {}
    /\ left' = left \union (IF pc # "idle" THEN {"killed"} ELSE {}) \union (IF "legacy" \in plists THEN Beside ELSE {})
    /\ wanted' = (plists \intersect {"legacy", "caddy"} # {})
    /\ UNCHANGED <<plists, files, cutovers, commands>>

-----------------------------------------------------------------------------
(* Calls.                                                                  *)

\* Launchd.Stop: one bootout, then the wait.  It fails when launchctl does, when
\* the program does not exit in time, and when a start has loaded the agent again.
Stopping(a, next, failed) ==
    \/ ~told /\ loaded[a] # "no" /\ Bootout(a) /\ told' = TRUE /\ UNCHANGED <<pc, left, faults>>
    \/ loaded[a] = "no" /\ pc' = next /\ told' = FALSE /\ UNCHANGED <<loaded, front, left, faults>>
    \/ /\ \/ Strike
          \/ told /\ loaded[a] = "yes" /\ UNCHANGED faults
       /\ failed /\ told' = FALSE /\ UNCHANGED <<loaded, front>>

Loadable(a) == a \in plists' /\ loaded[a] = "no"
Load(a) == loaded' = [loaded EXCEPT ![a] = "yes"]

\* Launchd.Start: bootstrap of an agent that is installed and not loaded; it
\* may fail without effect or after it.
Starts(a, done, failed) ==
    \/ Loadable(a) /\ Load(a) /\ done /\ UNCHANGED faults
    \/ Loadable(a) /\ Strike /\ Load(a) /\ failed
    \/ Loadable(a) /\ Strike /\ failed /\ UNCHANGED loaded
    \/ ~Loadable(a) /\ failed /\ UNCHANGED <<loaded, faults>>

Starting(a, next, failed) == Starts(a, pc' = next /\ UNCHANGED left, failed)

-----------------------------------------------------------------------------
(* cutover.                                                                *)

Fails == pc' = "idle" /\ UNCHANGED left

\* A failure undoes what was done, by what cutover knows of it.
Undo ==
    /\ pc' = IF "legacyStopped" \notin local THEN "drop"
             ELSE IF "caddyStarted" \in local THEN "stopCaddy" ELSE "unmark"
    /\ UNCHANGED left

\* Who serves the public address, and does the legacy router answer?
Cutover ==
    /\ pc = "idle" /\ ~recorded /\ cutovers < MaxCutovers /\ cutovers' = cutovers + 1
    /\ \/ pc' = "mark" /\ LegacyAnswers
       \/ pc' = "record" /\ front = "caddy" /\ BlueListens
    /\ local' = {}
    /\ UNCHANGED <<launchd, processes, files, wanted, told, left, faults, commands, starting>>

Mark ==
    /\ pc = "mark"
    /\ \/ /\ marker' = FALSE /\ Goes("retire") /\ UNCHANGED faults
          /\ IF "record" \in left THEN Leaves("unmarked") ELSE UNCHANGED left
       \/ Strike /\ Goes("idle") /\ UNCHANGED <<marker, left>>
    /\ UNCHANGED <<launchd, processes, recorded, wanted, told, tasks>>

\* retire: a slot that answers is drained first, one that does not is
\* unloaded whatever comes of it.
Retire ==
    /\ pc = "retire"
    /\ \/ /\ BlueListens /\ blue' = IF blue = "active" THEN "draining" ELSE blue
          /\ Goes("retiring") /\ UNCHANGED faults
       \/ ~BlueListens /\ Goes("retireBlind") /\ UNCHANGED <<blue, faults>>
       \/ BlueListens /\ Strike /\ Goes("retireBlind") /\ UNCHANGED blue
       \/ BlueListens /\ Strike /\ Goes("idle") /\ UNCHANGED blue
    /\ UNCHANGED <<launchd, front, hand, seen, files, wanted, told, left, tasks>>

Retiring ==
    /\ \/ pc = "retiring" /\ Stopping("blue", "start", Fails)
       \/ pc = "retireBlind" /\ Stopping("blue", "start", pc' = "start" /\ UNCHANGED left)
    /\ UNCHANGED <<plists, hand, blue, seen, files, local, wanted, tasks>>

StartBlue ==
    /\ pc = "start"
    /\ \/ plists' = plists \union {"blue"} /\ Starting("blue", "wait", Undo)
       \/ Strike /\ Undo /\ UNCHANGED <<plists, loaded>>
    /\ UNCHANGED <<processes, files, local, wanted, told, tasks>>

WaitBlue ==
    /\ pc = "wait"
    /\ \/ BlueListens /\ blue = "standby" /\ seen' = TRUE /\ pc' = "prepare" /\ UNCHANGED <<left, faults>>
       \/ Strike /\ Undo /\ UNCHANGED seen
    /\ UNCHANGED <<launchd, front, hand, blue, files, local, wanted, told, tasks>>

\* The Caddyfile, and after the operator's answer the requests of the legacy router.
Prepare ==
    /\ \/ pc = "prepare" /\ pc' = "ask" /\ UNCHANGED <<left, faults>>
       \/ pc = "prepare" /\ Strike /\ Undo
       \/ pc = "waitIdle" /\ LegacyAnswers /\ pc' = "stopLegacy" /\ UNCHANGED <<left, faults>>
       \/ pc = "waitIdle" /\ Undo /\ UNCHANGED faults
    /\ UNCHANGED <<launchd, processes, files, local, wanted, told, tasks>>

\* The legacy router serves and blue is in standby: of what an earlier command
\* left undone only Caddy's agent can still matter.
Ask ==
    /\ pc = "ask" /\ pc' \in {"waitIdle", "drop"}
    /\ left' = IF "caddy" \in plists \/ loaded["caddy"] # "no" THEN left ELSE {}
    /\ UNCHANGED <<launchd, processes, files, local, wanted, told, counters>>

\* Mutant of StopLegacy: what was stopped is noted when it is stopped.
StopLegacyNoted ==
    /\ pc = "stopLegacy"
    /\ Stopping("legacy", "portsFree", pc' = "drop" /\ UNCHANGED left)
    /\ local' = IF pc' = "portsFree" THEN local \union {"legacyStopped"} ELSE local
    /\ UNCHANGED <<plists, hand, blue, seen, files, wanted, tasks>>

StopLegacy ==
    /\ pc = "stopLegacy"
    /\ Stopping("legacy", "portsFree", pc' = "unmark" /\ UNCHANGED left)
    /\ local' = IF pc' = pc THEN local ELSE local \union {"legacyStopped"}
    /\ UNCHANGED <<plists, hand, blue, seen, files, wanted, tasks>>

PortsFree ==
    /\ pc = "portsFree"
    /\ IF front = "none" THEN pc' = "save" /\ UNCHANGED left ELSE Undo
    /\ UNCHANGED <<launchd, processes, files, local, wanted, told, counters>>

Save ==
    /\ pc = "save"
    /\ \/ marker' = TRUE /\ pc' = "activate" /\ UNCHANGED <<left, faults>>
       \/ Strike /\ Undo /\ UNCHANGED marker
    /\ UNCHANGED <<launchd, processes, recorded, local, wanted, told, tasks>>

Activate ==
    /\ pc = "activate"
    /\ \/ BlueListens /\ blue' = "active" /\ pc' = "check" /\ UNCHANGED <<left, faults>>
       \/ BlueListens /\ Strike /\ blue' \in {"active", blue} /\ Undo
       \/ ~BlueListens /\ Undo /\ UNCHANGED <<blue, faults>>
    /\ UNCHANGED <<launchd, front, hand, seen, files, local, wanted, told, tasks>>

CheckBlue ==
    /\ pc = "check"
    /\ \/ BlueListens /\ blue = "active" /\ seen /\ Goes("installCaddy") /\ UNCHANGED <<left, faults>>
       \/ ~(BlueListens /\ blue = "active" /\ seen) /\ Undo /\ UNCHANGED <<local, faults>>
       \/ Strike /\ Undo /\ UNCHANGED local
    /\ UNCHANGED <<launchd, processes, files, wanted, told, tasks>>

InstallCaddy ==
    /\ pc = "installCaddy" /\ local' = local \union {"caddyStarted"}
    /\ \/ plists' = plists \union {"caddy"} /\ pc' = "startCaddy" /\ UNCHANGED <<left, faults>>
       \/ Strike /\ pc' = "stopCaddy" /\ UNCHANGED <<left, plists>>
    /\ UNCHANGED <<loaded, processes, files, wanted, told, tasks>>

StartCaddy ==
    /\ pc = "startCaddy" /\ UNCHANGED plists
    /\ Starting("caddy", "ready", Undo)
    /\ UNCHANGED <<processes, files, local, wanted, told, tasks>>

\* From here on nothing is undone.
Ready ==
    /\ pc = "ready"
    /\ \/ BlueServes /\ seen /\ pc' = "record" /\ Leaves("record") /\ UNCHANGED faults
       \/ ~seen /\ Undo /\ UNCHANGED faults
       \/ Strike /\ Undo
    /\ UNCHANGED <<launchd, processes, files, local, wanted, told, tasks>>

-----------------------------------------------------------------------------
(* recordCutover.                                                          *)

Record ==
    /\ pc = "record"
    /\ \/ BlueServes /\ Goes("rename") /\ UNCHANGED faults
       \/ ~BlueServes /\ Goes("idle") /\ UNCHANGED faults
       \/ Strike /\ Goes("idle")
    /\ UNCHANGED <<launchd, processes, files, wanted, told, left, tasks>>

\* Mutant of Rename: the legacy agent stays where launchd finds it.
RenameCopied ==
    /\ pc = "rename" /\ Goes("deployFile")
    /\ UNCHANGED <<launchd, processes, files, wanted, told, left, counters>>

Rename ==
    /\ pc = "rename"
    /\ \/ plists' = plists \ {"legacy"} /\ Goes("deployFile") /\ UNCHANGED faults
       \/ Strike /\ Goes("idle") /\ UNCHANGED plists
    /\ UNCHANGED <<loaded, processes, files, wanted, told, left, tasks>>

WriteDeployFile ==
    /\ pc = "deployFile"
    /\ \/ recorded' = TRUE /\ left' = left \ {"record"} /\ Goes("compact") /\ UNCHANGED faults
       \/ Strike /\ Goes("idle") /\ UNCHANGED <<recorded, left>>
    /\ UNCHANGED <<launchd, processes, marker, wanted, told, tasks>>

Compact ==
    /\ pc = "compact" /\ pc' = "idle" /\ local' = {}
    /\ UNCHANGED <<launchd, processes, files, wanted, told, left, counters>>

-----------------------------------------------------------------------------
(* The rollback: blue alone, or returnToLegacy, which goes on whatever     *)
(* fails in it.                                                            *)

Drop ==
    /\ pc = "drop" /\ Stopping("blue", "idle", Fails)
    /\ UNCHANGED <<plists, hand, blue, seen, files, local, wanted, tasks>>

StopCaddy ==
    /\ pc = "stopCaddy" /\ Stopping("caddy", "removeCaddy", pc' = "unmark" /\ Leaves("caddy"))
    /\ UNCHANGED <<plists, hand, blue, seen, files, local, wanted, tasks>>

RemoveCaddy ==
    /\ pc = "removeCaddy" /\ Goes("unmark")
    /\ \/ plists' = plists \ {"caddy"} /\ UNCHANGED <<left, faults>>
       \/ Strike /\ Leaves("caddy") /\ UNCHANGED plists
    /\ UNCHANGED <<loaded, processes, files, wanted, told, tasks>>

Unmark ==
    /\ pc = "unmark" /\ Goes("stopBlue")
    /\ \/ marker' = FALSE /\ UNCHANGED <<left, faults>>
       \/ Strike /\ Leaves("marker") /\ UNCHANGED marker
    /\ UNCHANGED <<launchd, processes, recorded, wanted, told, tasks>>

\* Mutant of StopBlue: it does not wait for blue to be gone.
StopBlueAtOnce ==
    /\ pc = "stopBlue" /\ Goes("startLegacy")
    /\ IF loaded["blue"] = "yes" THEN Bootout("blue") ELSE UNCHANGED <<loaded, front>>
    /\ UNCHANGED <<plists, hand, blue, seen, files, wanted, told, left, counters>>

StopBlue ==
    /\ pc = "stopBlue" /\ Stopping("blue", "startLegacy", pc' = "startLegacy" /\ Leaves("blue"))
    /\ UNCHANGED <<plists, hand, blue, seen, files, local, wanted, tasks>>

\* Then it waits for the legacy router to answer, which changes nothing.
StartLegacy ==
    /\ pc = "startLegacy" /\ UNCHANGED plists
    /\ Starting("legacy", "idle", pc' = "idle" /\ IF "legacy" \in plists THEN Leaves("legacy") ELSE UNCHANGED left)
    /\ local' = {}
    /\ UNCHANGED <<processes, files, wanted, told, tasks>>

-----------------------------------------------------------------------------
(* The service commands.  With deploy.json they act on Caddy and blue.     *)

Command == pc = "idle" /\ commands < MaxCommands /\ commands' = commands + 1

\* All that is to serve is loaded.
Up == \A a \in (IF recorded THEN {"blue", "caddy"} ELSE {"legacy"}) : loaded'[a] = "yes"

\* start looks first: what launchd still unloads counts as loaded.  A failed look
\* changes nothing.
RouterStart ==
    /\ starting = {} /\ commands < MaxCommands /\ commands' = commands + 1
    /\ \/ /\ recorded /\ marker /\ {"blue", "caddy"} \subseteq plists
          /\ starting' = {a \in {"blue", "caddy"} : loaded[a] = "no"}
       \/ /\ ~recorded /\ "legacy" \in plists
          /\ starting' = {a \in {"legacy"} : loaded[a] = "no"}
       \/ /\ ~recorded /\ "legacy" \notin plists /\ ~LegacyAnswers /\ ~(front = "caddy" /\ BlueListens)
          /\ starting' = {"hand"}
    /\ UNCHANGED <<launchd, processes, files, command, told, left, faults, cutovers>>
    /\ wanted' = (wanted \/ (starting' = {} /\ Up))

\* Then it starts what it found down, blue before Caddy, and ends at a failure.
\* A router started by hand exits at once when another holds the ports.
StartCall ==
    /\ UNCHANGED plists
    /\ \/ /\ "hand" \in starting /\ starting' = {}
          /\ \/ hand' = (front \in {"none", "hand"}) /\ left' = left \union Beside /\ UNCHANGED faults
             \/ Strike /\ UNCHANGED <<hand, left>>
          /\ wanted' = (wanted \/ hand') /\ UNCHANGED loaded
       \/ \E a \in starting \ {"hand"} :
            /\ a = "caddy" => "blue" \notin starting
            /\ Starts(a, starting' = starting \ {a}, starting' = {})
            /\ left' = left \union (IF a = "legacy" /\ loaded' # loaded THEN Beside ELSE {})
            /\ wanted' = (wanted \/ Up) /\ UNCHANGED hand
    /\ UNCHANGED <<front, blue, seen, files, command, told, cutovers, commands>>

\* stopByHand ends every process of the legacy binary; launchd restarts its own.
StopByHand == hand' = FALSE /\ front' = IF LegacyAnswers THEN "none" ELSE front

RouterStop ==
    /\ Command /\ wanted' = FALSE
    /\ \/ recorded /\ Goes("haltCaddy") /\ UNCHANGED <<front, hand>>
       \/ ~recorded /\ "legacy" \in plists /\ loaded["legacy"] # "no" /\ Goes("halt") /\ UNCHANGED <<front, hand>>
       \/ ~recorded /\ ~("legacy" \in plists /\ loaded["legacy"] # "no") /\ StopByHand /\ UNCHANGED <<pc, local>>
    /\ UNCHANGED <<launchd, blue, seen, files, told, left, faults, cutovers, starting>>

RouterInstall ==
    /\ Command /\ ~recorded /\ StopByHand /\ Goes("install") /\ wanted' = (wanted /\ ~hand)
    /\ UNCHANGED <<launchd, blue, seen, files, told, left, faults, cutovers, starting>>

RouterUninstall ==
    /\ Command /\ ~recorded /\ wanted' = FALSE /\ Goes("uninstall")
    /\ UNCHANGED <<launchd, processes, files, told, left, faults, cutovers, starting>>

Install ==
    /\ pc = "install"
    /\ \/ plists' = plists \union {"legacy"} /\ Goes("reload") /\ UNCHANGED faults
       \/ Strike /\ Goes("idle") /\ UNCHANGED plists
    /\ UNCHANGED <<loaded, processes, files, wanted, told, left, tasks>>

\* A command that fails midway leaves the router down until it is repeated.
Halting ==
    /\ \/ pc = "halt" /\ Stopping("legacy", "idle", Fails)
       \/ pc = "haltCaddy" /\ Stopping("caddy", "haltBlue", Fails)
       \/ pc = "haltBlue" /\ Stopping("blue", "idle", Fails)
       \/ pc = "uninstall" /\ Stopping("legacy", "remove", Fails)
       \/ pc = "reload" /\ Stopping("legacy", "load", Fails)
    /\ wanted' = FALSE
    /\ UNCHANGED <<plists, hand, blue, seen, files, local, tasks>>

Remove ==
    /\ pc = "remove" /\ Goes("idle")
    /\ \/ plists' = plists \ {"legacy"} /\ UNCHANGED faults
       \/ Strike /\ UNCHANGED plists
    /\ wanted' = FALSE
    /\ UNCHANGED <<loaded, processes, files, told, left, tasks>>

Reload ==
    /\ pc = "load" /\ Goes("idle") /\ UNCHANGED plists
    /\ Starts("legacy", TRUE, TRUE)
    /\ left' = left \union Beside /\ wanted' = (loaded'["legacy"] = "yes")
    /\ UNCHANGED <<processes, files, told, tasks>>

Kill ==
    /\ pc # "idle" /\ Strike /\ pc' = "idle" /\ local' = {} /\ told' = FALSE /\ Leaves("killed")
    /\ UNCHANGED <<launchd, processes, files, wanted, tasks>>

-----------------------------------------------------------------------------
Switch == Mark \/ Retire \/ Retiring \/ StartBlue \/ WaitBlue \/ Prepare \/ StopLegacy \/ PortsFree
          \/ Save \/ Activate \/ CheckBlue \/ InstallCaddy \/ StartCaddy \/ Ready
Recording == Record \/ Rename \/ WriteDeployFile \/ Compact
Rollback == Drop \/ StopCaddy \/ RemoveCaddy \/ Unmark \/ StopBlue \/ StartLegacy
Service == RouterStart \/ RouterStop \/ RouterInstall \/ RouterUninstall
Serving == Install \/ Halting \/ Remove \/ Reload
Faulty == Crash \/ Login \/ Kill

Next == Cutover \/ Ask \/ Switch \/ Recording \/ Rollback \/ Service \/ StartCall \/ Serving
        \/ Bind \/ RunBlue \/ Unload \/ Faulty

\* The command goes on, launchd restarts what it has loaded and unloads what
\* it was told to.  Nothing is expected of the operator.
Spec ==
    /\ Init /\ [][Next]_vars
    /\ WF_vars(Switch \/ Recording \/ Rollback \/ Serving) /\ WF_vars(StartCall)
    /\ WF_vars(Bind) /\ WF_vars(RunBlue) /\ WF_vars(Unload)

-----------------------------------------------------------------------------
(* Properties.                                                             *)

(* returnToLegacy: the legacy router and an active blue never write at     *)
(* once, unless the command was killed, or blue or its marker could not be *)
(* taken back, or the switch was not recorded at once, or `router start`   *)
(* started the legacy router beside a switch.                              *)
OneWriter ==
    left = {} => ~(blue = "active" /\ (LegacyAnswers \/ loaded["legacy"] = "unloading"))

(* startCaddy, stopCaddy, commit: between commands the next login brings   *)
(* back the same router: Caddy with blue active, or the legacy router with *)
(* blue in standby.                                                        *)
LoginKeepsIt ==
    pc = "idle" /\ left = {} =>
        \/ "caddy" \in plists /\ "legacy" \notin plists /\ marker
        \/ "caddy" \notin plists /\ ~marker

(* cutover: whatever call fails, a router serves the public address again, *)
(* unless the return itself failed, the command was killed, a start ran    *)
(* beside the switch, or the operator stopped the router, or began to and  *)
(* failed, after the last start that ended well.                           *)
Served == LegacyAnswers \/ BlueServes
ServedAgain == <>[](Served \/ ~wanted \/ left # {} \/ pc = "ask")
=============================================================================
