---------------------------- MODULE CutoverProofs ----------------------------
(***************************************************************************)
(* For any number of cutovers, service commands and faults: the legacy     *)
(* router and an active blue never write at once, and between commands the *)
(* next login brings back the router that serves, unless what left names   *)
(* was left undone.                                                        *)
(***************************************************************************)
EXTENDS Cutover, TLAPS

Commands == {"halt", "haltCaddy", "haltBlue", "uninstall", "remove", "install", "reload", "load"}
Recordings == {"record", "rename", "deployFile", "compact"}
Before == {"mark", "retire", "retiring", "retireBlind", "start", "wait", "prepare", "ask", "waitIdle", "stopLegacy"}
Between == {"save", "activate", "check", "installCaddy", "startCaddy", "ready"}
Rollbacks == {"drop", "stopCaddy", "removeCaddy", "unmark", "stopBlue", "startLegacy"}

TypeOK ==
    /\ plists \subseteq Agents /\ loaded \in [Agents -> {"no", "yes", "unloading"}]
    /\ front \in {"none", "legacy", "hand", "caddy"} /\ blue \in {"down", "standby", "active", "draining"}
    /\ hand \in BOOLEAN /\ marker \in BOOLEAN /\ recorded \in BOOLEAN /\ seen \in BOOLEAN
    /\ pc \in {"idle", "portsFree"} \cup Commands \cup Recordings \cup Before \cup Between \cup Rollbacks
    /\ local \subseteq {"legacyStopped", "caddyStarted"} /\ starting \subseteq Agents \cup {"hand"}
    /\ left \subseteq {"record", "unmarked", "killed", "marker", "beside"} \cup Agents

\* Who holds the ports runs, and runs as launchd says.
PortsOK ==
    /\ front \in {"legacy", "caddy"} => loaded[front] = "yes"
    /\ front = "hand" => hand
    /\ hand => front \in {"none", "hand"}
    /\ hand /\ front = "none" => pc \notin Switched \/ "beside" \in left
    /\ loaded["blue"] = "no" => blue = "down"

\* The legacy router does not run, and launchd will not run it.
Stopped == loaded["legacy"] = "no" /\ ~hand /\ ~LegacyAnswers

Unmarked == (Before \ {"mark"}) \cup {"portsFree", "save"}
\* What the command has done by each call, whatever was left undone before.
PhaseOK ==
    /\ recorded => pc \in {"idle", "compact", "haltCaddy", "haltBlue"}
    /\ pc \in {"haltCaddy", "haltBlue", "compact"} => recorded
    /\ "blue" \in starting \/ "caddy" \in starting => recorded
    /\ pc \in Before => local = {}
    /\ pc \in {"portsFree", "save", "activate", "check", "installCaddy"} => local = {"legacyStopped"}
    /\ pc \in {"startCaddy", "ready"} => local = {"legacyStopped", "caddyStarted"} /\ "caddy" \in plists
    /\ pc = "portsFree" => loaded["legacy"] = "no" \/ "beside" \in left
    /\ pc \in Between => Stopped \/ "beside" \in left
    /\ pc \in Unmarked => ~marker
    /\ pc \in Between \ {"save"} => marker
    /\ pc \in {"prepare", "ask", "waitIdle", "stopLegacy", "portsFree", "save"} => blue # "active"

\* A switch that is not recorded yet, and nothing else left undone.
PendingOK ==
    left = {"record"} =>
        /\ marker /\ "caddy" \in plists /\ loaded["legacy"] = "no"
        /\ ~recorded
        /\ pc \in {"idle", "mark", "record", "rename", "deployFile", "uninstall", "remove", "install", "reload", "load"}
        /\ pc \in {"record", "rename", "deployFile"} => Stopped
        /\ pc = "deployFile" => "legacy" \notin plists

NoCaddy == "caddy" \notin plists /\ loaded["caddy"] = "no"

\* Nothing is left undone: by who is to serve.
CleanOK ==
    left = {} =>
        /\ marker \/ blue = "active" => Stopped
        /\ recorded => marker /\ "caddy" \in plists /\ "legacy" \notin plists
        /\ pc \notin {"record", "rename", "deployFile"}
        /\ pc \in {"idle", "drop", "startLegacy"} \cup Before \cup (Commands \ {"haltCaddy", "haltBlue"})
              /\ ~recorded => NoCaddy /\ ~marker /\ blue # "active"
        /\ pc \in {"portsFree", "save", "activate", "check", "installCaddy", "unmark", "stopBlue"} => NoCaddy
        /\ pc = "stopBlue" => ~marker
        /\ pc = "removeCaddy" => loaded["caddy"] = "no"
        /\ pc \in {"stopCaddy", "removeCaddy"} => marker

IInv == TypeOK /\ PortsOK /\ PhaseOK /\ PendingOK /\ CleanOK
-----------------------------------------------------------------------------
\* What is added to a set that ends as {"record"}, and is not "record", is nothing.
LEMMA OnlyRecord == ASSUME NEW S, NEW T, S \union T = {"record"}, "record" \notin T 
      PROVE  S = {"record"} /\ T = {}
    OBVIOUS

\* A legacy router started while a switch waits for its record is not hidden.
LEMMA BesideShows == left' = left \union Beside => left' # {"record"}
<1> SUFFICES ASSUME left' = left \union Beside, left' = {"record"} PROVE FALSE
    OBVIOUS
<1>1. "record" \in left \union Beside
    OBVIOUS
<1>2. "record" \in left
    BY <1>1 DEF Beside
<1>3. "beside" \in left \union Beside
    BY <1>2 DEF Beside
<1> QED
    BY <1>3

\* What a call of `router start` may do: nothing, run the router by hand, or load
\* one agent; and what it notes of it.
LEMMA StartCallDoes ==
    ASSUME IInv, StartCall
    PROVE  /\ UNCHANGED <<plists, front, blue, seen, marker, recorded, pc, local>>
           /\ starting' \subseteq starting
           /\ \/ UNCHANGED <<loaded, hand>> /\ left' \in {left, left \union Beside}
              \/ UNCHANGED loaded /\ hand' = (front \in {"none", "hand"}) /\ left' = left \union Beside
              \/ \E a \in starting \cap plists :
                    /\ loaded[a] = "no" /\ loaded' = [loaded EXCEPT ![a] = "yes"]
                    /\ UNCHANGED hand /\ left' = left \union (IF a = "legacy" THEN Beside ELSE {})
<1> USE DEF IInv, TypeOK
<1>1. UNCHANGED <<plists, front, blue, seen, marker, recorded, pc, local>>
    BY DEF StartCall, files, command
<1>2. CASE /\ "hand" \in starting /\ starting' = {}
           /\ \/ hand' = (front \in {"none", "hand"}) /\ left' = left \union Beside
              \/ UNCHANGED <<hand, left>>
           /\ UNCHANGED loaded
    BY <1>1, <1>2
<1>3. ASSUME NEW a \in starting \ {"hand"},
             /\ UNCHANGED plists
             /\ Starts(a, starting' = starting \ {a}, starting' = {})
             /\ left' = left \union (IF a = "legacy" /\ loaded' # loaded THEN Beside ELSE {})
             /\ UNCHANGED hand
      PROVE  /\ starting' \subseteq starting
             /\ \/ UNCHANGED <<loaded, hand>> /\ left' \in {left, left \union Beside}
                \/ \E b \in starting \cap plists :
                      /\ loaded[b] = "no" /\ loaded' = [loaded EXCEPT ![b] = "yes"]
                      /\ UNCHANGED hand /\ left' = left \union (IF b = "legacy" THEN Beside ELSE {})
    <2>1. starting' \subseteq starting
        BY <1>3 DEF Starts
    <2>2. CASE Loadable(a) /\ Load(a)
        <3>1. a \in starting \cap plists /\ loaded[a] = "no" /\ loaded' = [loaded EXCEPT ![a] = "yes"]
            BY <1>3, <2>2 DEF Loadable, Load
        <3>2. loaded'[a] = "yes"
            BY <3>1 DEF Agents
        <3>3. loaded' # loaded
            BY <3>1, <3>2
        <3> QED
            BY <1>3, <2>1, <3>1, <3>3
    <2>3. CASE UNCHANGED loaded
        BY <1>3, <2>1, <2>3
    <2> QED
        BY <1>3, <2>2, <2>3 DEF Starts
<1> QED
    BY <1>1, <1>2, <1>3 DEF StartCall

\* No step leaves the types.
LEMMA TypeStep == ASSUME IInv, [Next]_vars PROVE TypeOK'
<1> USE DEF IInv, TypeOK, Agents, launchd, processes, files, command, counters, tasks, Switched, Goes, Strike, Commands, Recordings, Before, Between, Rollbacks
<1>1. CASE Cutover
    BY <1>1 DEF Cutover
<1>2. CASE Ask
    BY ZenonT(40), <1>2 DEF Ask
<1>3. CASE Mark
    BY ZenonT(40), <1>3 DEF Mark, Leaves
<1>4. CASE Retire
    <2>1. plists' \subseteq Agents
        BY <1>4 DEF Retire
    <2>2. loaded' \in [Agents -> {"no", "yes", "unloading"}]
        BY <1>4 DEF Retire
    <2>3. /\ front' \in {"none", "legacy", "hand", "caddy"} /\ blue' \in {"down", "standby", "active", "draining"}
          /\ hand' \in BOOLEAN /\ marker' \in BOOLEAN /\ recorded' \in BOOLEAN /\ seen' \in BOOLEAN
        BY <1>4 DEF Retire
    <2>4. pc' \in {"idle", "portsFree"} \cup Commands \cup Recordings \cup Before \cup Between \cup Rollbacks
        BY <1>4 DEF Retire
    <2>5. local' \subseteq {"legacyStopped", "caddyStarted"} /\ starting' = starting
        BY <1>4 DEF Retire
    <2>6. left' \subseteq {"record", "unmarked", "killed", "marker", "beside"} \cup Agents
        BY <1>4 DEF Retire
    <2> QED
        BY <2>1, <2>2, <2>3, <2>4, <2>5, <2>6
<1>5. CASE Retiring
    <2>1. plists' \subseteq Agents
        BY <1>5 DEF Retiring, Stopping, Bootout, Fails
    <2>2. loaded' \in [Agents -> {"no", "yes", "unloading"}]
        BY <1>5 DEF Retiring, Stopping, Bootout, Fails
    <2>3. /\ front' \in {"none", "legacy", "hand", "caddy"} /\ blue' \in {"down", "standby", "active", "draining"}
          /\ hand' \in BOOLEAN /\ marker' \in BOOLEAN /\ recorded' \in BOOLEAN /\ seen' \in BOOLEAN
        BY <1>5 DEF Retiring, Stopping, Bootout, Fails
    <2>4. pc' \in {"idle", "portsFree"} \cup Commands \cup Recordings \cup Before \cup Between \cup Rollbacks
        BY <1>5 DEF Retiring, Stopping, Bootout, Fails
    <2>5. local' \subseteq {"legacyStopped", "caddyStarted"} /\ starting' = starting
        BY <1>5 DEF Retiring, Stopping, Bootout, Fails
    <2>6. left' \subseteq {"record", "unmarked", "killed", "marker", "beside"} \cup Agents
        BY <1>5 DEF Retiring, Stopping, Bootout, Fails
    <2> QED
        BY <2>1, <2>2, <2>3, <2>4, <2>5, <2>6
<1>6. CASE StartBlue
    <2>1. plists' \subseteq Agents
        BY <1>6 DEF StartBlue, Starting, Starts, Loadable, Load, Undo
    <2>2. loaded' \in [Agents -> {"no", "yes", "unloading"}]
        BY <1>6 DEF StartBlue, Starting, Starts, Loadable, Load, Undo
    <2>3. /\ front' \in {"none", "legacy", "hand", "caddy"} /\ blue' \in {"down", "standby", "active", "draining"}
          /\ hand' \in BOOLEAN /\ marker' \in BOOLEAN /\ recorded' \in BOOLEAN /\ seen' \in BOOLEAN
        BY <1>6 DEF StartBlue, Starting, Starts, Loadable, Load, Undo
    <2>4. pc' \in {"idle", "portsFree"} \cup Commands \cup Recordings \cup Before \cup Between \cup Rollbacks
        BY <1>6 DEF StartBlue, Starting, Starts, Loadable, Load, Undo
    <2>5. local' \subseteq {"legacyStopped", "caddyStarted"} /\ starting' = starting
        BY <1>6 DEF StartBlue, Starting, Starts, Loadable, Load, Undo
    <2>6. left' \subseteq {"record", "unmarked", "killed", "marker", "beside"} \cup Agents
        BY <1>6 DEF StartBlue, Starting, Starts, Loadable, Load, Undo
    <2> QED
        BY <2>1, <2>2, <2>3, <2>4, <2>5, <2>6
<1>7. CASE WaitBlue
    BY <1>7 DEF WaitBlue, Undo
<1>8. CASE Prepare
    <2>1. plists' \subseteq Agents
        BY <1>8 DEF Prepare, Undo
    <2>2. loaded' \in [Agents -> {"no", "yes", "unloading"}]
        BY <1>8 DEF Prepare, Undo
    <2>3. /\ front' \in {"none", "legacy", "hand", "caddy"} /\ blue' \in {"down", "standby", "active", "draining"}
          /\ hand' \in BOOLEAN /\ marker' \in BOOLEAN /\ recorded' \in BOOLEAN /\ seen' \in BOOLEAN
        BY <1>8 DEF Prepare, Undo
    <2>4. pc' \in {"idle", "portsFree"} \cup Commands \cup Recordings \cup Before \cup Between \cup Rollbacks
        BY <1>8 DEF Prepare, Undo
    <2>5. local' \subseteq {"legacyStopped", "caddyStarted"} /\ starting' = starting
        BY <1>8 DEF Prepare, Undo
    <2>6. left' \subseteq {"record", "unmarked", "killed", "marker", "beside"} \cup Agents
        BY <1>8 DEF Prepare, Undo
    <2> QED
        BY <2>1, <2>2, <2>3, <2>4, <2>5, <2>6
<1>9. CASE StopLegacy
    <2>1. plists' \subseteq Agents
        BY <1>9 DEF StopLegacy, Stopping, Bootout
    <2>2. loaded' \in [Agents -> {"no", "yes", "unloading"}]
        BY <1>9 DEF StopLegacy, Stopping, Bootout
    <2>3. /\ front' \in {"none", "legacy", "hand", "caddy"} /\ blue' \in {"down", "standby", "active", "draining"}
          /\ hand' \in BOOLEAN /\ marker' \in BOOLEAN /\ recorded' \in BOOLEAN /\ seen' \in BOOLEAN
        BY <1>9 DEF StopLegacy, Stopping, Bootout
    <2>4. pc' \in {"idle", "portsFree"} \cup Commands \cup Recordings \cup Before \cup Between \cup Rollbacks
        BY <1>9 DEF StopLegacy, Stopping, Bootout
    <2>5. local' \subseteq {"legacyStopped", "caddyStarted"} /\ starting' = starting
        BY <1>9 DEF StopLegacy, Stopping, Bootout
    <2>6. left' \subseteq {"record", "unmarked", "killed", "marker", "beside"} \cup Agents
        BY <1>9 DEF StopLegacy, Stopping, Bootout
    <2> QED
        BY <2>1, <2>2, <2>3, <2>4, <2>5, <2>6
<1>10. CASE PortsFree
    BY <1>10 DEF PortsFree, Undo
<1>11. CASE Save
    BY ZenonT(40), <1>11 DEF Save, Undo
<1>12. CASE Activate
    BY ZenonT(40), <1>12 DEF Activate, Undo
<1>13. CASE CheckBlue
    BY ZenonT(40), <1>13 DEF CheckBlue, Undo
<1>14. CASE InstallCaddy
    BY ZenonT(40), <1>14 DEF InstallCaddy
<1>15. CASE StartCaddy
    <2>1. plists' \subseteq Agents
        BY <1>15 DEF StartCaddy, Starting, Starts, Loadable, Load, Undo
    <2>2. loaded' \in [Agents -> {"no", "yes", "unloading"}]
        BY <1>15 DEF StartCaddy, Starting, Starts, Loadable, Load, Undo
    <2>3. /\ front' \in {"none", "legacy", "hand", "caddy"} /\ blue' \in {"down", "standby", "active", "draining"}
          /\ hand' \in BOOLEAN /\ marker' \in BOOLEAN /\ recorded' \in BOOLEAN /\ seen' \in BOOLEAN
        BY <1>15 DEF StartCaddy, Starting, Starts, Loadable, Load, Undo
    <2>4. pc' \in {"idle", "portsFree"} \cup Commands \cup Recordings \cup Before \cup Between \cup Rollbacks
        BY <1>15 DEF StartCaddy, Starting, Starts, Loadable, Load, Undo
    <2>5. local' \subseteq {"legacyStopped", "caddyStarted"} /\ starting' = starting
        BY <1>15 DEF StartCaddy, Starting, Starts, Loadable, Load, Undo
    <2>6. left' \subseteq {"record", "unmarked", "killed", "marker", "beside"} \cup Agents
        BY <1>15 DEF StartCaddy, Starting, Starts, Loadable, Load, Undo
    <2> QED
        BY <2>1, <2>2, <2>3, <2>4, <2>5, <2>6
<1>16. CASE Ready
    BY ZenonT(40), <1>16 DEF Ready, Undo, Leaves
<1>17. CASE Record
    BY ZenonT(40), <1>17 DEF Record
<1>18. CASE Rename
    BY ZenonT(40), <1>18 DEF Rename
<1>19. CASE WriteDeployFile
    BY ZenonT(40), <1>19 DEF WriteDeployFile
<1>20. CASE Compact
    BY <1>20 DEF Compact
<1>21. CASE Drop
    BY ZenonT(40), <1>21 DEF Drop, Stopping, Bootout, Fails
<1>22. CASE StopCaddy
    <2>1. plists' \subseteq Agents
        BY <1>22 DEF StopCaddy, Stopping, Bootout, Leaves
    <2>2. loaded' \in [Agents -> {"no", "yes", "unloading"}]
        BY <1>22 DEF StopCaddy, Stopping, Bootout, Leaves
    <2>3. /\ front' \in {"none", "legacy", "hand", "caddy"} /\ blue' \in {"down", "standby", "active", "draining"}
          /\ hand' \in BOOLEAN /\ marker' \in BOOLEAN /\ recorded' \in BOOLEAN /\ seen' \in BOOLEAN
        BY <1>22 DEF StopCaddy, Stopping, Bootout, Leaves
    <2>4. pc' \in {"idle", "portsFree"} \cup Commands \cup Recordings \cup Before \cup Between \cup Rollbacks
        BY <1>22 DEF StopCaddy, Stopping, Bootout, Leaves
    <2>5. local' \subseteq {"legacyStopped", "caddyStarted"} /\ starting' = starting
        BY <1>22 DEF StopCaddy, Stopping, Bootout, Leaves
    <2>6. left' \subseteq {"record", "unmarked", "killed", "marker", "beside"} \cup Agents
        BY <1>22 DEF StopCaddy, Stopping, Bootout, Leaves
    <2> QED
        BY <2>1, <2>2, <2>3, <2>4, <2>5, <2>6
<1>23. CASE RemoveCaddy
    BY <1>23 DEF RemoveCaddy, Leaves
<1>24. CASE Unmark
    BY <1>24 DEF Unmark, Leaves
<1>25. CASE StopBlue
    <2>1. plists' \subseteq Agents
        BY <1>25 DEF StopBlue, Stopping, Bootout, Leaves
    <2>2. loaded' \in [Agents -> {"no", "yes", "unloading"}]
        BY <1>25 DEF StopBlue, Stopping, Bootout, Leaves
    <2>3. /\ front' \in {"none", "legacy", "hand", "caddy"} /\ blue' \in {"down", "standby", "active", "draining"}
          /\ hand' \in BOOLEAN /\ marker' \in BOOLEAN /\ recorded' \in BOOLEAN /\ seen' \in BOOLEAN
        BY <1>25 DEF StopBlue, Stopping, Bootout, Leaves
    <2>4. pc' \in {"idle", "portsFree"} \cup Commands \cup Recordings \cup Before \cup Between \cup Rollbacks
        BY <1>25 DEF StopBlue, Stopping, Bootout, Leaves
    <2>5. local' \subseteq {"legacyStopped", "caddyStarted"} /\ starting' = starting
        BY <1>25 DEF StopBlue, Stopping, Bootout, Leaves
    <2>6. left' \subseteq {"record", "unmarked", "killed", "marker", "beside"} \cup Agents
        BY <1>25 DEF StopBlue, Stopping, Bootout, Leaves
    <2> QED
        BY <2>1, <2>2, <2>3, <2>4, <2>5, <2>6
<1>26. CASE StartLegacy
    <2>1. plists' \subseteq Agents
        BY <1>26 DEF StartLegacy, Starting, Starts, Loadable, Load, Leaves
    <2>2. loaded' \in [Agents -> {"no", "yes", "unloading"}]
        BY <1>26 DEF StartLegacy, Starting, Starts, Loadable, Load, Leaves
    <2>3. /\ front' \in {"none", "legacy", "hand", "caddy"} /\ blue' \in {"down", "standby", "active", "draining"}
          /\ hand' \in BOOLEAN /\ marker' \in BOOLEAN /\ recorded' \in BOOLEAN /\ seen' \in BOOLEAN
        BY <1>26 DEF StartLegacy, Starting, Starts, Loadable, Load, Leaves
    <2>4. pc' \in {"idle", "portsFree"} \cup Commands \cup Recordings \cup Before \cup Between \cup Rollbacks
        BY <1>26 DEF StartLegacy, Starting, Starts, Loadable, Load, Leaves
    <2>5. local' \subseteq {"legacyStopped", "caddyStarted"} /\ starting' = starting
        BY <1>26 DEF StartLegacy, Starting, Starts, Loadable, Load, Leaves
    <2>6. left' \subseteq {"record", "unmarked", "killed", "marker", "beside"} \cup Agents
        BY <1>26 DEF StartLegacy, Starting, Starts, Loadable, Load, Leaves
    <2> QED
        BY <2>1, <2>2, <2>3, <2>4, <2>5, <2>6
<1>27. CASE RouterStart
    <2>1. plists' \subseteq Agents
        BY <1>27 DEF RouterStart
    <2>2. loaded' \in [Agents -> {"no", "yes", "unloading"}]
        BY <1>27 DEF RouterStart
    <2>3. /\ front' \in {"none", "legacy", "hand", "caddy"} /\ blue' \in {"down", "standby", "active", "draining"}
          /\ hand' \in BOOLEAN /\ marker' \in BOOLEAN /\ recorded' \in BOOLEAN /\ seen' \in BOOLEAN
        BY <1>27 DEF RouterStart
    <2>4. pc' \in {"idle", "portsFree"} \cup Commands \cup Recordings \cup Before \cup Between \cup Rollbacks
        BY <1>27 DEF RouterStart
    <2>5. local' \subseteq {"legacyStopped", "caddyStarted"} /\ starting' \subseteq Agents \cup {"hand"}
        BY <1>27 DEF RouterStart
    <2>6. left' \subseteq {"record", "unmarked", "killed", "marker", "beside"} \cup Agents
        BY <1>27 DEF RouterStart
    <2> QED
        BY <2>1, <2>2, <2>3, <2>4, <2>5, <2>6
<1>28. CASE RouterStop
    BY <1>28 DEF RouterStop, Command, StopByHand
<1>29. CASE RouterInstall
    BY <1>29 DEF RouterInstall, Command, StopByHand
<1>30. CASE RouterUninstall
    BY <1>30 DEF RouterUninstall, Command
<1>31. CASE Halting
    <2>1. plists' \subseteq Agents
        BY <1>31 DEF Halting, Stopping, Bootout, Fails, Leaves
    <2>2. loaded' \in [Agents -> {"no", "yes", "unloading"}]
        BY <1>31 DEF Halting, Stopping, Bootout, Fails, Leaves
    <2>3. /\ front' \in {"none", "legacy", "hand", "caddy"} /\ blue' \in {"down", "standby", "active", "draining"}
          /\ hand' \in BOOLEAN /\ marker' \in BOOLEAN /\ recorded' \in BOOLEAN /\ seen' \in BOOLEAN
        BY ZenonT(40), <1>31 DEF Halting, Stopping, Bootout, Fails, Leaves
    <2>4. pc' \in {"idle", "portsFree"} \cup Commands \cup Recordings \cup Before \cup Between \cup Rollbacks
        BY <1>31 DEF Halting, Stopping, Bootout, Fails, Leaves
    <2>5. local' \subseteq {"legacyStopped", "caddyStarted"} /\ starting' = starting
        BY <1>31 DEF Halting, Stopping, Bootout, Fails, Leaves
    <2>6. left' \subseteq {"record", "unmarked", "killed", "marker", "beside"} \cup Agents
        BY <1>31 DEF Halting, Stopping, Bootout, Fails, Leaves
    <2> QED
        BY <2>1, <2>2, <2>3, <2>4, <2>5, <2>6
<1>32. CASE Reload
    BY <1>32 DEF Reload, Starts, Loadable, Load, Beside
<1>33. CASE Bind
    <2>1. plists' \subseteq Agents
        BY <1>33 DEF Bind
    <2>2. loaded' \in [Agents -> {"no", "yes", "unloading"}]
        BY <1>33 DEF Bind
    <2>3. /\ front' \in {"none", "legacy", "hand", "caddy"} /\ blue' \in {"down", "standby", "active", "draining"}
          /\ hand' \in BOOLEAN /\ marker' \in BOOLEAN /\ recorded' \in BOOLEAN /\ seen' \in BOOLEAN
        BY <1>33 DEF Bind
    <2>4. pc' \in {"idle", "portsFree"} \cup Commands \cup Recordings \cup Before \cup Between \cup Rollbacks
        BY <1>33 DEF Bind
    <2>5. local' \subseteq {"legacyStopped", "caddyStarted"} /\ starting' = starting
        BY <1>33 DEF Bind
    <2>6. left' \subseteq {"record", "unmarked", "killed", "marker", "beside"} \cup Agents
        BY <1>33 DEF Bind
    <2> QED
        BY <2>1, <2>2, <2>3, <2>4, <2>5, <2>6
<1>34. CASE RunBlue
    BY ZenonT(40), <1>34 DEF RunBlue
<1>35. CASE Unload
    <2>1. plists' \subseteq Agents
        BY <1>35 DEF Unload
    <2>2. loaded' \in [Agents -> {"no", "yes", "unloading"}]
        BY <1>35 DEF Unload
    <2>3. /\ front' \in {"none", "legacy", "hand", "caddy"} /\ blue' \in {"down", "standby", "active", "draining"}
          /\ hand' \in BOOLEAN /\ marker' \in BOOLEAN /\ recorded' \in BOOLEAN /\ seen' \in BOOLEAN
        BY <1>35 DEF Unload
    <2>4. pc' \in {"idle", "portsFree"} \cup Commands \cup Recordings \cup Before \cup Between \cup Rollbacks
        BY <1>35 DEF Unload
    <2>5. local' \subseteq {"legacyStopped", "caddyStarted"} /\ starting' = starting
        BY <1>35 DEF Unload
    <2>6. left' \subseteq {"record", "unmarked", "killed", "marker", "beside"} \cup Agents
        BY <1>35 DEF Unload
    <2> QED
        BY <2>1, <2>2, <2>3, <2>4, <2>5, <2>6
<1>36. CASE Crash
    <2>1. plists' \subseteq Agents
        BY <1>36 DEF Crash
    <2>2. loaded' \in [Agents -> {"no", "yes", "unloading"}]
        BY <1>36 DEF Crash
    <2>3. /\ front' \in {"none", "legacy", "hand", "caddy"} /\ blue' \in {"down", "standby", "active", "draining"}
          /\ hand' \in BOOLEAN /\ marker' \in BOOLEAN /\ recorded' \in BOOLEAN /\ seen' \in BOOLEAN
        BY <1>36 DEF Crash
    <2>4. pc' \in {"idle", "portsFree"} \cup Commands \cup Recordings \cup Before \cup Between \cup Rollbacks
        BY <1>36 DEF Crash
    <2>5. local' \subseteq {"legacyStopped", "caddyStarted"} /\ starting' = starting
        BY <1>36 DEF Crash
    <2>6. left' \subseteq {"record", "unmarked", "killed", "marker", "beside"} \cup Agents
        BY <1>36 DEF Crash
    <2> QED
        BY <2>1, <2>2, <2>3, <2>4, <2>5, <2>6
<1>37. CASE Login
    BY <1>37 DEF Login, Beside
<1>38. CASE Kill
    BY <1>38 DEF Kill, Leaves
<1>39. CASE UNCHANGED vars
    <2>1. plists' \subseteq Agents
        BY <1>39 DEF vars
    <2>2. loaded' \in [Agents -> {"no", "yes", "unloading"}]
        BY <1>39 DEF vars
    <2>3. /\ front' \in {"none", "legacy", "hand", "caddy"} /\ blue' \in {"down", "standby", "active", "draining"}
          /\ hand' \in BOOLEAN /\ marker' \in BOOLEAN /\ recorded' \in BOOLEAN /\ seen' \in BOOLEAN
        BY <1>39 DEF vars
    <2>4. pc' \in {"idle", "portsFree"} \cup Commands \cup Recordings \cup Before \cup Between \cup Rollbacks
        BY <1>39 DEF vars
    <2>5. local' \subseteq {"legacyStopped", "caddyStarted"} /\ starting' = starting
        BY <1>39 DEF vars
    <2>6. left' \subseteq {"record", "unmarked", "killed", "marker", "beside"} \cup Agents
        BY <1>39 DEF vars
    <2> QED
        BY <2>1, <2>2, <2>3, <2>4, <2>5, <2>6
<1>40. CASE Install
    BY <1>40 DEF Install
<1>41. CASE Remove
    BY <1>41 DEF Remove
<1>42. CASE StartCall
    <2>1. plists' \subseteq Agents
        BY <1>42, StartCallDoes
    <2>2. loaded' \in [Agents -> {"no", "yes", "unloading"}]
        BY <1>42, StartCallDoes
    <2>3. /\ front' \in {"none", "legacy", "hand", "caddy"} /\ blue' \in {"down", "standby", "active", "draining"}
          /\ hand' \in BOOLEAN /\ marker' \in BOOLEAN /\ recorded' \in BOOLEAN /\ seen' \in BOOLEAN
        <3>1. UNCHANGED <<front, blue, marker, recorded, seen>>
            BY <1>42 DEF StartCall
        <3>2. hand' = hand \/ hand' = (front \in {"none", "hand"})
            BY <1>42 DEF StartCall
        <3>3. hand' \in BOOLEAN
            <4>1. CASE hand' = hand
                BY <4>1
            <4>2. CASE hand' = (front \in {"none", "hand"})
                BY ONLY <4>2
            <4> QED
                BY <3>2, <4>1, <4>2
        <3> QED
            BY <3>1, <3>3
    <2>4. pc' \in {"idle", "portsFree"} \cup Commands \cup Recordings \cup Before \cup Between \cup Rollbacks
        BY <1>42, StartCallDoes
    <2>5. local' \subseteq {"legacyStopped", "caddyStarted"} /\ starting' \subseteq Agents \cup {"hand"}
        BY <1>42, StartCallDoes
    <2>6. left' \subseteq {"record", "unmarked", "killed", "marker", "beside"} \cup Agents
        BY <1>42, StartCallDoes DEF Beside
    <2> QED
        BY <2>1, <2>2, <2>3, <2>4, <2>5, <2>6
<1> QED
    BY <1>1, <1>2, <1>3, <1>4, <1>5, <1>6, <1>7, <1>8, <1>9, <1>10, <1>11, <1>12, <1>13,
       <1>14, <1>15, <1>16, <1>17, <1>18, <1>19, <1>20, <1>21, <1>22, <1>23, <1>24, <1>25, <1>26,
       <1>27, <1>28, <1>29, <1>30, <1>31, <1>32, <1>33, <1>34, <1>35, <1>36, <1>37, <1>38, <1>39, <1>40, <1>41, <1>42
       DEF Next, Switch, Recording, Rollback, Service, Serving, Faulty

\* No step lets a router hold the ports that does not run.
LEMMA PortsStep == ASSUME IInv, [Next]_vars PROVE PortsOK'
<1> USE DEF IInv, TypeOK, PortsOK, PhaseOK, LegacyAnswers, Agents, launchd, processes, files, command, counters, tasks, Switched, Goes, Strike, Commands, Recordings, Before, Between, Rollbacks
<1>1. CASE Cutover
    BY <1>1 DEF Cutover
<1>2. CASE Ask
    BY <1>2 DEF Ask
<1>3. CASE Mark
    BY <1>3 DEF Mark, Leaves
<1>4. CASE Retire
    BY <1>4 DEF Retire
<1>5. CASE Retiring
    BY <1>5 DEF Retiring, Stopping, Bootout, Fails
<1>6. CASE StartBlue
    BY <1>6 DEF StartBlue, Starting, Starts, Loadable, Load, Undo
<1>7. CASE WaitBlue
    BY <1>7 DEF WaitBlue, Undo
<1>8. CASE Prepare
    BY <1>8 DEF Prepare, Undo
<1>9. CASE StopLegacy
    BY <1>9 DEF StopLegacy, Stopping, Bootout
<1>10. CASE PortsFree
    BY <1>10 DEF PortsFree, Undo
<1>11. CASE Save
    BY <1>11 DEF Save, Undo
<1>12. CASE Activate
    <2>1. UNCHANGED <<loaded, front, hand>> /\ pc = "activate" /\ left' = left
        BY <1>12 DEF Activate, Undo
    <2>2. blue' # blue => BlueListens
        BY <1>12 DEF Activate
    <2> QED
        BY <2>1, <2>2 DEF BlueListens
<1>13. CASE CheckBlue
    BY <1>13 DEF CheckBlue, Undo
<1>14. CASE InstallCaddy
    BY <1>14 DEF InstallCaddy
<1>15. CASE StartCaddy
    BY <1>15 DEF StartCaddy, Starting, Starts, Loadable, Load, Undo
<1>16. CASE Ready
    BY <1>16 DEF Ready, Undo, Leaves
<1>17. CASE Record
    BY <1>17 DEF Record
<1>18. CASE Rename
    BY <1>18 DEF Rename
<1>19. CASE WriteDeployFile
    BY <1>19 DEF WriteDeployFile
<1>20. CASE Compact
    BY <1>20 DEF Compact
<1>21. CASE Drop
    BY <1>21 DEF Drop, Stopping, Bootout, Fails
<1>22. CASE StopCaddy
    BY <1>22 DEF StopCaddy, Stopping, Bootout, Leaves
<1>23. CASE RemoveCaddy
    BY <1>23 DEF RemoveCaddy, Leaves
<1>24. CASE Unmark
    BY <1>24 DEF Unmark, Leaves
<1>25. CASE StopBlue
    BY <1>25 DEF StopBlue, Stopping, Bootout, Leaves
<1>26. CASE StartLegacy
    BY <1>26 DEF StartLegacy, Starting, Starts, Loadable, Load, Leaves
<1>27. CASE RouterStart
    BY <1>27 DEF RouterStart
<1>28. CASE RouterStop
    <2>1. UNCHANGED <<loaded, blue>> /\ pc = "idle"
        BY <1>28 DEF RouterStop, Command
    <2>2. CASE UNCHANGED <<front, hand>> /\ pc' \in {"haltCaddy", "halt"}
        BY <2>1, <2>2
    <2>3. CASE hand' = FALSE /\ pc' = pc /\ front' = IF front \in {"legacy", "hand"} THEN "none" ELSE front
        BY <2>1, <2>3
    <2> QED
        BY <1>28, <2>2, <2>3 DEF RouterStop, StopByHand
<1>29. CASE RouterInstall
    BY <1>29 DEF RouterInstall, Command, StopByHand
<1>30. CASE RouterUninstall
    BY <1>30 DEF RouterUninstall, Command
<1>31. CASE Halting
    BY <1>31 DEF Halting, Stopping, Bootout, Fails, Leaves
<1>32. CASE Reload
    BY <1>32 DEF Reload, Starts, Loadable, Load, Beside
<1>33. CASE Bind
    BY <1>33 DEF Bind
<1>34. CASE RunBlue
    BY <1>34 DEF RunBlue
<1>35. CASE Unload
    BY <1>35 DEF Unload
<1>36. CASE Crash
    <2>1. UNCHANGED <<loaded, pc, left>>
        BY <1>36 DEF Crash
    <2>2. CASE front' = "none" /\ blue' = blue /\ (IF front = "hand" THEN hand' = FALSE ELSE hand' = hand)
        <3>1. CASE front = "hand"
            BY <2>1, <2>2, <3>1
        <3>2. CASE front # "hand"
            BY <2>1, <2>2, <3>2
        <3> QED
            BY <3>1, <3>2
    <2>3. CASE blue' = "down" /\ UNCHANGED <<front, hand>>
        BY <2>1, <2>3
    <2> QED
        BY <1>36, <2>2, <2>3 DEF Crash
<1>37. CASE Login
    BY <1>37 DEF Login, Beside
<1>38. CASE Kill
    BY <1>38 DEF Kill, Leaves
<1>39. CASE UNCHANGED vars
    BY <1>39 DEF vars
<1>40. CASE Install
    BY <1>40 DEF Install
<1>41. CASE Remove
    BY <1>41 DEF Remove
<1>42. CASE StartCall
    <2>1. /\ UNCHANGED <<plists, front, blue, seen, marker, recorded, pc, local>>
          /\ starting' \subseteq starting
        BY <1>42, StartCallDoes
    <2>2. CASE UNCHANGED <<loaded, hand>> /\ left' \in {left, left \union Beside}
        BY <2>1, <2>2 DEF Beside
    <2>3. CASE UNCHANGED loaded /\ hand' = (front \in {"none", "hand"}) /\ left' = left \union Beside
        BY <2>1, <2>3 DEF Beside
    <2>4. ASSUME NEW a \in starting \cap plists, loaded[a] = "no", loaded' = [loaded EXCEPT ![a] = "yes"],
                 UNCHANGED hand, left' = left \union (IF a = "legacy" THEN Beside ELSE {})
          PROVE  PortsOK'
        BY <2>1, <2>4 DEF Beside
    <2> QED
        BY <1>42, StartCallDoes, <2>2, <2>3, <2>4
<1> QED
    BY <1>1, <1>2, <1>3, <1>4, <1>5, <1>6, <1>7, <1>8, <1>9, <1>10, <1>11, <1>12, <1>13,
       <1>14, <1>15, <1>16, <1>17, <1>18, <1>19, <1>20, <1>21, <1>22, <1>23, <1>24, <1>25, <1>26,
       <1>27, <1>28, <1>29, <1>30, <1>31, <1>32, <1>33, <1>34, <1>35, <1>36, <1>37, <1>38, <1>39, <1>40, <1>41, <1>42
       DEF Next, Switch, Recording, Rollback, Service, Serving, Faulty

\* No step breaks what a command has done by its next call.
LEMMA PhaseStep == ASSUME IInv, [Next]_vars PROVE PhaseOK'
<1> USE DEF IInv, TypeOK, PortsOK, PhaseOK, PendingOK, CleanOK, Stopped, LegacyAnswers, Unmarked, Agents, launchd, processes, files, command, counters, tasks, Switched, Goes, Strike, Commands, Recordings, Before, Between, Rollbacks
<1>1. CASE Cutover
    BY <1>1 DEF Cutover
<1>2. CASE Ask
    BY <1>2 DEF Ask
<1>3. CASE Mark
    BY <1>3 DEF Mark, Leaves
<1>4. CASE Retire
    BY <1>4 DEF Retire
<1>5. CASE Retiring
    BY <1>5 DEF Retiring, Stopping, Bootout, Fails
<1>6. CASE StartBlue
    BY <1>6 DEF StartBlue, Starting, Starts, Loadable, Load, Undo
<1>7. CASE WaitBlue
    BY <1>7 DEF WaitBlue, Undo
<1>8. CASE Prepare
    BY <1>8 DEF Prepare, Undo
<1>9. CASE StopLegacy
    BY <1>9 DEF StopLegacy, Stopping, Bootout
<1>10. CASE PortsFree
    BY <1>10 DEF PortsFree, Undo
<1>11. CASE Save
    BY <1>11 DEF Save, Undo
<1>12. CASE Activate
    BY <1>12 DEF Activate, Undo
<1>13. CASE CheckBlue
    BY <1>13 DEF CheckBlue, Undo
<1>14. CASE InstallCaddy
    BY <1>14 DEF InstallCaddy
<1>15. CASE StartCaddy
    BY <1>15 DEF StartCaddy, Starting, Starts, Loadable, Load, Undo
<1>16. CASE Ready
    BY <1>16 DEF Ready, Undo, Leaves
<1>17. CASE Record
    BY <1>17 DEF Record
<1>18. CASE Rename
    BY <1>18 DEF Rename
<1>19. CASE WriteDeployFile
    BY <1>19 DEF WriteDeployFile
<1>20. CASE Compact
    BY <1>20 DEF Compact
<1>21. CASE Drop
    BY <1>21 DEF Drop, Stopping, Bootout, Fails
<1>22. CASE StopCaddy
    BY <1>22 DEF StopCaddy, Stopping, Bootout, Leaves
<1>23. CASE RemoveCaddy
    BY <1>23 DEF RemoveCaddy, Leaves
<1>24. CASE Unmark
    BY <1>24 DEF Unmark, Leaves
<1>25. CASE StopBlue
    BY <1>25 DEF StopBlue, Stopping, Bootout, Leaves
<1>26. CASE StartLegacy
    BY <1>26 DEF StartLegacy, Starting, Starts, Loadable, Load, Leaves
<1>27. CASE RouterStart
    BY <1>27 DEF RouterStart
<1>28. CASE RouterStop
    BY <1>28 DEF RouterStop, Command, StopByHand
<1>29. CASE RouterInstall
    BY <1>29 DEF RouterInstall, Command, StopByHand
<1>30. CASE RouterUninstall
    BY <1>30 DEF RouterUninstall, Command
<1>31. CASE Halting
    BY <1>31 DEF Halting, Stopping, Bootout, Fails, Leaves
<1>32. CASE Reload
    BY <1>32 DEF Reload, Starts, Loadable, Load, Beside
<1>33. CASE Bind
    BY <1>33 DEF Bind
<1>34. CASE RunBlue
    BY <1>34 DEF RunBlue
<1>35. CASE Unload
    BY ZenonT(40), <1>35 DEF Unload
<1>36. CASE Crash
    <2>1. UNCHANGED <<plists, loaded, marker, recorded, pc, local, left, starting>>
        BY <1>36 DEF Crash
    <2>2. Stopped => Stopped'
        BY <1>36 DEF Crash
    <2>3. blue # "active" => blue' # "active"
        BY <1>36 DEF Crash
    <2> HIDE DEF Stopped
    <2> QED
        BY <2>1, <2>2, <2>3
<1>37. CASE Login
    BY <1>37 DEF Login, Beside
<1>38. CASE Kill
    BY <1>38 DEF Kill, Leaves
<1>39. CASE UNCHANGED vars
    BY <1>39 DEF vars
<1>40. CASE Install
    BY <1>40 DEF Install
<1>41. CASE Remove
    BY <1>41 DEF Remove
<1>42. CASE StartCall
    <2>1. /\ UNCHANGED <<plists, front, blue, seen, marker, recorded, pc, local>>
          /\ starting' \subseteq starting
        BY <1>42, StartCallDoes
    <2>2. CASE UNCHANGED <<loaded, hand>> /\ left' \in {left, left \union Beside}
        BY <2>1, <2>2 DEF Beside
    <2>3. CASE UNCHANGED loaded /\ hand' = (front \in {"none", "hand"}) /\ left' = left \union Beside
        BY <2>1, <2>3 DEF Beside
    <2>4. ASSUME NEW a \in starting \cap plists, loaded[a] = "no", loaded' = [loaded EXCEPT ![a] = "yes"],
                 UNCHANGED hand, left' = left \union (IF a = "legacy" THEN Beside ELSE {})
          PROVE  PhaseOK'
        BY <2>1, <2>4 DEF Beside
    <2> QED
        BY <1>42, StartCallDoes, <2>2, <2>3, <2>4
<1> QED
    BY <1>1, <1>2, <1>3, <1>4, <1>5, <1>6, <1>7, <1>8, <1>9, <1>10, <1>11, <1>12, <1>13,
       <1>14, <1>15, <1>16, <1>17, <1>18, <1>19, <1>20, <1>21, <1>22, <1>23, <1>24, <1>25, <1>26,
       <1>27, <1>28, <1>29, <1>30, <1>31, <1>32, <1>33, <1>34, <1>35, <1>36, <1>37, <1>38, <1>39, <1>40, <1>41, <1>42
       DEF Next, Switch, Recording, Rollback, Service, Serving, Faulty

\* No step disturbs a switch that waits for its record.
LEMMA PendingStep == ASSUME IInv, [Next]_vars PROVE PendingOK'
<1> USE DEF IInv, TypeOK, PortsOK, PhaseOK, PendingOK, CleanOK, Stopped, LegacyAnswers, NoCaddy, BlueListens, BlueServes, Unmarked, Agents, launchd, processes, files, command, counters, tasks, Switched, Goes, Strike, Commands, Recordings, Before, Between, Rollbacks
<1>1. CASE Cutover
    BY <1>1 DEF Cutover
<1>2. CASE Ask
    BY <1>2 DEF Ask
<1>3. CASE Mark
    <2>1. CASE "record" \in left /\ Leaves("unmarked")
        <3>1. left' # {"record"}
            BY ONLY <2>1, OnlyRecord DEF Leaves
        <3> QED
            BY <3>1
    <2>2. CASE "record" \notin left /\ UNCHANGED left
        BY <2>2
    <2>3. CASE pc' = "idle" /\ UNCHANGED <<marker, left>>
        BY <1>3, <2>3 DEF Mark
    <2> QED
        BY <1>3, <2>1, <2>2, <2>3 DEF Mark
<1>4. CASE Retire
    BY <1>4 DEF Retire
<1>5. CASE Retiring
    BY <1>5 DEF Retiring, Stopping, Bootout, Fails
<1>6. CASE StartBlue
    BY <1>6 DEF StartBlue, Starting, Starts, Loadable, Load, Undo
<1>7. CASE WaitBlue
    BY <1>7 DEF WaitBlue, Undo
<1>8. CASE Prepare
    BY <1>8 DEF Prepare, Undo
<1>9. CASE StopLegacy
    BY <1>9 DEF StopLegacy, Stopping, Bootout
<1>10. CASE PortsFree
    BY <1>10 DEF PortsFree, Undo
<1>11. CASE Save
    BY <1>11 DEF Save, Undo
<1>12. CASE Activate
    BY <1>12 DEF Activate, Undo
<1>13. CASE CheckBlue
    BY <1>13 DEF CheckBlue, Undo
<1>14. CASE InstallCaddy
    BY <1>14 DEF InstallCaddy
<1>15. CASE StartCaddy
    BY <1>15 DEF StartCaddy, Starting, Starts, Loadable, Load, Undo
<1>16. CASE Ready
    BY <1>16 DEF Ready, Undo, Leaves
<1>17. CASE Record
    BY <1>17 DEF Record
<1>18. CASE Rename
    BY <1>18 DEF Rename
<1>19. CASE WriteDeployFile
    BY <1>19 DEF WriteDeployFile
<1>20. CASE Compact
    BY <1>20 DEF Compact
<1>21. CASE Drop
    BY <1>21 DEF Drop, Stopping, Bootout, Fails
<1>22. CASE StopCaddy
    BY <1>22 DEF StopCaddy, Stopping, Bootout, Leaves
<1>23. CASE RemoveCaddy
    BY <1>23 DEF RemoveCaddy, Leaves
<1>24. CASE Unmark
    BY <1>24 DEF Unmark, Leaves
<1>25. CASE StopBlue
    BY <1>25 DEF StopBlue, Stopping, Bootout, Leaves
<1>26. CASE StartLegacy
    BY <1>26 DEF StartLegacy, Starting, Starts, Loadable, Load, Leaves
<1>27. CASE RouterStart
    BY <1>27 DEF RouterStart
<1>28. CASE RouterStop
    BY <1>28 DEF RouterStop, Command, StopByHand
<1>29. CASE RouterInstall
    BY <1>29 DEF RouterInstall, Command, StopByHand
<1>30. CASE RouterUninstall
    BY <1>30 DEF RouterUninstall, Command
<1>31. CASE Halting
    <2>1. UNCHANGED <<plists, marker, recorded, left>>
        BY <1>31 DEF Halting, Stopping, Fails
    <2>2. pc \in {"uninstall", "reload"} => pc' \in {"uninstall", "remove", "reload", "load", "idle"}
        BY <1>31 DEF Halting, Stopping, Fails
    <2>3. pc \in {"uninstall", "reload", "halt", "haltCaddy", "haltBlue"}
        BY <1>31 DEF Halting
    <2>4. loaded["legacy"] = "no" => loaded'["legacy"] = "no"
        BY <1>31 DEF Halting, Stopping, Bootout, Fails
    <2>5. ASSUME left' = {"record"}
          PROVE  /\ marker' /\ "caddy" \in plists' /\ loaded'["legacy"] = "no" /\ ~recorded'
                 /\ pc' \in {"uninstall", "remove", "reload", "load", "idle"}
        BY <2>1, <2>2, <2>3, <2>4, <2>5
    <2> QED
        BY ONLY <2>5 DEF PendingOK
<1>32. CASE Reload
    BY <1>32, BesideShows DEF Reload
<1>33. CASE Bind
    BY <1>33 DEF Bind
<1>34. CASE RunBlue
    BY <1>34 DEF RunBlue
<1>35. CASE Unload
    BY <1>35 DEF Unload
<1>36. CASE Crash
    BY <1>36 DEF Crash
<1>37. CASE Login
    <2>1. ASSUME left' = {"record"} PROVE left = {"record"} /\ pc = "idle" /\ "legacy" \notin plists
        <3> DEFINE more == (IF pc # "idle" THEN {"killed"} ELSE {}) \union (IF "legacy" \in plists THEN Beside ELSE {})
        <3>1. left \union more = {"record"}
            BY <1>37, <2>1 DEF Login
        <3>2. "record" \notin more
            BY DEF Beside
        <3>3. left = {"record"} /\ more = {}
            BY ONLY <3>1, <3>2, OnlyRecord
        <3>4. pc = "idle" /\ ("legacy" \in plists => Beside = {})
            BY <3>3
        <3> QED
            BY <3>3, <3>4 DEF Beside
    <2> QED
        BY <1>37, <2>1 DEF Login
<1>38. CASE Kill
    BY <1>38 DEF Kill, Leaves
<1>39. CASE UNCHANGED vars
    BY <1>39 DEF vars
<1>40. CASE Install
    BY <1>40 DEF Install
<1>41. CASE Remove
    BY <1>41 DEF Remove
<1>42. CASE StartCall
    <2>1. /\ UNCHANGED <<plists, front, blue, seen, marker, recorded, pc, local>>
          /\ starting' \subseteq starting
        BY <1>42, StartCallDoes
    <2>5. left' = left \union Beside => left' # {"record"}
        BY BesideShows
    <2>2. CASE UNCHANGED <<loaded, hand>> /\ left' \in {left, left \union Beside}
        BY <2>1, <2>2, <2>5
    <2>3. CASE UNCHANGED loaded /\ hand' = (front \in {"none", "hand"}) /\ left' = left \union Beside
        BY <2>3, <2>5
    <2>4. ASSUME NEW a \in starting \cap plists, loaded[a] = "no", loaded' = [loaded EXCEPT ![a] = "yes"],
                 UNCHANGED hand, left' = left \union (IF a = "legacy" THEN Beside ELSE {})
          PROVE  PendingOK'
        BY <2>1, <2>4, <2>5
    <2> QED
        BY <1>42, StartCallDoes, <2>2, <2>3, <2>4
<1> QED
    BY <1>1, <1>2, <1>3, <1>4, <1>5, <1>6, <1>7, <1>8, <1>9, <1>10, <1>11, <1>12, <1>13,
       <1>14, <1>15, <1>16, <1>17, <1>18, <1>19, <1>20, <1>21, <1>22, <1>23, <1>24, <1>25, <1>26,
       <1>27, <1>28, <1>29, <1>30, <1>31, <1>32, <1>33, <1>34, <1>35, <1>36, <1>37, <1>38, <1>39, <1>40, <1>41, <1>42
       DEF Next, Switch, Recording, Rollback, Service, Serving, Faulty

\* With nothing left undone, no step lets both routers write.
LEMMA CleanStep == ASSUME IInv, [Next]_vars PROVE CleanOK'
<1> USE DEF IInv, TypeOK, PortsOK, PhaseOK, PendingOK, CleanOK, Stopped, LegacyAnswers, NoCaddy, BlueListens, BlueServes, Unmarked, Agents, launchd, processes, files, command, counters, tasks, Switched, Goes, Strike, Commands, Recordings, Before, Between, Rollbacks
<1>1. CASE Cutover
    BY <1>1 DEF Cutover
<1>2. CASE Ask
    BY <1>2 DEF Ask
<1>3. CASE Mark
    BY <1>3 DEF Mark, Leaves
<1>4. CASE Retire
    BY <1>4 DEF Retire
<1>5. CASE Retiring
    BY <1>5 DEF Retiring, Stopping, Bootout, Fails
<1>6. CASE StartBlue
    <2>1. UNCHANGED <<hand, marker, recorded, front, blue>> /\ pc = "start"
          /\ (left' = {} => left = {}) /\ (\A a \in {"legacy", "caddy"} : a \in plists' <=> a \in plists)
        BY <1>6 DEF StartBlue, Starting, Starts, Loadable, Load, Undo
    <2>2. loaded'["legacy"] = loaded["legacy"] /\ loaded'["caddy"] = loaded["caddy"]
        BY <1>6 DEF StartBlue, Starting, Starts, Loadable, Load, Undo
    <2>3. pc' \in {"wait", "drop"}
        BY <1>6 DEF StartBlue, Starting, Starts, Loadable, Load, Undo
    <2> QED
        BY <2>1, <2>2, <2>3
<1>7. CASE WaitBlue
    BY <1>7 DEF WaitBlue, Undo
<1>8. CASE Prepare
    BY <1>8 DEF Prepare, Undo
<1>9. CASE StopLegacy
    BY <1>9 DEF StopLegacy, Stopping, Bootout
<1>10. CASE PortsFree
    BY <1>10 DEF PortsFree, Undo
<1>11. CASE Save
    BY <1>11 DEF Save, Undo
<1>12. CASE Activate
    BY <1>12 DEF Activate, Undo
<1>13. CASE CheckBlue
    BY <1>13 DEF CheckBlue, Undo
<1>14. CASE InstallCaddy
    BY <1>14 DEF InstallCaddy
<1>15. CASE StartCaddy
    <2>1. UNCHANGED <<plists, hand, marker, recorded, front, blue>> /\ pc = "startCaddy"
          /\ (left' = {} => left = {})
        BY <1>15 DEF StartCaddy, Starting, Starts, Loadable, Load, Undo
    <2>2. loaded'["legacy"] = loaded["legacy"]
        BY <1>15 DEF StartCaddy, Starting, Starts, Loadable, Load, Undo
    <2>3. pc' \in {"ready", "stopCaddy"}
        BY <1>15 DEF StartCaddy, Starting, Starts, Loadable, Load, Undo
    <2> QED
        BY <2>1, <2>2, <2>3
<1>16. CASE Ready
    BY <1>16 DEF Ready, Undo, Leaves
<1>17. CASE Record
    BY <1>17 DEF Record
<1>18. CASE Rename
    BY <1>18 DEF Rename
<1>19. CASE WriteDeployFile
    <2>1. CASE left' = left \ {"record"} /\ recorded' /\ pc' = "compact"
        <3>1. left' = {} => left \in {{}, {"record"}}
            BY ONLY <2>1
        <3>2. CASE left = {}
            BY <1>19, <3>2 DEF WriteDeployFile
        <3>3. CASE left = {"record"}
            BY <1>19, <2>1, <3>3 DEF WriteDeployFile
        <3> QED
            BY <3>1, <3>2, <3>3
    <2>2. CASE UNCHANGED <<recorded, left>> /\ pc' = "idle"
        BY <1>19, <2>2 DEF WriteDeployFile
    <2> QED
        BY <1>19, <2>1, <2>2 DEF WriteDeployFile
<1>20. CASE Compact
    BY <1>20 DEF Compact
<1>21. CASE Drop
    BY <1>21 DEF Drop, Stopping, Bootout, Fails
<1>22. CASE StopCaddy
    BY <1>22 DEF StopCaddy, Stopping, Bootout, Leaves
<1>23. CASE RemoveCaddy
    BY <1>23 DEF RemoveCaddy, Leaves
<1>24. CASE Unmark
    BY <1>24 DEF Unmark, Leaves
<1>25. CASE StopBlue
    BY <1>25 DEF StopBlue, Stopping, Bootout, Leaves
<1>26. CASE StartLegacy
    BY <1>26 DEF StartLegacy, Starting, Starts, Loadable, Load, Leaves
<1>27. CASE RouterStart
    BY <1>27 DEF RouterStart
<1>28. CASE RouterStop
    BY <1>28 DEF RouterStop, Command, StopByHand
<1>29. CASE RouterInstall
    BY <1>29 DEF RouterInstall, Command, StopByHand
<1>30. CASE RouterUninstall
    BY <1>30 DEF RouterUninstall, Command
<1>31. CASE Halting
    BY ZenonT(40), <1>31 DEF Halting, Stopping, Bootout, Fails, Leaves
<1>32. CASE Reload
    BY <1>32 DEF Reload, Starts, Loadable, Load, Beside
<1>33. CASE Bind
    BY <1>33 DEF Bind
<1>34. CASE RunBlue
    BY <1>34 DEF RunBlue
<1>35. CASE Unload
    BY <1>35 DEF Unload
<1>36. CASE Crash
    BY <1>36 DEF Crash
<1>37. CASE Login
    BY <1>37 DEF Login, Beside
<1>38. CASE Kill
    BY <1>38 DEF Kill, Leaves
<1>39. CASE UNCHANGED vars
    BY <1>39 DEF vars
<1>40. CASE Install
    BY <1>40 DEF Install
<1>41. CASE Remove
    BY <1>41 DEF Remove
<1>42. CASE StartCall
    <2>1. /\ UNCHANGED <<plists, front, blue, seen, marker, recorded, pc, local>>
          /\ starting' \subseteq starting
        BY <1>42, StartCallDoes
    <2>2. CASE UNCHANGED <<loaded, hand>> /\ left' \in {left, left \union Beside}
        BY <2>1, <2>2 DEF Beside
    <2>3. CASE UNCHANGED loaded /\ hand' = (front \in {"none", "hand"}) /\ left' = left \union Beside
        BY <2>1, <2>3 DEF Beside
    <2>4. ASSUME NEW a \in starting \cap plists, loaded[a] = "no", loaded' = [loaded EXCEPT ![a] = "yes"],
                 UNCHANGED hand, left' = left \union (IF a = "legacy" THEN Beside ELSE {})
          PROVE  CleanOK'
        BY <2>1, <2>4 DEF Beside
    <2> QED
        BY <1>42, StartCallDoes, <2>2, <2>3, <2>4
<1> QED
    BY <1>1, <1>2, <1>3, <1>4, <1>5, <1>6, <1>7, <1>8, <1>9, <1>10, <1>11, <1>12, <1>13,
       <1>14, <1>15, <1>16, <1>17, <1>18, <1>19, <1>20, <1>21, <1>22, <1>23, <1>24, <1>25, <1>26,
       <1>27, <1>28, <1>29, <1>30, <1>31, <1>32, <1>33, <1>34, <1>35, <1>36, <1>37, <1>38, <1>39, <1>40, <1>41, <1>42
       DEF Next, Switch, Recording, Rollback, Service, Serving, Faulty

-----------------------------------------------------------------------------
\* A legacy router alone, started by launchd or by hand.
LEMMA InitInv == Init => IInv
<1> SUFFICES ASSUME Init PROVE IInv
    OBVIOUS
<1> USE DEF Init, Agents
<1>1. TypeOK
    BY DEF TypeOK, Commands, Recordings, Before, Between, Rollbacks
<1>2. PortsOK
    BY DEF PortsOK, Switched
<1>3. PhaseOK
    BY DEF PhaseOK, Commands, Recordings, Before, Between, Rollbacks, Unmarked, Stopped
<1>4. PendingOK /\ CleanOK
    BY DEF PendingOK, CleanOK, Before, Commands, NoCaddy, Stopped
<1> QED
    BY <1>1, <1>2, <1>3, <1>4 DEF IInv

LEMMA Invariance == Spec => []IInv
<1>1. IInv /\ [Next]_vars => IInv'
    BY TypeStep, PortsStep, PhaseStep, PendingStep, CleanStep DEF IInv
<1> QED
    BY <1>1, InitInv, PTL DEF Spec

\* Whatever calls fail and whenever: the legacy router and blue never both write
\* to the shared files, unless a kill, a failed rollback or an unrecorded switch
\* left something undone, or a start loaded the legacy router beside the switch
\* (cutover, returnToLegacy, startSlots).
THEOREM NeverTwoWriters == Spec => []OneWriter
<1>1. IInv => OneWriter
    BY DEF IInv, CleanOK, Stopped, OneWriter, LegacyAnswers
<1> QED
    BY <1>1, Invariance, PTL

\* Between commands the installed agents, the marker and deploy.json agree on who
\* serves, so that a login brings the same router back (commit, recordCutover,
\* returnToLegacy).
THEOREM LoginsKeepIt == Spec => []LoginKeepsIt
<1>1. IInv => LoginKeepsIt
    BY DEF IInv, CleanOK, NoCaddy, LoginKeepsIt
<1> QED
    BY <1>1, Invariance, PTL
=============================================================================
