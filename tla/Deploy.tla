------------------------------- MODULE Deploy -------------------------------
(***************************************************************************)
(* The blue/green deploy of claude-router.  Two router slots run under     *)
(* launchd (KeepAlive), Caddy in front of them routes the public address   *)
(* to one, and `localrouter deploy` moves Caddy from the serving slot to   *)
(* the other.  Four parties act: the deploy controller, one call at a      *)
(* time; the two slot processes; launchd, which restarts and unloads them; *)
(* and clients, whose requests are in flight while the slots change roles. *)
(*                                                                         *)
(* Every call of the controller may fail, as the set Faults allows: refused*)
(* without effect, or carried out with the answer lost.  A fault of the    *)
(* kind "kill" ends the controller between two calls, with no rollback.    *)
(* MaxFaults bounds the faults of one behaviour, MaxDeploys the deploys    *)
(* and MaxPending the requests one slot holds.                             *)
(***************************************************************************)
EXTENDS Integers

CONSTANTS Faults, MaxFaults, MaxDeploys, MaxPending

FaultKinds == {
    "state",     \* a slot's /healthz is not answered in time
    "admin",     \* an /admin request fails and changes nothing
    "lost",      \* an /admin request is carried out, its answer is lost
    "launchd",   \* launchctl fails, or the slot outlives the stop timeout
    "load",      \* Caddy refuses the new configuration
    "lostload",  \* Caddy takes the configuration, its answer is lost
    "disk",      \* a write of the Caddyfile or the marker fails
    "public",    \* the public /healthz is not answered in time
    "crash",     \* a slot process dies; launchd restarts it
    "caddy",     \* Caddy restarts from the saved Caddyfile
    "kill" }     \* the deploy command is killed

ASSUME FaultsAssumption == Faults \subseteq FaultKinds
ASSUME BoundsAssumption == /\ MaxFaults \in Nat
                           /\ MaxDeploys \in Nat
                           /\ MaxPending \in Nat

VARIABLES
    mode,       \* lifecycle mode of each slot's process, "down" when none runs
    load,       \* what launchd holds for the slot: "no", "yes", "unloading"
    pending,    \* requests in flight in each slot
    alone,      \* lifecycle.alone of each slot's process
    caddy,      \* the slot the running Caddy routes to
    caddyfile,  \* the slot the Caddyfile on disk names
    marker,     \* the slot the active-slot file on disk names
    pc,         \* the controller's next call, "idle" between deploys
    old,        \* deploy's local: the slot Caddy routed to when it began
    call,       \* which call of retire is running: "resume" or "clean"
    flags,      \* deploy's locals started, quiesced, flipped, committed
    seen,       \* slots still run by the process whose PID deploy recorded
    expired,    \* the drain timeout of the last waitDrain passed
    result,     \* how the last deploy ended
    deploys, faults,
    struck      \* the kinds of the faults so far

slotVars  == <<mode, load, pending, alone>>
frontVars == <<caddy, caddyfile, marker>>
ctlVars   == <<pc, old, call, flags, seen, expired, result>>
faultVars == <<faults, struck>>
vars == <<slotVars, frontVars, ctlVars, deploys, faultVars>>

Slot == {"blue", "green"}
Other(s) == IF s = "blue" THEN "green" ELSE "blue"
New == Other(old)

Mode == {"down", "standby", "active", "quiesced", "draining"}
Accepting == {"active", "quiesced"}   \* the modes whose guard admits requests
Flag == {"started", "quiesced", "flipped", "committed"}

RollbackLabel == {"rbLoad", "rbFile", "rbMarker", "rbActivate", "rbStop", "rbStopping"}
Label == RollbackLabel \cup
         {"idle", "inspect", "reactivate", "reinspect",
          "retire", "retireDrain", "retireWait", "retireStop", "retireStopping",
          "retireBlind", "retireBlinding", "compare", "compactOld",
          "start", "waitStandby", "snapshot", "quiesce", "activate",
          "checkNew", "checkOld", "load", "flipFile", "flipMarker", "ready",
          "saveFile", "saveMarker", "drainOld", "waitOld", "stop", "stopping",
          "compactNew"}

TypeOK ==
    /\ mode \in [Slot -> Mode]
    /\ load \in [Slot -> {"no", "yes", "unloading"}]
    /\ pending \in [Slot -> Nat]
    /\ alone \in [Slot -> BOOLEAN]
    /\ caddy \in Slot /\ caddyfile \in Slot /\ marker \in Slot
    /\ pc \in Label /\ old \in Slot
    /\ call \in {"resume", "clean"}
    /\ flags \subseteq Flag
    /\ seen \subseteq Slot
    /\ expired \in BOOLEAN
    /\ result \in {"none", "ok", "failed", "killed"}
    /\ deploys \in Nat /\ faults \in Nat
    /\ struck \subseteq Faults

(* After a cutover: Caddy serves blue, which was told to compact.          *)
Init ==
    /\ mode = [s \in Slot |-> IF s = "blue" THEN "active" ELSE "down"]
    /\ load = [s \in Slot |-> IF s = "blue" THEN "yes" ELSE "no"]
    /\ pending = [s \in Slot |-> 0]
    /\ alone = [s \in Slot |-> s = "blue"]
    /\ caddy = "blue" /\ caddyfile = "blue" /\ marker = "blue"
    /\ pc = "idle" /\ old = "blue" /\ call = "clean"
    /\ flags = {} /\ seen = {} /\ expired = FALSE /\ result = "none"
    /\ deploys = 0 /\ faults = 0 /\ struck = {}

-----------------------------------------------------------------------------
(* The slot process: what its /admin handlers do.                          *)

Strike(kind) == /\ kind \in Faults /\ faults < MaxFaults
                /\ faults' = faults + 1 /\ struck' = struck \cup {kind}
NoFault == UNCHANGED faultVars

\* A stopping router closes its listener at once, its requests go on.
Listens(s) == mode[s] # "down" /\ load[s] = "yes"

\* runtimeAdmin.ServeHTTP: the modes in which a request is carried out.
Serves(s, request) ==
    /\ Listens(s)
    /\ mode[s] \in CASE request = "quiesce"  -> Accepting
                     [] request = "activate" -> {"standby"} \cup Accepting
                     [] request = "drain"    -> Mode
                     [] request \in {"snapshot", "compact"} -> {"active"}

Target(request, now) == CASE request = "quiesce"  -> "quiesced"
                          [] request = "activate" -> "active"
                          [] request = "drain"    -> "draining"
                          [] OTHER                -> now

\* Mutant of Carry: quiescing keeps the permission to compact.
CarryKeepsAlone(s, request) ==
    /\ mode' = [mode EXCEPT ![s] = Target(request, @)]
    /\ alone' = [alone EXCEPT ![s] = CASE request = "compact" -> TRUE
                                       [] request = "drain" -> FALSE
                                       [] OTHER -> @]
    /\ UNCHANGED <<load, pending>>

\* Compacting marks the slot alone; leaving active mode forgets it.
Carry(s, request) ==
    /\ mode' = [mode EXCEPT ![s] = Target(request, @)]
    /\ alone' = [alone EXCEPT ![s] = CASE request = "compact" -> TRUE
                                       [] request \in {"quiesce", "drain"} -> FALSE
                                       [] OTHER -> @]
    /\ UNCHANGED <<load, pending>>

-----------------------------------------------------------------------------
(* The controller's control flow.                                          *)

Goto(l) == pc' = l /\ UNCHANGED <<old, call, flags, seen, expired, result>>

Mark(l, f) == /\ pc' = l /\ flags' = flags \cup f
              /\ UNCHANGED <<old, call, seen, expired, result>>

End(how) == /\ pc' = "idle" /\ result' = how
            /\ flags' = {} /\ seen' = {} /\ expired' = FALSE /\ call' = "clean"
            /\ UNCHANGED old

\* Mutant of Undo: the rollback never flips Caddy back.
UndoWithoutFlip == IF "quiesced" \in flags THEN "rbActivate" ELSE "rbStop"

\* The first step of the deferred rollback.
Undo == IF "flipped" \in flags THEN "rbLoad"
        ELSE IF "quiesced" \in flags THEN "rbActivate"
        ELSE "rbStop"

\* Mutant of Fail: a committed deploy rolls back too.
FailAfterCommit ==
    IF pc = "rbActivate" THEN Goto("rbStop")
    ELSE IF pc \in RollbackLabel \/ "started" \notin flags THEN End("failed")
    ELSE Goto(Undo)

\* An error: the deferred rollback, unless nothing started or the deploy
\* committed.  Within the rollback a failed flip ends it, a failed activation
\* does not keep it from stopping the new slot.
Fail ==
    IF pc = "rbActivate" THEN Goto("rbStop")
    ELSE IF \/ pc \in RollbackLabel
            \/ "started" \notin flags
            \/ "committed" \in flags THEN End("failed")
    ELSE Goto(Undo)

\* One /admin request: carried out; refused by the slot or lost on the way
\* there; carried out and its answer lost.
Admin(s, request, next, f) ==
    /\ \/ Serves(s, request) /\ Carry(s, request) /\ NoFault /\ Mark(next, f)
       \/ ~Serves(s, request) /\ UNCHANGED slotVars /\ NoFault /\ Fail
       \/ Strike("admin") /\ UNCHANGED slotVars /\ Fail
       \/ Serves(s, request) /\ Carry(s, request) /\ Strike("lost") /\ Fail
    /\ UNCHANGED <<frontVars, deploys>>

\* A deploy begins and asks Caddy which slot it routes to.
Begin ==
    /\ pc = "idle" /\ deploys < MaxDeploys
    /\ deploys' = deploys + 1
    /\ old' = caddy /\ pc' = "inspect" /\ result' = "none"
    /\ UNCHANGED <<slotVars, frontVars, call, flags, seen, expired, faultVars>>

\* Mutant of Inspect: a quiesced slot is an error.
InspectOnlyActive ==
    /\ pc = "inspect"
    /\ \/ /\ Listens(old) /\ mode[old] = "active" /\ NoFault
          /\ pc' = "retire" /\ seen' = {old} /\ call' = "clean"
          /\ UNCHANGED <<old, flags, expired, result>>
       \/ mode[old] # "active" /\ NoFault /\ End("failed")
       \/ Strike("state") /\ End("failed")
    /\ UNCHANGED <<slotVars, frontVars, deploys>>

\* The state of the serving slot: quiesced is what an interrupted deploy left.
Inspect ==
    /\ pc = "inspect"
    /\ \/ /\ Listens(old) /\ mode[old] \in Accepting /\ NoFault
          /\ pc' = "retire" /\ seen' = {old}
          /\ call' = IF mode[old] = "quiesced" THEN "resume" ELSE "clean"
          /\ UNCHANGED <<old, flags, expired, result>>
       \/ ~(Listens(old) /\ mode[old] \in Accepting) /\ NoFault /\ End("failed")
       \/ Strike("state") /\ End("failed")
    /\ UNCHANGED <<slotVars, frontVars, deploys>>

Reactivate == pc = "reactivate" /\ Admin(old, "activate", "reinspect", {})

Reinspect ==
    /\ pc = "reinspect"
    /\ \/ /\ mode[old] = "active" /\ NoFault
          /\ pc' = "retire" /\ seen' = {old} /\ call' = "clean"
          /\ UNCHANGED <<old, flags, expired, result>>
       \/ mode[old] # "active" /\ NoFault /\ End("failed")
       \/ Strike("state") /\ End("failed")
    /\ UNCHANGED <<slotVars, frontVars, deploys>>

AfterRetire == IF call = "resume" THEN "reactivate" ELSE "compare"

\* retire: a slot that does not answer is unloaded, whatever unloading says.
Retire ==
    /\ pc = "retire"
    /\ \/ ~Listens(New) /\ NoFault /\ Goto("retireBlind")
       \/ Strike("state") /\ Goto("retireBlind")
       \/ Listens(New) /\ mode[New] \in Accepting /\ NoFault /\ Goto("retireDrain")
       \/ Listens(New) /\ mode[New] \notin Accepting /\ NoFault /\ Goto("retireWait")
    /\ UNCHANGED <<slotVars, frontVars, deploys>>

RetireDrain == pc = "retireDrain" /\ Admin(New, "drain", "retireWait", {})

\* Mutant of Drained: a draining slot counts as drained at once.
DrainedOnceDraining(s) == ~Listens(s) \/ mode[s] \in {"standby", "draining"}

Drained(s) == \/ ~Listens(s)
              \/ mode[s] = "standby"
              \/ mode[s] = "draining" /\ pending[s] = 0

\* waitDrain: until nothing is in flight or the drain timeout passes.
WaitDrain(s, next) ==
    /\ \/ /\ NoFault
          /\ pc' = next /\ expired' = ~Drained(s)
          /\ UNCHANGED <<old, call, flags, seen, result>>
       \/ Strike("state") /\ Fail
    /\ UNCHANGED <<slotVars, frontVars, deploys>>

RetireWait == pc = "retireWait" /\ WaitDrain(New, "retireStop")
WaitOld == pc = "waitOld" /\ WaitDrain(old, "stop")

\* Unloading sends SIGTERM, on which the slot drains, then waits until launchd
\* no longer has the label.
Unload(s) ==
    /\ load' = [load EXCEPT ![s] = IF mode[s] = "down" THEN "no" ELSE "unloading"]
    /\ mode' = [mode EXCEPT ![s] = IF @ = "down" THEN @ ELSE "draining"]
    /\ alone' = [alone EXCEPT ![s] = FALSE]
    /\ UNCHANGED pending

StopCall(at, s, next, failed) ==
    /\ pc = at
    /\ \/ Unload(s) /\ NoFault /\ Goto(next)
       \/ Strike("launchd") /\ UNCHANGED slotVars /\ failed
    /\ UNCHANGED <<frontVars, deploys>>

StopWait(at, s, done, failed) ==
    /\ pc = at
    /\ \/ load[s] = "no" /\ NoFault /\ done
       \/ load[s] # "no" /\ Strike("launchd") /\ failed
    /\ UNCHANGED <<slotVars, frontVars, deploys>>

RetireStop == \/ StopCall("retireStop", New, "retireStopping", Fail)
              \/ StopWait("retireStopping", New, Goto(AfterRetire), Fail)
RetireBlind == \/ StopCall("retireBlind", New, "retireBlinding", Goto(AfterRetire))
               \/ StopWait("retireBlinding", New, Goto(AfterRetire), Goto(AfterRetire))
StopOld == \/ StopCall("stop", old, "stopping", Fail)
           \/ StopWait("stopping", old, Goto("compactNew"), Fail)

\* The same binary without -force only compacts and saves; both outcomes of
\* the comparison are allowed.
Compare ==
    /\ pc = "compare"
    /\ Goto("compactOld") \/ Goto("start")
    /\ UNCHANGED <<slotVars, frontVars, deploys, faultVars>>

CompactOld == pc = "compactOld" /\ Admin(old, "compact", "saveFile", {})

Start ==
    /\ pc = "start"
    /\ \/ /\ load[New] = "no" /\ NoFault
          /\ load' = [load EXCEPT ![New] = "yes"]
          /\ Mark("waitStandby", {"started"})
       \/ load[New] # "no" /\ NoFault /\ UNCHANGED load /\ Fail
       \/ Strike("launchd") /\ UNCHANGED load /\ Fail
    /\ UNCHANGED <<mode, pending, alone, frontVars, deploys>>

\* A slot that comes up in another mode than standby times out too.
WaitStandby ==
    /\ pc = "waitStandby"
    /\ \/ /\ mode[New] = "standby" /\ NoFault
          /\ pc' = "snapshot" /\ seen' = seen \cup {New}
          /\ UNCHANGED <<old, call, flags, expired, result>>
       \/ mode[New] \notin {"standby", "down"} /\ NoFault /\ Fail
       \/ Strike("state") /\ Fail
    /\ UNCHANGED <<slotVars, frontVars, deploys>>

Snapshot == pc = "snapshot" /\ Admin(old, "snapshot", "quiesce", {})
Quiesce == pc = "quiesce" /\ Admin(old, "quiesce", "activate", {"quiesced"})
Activate == pc = "activate" /\ Admin(New, "activate", "checkNew", {})

\* The state of a slot must show the expected mode and the recorded PID.
Check(at, s, m, next) ==
    /\ pc = at
    /\ \/ mode[s] = m /\ s \in seen /\ NoFault /\ Goto(next)
       \/ ~(mode[s] = m /\ s \in seen) /\ NoFault /\ Fail
       \/ Strike("state") /\ Fail
    /\ UNCHANGED <<slotVars, frontVars, deploys>>

CheckNew == Check("checkNew", New, "active", "checkOld")
CheckOld == Check("checkOld", old, "quiesced", "load")

\* flip: Caddy takes the configuration, then the Caddyfile and the marker are
\* written; deploy learns that it flipped only when all three are done.
LoadCaddy(s, next) ==
    /\ \/ caddy' = s /\ NoFault /\ Goto(next)
       \/ Strike("load") /\ UNCHANGED caddy /\ Fail
       \/ caddy' = s /\ Strike("lostload") /\ Fail
    /\ UNCHANGED <<slotVars, caddyfile, marker, deploys>>

WriteFile(s, next) ==
    /\ \/ caddyfile' = s /\ NoFault /\ Goto(next)
       \/ Strike("disk") /\ UNCHANGED caddyfile /\ Fail
    /\ UNCHANGED <<slotVars, caddy, marker, deploys>>

WriteMarker(s, done) ==
    /\ \/ marker' = s /\ NoFault /\ done
       \/ Strike("disk") /\ UNCHANGED marker /\ Fail
    /\ UNCHANGED <<slotVars, caddy, caddyfile, deploys>>

\* Mutant of Flip: the disk learns of the switch only at the final save.
FlipWithoutSave == \/ (pc = "load" /\ LoadCaddy(New, "flipMarker"))
                   \/ (pc = "flipMarker" /\ Mark("ready", {"flipped"})
                       /\ UNCHANGED <<slotVars, frontVars, deploys, faultVars>>)

Flip == \/ pc = "load" /\ LoadCaddy(New, "flipFile")
        \/ pc = "flipFile" /\ WriteFile(New, "flipMarker")
        \/ pc = "flipMarker" /\ WriteMarker(New, Mark("ready", {"flipped"}))

\* The public address must answer from the new slot's process, active.
Ready ==
    /\ pc = "ready"
    /\ LET reached == caddy = New /\ mode[New] = "active" /\ New \in seen
       IN \/ reached /\ NoFault /\ Mark("saveFile", {"committed"})
          \/ ~reached /\ NoFault /\ Fail
          \/ Strike("public") /\ Fail
    /\ UNCHANGED <<slotVars, frontVars, deploys>>

\* save: the new slot once committed, else the slot that already ran the binary.
Save ==
    LET s == IF "committed" \in flags THEN New ELSE old
    IN \/ pc = "saveFile" /\ WriteFile(s, "saveMarker")
       \/ pc = "saveMarker" /\ WriteMarker(s, IF s = New THEN Goto("drainOld") ELSE End("ok"))

DrainOld == pc = "drainOld" /\ Admin(old, "drain", "waitOld", {})

CompactNew ==
    /\ pc = "compactNew"
    /\ \/ /\ Serves(New, "compact") /\ Carry(New, "compact")
          /\ NoFault /\ End("ok")
       \/ ~Serves(New, "compact") /\ UNCHANGED slotVars /\ NoFault /\ End("failed")
       \/ Strike("admin") /\ UNCHANGED slotVars /\ End("failed")
       \/ Serves(New, "compact") /\ Carry(New, "compact") /\ Strike("lost") /\ End("failed")
    /\ UNCHANGED <<frontVars, deploys>>

Rollback ==
    \/ pc = "rbLoad" /\ LoadCaddy(old, "rbFile")
    \/ pc = "rbFile" /\ WriteFile(old, "rbMarker")
    \/ pc = "rbMarker" /\ WriteMarker(old, Goto("rbActivate"))
    \/ pc = "rbActivate" /\ Admin(old, "activate", "rbStop", {})
    \/ StopCall("rbStop", New, "rbStopping", Fail)
    \/ StopWait("rbStopping", New, End("failed"), Fail)

Controller ==
    \/ Inspect \/ Reactivate \/ Reinspect \/ Retire \/ RetireDrain \/ RetireWait
    \/ RetireStop \/ RetireBlind \/ Compare \/ CompactOld \/ Start \/ WaitStandby
    \/ Snapshot \/ Quiesce \/ Activate \/ CheckNew \/ CheckOld \/ Flip \/ Ready
    \/ Save \/ DrainOld \/ WaitOld \/ StopOld \/ CompactNew \/ Rollback

-----------------------------------------------------------------------------
(* Clients, launchd, Caddy and the failures from outside.                  *)

Request(s) ==
    /\ caddy = s /\ mode[s] \in Accepting /\ pending[s] < MaxPending
    /\ pending' = [pending EXCEPT ![s] = @ + 1]
    /\ UNCHANGED <<mode, load, alone, frontVars, ctlVars, deploys, faultVars>>

Answer(s) ==
    /\ pending[s] > 0
    /\ pending' = [pending EXCEPT ![s] = @ - 1]
    /\ UNCHANGED <<mode, load, alone, frontVars, ctlVars, deploys, faultVars>>

\* Mutant of Boot: every slot launchd starts waits in standby.
BootStandby(s) ==
    /\ load[s] = "yes" /\ mode[s] = "down"
    /\ mode' = [mode EXCEPT ![s] = "standby"]
    /\ seen' = seen \ {s}
    /\ UNCHANGED <<load, pending, alone, frontVars, pc, old, call, flags, expired,
                   result, deploys, faultVars>>

\* A loaded slot starts active only if the marker names it.
Boot(s) ==
    /\ load[s] = "yes" /\ mode[s] = "down"
    /\ mode' = [mode EXCEPT ![s] = IF marker = s THEN "active" ELSE "standby"]
    /\ seen' = seen \ {s}
    /\ UNCHANGED <<load, pending, alone, frontVars, pc, old, call, flags, expired,
                   result, deploys, faultVars>>

\* The process goes and its requests with it.
Gone(s) == /\ mode' = [mode EXCEPT ![s] = "down"]
           /\ pending' = [pending EXCEPT ![s] = 0]
           /\ alone' = [alone EXCEPT ![s] = FALSE]

\* An unloading slot exits when its requests end; launchd kills it after 60 s.
Exit(s) ==
    /\ load[s] = "unloading" /\ mode[s] # "down"
    /\ Gone(s)
    /\ load' = [load EXCEPT ![s] = "no"]
    /\ UNCHANGED <<frontVars, ctlVars, deploys, faultVars>>

Crash(s) ==
    /\ mode[s] # "down" /\ load[s] = "yes" /\ Strike("crash")
    /\ Gone(s)
    /\ UNCHANGED <<load, frontVars, ctlVars, deploys>>

CaddyRestart ==
    /\ Strike("caddy")
    /\ caddy' = caddyfile
    /\ UNCHANGED <<slotVars, caddyfile, marker, ctlVars, deploys>>

Kill ==
    /\ pc # "idle" /\ Strike("kill") /\ End("killed")
    /\ UNCHANGED <<slotVars, frontVars, deploys>>

Environment ==
    \/ \E s \in Slot : Request(s) \/ Answer(s) \/ Boot(s) \/ Exit(s) \/ Crash(s)
    \/ CaddyRestart \/ Kill

Next == Begin \/ Controller \/ Environment

\* The controller always takes its next step (every wait of it has a timeout),
\* launchd starts what is loaded and ends what it unloads.  Neither a deploy,
\* a request, the end of a request nor a fault has to happen.
Fairness == /\ WF_vars(Controller)
            /\ \A s \in Slot : WF_vars(Boot(s)) /\ WF_vars(Exit(s))

Spec == Init /\ [][Next]_vars /\ Fairness
-----------------------------------------------------------------------------
(* Properties.                                                             *)

(* Which faults a property withstands: it names the kinds it excludes and  *)
(* is checked against all the others, alone and in combination.            *)
Spared(kinds) == struck \cap kinds = {}

(* A slot that may compact the history is the only router that appends to  *)
(* it: compaction rewrites the file, and a line another process appends     *)
(* meanwhile would be lost (lifecycle.compactsHistory, internal/history).   *)
(* It withstands neither a stop launchd fails to carry out nor a Caddy that *)
(* comes back with the Caddyfile of before a switch whose save was cut off. *)
Appends(s) == pending[s] > 0 \/ (caddy = s /\ mode[s] \in Accepting)
CompactsAlone ==
    Spared({"launchd", "caddy"}) =>
        \A s \in Slot : mode[s] = "active" /\ alone[s] => ~Appends(Other(s))

(* While a deploy runs, fails, rolls back or is killed, the slot Caddy      *)
(* routes to admits requests (docs: a deploy drops no request).             *)
Serving == mode[caddy] \in Accepting
UpstreamServes == Spared({"lostload", "disk", "crash", "caddy"}) => Serving

(* Beyond the commit point nothing leads back to the old slot: Caddy, the   *)
(* Caddyfile a restarted Caddy reads and the marker a restarted slot reads  *)
(* all name the new one before the old one drains and exits.                *)
CommittedEverywhere ==
    "committed" \in flags => caddy = New /\ caddyfile = New /\ marker = New

(* A stop the controller reaches through waitDrain finds no request in      *)
(* flight, unless the drain timeout passed (README: a serving request stays *)
(* on its slot until it ends or -drain-timeout passes).                     *)
DrainedBeforeStop ==
    [][\A s \in Slot : /\ pc \in {"retireStop", "stop"} /\ Spared({"caddy"})
                       /\ load[s] = "yes" /\ load'[s] # "yes"
                       => pending[s] = 0 \/ expired]_vars

(* Whatever processes crash and whatever calls fail, Caddy ends up routing  *)
(* to a slot that admits requests, unless the switch itself was torn        *)
(* (lifecycle.go: "launchd restarting the serving slot brings it back       *)
(* active").                                                                *)
UpstreamRecovers == <>[](struck \subseteq {"crash", "launchd", "state", "public"} => Serving)

(* A deploy that meets no failure, begun when an earlier one was interrupted*)
(* before the switch, succeeds (README: "A deploy interrupted before the    *)
(* switch is resumed by the next one").                                     *)
Resumes ==
    (/\ pc = "inspect" /\ faults = MaxFaults /\ Spared({"crash", "caddy"})
     /\ caddyfile = caddy /\ marker = caddy)
        ~> (pc = "idle" /\ result = "ok")

(* What all this implements: a hand-over with one commit (module Handover). *)
(* Whatever fails wherever, until the commit the old slot stays loaded and  *)
(* from then on the new one does, Caddy is only ever given a loaded slot or *)
(* what the Caddyfile says, and nothing leads back from a commit.           *)
Phase == IF pc = "idle" THEN "settled"
         ELSE IF "committed" \in flags THEN "switched" ELSE "switching"
Kept == {s \in Slot : load[s] = "yes"}
Recorded == {caddyfile, marker}
H == INSTANCE Handover WITH phase <- Phase, from <- old, kept <- Kept, route <- caddy,
                            recorded <- Recorded
HandsOver == H!Spec
=============================================================================
