----------------------------- MODULE SlotState -----------------------------
(***************************************************************************)
(* What a slot has learnt and where it keeps it: the statistics of the     *)
(* models and the session bindings (health.go, affinity.go), the file      *)
(* models.json every request goroutine saves the statistics to, the        *)
(* snapshot state.json a deploy carries them over in, and the file         *)
(* state.<slot>.json a stopping process leaves for its successor           *)
(* (state.go, runtime.go, server.go).                                      *)
(*                                                                         *)
(* A picture is the set of outcomes and bindings it holds.  Savers are the *)
(* goroutines that save models.json; they share one temporary file.        *)
(* MaxEvents bounds deploys, failures, stops and crashes.                  *)
(***************************************************************************)
EXTENDS FiniteSets, Integers

CONSTANTS Slot, Outcome, Binding, Saver, MaxEvents, NoFile

VARIABLES
    role,      \* lifecycle mode, "down" without a process
    known,     \* health.m and health.sessions of each process
    saver,     \* each goroutine in health.save
    models,    \* models.json
    tmp,       \* models.json.tmp
    snapshot,  \* state.json
    slotFile,  \* state.<slot>.json of each slot
    serving,   \* the slot the active-slot marker names
    step,      \* the deploy's next call
    left,      \* the slots that have left their file and only have to exit
    events,
    due,       \* ghost: what the serving slot may not lose
    recorded,  \* ghost: every outcome and binding so far
    overlapped \* ghost: two saves were under way at once

vars == <<role, known, saver, models, tmp, snapshot, slotFile, serving, step, left,
          events, due, recorded, overlapped>>
fileVars == <<models, tmp, snapshot, slotFile>>
ghostVars == <<due, recorded, overlapped>>

Item == Outcome \cup Binding
Picture == SUBSET Item
Step == {"idle", "snapshot", "quiesce", "activate", "commit", "retire"}

\* models.json keeps no bindings.  A file is whole, emptied, or a mixture of
\* two writes.
Content == [whole : BOOLEAN, empty : BOOLEAN, holds : SUBSET Outcome]
Whole(p) == [whole |-> TRUE, empty |-> FALSE, holds |-> p]
Torn  == [whole |-> FALSE, empty |-> FALSE, holds |-> {}]
Empty == [whole |-> FALSE, empty |-> TRUE, holds |-> {}]

\* Where a saver's open file is by now: models.json.tmp, renamed, or replaced.
Idle == [at |-> "idle", slot |-> CHOOSE s \in Slot : TRUE, data |-> {}, file |-> "none"]

Other(s) == CHOOSE t \in Slot : t # s
New == Other(serving)

\* Earlier deploys and stops may have left their files.
Init ==
    /\ serving = CHOOSE s \in Slot : TRUE
    /\ role = [s \in Slot |-> IF s = serving THEN "active" ELSE "down"]
    /\ known = [s \in Slot |-> {}]
    /\ saver = [w \in Saver |-> Idle]
    /\ models = NoFile /\ tmp = NoFile
    /\ snapshot \in {NoFile, {}} /\ slotFile \in [Slot -> {NoFile, {}}]
    /\ step = "idle" /\ left = {} /\ events = 0
    /\ due = {} /\ recorded = {} /\ overlapped = FALSE

Happen == events < MaxEvents /\ events' = events + 1

-----------------------------------------------------------------------------
(* A request binds its session and records its outcome.                    *)

Works(s) == role[s] \in {"active", "quiesced", "draining"}

\* Only what the serving slot records outside a switch is due: after its
\* snapshot, after its last file and in a slot that does not serve yet, what
\* is recorded stays behind.
Due(s, i) == IF s = serving /\ step \in {"idle", "snapshot"} /\ s \notin left
             THEN due \cup {i} ELSE due

Learn(s, i) ==
    /\ Works(s) /\ i \notin recorded
    /\ known' = [known EXCEPT ![s] = @ \cup {i}]
    /\ recorded' = recorded \cup {i} /\ due' = Due(s, i)
    /\ UNCHANGED <<role, fileVars, serving, step, left, events>>

Bind(s, b) == Learn(s, b) /\ UNCHANGED <<saver, overlapped>>

\* note, noteFailover: under the mutex, then save in the same goroutine.
Note(s, o, w) ==
    /\ saver[w] = Idle /\ Learn(s, o)
    /\ saver' = [saver EXCEPT ![w] = [Idle EXCEPT !.at = "copy", !.slot = s]]
    /\ overlapped' = (overlapped \/ \E v \in Saver : saver[v] # Idle)

\* reset from the page and clearSessions on a change of the profile.
Forget(s, items) ==
    /\ Works(s) /\ s = serving /\ Happen
    /\ known' = [known EXCEPT ![s] = @ \ items] /\ due' = due \ items
    /\ UNCHANGED <<role, fileVars, serving, step, left, recorded>>

Reset(s, w) ==
    /\ saver[w] = Idle /\ Forget(s, Outcome)
    /\ saver' = [saver EXCEPT ![w] = [Idle EXCEPT !.at = "copy", !.slot = s]]
    /\ overlapped' = (overlapped \/ \E v \in Saver : saver[v] # Idle)

ClearSessions(s) == Forget(s, Binding) /\ UNCHANGED <<saver, overlapped>>

-----------------------------------------------------------------------------
(* health.save: check the role, copy under the mutex, truncate and write   *)
(* the temporary file, rename it.                                          *)

Copy(w) ==
    /\ saver[w].at = "copy"
    /\ LET s == saver[w].slot
       IN saver' = [saver EXCEPT ![w] =
              IF role[s] = "active"
              THEN [@ EXCEPT !.at = "open", !.data = known[s] \cap Outcome] ELSE Idle]
    /\ UNCHANGED <<role, known, fileVars, serving, step, left, events, ghostVars>>

Open(w) ==
    /\ saver[w].at = "open"
    /\ tmp' = Empty
    /\ saver' = [saver EXCEPT ![w] = [@ EXCEPT !.at = "write", !.file = "tmp"]]
    /\ UNCHANGED <<role, known, models, snapshot, slotFile, serving, step, left, events, ghostVars>>

\* A write starts at the beginning of the file and leaves what is longer.
Over(content, data) == IF content = Empty THEN {Whole(data)} ELSE {Whole(data), Torn}

Write(w) ==
    /\ saver[w].at = "write"
    /\ IF saver[w].file = "tmp" THEN tmp' \in Over(tmp, saver[w].data) ELSE UNCHANGED tmp
    /\ IF saver[w].file = "models" THEN models' \in Over(models, saver[w].data)
       ELSE UNCHANGED models
    /\ saver' = [saver EXCEPT ![w].at = "rename"]
    /\ UNCHANGED <<role, known, snapshot, slotFile, serving, step, left, events, ghostVars>>

\* Mutant of Rename: the data is written to models.json itself.
RenameInPlace(w) ==
    /\ saver[w].at = "rename"
    /\ models' \in {Torn, Whole(saver[w].data)} /\ tmp' = NoFile
    /\ saver' = [saver EXCEPT ![w] = Idle]
    /\ UNCHANGED <<role, known, snapshot, slotFile, serving, step, left, events, ghostVars>>

\* What other savers have open goes with the file.
Renamed(file) == CASE file = "tmp" -> "models" [] file = "models" -> "gone" [] OTHER -> file

Rename(w) ==
    /\ saver[w].at = "rename"
    /\ IF tmp = NoFile
       THEN /\ UNCHANGED <<models, tmp>>
            /\ saver' = [saver EXCEPT ![w] = Idle]
       ELSE /\ models' = tmp /\ tmp' = NoFile
            /\ saver' = [v \in Saver |-> IF v = w THEN Idle
                                         ELSE [saver[v] EXCEPT !.file = Renamed(@)]]
    /\ UNCHANGED <<role, known, snapshot, slotFile, serving, step, left, events, ghostVars>>

\* The write or the rename is refused, which is only logged.
Broken(file, w) == IF saver[w].at = "write" /\ saver[w].file = file THEN {Torn} ELSE {}

SaveFails(w) ==
    /\ saver[w].at \in {"open", "write", "rename"} /\ Happen
    /\ tmp' \in {tmp} \cup Broken("tmp", w) /\ models' \in {models} \cup Broken("models", w)
    /\ saver' = [saver EXCEPT ![w] = Idle]
    /\ UNCHANGED <<role, known, snapshot, slotFile, serving, step, left, ghostVars>>

-----------------------------------------------------------------------------
(* A process: start, stop, crash.                                          *)

\* What the serving slot knew is lost; the property excuses it.
Lost(s) == due' = IF s = serving THEN {} ELSE due

Loaded == IF models # NoFile /\ models.whole THEN models.holds ELSE {}

\* launchd runs the serving slot, and the other one while a deploy goes on.
\* Files that cannot be read are logged and count as none.
Start(s) ==
    /\ role[s] = "down" /\ (s = serving \/ step # "idle")
    /\ role' = [role EXCEPT ![s] = IF s = serving THEN "active" ELSE "standby"]
    /\ \/ /\ known' = [known EXCEPT ![s] = IF s = serving /\ slotFile[s] # NoFile
                                           THEN slotFile[s] ELSE Loaded]
          /\ UNCHANGED <<events, due>>
       \/ /\ Happen /\ Lost(s)
          /\ \E read \in {Loaded, {}} : known' = [known EXCEPT ![s] = read]
    /\ UNCHANGED <<saver, fileVars, serving, step, left, recorded, overlapped>>

Stop(s) ==
    /\ role' = [role EXCEPT ![s] = "draining"]
    /\ UNCHANGED <<known, saver, fileVars, serving, left>>

\* A SIGTERM from outside, a service restart.
Terminate(s) == /\ role[s] \notin {"down", "draining"} /\ Happen
                /\ Stop(s) /\ UNCHANGED <<step, ghostVars>>

\* shutdown: both servers have ended their requests.  A file that cannot be
\* written is only printed, and the old one stays.
LeaveFile(s) ==
    /\ role[s] = "draining" /\ s \notin left
    /\ \/ slotFile' = [slotFile EXCEPT ![s] = known[s]] /\ UNCHANGED <<events, due>>
       \/ Happen /\ Lost(s) /\ UNCHANGED slotFile
    /\ left' = left \cup {s}
    /\ UNCHANGED <<role, known, saver, models, tmp, snapshot, serving, step, recorded, overlapped>>

Gone(s) ==
    /\ role' = [role EXCEPT ![s] = "down"]
    /\ known' = [known EXCEPT ![s] = {}]
    /\ saver' = [w \in Saver |-> IF saver[w].slot = s THEN Idle ELSE saver[w]]
    /\ left' = left \ {s}
    /\ UNCHANGED <<fileVars, serving, step, recorded, overlapped>>

\* A request is still under way when the drain timeout passes: Shutdown of a
\* server meets it, and the process ends without leaving its file.
TimesOut(s) == role[s] = "draining" /\ s \notin left /\ Happen /\ Gone(s) /\ Lost(s)

Exit(s) == s \in left /\ Gone(s) /\ UNCHANGED <<events, due>>

Crash(s) == role[s] # "down" /\ Happen /\ Gone(s) /\ Lost(s)

-----------------------------------------------------------------------------
(* The deploy: start the other slot, snapshot, quiesce, activate, commit,  *)
(* stop the old slot; a failure gives the old slot its role back.          *)

Advance(to) == step' = to /\ UNCHANGED <<saver, left, recorded, overlapped>>

Deploy ==
    /\ step = "idle" /\ role[serving] = "active" /\ role[New] = "down" /\ Happen
    /\ Advance("snapshot")
    /\ UNCHANGED <<role, known, fileVars, serving, due>>

Snapshot ==
    /\ step = "snapshot" /\ role[New] = "standby" /\ role[serving] = "active"
    /\ snapshot' = known[serving]
    /\ Advance("quiesce")
    /\ UNCHANGED <<role, known, models, tmp, slotFile, serving, events, due>>

Quiesce ==
    /\ step = "quiesce" /\ role[serving] = "active"
    /\ role' = [role EXCEPT ![serving] = "quiesced"]
    /\ Advance("activate")
    /\ UNCHANGED <<known, fileVars, serving, events, due>>

\* Mutant of Activate: a slot in standby keeps what it read at its start.
ActivateUnloaded ==
    /\ step = "activate" /\ role[New] = "standby"
    /\ role' = [role EXCEPT ![New] = "active"]
    /\ Advance("commit")
    /\ UNCHANGED <<known, fileVars, serving, events, due>>

\* A slot in standby takes the snapshot over.
Activate ==
    /\ step = "activate" /\ role[New] = "standby"
    /\ role' = [role EXCEPT ![New] = "active"]
    /\ known' = [known EXCEPT ![New] = IF snapshot = NoFile THEN @ ELSE snapshot]
    /\ Advance("commit")
    /\ UNCHANGED <<fileVars, serving, events, due>>

\* The flip; what follows is not undone.
Commit ==
    /\ step = "commit" /\ role[New] = "active" /\ role[serving] = "quiesced"
    /\ serving' = New
    /\ Advance("retire")
    /\ UNCHANGED <<role, known, fileVars, events, due>>

Retire ==
    /\ step = "retire"
    /\ IF role[New] = "down" THEN UNCHANGED <<role, known, saver, fileVars, serving, left>>
       ELSE Stop(New)
    /\ step' = "idle" /\ UNCHANGED <<events, ghostVars>>

\* The deferred rollback: the old slot first, then the new one is stopped.
Rollback ==
    /\ step \in {"snapshot", "quiesce", "activate", "commit"} /\ Happen
    /\ step' = "idle"
    /\ role' = [s \in Slot |-> IF role[s] \in {"down", "draining"} THEN role[s]
                               ELSE IF s = serving THEN "active" ELSE "draining"]
    /\ UNCHANGED <<known, saver, fileVars, serving, left, ghostVars>>

Next ==
    \/ \E s \in Slot : \/ \E b \in Binding : Bind(s, b)
                       \/ \E o \in Outcome, w \in Saver : Note(s, o, w)
                       \/ \E w \in Saver : Reset(s, w)
                       \/ ClearSessions(s)
                       \/ Start(s) \/ Terminate(s) \/ LeaveFile(s) \/ TimesOut(s) \/ Exit(s)
                       \/ Crash(s)
    \/ \E w \in Saver : Copy(w) \/ Open(w) \/ Write(w) \/ Rename(w) \/ SaveFails(w)
    \/ Deploy \/ Snapshot \/ Quiesce \/ Activate \/ Commit \/ Retire \/ Rollback

Spec == Init /\ [][Next]_vars

-----------------------------------------------------------------------------
(* Properties.                                                             *)

(* Deploys, rollbacks and restarts lose nothing: the slot that serves and  *)
(* is active knows every outcome and binding recorded outside a switch,    *)
(* whichever of the four files it had it from (runtime.go, state.go).      *)
(* Not counted is what a crash costs, and what three failures do that the  *)
(* code lets pass: a stop whose drain timeout ends with a request under    *)
(* way leaves no file, a file that cannot be written or read is only       *)
(* reported.  What is recorded after one of them is due again.             *)
KeptAcrossSwitches == role[serving] = "active" => due \subseteq known[serving]

(* models.json is written to a temporary file and renamed so that a start  *)
(* never finds half of it, in spite of crashes between the two; it takes   *)
(* two goroutines saving at once to break that.                            *)
ReadableUnlessOverlapped == models # NoFile /\ ~overlapped => models.whole

=============================================================================
