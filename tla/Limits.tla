------------------------------- MODULE Limits -------------------------------
(***************************************************************************)
(* The Anthropic limits both router slots observe on the answers they      *)
(* relay (internal/limits): each process keeps the newest answer with the  *)
(* rate-limit headers and the newest one without, and a goroutine of its   *)
(* own saves them into the one limits.json, merging with what the other    *)
(* process wrote.                                                          *)
(*                                                                         *)
(* A time is a reading of the wall clock, 0 the zero time; Go's monotonic  *)
(* clock, which some comparisons use, is left out.  The clock may be set   *)
(* back.  MaxTime bounds it, MaxObservations the answers, MaxEvents the    *)
(* changes of the slots' roles, the reads and saves that fail and the      *)
(* times the clock is set back.                                            *)
(***************************************************************************)
EXTENDS Integers

CONSTANTS Slot, MaxTime, ClockSkew, MaxObservations, MaxEvents

VARIABLES
    now,      \* the clock
    top,      \* the latest it ever was
    role,     \* the slot's lifecycle mode, "down" without a process
    memory,   \* Store.state of each process: the time of each kind of answer
    disk,     \* limits.json
    dirty,    \* the one place of Store.dirty
    saver,    \* the saver goroutine: between which calls of Save it is
    asOf,     \* Save's now
    draft,    \* Save's st, what it is about to write
    crossed,  \* ghost: the slots that save and saw the clock set back meanwhile
    unread,   \* ghost: the slots that save without having read the file
    failed,   \* Store.lastErr is set
    observations, events

vars == <<now, top, role, memory, disk, dirty, saver, asOf, draft, crossed, unread, failed,
          observations, events>>
clockVars == <<now, top>>
saveVars == <<dirty, saver, asOf, draft, crossed, unread, failed>>

Kind == {"with", "without"}       \* state.WithHeaders and state.WithoutAt
Observed == [Kind -> 0..MaxTime]
Nothing == [k \in Kind |-> 0]

\* No file yet, one slot active, the other not started.
First == CHOOSE s \in Slot : TRUE
Init ==
    /\ now = 1 /\ top = 1
    /\ role = [s \in Slot |-> IF s = First THEN "active" ELSE "down"]
    /\ memory = [s \in Slot |-> Nothing] /\ disk = Nothing
    /\ dirty = [s \in Slot |-> FALSE] /\ failed = [s \in Slot |-> FALSE]
    /\ saver = [s \in Slot |-> "idle"]
    /\ asOf = [s \in Slot |-> 0] /\ draft = [s \in Slot |-> Nothing]
    /\ crossed = {} /\ unread = {} /\ observations = 0 /\ events = 0

-----------------------------------------------------------------------------
(* Which of two observations counts.                                       *)

Future(t, clock) == t > clock + ClockSkew

\* An observation at a replaces one at b.
Replaces(a, b, clock) == /\ a # 0 /\ ~Future(a, clock)
                         /\ b = 0 \/ a > b \/ Future(b, clock)

Merge(s, o, clock) == [k \in Kind |-> IF Replaces(o[k], s[k], clock) THEN o[k] ELSE s[k]]

Happen == events < MaxEvents /\ events' = events + 1

-----------------------------------------------------------------------------
(* A response: its time was read when the answer came, Store.mu may be     *)
(* taken any time later.                                                   *)

Relays(s) == role[s] \in {"active", "quiesced", "draining"}

\* Mutant of Schedule: with the saver at work there is nobody to ask.
ScheduleUnbuffered(s) ==
    dirty' = [dirty EXCEPT ![s] = saver[s] = "idle"]

\* Requests for a write collapse into one.
Schedule(s) == dirty' = [dirty EXCEPT ![s] = TRUE]

Observe(s, k, at) ==
    /\ Relays(s) /\ observations < MaxObservations
    /\ LET merged == Merge(memory[s], [Nothing EXCEPT ![k] = at], now)
       IN /\ memory' = [memory EXCEPT ![s] = merged]
          /\ IF merged # memory[s] THEN Schedule(s) ELSE UNCHANGED dirty
    /\ observations' = observations + 1
    /\ UNCHANGED <<clockVars, role, disk, saver, asOf, draft, crossed, unread, failed, events>>

-----------------------------------------------------------------------------
(* The saver: Save checks the role, then waits for the file lock, merges   *)
(* the file into memory, copies memory and writes the copy.                *)

Goto(s, l) == saver' = [saver EXCEPT ![s] = l]
Locks(s) == saver[s] \in {"merge", "copy", "write"}

TakeRequest(s) ==
    /\ saver[s] = "idle" /\ dirty[s]
    /\ dirty' = [dirty EXCEPT ![s] = FALSE]
    /\ Goto(s, "asked")
    /\ UNCHANGED <<clockVars, role, memory, disk, asOf, draft, crossed, unread, failed, observations, events>>

\* In any other role the request is used up and nothing is written.
MaySave(s) ==
    /\ saver[s] = "asked"
    /\ IF role[s] = "active" THEN Goto(s, "wait") /\ UNCHANGED failed
       ELSE Goto(s, "idle") /\ failed' = [failed EXCEPT ![s] = FALSE]
    /\ UNCHANGED <<clockVars, role, memory, disk, dirty, asOf, draft, crossed, unread, observations, events>>

\* Mutant of Lock: each process locks a file of its own.
LockPerProcess(s) ==
    /\ saver[s] = "wait"
    /\ asOf' = [asOf EXCEPT ![s] = now]
    /\ Goto(s, "merge")
    /\ UNCHANGED <<clockVars, role, memory, disk, dirty, draft, crossed, unread, failed, observations, events>>

Lock(s) ==
    /\ saver[s] = "wait" /\ \A t \in Slot : ~Locks(t)
    /\ asOf' = [asOf EXCEPT ![s] = now]
    /\ Goto(s, "merge")
    /\ UNCHANGED <<clockVars, role, memory, disk, dirty, draft, crossed, unread, failed, observations, events>>

\* Another process holds the lock for lockWait.
LockTimesOut(s) ==
    /\ saver[s] = "wait" /\ \E t \in Slot \ {s} : Locks(t)
    /\ Happen
    /\ failed' = [failed EXCEPT ![s] = TRUE] /\ Goto(s, "idle")
    /\ UNCHANGED <<clockVars, role, memory, disk, dirty, asOf, draft, crossed, unread, observations>>

\* A file that cannot be read is not merged, and yet replaced.
MergeFile(s) ==
    /\ saver[s] = "merge"
    /\ \/ /\ memory' = [memory EXCEPT ![s] = Merge(@, disk, asOf[s])]
          /\ UNCHANGED <<unread, events>>
       \/ Happen /\ unread' = unread \cup {s} /\ UNCHANGED memory
    /\ Goto(s, "copy")
    /\ UNCHANGED <<clockVars, role, disk, dirty, asOf, draft, crossed, failed, observations>>

Copy(s) ==
    /\ saver[s] = "copy"
    /\ draft' = [draft EXCEPT ![s] = memory[s]]
    /\ Goto(s, "write")
    /\ UNCHANGED <<clockVars, role, memory, disk, dirty, asOf, crossed, unread, failed, observations, events>>

Write(s) ==
    /\ saver[s] = "write"
    /\ \/ /\ disk' = draft[s] /\ failed' = [failed EXCEPT ![s] = FALSE]
          /\ UNCHANGED events
       \/ Happen /\ failed' = [failed EXCEPT ![s] = TRUE] /\ UNCHANGED disk
    /\ Goto(s, "idle")
    /\ draft' = [draft EXCEPT ![s] = Nothing] /\ asOf' = [asOf EXCEPT ![s] = 0]
    /\ crossed' = crossed \ {s} /\ unread' = unread \ {s}
    /\ UNCHANGED <<clockVars, role, memory, dirty, observations>>

-----------------------------------------------------------------------------
(* The slots' lives and the clock.                                         *)

ChangeRole(s, from, to) ==
    /\ role[s] \in from /\ Happen
    /\ role' = [role EXCEPT ![s] = to]
    /\ UNCHANGED <<clockVars, memory, disk, saveVars, observations>>

Activate(s) == ChangeRole(s, {"standby", "quiesced"}, "active")
Quiesce(s) == ChangeRole(s, {"active"}, "quiesced")
Drain(s) == ChangeRole(s, {"active", "quiesced"}, "draining")

\* A process ends wherever it is; nothing writes a pending observation.
Exit(s) ==
    /\ role[s] # "down" /\ Happen
    /\ role' = [role EXCEPT ![s] = "down"]
    /\ memory' = [memory EXCEPT ![s] = Nothing]
    /\ dirty' = [dirty EXCEPT ![s] = FALSE] /\ failed' = [failed EXCEPT ![s] = FALSE]
    /\ saver' = [saver EXCEPT ![s] = "idle"]
    /\ asOf' = [asOf EXCEPT ![s] = 0] /\ draft' = [draft EXCEPT ![s] = Nothing]
    /\ crossed' = crossed \ {s} /\ unread' = unread \ {s}
    /\ UNCHANGED <<clockVars, disk, observations>>

\* New reads the file; a file it cannot read is reported and counts as none.
Start(s) ==
    /\ role[s] = "down"
    /\ \E r \in {"standby", "active"} : role' = [role EXCEPT ![s] = r]
    /\ \/ memory' = [memory EXCEPT ![s] = disk] /\ UNCHANGED events
       \/ Happen /\ memory' = [memory EXCEPT ![s] = Nothing]
    /\ UNCHANGED <<clockVars, disk, saveVars, observations>>

Tick == /\ now < MaxTime /\ now' = now + 1
        /\ top' = IF now' > top THEN now' ELSE top
        /\ UNCHANGED <<role, memory, disk, saveVars, observations, events>>

SetClockBack == /\ Happen /\ \E t \in 1..(now - 1) : now' = t
                /\ crossed' = crossed \cup {s \in Slot : Locks(s)}
                /\ UNCHANGED <<top, role, memory, disk, dirty, saver, asOf, draft, unread, failed, observations>>

Saver(s) == TakeRequest(s) \/ MaySave(s) \/ Lock(s) \/ MergeFile(s) \/ Copy(s) \/ Write(s)

Next ==
    \/ \E s \in Slot : \/ \E k \in Kind, at \in 1..top : Observe(s, k, at)
                       \/ Saver(s) \/ LockTimesOut(s)
                       \/ Activate(s) \/ Quiesce(s) \/ Drain(s) \/ Exit(s) \/ Start(s)
    \/ Tick \/ SetClockBack

\* The saver is a goroutine of file operations, its wait for the lock polls.
Fairness == \A s \in Slot : WF_vars(Saver(s))

Spec == Init /\ [][Next]_vars /\ Fairness

-----------------------------------------------------------------------------
(* Properties.                                                             *)

(* Save, "so a process with older state never overwrites a newer one": the *)
(* file never goes back to an older observation, with two processes saving *)
(* at once, roles changing under them and saves that fail; only a time that *)
(* the clock at the beginning of the save calls the future gives way.      *)
(* Against that comment, a save that could not read the file skips the     *)
(* merge and does overwrite a newer state; it is excused by its name, and  *)
(* so is one during which the clock is set back, where an observation made *)
(* after that replaces the newer one just read.                            *)
GoesOn == \A k \in Kind : disk'[k] < disk[k] =>
              \E s \in Slot : /\ saver[s] = "write"
                              /\ s \in crossed \cup unread \/ Future(disk[k], asOf[s])
NeverOlder == [][GoesOn]_vars

(* What a slot observes reaches the file while the slot stays active: an    *)
(* observation made while the saver is at work is saved by a further write *)
(* (schedule, "the saver always writes the latest state"), unless a save   *)
(* fails, which is only logged, or another observation takes its place.    *)
ObservedIsSaved ==
    \A s \in Slot, k \in Kind, t \in 1..MaxTime :
        (role[s] = "active" /\ memory[s][k] = t /\ (dirty[s] \/ saver[s] # "idle"))
            ~> (disk[k] = t \/ memory[s][k] # t \/ role[s] # "active" \/ failed[s])
=============================================================================
