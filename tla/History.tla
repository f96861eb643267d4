------------------------------- MODULE History -------------------------------
(***************************************************************************)
(* The request history two slots keep in one file.  A finished request is  *)
(* appended by the slot that served it, under that slot's file mutex fmu.  *)
(* A slot the deploy has left alone compacts the file: when it writes a    *)
(* line too many, under fmu, and when the deploy asks it to, without.  A   *)
(* compaction reads the file, then puts the newest RingSize lines in its place; *)
(* a lock file keeps two compactions apart, not a compaction and an append.*)
(*                                                                         *)
(* Records are numbered as they begin.  The deploy is what Deploy promises *)
(* (CompactsAlone): it asks for a compaction only when the other slot has  *)
(* nothing left to append.  A line is written whole.  MaxRecords bounds    *)
(* the requests of a behaviour, MaxOpen those not yet done at one time,    *)
(* MaxUpsets the clears and restarts.                                      *)
(***************************************************************************)
EXTENDS Naturals, Sequences, FiniteSets, SequencesExt

CONSTANTS Slot, RingSize, MaxRecords, MaxOpen, MaxUpsets

ASSUME SlotAssumption == IsFiniteSet(Slot) /\ Cardinality(Slot) = 2
ASSUME HistoryBoundsAssumption == 
    {RingSize, MaxRecords, MaxOpen, MaxUpsets} \subseteq Nat \ {0}

VARIABLES
    file,       \* the lines of history.jsonl
    kept,       \* what the compaction under way will put in its place
    ring,       \* Store.recs of each slot, oldest first
    lines,      \* Store.lines of each slot
    begun,      \* how many requests have begun
    open,       \* of each request not done: its next step, its slot
    admin,      \* of each slot: the next step of the compaction asked for
    clearing,   \* the slots whose Clear has yet to empty the file
    serving,    \* the slot Caddy routes to
    upsets,     \* how often the history was cleared or a slot restarted
    alone,      \* lifecycle.alone of each slot
    appended,   \* the lines appended since the file was last emptied
    exposed     \* the lines a compaction under way could not see, or brought back

ringVars   == <<ring, lines>>
deployVars == <<serving, alone>>
ghosts     == <<appended, exposed>>
vars == <<file, kept, ringVars, begun, upsets, open, admin, clearing, deployVars, ghosts>>

Record == 1..MaxRecords
Other(s) == CHOOSE x \in Slot : x # s
Newest(seq) == SubSeq(seq, IF Len(seq) > RingSize THEN Len(seq) - RingSize + 1 ELSE 1, Len(seq))

\* Both slots have read an empty file; one serves, alone or beside the other.
Init ==
    /\ file = <<>> /\ kept = <<>>
    /\ ring = [s \in Slot |-> <<>>] /\ lines = [s \in Slot |-> 0]
    /\ begun = 0 /\ upsets = 0 /\ open = <<>>
    /\ serving \in Slot
    /\ admin = [s \in Slot |-> "idle"] /\ clearing = {}
    /\ alone = [s \in Slot |-> FALSE]
    /\ appended = <<>> /\ exposed = {}

-----------------------------------------------------------------------------
(* The locks.                                                              *)

Open(s) == {i \in DOMAIN open : open[i].slot = s}
FmuFree(s) == \A i \in Open(s) : open[i].at \notin {"compact", "replace", "count"}
FileLockFree ==
    /\ \A i \in DOMAIN open : open[i].at \notin {"replace", "count"}
    /\ \A s \in Slot : admin[s] \notin {"replace", "count"}

-----------------------------------------------------------------------------
(* Requests.                                                               *)

\* The record goes into the ring, which drops its oldest when full.
Add(s) ==
    LET i == begun + 1 IN
    /\ s = serving /\ i \in Record
    /\ Cardinality(DOMAIN open) < MaxOpen
    /\ begun' = i
    /\ open' = [j \in DOMAIN open \cup {i} |->
                    IF j = i THEN [at |-> "pending", slot |-> s] ELSE open[j]]
    /\ ring' = [ring EXCEPT ![s] = Newest(Append(@, i))]
    /\ UNCHANGED <<file, kept, lines, upsets, admin, clearing, deployVars, ghosts>>

Goto(i, l) == open' = [open EXCEPT ![i].at = l]
Done(i) == open' = [j \in DOMAIN open \ {i} |-> open[j]]

\* The response is attached to the record if the ring still has it.
Finish(i) ==
    /\ open[i].at = "pending"
    /\ IF i \in ToSet(ring[open[i].slot]) THEN Goto(i, "ended") ELSE Done(i)
    /\ UNCHANGED <<file, kept, ringVars, begun, upsets, admin, clearing, deployVars, ghosts>>

\* A copy of the record is appended under fmu; a slot left alone goes on to
\* compact a file that is too long.
Persist(i) ==
    LET s == open[i].slot IN
    /\ open[i].at = "ended" /\ FmuFree(s)
    /\ file' = Append(file, i) /\ appended' = Append(appended, i)
    /\ exposed' = IF FileLockFree THEN exposed ELSE exposed \cup {i}
    /\ lines' = [lines EXCEPT ![s] = @ + 1]
    /\ IF lines'[s] > 2 * RingSize /\ alone[s] THEN Goto(i, "compact") ELSE Done(i)
    /\ UNCHANGED <<kept, ring, begun, upsets, admin, clearing, deployVars>>

-----------------------------------------------------------------------------
(* Compaction: the three steps of CompactAfterDrain, all under the lock    *)
(* file, run by Persist or by /admin/compact.                              *)

Read == FileLockFree /\ kept' = Newest(file) /\ UNCHANGED <<file, lines>>

\* Mutant of Replace: what the ring holds is written.
ReplaceFromRing(s) == file' = ring[s] /\ UNCHANGED <<kept, lines>>

Replace(s) == file' = kept /\ UNCHANGED <<kept, lines>>

Count(s) == /\ lines' = [lines EXCEPT ![s] = Len(kept)] /\ kept' = <<>>
            /\ UNCHANGED file

CompactStep(s, at, next) ==
    \/ at = "compact" /\ next = "replace" /\ Read
    \/ at = "replace" /\ next = "count" /\ Replace(s)
    \/ at = "count" /\ next = "end" /\ Count(s)

CompactInline(i) ==
    /\ \E next \in {"replace", "count", "end"} :
          /\ CompactStep(open[i].slot, open[i].at, next)
          /\ IF next = "end" THEN Done(i) ELSE Goto(i, next)
    /\ UNCHANGED <<ring, begun, upsets, admin, clearing, deployVars, ghosts>>

\* The deploy has retired the other slot.
AskCompaction(s) ==
    /\ s = serving /\ admin[s] = "idle"
    /\ Open(Other(s)) = {} /\ Other(s) \notin clearing
    /\ admin' = [admin EXCEPT ![s] = "compact"]
    /\ UNCHANGED <<file, kept, ringVars, begun, upsets, open, clearing, deployVars, ghosts>>

CompactAsked(s) ==
    /\ \E next \in {"replace", "count", "end"} :
          /\ CompactStep(s, admin[s], next)
          /\ admin' = [admin EXCEPT ![s] = IF next = "end" THEN "idle" ELSE next]
          /\ alone' = [alone EXCEPT ![s] = @ \/ next = "end"]
    /\ UNCHANGED <<ring, begun, upsets, open, clearing, serving, ghosts>>

-----------------------------------------------------------------------------
(* Clearing, deploys and restarts.                                         *)

Upset == upsets < MaxUpsets /\ upsets' = upsets + 1

Clear(s) ==
    /\ s = serving /\ s \notin clearing
    /\ ring' = [ring EXCEPT ![s] = <<>>]
    /\ clearing' = clearing \cup {s}
    /\ Upset
    /\ UNCHANGED <<file, kept, lines, begun, open, admin, deployVars, ghosts>>

\* Mutant of Truncate: the file is emptied without fmu.
TruncateUnlocked(s) ==
    /\ s \in clearing /\ clearing' = clearing \ {s}
    /\ file' = <<>> /\ lines' = [lines EXCEPT ![s] = 0]
    /\ appended' = <<>>
    /\ exposed' = IF FileLockFree \/ ~FmuFree(s) THEN exposed ELSE exposed \cup ToSet(kept)
    /\ UNCHANGED <<kept, ring, begun, upsets, open, admin, deployVars>>

Truncate(s) ==
    /\ s \in clearing /\ FmuFree(s) /\ clearing' = clearing \ {s}
    /\ file' = <<>> /\ lines' = [lines EXCEPT ![s] = 0]
    /\ appended' = <<>>
    /\ exposed' = IF FileLockFree THEN exposed ELSE exposed \cup ToSet(kept)
    /\ UNCHANGED <<kept, ring, begun, upsets, open, admin, deployVars>>

Quiesce ==
    /\ alone[serving] /\ \A s \in Slot : admin[s] = "idle"
    /\ alone' = [alone EXCEPT ![serving] = FALSE]
    /\ UNCHANGED <<file, kept, ringVars, begun, upsets, open, admin, clearing, serving, ghosts>>

Flip ==
    /\ ~alone[serving] /\ \A s \in Slot : admin[s] = "idle"
    /\ serving' = Other(serving)
    /\ UNCHANGED <<file, kept, ringVars, begun, upsets, open, admin, clearing, alone, ghosts>>

\* A slot's process ends, whatever it was doing, and the next one reads the file.
Restart(s) ==
    LET holds == admin[s] \in {"replace", "count"}
                 \/ \E i \in Open(s) : open[i].at \in {"replace", "count"}
    IN  /\ ring' = [ring EXCEPT ![s] = Newest(file)]
        /\ lines' = [lines EXCEPT ![s] = Len(file)]
        /\ open' = [i \in DOMAIN open \ Open(s) |-> open[i]]
        /\ admin' = [admin EXCEPT ![s] = "idle"]
        /\ clearing' = clearing \ {s}
        /\ alone' = [alone EXCEPT ![s] = FALSE]
        /\ kept' = IF holds THEN <<>> ELSE kept
        /\ Upset
        /\ UNCHANGED <<file, begun, serving, ghosts>>

Next ==
    \/ \E s \in Slot : \/ Add(s) \/ AskCompaction(s) \/ CompactAsked(s)
                       \/ Clear(s) \/ Truncate(s) \/ Restart(s)
    \/ \E i \in DOMAIN open : Finish(i) \/ Persist(i) \/ CompactInline(i)
    \/ Quiesce \/ Flip

Spec == Init /\ [][Next]_vars

-----------------------------------------------------------------------------
(* Properties.                                                             *)

(* A compaction keeps the newest RingSize lines, whichever slot appended    *)
(* them, but for those another goroutine appended while it was under way    *)
(* (history.go: it keeps "the newest ring-size lines of the file, including *)
(* those another router appended"); and a slot that is alone never lets the *)
(* file grow beyond twice the ring: its own count of lines, taken over from *)
(* what the other slot left behind, is right.                               *)
NewestKeptUnlessExposed ==
    /\ ToSet(Newest(appended)) \ exposed \subseteq ToSet(file)
    /\ \A s \in Slot : alone[s] /\ FmuFree(s)
           => Len(file) <= 2 * RingSize + Cardinality(exposed)

(* What was cleared stays cleared, but for the lines of a compaction that   *)
(* was under way without the mutex of the slot that cleared.                *)
ClearedStaysCleared == ToSet(file) \subseteq ToSet(appended) \cup exposed

=============================================================================
