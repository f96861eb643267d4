-------------------------- MODULE SharedFilesProofs --------------------------
(***************************************************************************)
(* The files both slots write.  For any history ring, any number of        *)
(* requests, clears and restarts: a compaction drops none of the newest    *)
(* lines but those a live compaction exposes, and nothing cleared returns. *)
(* For any number of processes and any clock: limits.json never goes back  *)
(* to an older observation.  For any outcomes, bindings, savers and number *)
(* of deploys, rollbacks, stops and crashes: a switch loses nothing that   *)
(* was recorded outside it, and only saves that overlap leave models.json  *)
(* unreadable.                                                             *)
(***************************************************************************)
EXTENDS History, MCLimits, MCSlotState, SequenceTheorems, FiniteSetTheorems, TLAPS

(***************************************************************************)
(* The history.                                                            *)
(***************************************************************************)

Steps == {"pending", "ended", "compact", "replace", "count"}

ShapeOK ==
    /\ begun \in Nat /\ {file, kept, appended} \subseteq Seq(1..begun)
    /\ exposed \in SUBSET (1..begun)
    /\ lines \in [Slot -> Nat] /\ alone \in [Slot -> BOOLEAN]
    /\ admin \in [Slot -> {"idle", "compact", "replace", "count"}]
    /\ clearing \in SUBSET Slot /\ serving \in Slot
    /\ DOMAIN open \in SUBSET (1..begun) /\ open \in [DOMAIN open -> [at : Steps, slot : Slot]]

\* The lock file: one compaction at a time.
Asked(s) == admin[s] \in {"replace", "count"}
Inline(i) == open[i].at \in {"replace", "count"}
LockOK ==
    /\ \A s, t \in Slot : Asked(s) /\ Asked(t) => s = t
    /\ \A i, j \in DOMAIN open : Inline(i) /\ Inline(j) => i = j
    /\ \A s \in Slot, i \in DOMAIN open : ~(Asked(s) /\ Inline(i))

At(l) == (\E s \in Slot : admin[s] = l) \/ (\E i \in DOMAIN open : open[i].at = l)

\* A slot is alone, or is asked to compact, only while the other has nothing to do.
AloneOK ==
    \A s \in Slot : alone[s] \/ admin[s] # "idle" =>
        s = serving /\ Open(Other(s)) = {} /\ Other(s) \notin clearing

\* Each line is written once.
OnceOK ==
    /\ IsInjective(file) /\ IsInjective(kept) /\ Len(kept) <= RingSize
    /\ \A i \in DOMAIN open : open[i].at \in {"pending", "ended"} =>
           i \notin ToSet(file) \union ToSet(kept) \union exposed

\* A newest line that is not exposed is as near to the end of seq as it is to
\* the end of what was appended.
Has(seq) ==
    \A a \in DOMAIN appended : Len(appended) - a < RingSize /\ appended[a] \notin exposed =>
        \E p \in DOMAIN seq : seq[p] = appended[a] /\ Len(seq) - p <= Len(appended) - a
NewestOK == Has(file) /\ (At("replace") => Has(kept))

\* What comes back from a clear is exposed.
BackOK == At("replace") => ToSet(kept) \subseteq ToSet(appended) \union exposed

\* The count of a slot that is alone misses exposed lines only.
CountOK ==
    /\ At("count") => Len(file) <= Len(kept) + Cardinality(exposed)
    /\ \A s \in Slot : alone[s] =>
        /\ Len(file) <= lines[s] + Cardinality(exposed)
        /\ At("replace") => Len(kept) <= lines[s] + Cardinality(exposed)
        /\ FmuFree(s) => lines[s] <= 2 * RingSize

IInv == ShapeOK /\ LockOK /\ AloneOK /\ OnceOK /\ NewestOK /\ BackOK /\ CountOK /\ ClearedStaysCleared
-----------------------------------------------------------------------------
(* The requests that are not done.                                           *)

OpenOK(o, n) == DOMAIN o \in SUBSET (1..n) /\ o \in [DOMAIN o -> [at : Steps, slot : Slot]]

LEMMA GotoMoves ==
    ASSUME OpenOK(open, begun), NEW i \in DOMAIN open, NEW l \in Steps, Goto(i, l)
    PROVE  /\ OpenOK(open', begun) /\ DOMAIN open' = DOMAIN open
           /\ open'[i].at = l /\ \A j \in DOMAIN open : open'[j].slot = open[j].slot
           /\ \A j \in DOMAIN open \ {i} : open'[j] = open[j]
BY DEF OpenOK, Goto

LEMMA DoneLeaves ==
    ASSUME OpenOK(open, begun), NEW i \in DOMAIN open, Done(i)
    PROVE  /\ OpenOK(open', begun) /\ DOMAIN open' = DOMAIN open \ {i}
           /\ \A j \in DOMAIN open' : open'[j] = open[j]
BY DEF OpenOK, Done

LEMMA OtherSlot ==
    ASSUME NEW s \in Slot
    PROVE  Other(s) \in Slot /\ Other(s) # s /\ \A t \in Slot : t # s => t = Other(s)
<1>1. IsFiniteSet(Slot \ {s}) /\ Cardinality(Slot \ {s}) = 1
    BY SlotAssumption, FS_RemoveElement
<1>2. PICK x : Slot \ {s} = {x}
    BY <1>1, FS_Singleton
<1>3. x \in Slot /\ x # s /\ \A t \in Slot : t # s => t = x
    BY <1>2
<1>4. Other(s) = CHOOSE y \in Slot : y # s
    BY DEF Other
<1> QED BY <1>3, <1>4

LEMMA LockFree == FileLockFree <=> ~At("replace") /\ ~At("count")
BY DEF FileLockFree, At

-----------------------------------------------------------------------------
(* What a step does to the file and the lock file.                           *)

AtStays == (At("replace")' => At("replace")) /\ (At("count")' => At("count"))
NoneAt == ~At("replace")' /\ ~At("count")'

Quiet == AtStays /\ UNCHANGED <<file, kept, lines, ghosts>>
Appends(i) ==
    /\ AtStays /\ file' = Append(file, i) /\ appended' = Append(appended, i)
    /\ exposed' = (IF FileLockFree THEN exposed ELSE exposed \cup {i})
    /\ lines' = [lines EXCEPT ![open[i].slot] = @ + 1] /\ UNCHANGED kept
Reads == FileLockFree /\ ~At("count")' /\ kept' = Newest(file) /\ UNCHANGED <<file, lines, ghosts>>
Replaces == At("replace") /\ ~At("replace")' /\ file' = kept /\ UNCHANGED <<kept, lines, ghosts>>
Counts(s) == /\ admin[s] = "count" \/ \E i \in Open(s) : open[i].at = "count"
             /\ At("count") /\ NoneAt /\ kept' = <<>> /\ lines' = [lines EXCEPT ![s] = Len(kept)]
             /\ UNCHANGED <<file, ghosts>>
Empties(s) ==
    /\ AtStays /\ file' = <<>> /\ appended' = <<>> /\ lines' = [lines EXCEPT ![s] = 0]
    /\ exposed' = (IF FileLockFree THEN exposed ELSE exposed \cup ToSet(kept)) /\ UNCHANGED kept
Restarts(s) == /\ AtStays /\ ~alone'[s] /\ (kept' = kept \/ (NoneAt /\ kept' = <<>>))
               /\ lines' = [lines EXCEPT ![s] = Len(file)] /\ UNCHANGED <<file, ghosts>>

LEMMA StepAsked ==
    ASSUME IInv, NEW s \in Slot, CompactAsked(s)
    PROVE  ((Reads \/ Replaces) /\ (alone'[s] => alone[s])) \/ Counts(s)
<1>1. PICK next \in {"replace", "count", "end"} :
        /\ CompactStep(s, admin[s], next) /\ admin' = [admin EXCEPT ![s] = IF next = "end" THEN "idle" ELSE next]
        /\ alone' = [alone EXCEPT ![s] = @ \/ next = "end"]
    BY DEF CompactAsked
<1>2. UNCHANGED <<open, ghosts>> /\ LockOK /\ ShapeOK
    BY DEF CompactAsked, IInv
<1>3. \A t \in Slot \ {s} : admin'[t] = admin[t]
    BY <1>1, <1>2 DEF ShapeOK
<1>4. admin'[s] = IF next = "end" THEN "idle" ELSE next
    BY <1>1, <1>2 DEF ShapeOK
<1>5. CASE admin[s] = "compact" /\ next = "replace" /\ Read
    <2>1. alone'[s] => alone[s]
        BY <1>1, <1>2, <1>5 DEF ShapeOK
    <2> QED BY <1>2, <1>3, <1>4, <1>5, <2>1 DEF Read, Reads, FileLockFree, At, ghosts
<1>6. CASE admin[s] = "replace" /\ next = "count" /\ Replace(s)
    <2>1. alone'[s] => alone[s]
        BY <1>1, <1>2, <1>6 DEF ShapeOK
    <2> QED BY <1>2, <1>3, <1>4, <1>6, <2>1 DEF Replace, Replaces, At, LockOK, Asked, Inline, ghosts
<1>7. CASE admin[s] = "count" /\ next = "end" /\ Count(s)
    BY <1>2, <1>3, <1>4, <1>7 DEF Count, Counts, NoneAt, At, LockOK, Asked, Inline, ghosts
<1> QED BY <1>1, <1>5, <1>6, <1>7 DEF CompactStep

LEMMA StepInline ==
    ASSUME IInv, NEW i \in DOMAIN open, CompactInline(i)
    PROVE  (Reads /\ Goto(i, "replace")) \/ (Replaces /\ Goto(i, "count")) \/ Counts(open[i].slot)
<1>1. PICK next \in {"replace", "count", "end"} :
        CompactStep(open[i].slot, open[i].at, next) /\ IF next = "end" THEN Done(i) ELSE Goto(i, next)
    BY DEF CompactInline
<1>2. UNCHANGED <<admin, ghosts>> /\ LockOK /\ OpenOK(open, begun)
    BY DEF CompactInline, IInv, ShapeOK, OpenOK
<1>3. CASE open[i].at = "compact" /\ next = "replace" /\ Read
    <2>1. Goto(i, "replace")
        BY <1>1, <1>3
    <2>2. DOMAIN open' = DOMAIN open /\ open'[i].at = "replace" /\ \A j \in DOMAIN open \ {i} : open'[j] = open[j]
        BY <1>2, <2>1, GotoMoves DEF Steps
    <2> QED BY <1>2, <1>3, <2>1, <2>2 DEF Read, Reads, FileLockFree, At, ghosts
<1>4. CASE open[i].at = "replace" /\ next = "count" /\ Replace(open[i].slot)
    <2>1. Goto(i, "count")
        BY <1>1, <1>4
    <2>2. DOMAIN open' = DOMAIN open /\ open'[i].at = "count" /\ \A j \in DOMAIN open \ {i} : open'[j] = open[j]
        BY <1>2, <2>1, GotoMoves DEF Steps
    <2> QED BY <1>2, <1>4, <2>1, <2>2 DEF Replace, Replaces, At, LockOK, Asked, Inline, ghosts
<1>5. CASE open[i].at = "count" /\ next = "end" /\ Count(open[i].slot)
    <2>1. Done(i)
        BY <1>1, <1>5
    <2>2. DOMAIN open' = DOMAIN open \ {i} /\ \A j \in DOMAIN open' : open'[j] = open[j]
        BY <1>2, <2>1, DoneLeaves
    <2> QED BY <1>2, <1>5, <2>2 DEF Count, Counts, NoneAt, At, LockOK, Asked, Inline, ghosts, Open
<1> QED BY <1>1, <1>3, <1>4, <1>5 DEF CompactStep

LEMMA StepPersist == ASSUME IInv, NEW i \in DOMAIN open, Persist(i) PROVE Appends(i)
<1>1. OpenOK(open, begun) /\ UNCHANGED admin
    BY DEF IInv, ShapeOK, OpenOK, Persist
<1>2. CASE Goto(i, "compact")
    <2>1. DOMAIN open' = DOMAIN open /\ open'[i].at = "compact" /\ \A j \in DOMAIN open \ {i} : open'[j] = open[j]
        BY <1>1, <1>2, GotoMoves DEF Steps
    <2> QED BY <1>1, <2>1 DEF Persist, Appends, AtStays, At
<1>3. CASE Done(i)
    <2>1. DOMAIN open' = DOMAIN open \ {i} /\ \A j \in DOMAIN open' : open'[j] = open[j]
        BY <1>1, <1>3, DoneLeaves
    <2> QED BY <1>1, <2>1 DEF Persist, Appends, AtStays, At
<1> QED BY <1>2, <1>3 DEF Persist

LEMMA StepRestart == ASSUME IInv, NEW s \in Slot, Restart(s) PROVE Restarts(s)
<1> DEFINE holds == Asked(s) \/ \E i \in Open(s) : Inline(i)
<1>1. /\ DOMAIN open' = DOMAIN open \ Open(s) /\ \A j \in DOMAIN open' : open'[j] = open[j]
      /\ admin'[s] = "idle" /\ \A t \in Slot \ {s} : admin'[t] = admin[t]
      /\ kept' = (IF holds THEN <<>> ELSE kept) /\ UNCHANGED <<file, ghosts>>
      /\ lines' = [lines EXCEPT ![s] = Len(file)] /\ ~alone'[s]
    BY DEF Restart, IInv, ShapeOK, Asked, Inline, ghosts
<1>2. AtStays
    BY <1>1 DEF AtStays, At
<1>3. CASE holds
    <2>1. NoneAt
        <3>1. CASE Asked(s)
            BY <1>1, <3>1 DEF IInv, LockOK, NoneAt, At, Asked, Inline
        <3>2. CASE \E i \in Open(s) : Inline(i)
            BY <1>1, <3>2 DEF IInv, LockOK, NoneAt, At, Asked, Inline, Open
        <3> QED BY <1>3, <3>1, <3>2
    <2> QED BY <1>1, <1>2, <1>3, <2>1 DEF Restarts
<1>4. CASE ~holds
    BY <1>1, <1>2, <1>4 DEF Restarts
<1> QED BY <1>3, <1>4

\* Every step does one of these.
LEMMA Effects ==
    ASSUME IInv, [Next]_vars
    PROVE  \/ Quiet \/ Reads \/ Replaces
           \/ \E i \in DOMAIN open : Persist(i) /\ Appends(i)
           \/ \E s \in Slot : Counts(s) \/ (Truncate(s) /\ Empties(s)) \/ Restarts(s)
<1>1. \A i \in DOMAIN open : open[i].slot \in Slot
    BY DEF IInv, ShapeOK
<1>2. ASSUME NEW s \in Slot, Add(s) PROVE Quiet
    <2>1. UNCHANGED <<admin, file, kept, lines, ghosts>>
        BY <1>2 DEF Add
    <2>2. begun + 1 \notin DOMAIN open
        BY DEF IInv, ShapeOK
    <2>3. /\ DOMAIN open' = DOMAIN open \cup {begun + 1} /\ open'[begun + 1].at = "pending"
          /\ \A j \in DOMAIN open : open'[j] = open[j]
        BY <1>2, <2>2 DEF Add
    <2> QED BY <2>1, <2>3 DEF Quiet, AtStays, At
<1>3. ASSUME NEW i \in DOMAIN open, Finish(i) PROVE Quiet
    <2>1. UNCHANGED <<admin, file, kept, lines, ghosts>> /\ OpenOK(open, begun)
        BY <1>3 DEF Finish, ringVars, IInv, ShapeOK, OpenOK
    <2>2. CASE Goto(i, "ended")
        <3>1. DOMAIN open' = DOMAIN open /\ open'[i].at = "ended" /\ \A j \in DOMAIN open \ {i} : open'[j] = open[j]
            BY <2>1, <2>2, GotoMoves DEF Steps
        <3> QED BY <2>1, <3>1 DEF Quiet, AtStays, At
    <2>3. CASE Done(i)
        <3>1. DOMAIN open' = DOMAIN open \ {i} /\ \A j \in DOMAIN open' : open'[j] = open[j]
            BY <2>1, <2>3, DoneLeaves
        <3> QED BY <2>1, <3>1 DEF Quiet, AtStays, At
    <2> QED BY <1>3, <2>2, <2>3 DEF Finish
<1>4. ASSUME NEW s \in Slot, AskCompaction(s) PROVE Quiet
    <2>1. \A t \in Slot : admin'[t] = admin[t] \/ admin'[t] = "compact"
        BY <1>4 DEF AskCompaction, IInv, ShapeOK
    <2> QED BY <1>4, <2>1 DEF AskCompaction, Quiet, AtStays, At, ringVars
<1>5. ASSUME NEW s \in Slot, Clear(s) PROVE Quiet
    BY <1>5 DEF Clear, Quiet, AtStays, At
<1>6. ASSUME NEW s \in Slot, Truncate(s) PROVE Empties(s)
    BY <1>6 DEF Truncate, Empties, AtStays, At
<1>7. CASE Quiesce \/ Flip \/ UNCHANGED vars
    BY <1>7 DEF Quiesce, Flip, vars, ringVars, Quiet, AtStays, At
<1> QED BY <1>1, <1>2, <1>3, <1>4, <1>5, <1>6, <1>7, StepAsked, StepInline, StepPersist, StepRestart DEF Next
-----------------------------------------------------------------------------
(* The lines, by what a step does.                                           *)

LEMMA NewestIs ==
    ASSUME NEW S, NEW seq \in Seq(S)
    PROVE  /\ Newest(seq) \in Seq(S) /\ Len(Newest(seq)) <= RingSize /\ Len(Newest(seq)) <= Len(seq)
           /\ \E d \in Nat : /\ Len(seq) = Len(Newest(seq)) + d /\ (d > 0 => Len(Newest(seq)) = RingSize)
                             /\ \A p \in 1..Len(Newest(seq)) : Newest(seq)[p] = seq[p + d]
<1>1. Len(seq) \in Nat /\ RingSize \in Nat /\ RingSize > 0 /\ \A i \in 1..Len(seq) : seq[i] \in S
    BY HistoryBoundsAssumption, LenProperties, ElementOfSeq
<1>2. PICK m \in Nat : m = (IF Len(seq) > RingSize THEN Len(seq) - RingSize + 1 ELSE 1)
    BY <1>1
<1>3. m >= 1 /\ Newest(seq) = SubSeq(seq, m, Len(seq))
    BY <1>1, <1>2 DEF Newest
<1>4. PICK new : new = Newest(seq)
    OBVIOUS
<1>5. /\ new \in Seq(S) /\ Len(new) = (IF m <= Len(seq) THEN Len(seq) - m + 1 ELSE 0)
      /\ \A i \in 1..Len(seq) - m + 1 : new[i] = seq[m + i - 1]
    <2>1. \A i \in m..Len(seq) : seq[i] \in S
        BY <1>1, <1>3
    <2> QED BY <1>1, <1>3, <1>4, <2>1, SubSeqProperties
<1>6. PICK d \in Nat : d = m - 1
    BY <1>3
<1>7. Len(new) = Len(seq) - d
    <2>1. m <= Len(seq) + 1
        BY <1>1, <1>2
    <2>2. Len(new) = Len(seq) - m + 1
        BY <1>1, <1>5, <2>1
    <2> QED BY <1>1, <1>6, <2>2
<1>8. Len(new) <= RingSize /\ (d > 0 => Len(new) = RingSize)
    BY <1>1, <1>2, <1>6, <1>7
<1>9. \A p \in 1..Len(new) : new[p] = seq[p + d]
    <2>1. \A p \in 1..Len(new) : p \in 1..Len(seq) - m + 1 /\ m + p - 1 = p + d
        BY <1>1, <1>6, <1>7
    <2> QED BY <1>5, <2>1
<1>10. Len(seq) = Len(new) + d /\ Len(new) <= Len(seq)
    BY <1>1, <1>6, <1>7
<1> QED BY <1>4, <1>5, <1>8, <1>9, <1>10

LEMMA AppendedSet ==
    ASSUME NEW S, NEW seq \in Seq(S), NEW e \in S
    PROVE  ToSet(Append(seq, e)) = ToSet(seq) \cup {e}
<1>1. PICK new : new = Append(seq, e)
    OBVIOUS
<1>2. DOMAIN new = 1..Len(seq) + 1 /\ DOMAIN seq = 1..Len(seq) /\ Len(seq) \in Nat /\ new[Len(seq) + 1] = e
      /\ \A i \in 1..Len(seq) : new[i] = seq[i]
    BY <1>1, AppendProperties, LenProperties
<1> QED BY <1>1, <1>2 DEF ToSet

LEMMA NewestSubset ==
    ASSUME NEW S, NEW seq \in Seq(S)
    PROVE  /\ ToSet(Newest(seq)) \subseteq ToSet(seq)
           /\ IsInjective(seq) => IsInjective(Newest(seq))
<1>1. PICK new \in Seq(S) : new = Newest(seq)
    BY NewestIs
<1>2. PICK d \in Nat : Len(seq) = Len(new) + d /\ \A p \in 1..Len(new) : new[p] = seq[p + d]
    BY <1>1, NewestIs
<1>3. DOMAIN new = 1..Len(new) /\ DOMAIN seq = 1..Len(seq) /\ Len(new) \in Nat
    BY LenProperties
<1>4. \A p \in DOMAIN new : p + d \in DOMAIN seq /\ new[p] = seq[p + d]
    BY <1>2, <1>3
<1>5. ASSUME IsInjective(seq), NEW p \in DOMAIN new, NEW q \in DOMAIN new, new[p] = new[q] PROVE p = q
    <2>1. p + d = q + d
        BY <1>4, <1>5 DEF IsInjective
    <2> QED BY <1>3, <2>1
<1> QED BY <1>1, <1>4, <1>5 DEF ToSet, IsInjective

LEMMA Appended ==
    ASSUME NEW S, NEW seq \in Seq(S), NEW e \in S
    PROVE  /\ Append(seq, e) \in Seq(S) /\ Len(Append(seq, e)) = Len(seq) + 1
           /\ DOMAIN Append(seq, e) = DOMAIN seq \cup {Len(seq) + 1} /\ DOMAIN seq = 1..Len(seq) /\ Len(seq) \in Nat
           /\ \A i \in DOMAIN seq : Append(seq, e)[i] = seq[i]
           /\ Append(seq, e)[Len(seq) + 1] = e /\ ToSet(Append(seq, e)) = ToSet(seq) \cup {e}
           /\ IsInjective(seq) /\ e \notin ToSet(seq) => IsInjective(Append(seq, e))
<1>1. PICK new : new = Append(seq, e)
    OBVIOUS
<1>2. /\ new \in Seq(S) /\ Len(new) = Len(seq) + 1 /\ \A i \in 1..Len(seq) : new[i] = seq[i] /\ new[Len(seq) + 1] = e
    BY <1>1, AppendProperties
<1>3. DOMAIN new = 1..Len(seq) + 1 /\ DOMAIN seq = 1..Len(seq) /\ Len(seq) \in Nat
    BY <1>2, LenProperties
<1>4. DOMAIN new = DOMAIN seq \cup {Len(seq) + 1}
    BY <1>3
<1>5. new[Len(seq) + 1] = e
    BY <1>1, AppendProperties
<1>6. ToSet(new) = ToSet(seq) \cup {e}
    BY <1>2, <1>3, <1>4, <1>5 DEF ToSet
<1>7. IsInjective(seq) /\ e \notin ToSet(seq) => IsInjective(new)
    BY <1>2, <1>3, <1>4, <1>5 DEF ToSet, IsInjective
<1> QED BY <1>1, <1>2, <1>3, <1>4, <1>5, <1>6, <1>7
-----------------------------------------------------------------------------
(* The parts of the invariant.                                               *)

LEMMA InitInv == Init => IInv
<1> SUFFICES ASSUME Init PROVE IInv
    OBVIOUS
<1>1. DOMAIN open = {} /\ DOMAIN appended = {} /\ DOMAIN file = {} /\ DOMAIN kept = {} /\ Len(file) = 0 /\ Len(kept) = 0
    BY DEF Init
<1>2. ShapeOK
    BY <1>1, HistoryBoundsAssumption DEF Init, ShapeOK
<1>3. LockOK /\ AloneOK /\ ~At("replace") /\ ~At("count")
    BY <1>1 DEF Init, LockOK, AloneOK, At, Asked, Inline
<1>4. OnceOK
    BY <1>1, HistoryBoundsAssumption DEF OnceOK, IsInjective
<1>5. NewestOK /\ BackOK
    BY <1>1, <1>3 DEF NewestOK, BackOK, Has
<1>6. CountOK
    BY <1>3 DEF Init, CountOK
<1>7. ClearedStaysCleared
    BY <1>1 DEF ClearedStaysCleared, ToSet
<1> QED BY <1>2, <1>3, <1>4, <1>5, <1>6, <1>7 DEF IInv

LEMMA ClearedStep == ASSUME IInv, [Next]_vars PROVE BackOK' /\ ClearedStaysCleared'
<1>1. /\ file \in Seq(1..begun) /\ appended \in Seq(1..begun) /\ BackOK /\ ClearedStaysCleared /\ ToSet(<<>>) = {}
    BY DEF IInv, ShapeOK, ToSet
<1>2. CASE Quiet
    BY <1>1, <1>2 DEF Quiet, AtStays, BackOK, ClearedStaysCleared, ghosts
<1>3. CASE Reads
    BY <1>1, <1>3, NewestSubset DEF Reads, BackOK, ClearedStaysCleared, ghosts
<1>4. CASE Replaces
    BY <1>1, <1>4 DEF Replaces, BackOK, ClearedStaysCleared, ghosts
<1>5. ASSUME NEW i \in DOMAIN open, Appends(i) PROVE BackOK' /\ ClearedStaysCleared'
    <2>1. i \in 1..begun
        BY DEF IInv, ShapeOK
    <2>2. file' = Append(file, i) /\ appended' = Append(appended, i)
        BY <1>5 DEF Appends
    <2>3. \A seq \in Seq(1..begun) : ToSet(Append(seq, i)) = ToSet(seq) \cup {i}
        <3>1. PICK R : R = 1..begun
            OBVIOUS
        <3>2. i \in R
            BY <2>1, <3>1
        <3>3. \A seq \in Seq(R) : ToSet(Append(seq, i)) = ToSet(seq) \cup {i}
            BY <3>2, AppendedSet
        <3> QED BY <3>1, <3>3
    <2>4. exposed \subseteq exposed'
        BY <1>5 DEF Appends
    <2> QED BY <1>1, <1>5, <2>2, <2>3, <2>4 DEF Appends, AtStays, BackOK, ClearedStaysCleared
<1>6. ASSUME NEW s \in Slot, Counts(s) PROVE BackOK' /\ ClearedStaysCleared'
    BY <1>1, <1>6 DEF Counts, NoneAt, BackOK, ClearedStaysCleared, ghosts
<1>7. ASSUME NEW s \in Slot, Empties(s) PROVE BackOK' /\ ClearedStaysCleared'
    BY <1>1, <1>7, LockFree DEF Empties, AtStays, BackOK, ClearedStaysCleared
<1>8. ASSUME NEW s \in Slot, Restarts(s) PROVE BackOK' /\ ClearedStaysCleared'
    BY <1>1, <1>8 DEF Restarts, AtStays, NoneAt, BackOK, ClearedStaysCleared, ghosts
<1> QED BY <1>2, <1>3, <1>4, <1>5, <1>6, <1>7, <1>8, Effects

\* One more line is one further from the end for all before it.
LEMMA HasMore ==
    ASSUME IInv, NEW i \in 1..begun, NEW seq \in Seq(1..begun), Has(seq),
           NEW new \in Seq(1..begun), appended' = Append(appended, i), exposed \subseteq exposed',
           new = Append(seq, i) \/ (new = seq /\ i \in exposed')
    PROVE  Has(new)'
<1>1. /\ appended \in Seq(1..begun) /\ DOMAIN appended = 1..Len(appended) /\ Len(appended) \in Nat
      /\ Len(appended') = Len(appended) + 1 /\ DOMAIN appended' = DOMAIN appended \cup {Len(appended) + 1}
      /\ \A a \in DOMAIN appended : appended'[a] = appended[a]
      /\ appended'[Len(appended) + 1] = i
    BY Appended DEF IInv, ShapeOK
<1>2. DOMAIN seq = 1..Len(seq) /\ Len(seq) \in Nat
    BY LenProperties
<1>3. new = Append(seq, i) =>
        /\ Len(new) = Len(seq) + 1 /\ DOMAIN new = DOMAIN seq \cup {Len(seq) + 1}
        /\ \A p \in DOMAIN seq : new[p] = seq[p]
        /\ new[Len(seq) + 1] = i
    BY Appended
<1>4. RingSize \in Nat
    BY HistoryBoundsAssumption
<1>5. ASSUME NEW a \in DOMAIN appended', Len(appended') - a < RingSize, appended'[a] \notin exposed'
      PROVE  \E p \in DOMAIN new : new[p] = appended'[a] /\ Len(new) - p <= Len(appended') - a
    <2>1. CASE a \in DOMAIN appended
        <3>1. PICK p \in DOMAIN seq : seq[p] = appended[a] /\ Len(seq) - p <= Len(appended) - a
            BY <1>1, <1>4, <1>5, <2>1 DEF Has
        <3>2. p \in DOMAIN new /\ new[p] = appended'[a] /\ Len(new) <= Len(seq) + 1
            BY <1>1, <1>2, <1>3, <2>1, <3>1
        <3>3. Len(new) \in Nat
            BY LenProperties
        <3> QED BY <1>1, <1>2, <2>1, <3>1, <3>2, <3>3
    <2>2. CASE a = Len(appended) + 1
        <3>1. new = Append(seq, i)
            BY <1>1, <1>5, <2>2
        <3> QED BY <1>1, <1>2, <1>3, <2>2, <3>1
    <2> QED BY <1>1, <2>1, <2>2
<1> QED BY <1>5 DEF Has

\* The newest lines of the file are among its newest lines.
LEMMA HasNewest == ASSUME IInv, Has(file) PROVE Has(Newest(file))
<1>1. PICK new \in Seq(1..begun) : new = Newest(file)
    BY NewestIs DEF IInv, ShapeOK
<1>2. PICK d \in Nat : /\ Len(file) = Len(new) + d /\ (d > 0 => Len(new) = RingSize)
                       /\ \A p \in 1..Len(new) : new[p] = file[p + d]
    BY <1>1, NewestIs DEF IInv, ShapeOK
<1>3. /\ DOMAIN new = 1..Len(new) /\ Len(new) \in Nat /\ DOMAIN file = 1..Len(file)
      /\ DOMAIN appended = 1..Len(appended) /\ Len(appended) \in Nat
    BY LenProperties DEF IInv, ShapeOK
<1>4. ASSUME NEW a \in DOMAIN appended, Len(appended) - a < RingSize, appended[a] \notin exposed
      PROVE  \E p \in DOMAIN new : new[p] = appended[a] /\ Len(new) - p <= Len(appended) - a
    <2>1. PICK p \in DOMAIN file : file[p] = appended[a] /\ Len(file) - p <= Len(appended) - a
        BY <1>4 DEF Has
    <2>2. p - d \in 1..Len(new)
        BY <1>2, <1>3, <1>4, <2>1, HistoryBoundsAssumption
    <2>3. new[p - d] = appended[a] /\ Len(new) - (p - d) <= Len(appended) - a
        BY <1>2, <1>3, <2>1, <2>2
    <2> QED BY <1>3, <2>2, <2>3
<1> QED BY <1>1, <1>4 DEF Has

LEMMA NewestStep == ASSUME IInv, [Next]_vars PROVE NewestOK'
<1>1. NewestOK /\ ShapeOK
    BY DEF IInv
<1>2. CASE Quiet
    BY <1>1, <1>2 DEF Quiet, AtStays, NewestOK, Has, ghosts
<1>3. CASE Reads
    <2>1. Has(Newest(file))
        BY <1>1, HasNewest DEF NewestOK
    <2> QED BY <1>1, <1>3, <2>1 DEF Reads, NewestOK, Has, ghosts
<1>4. CASE Replaces
    BY <1>1, <1>4 DEF Replaces, NewestOK, Has, ghosts
<1>5. ASSUME NEW i \in DOMAIN open, Appends(i) PROVE NewestOK'
    <2>1. i \in 1..begun /\ file \in Seq(1..begun) /\ kept \in Seq(1..begun) /\ file' \in Seq(1..begun)
        BY <1>1, <1>5, Appended DEF Appends, ShapeOK
    <2>2. appended' = Append(appended, i) /\ exposed \subseteq exposed' /\ file' = Append(file, i) /\ kept' = kept
        BY <1>5 DEF Appends
    <2>3. PICK f : f = file'
        OBVIOUS
    <2>4. Has(f)'
        BY <1>1, <2>1, <2>2, <2>3, HasMore DEF NewestOK
    <2>5. At("replace")' => At("replace") /\ i \in exposed'
        BY <1>5, LockFree DEF Appends, AtStays
    <2>6. At("replace")' => Has(kept)'
        <3>1. SUFFICES ASSUME At("replace"), i \in exposed' PROVE Has(kept)'
            BY <2>5
        <3>2. PICK k : k = kept
            OBVIOUS
        <3>3. Has(k)'
            BY <1>1, <2>1, <2>2, <3>1, <3>2, HasMore DEF NewestOK
        <3> QED BY <2>2, <3>2, <3>3 DEF Has
    <2> QED BY <2>3, <2>4, <2>6 DEF NewestOK, Has
<1>6. ASSUME NEW s \in Slot, Counts(s) PROVE NewestOK'
    BY <1>1, <1>6 DEF Counts, NoneAt, NewestOK, Has, ghosts
<1>7. ASSUME NEW s \in Slot, Empties(s) PROVE NewestOK'
    BY <1>7 DEF Empties, NewestOK, Has
<1>8. ASSUME NEW s \in Slot, Restarts(s) PROVE NewestOK'
    BY <1>1, <1>8 DEF Restarts, AtStays, NoneAt, NewestOK, Has, ghosts
<1> QED BY <1>2, <1>3, <1>4, <1>5, <1>6, <1>7, <1>8, Effects
-----------------------------------------------------------------------------
(* Who does what, by what a step does.                                       *)

LEMMA OpenStep ==
    ASSUME IInv, [Next]_vars
    PROVE  /\ OpenOK(open', begun') /\ begun' \in Nat /\ begun' >= begun
           /\ \A j \in DOMAIN open' :
                 \/ j \in DOMAIN open /\ open'[j].slot = open[j].slot
                    /\ (open'[j].at \in {"pending", "ended"} => open[j].at \in {"pending", "ended"})
                    /\ (Inline(j)' => Inline(j) \/ FileLockFree)
                 \/ j \notin 1..begun /\ open'[j].at = "pending" /\ open'[j].slot = serving
<1>1. OpenOK(open, begun) /\ begun \in Nat /\ ShapeOK
    BY DEF IInv, ShapeOK, OpenOK
<1>2. ASSUME NEW s \in Slot, Add(s) PROVE OpenOK(open', begun') /\ begun' = begun + 1
                /\ \A j \in DOMAIN open' : \/ j \in DOMAIN open /\ open'[j] = open[j]
                                           \/ j \notin 1..begun /\ open'[j].at = "pending" /\ open'[j].slot = serving
    <2>1. begun + 1 \notin DOMAIN open /\ s = serving /\ begun' = begun + 1
        BY <1>1, <1>2 DEF Add, OpenOK
    <2>2. /\ DOMAIN open' = DOMAIN open \cup {begun + 1} /\ open'[begun + 1] = [at |-> "pending", slot |-> s]
          /\ \A j \in DOMAIN open : open'[j] = open[j]
        BY <1>2, <2>1 DEF Add
    <2>3. DOMAIN open' \in SUBSET (1..begun + 1)
        BY <1>1, <2>2 DEF OpenOK
    <2>4. open' \in [DOMAIN open' -> [at : Steps, slot : Slot]]
        <3>1. open' = [j \in DOMAIN open' |-> open'[j]]
            BY <1>2 DEF Add
        <3>2. \A j \in DOMAIN open' : open'[j] \in [at : Steps, slot : Slot]
            BY <1>1, <2>2 DEF OpenOK, Steps
        <3> QED BY <3>1, <3>2
    <2> QED BY <1>1, <2>1, <2>2, <2>3, <2>4 DEF OpenOK
<1>3. ASSUME NEW i \in DOMAIN open, NEW l \in Steps, Goto(i, l), begun' = begun,
             l \in {"pending", "ended"} => open[i].at \in {"pending", "ended"},
             l \in {"replace", "count"} => Inline(i) \/ FileLockFree
      PROVE  /\ OpenOK(open', begun')
             /\ \A j \in DOMAIN open' : j \in DOMAIN open /\ open'[j].slot = open[j].slot
                    /\ (open'[j].at \in {"pending", "ended"} => open[j].at \in {"pending", "ended"})
                    /\ (Inline(j)' => Inline(j) \/ FileLockFree)
    BY <1>1, <1>3, GotoMoves DEF Inline
<1>4. ASSUME NEW i \in DOMAIN open, Done(i), begun' = begun
      PROVE  /\ OpenOK(open', begun') /\ \A j \in DOMAIN open' : j \in DOMAIN open /\ open'[j] = open[j]
    BY <1>1, <1>4, DoneLeaves
<1>5. ASSUME NEW i \in DOMAIN open, Finish(i)
      PROVE  begun' = begun /\ (Done(i) \/ (open[i].at = "pending" /\ Goto(i, "ended")))
    BY <1>5 DEF Finish
<1>6. ASSUME NEW i \in DOMAIN open, Persist(i)
      PROVE  begun' = begun /\ (Done(i) \/ Goto(i, "compact"))
    BY <1>6 DEF Persist
<1>7. ASSUME NEW i \in DOMAIN open, CompactInline(i)
      PROVE  begun' = begun /\ (Done(i) \/ (FileLockFree /\ Goto(i, "replace")) \/ (Inline(i) /\ Goto(i, "count")))
    BY <1>7 DEF CompactInline, CompactStep, Read, Inline
<1>8. ASSUME NEW s \in Slot, Restart(s)
      PROVE  OpenOK(open', begun') /\ begun' = begun /\ \A j \in DOMAIN open' : j \in DOMAIN open /\ open'[j] = open[j]
    BY <1>1, <1>8 DEF Restart, OpenOK
<1>9. CASE open' = open /\ begun' = begun
    BY <1>1, <1>9 DEF Inline
<1>10. \/ open' = open /\ begun' = begun
       \/ \E s \in Slot : Add(s) \/ Restart(s)
       \/ \E i \in DOMAIN open : Finish(i) \/ Persist(i) \/ CompactInline(i)
    BY DEF Next, AskCompaction, CompactAsked, Clear, Truncate, Quiesce, Flip, vars, ringVars
<1>11. CASE \E i \in DOMAIN open : Finish(i)
    BY <1>1, <1>3, <1>4, <1>5, <1>11 DEF Steps, Inline
<1>12. CASE \E i \in DOMAIN open : Persist(i)
    BY <1>1, <1>3, <1>4, <1>6, <1>12 DEF Steps, Inline
<1>13. CASE \E i \in DOMAIN open : CompactInline(i)
    BY <1>1, <1>3, <1>4, <1>7, <1>13 DEF Steps, Inline
<1>14. CASE \E s \in Slot : Add(s)
    BY <1>1, <1>2, <1>14 DEF Inline
<1>15. CASE \E s \in Slot : Restart(s)
    BY <1>1, <1>8, <1>15 DEF Inline
<1> QED BY <1>9, <1>10, <1>11, <1>12, <1>13, <1>14, <1>15

LEMMA AdminStep ==
    ASSUME IInv, [Next]_vars
    PROVE  /\ admin' \in [Slot -> {"idle", "compact", "replace", "count"}] /\ alone' \in [Slot -> BOOLEAN]
           /\ clearing' \in SUBSET Slot /\ serving' \in Slot
           /\ \A t \in Slot : Asked(t)' => Asked(t) \/ FileLockFree
<1>1. ShapeOK
    BY DEF IInv
<1>2. ASSUME NEW s \in Slot, CompactAsked(s)
      PROVE  /\ admin' \in [Slot -> {"idle", "compact", "replace", "count"}] /\ alone' \in [Slot -> BOOLEAN]
             /\ \A t \in Slot : Asked(t)' => Asked(t) \/ FileLockFree
    <2>1. PICK next \in {"replace", "count", "end"} :
            /\ CompactStep(s, admin[s], next) /\ admin' = [admin EXCEPT ![s] = IF next = "end" THEN "idle" ELSE next]
            /\ alone' = [alone EXCEPT ![s] = @ \/ next = "end"]
        BY <1>2 DEF CompactAsked
    <2>2. next = "replace" => FileLockFree
        BY <2>1 DEF CompactStep, Read
    <2>3. next = "count" => Asked(s)
        BY <2>1 DEF CompactStep, Asked
    <2>4. \A t \in Slot : Asked(t)' => Asked(t) \/ FileLockFree
        BY <1>1, <2>1, <2>2, <2>3 DEF ShapeOK, Asked
    <2>5. admin' \in [Slot -> {"idle", "compact", "replace", "count"}] /\ alone' \in [Slot -> BOOLEAN]
        BY <1>1, <2>1 DEF ShapeOK
    <2> QED BY <2>4, <2>5
<1>3. ASSUME NEW s \in Slot, CompactAsked(s) PROVE clearing' \in SUBSET Slot /\ serving' \in Slot
    BY <1>1, <1>3 DEF CompactAsked, ShapeOK
<1>4. CASE \E s \in Slot : Add(s)
    BY <1>1, <1>4 DEF Add, ShapeOK, deployVars, Asked
<1>5. CASE \E s \in Slot : AskCompaction(s)
    BY <1>1, <1>5 DEF AskCompaction, ShapeOK, deployVars, Asked
<1>6. CASE \E s \in Slot : Clear(s)
    BY <1>1, <1>6 DEF Clear, ShapeOK, deployVars, Asked
<1>7. CASE \E s \in Slot : Truncate(s)
    BY <1>1, <1>7 DEF Truncate, ShapeOK, deployVars, Asked
<1>8. CASE \E s \in Slot : Restart(s)
    BY <1>1, <1>8 DEF Restart, ShapeOK, Asked
<1>9. CASE \E i \in DOMAIN open : Finish(i) \/ Persist(i) \/ CompactInline(i)
    BY <1>1, <1>9 DEF Finish, Persist, CompactInline, ShapeOK, deployVars, Asked
<1>10. CASE Quiesce
    BY <1>1, <1>10 DEF Quiesce, ShapeOK, Asked
<1>11. CASE Flip
    BY <1>1, <1>11, OtherSlot DEF Flip, ShapeOK, Asked
<1>12. CASE UNCHANGED vars
    BY <1>1, <1>12 DEF vars, ShapeOK, deployVars, Asked
<1> QED BY <1>2, <1>3, <1>4, <1>5, <1>6, <1>7, <1>8, <1>9, <1>10, <1>11, <1>12 DEF Next

\* Who takes the lock file found it free, and nobody else took it.
LEMMA LockStep == ASSUME IInv, [Next]_vars PROVE LockOK'
<1>1. ShapeOK /\ LockOK /\ OpenOK(open, begun)
    BY DEF IInv, ShapeOK, OpenOK
<1>2. FileLockFree => (\A t \in Slot : ~Asked(t)) /\ (\A j \in DOMAIN open : ~Inline(j))
    BY DEF FileLockFree, Asked, Inline
<1>3. \A j \in DOMAIN open' \ DOMAIN open : ~Inline(j)'
    BY OpenStep DEF Inline
<1>4. CASE ~FileLockFree
    <2>1. \A t \in Slot : Asked(t)' => Asked(t)
        BY <1>4, AdminStep
    <2>2. \A j \in DOMAIN open' : Inline(j)' => j \in DOMAIN open /\ Inline(j)
        BY <1>4, OpenStep DEF Inline
    <2> QED BY <1>1, <2>1, <2>2 DEF LockOK
<1>5. CASE FileLockFree
    <2>1. ASSUME NEW s \in Slot, CompactAsked(s) PROVE LockOK'
        <3>1. open' = open /\ \A t \in Slot \ {s} : admin'[t] = admin[t]
            BY <1>1, <2>1 DEF CompactAsked, ShapeOK
        <3> QED BY <1>2, <1>5, <3>1 DEF LockOK, Asked, Inline
    <2>2. ASSUME NEW i \in DOMAIN open, CompactInline(i) PROVE LockOK'
        <3>1. admin' = admin /\ \A j \in DOMAIN open' : j # i => j \in DOMAIN open /\ open'[j] = open[j]
            BY <1>1, <2>2, GotoMoves, DoneLeaves DEF CompactInline, Steps
        <3> QED BY <1>2, <1>5, <3>1 DEF LockOK, Asked, Inline
    <2>3. CASE \/ \E s \in Slot : Add(s) \/ AskCompaction(s) \/ Clear(s) \/ Truncate(s) \/ Restart(s)
               \/ \E i \in DOMAIN open : Finish(i) \/ Persist(i)
               \/ Quiesce \/ Flip \/ UNCHANGED vars
        <3>1. \A t \in Slot : ~Asked(t)'
            <4>1. CASE \E s \in Slot : AskCompaction(s)
                BY <1>1, <1>2, <1>5, <4>1 DEF AskCompaction, Asked, ShapeOK
            <4>2. CASE \E s \in Slot : Restart(s)
                BY <1>1, <1>2, <1>5, <4>2 DEF Restart, Asked, ShapeOK
            <4>3. CASE UNCHANGED admin
                BY <1>2, <1>5, <4>3 DEF Asked
            <4>4. ASSUME NEW s \in Slot, Add(s) \/ Clear(s) \/ Truncate(s) PROVE UNCHANGED admin
                BY <4>4 DEF Add, Clear, Truncate
            <4>5. ASSUME NEW i \in DOMAIN open, Finish(i) \/ Persist(i) PROVE UNCHANGED admin
                BY <4>5 DEF Finish, Persist
            <4>6. ASSUME Quiesce \/ Flip \/ UNCHANGED vars PROVE UNCHANGED admin
                BY <4>6 DEF Quiesce, Flip, vars
            <4> QED BY <2>3, <4>1, <4>2, <4>3, <4>4, <4>5, <4>6
        <3>2. \A j \in DOMAIN open' : ~Inline(j)'
            <4>1. CASE \E s \in Slot : Add(s)
                BY <1>2, <1>5, <4>1 DEF Add, Inline
            <4>2. CASE \E s \in Slot : Restart(s)
                BY <1>2, <1>5, <4>2 DEF Restart, Inline
            <4>3. ASSUME NEW i \in DOMAIN open, Finish(i) \/ Persist(i) PROVE \A j \in DOMAIN open' : ~Inline(j)'
                <5>1. Goto(i, "ended") \/ Goto(i, "compact") \/ Done(i)
                    BY <4>3 DEF Finish, Persist
                <5>2. \A j \in DOMAIN open' : j \in DOMAIN open /\ (open'[j] = open[j] \/ open'[j].at \in {"ended", "compact"})
                    BY <1>1, <5>1, GotoMoves, DoneLeaves DEF Steps
                <5> QED BY <1>2, <1>5, <5>2 DEF Inline
            <4>4. CASE UNCHANGED open
                BY <1>2, <1>5, <4>4 DEF Inline
            <4> QED BY <2>3, <4>1, <4>2, <4>3, <4>4 DEF AskCompaction, Clear, Truncate, Quiesce, Flip, vars
        <3> QED BY <3>1, <3>2 DEF LockOK
    <2> QED BY <2>1, <2>2, <2>3 DEF Next
<1> QED BY <1>4, <1>5

LEMMA AloneStep == ASSUME IInv, [Next]_vars PROVE AloneOK'
<1>1. ShapeOK /\ AloneOK /\ OpenOK(open, begun)
    BY DEF IInv, ShapeOK, OpenOK
<1>2. \A t \in Slot : Other(t) \in Slot /\ Other(t) # t
    BY OtherSlot
<1>3. ASSUME NEW t \in Slot, alone'[t] \/ admin'[t] # "idle"
      PROVE  t = serving' /\ Open(Other(t))' = {} /\ Other(t) \notin clearing'
    <2>1. ASSUME Open(Other(t)) = {}, t = serving PROVE Open(Other(t))' = {}
        <3>1. \A j \in DOMAIN open' : open'[j].slot # Other(t)
            BY <1>2, <2>1, OpenStep DEF Open
        <3> QED BY <3>1 DEF Open
    <2>2. ASSUME NEW s \in Slot, AskCompaction(s) PROVE t = serving' /\ Open(Other(t)) = {} /\ Other(t) \notin clearing' /\ t = serving
        BY <1>1, <1>3, <2>2 DEF AskCompaction, AloneOK, ShapeOK, deployVars
    <2>3. ASSUME NEW s \in Slot, CompactAsked(s) PROVE (alone[t] \/ admin[t] # "idle") /\ UNCHANGED <<serving, clearing>>
        BY <1>1, <1>3, <2>3 DEF CompactAsked, CompactStep, ShapeOK
    <2>4. ASSUME NEW s \in Slot, Add(s) \/ Clear(s) \/ Truncate(s)
          PROVE (alone[t] \/ admin[t] # "idle") /\ serving' = serving /\ clearing' \subseteq clearing \cup {serving}
        BY <1>1, <1>3, <2>4 DEF Add, Clear, Truncate, ShapeOK, deployVars
    <2>5. ASSUME NEW s \in Slot, Restart(s)
          PROVE (alone[t] \/ admin[t] # "idle") /\ serving' = serving /\ clearing' \subseteq clearing
        BY <1>1, <1>3, <2>5 DEF Restart, ShapeOK
    <2>6. ASSUME NEW i \in DOMAIN open, Finish(i) \/ Persist(i) \/ CompactInline(i)
          PROVE (alone[t] \/ admin[t] # "idle") /\ serving' = serving /\ clearing' = clearing
        BY <1>1, <1>3, <2>6 DEF Finish, Persist, CompactInline, deployVars
    <2>7. CASE Quiesce
        BY <1>1, <1>3, <2>1, <2>7 DEF Quiesce, AloneOK, ShapeOK
    <2>8. ~Flip
        BY <1>1, <1>3 DEF Flip, AloneOK, ShapeOK
    <2>9. CASE UNCHANGED vars
        BY <1>1, <1>3, <2>1, <2>9 DEF AloneOK, vars, deployVars
    <2>10. ASSUME alone[t] \/ admin[t] # "idle", serving' = serving, clearing' \subseteq clearing \cup {serving}
           PROVE  t = serving' /\ Open(Other(t))' = {} /\ Other(t) \notin clearing'
        BY <1>1, <1>2, <2>1, <2>10 DEF AloneOK
    <2> QED BY <2>1, <2>2, <2>3, <2>4, <2>5, <2>6, <2>7, <2>8, <2>9, <2>10 DEF Next
<1> QED BY <1>3 DEF AloneOK
-----------------------------------------------------------------------------
(* The lines a step writes.                                                  *)

LinesOK(f, k, a, x, l, n) ==
    {f, k, a} \subseteq Seq(1..n) /\ x \in SUBSET (1..n) /\ l \in [Slot -> Nat]

LEMMA LinesStep == ASSUME IInv, [Next]_vars PROVE LinesOK(file', kept', appended', exposed', lines', begun)
<1>1. LinesOK(file, kept, appended, exposed, lines, begun)
    BY DEF IInv, ShapeOK, LinesOK
<1>2. <<>> \in Seq(1..begun) /\ Len(file) \in Nat /\ Len(kept) \in Nat
    BY <1>1, LenProperties DEF LinesOK
<1>3. CASE Quiet
    BY <1>1, <1>3 DEF Quiet, LinesOK, ghosts
<1>4. CASE Reads
    BY <1>1, <1>4, NewestIs DEF Reads, LinesOK, ghosts
<1>5. CASE Replaces
    BY <1>1, <1>5 DEF Replaces, LinesOK, ghosts
<1>6. ASSUME NEW i \in DOMAIN open, Appends(i)
      PROVE  LinesOK(file', kept', appended', exposed', lines', begun)
    <2>1. i \in 1..begun /\ open[i].slot \in Slot
        BY DEF IInv, ShapeOK
    <2>2. file' \in Seq(1..begun) /\ appended' \in Seq(1..begun)
        BY <1>1, <1>6, <2>1, Appended DEF Appends, LinesOK
    <2>3. PICK t \in Slot : t = open[i].slot
        BY <2>1
    <2>4. lines' \in [Slot -> Nat]
        BY <1>1, <1>6, <2>3 DEF Appends, LinesOK
    <2>5. exposed' \in SUBSET (1..begun)
        BY <1>1, <1>6, <2>1 DEF Appends, LinesOK
    <2> QED BY <1>1, <1>6, <2>2, <2>4, <2>5 DEF Appends, LinesOK
<1>7. ASSUME NEW s \in Slot, Counts(s)
      PROVE  LinesOK(file', kept', appended', exposed', lines', begun)
    BY <1>1, <1>2, <1>7 DEF Counts, LinesOK, ghosts
<1>8. ASSUME NEW s \in Slot, Empties(s)
      PROVE  LinesOK(file', kept', appended', exposed', lines', begun)
    <2>1. \A seq \in Seq(1..begun) : ToSet(seq) \subseteq 1..begun
        BY ElementOfSeq, LenProperties DEF ToSet
    <2>2. ToSet(kept) \in SUBSET (1..begun)
        BY <1>1, <2>1 DEF LinesOK
    <2> QED BY <1>1, <1>2, <1>8, <2>2 DEF Empties, LinesOK
<1>9. ASSUME NEW s \in Slot, Restarts(s)
      PROVE  LinesOK(file', kept', appended', exposed', lines', begun)
    BY <1>1, <1>2, <1>9 DEF Restarts, LinesOK, ghosts
<1> QED BY <1>3, <1>4, <1>5, <1>6, <1>7, <1>8, <1>9, Effects

LEMMA ShapeStep == ASSUME IInv, [Next]_vars PROVE ShapeOK'
<1>1. begun \in Nat /\ begun' \in Nat /\ begun' >= begun /\ OpenOK(open', begun')
    BY OpenStep DEF IInv, ShapeOK
<1>2. PICK small : small = 1..begun
    OBVIOUS
<1>3. PICK large : large = 1..begun'
    OBVIOUS
<1>4. small \subseteq large
    BY <1>1, <1>2, <1>3
<1>5. \A seq \in Seq(small) : seq \in Seq(large)
    <2>1. ASSUME NEW seq \in Seq(small) PROVE seq \in Seq(large)
        <3>1. PICK n \in Nat : seq \in [1..n -> small]
            BY SeqDef
        <3>2. seq \in [1..n -> large]
            BY <1>4, <3>1
        <3> QED BY <3>2, SeqDef
    <2> QED BY <2>1
<1>6. LinesOK(file', kept', appended', exposed', lines', begun')
    BY <1>2, <1>3, <1>4, <1>5, LinesStep DEF LinesOK
<1> QED BY <1>1, <1>6, AdminStep DEF LinesOK, OpenOK, ShapeOK

LEMMA OnceStep == ASSUME IInv, [Next]_vars PROVE OnceOK'
<1> DEFINE Fresh(i) == i \notin ToSet(file) \union ToSet(kept) \union exposed
           Unseen == \A j \in DOMAIN open' : open'[j].at \in {"pending", "ended"} => Fresh(j)
           Lines == IsInjective(file) /\ IsInjective(kept) /\ Len(kept) <= RingSize
<1>1. ShapeOK /\ OnceOK /\ file \in Seq(1..begun) /\ kept \in Seq(1..begun) /\ Lines
    BY DEF IInv, ShapeOK, OnceOK
<1>2. IsInjective(<<>>) /\ Len(<<>>) <= RingSize /\ ToSet(<<>>) = {}
    BY HistoryBoundsAssumption DEF IsInjective, ToSet
<1>3. Unseen
    <2>1. \A seq \in Seq(1..begun) : ToSet(seq) \subseteq 1..begun
        BY ElementOfSeq, LenProperties DEF ToSet
    <2>2. \A j : j \notin 1..begun => Fresh(j)
        BY <1>1, <2>1 DEF ShapeOK
    <2> QED BY <1>1, <2>2, OpenStep DEF OnceOK
<1>4. ASSUME ToSet(file') \subseteq ToSet(file) \cup ToSet(kept), ToSet(kept') \subseteq ToSet(kept) \cup ToSet(file),
             exposed' \subseteq exposed \cup ToSet(kept), Lines'
      PROVE  OnceOK'
    BY <1>3, <1>4 DEF OnceOK
<1>5. CASE Quiet
    BY <1>1, <1>4, <1>5 DEF Quiet, ghosts
<1>6. CASE Reads
    BY <1>1, <1>4, <1>6, NewestIs, NewestSubset DEF Reads, ghosts
<1>7. CASE Replaces
    BY <1>1, <1>4, <1>7 DEF Replaces, ghosts
<1>8. ASSUME NEW i \in DOMAIN open, Persist(i), Appends(i) PROVE OnceOK'
    <2>1. i \in 1..begun /\ i \notin ToSet(file) /\ OpenOK(open, begun) /\ kept' = kept
        BY <1>1, <1>8 DEF ShapeOK, OnceOK, Persist, Appends, OpenOK
    <2>2. IsInjective(file') /\ ToSet(file') \subseteq ToSet(file) \cup {i}
        <3>1. PICK R : R = 1..begun
            OBVIOUS
        <3>2. i \in R /\ file \in Seq(R)
            BY <1>1, <2>1, <3>1
        <3>3. PICK f : f = Append(file, i)
            OBVIOUS
        <3>4. IsInjective(f) /\ ToSet(f) = ToSet(file) \cup {i}
            BY <1>1, <2>1, <3>2, <3>3, Appended
        <3> QED BY <1>8, <3>3, <3>4 DEF Appends
    <2>3. exposed' \subseteq exposed \cup {i}
        BY <1>8 DEF Appends
    <2>4. \A j \in DOMAIN open' : open'[j].at \in {"pending", "ended"} => j # i
        BY <2>1, <1>8, GotoMoves, DoneLeaves DEF Persist, Steps
    <2> QED BY <1>1, <1>3, <2>1, <2>2, <2>3, <2>4 DEF OnceOK
<1>9. ASSUME NEW s \in Slot, Counts(s) PROVE OnceOK'
    BY <1>1, <1>2, <1>4, <1>9 DEF Counts, ghosts
<1>10. ASSUME NEW s \in Slot, Empties(s) PROVE OnceOK'
    BY <1>1, <1>2, <1>4, <1>10 DEF Empties
<1>11. ASSUME NEW s \in Slot, Restarts(s) PROVE OnceOK'
    BY <1>1, <1>2, <1>4, <1>11 DEF Restarts, ghosts
<1> QED BY <1>5, <1>6, <1>7, <1>8, <1>9, <1>10, <1>11, Effects
-----------------------------------------------------------------------------
(* The count of a slot that is alone.                                        *)

\* A slot becomes alone as its compaction ends; while it is alone its requests
\* hold fmu until theirs has.
LEMMA SlotsStep ==
    ASSUME IInv, [Next]_vars, NEW t \in Slot, alone'[t]
    PROVE  Counts(t) \/ (alone[t] /\ (FmuFree(t)' => FmuFree(t)))
<1>1. ShapeOK /\ OpenOK(open, begun)
    BY DEF IInv, ShapeOK, OpenOK
<1>2. ASSUME open' = open PROVE FmuFree(t)' => FmuFree(t)
    BY <1>2 DEF FmuFree, Open
<1>3. ASSUME NEW s \in Slot, CompactAsked(s)
      PROVE  Counts(t) \/ (alone[t] /\ (FmuFree(t)' => FmuFree(t)))
    <2>1. open' = open /\ (t # s => alone'[t] = alone[t])
        BY <1>1, <1>3 DEF CompactAsked, ShapeOK
    <2> QED BY <1>2, <1>3, <2>1, StepAsked
<1>4. ASSUME NEW i \in DOMAIN open, NEW l \in {"ended", "compact", "replace", "count"}, Goto(i, l),
             open[i].at = "pending" \/ l # "ended"
      PROVE  FmuFree(t)' => FmuFree(t)
    BY <1>1, <1>4, GotoMoves DEF FmuFree, Open, Steps
<1>5. ASSUME NEW i \in DOMAIN open, Done(i), open[i].at \in {"pending", "ended"}
      PROVE  FmuFree(t)' => FmuFree(t)
    BY <1>1, <1>5, DoneLeaves DEF FmuFree, Open
<1>6. ASSUME NEW i \in DOMAIN open, Finish(i) \/ Persist(i)
      PROVE  alone[t] /\ (FmuFree(t)' => FmuFree(t))
    BY <1>4, <1>5, <1>6 DEF Finish, Persist, deployVars
<1>7. ASSUME NEW i \in DOMAIN open, CompactInline(i)
      PROVE  Counts(t) \/ (alone[t] /\ (FmuFree(t)' => FmuFree(t)))
    <2>1. alone[t] /\ admin' = admin
        BY <1>7 DEF CompactInline, deployVars
    <2>2. CASE Goto(i, "replace") \/ Goto(i, "count")
        BY <1>4, <2>1, <2>2
    <2>3. CASE Counts(open[i].slot)
        <3>1. CASE open[i].slot = t
            BY <2>3, <3>1
        <3>2. CASE open[i].slot # t
            <4>1. Open(Other(t)) = {}
                BY <2>1 DEF IInv, AloneOK
            <4> QED BY <1>1, <3>2, <4>1, OtherSlot DEF Open, OpenOK
        <3> QED BY <3>1, <3>2
    <2> QED BY <1>7, <2>2, <2>3, StepInline
<1>8. ASSUME NEW s \in Slot, Restart(s) PROVE alone[t] /\ (FmuFree(t)' => FmuFree(t))
    <2>1. t # s /\ alone[t]
        BY <1>1, <1>8 DEF Restart, ShapeOK
    <2>2. \A j \in Open(t) : j \in Open(t)' /\ open'[j] = open[j]
        BY <1>1, <1>8, <2>1 DEF Restart, Open
    <2> QED BY <2>1, <2>2 DEF FmuFree
<1>9. ASSUME NEW s \in Slot, Add(s) PROVE alone[t] /\ (FmuFree(t)' => FmuFree(t))
    <2>1. begun + 1 \notin DOMAIN open
        BY <1>1 DEF OpenOK, ShapeOK
    <2>2. /\ \A j \in DOMAIN open : open'[j] = open[j]
          /\ DOMAIN open \subseteq DOMAIN open'
        BY <1>9, <2>1 DEF Add
    <2>3. \A j \in Open(t) : j \in Open(t)' /\ open'[j] = open[j]
        BY <2>2 DEF Open
    <2> QED BY <1>9, <2>3 DEF FmuFree, Add, deployVars
<1>10. CASE \/ \E s \in Slot : AskCompaction(s) \/ Clear(s) \/ Truncate(s)
            \/ Flip \/ UNCHANGED vars
    BY <1>2, <1>10 DEF AskCompaction, Clear, Truncate, Flip, vars, deployVars
<1>11. CASE Quiesce
    BY <1>1, <1>2, <1>11 DEF Quiesce, ShapeOK
<1> QED BY <1>3, <1>6, <1>7, <1>8, <1>9, <1>10, <1>11 DEF Next

\* The exposed lines only grow.
LEMMA ExposedStep ==
    ASSUME IInv, [Next]_vars
    PROVE  /\ IsFiniteSet(exposed) /\ IsFiniteSet(exposed')
           /\ Cardinality(exposed) \in Nat /\ Cardinality(exposed') \in Nat
           /\ Cardinality(exposed') >= Cardinality(exposed)
<1>1. begun \in Nat /\ exposed \in SUBSET (1..begun) /\ exposed' \in SUBSET (1..begun)
    BY LinesStep DEF IInv, ShapeOK, LinesOK
<1>2. IsFiniteSet(exposed) /\ IsFiniteSet(exposed')
    <2>1. IsFiniteSet(1..begun)
        BY <1>1, FS_Interval
    <2> QED BY <1>1, <2>1, FS_Subset
<1>3. exposed \in SUBSET exposed'
    BY Effects DEF Quiet, Reads, Replaces, Appends, Counts, Empties, Restarts, ghosts
<1> QED BY <1>2, <1>3, FS_CardinalityType, FS_Subset

LEMMA CountStep == ASSUME IInv, [Next]_vars PROVE CountOK'
<1> DEFINE X == Cardinality(exposed)
<1>1. /\ ShapeOK /\ OnceOK /\ CountOK /\ AloneOK /\ RingSize \in Nat
      /\ file \in Seq(1..begun) /\ kept \in Seq(1..begun) /\ Len(file) \in Nat /\ Len(kept) \in Nat
    BY HistoryBoundsAssumption, LenProperties DEF IInv, ShapeOK
<1>2. X \in Nat /\ X' \in Nat /\ X' >= X
    BY ExposedStep
<1>3. \A s \in Slot : lines[s] \in Nat /\ lines'[s] \in Nat
    BY <1>1, LinesStep DEF ShapeOK, LinesOK
<1>4. \A t \in Slot : alone'[t] => Counts(t) \/ (alone[t] /\ (FmuFree(t)' => FmuFree(t)))
    BY SlotsStep
<1>5. ASSUME NEW s \in Slot, Counts(s) PROVE CountOK'
    <2>1. \A t \in Slot \ {s} : ~alone[t]
        <3>1. ASSUME NEW t \in Slot, t # s, alone[t] PROVE FALSE
            <4>1. Other(t) = s /\ Open(s) = {} /\ t = serving
                BY <1>1, <3>1, OtherSlot DEF AloneOK
            <4>2. admin[s] = "idle"
                BY <1>1, <3>1, <4>1 DEF AloneOK
            <4> QED BY <1>5, <4>1, <4>2 DEF Counts
        <3> QED BY <3>1
    <2>2. \A t \in Slot : Counts(t) => t = s
        BY <1>5 DEF Counts, IInv, LockOK, Asked, Inline, Open
    <2>3. lines'[s] = Len(kept) /\ Len(file) <= Len(kept) + X /\ X' = X /\ file' = file
        BY <1>1, <1>5 DEF Counts, CountOK, ShapeOK, ghosts
    <2>4. lines'[s] <= 2 * RingSize
        BY <1>1, <2>3 DEF OnceOK
    <2>5. \A t \in Slot : alone'[t] => t = s
        BY <1>4, <2>1, <2>2
    <2> QED BY <1>5, <2>3, <2>4, <2>5 DEF Counts, NoneAt, CountOK
<1> SUFFICES ASSUME \A s \in Slot : ~Counts(s) PROVE CountOK'
    BY <1>5
<1>6. \A t \in Slot : alone'[t] =>
        /\ alone[t] /\ Len(file) <= lines[t] + X /\ (At("replace") => Len(kept) <= lines[t] + X)
        /\ FmuFree(t)' => lines[t] <= 2 * RingSize
    BY <1>1, <1>4 DEF CountOK
<1>7. CASE Quiet
    BY <1>1, <1>6, <1>7 DEF Quiet, AtStays, CountOK, ghosts
<1>8. CASE Reads
    <2>1. ~At("count")' /\ kept' = Newest(file) /\ UNCHANGED <<file, lines, exposed>>
        BY <1>8 DEF Reads, ghosts
    <2>2. Len(kept') <= Len(file) /\ Len(kept') \in Nat
        BY <1>1, <2>1, NewestIs, LenProperties
    <2> QED BY <1>1, <1>2, <1>3, <1>6, <2>1, <2>2 DEF CountOK
<1>9. CASE Replaces
    BY <1>1, <1>2, <1>6, <1>9 DEF Replaces, CountOK, ghosts
<1>10. ASSUME NEW i \in DOMAIN open, Persist(i), Appends(i) PROVE CountOK'
    <2>1. PICK s \in Slot : s = open[i].slot
        BY <1>1 DEF ShapeOK
    <2>2. \A t \in Slot : alone'[t] => t = s
        <3>1. \A t \in Slot : alone'[t] => Open(Other(t)) = {}
            BY <1>1, <1>6 DEF AloneOK
        <3> QED BY <2>1, <3>1, OtherSlot DEF Open
    <2>3. Len(file') = Len(file) + 1 /\ kept' = kept
        <3>1. i \in 1..begun
            BY <1>1 DEF ShapeOK
        <3> QED BY <1>1, <1>10, <3>1, Appended DEF Appends
    <2>4. lines'[s] = lines[s] + 1
        BY <1>1, <1>10, <2>1 DEF Appends, ShapeOK
    <2>5. alone'[s] /\ FmuFree(s)' => lines'[s] <= 2 * RingSize
        <3>1. SUFFICES ASSUME alone'[s], Goto(i, "compact") PROVE ~FmuFree(s)'
            BY <1>1, <1>3, <1>10, <2>1 DEF Persist, deployVars
        <3>2. i \in Open(s)' /\ open'[i].at = "compact"
            BY <1>1, <2>1, <3>1, GotoMoves DEF ShapeOK, OpenOK, Open, Steps
        <3> QED BY <3>2 DEF FmuFree
    <2>6. At("count")' => At("count") /\ X' = X + 1
        <3>1. SUFFICES ASSUME At("count") PROVE X' = X + 1
            BY <1>10 DEF Appends, AtStays
        <3>2. exposed' = exposed \cup {i} /\ i \notin exposed
            BY <1>1, <1>10, <3>1, LockFree DEF Appends, Persist, OnceOK
        <3> QED BY <3>2, ExposedStep, FS_AddElement
    <2>7. At("replace")' => At("replace")
        BY <1>10 DEF Appends, AtStays
    <2>8. At("count")' => Len(file') <= Len(kept') + X'
        BY <1>1, <1>2, <2>3, <2>6 DEF CountOK
    <2>9. \A t \in Slot : alone'[t] => /\ Len(file') <= lines'[t] + X'
                                       /\ At("replace")' => Len(kept') <= lines'[t] + X'
        BY <1>1, <1>2, <1>3, <1>6, <2>2, <2>3, <2>4, <2>7
    <2> QED BY <2>2, <2>5, <2>8, <2>9 DEF CountOK
<1>11. ASSUME NEW s \in Slot, Empties(s) PROVE CountOK'
    <2>1. file' = <<>> /\ Len(file') = 0 /\ kept' = kept /\ \A t \in Slot : t # s => lines'[t] = lines[t]
        BY <1>1, <1>11 DEF Empties, ShapeOK
    <2>2. lines'[s] = 0
        BY <1>1, <1>11 DEF Empties, ShapeOK
    <2>3. At("replace")' => Len(kept) <= X'
        <3>1. SUFFICES ASSUME At("replace") PROVE Len(kept) <= X'
            BY <1>11 DEF Empties, AtStays
        <3>2. ToSet(kept) \subseteq exposed'
            BY <1>11, <3>1, LockFree DEF Empties
        <3>3. kept \in Injection(1..Len(kept), exposed')
            BY <1>1, <3>2 DEF Injection, ToSet, OnceOK, IsInjective
        <3>4. Cardinality(1..Len(kept)) <= X'
            BY <3>3, ExposedStep, FS_Injection
        <3>5. PICK n \in Nat : n = Len(kept)
            BY <1>1
        <3>6. Cardinality(1..n) = n
            BY FS_Interval
        <3> QED BY <3>4, <3>5, <3>6
    <2>4. \A t \in Slot : alone'[t] => /\ At("replace")' => Len(kept') <= lines'[t] + X'
                                       /\ FmuFree(t)' => lines'[t] <= 2 * RingSize
        BY <1>1, <1>2, <1>3, <1>6, <2>1, <2>2, <2>3
    <2> QED BY <1>1, <1>2, <1>3, <2>1, <2>4 DEF CountOK
<1>12. ASSUME NEW s \in Slot, Restarts(s) PROVE CountOK'
    <2>1. file' = file /\ X' = X /\ ~alone'[s] /\ \A t \in Slot : t # s => lines'[t] = lines[t]
        BY <1>1, <1>12 DEF Restarts, ShapeOK, ghosts
    <2>2. (At("count")' => At("count") /\ kept' = kept) /\ (At("replace")' => At("replace") /\ kept' = kept)
        BY <1>12 DEF Restarts, AtStays, NoneAt
    <2>3. At("count")' => Len(file') <= Len(kept') + X'
        BY <1>1, <2>1, <2>2 DEF CountOK
    <2>4. \A t \in Slot : alone'[t] => /\ Len(file') <= lines'[t] + X'
                                       /\ At("replace")' => Len(kept') <= lines'[t] + X'
                                       /\ FmuFree(t)' => lines'[t] <= 2 * RingSize
        BY <1>6, <2>1, <2>2
    <2> QED BY <2>3, <2>4 DEF CountOK
<1> QED BY <1>7, <1>8, <1>9, <1>10, <1>11, <1>12, Effects
-----------------------------------------------------------------------------

LEMMA Invariance == Spec => []IInv
<1>1. ASSUME IInv, [Next]_vars PROVE IInv'
    BY <1>1, ShapeStep, LockStep, AloneStep, OnceStep, NewestStep, ClearedStep, CountStep DEF IInv
<1> QED BY <1>1, InitInv, PTL DEF Spec

\* A compaction, asked for or inline, drops none of the newest RingSize lines but
\* those a live compaction exposed, and a slot alone keeps the file short
\* (Persist, CompactAfterDrain).
THEOREM NewestKept == Spec => []NewestKeptUnlessExposed
<1>1. ASSUME IInv PROVE ToSet(Newest(appended)) \ exposed \subseteq ToSet(file)
    <2>1. appended \in Seq(1..begun) /\ Has(file)
        BY <1>1 DEF IInv, ShapeOK, NewestOK
    <2>2. PICK new \in Seq(1..begun) : new = Newest(appended)
        BY <2>1, NewestIs
    <2>3. PICK d \in Nat : /\ Len(appended) = Len(new) + d /\ Len(new) <= RingSize
                           /\ \A p \in 1..Len(new) : new[p] = appended[p + d]
        BY <2>1, <2>2, NewestIs
    <2>4. DOMAIN new = 1..Len(new) /\ Len(new) \in Nat /\ DOMAIN appended = 1..Len(appended)
        BY <2>1, LenProperties
    <2>5. ASSUME NEW p \in DOMAIN new, new[p] \notin exposed PROVE new[p] \in ToSet(file)
        <3>1. p + d \in DOMAIN appended /\ Len(appended) - (p + d) < RingSize /\ appended[p + d] = new[p]
            BY <2>3, <2>4, HistoryBoundsAssumption
        <3> QED BY <2>1, <2>5, <3>1 DEF Has, ToSet
    <2> QED BY <2>2, <2>5 DEF ToSet
<1>2. ASSUME IInv, NEW s \in Slot, alone[s], FmuFree(s) PROVE Len(file) <= 2 * RingSize + Cardinality(exposed)
    <2>1. Len(file) \in Nat /\ lines[s] \in Nat /\ Cardinality(exposed) \in Nat /\ RingSize \in Nat
        <3>1. begun \in Int /\ exposed \in SUBSET (1..begun)
            BY <1>2 DEF IInv, ShapeOK
        <3>2. IsFiniteSet(1..begun)
            BY <3>1, FS_Interval
        <3>3. IsFiniteSet(exposed)
            BY <3>1, <3>2, FS_Subset
        <3> QED BY <1>2, <3>3, FS_CardinalityType, LenProperties, HistoryBoundsAssumption DEF IInv, ShapeOK
    <2> QED BY <1>2, <2>1 DEF IInv, CountOK
<1>3. IInv => NewestKeptUnlessExposed
    BY <1>1, <1>2 DEF NewestKeptUnlessExposed
<1> QED BY <1>3, Invariance, PTL

\* What a clear removed returns only through a compaction that was under way
\* (Clear, Persist).
THEOREM ClearedStays == Spec => []ClearedStaysCleared
<1>1. IInv => ClearedStaysCleared
    BY DEF IInv
<1> QED BY <1>1, Invariance, PTL
-----------------------------------------------------------------------------
(***************************************************************************)
(* The limits.  NeverOlder looks at one write.  What makes the write safe  *)
(* was settled steps earlier, when the saver merged the file under the     *)
(* lock, and has to survive what happens until the write: other savers,    *)
(* which the lock keeps from the file, and observations, which replace     *)
(* what was merged but by something newer as long as the clock is not set  *)
(* back.                                                                   *)
(***************************************************************************)

Times == [L!Kind -> Nat]

LimitsType ==
    /\ now \in Nat /\ top \in Nat
    /\ role \in [Process -> {"down", "standby", "active", "quiesced", "draining"}]
    /\ memory \in [Process -> Times] /\ disk \in Times /\ draft \in [Process -> Times]
    /\ dirty \in [Process -> BOOLEAN] /\ failed \in [Process -> BOOLEAN]
    /\ saver \in [Process -> {"idle", "asked", "wait", "merge", "copy", "write"}]
    /\ asOf \in [Process -> Nat] /\ crossed \subseteq Process /\ unread \subseteq Process
    /\ observations \in Nat /\ changes \in Nat

\* The file lock, and what is left of a process that has ended.
SaveLockInv ==
    /\ \A s, t \in Process : L!Locks(s) /\ L!Locks(t) => s = t
    /\ \A s \in Process : role[s] = "down" => saver[s] = "idle" /\ ~dirty[s]

\* No clock has been read that is behind the one the save began with.
SaveClockInv == \A s \in Process : L!Locks(s) /\ s \notin crossed => asOf[s] <= now

\* o holds what the file does or something newer, and is not of the future.
Covers(o, s, k) == \/ disk[k] = 0 \/ L!Future(disk[k], asOf[s])
                   \/ o[k] >= disk[k] /\ ~L!Future(o[k], now)

\* From its merge to its write a saver holds what the file does.
SaveReadInv ==
    \A s \in Process, k \in L!Kind : s \notin crossed \cup unread =>
        /\ saver[s] = "copy" => Covers(memory[s], s, k)
        /\ saver[s] = "write" => Covers(draft[s], s, k)

LimitsInv == LimitsType /\ SaveLockInv /\ SaveClockInv /\ SaveReadInv
-----------------------------------------------------------------------------
(* Merging.                                                                *)

LEMMA MergeType ==
    ASSUME NEW a \in Times, NEW b \in Times, NEW c \in Nat
    PROVE  L!Merge(a, b, c) \in Times
BY ClockAssumption DEF L!Merge, Times

\* A saver that merges the file at its clock holds what the file does.
LEMMA MergeCovers ==
    ASSUME NEW m \in Nat, NEW d \in Nat, NEW c \in Nat, NEW n \in Nat, c <= n
    PROVE  LET r == IF L!Replaces(d, m, c) THEN d ELSE m
           IN  d = 0 \/ L!Future(d, c) \/ (r >= d /\ ~L!Future(r, n))
BY ClockAssumption DEF L!Replaces, L!Future

\* An observation leaves what is held or replaces it by something newer.
LEMMA ObserveCovers ==
    ASSUME NEW m \in Nat, NEW d \in Nat, NEW n \in Nat, NEW o \in Nat,
           m >= d, ~L!Future(m, n), d # 0
    PROVE  LET r == IF L!Replaces(o, m, n) THEN o ELSE m IN r >= d /\ ~L!Future(r, n)
BY ClockAssumption DEF L!Replaces, L!Future

LEMMA LaterFuture ==
    ASSUME NEW t \in Nat, NEW c \in Nat, NEW n \in Nat, c <= n, L!Future(t, n)
    PROVE  L!Future(t, c)
BY ClockAssumption DEF L!Future
-----------------------------------------------------------------------------
(* The types.                                                              *)

LEMMA LimitsTypeStep == LimitsType /\ [L!Next]_(L!vars) => LimitsType'
<1> SUFFICES ASSUME LimitsType, [L!Next]_(L!vars) PROVE LimitsType'
    OBVIOUS
<1> USE DEF LimitsType, L!clockVars, L!saveVars
<1>1. ASSUME NEW s \in Process, NEW k \in L!Kind, NEW at \in 1..top, L!Observe(s, k, at) PROVE LimitsType'
    <2>1. [L!Nothing EXCEPT ![k] = at] \in Times
        BY DEF L!Nothing, Times
    <2>2. L!Merge(memory[s], [L!Nothing EXCEPT ![k] = at], now) \in Times
        BY <2>1, MergeType
    <2>3. dirty' \in [Process -> BOOLEAN]
        BY <1>1 DEF L!Observe, L!Schedule
    <2>4. memory' \in [Process -> Times]
        BY <1>1, <2>2 DEF L!Observe
    <2> QED BY <1>1, <2>3, <2>4 DEF L!Observe
<1>2. ASSUME NEW s \in Process, L!Saver(s) PROVE LimitsType'
    <2>1. CASE L!TakeRequest(s) BY <2>1 DEF L!TakeRequest, L!Goto
    <2>2. CASE L!MaySave(s) BY <2>2 DEF L!MaySave, L!Goto
    <2>3. CASE L!Lock(s) BY <2>3 DEF L!Lock, L!Goto
    <2>4. CASE L!MergeFile(s)
        <3>1. L!Merge(memory[s], disk, asOf[s]) \in Times
            BY MergeType
        <3>2. memory' \in [Process -> Times] /\ unread' \subseteq Process /\ changes' \in Nat
            BY <2>4, <3>1 DEF L!MergeFile, L!Happen
        <3> QED BY <2>4, <3>2 DEF L!MergeFile, L!Goto
    <2>5. CASE L!Copy(s) BY <2>5 DEF L!Copy, L!Goto
    <2>6. CASE L!Write(s)
        <3>1. L!Nothing \in Times
            BY DEF L!Nothing, Times
        <3>2. \E b \in BOOLEAN : failed' = [failed EXCEPT ![s] = b]
            BY <2>6 DEF L!Write
        <3>3. failed' \in [Process -> BOOLEAN]
            BY <3>2
        <3>4. disk' \in Times /\ changes' \in Nat
            BY <2>6 DEF L!Write, L!Happen
        <3> QED BY <2>6, <3>1, <3>3, <3>4 DEF L!Write, L!Goto
    <2> QED BY <1>2, <2>1, <2>2, <2>3, <2>4, <2>5, <2>6 DEF L!Saver
<1>3. ASSUME NEW s \in Process, L!LockTimesOut(s) PROVE LimitsType'
    BY <1>3 DEF L!LockTimesOut, L!Happen, L!Goto
<1>4. ASSUME NEW s \in Process, L!Activate(s) \/ L!Quiesce(s) \/ L!Drain(s) PROVE LimitsType'
    BY <1>4 DEF L!Activate, L!Quiesce, L!Drain, L!ChangeRole, L!Happen
<1>5. ASSUME NEW s \in Process, L!Exit(s) PROVE LimitsType'
    <2>1. L!Nothing \in Times
        BY DEF L!Nothing, Times
    <2> QED BY <1>5, <2>1 DEF L!Exit, L!Happen
<1>6. ASSUME NEW s \in Process, L!Start(s) PROVE LimitsType'
    <2>1. L!Nothing \in Times
        BY DEF L!Nothing, Times
    <2>2. memory' \in [Process -> Times] /\ changes' \in Nat
        BY <1>6, <2>1 DEF L!Start, L!Happen
    <2> QED BY <1>6, <2>2 DEF L!Start
<1>7. CASE L!Tick
    BY <1>7 DEF L!Tick
<1>8. CASE L!SetClockBack
    BY <1>8 DEF L!SetClockBack, L!Happen
<1>9. CASE UNCHANGED L!vars
    BY <1>9 DEF L!vars
<1> QED BY <1>1, <1>2, <1>3, <1>4, <1>5, <1>6, <1>7, <1>8, <1>9 DEF L!Next
-----------------------------------------------------------------------------
(* The lock, the clock and what a saver holds.                             *)

LEMMA SaveLockStep == LimitsType /\ SaveLockInv /\ [L!Next]_(L!vars) => SaveLockInv'
<1> SUFFICES ASSUME LimitsType, SaveLockInv, [L!Next]_(L!vars) PROVE SaveLockInv'
    OBVIOUS
<1> USE DEF LimitsType, SaveLockInv, L!Locks, L!clockVars, L!saveVars
<1>1. ASSUME NEW s \in Process, L!Saver(s) PROVE SaveLockInv'
    BY <1>1 DEF L!Saver, L!TakeRequest, L!MaySave, L!Lock, L!MergeFile, L!Copy, L!Write, L!Goto
<1>2. ASSUME NEW s \in Process, L!LockTimesOut(s) \/ L!Exit(s) PROVE SaveLockInv'
    BY <1>2 DEF L!LockTimesOut, L!Exit, L!Goto
<1>3. ASSUME NEW s \in Process, NEW k \in L!Kind, NEW at \in 1..top, L!Observe(s, k, at) PROVE SaveLockInv'
    BY <1>3 DEF L!Observe, L!Schedule, L!Relays
<1>4. ASSUME NEW s \in Process, L!Activate(s) \/ L!Quiesce(s) \/ L!Drain(s) \/ L!Start(s) PROVE SaveLockInv'
    BY <1>4 DEF L!Activate, L!Quiesce, L!Drain, L!ChangeRole, L!Start
<1>5. CASE UNCHANGED <<saver, role, dirty>>
    BY <1>5
<1> QED BY <1>1, <1>2, <1>3, <1>4, <1>5 DEF L!Next, L!Tick, L!SetClockBack, L!vars

LEMMA SaveClockStep == LimitsType /\ SaveClockInv /\ [L!Next]_(L!vars) => SaveClockInv'
<1> SUFFICES ASSUME LimitsType, SaveClockInv, [L!Next]_(L!vars) PROVE SaveClockInv'
    OBVIOUS
<1> USE DEF LimitsType, SaveClockInv, L!Locks, L!clockVars, L!saveVars
<1>1. ASSUME NEW s \in Process, L!Saver(s) PROVE SaveClockInv'
    BY <1>1 DEF L!Saver, L!TakeRequest, L!MaySave, L!Lock, L!MergeFile, L!Copy, L!Write, L!Goto
<1>2. ASSUME NEW s \in Process, L!LockTimesOut(s) \/ L!Exit(s) PROVE SaveClockInv'
    BY <1>2 DEF L!LockTimesOut, L!Exit, L!Goto
<1>3. CASE L!Tick
    BY <1>3 DEF L!Tick
<1>4. CASE L!SetClockBack
    BY <1>4 DEF L!SetClockBack
<1>5. CASE UNCHANGED <<now, saver, asOf, crossed>>
    BY <1>5
<1> QED BY <1>1, <1>2, <1>3, <1>4, <1>5 DEF L!Next, L!Observe, L!Activate, L!Quiesce, L!Drain, L!ChangeRole,
                                            L!Start, L!vars

LEMMA SaveReadStep == LimitsInv /\ [L!Next]_(L!vars) => SaveReadInv'
<1> SUFFICES ASSUME LimitsInv, [L!Next]_(L!vars),
                    NEW s \in Process, NEW k \in L!Kind, s \notin crossed', s \notin unread'
             PROVE  /\ saver'[s] = "copy" => Covers(memory[s], s, k)'
                    /\ saver'[s] = "write" => Covers(draft[s], s, k)'
    BY DEF SaveReadInv
<1> USE DEF LimitsInv
<1>1. LimitsType' /\ SaveLockInv' /\ SaveClockInv'
    BY LimitsTypeStep, SaveLockStep, SaveClockStep
\* Nothing of this saver or of the file changes, and no clock is set back.
<1>2. ASSUME s \notin crossed, s \notin unread, saver'[s] = saver[s], memory'[s] = memory[s],
             draft'[s] = draft[s], asOf'[s] = asOf[s], disk' = disk, now <= now'
      PROVE  /\ saver'[s] = "copy" => Covers(memory[s], s, k)'
             /\ saver'[s] = "write" => Covers(draft[s], s, k)'
    BY <1>1, <1>2, ClockAssumption DEF SaveReadInv, Covers, L!Future, LimitsType, Times
<1>3. ASSUME NEW t \in Process, NEW j \in L!Kind, NEW at \in 1..top, L!Observe(t, j, at)
      PROVE  /\ saver'[s] = "copy" => Covers(memory[s], s, k)'
             /\ saver'[s] = "write" => Covers(draft[s], s, k)'
    <2> DEFINE o == [L!Nothing EXCEPT ![j] = at]
               r == IF L!Replaces(o[k], memory[s][k], now) THEN o[k] ELSE memory[s][k]
    <2>1. /\ saver' = saver /\ draft' = draft /\ asOf' = asOf /\ disk' = disk /\ now' = now
          /\ crossed' = crossed /\ unread' = unread
        BY <1>3 DEF L!Observe, L!clockVars
    <2>2. CASE t # s
        BY <1>2, <1>3, <2>1, <2>2 DEF L!Observe, LimitsType
    <2>3. CASE t = s
        <3>1. memory'[s][k] = r
            BY <1>3, <2>3 DEF L!Observe, L!Merge, LimitsType
        <3>2. o[k] \in Nat /\ memory[s][k] \in Nat /\ disk[k] \in Nat /\ now \in Nat
            BY DEF L!Nothing, LimitsType, Times
        <3>3. ASSUME disk[k] # 0, ~L!Future(disk[k], asOf[s]), saver[s] = "copy"
              PROVE  r >= disk[k] /\ ~L!Future(r, now)
            <4>1. memory[s][k] >= disk[k] /\ ~L!Future(memory[s][k], now)
                BY <2>1, <3>3 DEF SaveReadInv, Covers
            <4> QED BY <3>2, <3>3, <4>1, ObserveCovers
        <3> HIDE DEF r
        <3>4. saver'[s] = "copy" => Covers(memory[s], s, k)'
            BY <2>1, <3>1, <3>3 DEF Covers, L!Future
        <3>5. saver'[s] = "write" => Covers(draft[s], s, k)'
            BY <2>1 DEF SaveReadInv, Covers, L!Future
        <3> QED BY <3>4, <3>5
    <2> QED BY <2>2, <2>3
<1>4. ASSUME NEW t \in Process, t # s, L!Saver(t) \/ L!LockTimesOut(t) \/ L!Exit(t)
      PROVE  /\ saver'[s] = "copy" => Covers(memory[s], s, k)'
             /\ saver'[s] = "write" => Covers(draft[s], s, k)'
    <2>1. /\ saver'[s] = saver[s] /\ memory'[s] = memory[s] /\ draft'[s] = draft[s]
          /\ asOf'[s] = asOf[s] /\ now' = now /\ s \notin crossed /\ s \notin unread
        BY <1>4 DEF L!Saver, L!TakeRequest, L!MaySave, L!Lock, L!MergeFile, L!Copy, L!Write, L!LockTimesOut, L!Exit,
                    L!Goto, LimitsType, L!clockVars
    <2>2. CASE disk' = disk
        BY <1>2, <2>1, <2>2 DEF LimitsType
    <2>3. CASE disk' # disk
        <3>1. L!Locks(t)
            BY <1>4, <2>3 DEF L!Saver, L!TakeRequest, L!MaySave, L!Lock, L!MergeFile, L!Copy, L!Write,
                              L!LockTimesOut, L!Exit, L!Locks
        <3>2. ~L!Locks(s)
            BY <1>4, <3>1 DEF SaveLockInv
        <3> QED BY <2>1, <3>2 DEF L!Locks
    <2> QED BY <2>2, <2>3
<1>5. ASSUME L!Saver(s) \/ L!LockTimesOut(s) \/ L!Exit(s)
      PROVE  /\ saver'[s] = "copy" => Covers(memory[s], s, k)'
             /\ saver'[s] = "write" => Covers(draft[s], s, k)'
    <2>1. CASE L!MergeFile(s)
        <3> DEFINE r == IF L!Replaces(disk[k], memory[s][k], asOf[s]) THEN disk[k] ELSE memory[s][k]
        <3>1. /\ memory'[s][k] = r /\ saver'[s] = "copy" /\ disk' = disk /\ asOf' = asOf
              /\ now' = now
            BY <2>1 DEF L!MergeFile, L!Merge, L!Goto, LimitsType, L!clockVars
        <3>2. asOf[s] <= now
            BY <2>1 DEF L!MergeFile, SaveClockInv, L!Locks
        <3>3. disk[k] = 0 \/ L!Future(disk[k], asOf[s]) \/ (r >= disk[k] /\ ~L!Future(r, now))
            BY <3>2, MergeCovers DEF LimitsType, Times
        <3> HIDE DEF r
        <3> QED BY <3>1, <3>3 DEF Covers, L!Future
    <2>2. CASE L!Copy(s)
        BY <2>2 DEF L!Copy, L!Goto, SaveReadInv, Covers, L!Future, LimitsType, L!clockVars
    <2>3. CASE ~(L!MergeFile(s) \/ L!Copy(s))
        <3>1. saver'[s] \notin {"copy", "write"}
            BY <1>5, <2>3 DEF L!Saver, L!TakeRequest, L!MaySave, L!Lock, L!Write, L!LockTimesOut, L!Exit, L!Goto,
                              LimitsType
        <3> QED BY <3>1
    <2> QED BY <2>1, <2>2, <2>3
\* A process that starts has no saver at work.
<1>6. ASSUME NEW t \in Process, L!Start(t)
      PROVE  /\ saver'[s] = "copy" => Covers(memory[s], s, k)'
             /\ saver'[s] = "write" => Covers(draft[s], s, k)'
    <2>1. saver' = saver /\ draft' = draft /\ asOf' = asOf /\ disk' = disk /\ now' = now
          /\ crossed' = crossed /\ unread' = unread
        BY <1>6 DEF L!Start, L!saveVars, L!clockVars
    <2>2. CASE t # s
        BY <1>2, <1>6, <2>1, <2>2 DEF L!Start, LimitsType
    <2>3. CASE t = s
        BY <1>6, <2>1, <2>3 DEF L!Start, SaveLockInv
    <2> QED BY <2>2, <2>3
<1>7. ASSUME NEW t \in Process, L!Activate(t) \/ L!Quiesce(t) \/ L!Drain(t)
      PROVE  /\ saver'[s] = "copy" => Covers(memory[s], s, k)'
             /\ saver'[s] = "write" => Covers(draft[s], s, k)'
    BY <1>2, <1>7 DEF L!Activate, L!Quiesce, L!Drain, L!ChangeRole, L!saveVars, L!clockVars, LimitsType
<1>8. ASSUME L!Tick
      PROVE  /\ saver'[s] = "copy" => Covers(memory[s], s, k)'
             /\ saver'[s] = "write" => Covers(draft[s], s, k)'
    BY <1>2, <1>8 DEF L!Tick, L!saveVars, LimitsType
<1>9. ASSUME L!SetClockBack
      PROVE  /\ saver'[s] = "copy" => Covers(memory[s], s, k)'
             /\ saver'[s] = "write" => Covers(draft[s], s, k)'
    BY <1>9 DEF L!SetClockBack, L!Locks
<1>10. ASSUME UNCHANGED L!vars
       PROVE  /\ saver'[s] = "copy" => Covers(memory[s], s, k)'
              /\ saver'[s] = "write" => Covers(draft[s], s, k)'
    BY <1>2, <1>10 DEF L!vars, LimitsType
<1> QED BY <1>3, <1>4, <1>5, <1>6, <1>7, <1>8, <1>9, <1>10 DEF L!Next
-----------------------------------------------------------------------------
LEMMA LimitsInit == L!Init => LimitsInv
BY DEF L!Init, LimitsInv, LimitsType, SaveLockInv, SaveClockInv, SaveReadInv, L!Locks, L!Nothing, Times

LEMMA LimitsInvariance == LimitsSpec => []LimitsInv
<1>1. LimitsInv /\ [L!Next]_(L!vars) => LimitsInv'
    BY LimitsTypeStep, SaveLockStep, SaveClockStep, SaveReadStep DEF LimitsInv
<1> QED BY LimitsInit, <1>1, PTL DEF LimitsSpec, L!Spec

\* limits.go: every field stays a time, a role or a place in Save.
THEOREM LimitsTypeCorrect == LimitsSpec => []LimitsType
BY LimitsInvariance, PTL DEF LimitsInv

\* A write of limits.json replaces nothing newer (Save, "so a process with
\* older state never overwrites a newer one"), for any number of processes,
\* but for a save that could not read the file or saw the clock set back.
THEOREM SavesNeverGoBack == LimitsSpec => NeverOlder
<1>1. LimitsInv /\ [L!Next]_(L!vars) => [L!GoesOn]_(L!vars)
    <2> SUFFICES ASSUME LimitsInv, L!Next, NEW k \in L!Kind, disk'[k] < disk[k]
                 PROVE  \E s \in Process : saver[s] = "write" /\ (s \in crossed \cup unread \/ L!Future(disk[k], asOf[s]))
        BY DEF L!GoesOn
    <2>1. PICK s \in Process : L!Write(s) /\ disk' = draft[s]
        <3>1. disk' # disk
            BY DEF LimitsInv, LimitsType, Times
        <3> QED BY <3>1 DEF L!Next, L!Observe, L!Saver, L!TakeRequest, L!MaySave, L!Lock, L!MergeFile, L!Copy, L!Write,
                   L!LockTimesOut, L!Activate, L!Quiesce, L!Drain, L!ChangeRole, L!Exit, L!Start, L!Tick, L!SetClockBack
    <2>2. s \notin crossed \cup unread => Covers(draft[s], s, k)
        BY <2>1 DEF LimitsInv, SaveReadInv, L!Write
    <2>3. draft[s][k] < disk[k] /\ draft[s][k] \in Nat /\ disk[k] \in Nat
        BY <2>1 DEF LimitsInv, LimitsType, Times
    <2> QED BY <2>1, <2>2, <2>3 DEF Covers, L!Write
<1> QED BY LimitsInvariance, <1>1, PTL DEF NeverOlder, L!NeverOlder, LimitsSpec, L!Spec
-----------------------------------------------------------------------------
(***************************************************************************)
(* The statistics and bindings.                                            *)
(***************************************************************************)

Mode == {"down", "standby", "active", "quiesced", "draining"}
ModelsFile == St!Content \cup {NoFile}
Saving == [at : {"idle", "copy", "open", "write", "rename"}, slot : Router, data : SUBSET Outcome,
           file : {"none", "tmp", "models", "gone"}]

SlotStateType ==
    /\ mode \in [Router -> Mode] /\ known \in [Router -> St!Picture]
    /\ saving \in [Saver -> Saving]
    /\ models \in ModelsFile /\ tmp \in ModelsFile
    /\ snapshot \in St!Picture \cup {NoFile} /\ slotFile \in [Router -> St!Picture \cup {NoFile}]
    /\ marked \in Router /\ step \in St!Step /\ left \subseteq Router /\ switches \in Nat
    /\ due \subseteq St!Item /\ recorded \subseteq St!Item /\ overlapped \in BOOLEAN

LEMMA TwoRouters ==
    ASSUME NEW s \in Router
    PROVE  /\ St!Other(s) \in Router /\ St!Other(s) # s
           /\ \A t \in Router : t = s \/ t = St!Other(s)
           /\ St!Other(St!Other(s)) = s
<1>1. \E t \in Router : t # s
    BY RouterAssumption
<1>2. St!Other(s) \in Router /\ St!Other(s) # s
    BY <1>1 DEF St!Other
<1>3. \A t \in Router : t = s \/ t = St!Other(s)
    BY <1>2, RouterAssumption
<1>4. St!Other(St!Other(s)) \in Router /\ St!Other(St!Other(s)) # St!Other(s)
    BY <1>2 DEF St!Other
<1> QED BY <1>2, <1>3, <1>4

LEMMA Contents ==
    ASSUME NEW d \in SUBSET Outcome
    PROVE  /\ St!Whole(d) \in St!Content /\ St!Whole(d).whole
           /\ St!Torn \in St!Content /\ St!Empty \in St!Content
           /\ NoFile # St!Empty /\ NoFile # St!Whole(d)
BY FileAssumption DEF St!Whole, St!Torn, St!Empty, St!Content

LEMMA IdleType == St!Idle \in Saving /\ St!Idle.at = "idle"
<1>1. (CHOOSE s \in Router : TRUE) \in Router
    BY RouterAssumption
<1> QED BY <1>1 DEF St!Idle, Saving
-----------------------------------------------------------------------------
(* The types.                                                              *)

LEMMA LoadedType == SlotStateType => St!Loaded \in St!Picture
BY DEF SlotStateType, St!Loaded, ModelsFile, St!Content, St!Picture, St!Item

LEMMA SlotStateTypeStep == SlotStateType /\ [St!Next]_(St!vars) => SlotStateType'
<1> SUFFICES ASSUME SlotStateType, [St!Next]_(St!vars) PROVE SlotStateType'
    OBVIOUS
<1> USE DEF SlotStateType, St!fileVars, St!ghostVars
<1>1. ASSUME NEW s \in Router, NEW b \in Binding, St!Bind(s, b) PROVE SlotStateType'
    BY <1>1 DEF St!Bind, St!Learn, St!Due, St!Picture, St!Item
<1>2. ASSUME NEW s \in Router, NEW o \in Outcome, NEW w \in Saver, St!Note(s, o, w) PROVE SlotStateType'
    <2>1. [St!Idle EXCEPT !.at = "copy", !.slot = s] \in Saving
        BY IdleType DEF Saving
    <2>2. saving' \in [Saver -> Saving] /\ overlapped' \in BOOLEAN
        BY <1>2, <2>1 DEF St!Note
    <2> QED BY <1>2, <2>2 DEF St!Note, St!Learn, St!Due, St!Picture, St!Item
<1>3. ASSUME NEW s \in Router, NEW w \in Saver, St!Reset(s, w) PROVE SlotStateType'
    <2>1. [St!Idle EXCEPT !.at = "copy", !.slot = s] \in Saving
        BY IdleType DEF Saving
    <2>2. saving' \in [Saver -> Saving] /\ overlapped' \in BOOLEAN
        BY <1>3, <2>1 DEF St!Reset
    <2> QED BY <1>3, <2>2 DEF St!Reset, St!Forget, St!Happen, St!Picture
<1>4. ASSUME NEW s \in Router, St!ClearSessions(s) PROVE SlotStateType'
    BY <1>4 DEF St!ClearSessions, St!Forget, St!Happen, St!Picture
<1>5. ASSUME NEW s \in Router, St!Start(s) PROVE SlotStateType'
    <2>1. St!Loaded \in St!Picture
        BY LoadedType
    <2>2. (IF s = marked /\ slotFile[s] # NoFile THEN slotFile[s] ELSE St!Loaded) \in St!Picture
        BY <2>1
    <2>3. known' \in [Router -> St!Picture] /\ switches' \in Nat /\ due' \subseteq St!Item
        BY <1>5, <2>1, <2>2 DEF St!Start, St!Happen, St!Lost, St!Picture
    <2> QED BY <1>5, <2>3 DEF St!Start, Mode
<1>6. ASSUME NEW s \in Router, St!Terminate(s) PROVE SlotStateType'
    BY <1>6 DEF St!Terminate, St!Stop, St!Happen, Mode
<1>7. ASSUME NEW s \in Router, St!LeaveFile(s) PROVE SlotStateType'
    BY <1>7 DEF St!LeaveFile, St!Happen, St!Lost
<1>8. ASSUME NEW s \in Router, St!Exit(s) \/ St!Crash(s) \/ St!TimesOut(s) PROVE SlotStateType'
    <2>1. due' \subseteq St!Item /\ switches' \in Nat
        BY <1>8 DEF St!Exit, St!Crash, St!TimesOut, St!Lost, St!Happen
    <2> QED BY <1>8, <2>1, IdleType DEF St!Exit, St!Crash, St!TimesOut, St!Gone, Mode, St!Picture
<1>9. ASSUME NEW w \in Saver, St!Copy(w) PROVE SlotStateType'
    <2>1. [saving[w] EXCEPT !.at = "open", !.data = known[saving[w].slot] \cap Outcome] \in Saving
        BY DEF Saving
    <2> QED BY <1>9, <2>1, IdleType DEF St!Copy
<1>10. ASSUME NEW w \in Saver, St!Open(w) PROVE SlotStateType'
    <2>1. [saving[w] EXCEPT !.at = "write", !.file = "tmp"] \in Saving
        BY DEF Saving
    <2> QED BY <1>10, <2>1, Contents DEF St!Open, ModelsFile
<1>11. ASSUME NEW w \in Saver, St!Write(w) PROVE SlotStateType'
    <2>1. saving[w].data \in SUBSET Outcome
        BY DEF Saving
    <2>2. \A c : St!Over(c, saving[w].data) \subseteq St!Content
        BY <2>1, Contents DEF St!Over
    <2>3. tmp' \in ModelsFile /\ models' \in ModelsFile
        BY <1>11, <2>2 DEF St!Write, ModelsFile
    <2>4. saving' \in [Saver -> Saving]
        BY <1>11 DEF St!Write, Saving
    <2> QED BY <1>11, <2>3, <2>4 DEF St!Write
<1>12. ASSUME NEW w \in Saver, St!Rename(w) PROVE SlotStateType'
    <2>1. \A f \in {"none", "tmp", "models", "gone"} : St!Renamed(f) \in {"none", "tmp", "models", "gone"}
        BY DEF St!Renamed
    <2>2. \A v \in Saver : [saving[v] EXCEPT !.file = St!Renamed(@)] \in Saving
        BY <2>1 DEF Saving
    <2>3. saving' \in [Saver -> Saving]
        BY <1>12, <2>2, IdleType DEF St!Rename
    <2> QED BY <1>12, <2>3 DEF St!Rename, ModelsFile
<1>13. CASE St!Deploy \/ St!Snapshot \/ St!Quiesce \/ St!Activate
    BY <1>13, TwoRouters DEF St!Deploy, St!Snapshot, St!Quiesce, St!Activate, St!Advance, St!Happen, Mode, St!Step, St!New
<1>14. CASE St!Commit \/ St!Retire \/ St!Rollback
    BY <1>14, TwoRouters DEF St!Commit, St!Retire, St!Rollback, St!Stop, St!Advance, St!Happen, Mode, St!Step, St!New
<1>15. ASSUME NEW w \in Saver, St!SaveFails(w) PROVE SlotStateType'
    <2>1. tmp' \in ModelsFile /\ models' \in ModelsFile
        BY <1>15, Contents DEF St!SaveFails, St!Broken, ModelsFile
    <2> QED BY <1>15, <2>1, IdleType DEF St!SaveFails, St!Happen
<1>16. CASE UNCHANGED St!vars
    BY <1>16 DEF St!vars
<1> QED BY <1>1, <1>2, <1>3, <1>4, <1>5, <1>6, <1>7, <1>8, <1>9, <1>10, <1>11, <1>12, <1>13,
           <1>14, <1>15, <1>16 DEF St!Next
-----------------------------------------------------------------------------
(* What may not be lost is where the serving slot will have it from next:  *)
(* its memory while it has a process, its own file once it has left it,    *)
(* the snapshot while the switch goes on, and then the new slot's memory.  *)

DueInv ==
    /\ mode[marked] # "standby"
    /\ mode[marked] # "down" => due \subseteq known[marked]
    /\ mode[marked] = "down" => \/ due = {}
                                \/ slotFile[marked] # NoFile /\ due \subseteq slotFile[marked]
    /\ marked \in left =>
           due = {} \/ (slotFile[marked] # NoFile /\ due \subseteq slotFile[marked])
    /\ \A s \in left : mode[s] = "draining"
    /\ step \in {"quiesce", "activate"} => snapshot # NoFile /\ due \subseteq snapshot
    /\ step = "commit" /\ mode[St!New] = "active" => due \subseteq known[St!New]

LEMMA DueStep == SlotStateType /\ DueInv /\ [St!Next]_(St!vars) => DueInv'
<1> SUFFICES ASSUME SlotStateType, DueInv, [St!Next]_(St!vars) PROVE DueInv'
    OBVIOUS
<1> USE DEF SlotStateType, DueInv, St!fileVars, St!ghostVars, St!New
<1>0. /\ marked \in Router /\ St!Other(marked) \in Router /\ St!Other(marked) # marked
      /\ St!Other(St!Other(marked)) = marked
      /\ \A t \in Router : t = marked \/ t = St!Other(marked)
    BY TwoRouters
<1>p. \A p \in St!Picture : p # NoFile
    BY FileAssumption
<1>l. ASSUME NEW s \in Router, NEW i, St!Learn(s, i) PROVE DueInv'
    BY <1>l, <1>0 DEF St!Learn, St!Due, St!Works
<1>f. ASSUME NEW s \in Router, NEW items, St!Forget(s, items) PROVE DueInv'
    BY <1>f, <1>0 DEF St!Forget, St!Works
<1>1. ASSUME NEW s \in Router, NEW b \in Binding, St!Bind(s, b) PROVE DueInv'
    BY <1>1, <1>l DEF St!Bind
<1>2. ASSUME NEW s \in Router, NEW o \in Outcome, NEW w \in Saver, St!Note(s, o, w) PROVE DueInv'
    BY <1>2, <1>l DEF St!Note
<1>3. ASSUME NEW s \in Router, NEW w \in Saver, St!Reset(s, w) PROVE DueInv'
    BY <1>3, <1>f DEF St!Reset
<1>4. ASSUME NEW s \in Router, St!ClearSessions(s) PROVE DueInv'
    BY <1>4, <1>f DEF St!ClearSessions
<1>5. ASSUME NEW s \in Router, St!Start(s) PROVE DueInv'
    <2>1. CASE s = marked
        BY <1>5, <2>1, <1>0 DEF St!Start, St!Lost
    <2>2. CASE s # marked
        BY <1>5, <2>2, <1>0 DEF St!Start, St!Lost
    <2> QED BY <2>1, <2>2
<1>6. ASSUME NEW s \in Router, St!Terminate(s) PROVE DueInv'
    BY <1>6, <1>0 DEF St!Terminate, St!Stop
<1>7. ASSUME NEW s \in Router, St!LeaveFile(s) PROVE DueInv'
    BY <1>7, <1>0, <1>p DEF St!LeaveFile, St!Lost
<1>8. ASSUME NEW s \in Router, St!Exit(s) PROVE DueInv'
    BY <1>8, <1>0 DEF St!Exit, St!Gone
<1>9. ASSUME NEW s \in Router, St!Crash(s) \/ St!TimesOut(s) PROVE DueInv'
    BY <1>9, <1>0 DEF St!Crash, St!TimesOut, St!Lost, St!Gone
<1>10. ASSUME NEW w \in Saver, St!Copy(w) \/ St!Open(w) \/ St!Write(w) \/ St!Rename(w) \/ St!SaveFails(w)
       PROVE  DueInv'
    BY <1>10 DEF St!Copy, St!Open, St!Write, St!Rename, St!SaveFails
<1>11. CASE St!Deploy
    BY <1>11, <1>0 DEF St!Deploy, St!Advance
<1>12. CASE St!Snapshot
    BY <1>12, <1>0, <1>p DEF St!Snapshot, St!Advance
<1>13. CASE St!Quiesce
    BY <1>13, <1>0 DEF St!Quiesce, St!Advance
<1>14. CASE St!Activate
    BY <1>14, <1>0 DEF St!Activate, St!Advance
<1>15. CASE St!Commit
    BY <1>15, <1>0 DEF St!Commit, St!Advance
<1>16. CASE St!Retire
    BY <1>16, <1>0 DEF St!Retire, St!Stop
<1>17. CASE St!Rollback
    BY <1>17, <1>0 DEF St!Rollback
<1>18. CASE UNCHANGED St!vars
    BY <1>18 DEF St!vars
<1> QED BY <1>1, <1>2, <1>3, <1>4, <1>5, <1>6, <1>7, <1>8, <1>9, <1>10, <1>11, <1>12, <1>13,
           <1>14, <1>15, <1>16, <1>17, <1>18 DEF St!Next
-----------------------------------------------------------------------------
(* As long as no two saves have overlapped, the one under way is alone     *)
(* with the temporary file.                                                *)

SaverAlone ==
    /\ \A v, w \in Saver : saving[v].at # "idle" /\ saving[w].at # "idle" => v = w
    /\ \A w \in Saver : saving[w].at = "write" => saving[w].file = "tmp" /\ tmp = St!Empty
    /\ \A w \in Saver : saving[w].at = "rename" /\ tmp # NoFile => tmp.whole
    /\ models # NoFile => models.whole

ModelsInv ==
    /\ \A w \in Saver : saving[w].at = "idle" => saving[w] = St!Idle
    /\ ~overlapped => SaverAlone

LEMMA SaveBegins ==
    ASSUME SlotStateType, ModelsInv, NEW s \in Router, NEW w \in Saver, saving[w] = St!Idle,
           saving' = [saving EXCEPT ![w] = [St!Idle EXCEPT !.at = "copy", !.slot = s]],
           overlapped' = (overlapped \/ \E v \in Saver : saving[v] # St!Idle),
           UNCHANGED St!fileVars
    PROVE  ModelsInv'
<1> USE DEF SlotStateType, St!fileVars
<1>1. /\ saving'[w].at = "copy"
      /\ \A v \in Saver \ {w} : saving'[v] = saving[v]
    BY IdleType DEF Saving
<1>2. \A v \in Saver : saving'[v].at = "idle" => saving'[v] = St!Idle
    BY <1>1 DEF ModelsInv
<1>3. ASSUME ~overlapped' PROVE SaverAlone'
    <2>1. SaverAlone /\ \A v \in Saver : saving[v] = St!Idle
        BY <1>3 DEF ModelsInv
    <2>2. \A v \in Saver \ {w} : saving'[v].at = "idle"
        BY <1>1, <2>1, IdleType
    <2> QED BY <1>1, <2>1, <2>2 DEF SaverAlone
<1> QED BY <1>2, <1>3 DEF ModelsInv

LEMMA ModelsStep == SlotStateType /\ ModelsInv /\ [St!Next]_(St!vars) => ModelsInv'
<1> SUFFICES ASSUME SlotStateType, ModelsInv, [St!Next]_(St!vars) PROVE ModelsInv'
    OBVIOUS
<1> USE DEF SlotStateType, St!fileVars, St!ghostVars
<1>u. ASSUME UNCHANGED <<saving, models, tmp, overlapped>> PROVE ModelsInv'
    BY <1>u DEF ModelsInv, SaverAlone
<1>1. ASSUME NEW s \in Router, NEW b \in Binding, St!Bind(s, b) PROVE ModelsInv'
    BY <1>1, <1>u DEF St!Bind, St!Learn
<1>2. ASSUME NEW s \in Router, NEW o \in Outcome, NEW w \in Saver, St!Note(s, o, w) PROVE ModelsInv'
    BY <1>2, SaveBegins DEF St!Note, St!Learn
<1>3. ASSUME NEW s \in Router, NEW w \in Saver, St!Reset(s, w) PROVE ModelsInv'
    BY <1>3, SaveBegins DEF St!Reset, St!Forget
<1>4. ASSUME NEW s \in Router, St!ClearSessions(s) \/ St!Start(s) \/ St!Terminate(s) \/ St!LeaveFile(s)
      PROVE ModelsInv'
    BY <1>4, <1>u DEF St!ClearSessions, St!Forget, St!Start, St!Terminate, St!Stop, St!LeaveFile
<1>5. ASSUME NEW s \in Router, St!Exit(s) \/ St!Crash(s) \/ St!TimesOut(s) PROVE ModelsInv'
    <2>1. /\ saving' = [w \in Saver |-> IF saving[w].slot = s THEN St!Idle ELSE saving[w]]
          /\ UNCHANGED <<models, tmp, overlapped>>
        BY <1>5 DEF St!Exit, St!Crash, St!TimesOut, St!Gone
    <2> QED BY <2>1, IdleType DEF ModelsInv, SaverAlone
<1>6. ASSUME NEW w \in Saver, St!Copy(w) PROVE ModelsInv'
    <2>1. /\ saving'[w].at \in {"open", "idle"}
          /\ saving'[w].at = "idle" => saving'[w] = St!Idle
          /\ \A v \in Saver \ {w} : saving'[v] = saving[v]
          /\ UNCHANGED <<models, tmp, overlapped>>
        BY <1>6, IdleType DEF St!Copy, Saving
    <2> QED BY <1>6, <2>1 DEF ModelsInv, SaverAlone, St!Copy
<1>7. ASSUME NEW w \in Saver, St!Open(w) PROVE ModelsInv'
    <2>1. /\ saving[w].at = "open"
          /\ saving'[w].at = "write" /\ saving'[w].file = "tmp" /\ tmp' = St!Empty
          /\ \A v \in Saver \ {w} : saving'[v] = saving[v]
          /\ UNCHANGED <<models, overlapped>>
        BY <1>7 DEF St!Open, Saving
    <2> QED BY <2>1 DEF ModelsInv, SaverAlone
<1>8. ASSUME NEW w \in Saver, St!Write(w) PROVE ModelsInv'
    <2>1. /\ saving[w].at = "write" /\ saving'[w].at = "rename"
          /\ \A v \in Saver \ {w} : saving'[v] = saving[v]
          /\ UNCHANGED overlapped
        BY <1>8 DEF St!Write, Saving
    <2>2. \A v \in Saver : saving'[v].at = "idle" => saving'[v] = St!Idle
        BY <2>1 DEF ModelsInv
    <2>3. ASSUME SaverAlone PROVE SaverAlone'
        <3>1. tmp' = St!Whole(saving[w].data) /\ UNCHANGED models
            BY <1>8, <2>1, <2>3 DEF St!Write, SaverAlone, St!Over
        <3>2. tmp'.whole
            BY <3>1 DEF St!Whole
        <3> QED BY <2>1, <2>3, <3>1, <3>2 DEF SaverAlone
    <2> QED BY <2>1, <2>2, <2>3 DEF ModelsInv
<1>9. ASSUME NEW w \in Saver, St!Rename(w) PROVE ModelsInv'
    <2>1. [St!Idle EXCEPT !.file = St!Renamed(@)] = St!Idle
        BY DEF St!Idle, St!Renamed
    <2>2. /\ saving[w].at = "rename" /\ saving'[w] = St!Idle /\ UNCHANGED overlapped
          /\ models' = IF tmp = NoFile THEN models ELSE tmp
          /\ tmp' = NoFile
        BY <1>9 DEF St!Rename
    <2>3. \A v \in Saver \ {w} : \/ saving'[v] = saving[v]
                                 \/ saving'[v] = [saving[v] EXCEPT !.file = St!Renamed(@)]
        BY <1>9 DEF St!Rename
    <2>4. \A v \in Saver \ {w} : saving'[v].at = saving[v].at
        BY ZenonT(40), <2>3 DEF Saving
    <2>5. \A v \in Saver : saving'[v].at = "idle" => saving'[v] = St!Idle
        BY <2>1, <2>2, <2>3, <2>4 DEF ModelsInv
    <2>6. ASSUME SaverAlone PROVE SaverAlone'
        BY <2>2, <2>4, <2>6, IdleType DEF SaverAlone
    <2> QED BY <2>2, <2>5, <2>6 DEF ModelsInv
<1>10. CASE St!Deploy \/ St!Snapshot \/ St!Quiesce \/ St!Activate \/ St!Commit \/ St!Retire \/ St!Rollback
    BY <1>10, <1>u DEF St!Deploy, St!Snapshot, St!Quiesce, St!Activate, St!Commit, St!Retire, St!Rollback, St!Stop, St!Advance
<1>11. ASSUME NEW w \in Saver, St!SaveFails(w) PROVE ModelsInv'
    <2>1. /\ saving[w].at # "idle" /\ saving'[w] = St!Idle /\ UNCHANGED overlapped
          /\ \A v \in Saver \ {w} : saving'[v] = saving[v]
        BY <1>11 DEF St!SaveFails
    <2>2. \A v \in Saver : saving'[v].at = "idle" => saving'[v] = St!Idle
        BY <2>1 DEF ModelsInv
    <2>3. ASSUME SaverAlone PROVE SaverAlone'
        <3>1. saving[w].at = "write" => saving[w].file = "tmp"
            BY <2>3 DEF SaverAlone
        <3>2. UNCHANGED models
            BY <1>11, <3>1 DEF St!SaveFails, St!Broken
        <3>3. \A v \in Saver : saving'[v].at = "idle"
            BY <2>1, <2>3, IdleType DEF SaverAlone
        <3> QED BY <2>3, <3>2, <3>3 DEF SaverAlone
    <2> QED BY <2>1, <2>2, <2>3 DEF ModelsInv
<1>12. CASE UNCHANGED St!vars
    BY <1>12, <1>u DEF St!vars
<1> QED BY <1>1, <1>2, <1>3, <1>4, <1>5, <1>6, <1>7, <1>8, <1>9, <1>10, <1>11, <1>12 DEF St!Next
-----------------------------------------------------------------------------
SlotStateInv == SlotStateType /\ DueInv /\ ModelsInv

LEMMA SlotStateInit == St!Init => SlotStateInv
<1> SUFFICES ASSUME St!Init PROVE SlotStateInv
    OBVIOUS
<1>1. (CHOOSE s \in Router : TRUE) \in Router
    BY RouterAssumption
<1>2. SlotStateType
    BY <1>1, IdleType DEF St!Init, SlotStateType, Mode, ModelsFile, St!Picture, St!Step, St!Item
<1>3. DueInv
    BY <1>1 DEF St!Init, DueInv
<1>4. ModelsInv
    BY IdleType DEF St!Init, ModelsInv, SaverAlone
<1> QED BY <1>2, <1>3, <1>4 DEF SlotStateInv

LEMMA SlotStateInvariance == SlotStateSpec => []SlotStateInv
<1>1. SlotStateInv /\ [St!Next]_(St!vars) => SlotStateInv'
    BY SlotStateTypeStep, DueStep, ModelsStep DEF SlotStateInv
<1> QED BY SlotStateInit, <1>1, PTL DEF SlotStateSpec, St!Spec

(* Every file, picture and role the model can reach is one of those the    *)
(* declarations name.                                                      *)
THEOREM SlotStateTypeCorrect == SlotStateSpec => []SlotStateType
<1>1. SlotStateInv => SlotStateType
    BY DEF SlotStateInv
<1> QED BY SlotStateInvariance, <1>1, PTL

(* Deploys, rollbacks and restarts lose nothing that was recorded outside  *)
(* a switch, however many there are and in whatever order (runtime.go,     *)
(* state.go), but by a crash, a drain that times out or a file that cannot *)
(* be read or written.                                                     *)
THEOREM SwitchesKeep == SlotStateSpec => []KeptAcrossSwitches
<1>1. SlotStateInv => KeptAcrossSwitches
    BY DEF SlotStateInv, DueInv, KeptAcrossSwitches, St!KeptAcrossSwitches
<1> QED BY SlotStateInvariance, <1>1, PTL

(* A start finds models.json whole in spite of any crash, unless two       *)
(* goroutines have saved it at once (health.go).                           *)
THEOREM OneSaverReadable == SlotStateSpec => []ReadableUnlessOverlapped
<1>1. SlotStateInv => ReadableUnlessOverlapped
    BY DEF SlotStateInv, ModelsInv, SaverAlone, ReadableUnlessOverlapped,
       St!ReadableUnlessOverlapped
<1> QED BY SlotStateInvariance, <1>1, PTL
=============================================================================
