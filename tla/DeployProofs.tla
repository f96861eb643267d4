---------------------------- MODULE DeployProofs ----------------------------
(***************************************************************************)
(* What holds of the deploy for every set of faults, every number of them, *)
(* of deploys and of requests: the state is well typed, a committed deploy *)
(* is on disk and in Caddy, launchd never loses both slots, the deploy     *)
(* hands over as Handover says, the slot behind Caddy serves, a slot is    *)
(* drained before it is stopped, and one that may compact the history is   *)
(* alone with it.                                                          *)
(***************************************************************************)
EXTENDS Deploy, TLAPS

CtlType == /\ pc \in Label /\ old \in Slot /\ call \in {"resume", "clean"}
           /\ flags \subseteq Flag /\ seen \subseteq Slot /\ expired \in BOOLEAN
           /\ result \in {"none", "ok", "failed", "killed"}

SlotType == /\ mode \in [Slot -> Mode]
            /\ load \in [Slot -> {"no", "yes", "unloading"}]
            /\ pending \in [Slot -> Nat]
            /\ alone \in [Slot -> BOOLEAN]

FrontType == caddy \in Slot /\ caddyfile \in Slot /\ marker \in Slot

(* The two slots are each other's other.                                   *)
LEMMA OtherSlot ==
    ASSUME NEW s \in Slot
    PROVE  Other(s) \in Slot /\ Other(s) # s /\ Slot = {s, Other(s)}
  BY DEF Slot, Other

(* An error ends the deploy or enters (or goes on with) the rollback.      *)
LEMMA FailControl ==
    ASSUME CtlType, Fail
    PROVE  /\ CtlType'
           /\ old' = old
           /\ \/ pc' = "idle" /\ flags' = {}
              \/ /\ pc' \in RollbackLabel /\ flags' = flags
                 /\ pc \in RollbackLabel \/ ("started" \in flags /\ "committed" \notin flags)
  <1>1. Undo \in RollbackLabel /\ "rbStop" \in RollbackLabel
    BY DEF Undo, RollbackLabel
  <1>2. RollbackLabel \subseteq Label /\ "idle" \in Label
    BY DEF RollbackLabel, Label
  <1>3. CASE Goto("rbStop") /\ pc = "rbActivate"
    <2>1. pc \in RollbackLabel
      BY <1>3 DEF RollbackLabel
    <2> QED BY <1>1, <1>2, <1>3, <2>1 DEF Goto, CtlType
  <1>4. CASE End("failed")
    BY <1>2, <1>4 DEF End, CtlType
  <1>5. CASE Goto(Undo) /\ "started" \in flags /\ "committed" \notin flags
    BY <1>1, <1>2, <1>5 DEF Goto, CtlType
  <1> QED BY <1>3, <1>4, <1>5 DEF Fail

LEMMA CarryType ==
    ASSUME SlotType, NEW s \in Slot,
           NEW request \in {"quiesce", "activate", "drain", "snapshot", "compact"},
           Carry(s, request)
    PROVE  SlotType' /\ load' = load
  BY DEF SlotType, Carry, Target, Mode

LEMMA AdminType ==
    ASSUME TypeOK, NEW s \in Slot,
           NEW request \in {"quiesce", "activate", "drain", "snapshot", "compact"},
           NEW next \in Label, NEW f \in SUBSET Flag,
           Admin(s, request, next, f)
    PROVE  TypeOK'
  <1>1. CtlType /\ SlotType
    BY DEF TypeOK, CtlType, SlotType
  <1>2. SlotType'
    <2>1. CASE Carry(s, request)
      BY <1>1, <2>1, CarryType
    <2>2. CASE UNCHANGED slotVars
      BY <1>1, <2>2 DEF SlotType, slotVars
    <2> QED BY <2>1, <2>2 DEF Admin
  <1>3. CtlType'
    <2>1. CASE Fail
      BY <1>1, <2>1, FailControl
    <2>2. CASE Mark(next, f)
      BY <1>1, <2>2 DEF CtlType, Mark
    <2> QED BY <2>1, <2>2 DEF Admin
  <1>4. faults' \in Nat /\ struck' \subseteq Faults
    BY DEF Admin, TypeOK, NoFault, Strike, faultVars
  <1> QED BY <1>2, <1>3, <1>4 DEF TypeOK, CtlType, SlotType, Admin, frontVars

LEMMA StopCallType ==
    ASSUME TypeOK, NEW s \in Slot, NEW at, NEW next \in Label, NEW other \in Label,
           \/ StopCall(at, s, next, Fail) \/ StopCall(at, s, next, Goto(other))
    PROVE  TypeOK'
  <1>1. CtlType /\ SlotType
    BY DEF TypeOK, CtlType, SlotType
  <1>2. SlotType'
    BY <1>1 DEF StopCall, Unload, SlotType, slotVars, Mode
  <1>3. CtlType'
    <2>1. CASE Fail
      BY <1>1, <2>1, FailControl
    <2>2. CASE Goto(next) \/ Goto(other)
      BY <1>1, <2>2 DEF CtlType, Goto
    <2> QED BY <2>1, <2>2 DEF StopCall
  <1>4. faults' \in Nat /\ struck' \subseteq Faults
    BY DEF StopCall, TypeOK, NoFault, Strike, faultVars
  <1> QED BY <1>2, <1>3, <1>4 DEF TypeOK, CtlType, SlotType, StopCall, frontVars

LEMMA StopWaitType ==
    ASSUME TypeOK, NEW s \in Slot, NEW at, NEW next \in Label, NEW other \in Label,
           \/ StopWait(at, s, Goto(next), Fail)
           \/ StopWait(at, s, Goto(next), Goto(other))
           \/ StopWait(at, s, End("failed"), Fail)
    PROVE  TypeOK'
  <1>1. CtlType /\ SlotType
    BY DEF TypeOK, CtlType, SlotType
  <1>3. CtlType'
    <2>1. CASE Fail
      BY <1>1, <2>1, FailControl
    <2>2. CASE Goto(next) \/ Goto(other)
      BY <1>1, <2>2 DEF CtlType, Goto
    <2>3. CASE End("failed")
      BY <1>1, <2>3 DEF CtlType, End, Label
    <2> QED BY <2>1, <2>2, <2>3 DEF StopWait
  <1>4. faults' \in Nat /\ struck' \subseteq Faults
    BY DEF StopWait, TypeOK, NoFault, Strike, faultVars
  <1> QED BY <1>3, <1>4 DEF TypeOK, CtlType, StopWait, frontVars, slotVars

LEMMA WaitDrainType ==
    ASSUME TypeOK, NEW s \in Slot, NEW next \in Label, WaitDrain(s, next)
    PROVE  TypeOK'
  <1>1. CtlType
    BY DEF TypeOK, CtlType
  <1>3. CtlType'
    <2>1. CASE Fail
      BY <1>1, <2>1, FailControl
    <2>2. CASE /\ pc' = next /\ expired' = ~Drained(s)
               /\ UNCHANGED <<old, call, flags, seen, result>>
      <3>1. (~Drained(s)) \in BOOLEAN
        OBVIOUS
      <3> QED BY <1>1, <2>2, <3>1 DEF CtlType
    <2> QED BY <2>1, <2>2 DEF WaitDrain
  <1>4. faults' \in Nat /\ struck' \subseteq Faults
    BY DEF WaitDrain, TypeOK, NoFault, Strike, faultVars
  <1> QED BY <1>3, <1>4 DEF TypeOK, CtlType, WaitDrain, frontVars, slotVars

LEMMA FlipType ==
    ASSUME TypeOK, NEW s \in Slot, NEW next \in Label,
           \/ LoadCaddy(s, next)
           \/ WriteFile(s, next)
           \/ WriteMarker(s, Mark("ready", {"flipped"}))
           \/ WriteMarker(s, Goto(next))
           \/ WriteMarker(s, End("ok"))
    PROVE  TypeOK'
  <1>1. CtlType /\ FrontType
    BY DEF TypeOK, CtlType, FrontType
  <1>2. FrontType'
    BY <1>1 DEF LoadCaddy, WriteFile, WriteMarker, FrontType
  <1>3. CtlType'
    <2>1. CASE Fail
      BY <1>1, <2>1, FailControl
    <2>2. CASE Goto(next) \/ End("ok") \/ Mark("ready", {"flipped"})
      BY <1>1, <2>2 DEF CtlType, Goto, End, Mark, Label, Flag
    <2> QED BY <2>1, <2>2 DEF LoadCaddy, WriteFile, WriteMarker
  <1>4. faults' \in Nat /\ struck' \subseteq Faults
    BY DEF LoadCaddy, WriteFile, WriteMarker, TypeOK, NoFault, Strike, faultVars
  <1> QED BY <1>2, <1>3, <1>4 DEF TypeOK, CtlType, FrontType, LoadCaddy, WriteFile,
             WriteMarker, slotVars

LEMMA CheckType ==
    ASSUME TypeOK, NEW at, NEW s, NEW m, NEW next \in Label, Check(at, s, m, next)
    PROVE  TypeOK'
  <1>1. CtlType
    BY DEF TypeOK, CtlType
  <1>3. CtlType'
    <2>1. CASE Fail
      BY <1>1, <2>1, FailControl
    <2>2. CASE Goto(next)
      BY <1>1, <2>2 DEF CtlType, Goto
    <2> QED BY <2>1, <2>2 DEF Check
  <1>4. faults' \in Nat /\ struck' \subseteq Faults
    BY DEF Check, TypeOK, NoFault, Strike, faultVars
  <1> QED BY <1>3, <1>4 DEF TypeOK, CtlType, Check, frontVars, slotVars

LEMMA EnvironmentType ==
    ASSUME TypeOK, Environment
    PROVE  TypeOK'
  <1>1. CASE \E s \in Slot : Request(s)
    BY <1>1 DEF TypeOK, Request, frontVars, ctlVars, faultVars
  <1>2. CASE \E s \in Slot : Answer(s)
    BY <1>2 DEF TypeOK, Answer, frontVars, ctlVars, faultVars
  <1>3. CASE \E s \in Slot : Boot(s)
    BY <1>3 DEF TypeOK, Boot, frontVars, faultVars, Mode
  <1>4. CASE \E s \in Slot : Exit(s)
    BY <1>4 DEF TypeOK, Exit, Gone, frontVars, ctlVars, faultVars, Mode
  <1>5. CASE \E s \in Slot : Crash(s)
    BY <1>5 DEF TypeOK, Crash, Gone, Strike, frontVars, ctlVars, Mode
  <1>6. CASE CaddyRestart
    BY <1>6 DEF TypeOK, CaddyRestart, Strike, slotVars, ctlVars
  <1>7. CASE Kill
    <2>1. CtlType'
      BY <1>7 DEF TypeOK, CtlType, Kill, End, Label
    <2>2. faults' \in Nat /\ struck' \subseteq Faults
      BY <1>7 DEF TypeOK, Kill, Strike
    <2> QED BY <1>7, <2>1, <2>2 DEF TypeOK, CtlType, Kill, slotVars, frontVars
  <1> QED BY <1>1, <1>2, <1>3, <1>4, <1>5, <1>6, <1>7 DEF Environment

LEMMA ReadType ==
    ASSUME TypeOK, \/ Inspect \/ Reinspect \/ Retire \/ Compare \/ WaitStandby \/ Ready
    PROVE  TypeOK'
  <1>1. CtlType /\ New \in Slot
    BY OtherSlot DEF TypeOK, CtlType, New
  <1>2. CtlType'
    <2>1. CASE Fail
      BY <1>1, <2>1, FailControl
    <2>2. CASE ~Fail
      BY <1>1, <2>2 DEF CtlType, Inspect, Reinspect, Retire, Compare, WaitStandby, Ready,
                        AfterRetire, Goto, Mark, End, Label, Flag
    <2> QED BY <2>1, <2>2
  <1>3. faults' \in Nat /\ struck' \subseteq Faults
    BY DEF Inspect, Reinspect, Retire, Compare, WaitStandby, Ready, TypeOK,
           NoFault, Strike, faultVars
  <1>4. UNCHANGED <<slotVars, frontVars, deploys>>
    BY DEF Inspect, Reinspect, Retire, Compare, WaitStandby, Ready
  <1> QED BY <1>2, <1>3, <1>4 DEF TypeOK, CtlType, slotVars, frontVars

LEMMA StartType ==
    ASSUME TypeOK, Start
    PROVE  TypeOK'
  <1>1. CtlType /\ New \in Slot
    BY OtherSlot DEF TypeOK, CtlType, New
  <1>2. CtlType'
    <2>1. CASE Fail
      BY <1>1, <2>1, FailControl
    <2>2. CASE Mark("waitStandby", {"started"})
      BY <1>1, <2>2 DEF CtlType, Mark, Label, Flag
    <2> QED BY <2>1, <2>2 DEF Start
  <1>3. faults' \in Nat /\ struck' \subseteq Faults
         /\ load' \in [Slot -> {"no", "yes", "unloading"}]
    BY <1>1 DEF Start, TypeOK, NoFault, Strike, faultVars
  <1> QED BY <1>2, <1>3 DEF TypeOK, CtlType, Start, frontVars

LEMMA CompactNewType ==
    ASSUME TypeOK, CompactNew
    PROVE  TypeOK'
  <1>1. CtlType /\ SlotType /\ New \in Slot
    BY OtherSlot DEF TypeOK, CtlType, SlotType, New
  <1>2. SlotType'
    BY <1>1, CarryType DEF CompactNew, SlotType, slotVars
  <1>3. CtlType'
    BY <1>1 DEF CompactNew, CtlType, End, Label
  <1>4. faults' \in Nat /\ struck' \subseteq Faults
    BY DEF CompactNew, TypeOK, NoFault, Strike, faultVars
  <1> QED BY <1>2, <1>3, <1>4 DEF TypeOK, CtlType, SlotType, CompactNew, frontVars

LEMMA ControllerType ==
    ASSUME TypeOK, Controller
    PROVE  TypeOK'
  <1>1. old \in Slot /\ New \in Slot /\ AfterRetire \in Label
    BY OtherSlot DEF TypeOK, New, AfterRetire, Label
  <1>2. CASE Inspect \/ Reinspect \/ Retire \/ Compare \/ WaitStandby \/ Ready
    BY <1>2, ReadType
  <1>3. CASE \/ Reactivate \/ RetireDrain \/ CompactOld \/ Snapshot \/ Quiesce
             \/ Activate \/ DrainOld
    BY <1>1, <1>3, AdminType
    DEF Reactivate, RetireDrain, CompactOld, Snapshot, Quiesce, Activate, DrainOld,
        Label, Flag
  <1>4. CASE RetireStop \/ RetireBlind \/ StopOld
    <2>1. CASE \/ StopCall("retireStop", New, "retireStopping", Fail)
               \/ StopCall("retireBlind", New, "retireBlinding", Goto(AfterRetire))
               \/ StopCall("stop", old, "stopping", Fail)
      BY <1>1, <2>1, StopCallType DEF Label
    <2>2. CASE \/ StopWait("retireStopping", New, Goto(AfterRetire), Fail)
               \/ StopWait("retireBlinding", New, Goto(AfterRetire), Goto(AfterRetire))
               \/ StopWait("stopping", old, Goto("compactNew"), Fail)
      BY <1>1, <2>2, StopWaitType DEF Label
    <2> QED BY <1>4, <2>1, <2>2 DEF RetireStop, RetireBlind, StopOld
  <1>5. CASE RetireWait \/ WaitOld
    BY <1>1, <1>5, WaitDrainType DEF RetireWait, WaitOld, Label
  <1>6. CASE CheckNew \/ CheckOld
    BY <1>6, CheckType DEF CheckNew, CheckOld, Label
  <1>7. CASE Flip \/ Save
    BY <1>1, <1>7, FlipType DEF Flip, Save, Label
  <1>8. CASE Rollback
    <2>1. CASE pc = "rbLoad" /\ LoadCaddy(old, "rbFile")
      BY <1>1, <2>1, FlipType DEF Label, RollbackLabel
    <2>2. CASE pc = "rbFile" /\ WriteFile(old, "rbMarker")
      BY <1>1, <2>2, FlipType DEF Label, RollbackLabel
    <2>3. CASE pc = "rbMarker" /\ WriteMarker(old, Goto("rbActivate"))
      BY <1>1, <2>3, FlipType DEF Label, RollbackLabel
    <2>4. CASE pc = "rbActivate" /\ Admin(old, "activate", "rbStop", {})
      BY <1>1, <2>4, AdminType DEF Label, RollbackLabel
    <2>5. CASE StopCall("rbStop", New, "rbStopping", Fail)
      BY <1>1, <2>5, StopCallType DEF Label, RollbackLabel
    <2>6. CASE StopWait("rbStopping", New, End("failed"), Fail)
      BY <1>1, <2>6, StopWaitType
    <2> QED BY <1>8, <2>1, <2>2, <2>3, <2>4, <2>5, <2>6 DEF Rollback
  <1>9. CASE Start \/ CompactNew
    BY <1>9, StartType, CompactNewType
  <1> QED BY <1>2, <1>3, <1>4, <1>5, <1>6, <1>7, <1>8, <1>9 DEF Controller

(* The state variables keep their types: modes, labels and flags are those *)
(* of the code, and no count of requests in flight goes below zero.        *)
THEOREM TypeCorrect == Spec => []TypeOK
  <1>1. Init => TypeOK
    <2>1. Init => SlotType
      BY DEF Init, SlotType, Mode
    <2>2. Init => CtlType /\ FrontType
      BY DEF Init, CtlType, FrontType, Slot, Label
    <2> QED BY <2>1, <2>2 DEF Init, TypeOK, SlotType, CtlType, FrontType
  <1>2. ASSUME TypeOK, [Next]_vars PROVE TypeOK'
    <2>1. CASE Begin
      BY <1>2, <2>1 DEF TypeOK, Begin, slotVars, frontVars, faultVars, Label
    <2>2. CASE UNCHANGED vars
      BY <1>2, <2>2 DEF TypeOK, vars, slotVars, frontVars, ctlVars, faultVars
    <2> QED BY <1>2, <2>1, <2>2, ControllerType, EnvironmentType DEF Next
  <1> QED BY <1>1, <1>2, PTL DEF Spec

-----------------------------------------------------------------------------
(* The labels reached only after the commit point, those at which the old  *)
(* slot is loaded, and those at which the new one is.                      *)
AfterSave == {"drainOld", "waitOld", "stop", "stopping", "compactNew"}
CommittedLabel == AfterSave \cup {"saveFile", "saveMarker"}
OldLoaded == Label \ {"idle", "inspect", "stopping", "compactNew"}
NewLoaded == AfterSave \cup {"waitStandby", "snapshot", "quiesce", "activate",
                             "checkNew", "checkOld", "load", "flipFile",
                             "flipMarker", "ready"}

(* Launchd is never left with no router to run: whatever fails, one slot   *)
(* stays loaded (each stop belongs to a slot the deploy has replaced).     *)
NeverUnloadsBoth == \E s \in Slot : load[s] = "yes"

(* Where the controller stands tells what has been switched and loaded.    *)
CommitInv ==
    /\ "committed" \in flags => pc \in CommittedLabel
    /\ pc \in AfterSave => "committed" \in flags
    /\ pc \in {"idle", "inspect"} => flags = {}
SwitchInv ==
    /\ "committed" \in flags => caddy = New /\ caddyfile = New /\ marker = New
    /\ pc = "ready" => caddyfile = New /\ marker = New
    /\ pc = "flipMarker" => caddyfile = New
LoadInv ==
    /\ pc \in OldLoaded => load[old] = "yes"
    /\ pc \in NewLoaded \/ "committed" \in flags => load[New] = "yes"
    /\ NeverUnloadsBoth
IInv == TypeOK /\ CommitInv /\ SwitchInv /\ LoadInv

LEMMA FailKeeps ==
    ASSUME IInv, Fail, load' = load, UNCHANGED frontVars
    PROVE  CommitInv' /\ SwitchInv' /\ LoadInv'
  <1>1. CtlType /\ old \in Slot /\ New \in Slot
    BY OtherSlot DEF IInv, TypeOK, CtlType, New
  <1>2. New' = New /\ NeverUnloadsBoth'
    BY <1>1, FailControl DEF New, IInv, LoadInv, NeverUnloadsBoth
  <1>3. CASE pc' = "idle" /\ flags' = {}
    BY <1>2, <1>3 DEF CommitInv, SwitchInv, LoadInv, AfterSave, OldLoaded, NewLoaded
  <1>4. CASE /\ pc' \in RollbackLabel /\ flags' = flags
             /\ pc \in RollbackLabel \/ ("started" \in flags /\ "committed" \notin flags)
    <2>1. "committed" \notin flags
      BY <1>4 DEF IInv, CommitInv, CommittedLabel, AfterSave, RollbackLabel
    <2>2. load[old] = "yes" /\ old' = old
      <3>1. pc \notin {"idle", "inspect", "stopping", "compactNew"}
        BY <1>4, <2>1 DEF IInv, CommitInv, AfterSave, RollbackLabel
      <3> QED BY <1>1, <3>1, FailControl DEF IInv, LoadInv, OldLoaded, TypeOK
    <2> QED BY <1>2, <1>4, <2>1, <2>2
        DEF CommitInv, SwitchInv, LoadInv, AfterSave, NewLoaded, RollbackLabel
  <1> QED BY <1>1, <1>3, <1>4, FailControl

(* An /admin request leaves the labels of launchd and the disk alone.      *)
LEMMA AdminKeeps ==
    ASSUME IInv, NEW s, NEW request, NEW next, NEW f \in SUBSET Flag,
           Admin(s, request, next, f),
           pc \in OldLoaded \ {"inspect"}, next \in OldLoaded \ {"inspect"},
           next \notin {"ready", "flipMarker"},
           "committed" \notin f,
           next \in NewLoaded => pc \in NewLoaded,
           next \in AfterSave <=> pc \in AfterSave,
           pc \in CommittedLabel => next \in CommittedLabel
    PROVE  CommitInv' /\ SwitchInv' /\ LoadInv'
  <1>1. load' = load /\ UNCHANGED frontVars
    BY DEF Admin, Carry, slotVars
  <1>2. CASE Fail
    BY <1>1, <1>2, FailKeeps
  <1>3. CASE Mark(next, f)
    <2>1. New' = New /\ NeverUnloadsBoth' /\ old' = old
      BY <1>1, <1>3 DEF New, IInv, LoadInv, NeverUnloadsBoth, Mark
    <2>2. CommitInv'
      BY <1>3 DEF IInv, CommitInv, Mark, OldLoaded
    <2>3. SwitchInv'
      BY <1>1, <1>3, <2>1 DEF IInv, SwitchInv, Mark, frontVars
    <2>4. LoadInv'
      BY <1>1, <1>3, <2>1 DEF IInv, LoadInv, Mark
    <2> QED BY <2>2, <2>3, <2>4
  <1> QED BY <1>2, <1>3 DEF Admin

LEMMA AdminStep ==
    ASSUME IInv, \/ Reactivate \/ RetireDrain \/ CompactOld \/ Snapshot \/ Quiesce
                 \/ Activate \/ DrainOld
                 \/ (pc = "rbActivate" /\ Admin(old, "activate", "rbStop", {}))
    PROVE  CommitInv' /\ SwitchInv' /\ LoadInv'
  BY AdminKeeps DEF Reactivate, RetireDrain, CompactOld, Snapshot, Quiesce, Activate,
     DrainOld, OldLoaded, NewLoaded, AfterSave, CommittedLabel, Label, RollbackLabel, Flag

(* Unloading the new slot early leaves the old one, unloading the old one  *)
(* after the commit leaves the new one.                                    *)
LEMMA StopStep ==
    ASSUME IInv, \/ RetireStop \/ RetireBlind \/ StopOld
                 \/ StopCall("rbStop", New, "rbStopping", Fail)
                 \/ StopWait("rbStopping", New, End("failed"), Fail)
    PROVE  CommitInv' /\ SwitchInv' /\ LoadInv'
  <1>1. old \in Slot /\ New \in Slot /\ New # old /\ load \in [Slot -> {"no", "yes", "unloading"}]
    BY OtherSlot DEF IInv, TypeOK, New
  <1>2. UNCHANGED frontVars
    BY DEF RetireStop, RetireBlind, StopOld, StopCall, StopWait
  <1>3. CASE load' = load
    <2>1. CASE Fail
      BY <1>2, <1>3, <2>1, FailKeeps
    <2>2. CASE ~Fail
      BY <1>1, <1>2, <1>3, <2>2
      DEF RetireStop, RetireBlind, StopOld, StopCall, StopWait, AfterRetire, Goto, End, New,
          IInv, CommitInv, SwitchInv, LoadInv, NeverUnloadsBoth, frontVars,
          OldLoaded, NewLoaded, AfterSave, CommittedLabel, Label, RollbackLabel
    <2> QED BY <2>1, <2>2
  <1>4. CASE load' # load
    BY <1>1, <1>2, <1>4
    DEF RetireStop, RetireBlind, StopOld, StopCall, StopWait, Unload, Goto, New, slotVars,
        IInv, CommitInv, SwitchInv, LoadInv, NeverUnloadsBoth, frontVars,
        OldLoaded, NewLoaded, AfterSave, CommittedLabel, Label, RollbackLabel
  <1> QED BY <1>3, <1>4

LEMMA ReadStep ==
    ASSUME IInv, \/ Inspect \/ Reinspect \/ Retire \/ Compare \/ WaitStandby \/ Ready
                 \/ CheckNew \/ CheckOld \/ RetireWait \/ WaitOld
    PROVE  CommitInv' /\ SwitchInv' /\ LoadInv'
  <1>1. old \in Slot /\ New \in Slot /\ New # old
    BY OtherSlot DEF IInv, TypeOK, New
  <1>2. UNCHANGED <<slotVars, frontVars>>
    BY DEF Inspect, Reinspect, Retire, Compare, WaitStandby, Ready, CheckNew, CheckOld,
           Check, RetireWait, WaitOld, WaitDrain
  <1>3. CASE Fail
    BY <1>2, <1>3, FailKeeps DEF slotVars
  <1>4. CASE ~Fail
    BY <1>1, <1>2, <1>4
    DEF Inspect, Reinspect, Retire, Compare, WaitStandby, Ready, CheckNew, CheckOld,
        Check, RetireWait, WaitOld, WaitDrain, AfterRetire, Listens, Goto, Mark, End, New,
        IInv, CommitInv, SwitchInv, LoadInv, NeverUnloadsBoth, slotVars, frontVars,
        OldLoaded, NewLoaded, AfterSave, CommittedLabel, Label, RollbackLabel
  <1> QED BY <1>3, <1>4

(* The writes of a flip and of a save; the rollback writes before any      *)
(* commit, so what it undoes is not yet relied on.                         *)
LEMMA FlipStep ==
    ASSUME IInv, \/ Flip \/ Save
                 \/ (pc = "rbLoad" /\ LoadCaddy(old, "rbFile"))
                 \/ (pc = "rbFile" /\ WriteFile(old, "rbMarker"))
                 \/ (pc = "rbMarker" /\ WriteMarker(old, Goto("rbActivate")))
    PROVE  CommitInv' /\ SwitchInv' /\ LoadInv'
  <1>1. old \in Slot /\ New \in Slot /\ New # old
    BY OtherSlot DEF IInv, TypeOK, New
  <1>2. load' = load
    BY DEF Flip, Save, LoadCaddy, WriteFile, WriteMarker, slotVars
  <1>3. CASE Fail
    <2>1. CASE UNCHANGED frontVars
      BY <1>2, <1>3, <2>1, FailKeeps
    <2>2. CASE ~UNCHANGED frontVars
      <3>1. CASE "committed" \in flags
        BY <1>1, <1>3, <2>2, <3>1
        DEF Flip, Save, LoadCaddy, WriteFile, WriteMarker, IInv, CommitInv, CommittedLabel,
            AfterSave, SwitchInv, frontVars
      <3>2. CASE "committed" \notin flags
        BY <1>1, <1>2, <1>3, <2>2, <3>2, FailControl
        DEF Flip, Save, LoadCaddy, WriteFile, WriteMarker, frontVars, New, Fail, Undo, Goto, End,
            IInv, CommitInv, SwitchInv, LoadInv, NeverUnloadsBoth, TypeOK,
            OldLoaded, NewLoaded, AfterSave, CommittedLabel, Label, RollbackLabel
      <3> QED BY <3>1, <3>2
    <2> QED BY <2>1, <2>2
  <1>4. CASE ~Fail
    BY <1>1, <1>2, <1>4
    DEF Flip, Save, LoadCaddy, WriteFile, WriteMarker, Goto, Mark, End, New,
        IInv, CommitInv, SwitchInv, LoadInv, NeverUnloadsBoth, slotVars, frontVars,
        OldLoaded, NewLoaded, AfterSave, CommittedLabel, Label, RollbackLabel
  <1> QED BY <1>3, <1>4

LEMMA StartStep ==
    ASSUME IInv, Start
    PROVE  CommitInv' /\ SwitchInv' /\ LoadInv'
  <1>1. old \in Slot /\ New \in Slot /\ New # old /\ load \in [Slot -> {"no", "yes", "unloading"}]
    BY OtherSlot DEF IInv, TypeOK, New
  <1>2. CASE Fail /\ load' = load
    BY <1>2, FailKeeps DEF Start
  <1>3. CASE Mark("waitStandby", {"started"}) /\ load' = [load EXCEPT ![New] = "yes"]
    BY <1>1, <1>3
    DEF Start, Mark, New, IInv, CommitInv, SwitchInv, LoadInv, NeverUnloadsBoth, frontVars,
        OldLoaded, NewLoaded, AfterSave, CommittedLabel, Label, RollbackLabel
  <1> QED BY <1>2, <1>3 DEF Start

LEMMA CompactNewStep ==
    ASSUME IInv, CompactNew
    PROVE  CommitInv' /\ SwitchInv' /\ LoadInv'
  <1>1. load' = load /\ pc' = "idle" /\ flags' = {}
    BY DEF CompactNew, Carry, slotVars, End
  <1> QED BY <1>1
      DEF IInv, CommitInv, SwitchInv, LoadInv, NeverUnloadsBoth, OldLoaded, NewLoaded,
          AfterSave

LEMMA ControllerStep ==
    ASSUME IInv, Controller
    PROVE  CommitInv' /\ SwitchInv' /\ LoadInv'
  BY AdminStep, StopStep, ReadStep, FlipStep, StartStep, CompactNewStep
  DEF Controller, Rollback

(* Only a slot being unloaded leaves launchd, and a restarted Caddy reads  *)
(* the file the commit has already written.                                *)
LEMMA EnvironmentStep ==
    ASSUME IInv, Environment
    PROVE  CommitInv' /\ SwitchInv' /\ LoadInv'
  <1>1. load \in [Slot -> {"no", "yes", "unloading"}]
    BY DEF IInv, TypeOK
  <1>2. CASE \E s \in Slot : Request(s) \/ Answer(s) \/ Boot(s) \/ Crash(s)
    BY <1>2
    DEF Request, Answer, Boot, Crash, ctlVars, frontVars, New, IInv, CommitInv, SwitchInv,
        LoadInv, NeverUnloadsBoth
  <1>3. CASE \E s \in Slot : Exit(s)
    <2>1. PICK s \in Slot : Exit(s)
      BY <1>3
    <2>2. load[s] = "unloading" /\ \A t \in Slot : load[t] = "yes" => load'[t] = "yes"
      BY <1>1, <2>1 DEF Exit
    <2>3. old \in Slot /\ New \in Slot /\ New' = New
      BY <2>1, OtherSlot DEF IInv, TypeOK, New, Exit, ctlVars
    <2> QED BY <2>1, <2>2, <2>3
        DEF Exit, ctlVars, frontVars, IInv, CommitInv, SwitchInv, LoadInv, NeverUnloadsBoth
  <1>4. CASE CaddyRestart
    BY <1>4
    DEF CaddyRestart, ctlVars, slotVars, New, IInv, CommitInv, SwitchInv, LoadInv,
        NeverUnloadsBoth
  <1>5. CASE Kill
    BY <1>5
    DEF Kill, End, slotVars, frontVars, New, IInv, CommitInv, SwitchInv, LoadInv,
        NeverUnloadsBoth, OldLoaded, NewLoaded, AfterSave
  <1> QED BY <1>2, <1>3, <1>4, <1>5 DEF Environment

LEMMA IndInv == Spec => []IInv
  <1>1. Init => CommitInv /\ SwitchInv /\ LoadInv
    BY DEF Init, CommitInv, SwitchInv, LoadInv, NeverUnloadsBoth, OldLoaded, NewLoaded,
           AfterSave, Slot
  <1>2. ASSUME IInv, [Next]_vars PROVE CommitInv' /\ SwitchInv' /\ LoadInv'
    <2>1. CASE Begin
      <3>1. pc' = "inspect" /\ flags' = {} /\ load' = load
        BY <1>2, <2>1 DEF Begin, slotVars, IInv, CommitInv
      <3> QED BY <1>2, <3>1
          DEF IInv, CommitInv, SwitchInv, LoadInv, NeverUnloadsBoth, OldLoaded, NewLoaded,
              AfterSave
    <2>2. CASE UNCHANGED vars
      BY <1>2, <2>2
      DEF vars, slotVars, frontVars, ctlVars, New, IInv, CommitInv, SwitchInv, LoadInv,
          NeverUnloadsBoth
    <2> QED BY <1>2, <2>1, <2>2, ControllerStep, EnvironmentStep DEF Next
  <1> QED BY <1>1, <1>2, TypeCorrect, PTL DEF Spec, IInv

(* Once a deploy has committed, whatever fails afterwards, a restarted     *)
(* Caddy and a restarted slot find the new slot named on disk.             *)
THEOREM CommitIsDurable == Spec => []CommittedEverywhere
  <1>1. IInv => CommittedEverywhere
    BY DEF IInv, SwitchInv, CommittedEverywhere
  <1> QED BY <1>1, IndInv, PTL

(* No failure, at any call of a deploy, leaves launchd with neither slot   *)
(* loaded.                                                                 *)
THEOREM OneSlotStaysLoaded == Spec => []NeverUnloadsBoth
  <1>1. IInv => NeverUnloadsBoth
    BY DEF IInv, LoadInv
  <1> QED BY <1>1, IndInv, PTL

-----------------------------------------------------------------------------
(* The deploy implements the hand-over.  A step that leaves launchd, Caddy *)
(* and the files alone goes on, ends the deploy or commits it.             *)
Quiet == load' = load /\ old' = old /\ UNCHANGED frontVars
GoesOn == pc' # "idle" /\ ("committed" \in flags' <=> "committed" \in flags)

LEMMA QuietMaps ==
    ASSUME IInv, Quiet, pc # "idle", pc' = "idle" \/ GoesOn
    PROVE  [H!Next]_(H!vars)
  <1>1. Kept' = Kept /\ Recorded' = Recorded /\ caddy' = caddy /\ old' = old
    BY DEF Quiet, frontVars, Kept, Recorded
  <1>2. CASE pc' = "idle"
    <2>1. Phase # "settled" /\ Phase' = "settled"
      BY <1>2 DEF Phase
    <2> QED BY <1>1, <2>1 DEF H!Next, H!End
  <1>3. CASE GoesOn
    <2>1. Phase' = Phase
      BY <1>3 DEF Phase, GoesOn
    <2> QED BY <1>1, <2>1 DEF H!vars
  <1> QED BY <1>2, <1>3

(* What a call does to the control: it fails, ends or goes on.             *)
LEMMA FailMaps ==
    ASSUME IInv, pc # "idle", Fail
    PROVE  old' = old /\ (pc' = "idle" \/ GoesOn)
  <1>1. CtlType
    BY DEF IInv, TypeOK, CtlType
  <1> QED BY <1>1, FailControl DEF GoesOn, RollbackLabel

LEMMA ControlMaps ==
    ASSUME IInv, pc # "idle", NEW l \in Label, l # "idle", NEW f, "committed" \notin f,
           NEW how, Fail \/ Goto(l) \/ Mark(l, f) \/ End(how)
    PROVE  old' = old /\ (pc' = "idle" \/ GoesOn)
  BY FailMaps DEF Goto, Mark, End, GoesOn

LEMMA AdminMaps ==
    ASSUME IInv, NEW s, NEW request, NEW next \in Label, next # "idle", NEW f,
           "committed" \notin f, pc # "idle", Admin(s, request, next, f)
    PROVE  [H!Next]_(H!vars)
  <1>1. load' = load /\ UNCHANGED frontVars
    BY DEF Admin, Carry, slotVars
  <1>2. old' = old /\ (pc' = "idle" \/ GoesOn)
    BY ControlMaps DEF Admin
  <1> QED BY <1>1, <1>2, QuietMaps DEF Quiet

LEMMA AdminsMap ==
    ASSUME IInv, \/ Reactivate \/ RetireDrain \/ CompactOld \/ Snapshot \/ Quiesce
                 \/ Activate \/ DrainOld
                 \/ (pc = "rbActivate" /\ Admin(old, "activate", "rbStop", {}))
    PROVE  [H!Next]_(H!vars)
  BY AdminMaps DEF Reactivate, RetireDrain, CompactOld, Snapshot, Quiesce, Activate,
     DrainOld, Label, RollbackLabel

LEMMA ReadsMap ==
    ASSUME IInv, \/ Inspect \/ Reinspect \/ Retire \/ Compare \/ WaitStandby
                 \/ CheckNew \/ CheckOld \/ RetireWait \/ WaitOld \/ CompactNew
    PROVE  [H!Next]_(H!vars)
  <1>1. load' = load /\ UNCHANGED frontVars /\ pc # "idle"
    BY DEF Inspect, Reinspect, Retire, Compare, WaitStandby, CheckNew, CheckOld,
           Check, RetireWait, WaitOld, WaitDrain, CompactNew, Carry, slotVars
  <1>2. CASE Fail
    <2>1. old' = old /\ (pc' = "idle" \/ GoesOn)
      BY <1>1, <1>2, FailMaps
    <2> QED BY <1>1, <2>1, QuietMaps DEF Quiet
  <1>3. CASE ~Fail
    <2>1. old' = old /\ (pc' = "idle" \/ GoesOn)
      BY <1>3 DEF Inspect, Reinspect, Retire, Compare, WaitStandby, CheckNew, CheckOld,
         Check, RetireWait, WaitOld, WaitDrain, CompactNew, AfterRetire, Goto, End, GoesOn
    <2> QED BY <1>1, <2>1, QuietMaps DEF Quiet
  <1> QED BY <1>2, <1>3

(* The commit point: what Ready sees is what Commit asks for.              *)
LEMMA ReadyMaps ==
    ASSUME IInv, Ready
    PROVE  [H!Next]_(H!vars)
  <1>1. load' = load /\ UNCHANGED frontVars /\ pc = "ready"
    BY DEF Ready, slotVars
  <1>2. CASE Fail
    <2>1. old' = old /\ (pc' = "idle" \/ GoesOn)
      BY <1>1, <1>2, FailMaps
    <2> QED BY <1>1, <2>1, QuietMaps DEF Quiet
  <1>3. CASE caddy = New /\ Mark("saveFile", {"committed"})
    <2>1. old \in Slot /\ New \in Slot /\ New # old
      BY OtherSlot DEF IInv, TypeOK, New
    <2>2. "committed" \notin flags /\ load[New] = "yes" /\ caddyfile = New /\ marker = New
      BY <1>1 DEF IInv, CommitInv, CommittedLabel, AfterSave, SwitchInv, LoadInv, NewLoaded
    <2>3. Phase = "switching" /\ Phase' = "switched"
      BY <1>1, <1>3, <2>2 DEF Phase, Mark
    <2>4. New \in Kept /\ Recorded = {New} /\ UNCHANGED <<old, Kept, caddy, Recorded>>
      BY <1>1, <1>3, <2>1, <2>2 DEF Kept, Recorded, Mark, frontVars
    <2>5. H!Commit
      BY <1>3, <2>1, <2>3, <2>4 DEF H!Commit
    <2> QED BY <2>5 DEF H!Next
  <1> QED BY <1>2, <1>3 DEF Ready

(* Stopping one slot is a Keep that drops it before the commit, and Retire *)
(* after it.                                                               *)
LEMMA UnloadMaps ==
    ASSUME IInv, NEW s \in Slot, NEW l \in Label, l # "idle", pc # "idle",
           Unload(s), Goto(l), UNCHANGED frontVars,
           \/ s = New /\ load[old] = "yes" /\ "committed" \notin flags
           \/ s = old /\ "committed" \in flags
    PROVE  [H!Next]_(H!vars)
  <1>1. old \in Slot /\ New \in Slot /\ New # old /\ Slot = {old, New}
    BY OtherSlot DEF IInv, TypeOK, New
  <1>2. Phase' = Phase /\ UNCHANGED <<old, caddy, Recorded>>
    BY DEF Phase, Goto, frontVars, Recorded
  <1>3. load \in [Slot -> {"no", "yes", "unloading"}]
    BY DEF IInv, TypeOK
  <1>4. Kept' = Kept \ {s}
    BY <1>3 DEF Unload, Kept
  <1>5. CASE s = New /\ load[old] = "yes" /\ "committed" \notin flags
    <2>1. Phase = "switching" /\ old \in Kept
      BY <1>1, <1>5 DEF Phase, Kept
    <2>2. H!Keep(s)
      BY <1>1, <1>2, <1>4, <1>5, <2>1 DEF H!Keep
    <2> QED BY <2>2 DEF H!Next
  <1>6. CASE s = old /\ "committed" \in flags
    <2>1. Phase = "switched" /\ caddy = New /\ New \in Kept
      BY <1>1, <1>6 DEF Phase, Kept, IInv, SwitchInv, LoadInv
    <2>2. H!Retire
      BY <1>1, <1>2, <1>4, <1>6, <2>1 DEF H!Retire
    <2> QED BY <2>2 DEF H!Next
  <1> QED BY <1>5, <1>6

LEMMA StopsMap ==
    ASSUME IInv, \/ RetireStop \/ RetireBlind \/ StopOld
                 \/ StopCall("rbStop", New, "rbStopping", Fail)
                 \/ StopWait("rbStopping", New, End("failed"), Fail)
    PROVE  [H!Next]_(H!vars)
  <1>1. old \in Slot /\ New \in Slot
    BY OtherSlot DEF IInv, TypeOK, New
  <1>2. UNCHANGED frontVars /\ pc # "idle"
    BY DEF RetireStop, RetireBlind, StopOld, StopCall, StopWait
  <1>3. CASE load' = load
    <2>1. CASE Fail
      <3>1. old' = old /\ (pc' = "idle" \/ GoesOn)
        BY <1>2, <2>1, FailMaps
      <3> QED BY <1>2, <1>3, <3>1, QuietMaps DEF Quiet
    <2>2. CASE ~Fail
      <3>1. old' = old /\ (pc' = "idle" \/ GoesOn)
        BY <2>2 DEF RetireStop, RetireBlind, StopOld, StopCall, StopWait, AfterRetire, Goto,
           End, GoesOn
      <3> QED BY <1>2, <1>3, <3>1, QuietMaps DEF Quiet
    <2> QED BY <2>1, <2>2
  <1>4. CASE load' # load
    <2>1. CASE /\ pc \in {"retireStop", "retireBlind", "rbStop"} /\ Unload(New)
               /\ Goto("retireStopping") \/ Goto("retireBlinding") \/ Goto("rbStopping")
      <3>1. load[old] = "yes" /\ "committed" \notin flags
        BY <2>1 DEF IInv, LoadInv, OldLoaded, Label, RollbackLabel, CommitInv, CommittedLabel,
           AfterSave
      <3> QED BY <1>1, <1>2, <2>1, <3>1, UnloadMaps DEF Label, RollbackLabel
    <2>2. CASE pc = "stop" /\ Unload(old) /\ Goto("stopping")
      <3>1. "committed" \in flags
        BY <2>2 DEF IInv, CommitInv, AfterSave
      <3> QED BY <1>1, <1>2, <2>2, <3>1, UnloadMaps DEF Label
    <2> QED BY <1>4, <2>1, <2>2
        DEF RetireStop, RetireBlind, StopOld, StopCall, StopWait, slotVars
  <1> QED BY <1>3, <1>4

LEMMA StartMaps ==
    ASSUME IInv, Start
    PROVE  [H!Next]_(H!vars)
  <1>1. old \in Slot /\ New \in Slot /\ New # old /\ load \in [Slot -> {"no", "yes", "unloading"}]
    BY OtherSlot DEF IInv, TypeOK, New
  <1>2. pc = "start" /\ UNCHANGED frontVars
    BY DEF Start
  <1>3. CASE Fail /\ load' = load
    <2>1. old' = old /\ (pc' = "idle" \/ GoesOn)
      BY <1>2, <1>3, FailMaps
    <2> QED BY <1>2, <1>3, <2>1, QuietMaps DEF Quiet
  <1>4. CASE Mark("waitStandby", {"started"}) /\ load' = [load EXCEPT ![New] = "yes"]
    <2>1. load[old] = "yes" /\ "committed" \notin flags
      BY <1>2 DEF IInv, LoadInv, OldLoaded, Label, CommitInv, CommittedLabel, AfterSave
    <2>2. Phase = "switching" /\ Phase' = Phase /\ UNCHANGED <<old, caddy, Recorded>>
      BY <1>2, <1>4, <2>1 DEF Phase, Mark, frontVars, Recorded
    <2>3. Kept' = Kept \cup {New} /\ old \in Kept
      BY <1>1, <1>4, <2>1 DEF Kept
    <2>4. H!Keep(New)
      BY <1>1, <2>2, <2>3 DEF H!Keep
    <2> QED BY <1>1, <2>4 DEF H!Next
  <1> QED BY <1>3, <1>4 DEF Start

-----------------------------------------------------------------------------
(* A switch before the commit: the slot it names is loaded.                *)
LEMMA LoadMaps ==
    ASSUME IInv, NEW s \in Slot, NEW l \in Label, l # "idle", pc # "idle", LoadCaddy(s, l),
           load[s] = "yes", "committed" \notin flags
    PROVE  [H!Next]_(H!vars)
  <1>1. load' = load /\ UNCHANGED <<caddyfile, marker>>
    BY DEF LoadCaddy, slotVars
  <1>2. old' = old /\ (pc' = "idle" \/ GoesOn)
    BY ControlMaps DEF LoadCaddy
  <1>3. CASE caddy' = caddy
    BY <1>1, <1>2, <1>3, QuietMaps DEF Quiet, frontVars
  <1>4. CASE caddy' = s
    <2>1. Phase = "switching" /\ Phase' \in {Phase, "settled"}
      BY <1>2 DEF Phase, GoesOn
    <2>2. s \in Kept /\ UNCHANGED <<old, Kept, Recorded>>
      BY <1>1, <1>2 DEF Kept, Recorded
    <2>3. H!Reroute(s)
      BY <1>4, <2>1, <2>2 DEF H!Reroute, H!MayEnd
    <2> QED BY <2>3 DEF H!Next
  <1> QED BY <1>3, <1>4 DEF LoadCaddy

LEMMA WriteMaps ==
    ASSUME IInv, NEW s \in Slot, NEW l \in Label, l # "idle", pc # "idle",
           \/ WriteFile(s, l)
           \/ WriteMarker(s, Goto(l))
           \/ WriteMarker(s, Mark(l, {"flipped"}))
           \/ WriteMarker(s, End("ok")),
           load[s] = "yes", "committed" \notin flags
    PROVE  [H!Next]_(H!vars)
  <1>1. load' = load /\ caddy' = caddy
    BY DEF WriteFile, WriteMarker, slotVars
  <1>2. old' = old /\ (pc' = "idle" \/ GoesOn)
    BY ControlMaps DEF WriteFile, WriteMarker
  <1>3. CASE UNCHANGED <<caddyfile, marker>>
    BY <1>1, <1>2, <1>3, QuietMaps DEF Quiet, frontVars
  <1>4. CASE \/ caddyfile' = s /\ marker' = marker
             \/ marker' = s /\ caddyfile' = caddyfile
    <2>1. Phase = "switching" /\ Phase' \in {Phase, "settled"}
      BY <1>2 DEF Phase, GoesOn
    <2>2. s \in Kept /\ UNCHANGED <<old, Kept, caddy>>
      BY <1>1, <1>2 DEF Kept
    <2>3. Recorded' \in {{s}, Recorded \cup {s}}
      <3>1. Slot = {s, Other(s)} /\ caddyfile \in Slot /\ marker \in Slot
        BY OtherSlot DEF IInv, TypeOK
      <3> QED BY <1>4, <3>1 DEF Recorded
    <2>4. H!Record(s)
      BY <2>1, <2>2, <2>3 DEF H!Record, H!MayEnd
    <2> QED BY <2>4 DEF H!Next
  <1> QED BY <1>3, <1>4 DEF WriteFile, WriteMarker

LEMMA FlipMaps ==
    ASSUME IInv, \/ Flip
                 \/ (pc = "rbLoad" /\ LoadCaddy(old, "rbFile"))
                 \/ (pc = "rbFile" /\ WriteFile(old, "rbMarker"))
                 \/ (pc = "rbMarker" /\ WriteMarker(old, Goto("rbActivate")))
    PROVE  [H!Next]_(H!vars)
  <1>1. old \in Slot /\ New \in Slot
    BY OtherSlot DEF IInv, TypeOK, New
  <1>2. pc \in {"load", "flipFile", "flipMarker", "rbLoad", "rbFile", "rbMarker"}
    BY DEF Flip
  <1>3. "committed" \notin flags /\ load[old] = "yes"
        /\ (pc \in {"load", "flipFile", "flipMarker"} => load[New] = "yes")
    BY <1>2 DEF IInv, CommitInv, CommittedLabel, AfterSave, LoadInv, OldLoaded, NewLoaded,
       Label, RollbackLabel
  <1>4. CASE Flip
    <2>1. CASE pc = "load" /\ LoadCaddy(New, "flipFile")
      BY <1>1, <1>3, <2>1, LoadMaps DEF Label
    <2>2. CASE pc = "flipFile" /\ WriteFile(New, "flipMarker")
      BY <1>1, <1>3, <2>2, WriteMaps DEF Label
    <2>3. CASE pc = "flipMarker" /\ WriteMarker(New, Mark("ready", {"flipped"}))
      BY <1>1, <1>3, <2>3, WriteMaps DEF Label
    <2> QED BY <1>4, <2>1, <2>2, <2>3 DEF Flip
  <1>5. CASE pc = "rbLoad" /\ LoadCaddy(old, "rbFile")
    BY <1>1, <1>3, <1>5, LoadMaps DEF Label, RollbackLabel
  <1>6. CASE pc = "rbFile" /\ WriteFile(old, "rbMarker")
    BY <1>1, <1>3, <1>6, WriteMaps DEF Label, RollbackLabel
  <1>7. CASE pc = "rbMarker" /\ WriteMarker(old, Goto("rbActivate"))
    BY <1>1, <1>3, <1>7, WriteMaps DEF Label, RollbackLabel
  <1> QED BY <1>4, <1>5, <1>6, <1>7

(* The save after the commit writes what the flip has written; the save of *)
(* a slot that already ran the binary is a Record.                         *)
LEMMA SaveMaps ==
    ASSUME IInv, Save
    PROVE  [H!Next]_(H!vars)
  <1>1. old \in Slot /\ New \in Slot /\ New # old
    BY OtherSlot DEF IInv, TypeOK, New
  <1>2. pc \in {"saveFile", "saveMarker"}
    BY DEF Save
  <1>3. CASE "committed" \in flags
    <2>1. load' = load /\ UNCHANGED frontVars
      BY <1>3 DEF Save, WriteFile, WriteMarker, slotVars, frontVars, IInv, SwitchInv
    <2>2. Fail \/ Goto("saveMarker") \/ Goto("drainOld")
      BY <1>1, <1>3 DEF Save, WriteFile, WriteMarker
    <2>3. old' = old /\ (pc' = "idle" \/ GoesOn)
      <3>1. CASE Fail
        BY <1>2, <3>1, FailMaps
      <3>2. CASE Goto("saveMarker") \/ Goto("drainOld")
        BY <3>2 DEF Goto, GoesOn
      <3> QED BY <2>2, <3>1, <3>2
    <2> QED BY <1>2, <2>1, <2>3, QuietMaps DEF Quiet
  <1>4. CASE "committed" \notin flags
    <2>1. load[old] = "yes"
      BY <1>2 DEF IInv, LoadInv, OldLoaded, Label
    <2>2. WriteFile(old, "saveMarker") \/ WriteMarker(old, End("ok"))
      BY <1>1, <1>4 DEF Save
    <2> QED BY <1>1, <1>2, <1>4, <2>1, <2>2, WriteMaps DEF Label
  <1> QED BY <1>3, <1>4

(* Outside the controller only a restarted Caddy and a kill are more than  *)
(* a stutter: a slot that exits was dropped when it was told to.           *)
LEMMA EnvironmentMaps ==
    ASSUME IInv, Environment
    PROVE  [H!Next]_(H!vars)
  <1>1. load \in [Slot -> {"no", "yes", "unloading"}]
    BY DEF IInv, TypeOK
  <1>2. CASE \E s \in Slot : Request(s) \/ Answer(s) \/ Boot(s) \/ Exit(s) \/ Crash(s)
    <2>1. UNCHANGED <<old, caddy, Phase, Recorded>>
      BY <1>2 DEF Request, Answer, Boot, Exit, Crash, ctlVars, frontVars, Phase, Recorded
    <2>2. Kept' = Kept
      BY <1>1, <1>2 DEF Request, Answer, Boot, Exit, Crash, Kept
    <2> QED BY <2>1, <2>2 DEF H!vars
  <1>3. CASE CaddyRestart
    <2>1. UNCHANGED <<Phase, old, Kept, Recorded>> /\ caddy' \in Recorded
      BY <1>3 DEF CaddyRestart, ctlVars, slotVars, Phase, Kept, Recorded
    <2>2. CASE Phase = "switched"
      <3>1. caddy' = caddy
        BY <1>3, <2>2 DEF CaddyRestart, Phase, IInv, SwitchInv
      <3> QED BY <2>1, <3>1 DEF H!vars
    <2>3. CASE Phase # "switched"
      <3>1. H!Reread
        BY <2>1, <2>3 DEF H!Reread
      <3> QED BY <3>1 DEF H!Next
    <2> QED BY <2>2, <2>3
  <1>4. CASE Kill
    BY <1>4, QuietMaps DEF Kill, End, Quiet, slotVars
  <1> QED BY <1>2, <1>3, <1>4 DEF Environment

LEMMA StepMaps ==
    ASSUME IInv, [Next]_vars
    PROVE  [H!Next]_(H!vars)
  <1>1. CASE Begin
    <2>1. Phase = "settled" /\ Phase' = "switching"
      BY <1>1 DEF Begin, Phase, IInv, CommitInv
    <2>2. old' = caddy /\ UNCHANGED <<Kept, caddy, Recorded>>
      BY <1>1 DEF Begin, slotVars, frontVars, Kept, Recorded
    <2>3. H!Begin
      BY <2>1, <2>2 DEF H!Begin
    <2> QED BY <2>3 DEF H!Next
  <1>2. CASE Controller
    BY <1>2, AdminsMap, ReadsMap, ReadyMaps, StopsMap, StartMaps, FlipMaps, SaveMaps
    DEF Controller, Rollback
  <1>3. CASE UNCHANGED vars
    BY <1>3 DEF vars, slotVars, frontVars, ctlVars, H!vars, Phase, Kept, Recorded
  <1> QED BY <1>1, <1>2, <1>3, EnvironmentMaps DEF Next

(* Whatever fails and whenever a deploy is killed, the deploy is a         *)
(* hand-over: the old slot is kept until the commit and the new one after, *)
(* and no step leads back from the commit.                                 *)
THEOREM ImplementsHandover == Spec => HandsOver
  <1>1. Init => H!Init
    BY DEF Init, H!Init, Phase, Kept, Recorded, Slot
  <1> QED BY <1>1, IndInv, StepMaps, PTL DEF Spec, HandsOver, H!Spec
-----------------------------------------------------------------------------
(***************************************************************************)
(* What the deploy promises to clients and to the history: the slot behind *)
(* Caddy serves, a slot is drained before it is stopped, and one that may  *)
(* compact the history is alone with it.                                   *)
(***************************************************************************)

\* While the other slot is retired Caddy stays with the old one, unless it
\* restarts.
BeforeLoad == {"inspect", "reactivate", "reinspect", "retire", "retireDrain", "retireWait",
               "retireStop", "retireStopping", "retireBlind", "retireBlinding",
               "compare", "compactOld"}
RouteInv == pc \in BeforeLoad /\ Spared({"caddy"}) => caddy = old
\* A process that has not served holds no request.
RestInv == \A s \in Slot : mode[s] \in {"down", "standby"} => pending[s] = 0
\* The slot about to be stopped has been waited for.
DrainInv ==
    /\ pc = "retireStop" /\ Spared({"caddy"}) =>
           expired \/ pending[New] = 0 \/ load[New] # "yes"
    /\ pc = "stop" => expired \/ pending[old] = 0

LEMMA FailLeaves == Fail => pc' \notin BeforeLoad \cup {"stop"}
  BY DEF Fail, Undo, Goto, End, BeforeLoad

LEMMA StruckGrows == [Next]_vars => struck \subseteq struck'
  <1>1. \A kind : Strike(kind) => struck \subseteq struck'
    BY DEF Strike
  <1>2. NoFault => struck \subseteq struck'
    BY DEF NoFault, faultVars
  <1> QED BY <1>1, <1>2
      DEF Next, Begin, Controller, Environment, Inspect, Reactivate, Reinspect, Retire,
          RetireDrain, RetireWait, RetireStop, RetireBlind, Compare, CompactOld, Start,
          WaitStandby, Snapshot, Quiesce, Activate, CheckNew, CheckOld, Flip, Ready, Save,
          DrainOld, WaitOld, StopOld, CompactNew, Rollback, Admin, WaitDrain, StopCall, StopWait,
          Check, LoadCaddy, WriteFile, WriteMarker, Request, Answer, Boot, Exit, Crash,
          CaddyRestart, Kill, faultVars, vars

LEMMA RouteStep == ASSUME TypeOK, RouteInv, [Next]_vars PROVE RouteInv'
  <1>1. CASE Begin
    BY <1>1, StruckGrows DEF Begin, RouteInv, frontVars
  <1>2. CASE Controller
    <2>1. pc' \in BeforeLoad => pc \in BeforeLoad /\ UNCHANGED <<old, caddy>>
      <3>1. CASE Fail
        BY <3>1, FailLeaves
      <3>2. CASE ~Fail
        BY <1>2, <3>2
        DEF Controller, Inspect, Reactivate, Reinspect, Retire, AfterRetire,
          RetireDrain, RetireWait, RetireStop, RetireBlind, Compare, CompactOld, Start,
          WaitStandby, Snapshot, Quiesce, Activate, CheckNew, CheckOld, Flip, Ready, Save,
          DrainOld, WaitOld, StopOld, CompactNew, Rollback, Admin, WaitDrain, StopCall, StopWait,
          Check, LoadCaddy, WriteFile, WriteMarker, Goto, Mark, End, BeforeLoad, frontVars
      <3> QED BY <3>1, <3>2
    <2> QED BY <1>2, <2>1, StruckGrows DEF RouteInv, Spared
  <1>3. CASE Environment
    <2>1. CASE CaddyRestart
      BY <2>1 DEF CaddyRestart, Strike, RouteInv, Spared
    <2>2. CASE ~CaddyRestart
      BY <1>3, <2>2, StruckGrows
      DEF Environment, Request, Answer, Boot, Exit, Crash, Kill, End, RouteInv, Spared, BeforeLoad,
          ctlVars, frontVars
    <2> QED BY <2>1, <2>2
  <1>4. CASE UNCHANGED vars
    BY <1>4 DEF vars, ctlVars, frontVars, faultVars, RouteInv, Spared
  <1> QED BY <1>1, <1>2, <1>3, <1>4 DEF Next

LEMMA RestStep == ASSUME TypeOK, RestInv, [Next]_vars PROVE RestInv'
  <1>1. ASSUME NEW s \in Slot, NEW request \in {"quiesce", "activate", "drain", "snapshot", "compact"},
               Serves(s, request), Carry(s, request)
        PROVE  RestInv'
    BY <1>1 DEF Carry, Serves, Target, Listens, Accepting, RestInv, TypeOK
  <1>2. ASSUME NEW s \in Slot, Unload(s) PROVE RestInv'
    BY <1>2 DEF Unload, RestInv, TypeOK
  <1>3. CASE UNCHANGED <<mode, pending>>
    BY <1>3 DEF RestInv
  <1>4. CASE Controller
    <2>1. \/ UNCHANGED <<mode, pending>>
          \/ \E s \in Slot : Unload(s)
          \/ \E s \in Slot, request \in {"quiesce", "activate", "drain", "snapshot", "compact"} :
                 Serves(s, request) /\ Carry(s, request)
      BY <1>4, OtherSlot
      DEF Controller, Inspect, Reactivate, Reinspect, Retire, AfterRetire,
          RetireDrain, RetireWait, RetireStop, RetireBlind, Compare, CompactOld, Start,
          WaitStandby, Snapshot, Quiesce, Activate, CheckNew, CheckOld, Flip, Ready, Save,
          DrainOld, WaitOld, StopOld, CompactNew, Rollback, Admin, WaitDrain, StopCall, StopWait,
          Check, LoadCaddy, WriteFile, WriteMarker, slotVars, TypeOK, New
    <2> QED BY <1>1, <1>2, <1>3, <2>1
  <1>5. CASE Environment
    BY <1>3, <1>5
    DEF Environment, Request, Answer, Boot, Exit, Crash, Gone, CaddyRestart, Kill, Accepting,
        slotVars, RestInv, TypeOK
  <1> QED BY <1>3, <1>4, <1>5 DEF Next, Begin, slotVars, vars

LEMMA Rested ==
    ASSUME TypeOK, RestInv, NEW s \in Slot, Drained(s)
    PROVE  pending[s] = 0 \/ load[s] # "yes"
  BY DEF Drained, Listens, RestInv

LEMMA WaitedStep == ASSUME IInv, RestInv, RetireWait \/ WaitOld PROVE DrainInv'
  <1>1. old \in Slot /\ New \in Slot /\ TypeOK
    BY OtherSlot DEF IInv, TypeOK, New
  <1>2. CASE Fail
    BY <1>2, FailLeaves DEF DrainInv, BeforeLoad
  <1>3. CASE RetireWait /\ ~Fail
    <2>1. /\ pc' = "retireStop" /\ expired' = ~Drained(New)
          /\ UNCHANGED <<old, load, pending>>
      BY <1>3 DEF RetireWait, WaitDrain, slotVars
    <2>2. expired' \/ pending[New] = 0 \/ load[New] # "yes"
      BY <1>1, <2>1, Rested
    <2> QED BY <2>1, <2>2 DEF DrainInv, New
  <1>4. CASE WaitOld /\ ~Fail
    <2>1. /\ pc = "waitOld" /\ pc' = "stop" /\ expired' = ~Drained(old)
          /\ UNCHANGED <<old, load, pending>>
      BY <1>4 DEF WaitOld, WaitDrain, slotVars
    <2>2. load[old] = "yes"
      BY <2>1 DEF IInv, LoadInv, OldLoaded, Label
    <2>3. expired' \/ pending[old] = 0
      BY <1>1, <2>1, <2>2, Rested
    <2> QED BY <2>1, <2>3 DEF DrainInv
  <1> QED BY <1>2, <1>3, <1>4

LEMMA DrainStep == ASSUME IInv, RouteInv, RestInv, DrainInv, [Next]_vars PROVE DrainInv'
  <1>1. CASE Begin
    BY <1>1 DEF Begin, DrainInv
  <1>2. CASE RetireWait \/ WaitOld
    BY <1>2, WaitedStep DEF RetireWait, WaitOld
  <1>3. CASE Controller /\ ~RetireWait /\ ~WaitOld
    <2>1. pc' \notin {"retireStop", "stop"}
      <3>1. CASE Fail
        BY <3>1, FailLeaves DEF BeforeLoad
      <3>2. CASE ~Fail
        BY <1>3, <3>2
        DEF Controller, Inspect, Reactivate, Reinspect, Retire, AfterRetire,
          RetireDrain, RetireStop, RetireBlind, Compare, CompactOld, Start,
          WaitStandby, Snapshot, Quiesce, Activate, CheckNew, CheckOld, Flip, Ready, Save,
          DrainOld, StopOld, CompactNew, Rollback, Admin, StopCall, StopWait,
          Check, LoadCaddy, WriteFile, WriteMarker, Goto, Mark, End
      <3> QED BY <3>1, <3>2
    <2> QED BY <2>1 DEF DrainInv
  <1>4. CASE Environment
    <2>1. old \in Slot /\ New \in Slot /\ New # old
      BY OtherSlot DEF IInv, TypeOK, New
    <2>2. CASE Kill
      BY <2>2 DEF Kill, End, DrainInv
    <2>3. CASE ~Kill
      <3>1. UNCHANGED <<pc, old, expired>> /\ New' = New
        BY <1>4, <2>3 DEF Environment, Request, Answer, Boot, Exit, Crash, CaddyRestart, ctlVars, New
      <3>2. ASSUME NEW s \in Slot, pending[s] = 0, caddy # s PROVE pending'[s] = 0
        BY <1>4, <2>3, <3>2
        DEF Environment, Request, Answer, Boot, Exit, Crash, Gone, CaddyRestart, slotVars, IInv, TypeOK
      <3>3. ASSUME NEW s \in Slot, load[s] # "yes" PROVE load'[s] # "yes"
        BY <1>4, <2>3, <3>3
        DEF Environment, Request, Answer, Boot, Exit, Crash, Gone, CaddyRestart, slotVars, IInv, TypeOK
      <3>4. pc = "retireStop" /\ Spared({"caddy"}) => caddy = old
        BY DEF RouteInv, BeforeLoad
      <3>5. pc = "stop" => caddy = New
        BY DEF IInv, CommitInv, SwitchInv, AfterSave
      <3> QED BY <2>1, <3>1, <3>2, <3>3, <3>4, <3>5, StruckGrows DEF DrainInv, Spared, ctlVars
    <2> QED BY <2>2, <2>3
  <1>5. CASE UNCHANGED vars
    BY <1>5 DEF vars, slotVars, ctlVars, faultVars, DrainInv, Spared, New
  <1> QED BY <1>1, <1>2, <1>3, <1>4, <1>5 DEF Next

DrainedStep ==
    \A s \in Slot : /\ pc \in {"retireStop", "stop"} /\ Spared({"caddy"})
                    /\ load[s] = "yes" /\ load'[s] # "yes"
                    => pending[s] = 0 \/ expired

LEMMA StopDrained == ASSUME IInv, DrainInv, [Next]_vars PROVE DrainedStep
  <1>1. SUFFICES ASSUME NEW s \in Slot, pc \in {"retireStop", "stop"}, Spared({"caddy"}),
                        load[s] = "yes", load'[s] # "yes"
                 PROVE  pending[s] = 0 \/ expired
    BY DEF DrainedStep
  <1>2. old \in Slot /\ New \in Slot
    BY OtherSlot DEF IInv, TypeOK, New
  <1>3. load \in [Slot -> {"no", "yes", "unloading"}]
    BY DEF IInv, TypeOK
  <1>4. ASSUME NEW t \in Slot, Unload(t), t # s PROVE load'[s] = load[s]
    BY <1>3, <1>4 DEF Unload
  <1>5. ~Environment /\ ~Begin /\ ~UNCHANGED vars
    BY <1>1, <1>3
    DEF Environment, Request, Answer, Boot, Exit, Crash, CaddyRestart, Kill, Begin, slotVars, vars
  <1>6. \/ pc = "retireStop" /\ Unload(New)
        \/ pc = "stop" /\ Unload(old)
    BY <1>1, <1>5
    DEF Next, Controller, Inspect, Reactivate, Reinspect, Retire,
        RetireDrain, RetireWait, RetireStop, RetireBlind, Compare, CompactOld, Start,
        WaitStandby, Snapshot, Quiesce, Activate, CheckNew, CheckOld, Check, Flip, Ready, Save,
        DrainOld, WaitOld, StopOld, CompactNew, Rollback, Admin, StopCall, StopWait,
        LoadCaddy, WriteFile, WriteMarker, slotVars
  <1>7. (pc = "retireStop" /\ s = New) \/ (pc = "stop" /\ s = old)
    BY <1>1, <1>2, <1>4, <1>6
  <1> QED BY <1>1, <1>7 DEF DrainInv

(* The deploy stops a slot with requests in flight only when its drain       *)
(* timeout has passed, whatever fails (waitDrain, stop and retire).          *)
THEOREM StopsAreDrained == Spec => DrainedBeforeStop
  <1>1. Init => RouteInv /\ RestInv /\ DrainInv
    BY DEF Init, RouteInv, RestInv, DrainInv, BeforeLoad
  <1>2. IInv /\ RouteInv /\ RestInv /\ DrainInv /\ [Next]_vars => (RouteInv /\ RestInv /\ DrainInv)'
    BY RouteStep, RestStep, DrainStep DEF IInv
  <1>3. IInv /\ DrainInv /\ [Next]_vars => [DrainedStep]_vars
    BY StopDrained
  <1>4. Spec => [][DrainedStep]_vars
    BY <1>1, <1>2, <1>3, IndInv, PTL DEF Spec
  <1> QED BY <1>4 DEF DrainedBeforeStop, DrainedStep

-----------------------------------------------------------------------------
SparedBoth == Spared({"launchd", "caddy"})
Quiesced == {"activate", "checkNew", "checkOld", "load"}
\* A slot that may compact is the one Caddy routes to and the other one holds no
\* request.  The new slot of a deploy has no such permission, and the old one has
\* lost it before Caddy moves.
AloneInv ==
    /\ SparedBoth => \A s \in Slot : alone[s] => caddy = s /\ pending[Other(s)] = 0
    /\ SparedBoth /\ pc # "idle" => ~alone[New]
    /\ SparedBoth /\ pc \in Quiesced => ~alone[old]
\* Compacting begins when the other slot's process is gone.
GoneInv ==
    /\ \A s \in Slot : load[s] = "no" => mode[s] = "down"
    /\ SparedBoth /\ pc \in {"compare", "compactOld"} => load[New] = "no"
    /\ pc = "compactNew" => load[old] = "no"

LEMMA FailTurns == Fail => pc' \in RollbackLabel \cup {"idle"} /\ UNCHANGED old
  BY DEF Fail, Undo, Goto, End, RollbackLabel

LEMMA Slots == ASSUME TypeOK PROVE /\ old \in Slot /\ New \in Slot /\ New # old
                                   /\ Slot = {old, New} /\ Other(New) = old
                                   /\ load \in [Slot -> {"no", "yes", "unloading"}]
                                   /\ mode \in [Slot -> Mode] /\ pending \in [Slot -> Nat]
                                   /\ alone \in [Slot -> BOOLEAN]
  BY DEF TypeOK, New, Slot, Other

\* What the controller's calls do to the slots.
LEMMA Calls ==
    ASSUME TypeOK, Controller
    PROVE  \/ UNCHANGED slotVars
           \/ \E s \in Slot :
                 /\ Unload(s) /\ UNCHANGED caddy
                 /\ \/ pc \in {"retireStop", "retireBlind", "rbStop"} /\ s = New
                    \/ pc = "stop" /\ s = old
           \/ Start /\ UNCHANGED <<mode, pending, alone>>
           \/ \E s \in Slot, request \in {"quiesce", "activate", "drain", "snapshot", "compact"} :
                 /\ Serves(s, request) /\ Carry(s, request) /\ UNCHANGED caddy
                 /\ request = "compact" => (pc = "compactOld" /\ s = old) \/ (pc = "compactNew" /\ s = New)
                 /\ request = "drain" => (pc = "retireDrain" /\ s = New) \/ (pc = "drainOld" /\ s = old)
  BY OtherSlot
  DEF Controller, Inspect, Reactivate, Reinspect, Retire,
      RetireDrain, RetireWait, RetireStop, RetireBlind, Compare, CompactOld, Start,
      WaitStandby, Snapshot, Quiesce, Activate, CheckNew, CheckOld, Flip, Ready, Save,
      DrainOld, WaitOld, StopOld, CompactNew, Rollback, Admin, WaitDrain, StopCall, StopWait,
      Check, LoadCaddy, WriteFile, WriteMarker, slotVars, frontVars, TypeOK, New

\* Nothing but a request to compact gives a slot the permission.
LEMMA AloneGiven ==
    ASSUME TypeOK, [Next]_vars, NEW s \in Slot, alone'[s], ~alone[s]
    PROVE  /\ Controller
           /\ (pc = "compactOld" /\ s = old) \/ (pc = "compactNew" /\ s = New)
  <1>1. alone \in [Slot -> BOOLEAN]
    BY DEF TypeOK
  <1>2. CASE Controller
    <2>1. ASSUME NEW t \in Slot, Unload(t) PROVE FALSE
      BY <1>1, <2>1 DEF Unload
    <2>2. ASSUME NEW t \in Slot, NEW request, request # "compact", Carry(t, request) PROVE FALSE
      BY <1>1, <2>2 DEF Carry
    <2>3. PICK t \in Slot, request \in {"quiesce", "activate", "drain", "snapshot", "compact"} :
              /\ Serves(t, request) /\ Carry(t, request)
              /\ request = "compact" => (pc = "compactOld" /\ t = old) \/ (pc = "compactNew" /\ t = New)
      BY <1>2, <2>1, <2>2, Calls DEF slotVars
    <2>4. t = s
      BY <1>1, <2>3 DEF Carry
    <2>5. request = "compact"
      BY <2>2, <2>3
    <2> QED BY <1>2, <2>3, <2>4, <2>5
  <1>3. CASE Environment
    BY <1>1, <1>3
    DEF Environment, Request, Answer, Boot, Exit, Crash, Gone, CaddyRestart, Kill, slotVars
  <1> QED BY <1>2, <1>3 DEF Next, Begin, vars, slotVars

LEMMA SparedBefore == ASSUME [Next]_vars, SparedBoth' PROVE SparedBoth
  BY StruckGrows DEF SparedBoth, Spared

LEMMA GoneStep == ASSUME TypeOK, GoneInv, [Next]_vars PROVE GoneInv'
  <1> USE Slots
  <1>1. \A s \in Slot : load'[s] = "no" => mode'[s] = "down"
    <2>1. ASSUME NEW t \in Slot, Unload(t) PROVE \A s \in Slot : load'[s] = "no" => mode'[s] = "down"
      BY <2>1 DEF Unload, GoneInv
    <2>2. ASSUME NEW t \in Slot, NEW request, Serves(t, request), Carry(t, request)
          PROVE  \A s \in Slot : load'[s] = "no" => mode'[s] = "down"
      BY <2>2 DEF Carry, Serves, Listens, GoneInv
    <2>3. CASE Start
      BY <2>3 DEF Start, GoneInv
    <2>4. CASE UNCHANGED slotVars
      BY <2>4 DEF slotVars, GoneInv
    <2>5. CASE Environment
      BY <2>5
      DEF Environment, Request, Answer, Boot, Exit, Crash, Gone, CaddyRestart, Kill, slotVars,
          GoneInv
    <2> QED BY <2>1, <2>2, <2>3, <2>4, <2>5, Calls DEF Next, Begin, vars
  <1>2. ASSUME NEW s \in Slot, load[s] = "no", ~Start PROVE load'[s] = "no"
    <2>1. ASSUME NEW t \in Slot, Unload(t) PROVE load'[s] = "no"
      BY <1>2, <2>1 DEF Unload, GoneInv
    <2>2. CASE Environment
      BY <1>2, <2>2
      DEF Environment, Request, Answer, Boot, Exit, Crash, Gone, CaddyRestart, Kill, slotVars
    <2> QED BY <1>2, <2>1, <2>2, Calls DEF Next, Begin, vars, slotVars, Carry
  <1>3. CASE Controller
    <2>1. SparedBoth' /\ pc' \in {"compare", "compactOld"} =>
              /\ UNCHANGED <<old, load>>
              /\ pc \in {"compare", "compactOld"} \/ load[New] = "no"
      <3>1. CASE Fail
        BY <3>1, FailTurns DEF RollbackLabel
      <3>2. ASSUME Strike("launchd") PROVE ~SparedBoth'
        BY <3>2 DEF Strike, SparedBoth, Spared
      <3>3. CASE ~Fail
        BY <1>3, <3>2, <3>3
        DEF Controller, Inspect, Reactivate, Reinspect, Retire,
            RetireDrain, RetireWait, RetireStop, RetireBlind, Compare, CompactOld, Start,
            WaitStandby, Snapshot, Quiesce, Activate, CheckNew, CheckOld, Flip, Ready, Save,
            DrainOld, WaitOld, StopOld, CompactNew, Rollback, Admin, WaitDrain, StopCall, StopWait,
            Check, LoadCaddy, WriteFile, WriteMarker, slotVars, Goto, Mark, End, AfterRetire
      <3> QED BY <3>1, <3>3
    <2>2. pc' = "compactNew" => UNCHANGED <<old, load>> /\ load[old] = "no"
      <3>1. CASE Fail
        BY <3>1, FailTurns DEF RollbackLabel
      <3>3. CASE ~Fail
        BY <1>3, <3>3
        DEF Controller, Inspect, Reactivate, Reinspect, Retire,
            RetireDrain, RetireWait, RetireStop, RetireBlind, Compare, CompactOld, Start,
            WaitStandby, Snapshot, Quiesce, Activate, CheckNew, CheckOld, Flip, Ready, Save,
            DrainOld, WaitOld, StopOld, CompactNew, Rollback, Admin, WaitDrain, StopCall, StopWait,
            Check, LoadCaddy, WriteFile, WriteMarker, slotVars, Goto, Mark, End, AfterRetire
      <3> QED BY <3>1, <3>3
    <2> QED BY <1>1, <2>1, <2>2, SparedBefore DEF GoneInv, New
  <1>4. CASE Environment
    <2>1. pc' = "idle" \/ UNCHANGED <<pc, old>>
      BY <1>4
      DEF Environment, Request, Answer, Boot, Exit, Crash, CaddyRestart, Kill, End, ctlVars
    <2>2. CASE ~Start
      BY <1>1, <1>2, <2>1, <2>2, SparedBefore DEF GoneInv, New
    <2>3. CASE Start
      BY <1>1, <1>4, <2>1, <2>3 DEF GoneInv, Start
    <2> QED BY <2>2, <2>3
  <1>5. CASE Begin
    BY <1>1, <1>5 DEF Begin, GoneInv
  <1>6. CASE UNCHANGED vars
    BY <1>1, <1>6, SparedBefore DEF vars, slotVars, ctlVars, GoneInv, New
  <1> QED BY <1>3, <1>4, <1>5, <1>6 DEF Next

-----------------------------------------------------------------------------
\* What a compact under way meets: the other slot has neither requests nor Caddy.
LEMMA CompactAlone ==
    ASSUME IInv, RouteInv, RestInv, GoneInv, Controller, SparedBoth, NEW s \in Slot,
           (pc = "compactOld" /\ s = old) \/ (pc = "compactNew" /\ s = New)
    PROVE  /\ caddy' = s /\ pending'[Other(s)] = 0
           /\ pc' \notin Quiesced
           /\ s = old \/ pc' = "idle"
           /\ UNCHANGED old
  <1> USE Slots DEF IInv
  <1>1. CASE pc = "compactOld"
    <2>1. CompactOld /\ s = old
      BY <1>1, Slots
      DEF Controller, Inspect, Reactivate, Reinspect, Retire,
          RetireDrain, RetireWait, RetireStop, RetireBlind, Compare, Start,
          WaitStandby, Snapshot, Quiesce, Activate, CheckNew, CheckOld, Flip, Ready, Save,
          DrainOld, WaitOld, StopOld, CompactNew, Rollback, StopCall, StopWait, Check
    <2>2. UNCHANGED <<pending, caddy>>
      BY <2>1 DEF CompactOld, Admin, Carry, slotVars, frontVars
    <2>3. caddy = old
      BY <1>1 DEF RouteInv, BeforeLoad, SparedBoth, Spared
    <2>4. pending[New] = 0
      BY <1>1 DEF GoneInv, RestInv
    <2>5. pc' \notin Quiesced /\ UNCHANGED old
      BY <2>1, FailTurns DEF CompactOld, Admin, Mark, RollbackLabel, Quiesced
    <2> QED BY <2>1, <2>2, <2>3, <2>4, <2>5 DEF New
  <1>2. CASE pc = "compactNew"
    <2>1. CompactNew /\ s = New
      BY <1>2, Slots
      DEF Controller, Inspect, Reactivate, Reinspect, Retire,
          RetireDrain, RetireWait, RetireStop, RetireBlind, Compare, CompactOld, Start,
          WaitStandby, Snapshot, Quiesce, Activate, CheckNew, CheckOld, Flip, Ready, Save,
          DrainOld, WaitOld, StopOld, Rollback, StopCall, StopWait, Check
    <2>2. UNCHANGED <<pending, caddy>>
      BY <2>1 DEF CompactNew, Carry, slotVars, frontVars
    <2>3. caddy = New
      BY <1>2 DEF CommitInv, SwitchInv, AfterSave
    <2>4. pending[old] = 0
      BY <1>2 DEF GoneInv, RestInv
    <2>5. pc' = "idle" /\ UNCHANGED old
      BY <2>1 DEF CompactNew, End
    <2> QED BY <2>1, <2>2, <2>3, <2>4, <2>5 DEF Quiesced
  <1> QED BY <1>1, <1>2

LEMMA CaddyMoves ==
    ASSUME TypeOK, [Next]_vars, Spared({"caddy"})', caddy' # caddy
    PROVE  /\ (pc = "load" /\ caddy' = New) \/ (pc = "rbLoad" /\ caddy' = old)
           /\ UNCHANGED slotVars
  <1>1. ~CaddyRestart
    BY DEF CaddyRestart, Strike, Spared
  <1>2. Controller
    BY <1>1
    DEF Next, Begin, vars, frontVars, Environment, Request, Answer, Boot, Exit, Crash, Kill
  <1> QED BY <1>2
      DEF Controller, Inspect, Reactivate, Reinspect, Retire,
          RetireDrain, RetireWait, RetireStop, RetireBlind, Compare, CompactOld, Start,
          WaitStandby, Snapshot, Quiesce, Activate, CheckNew, CheckOld, Flip, Ready, Save,
          DrainOld, WaitOld, StopOld, CompactNew, Rollback, Admin, WaitDrain, StopCall, StopWait,
          Check, LoadCaddy, WriteFile, WriteMarker, frontVars

LEMMA PendingStays ==
    ASSUME TypeOK, [Next]_vars, NEW s \in Slot, pending[s] = 0, caddy # s
    PROVE  pending'[s] = 0
  <1>1. CASE Environment
    BY <1>1
    DEF Environment, Request, Answer, Boot, Exit, Crash, Gone, CaddyRestart, Kill, slotVars, TypeOK
  <1>2. CASE Controller
    BY <1>2, Calls DEF Start, Unload, Carry, slotVars
  <1> QED BY <1>1, <1>2 DEF Next, Begin, vars, slotVars

LEMMA OldStays ==
    ASSUME TypeOK, [Next]_vars, ~Begin
    PROVE  UNCHANGED old /\ (pc = "idle" => pc' = "idle")
  <1>1. ASSUME Fail PROVE UNCHANGED old
    BY <1>1, FailTurns
  <1>2. CASE Controller
    <2>1. pc # "idle"
      BY <1>2
      DEF Controller, Inspect, Reactivate, Reinspect, Retire,
          RetireDrain, RetireWait, RetireStop, RetireBlind, Compare, CompactOld, Start,
          WaitStandby, Snapshot, Quiesce, Activate, CheckNew, CheckOld, Flip, Ready, Save,
          DrainOld, WaitOld, StopOld, CompactNew, Rollback, StopCall, StopWait, Check
    <2>2. UNCHANGED old
      BY <1>1, <1>2
      DEF Controller, Inspect, Reactivate, Reinspect, Retire,
          RetireDrain, RetireWait, RetireStop, RetireBlind, Compare, CompactOld, Start,
          WaitStandby, Snapshot, Quiesce, Activate, CheckNew, CheckOld, Flip, Ready, Save,
          DrainOld, WaitOld, StopOld, CompactNew, Rollback, Admin, WaitDrain, StopCall, StopWait,
          Check, LoadCaddy, WriteFile, WriteMarker, Goto, Mark, End
    <2> QED BY <2>1, <2>2
  <1>3. CASE Environment
    BY <1>3
    DEF Environment, Request, Answer, Boot, Exit, Crash, CaddyRestart, Kill, End, ctlVars
  <1> QED BY <1>2, <1>3 DEF Next, vars, ctlVars

\* The old slot loses its permission as it is quiesced.
LEMMA QuiescedEntered ==
    ASSUME TypeOK, [Next]_vars, pc' \in Quiesced, pc \notin Quiesced
    PROVE  ~alone'[old]
  <1>1. ASSUME Fail PROVE FALSE
    BY <1>1, FailTurns DEF RollbackLabel, Quiesced
  <1>2. CASE Controller
    <2>1. Quiesce
      BY <1>1, <1>2
      DEF Controller, Inspect, Reactivate, Reinspect, Retire, AfterRetire,
          RetireDrain, RetireWait, RetireStop, RetireBlind, Compare, CompactOld, Start,
          WaitStandby, Snapshot, Activate, CheckNew, CheckOld, Flip, Ready, Save,
          DrainOld, WaitOld, StopOld, CompactNew, Rollback, Admin, WaitDrain, StopCall, StopWait,
          Check, LoadCaddy, WriteFile, WriteMarker, Goto, Mark, End, Quiesced
    <2>2. Carry(old, "quiesce")
      BY <1>1, <2>1 DEF Quiesce, Admin
    <2> QED BY <2>2, Slots DEF Carry
  <1> QED BY <1>2
      DEF Next, Begin, Environment, Request, Answer, Boot, Exit, Crash, CaddyRestart, Kill, End,
          ctlVars, vars, Quiesced

-----------------------------------------------------------------------------
LEMMA AloneStep ==
    ASSUME IInv, RouteInv, RestInv, GoneInv, AloneInv, [Next]_vars
    PROVE  AloneInv'
  <1> SUFFICES ASSUME SparedBoth' PROVE AloneInv'
    BY DEF AloneInv
  <1> USE DEF IInv
  <1>1. SparedBoth /\ TypeOK
    BY SparedBefore
  <1>2. ASSUME NEW s \in Slot, alone'[s] PROVE caddy' = s /\ pending'[Other(s)] = 0
    <2>1. CASE ~alone[s]
      BY <1>1, <1>2, <2>1, AloneGiven, CompactAlone
    <2>2. CASE alone[s]
      <3>1. caddy = s /\ pending[Other(s)] = 0 /\ Other(s) \in Slot /\ Other(s) # s
        BY <1>1, <2>2, OtherSlot DEF AloneInv
      <3>2. pending'[Other(s)] = 0
        BY <1>1, <3>1, PendingStays
      <3>3. caddy' = s
        <4>1. CASE caddy' # caddy
          BY <1>1, <2>2, <4>1, CaddyMoves, Slots DEF AloneInv, Quiesced, SparedBoth, Spared
        <4> QED BY <3>1, <4>1
      <3> QED BY <3>2, <3>3
    <2> QED BY <2>1, <2>2
  <1>3. ASSUME pc' # "idle" PROVE ~alone'[New']
    <2>1. CASE Begin
      <3>1. old' = caddy /\ UNCHANGED alone /\ caddy \in Slot
        BY <1>1, <2>1 DEF Begin, slotVars, TypeOK
      <3> QED BY <1>1, <3>1, OtherSlot DEF AloneInv, New
    <2>2. CASE ~Begin
      <3>1. UNCHANGED old /\ pc # "idle" /\ New' = New
        BY <1>1, <1>3, <2>2, OldStays DEF New
      <3>2. ~alone[New]
        BY <1>1, <3>1 DEF AloneInv
      <3>3. CASE alone'[New]
        BY <1>1, <1>3, <3>2, <3>3, AloneGiven, CompactAlone, Slots
      <3> QED BY <3>1, <3>3
    <2> QED BY <2>1, <2>2
  <1>4. ASSUME pc' \in Quiesced PROVE ~alone'[old']
    <2>1. ~Begin
      BY <1>4 DEF Begin, Quiesced
    <2>2. UNCHANGED old
      BY <1>1, <2>1, OldStays
    <2>3. CASE pc \notin Quiesced
      BY <1>1, <1>4, <2>2, <2>3, QuiescedEntered
    <2>4. CASE pc \in Quiesced
      <3>1. ~alone[old]
        BY <1>1, <2>4 DEF AloneInv
      <3>2. CASE alone'[old]
        BY <1>1, <2>4, <3>1, <3>2, AloneGiven, Slots DEF Quiesced
      <3> QED BY <2>2, <3>2
    <2> QED BY <2>3, <2>4
  <1> QED BY <1>2, <1>3, <1>4 DEF AloneInv

(* While a slot may compact the history the other one appends nothing to it, *)
(* whatever fails but launchd's stops and Caddy (compactsHistory).           *)
THEOREM CompactsInPeace == Spec => []CompactsAlone
  <1>1. Init => RouteInv /\ RestInv /\ GoneInv /\ AloneInv
    BY DEF Init, RouteInv, RestInv, GoneInv, AloneInv, BeforeLoad, Quiesced, Slot, Other
  <1>2. IInv /\ RouteInv /\ RestInv /\ GoneInv /\ AloneInv /\ [Next]_vars
            => (RouteInv /\ RestInv /\ GoneInv /\ AloneInv)'
    BY RouteStep, RestStep, GoneStep, AloneStep DEF IInv
  <1>3. IInv /\ AloneInv => CompactsAlone
    BY OtherSlot DEF IInv, TypeOK, AloneInv, CompactsAlone, Appends, SparedBoth
  <1> QED BY <1>1, <1>2, <1>3, IndInv, PTL DEF Spec

-----------------------------------------------------------------------------
SparedServing == Spared({"lostload", "disk", "crash", "caddy"})
OldRouted == BeforeLoad \cup
             {"start", "waitStandby", "snapshot", "quiesce", "activate", "checkNew", "checkOld",
              "load", "rbFile", "rbMarker", "rbActivate", "rbStop", "rbStopping"}
Switching == {"flipFile", "flipMarker", "ready", "rbLoad"}
\* The slot behind Caddy is loaded and admits requests, and so will the one Caddy
\* is about to be given.
ServeInv ==
    /\ SparedServing => load[caddy] = "yes" /\ mode[caddy] \in Accepting
    /\ SparedServing /\ pc \in OldRouted => caddy = old
    /\ SparedServing /\ pc \in {"checkOld", "load"} => mode[New] = "active"
    /\ SparedServing /\ pc \in Switching => mode[old] \in Accepting
    /\ pc = "ready" => "flipped" \in flags

\* An error before the switch, or in the rollback, finds Caddy at the old slot.
LEMMA FailRouted ==
    ASSUME IInv, ServeInv, Fail, pc' \in OldRouted
    PROVE  pc \in OldRouted \cup {"flipFile", "flipMarker", "saveFile", "saveMarker"}
  <1>1. pc \in Label \ {"idle", "rbLoad"} \/ pc = "idle"
    BY DEF IInv, TypeOK, Fail, End, Goto, Undo, OldRouted, BeforeLoad, RollbackLabel
  <1>2. "committed" \notin flags /\ pc # "idle" /\ pc # "ready"
    BY DEF IInv, CommitInv, CommittedLabel, AfterSave, ServeInv, Fail, End, Goto, Undo,
           OldRouted, BeforeLoad, RollbackLabel
  <1> QED BY <1>1, <1>2
      DEF IInv, CommitInv, AfterSave, Label, OldRouted, BeforeLoad, RollbackLabel

LEMMA OldRoutedStep ==
    ASSUME IInv, ServeInv, Controller, SparedServing', pc' \in OldRouted
    PROVE  \/ pc \in OldRouted /\ UNCHANGED <<caddy, old>>
           \/ pc = "rbLoad" /\ caddy' = old /\ UNCHANGED old
  <1>1. ~Strike("disk") /\ ~Strike("lostload")
    BY DEF Strike, SparedServing, Spared
  <1>2. CASE Fail
    <2>1. UNCHANGED old /\ pc \in OldRouted \cup {"flipFile", "flipMarker", "saveFile", "saveMarker"}
      BY <1>2, FailRouted, FailTurns
    <2>2. pc \in OldRouted /\ UNCHANGED caddy
      BY <1>1, <1>2, <2>1
      DEF Controller, Inspect, Reactivate, Reinspect, Retire,
          RetireDrain, RetireWait, RetireStop, RetireBlind, Compare, CompactOld, Start,
          WaitStandby, Snapshot, Quiesce, Activate, CheckNew, CheckOld, Flip, Ready, Save,
          DrainOld, WaitOld, StopOld, CompactNew, Rollback, Admin, WaitDrain, StopCall, StopWait,
          Check, LoadCaddy, WriteFile, WriteMarker, frontVars, Goto, Mark, End, OldRouted,
          BeforeLoad
    <2> QED BY <2>1, <2>2
  <1>3. CASE ~Fail
    BY <1>3
    DEF Controller, Inspect, Reactivate, Reinspect, Retire, AfterRetire,
        RetireDrain, RetireWait, RetireStop, RetireBlind, Compare, CompactOld, Start,
        WaitStandby, Snapshot, Quiesce, Activate, CheckNew, CheckOld, Flip, Ready, Save,
        DrainOld, WaitOld, StopOld, CompactNew, Rollback, Admin, WaitDrain, StopCall, StopWait,
        Check, LoadCaddy, WriteFile, WriteMarker, frontVars, Goto, Mark, End, OldRouted, BeforeLoad
  <1> QED BY <1>2, <1>3

\* Without crashes a process that runs goes on in its mode.
LEMMA ModeStays ==
    ASSUME TypeOK, Environment, SparedServing', NEW s \in Slot, load[s] = "yes", mode[s] # "down"
    PROVE  mode'[s] = mode[s] /\ load'[s] = "yes"
  <1>1. ~Strike("crash")
    BY DEF Strike, SparedServing, Spared
  <1> QED BY <1>1, Slots
      DEF Environment, Request, Answer, Boot, Exit, Crash, CaddyRestart, Kill, Gone, slotVars

LEMMA ServingStep ==
    ASSUME IInv, ServeInv, [Next]_vars, SparedServing, SparedServing'
    PROVE  load'[caddy'] = "yes" /\ mode'[caddy'] \in Accepting
  <1> USE DEF IInv
  <1>1. /\ load[caddy] = "yes" /\ mode[caddy] \in Accepting /\ caddy \in Slot
        /\ Spared({"caddy"})'
    BY DEF ServeInv, TypeOK, SparedServing, Spared
  <1>2. CASE caddy' # caddy
    <2>1. /\ (pc = "load" /\ caddy' = New) \/ (pc = "rbLoad" /\ caddy' = old)
          /\ UNCHANGED slotVars
      BY <1>1, <1>2, CaddyMoves
    <2>2. CASE pc = "load" /\ caddy' = New
      BY <2>1, <2>2 DEF ServeInv, LoadInv, NewLoaded, Accepting, slotVars
    <2>3. CASE pc = "rbLoad" /\ caddy' = old
      <3>1. pc \in OldLoaded /\ pc \in Switching
        BY <2>3 DEF OldLoaded, Label, RollbackLabel, Switching
      <3> QED BY <2>1, <2>3, <3>1 DEF ServeInv, LoadInv, slotVars
    <2> QED BY <2>1, <2>2, <2>3
  <1>3. CASE caddy' = caddy /\ Environment
    BY <1>1, <1>3, ModeStays DEF Accepting
  <1>4. CASE caddy' = caddy /\ Controller
    <2>1. ASSUME NEW s \in Slot, Unload(s),
                 \/ pc \in {"retireStop", "retireBlind", "rbStop"} /\ s = New
                 \/ pc = "stop" /\ s = old
          PROVE  load'[caddy] = "yes" /\ mode'[caddy] \in Accepting
      <3>1. caddy # s
        BY <2>1, Slots
        DEF ServeInv, OldRouted, BeforeLoad, CommitInv, SwitchInv, AfterSave
      <3> QED BY <1>1, <2>1, <3>1, Slots DEF Unload
    <2>2. ASSUME NEW s \in Slot, NEW request, Serves(s, request), Carry(s, request),
                 request = "drain" => (pc = "retireDrain" /\ s = New) \/ (pc = "drainOld" /\ s = old)
          PROVE  load'[caddy] = "yes" /\ mode'[caddy] \in Accepting
      <3>1. request = "drain" => caddy # s
        BY <2>2, Slots
        DEF ServeInv, OldRouted, BeforeLoad, CommitInv, SwitchInv, AfterSave
      <3> QED BY <1>1, <2>2, <3>1, Slots DEF Carry, Target, Accepting
    <2>3. CASE Start /\ UNCHANGED mode
      BY <1>1, <1>4, <2>3, Slots DEF Start
    <2> QED BY <1>1, <1>4, <2>1, <2>2, <2>3, Calls DEF slotVars
  <1>5. CASE Begin \/ UNCHANGED vars
    BY <1>1, <1>5 DEF Begin, slotVars, frontVars, vars
  <1> QED BY <1>2, <1>3, <1>4, <1>5 DEF Next

\* The old slot serves as the switch begins, whatever step leads to it.
LEMMA SwitchingStep ==
    ASSUME IInv, ServeInv, Controller, SparedServing, SparedServing', pc' \in Switching,
           mode'[caddy'] \in Accepting
    PROVE  mode'[old'] \in Accepting
  <1>1. ~Strike("disk") /\ ~Strike("lostload")
    BY DEF Strike, SparedServing, Spared
  <1>2. CASE Fail
    <2>1. pc' = "rbLoad" /\ UNCHANGED old /\ "committed" \notin flags
      BY <1>2, FailTurns DEF Switching, RollbackLabel, Fail, Goto, End, Undo
    <2>2. pc \notin AfterSave
      BY <2>1 DEF IInv, CommitInv
    <2>3. (pc \in OldRouted /\ UNCHANGED caddy) \/ (pc \in Switching /\ UNCHANGED mode)
      BY <1>1, <1>2, <2>1, <2>2
      DEF Controller, Inspect, Reactivate, Reinspect, Retire,
          RetireDrain, RetireWait, RetireStop, RetireBlind, Compare, CompactOld, Start,
          WaitStandby, Snapshot, Quiesce, Activate, CheckNew, CheckOld, Flip, Ready, Save,
          DrainOld, WaitOld, StopOld, CompactNew, Rollback, Admin, WaitDrain, StopCall, StopWait,
          Check, LoadCaddy, WriteFile, WriteMarker, slotVars, frontVars, Goto, Mark, End, OldRouted,
          BeforeLoad, Switching, AfterSave
    <2> QED BY <2>1, <2>3 DEF ServeInv
  <1>3. CASE ~Fail
    <2>1. pc \in Switching \cup {"load"} /\ UNCHANGED <<slotVars, old>>
      BY <1>3
      DEF Controller, Inspect, Reactivate, Reinspect, Retire, AfterRetire,
          RetireDrain, RetireWait, RetireStop, RetireBlind, Compare, CompactOld, Start,
          WaitStandby, Snapshot, Quiesce, Activate, CheckNew, CheckOld, Flip, Ready, Save,
          DrainOld, WaitOld, StopOld, CompactNew, Rollback, Admin, WaitDrain, StopCall, StopWait,
          Check, LoadCaddy, WriteFile, WriteMarker, frontVars, Goto, Mark, End, Switching
    <2> QED BY <2>1 DEF ServeInv, OldRouted, slotVars
  <1> QED BY <1>2, <1>3

LEMMA CheckedStep ==
    ASSUME IInv, ServeInv, Controller, SparedServing, pc' \in {"checkOld", "load"}
    PROVE  mode'[New'] = "active"
  <1>1. ~Fail
    BY FailTurns DEF RollbackLabel
  <1>2. (pc = "checkOld" \/ mode[New] = "active") /\ UNCHANGED <<slotVars, old>>
    BY <1>1
    DEF Controller, Inspect, Reactivate, Reinspect, Retire, AfterRetire,
        RetireDrain, RetireWait, RetireStop, RetireBlind, Compare, CompactOld, Start,
        WaitStandby, Snapshot, Quiesce, Activate, CheckNew, CheckOld, Flip, Ready, Save,
        DrainOld, WaitOld, StopOld, CompactNew, Rollback, Admin, WaitDrain, StopCall, StopWait,
        Check, LoadCaddy, WriteFile, WriteMarker, Goto, Mark, End
  <1> QED BY <1>2 DEF ServeInv, slotVars, New

LEMMA ServeStep == ASSUME IInv, ServeInv, [Next]_vars PROVE ServeInv'
  <1>1. SparedServing' => SparedServing
    BY StruckGrows DEF SparedServing, Spared
  <1>2. TypeOK
    BY DEF IInv
  <1>3. CASE Controller
    <2>1. pc' = "ready" => "flipped" \in flags'
      <3>1. CASE Fail
        BY <3>1, FailTurns DEF RollbackLabel
      <3>2. CASE ~Fail
        BY <1>3, <3>2
        DEF Controller, Inspect, Reactivate, Reinspect, Retire, AfterRetire,
          RetireDrain, RetireWait, RetireStop, RetireBlind, Compare, CompactOld, Start,
          WaitStandby, Snapshot, Quiesce, Activate, CheckNew, CheckOld, Flip, Ready, Save,
          DrainOld, WaitOld, StopOld, CompactNew, Rollback, Admin, WaitDrain, StopCall, StopWait,
          Check, LoadCaddy, WriteFile, WriteMarker, Goto, Mark, End
      <3> QED BY <3>1, <3>2
    <2> QED BY <1>1, <1>3, <2>1, ServingStep, OldRoutedStep, SwitchingStep, CheckedStep
            DEF ServeInv
  <1>4. CASE Environment
    <2>1. pc' = "idle" \/ UNCHANGED <<pc, old, flags>>
      BY <1>4
      DEF Environment, Request, Answer, Boot, Exit, Crash, CaddyRestart, Kill, End, ctlVars
    <2>2. SparedServing' => UNCHANGED caddy
      BY <1>2, <1>4, CaddyMoves
      DEF Environment, Request, Answer, Boot, Exit, Crash, CaddyRestart, Kill, Strike,
          frontVars, SparedServing, Spared
    <2>3. SparedServing' /\ pc' \in {"checkOld", "load"} => mode'[New'] = "active"
      <3>1. pc \in {"checkOld", "load"} => load[New] = "yes"
        BY DEF IInv, LoadInv, NewLoaded
      <3> QED BY <1>1, <1>2, <1>4, <2>1, <3>1, ModeStays, Slots DEF ServeInv, New
    <2>4. SparedServing' /\ pc' \in Switching => mode'[old'] \in Accepting
      <3>1. pc \in Switching => load[old] = "yes"
        BY DEF IInv, LoadInv, OldLoaded, Switching, Label, RollbackLabel
      <3> QED BY <1>1, <1>2, <1>4, <2>1, <3>1, ModeStays, Slots DEF ServeInv, Accepting, Switching
    <2> QED BY <1>1, <2>1, <2>2, <2>3, <2>4, ServingStep DEF ServeInv, OldRouted, BeforeLoad
  <1>5. CASE Begin
    BY <1>1, <1>5, ServingStep DEF Begin, frontVars, ServeInv, Switching
  <1>6. CASE UNCHANGED vars
    BY <1>1, <1>6, ServingStep DEF vars, slotVars, frontVars, ctlVars, ServeInv, New
  <1> QED BY <1>3, <1>4, <1>5, <1>6 DEF Next

(* Caddy never routes to a slot that refuses requests, whatever calls of the *)
(* deploy fail, but for a torn switch, a crash or a restart of Caddy.        *)
THEOREM DeploysServe == Spec => []UpstreamServes
  <1>1. Init => ServeInv
    BY DEF Init, ServeInv, OldRouted, BeforeLoad, Switching, Accepting, Slot
  <1>2. IInv /\ ServeInv /\ [Next]_vars => ServeInv'
    BY ServeStep
  <1>3. ServeInv => UpstreamServes
    BY DEF ServeInv, UpstreamServes, Serving, SparedServing
  <1> QED BY <1>1, <1>2, <1>3, IndInv, PTL DEF Spec
=============================================================================
