---------------------------- MODULE MCSlotState ----------------------------
(***************************************************************************)
(* SlotState with constants, variables and properties of names of their    *)
(* own, so that its theorems stand beside those about the other shared     *)
(* files (SharedFilesProofs).  Outcomes are interchangeable, and so are    *)
(* the goroutines that save.                                               *)
(***************************************************************************)
EXTENDS FiniteSets, Integers, TLC

CONSTANTS Router, Outcome, Binding, Saver, MaxSwitches, NoFile

VARIABLES mode, known, saving, models, tmp, snapshot, slotFile, marked, step, left,
          switches, due, recorded, overlapped

St == INSTANCE SlotState WITH Slot <- Router, MaxEvents <- MaxSwitches, events <- switches,
                              role <- mode, saver <- saving, serving <- marked

ASSUME RouterAssumption == \E a, b \in Router : a # b /\ Router = {a, b}
ASSUME OutcomeAssumption == MaxSwitches \in Nat /\ Outcome \cap Binding = {}
ASSUME FileAssumption == \A f \in St!Content \cup St!Picture : f # NoFile

SlotStateSpec == St!Spec

(* Deploys, rollbacks and restarts lose nothing of what the serving slot   *)
(* has recorded outside a switch (runtime.go, state.go).                   *)
KeptAcrossSwitches == St!KeptAcrossSwitches

(* A start finds models.json whole unless two saves overlapped (health.go).*)
ReadableUnlessOverlapped == St!ReadableUnlessOverlapped

Symmetry == Permutations(Outcome) \cup Permutations(Saver)
=============================================================================
