------------------------------ MODULE MCLimits ------------------------------
(***************************************************************************)
(* Limits with constants, variables and properties of names of their own,  *)
(* so that its theorems stand beside those about the other shared files    *)
(* (SharedFilesProofs).                                                    *)
(***************************************************************************)
EXTENDS Integers

CONSTANTS Process, MaxTime, ClockSkew, MaxObservations, MaxChanges

ASSUME ClockAssumption == {MaxTime, ClockSkew, MaxObservations, MaxChanges} \subseteq Nat

VARIABLES now, top, role, memory, disk, dirty, saver, asOf, draft, crossed, unread, failed,
          observations, changes

L == INSTANCE Limits WITH Slot <- Process, MaxEvents <- MaxChanges, events <- changes

LimitsSpec == L!Spec

(* limits.json never goes back to an older observation (Save).             *)
NeverOlder == L!NeverOlder

(* What a slot observes while it stays active reaches the file (schedule). *)
ObservedIsSaved == L!ObservedIsSaved
=============================================================================
