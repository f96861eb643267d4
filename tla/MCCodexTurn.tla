---------------------------- MODULE MCCodexTurn -----------------------------
(***************************************************************************)
(* CodexTurn with a variable and properties of names of their own, so that *)
(* its theorems can stand beside those about Routing, and two accounts.    *)
(***************************************************************************)
EXTENDS Lists, FiniteSets, SequencesExt, TLC

CONSTANTS Scopes, NoScope, MaxTurns, MaxCalls, MaxItems, MaxFragments, MaxRecords, MaxForks

ASSUME TurnBoundsAssumption ==
    {MaxTurns, MaxCalls, MaxItems, MaxFragments, MaxRecords, MaxForks} \subseteq Nat
ASSUME SpeakerAssumption == "client" \notin Scopes

VARIABLES log, records, step, turn, scope, streaming, sent, items, decoder, whole, projection,
          blocks, open, calls, forks, sentItems, sentFragments

Talk == INSTANCE CodexTurn WITH pc <- step

TurnSpec == Talk!Spec

(* The client sees one content block after another, and none changes once  *)
(* it was stopped (streamResponsePolicy).                                  *)
OneBlockAtATime == Talk!OneBlockAtATime

(* The client has an answer's text and arguments once, and its echo fits   *)
(* the record saved for it (TextStream, Start).                            *)
EchoMatches == Talk!EchoMatches

(* Native output goes back only to its account, after the conversation it  *)
(* answered, byte for byte while nothing was lost (Restore).               *)
ReplayExact == Talk!ReplayExact

-----------------------------------------------------------------------------

CONSTANTS account1, account2
Accounts == {account1, account2}
Symmetry == Permutations(Accounts)
=============================================================================
