------------------------------ MODULE MCRouting ------------------------------
(* Two members of one connection and one of another, which is Codex.         *)
EXTENDS Routing
CONSTANTS a1, a2, b
TwoConnections == <<a1, a2, b>>
OfConnection == [m \in {a1, a2, b} |-> IF m = b THEN "second" ELSE "first"]
Alike == Permutations(Session) \cup Permutations(Request)

\* Balance decides a session's first member and failover what follows a failure:
\* they are on together, or off together.
BothOrNeither == Init /\ balance = failover
MCSpec == BothOrNeither /\ [][Next]_vars
=============================================================================
