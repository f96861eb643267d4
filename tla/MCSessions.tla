----------------------------- MODULE MCSessions -----------------------------
(* Two router processes, two sessions, one configured pseudonym.           *)
EXTENDS Sessions, TLC
CONSTANTS s1, s2, blue, green, r1, r2, p1, p2, x1, a1, a2, a3
MCNames == {s1, s2}
MCProcesses == {blue, green}
MCRequests == {r1, r2}
MCPlain == {p1, p2}
MCExplicit == {x1}
MCInvented == {a1, a2, a3}
Symmetry == Permutations(MCNames) \union Permutations(MCProcesses) \union Permutations(MCRequests)
            \union Permutations(MCInvented) \union Permutations(MCPlain)
=============================================================================
