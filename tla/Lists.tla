------------------------------- MODULE Lists -------------------------------
(* What is left of a list when its other members are passed over, the lists *)
(* in a list joined, and the sum of a list.  They are written as recursive  *)
(* functions so that the proofs can go through them.                        *)
EXTENDS Naturals, Sequences

\* The members of s that are in X, in the order of s.
Only(s, X) ==
    LET only[n \in 0..Len(s)] ==
            IF n = 0 THEN <<>>
            ELSE IF s[n] \in X THEN Append(only[n - 1], s[n]) ELSE only[n - 1]
    IN  only[Len(s)]

\* The lists in s, one after the other.
Flat(s) ==
    LET flat[n \in 0..Len(s)] == IF n = 0 THEN <<>> ELSE flat[n - 1] \o s[n]
    IN  flat[Len(s)]

\* The sum of the numbers in s.
Total(s) ==
    LET total[n \in 0..Len(s)] == IF n = 0 THEN 0 ELSE total[n - 1] + s[n]
    IN  total[Len(s)]
=============================================================================
