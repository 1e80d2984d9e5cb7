------------------------------- MODULE MCPresence -------------------------------
\* TLC instance of Presence: two players, one of whom may hold two sessions; the other has
\* a token of another universe than the one its client plays in, with the first.
EXTENDS Presence, TLC

CONSTANTS s1, s2, s3, p1, p2, u1, u2

Symmetry == Permutations(Systems)
Owner == (s1 :> p1) @@ (s2 :> p1) @@ (s3 :> p2)
Token == (s1 :> u1) @@ (s2 :> u1) @@ (s3 :> u2)
Played == [s \in Sessions |-> {u1}]
===============================================================================
