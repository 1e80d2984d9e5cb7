--------------------------- MODULE MCCoDeliberation ---------------------------
\* Four of the crew, two proposals.  The two seniors hold the others in neutral or high
\* regard, the two juniors in neutral or low: so little below the threshold that arguing
\* lifts it above within the three rounds.
EXTENDS CoDeliberation

Standings == {[i \in Crew |-> [j \in Crew |-> IF i = j THEN 0 ELSE s[i]]] :
                 s \in {t \in [Crew -> {-280, 0, 300}] : /\ t[1] >= 0 /\ t[2] >= 0
                                                         /\ t[3] <= 0 /\ t[4] <= 0}}

Stances == {Propose(1), Propose(2), Abstain, [kind |-> "support", on |-> 1]}
===============================================================================
