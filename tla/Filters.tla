-------------------------------- MODULE Filters --------------------------------
(***************************************************************************)
(* The elements of a sequence that are in a set, in their order.  It is    *)
(* SelectSeq for a test given as a set, and unlike SelectSeq the prover    *)
(* can look into it.                                                       *)
(***************************************************************************)
EXTENDS Naturals, Sequences

\* What is kept of the first n elements.
Kept(s, S) ==
    LET kept[n \in 0..Len(s)] ==
            IF n = 0 THEN <<>>
            ELSE IF s[n] \in S THEN Append(kept[n - 1], s[n]) ELSE kept[n - 1]
    IN  kept

Only(s, S) == Kept(s, S)[Len(s)]
================================================================================
