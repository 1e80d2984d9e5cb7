--------------------------------- MODULE MCLink ---------------------------------
\* TLC instances of Link: two systems, and a seed of the client's for each that
\* another player may have been first to replace.
EXTENDS Link, TLC

CONSTANTS k1, k2, x1, x2, y

LocalSeed == (k1 :> x1) @@ (k2 :> x2)
===============================================================================
