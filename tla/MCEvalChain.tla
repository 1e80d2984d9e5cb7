------------------------------ MODULE MCEvalChain ------------------------------
\* TLC instances of EvalChain; the cfg files give the constants.
EXTENDS EvalChain
===============================================================================
