---------------------------- MODULE MCDeliberation ----------------------------
\* TLC instances of Deliberation; the cfg files give the constants.
EXTENDS Deliberation
===============================================================================
