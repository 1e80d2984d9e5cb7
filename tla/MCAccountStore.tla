---------------------------- MODULE MCAccountStore ----------------------------
\* One player registers by name, one comes from an OAuth provider, and they share an
\* address; the provider's player may be made a second time under a longer name.
EXTENDS AccountStore, TLC

CONSTANTS ada, oauth8, oauth12, r1, r2, r3, sub

ShortNames == sub :> oauth8
LongNames == sub :> oauth12
===============================================================================
