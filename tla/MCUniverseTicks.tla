--------------------------- MODULE MCUniverseTicks ----------------------------
\* One client, which the server cannot tell from any other; five ticks, a snapshot
\* every other one, a forwarder that lags after two events.
EXTENDS UniverseTicks

CONSTANT client
===============================================================================
