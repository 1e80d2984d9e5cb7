----------------------------- MODULE MCSeedLedger -----------------------------
\* TLC instance of SeedLedger; the cfg file gives the constants.
EXTENDS SeedLedger
===============================================================================
