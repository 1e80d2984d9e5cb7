----------------------------- MODULE MCLlmService -----------------------------
\* TLC instances of LlmService; the cfg files give the constants.
EXTENDS LlmService
===============================================================================
