---------------------------- MODULE MCSimRestart ----------------------------
\* Short simulations of few agents, initialized or restarted from their tables.
EXTENDS SimRestart
=============================================================================
