----------------------------- MODULE MCMPSCQueue -----------------------------
EXTENDS MPSCQueue
==============================================================================
