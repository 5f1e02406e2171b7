---------------------------- MODULE MC_SetupFlow ----------------------------
EXTENDS SetupFlow
=============================================================================
