-------------------------- MODULE MC_EnrollSession --------------------------
EXTENDS EnrollSession
=============================================================================
