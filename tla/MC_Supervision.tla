--------------------------- MODULE MC_Supervision ---------------------------
EXTENDS Supervision
=============================================================================
