--------------------------- MODULE MC_LockUnlock ---------------------------
(* The lock-screen coordinator on small instances.                         *)
EXTENDS LockUnlock
=============================================================================
