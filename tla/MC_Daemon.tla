----------------------------- MODULE MC_Daemon -----------------------------
(* The daemon on small instances.                                          *)
EXTENDS Daemon

CONSTANTS c1, c2, n1, n2

TwoClients == {c1, c2}
TwoNonces == {n1, n2}
=============================================================================
