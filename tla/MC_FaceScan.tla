---------------------------- MODULE MC_FaceScan ----------------------------
(* The scans of a face on small instances.                                 *)
EXTENDS FaceScan
=============================================================================
