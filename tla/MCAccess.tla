------------------------------ MODULE MCAccess -------------------------------
(* Access with overlapping requests: the instance for TLC. *)
EXTENDS Access
=============================================================================
