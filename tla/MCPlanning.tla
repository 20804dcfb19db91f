----------------------------- MODULE MCPlanning -----------------------------
(* Small planning problems: the arguments of every comparison are chosen in Init. *)
EXTENDS Planning
=============================================================================
