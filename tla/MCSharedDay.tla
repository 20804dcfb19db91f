---------------------------- MODULE MCSharedDay ----------------------------
(* Small days of SharedPlayback: the arguments of every run are chosen in Init. *)
EXTENDS SharedPlayback
=============================================================================
