--------------------------- MODULE MCSeparateDay ---------------------------
(* Small days of SeparateBooks: the arguments of every run are chosen in Init. *)
EXTENDS SeparateBooks
=============================================================================
