------------------------- MODULE MCSeparatePlanning -------------------------
(* Two cashiers on a day of two segments of three slots each. *)
EXTENDS SeparatePlanning
=============================================================================
