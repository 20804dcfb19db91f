---------------------------- MODULE MCSegmentDay ----------------------------
(* Small plans of SegmentDay. *)
EXTENDS SegmentDay
=============================================================================
