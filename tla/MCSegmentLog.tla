---------------------------- MODULE MCSegmentLog ----------------------------
(* SegmentLog with small constants for TLC. *)
EXTENDS SegmentLog

====================
