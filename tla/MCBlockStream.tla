--------------------------- MODULE MCBlockStream ----------------------------
(* Instances of BlockStream for TLC. *)
EXTENDS BlockStream
=============================================================================
