------------------------------ MODULE MCToggle ------------------------------
(* Instances of Toggle for TLC. *)
EXTENDS Toggle

=============================================================================
