-------------------------- MODULE MCEntropyServer ---------------------------
(* Instances of EntropyServer for TLC. *)
EXTENDS EntropyServer
=============================================================================
