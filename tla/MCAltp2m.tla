------------------------------ MODULE MCAltp2m ------------------------------
(* TLC instances of Altp2m. *)
EXTENDS Altp2m
=============================================================================
