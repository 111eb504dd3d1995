---------------------------- MODULE MCViewTables ----------------------------
(* Model checking of ViewTables. *)
EXTENDS ViewTables
=============================================================================
