------------------------------ MODULE MCNetMulti ------------------------------
(* Three fetches and as many I/O threads as a shutdown can make them start. *)
EXTENDS NetMulti

CONSTANTS f1, f2, f3
=============================================================================
