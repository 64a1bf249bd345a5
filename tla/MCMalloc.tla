------------------------------ MODULE MCMalloc ------------------------------
(* A heap of a few words. *)
EXTENDS Malloc

SomeSizes == {1, 2, 5}
=============================================================================
