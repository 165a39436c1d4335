-------------------------- MODULE MCRuntimeSurface --------------------------
(* A small instance of RuntimeSurface. *)
EXTENDS RuntimeSurface
=============================================================================
