--------------------------- MODULE MCSubagentRelay ---------------------------
(* A small instance of SubagentRelay. *)
EXTENDS SubagentRelay
=============================================================================
