------------------------ MODULE MCAgentContinuation ------------------------
(* Small instances of AgentContinuation for TLC. *)
EXTENDS AgentContinuation, TLC

CONSTANTS o1, o2, o3, p1, p2

(* Prompts are interchangeable, and so are launches that both have a
   heartbeat or both have none.                                            *)
Symmetry == Permutations(Prompts) \cup Permutations(Heartbeating)
                \cup Permutations(Owners \ Heartbeating)
=============================================================================
