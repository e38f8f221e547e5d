-------------------------- MODULE MCNginxOperations --------------------------
(* NginxOperations for TLC. *)
EXTENDS NginxOperations, TLC

MCAgentNode == [a \in Agents |-> CHOOSE n \in Nodes : TRUE]

\* Requests differ in nothing but their name.
Symmetry == Permutations(Requests)
=============================================================================
