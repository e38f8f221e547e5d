---------------------------- MODULE MCAgentTasks ----------------------------
(* Instances of AgentTasks for TLC. *)
EXTENDS AgentTasks, TLC

CONSTANTS t1, t2, a1, a2, n1, n2, p1, p2

\* Everything on one node.
OneNodeTasks == [t \in Tasks |-> n1]
OneNodeAgents == [a \in Agents |-> n1]

\* The second task and the second agent belong to another node.
TwoNodeTasks == [t \in Tasks |-> IF t = t2 THEN n2 ELSE n1]
TwoNodeAgents == [a \in Agents |-> IF a = a2 THEN n2 ELSE n1]

\* Tasks, agents and slots of one node are interchangeable.
Symmetry == Permutations(Tasks) \cup Permutations(Agents) \cup Permutations(Polls)

\* For instances with two nodes.
PollSymmetry == Permutations(Polls)
=============================================================================
