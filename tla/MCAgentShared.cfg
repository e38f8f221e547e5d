\* Two processes under one agent id poll and report for the same node.
SPECIFICATION Spec
CONSTANTS
  t1 = t1
  t2 = t2
  a1 = a1
  a2 = a2
  n1 = n1
  n2 = n2
  p1 = p1
  p2 = p2
  None = None
  Tasks = {t1}
  Agents = {a1, a2}
  Nodes = {n1}
  Polls = {p1, p2}
  TaskNode <- OneNodeTasks
  AgentNode <- OneNodeAgents
  PollLimit = 1
  MaxFaults = 2
SYMMETRY Symmetry
INVARIANT AnswerMatchesRow
PROPERTY CompletionStays
