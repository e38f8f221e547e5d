\* Only the Dispatch goroutine is scheduled fairly.
SPECIFICATION FairSpec
CONSTANTS
  t1 = t1
  t2 = t2
  a1 = a1
  a2 = a2
  n1 = n1
  n2 = n2
  p1 = p1
  p2 = p2
  None = None
  Tasks = {t1}
  Agents = {a1, a2}
  Nodes = {n1}
  Polls = {p1, p2}
  TaskNode <- OneNodeTasks
  AgentNode <- OneNodeAgents
  PollLimit = 1
  MaxFaults = 1
PROPERTY DispatchReturns
