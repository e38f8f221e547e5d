\* Handlers and agents are scheduled fairly and faults end.
SPECIFICATION FairQueueSpec
CONSTANTS
  t1 = t1
  t2 = t2
  a1 = a1
  a2 = a2
  n1 = n1
  n2 = n2
  p1 = p1
  p2 = p2
  None = None
  Tasks = {t1, t2}
  Agents = {a1}
  Nodes = {n1}
  Polls = {p1, p2}
  TaskNode <- OneNodeTasks
  AgentNode <- OneNodeAgents
  PollLimit = 1
  MaxFaults = 1
PROPERTY QueueDrains
