CONSTANTS
  j1 = j1
  j2 = j2
  n1 = n1
  n2 = n2
  n3 = n3
  Job = {j1, j2}
  Node = {n1, n2}
  NoNode = NoNode
  NoJob = NoJob
  Local = n1
  Positions = {0, 1}
  Faults = {}
  AgentFaults = {"agent_crash", "case_fails", "watch_fails"}
  Need <- MCNeed
  Cores <- MCCores
  IdOrder <- MCIdOrder
  FdsReady = {n1, n2}
CONSTRAINTS NoDeadlines NoArchiving StartsWaitForAssignment
SPECIFICATION FairClusterSpec
INVARIANTS WatchedRunIsRunning RunsOnce
PROPERTIES AgentOutcomeIsFinal EarlyStopEnds LostRunEnds
