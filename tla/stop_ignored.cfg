CONSTANTS
  j1 = j1
  j2 = j2
  n1 = n1
  n2 = n2
  n3 = n3
  Job = {j1}
  Node = {n1, n2}
  NoNode = NoNode
  NoJob = NoJob
  Local = n1
  Positions = {0}
  Faults = {}
  AgentFaults = {}
  Need <- MCNeed
  Cores <- MCCores
  IdOrder <- MCIdOrder
  FdsReady = {n1, n2}
SPECIFICATION FairClusterSpec
PROPERTY RemoteStopEnds
