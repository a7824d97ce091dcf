CONSTANTS
  j1 = j1
  j2 = j2
  n1 = n1
  n2 = n2
  n3 = n3
  Job = {j1}
  Node = {n1, n2, n3}
  NoNode = NoNode
  NoJob = NoJob
  Local = n1
  Positions = {0}
  Faults = {"restart", "spawn_fails"}
  AgentFaults = {"agent_crash", "outlive", "lost", "late", "refused", "case_fails", "watch_fails", "cut_off"}
  Need <- MCNeed
  Cores <- MCCores
  IdOrder <- MCIdOrder
  FdsReady = {n1, n2, n3}
CONSTRAINTS NoDeadlines NoArchiving NoAutoAdvance
SPECIFICATION ClusterSpec
INVARIANTS ClusterTypeOK RunsOnOneAgent
PROPERTY OutcomeIsTheirs
