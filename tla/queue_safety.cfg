CONSTANTS
  j1 = j1
  j2 = j2
  n1 = n1
  n2 = n2
  Job = {j1, j2}
  Node = {n1, n2}
  NoNode = NoNode
  NoJob = NoJob
  Local = n1
  Positions = {0, 1, 2}
  Faults = {"restart", "survive", "pid_reused", "spawn_fails", "reader_fails"}
  Need <- MCNeed
  Cores <- MCCores
  IdOrder <- MCIdOrder
  FdsReady = {n1, n2}
SYMMETRY MCSymmetry
CONSTRAINTS NoDeadlines NoArchiving
SPECIFICATION Spec
INVARIANTS TypeOK SlotInvariant OneLocalRun QueuePositions
