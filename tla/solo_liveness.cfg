CONSTANTS
  j1 = j1
  j2 = j2
  n1 = n1
  n2 = n2
  Job = {j1, j2}
  Node = {n1}
  NoNode = NoNode
  NoJob = NoJob
  Local = n1
  Positions = {0, 1}
  Faults = {"restart", "spawn_fails"}
  Need <- MCNeed
  Cores <- MCCores
  IdOrder <- MCIdOrder
  FdsReady = {n1}
SPECIFICATION FairSpec
INVARIANT RunningRowIsTracked
PROPERTIES StopEnds DeadlineEnds QueueDrains OutcomeIsFinal ImplementsSlot SlotSettles
