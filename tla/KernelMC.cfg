SPECIFICATION SpecMC
CONSTANTS
  NPROC = 4
  NSEM = 2
  QUANTUM = 1
  Prios = {19, 21}
  Calls = {}
  Uses = {"priorities", "heirs", "semaphores"}
  MaxCount = 2
  Delays = {0}
  MaxDefer = 0
  MaxDiff = 0
  Msgs = {0}
  MaxHasmsg = 1
  MaxOverkill = 0
  Kin = {3}
INVARIANTS
  TypeOK
  ListsMatchStates
  ReadyListSorted
  HighestPriorityRuns
  NullAlwaysRunnable
  ReceiverHasMessage
  SemCountsWaiters
PROPERTIES
  SemFifo
