SPECIFICATION SpecT
CONSTANTS
  NPROC = 4
  NSEM = 1
  QUANTUM = 1
  Prios = {20}
  Calls = {"create", "resume", "sendf", "recvclr", "send", "recvtim", "sleep10", "stopclk"}
  MaxCount = 0
  Delays = {1, 2}
  MaxDefer = 1
  MaxDiff = 2
  Msgs = {0}
  MaxHasmsg = 1
  MaxOverkill = 0
  Kin = {}
INVARIANTS
  DeltasAddUp
  SleepQueueCurrent
PROPERTIES
  NoEarlyWakeup
CHECK_DEADLOCK FALSE
