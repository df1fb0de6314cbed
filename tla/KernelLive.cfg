SPECIFICATION FairSpecMC
CONSTANTS
  NPROC = 4
  NSEM = 1
  QUANTUM = 2
  Prios = {20}
  Calls = {"create", "resume", "kill", "sleep10", "recvtim", "send"}
  Uses = {"any"}
  MaxCount = 0
  Delays = {1, 2}
  MaxDefer = 0
  MaxDiff = 0
  Msgs = {0}
  MaxHasmsg = 1
  MaxOverkill = 0
  Kin = {}
PROPERTIES
  EqualsShareCPU
  SleepersWake
