SPECIFICATION SpecP
CONSTANTS
  NPROC = 4
  NSEM = 2
  QUANTUM = 1
  Prios = {21}
  Calls = {"create", "resume", "kill", "pcreate", "psend", "preceive", "preset", "pdelete", "screate"}
  MaxCount = 0
  Delays = {}
  MaxDefer = 0
  MaxDiff = 0
  Msgs = {0}
  MaxHasmsg = 1
  MaxOverkill = 0
  Kin = {}
  NPORTS = 1
  MAXMSGS = 1
  Counts = {1}
  MaxSeq = 3
INVARIANTS
  PlacesKept
  GrantsAreGood
  LimboEnds
