SPECIFICATION Spec
CONSTANTS
  Procs = {"p", "q"}
  Hosts = {"h", "gw"}
  Gateway = "gw"
  Far = "far"
  AR_TAB = 3
  AR_RTRY = 2
INVARIANTS
  IndexInTable
CHECK_DEADLOCK FALSE
