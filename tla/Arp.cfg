SPECIFICATION FairSpec
CONSTANTS
  Procs = {"p", "q"}
  Hosts = {"h", "gw"}
  Gateway = "gw"
  Far = "far"
  AR_TAB = 3
  AR_RTRY = 2
INVARIANTS
  RightHost
  AskerInGetpath
PROPERTIES
  WokenForCause
  OverrunInWindow
  SendEnds
CHECK_DEADLOCK FALSE
