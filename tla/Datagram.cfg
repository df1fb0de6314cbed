SPECIFICATION FairSpec
CONSTANTS
  Procs = {"netin", "netout", "ether", "ports", "nobody", "u1"}
  NumBufs = 5
  NETQS = 1
  NETQLEN = 1
  NETFQ = 1
  AR_RTRY = 1
  Uses = {{"other", "udp", "icmp", "close", "read"}, {"udp", "arp", "clear", "read"}, {"icmp", "write"}}
  LateArp = FALSE
INVARIANTS
  ChainCovers
  OneOwner
  TimedReadReturns
PROPERTIES
  ImplementsPool
  InputGoesOn
  PacketsGoOut
CHECK_DEADLOCK FALSE
