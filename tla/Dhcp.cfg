SPECIFICATION Spec
CONSTANTS
  Servers = {s1, s2}
  Leases = {11, 17}
  DHCP_CLIENT_RETRIES = 3
  DG_DELAY_TIME = 5
  NETQLEN = 2
  TimeMod = 32
INVARIANTS
  AddressFromAck
  StartupTold
CHECK_DEADLOCK FALSE
