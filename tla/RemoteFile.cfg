SPECIFICATION FairSpec
CONSTANTS
  Procs = {"p", "q"}
  Names = {"a", "b"}
  Nrf = 2
  RMAXTRY = 2
  NETQLEN = 1
  MaxPos = 2
  Uses = {{"a", "open", "read", "write"}, {"a", "open", "seek", "clear", "negative"}, {"a", "b", "access", "unlink", "rename"}}
  Late = FALSE
INVARIANTS
  AnswersCurrent
PROPERTIES
  CallsReturn
