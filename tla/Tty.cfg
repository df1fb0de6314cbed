SPECIFICATION FairSpec
CONSTANTS
  IBUFLEN = 3
  OBUFLEN = 3
  EBUFLEN = 3
  OBMINSP = 2
  Writers = {w1, w2}
  OutChars = {"y", "NEWLINE"}
  MaxText = 2
  Keys = {"x", "RETURN", "EOFC", "DEL", "KILLCH", "STRTCH", "STOPCH", "INTRCH"}
  Uses = {
    {"write", "putc", "NEWLINE", "STRTCH", "STOPCH"},
    {"putc", "y", "NEWLINE", "STRTCH", "STOPCH"},
    {"write", "putc", "y", "KILLCH", "STOPCH", "STRTCH"},
    {"getc", "read", "TCNEXTC", "TCMODER", "TCMODEC", "x", "RETURN", "EOFC", "DEL", "KILLCH"},
    {"getc", "TCMODEK", "TCECHO", "TCNOECHO", "TCINT", "TCNOINT", "x", "RETURN", "INTRCH", "DEL"},
    {"read", "TCCRLF", "TCNOCRLF", "RETURN", "EOFC"}}
  Wants = {0, 2}
  MaxIcnt = 3
INVARIANTS
  OutputArmed
  SpaceInStep
  InputInStep
PROPERTIES
  WriterReturns
  FinishedInputKept
  OutputKept
