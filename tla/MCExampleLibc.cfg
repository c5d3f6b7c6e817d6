CONSTANTS
  PRINTF_NTOA_BUFFER_SIZE = 4
  PRINTF_FTOA_BUFFER_SIZE = 12
  CHAR_BITS = 2
  SHORT_BITS = 3
  INT_BITS = 4
  LONG_BITS = 8
  CHAR_SIGNED = TRUE
  DEN = 40
  PRINTF_MAX_FLOAT = 1000
  etoa <- AnyText
  DBL_MAX = 2000
  NAN = 3001
  SIZE_MAX = 100
  Size = 6
  Formats <- AnyFormats
  Counts = {0, 1, 3}
  BITS = 2
  SS = 2
SPECIFICATION LibcSpec
INVARIANTS
  
  ValueKept
  DecimalsKept
  SearchExact
  CopyExact
CHECK_DEADLOCK FALSE
