CONSTANTS
  Threads = {t1}
  Images = {app}
  Foreign = other
  ErrorValues = {5}
  Domains <- WithNegative
SPECIFICATION CodesSpec
INVARIANTS RoundTrip
CHECK_DEADLOCK FALSE
