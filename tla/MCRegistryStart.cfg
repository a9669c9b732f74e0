SPECIFICATION RSpec
CONSTANTS
  s1 = s1  s2 = s2  sText = sText  e1 = e1
  None = None  Null = Null  Garbage = Garbage
  Symbols = {s1, s2}
  Sections = {sText}
  Files <- OneTextSection
  Offsets = {4}
  Errors = {e1}
  Programs <- StartThrow
  LoadAddresses <- At100
INVARIANT StartBelongs
CHECK_DEADLOCK FALSE
