SPECIFICATION Spec
CONSTANTS
  NumField = 3
  Vals = {a, b}
  Blank = blank
  Torn = torn
  VersionField = 1
  Version = a
INVARIANTS TypeOK NeverTorn
PROPERTY AtomicRecord
