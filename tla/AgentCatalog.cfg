SPECIFICATION Spec
CONSTANTS
  Agent = {p, b}
  Packaged = {p}
  MaxVersion = 2
  Caller = {c1}
INVARIANTS
  LastUsableStays
  PathsAreWhole
PROPERTIES
  UpdatesEnd
