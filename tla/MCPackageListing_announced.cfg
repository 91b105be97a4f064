SPECIFICATION Spec
CONSTANTS
  Clients = {c1}
  Loop = Loop
  None = None
  Pages = 2
  Intervals <- ShortOrLong
  MinInterval = 1
  Fallback = 2
  MaxVersion = 1
  MaxTime = 5
  Faults = {}
INVARIANTS
  NextUpdateIsAhead
