SPECIFICATION FairSpec
CONSTANTS
  Clients = {c1}
  Loop = Loop
  None = None
  Pages = 2
  Intervals <- ShortOrLong
  MinInterval = 1
  Fallback = 2
  MaxVersion = 1
  MaxTime = 6
  Faults = {"page", "past", "spent"}
PROPERTIES
  NotBeforeAnnounced
  UpdatesDelayTheLoop
  ListingAnswered
