SPECIFICATION Spec
CONSTANTS
  Clients = {c1, c2}
  Loop = Loop
  None = None
  Pages = 2
  Intervals <- ShortOrLong
  MinInterval = 1
  Fallback = 2
  MaxVersion = 2
  MaxTime = 3
  Faults = {"page", "past", "spent"}
SYMMETRY ClientSymmetry
INVARIANTS
  ListingInv
  AnswersInv
  WholeListing
  AsOfCoversListing
  PostIsFresh
PROPERTIES
  ListingNeverGoesBack
