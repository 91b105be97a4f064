SPECIFICATION Spec
CONSTANTS
  Sources <- AnySource
  MaxEntries = 2
  None = None
  Languages = {en, xyz}
  TwoLetter = {en}
  MaxListed = 3
  InvalidName = InvalidName
  MaxElements = 5
  MaxDepth = 3
  Lexicons <- ThreeLexicons
  Root = 2
  Words <- ThreeWords
  MaxLines = 6
  MaxOther = 4
  Absent = Absent
  BlockNames = {a, b}
  MaxBlocks = 3
  MaxInBlock = 2
INVARIANTS
  TypeOK
  SvnInv
  FilesAreWhole
  SpellingsMeet
  XmlCountsInContext
  StemsAreReachable
  DeathIsExplained
  BlocksCountOnce
PROPERTIES
  KeepsItsKey
CHECK_DEADLOCK FALSE
