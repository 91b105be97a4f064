SPECIFICATION Spec
CONSTANTS
  Requests = {r1, r2}
  Packages = {p1}
  Files = {f1, f2}
  Kinds = {lexc, twol}
  p1 = p1
  p2 = p2
  lexc = lexc
  twol = twol
  f1 = f1
  f2 = f2
  f3 = f3
  f4 = f4
  Unrecognized = Unrecognized
  AnyKind = AnyKind
  None = None
  KindOf <- FewKinds
  Tree <- FewTrees
  Nested <- Subdirectory
  Queries <- MixedQueries
  Workers = 2
  MaxRevision = 2
  Faults = {"list", "sha", "file", "panic", "pool", "crash"}
SYMMETRY RequestSymmetry
INVARIANTS
  IInv
  RowInv
  NothingVanishes
  ServedIsStored
  ContentNotOlder
  RegistryIsFreshest
PROPERTIES
  NoGapInReply
  LedgerSpec
