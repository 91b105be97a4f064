SPECIFICATION PollSpec
CONSTANTS
  Requests = {r1, r2, r3}
  Packages = {p1}
  Files = {f1, f2}
  Kinds = {lexc, twol}
  p1 = p1
  p2 = p2
  lexc = lexc
  twol = twol
  f1 = f1
  f2 = f2
  f3 = f3
  f4 = f4
  Unrecognized = Unrecognized
  AnyKind = AnyKind
  None = None
  KindOf <- FewKinds
  Tree <- FewTrees
  Nested <- Subdirectory
  Queries <- PollQueries
  Workers = 3
  MaxRevision = 1
  Faults = {}
SYMMETRY RequestSymmetry
INVARIANTS
  OkIsComplete
