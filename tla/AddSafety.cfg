SPECIFICATION Spec
CONSTANTS
  p1 = p1
  p2 = p2
  b1 = b1
  b2 = b2
  big = big
  cut = cut
  empty = empty
  Torn = Torn
  NoFile = NoFile
  Proc = {p1, p2}
  Path <- MCPath
  Blob = {b1, big, cut, Torn}
  Cut = {cut}
  Stream <- MCStream
  AllocSlack = 1
  AddOpt = 0
  Rejected = {4}
  Argvs <- MCArgvs
  Unmappable = {empty}
  Editable = {1}
  Deletable = {1}
  InitialWork <- MCFiles
  MaxEdits = 2
  MaxRuns = 3
  MaxFaults = 1
SYMMETRY Symmetry
INVARIANTS
  LockOwned
  IndexComplete
  PartialHasWriter
  StatMatchMeansSame
  NrWithinAlloc
  IndexObjectsWhole
PROPERTIES
  ImplementsStore
CHECK_DEADLOCK FALSE
