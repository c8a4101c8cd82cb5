SPECIFICATION DiffSpec
CONSTANTS
  p1 = p1
  p2 = p2
  b1 = b1
  b2 = b2
  big = big
  cut = cut
  empty = empty
  Torn = Torn
  NoFile = NoFile
  Proc = {p1, p2}
  Path <- MCPath
  Blob = {b1, b2, Torn}
  Cut = {}
  Stream <- MCStream
  AllocSlack = 1
  AddOpt = 0
  Rejected = {4}
  Argvs <- LivenessArgvs
  Unmappable = {empty}
  Editable = {}
  Deletable = {1}
  InitialWork <- EmptyFiles
  MaxEdits = 1
  MaxRuns = 3
  MaxFaults = 0
PROPERTIES
  LockReleased
  CommandsEnd
CHECK_DEADLOCK FALSE
