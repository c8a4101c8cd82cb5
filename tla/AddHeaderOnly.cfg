SPECIFICATION Spec
CONSTANTS
  p1 = p1
  p2 = p2
  b1 = b1
  b2 = b2
  big = big
  cut = cut
  empty = empty
  Torn = Torn
  NoFile = NoFile
  Proc = {p1, p2}
  Path <- MCPath
  Blob = {b1, b2, Torn}
  Cut = {}
  Stream <- MCStream
  AllocSlack = 1
  AddOpt = 0
  Rejected = {4}
  Argvs <- MCArgvs
  Unmappable = {empty}
  Editable = {}
  Deletable = {}
  InitialWork <- MCFiles
  MaxEdits = 0
  MaxRuns = 2
  MaxFaults = 0
INVARIANT IndexReadable
CHECK_DEADLOCK FALSE
