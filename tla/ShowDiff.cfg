SPECIFICATION DiffSpec
CONSTANTS
  p1 = p1
  p2 = p2
  b1 = b1
  b2 = b2
  big = big
  cut = cut
  empty = empty
  Torn = Torn
  NoFile = NoFile
  Proc = {p1, p2}
  Path <- MCPath
  Blob = {b1, big, cut, Torn}
  Cut = {cut}
  Stream <- MCStream
  AllocSlack = 1
  AddOpt = 0
  Rejected = {4}
  Argvs <- InsertArgvs
  Unmappable = {empty}
  Editable = {1}
  Deletable = {3}
  InitialWork <- MCFiles
  MaxEdits = 2
  MaxRuns = 2
  MaxFaults = 1
SYMMETRY Symmetry
INVARIANTS
  OkIsTrue
  OldIsWhole
  IndexUnique
PROPERTIES
  CurrentInstallIsLocal
CHECK_DEADLOCK FALSE
