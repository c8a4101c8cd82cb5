SPECIFICATION Spec
CONSTANTS
  b = b
  NoFile = NoFile
  Path <- MCPath
  Blob = {b}
  Cut = {}
  AllocSlack = 1
  Files = {1, 2}
  Rejected = {3}
  OptionWord = 0
  MaxOptions = 3
  Lines <- MCLines
  Indexes <- MCIndexes
  UIntMod = 65536
INVARIANTS
  TypeOK
  StatusTrue
PROPERTY
  AddIsExact
  RmIsExact
CHECK_DEADLOCK FALSE
