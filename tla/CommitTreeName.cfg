SPECIFICATION Spec
CONSTANTS
  b1 = b1
  b2 = b2
  h1 = h1
  h2 = h2
  notHex = notHex
  c1 = c1
  c2 = c2
  NoFile = NoFile
  Path = {1, 2}
  Blob = {b1, b2}
  Cut = {}
  AllocSlack = 1
  Contents <- MCContents
  Committer = {c1}
  Mode <- MCMode
  HasZero <- MCHasZero
  OtherName = OtherName
  Word = {h1, h2, notHex}
  Hash = {h1, h2}
  Argvs <- NoArgvs
  Info = {1}
  MaxRuns = 1
INVARIANT CommitNamesItsTree
CHECK_DEADLOCK FALSE
