SPECIFICATION Spec
CONSTANTS
  b = b
  Path <- MCPath
  Blob = {b}
  Cut = {}
  AllocSlack = 16
  Caches <- MCCaches
  letter = letter
  Slash = Slash
  Dot = Dot
  Nul = Nul
  Letter <- MCLetter
  Strings <- MCStrings
  Names <- MCNames
  Bytes = 2
  HexStrings <- MCHexStrings
  Earlier <- MCEarlier
  Character <- MCCharacter
  Texts <- MCTexts
  Special <- MCSpecial
  TextEnd = "NUL"
  NameLens <- MCNameLens
  MaxIndexed = 3
  Cuts = {1, 8, 64, 72, 100}
  MaxEntries = 3
  MaxText = 33500
  EntryTexts <- MCEntryTexts
  LineLengths = {250, 999}
  Torn <- MCTorn
INVARIANTS
  TypeOK
  PosCorrect
  VerdictCorrect
  StopsAtNul
  TotalOrder
  ParseCorrect
  FileNameRight
  SpecialRemoved
  WalkFindsAll
  WalkStaysInside
  BuffersFit
  HeaderExact
  WholeIsReadWhole
PROPERTIES
  LoopsEnd
  ListsWholeTree
CHECK_DEADLOCK FALSE
