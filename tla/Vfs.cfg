SPECIFICATION Spec
CONSTANTS
  jarek = jarek
  legenda = legenda
  tekst = tekst
  pusty = pusty
  Names <- MCNames
  Contents <- MCContents
  INodes = 3
  Blocks = 4
  BLOCK_SIZE = 2
  LINK_SIZE = 1
  Commands = {1, 2}
  MaxMess = 1
  ZERO = ZERO
  NoName = NoName
CHECK_DEADLOCK FALSE
INVARIANTS FilesSurvive NothingLeaks
PROPERTY RemoveEnds
