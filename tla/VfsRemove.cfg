SPECIFICATION Spec
CONSTANTS
  jarek = jarek
  legenda = legenda
  tekst = tekst
  pusty = pusty
  Names <- FittingNames
  Contents <- MCContents
  INodes = 3
  Blocks = 3
  BLOCK_SIZE = 2
  LINK_SIZE = 1
  Commands = {1}
  MaxMess = 0
  ZERO = ZERO
  NoName = NoName
CHECK_DEADLOCK FALSE
INVARIANT FilesReadBack
