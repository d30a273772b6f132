SPECIFICATION Spec
CONSTANTS
  NR_PROCS = 3
  Chunks <- MCChunks
  NR_HOLES <- MCHoles
  Procs <- MCProcs
  Sizes = {1, 2, 3}
  SwapSizes = {3}
  Algorithms <- MCAlgorithms
  BufferWords = 5
INVARIANTS SwapSeparate
CHECK_DEADLOCK FALSE
