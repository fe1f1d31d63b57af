SPECIFICATION AttachSpec
CONSTANTS
  Functions <- LoopFunctions
  Distances <- MCDistances
INVARIANTS
  MovedCodeEquivalent
CHECK_DEADLOCK FALSE
