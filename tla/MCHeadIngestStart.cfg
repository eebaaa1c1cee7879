SPECIFICATION LiveSpec
CONSTANTS
  MaxBlock = 5
  Chains <- FiveBlocks
  Scenarios <- BlindRestart
  Window = 2
  MaxReorgDepth = 2
  Depth = 2
  Prefetch = 2
  ReceiptAttempts = 2
  MaxBehind = 1
PROPERTY Converges
