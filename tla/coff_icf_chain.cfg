SPECIFICATION Spec
CONSTANTS
  NumChunks = 6
  Symbols <- MCSymbols
  Contents = {"a", "b", "c"}
  Links <- ChainLink
INVARIANT
  RelocationsResolved
