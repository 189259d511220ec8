SPECIFICATION FairSpec
CONSTANTS
  NumChunks = 4
  Symbols <- MCSymbols
  Contents = {"a", "b", "c"}
  Links <- ChunkLinks
INVARIANTS
  MarkedAreReachable
  ReachableAreMarked
  LiveIsOwn
  FoldedAreIdentical
  ChildrenFollow
  FoldingConverged
PROPERTIES
  WriterProceeds
