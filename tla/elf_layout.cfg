SPECIFICATION OutputSpec
CONSTANTS
  PageSize = 4096
  BaseAddress = 4194304
  TableSize <- Sizes
  NameSize = 3
  Worlds <- SmallWorlds
INVARIANTS
  MappedOnce
  FileBytesApart
  TlsOffsetsAgree
  
PROPERTY
  LayoutEnds
