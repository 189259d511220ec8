SPECIFICATION Spec
CONSTANTS
  None = None
  NameLength = 4
  PageSize = 4096
  FileAlignment = 512
  InputNames <- Names
  Split <- SplitNames
  LongNames = {".longname"}
  Worlds <- SmallWorlds
INVARIANTS
  ChunksFit
  SectionsApart
  ImportTablesWalk
  ExportsLead
  BaserelsComplete
