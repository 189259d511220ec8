SPECIFICATION FairSpec
CONSTANTS
  o1 = o1
  o2 = o2
  o3 = o3
  a1 = a1
  a2 = a2
  m1 = m1
  m2 = m2
  m3 = m3
  s1 = s1
  x = x
  y = y
  z = z
  None = None
  Names <- MCNames
  Files <- MCFiles
  Atoms <- MCAtoms
  Links <- LinkWorlds
INVARIANTS
  
  SearchedForGood
  ResultClosed
  GroupsWhole
PROPERTIES
  OwnGroupsClosed
  LinkEnds
