SPECIFICATION FairSpec
CONSTANTS
  Main = Main
  None = None
  o1 = o1
  o2 = o2
  a1 = a1
  a2 = a2
  m1 = m1
  m2 = m2
  m3 = m3
  x = x
  y = y
  z = z
  s1 = s1
  Objects = {o1, o2}
  Archives = {a1, a2}
  Members = {m1, m2, m3}
  Names = {x, y, z}
  Sections = {s1}
  Worlds <- SmallWorlds
INVARIANTS
  
  MembersAsNeeded
  FilesOutliveTasks
PROPERTIES
  LinkEnds
