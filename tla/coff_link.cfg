SPECIFICATION FairSpec
CONSTANTS
  x = x
  y = y
  impx = impx
  xx = xx
  yy = yy
  base = base
  o1 = o1
  o2 = o2
  o3 = o3
  o4 = o4
  a1 = a1
  a2 = a2
  None = None
  Driver = Driver
  Compiled = Compiled
  Names <- MCNames
  Objects = {o1, o2, o3, o4}
  Archives = {a1, a2}
  Worlds <- LinkWorlds
  ImpBase <- MCImpBase
  Mangled <- MCMangled
  ImageBase = base
INVARIANTS
  WinnerIsBest
  StrongNeedsLoaded
  OwnFallbackTried
  
PROPERTY
  LinkEnds
