SPECIFICATION Spec
CONSTANTS
  Worlds <- LayoutWorlds
INVARIANTS
  FollowOnsKept
