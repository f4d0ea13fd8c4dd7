SPECIFICATION RolesSpec
CONSTANTS
  Users = {seed, u}
  Seed = seed
  Requests = {r1, r2}
  None = None
SYMMETRY Symmetry
PROPERTIES
  SuperFromSuper
  AdminsAboveReach
  HistoryTells
CHECK_DEADLOCK FALSE
