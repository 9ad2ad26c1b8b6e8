SPECIFICATION Spec
CONSTANTS
  Sessions = {s1, s2}
  Pids = {p1, p2}
  MaxGen = 1
  Backends = {"fuse", "winfsp"}
  CallFails = TRUE
  None = None
INVARIANTS
  TypeOK
  
PROPERTIES
  
  LivingKeepsMount
CHECK_DEADLOCK FALSE
