SPECIFICATION Spec
CONSTANTS
  Sessions = {s1}
  Pids = {p1}
  MaxGen = 1
  Backends = {"winfsp"}
  CallFails = FALSE
  None = None
PROPERTY
  NeverDangles
CHECK_DEADLOCK FALSE
