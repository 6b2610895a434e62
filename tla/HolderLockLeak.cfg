SPECIFICATION Spec

CONSTANTS
  a = a
  b = b
  Client = {a, b}
  Cap = 2
  Size = {"small", "large"}
  Launch = "small"
  MaxOutput = 1

INVARIANT LockFrees

CHECK_DEADLOCK FALSE
