SPECIFICATION Spec

CONSTANTS
  a = a
  b = b
  Client = {a, b}
  Cap = 1
  Size = {"small", "large"}
  Launch = "small"
  MaxOutput = 2

SYMMETRY Symmetry

INVARIANTS
  OneWriter
  ByteExact
  ExitAfterOutput
  ScreenMatchesPty

CHECK_DEADLOCK FALSE
