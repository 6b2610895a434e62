SPECIFICATION FairSpec

CONSTANTS
  a = a
  b = b
  Client = {a}
  Cap = 2
  Size = {"small", "large"}
  Launch = "small"
  MaxOutput = 3

PROPERTIES
  ExitPublished
  ClientsHearExit

CHECK_DEADLOCK FALSE
