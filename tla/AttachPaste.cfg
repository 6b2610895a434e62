SPECIFICATION FairSpec

CONSTANTS
  h = h
  v = v
  Human = {h}
  Runner = {v}
  Exits <- SomeExits
  Windows = {2, 4}
  Widest = 4
  FirstRows = 3
  MaxPayload = 16
  MaxPrints = 1
  MaxActs = 1
  Cuts = {0, 3}

CHECK_DEADLOCK FALSE

PROPERTIES
  PasteArrives
