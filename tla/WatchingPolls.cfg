SPECIFICATION Spec

CONSTANTS
  x = x
  indented = indented
  blank = blank
  Line = {x, indented}
  Blank = blank
  Height = 3
  Trimmed <- Unindented
  Frames <- RedrawnFrames
  IdleSecs = 1
  FirstTokenSecs = 2
  MaxTime = 2
  MaxPolls = 4
  MaxFresh = 2

INVARIANTS
  IdleOncePerSpan
  DeadMeansNothingShown

PROPERTY
  DeltaIsExact
