SPECIFICATION InputSpec
CONSTANTS
  Detent = 4
  Largest = 1
  Lag = 2
  MaxTurn = 4
  Presses <- AnyPress
INVARIANTS
  InputTypeOK
  DetentsAreCounted
  OnePressOneCommand
  OverlayEnds
