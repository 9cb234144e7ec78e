SPECIFICATION SessionSpec
CONSTANTS
  r1 = r1
  r2 = r2
  Ids = {r1, r2}
  MaxSessions = 2
  MaxRequests = 5
  MaxGeneration = 3
SYMMETRY Symmetry
INVARIANTS
  NonceNeverReused
  EachIsAnsweredOnce
  NegotiatedByProbe
  RepeatIsRefused
  TransitionIsOwned
  SelectsFromWhatItSaw
