SPECIFICATION NowSpec
CONSTANTS
  n1 = n1
  n2 = n2
  Names = {n1, n2}
  NoName = NoName
  MaxStations = 2
  MaxGeneration = 5
  MaxRevision = 8
SYMMETRY Symmetry
INVARIANTS
  ActsOnWhatItSaw
  RevisionTellsContent
