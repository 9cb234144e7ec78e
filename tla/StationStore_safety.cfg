SPECIFICATION StoreSpec
CONSTANTS
  s1 = s1
  s2 = s2
  s3 = s3
  s4 = s4
  Stations = {s1, s2, s3, s4}
  Blank = Blank
  Capacity <- SmallCapacity
  MaxRevision <- FewRevisions
  MaxPlays = 4
  MaxCrashes = 1
SYMMETRY Symmetry
INVARIANTS
  SettledIsSaved
  RemoteActsOnWhatItSaw
  RecentIsMostRecent
PROPERTY
  RestartDamageIsBounded
