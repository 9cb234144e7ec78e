SPECIFICATION BrowserSpec
CONSTANTS
  i1 = i1
  i2 = i2
  Items = {i1, i2}
  MirrorCount = 3
  MaxAttempts = 4
  MaxResults = 1
  MaxSearches = 2
  MaxSearchRevision = 8
INVARIANTS
  LoadingIsWorked
  PlaysWhatWasShown
PROPERTY
  JobEnds
