SPECIFICATION NavSpec
CONSTANTS
  Letters = 2
  CountryLists <- SomeCountries
  MaxTags = 1
  MaxResults = 1
  MaxSaved = 1
  MaxFavorites = 1
  MaxRecents = 1
  Mirrors = 2
  WindowItems = 2
INVARIANTS
  NavTypeOK
  MenuIsValid
  PanelAgrees
