SPECIFICATION WifiSpec
CONSTANTS
  home = home
  factory = factory
  none = none
  Credentials = {home, factory}
  Default = factory
  NoCredential = none
  QueueSize = 2
  MaxPolls = 1
  MaxClock = 1
INVARIANTS
  WifiTypeOK
  SinceIsAfterLoss
  SavedHadAddress
