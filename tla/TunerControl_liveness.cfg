SPECIFICATION FairTunerSpec
CONSTANTS
  r1 = r1
  r2 = r2
  u1 = u1
  u2 = u2
  NoUrl = NoUrl
  NoRequest = NoRequest
  Requests = {r1}
  Urls = {u1}
  MaxAdmissions = 1
  Keys = {"station", "browse"}
  Commands = {"edit", "close", "pause"}
PROPERTIES
  StartIsResolved
  LoopReturns
