SPECIFICATION Spec
CONSTANTS
  r1 = r1
  r2 = r2
  u1 = u1
  u2 = u2
  NoUrl = NoUrl
  NoRequest = NoRequest
  Requests = {r1, r2}
  Urls = {u1, u2}
  MaxAdmissions = 2
SYMMETRY Symmetry
INVARIANTS
  DecoderLifetime
  OutcomeIsTrue
  WithdrawnNeverStarts
  NoStreamSurvivesBluetooth
  PlayingIsAudible
PROPERTIES
  TakeoverIsFinal
  MailboxSpec
