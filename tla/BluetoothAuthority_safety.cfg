SPECIFICATION BtSpec
CONSTANTS
  p1 = p1
  p2 = p2
  NoPhone = NoPhone
  Phones = {p1, p2}
  Limit = 5
SYMMETRY Symmetry
INVARIANTS
  BtTypeOK
  ActsOnSeenPhone
  MetadataIsCurrent
  
