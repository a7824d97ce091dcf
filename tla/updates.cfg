CONSTANTS
  c1 = c1
  k1 = k1
  k2 = k2
  b1 = b1
  b2 = b2
  Browser = {c1}
  Connection = {k1, k2}
  Broadcast = {b1, b2}
  MaxVersion = 2
  Nobody = Nobody
  None = None
SPECIFICATION FairSpec
INVARIANT ViewIsCurrent
PROPERTY BroadcastEnds
