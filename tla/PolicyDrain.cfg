SPECIFICATION FairSpec
CONSTANTS
  Recorders = {r1, r2}
  Tuners = {}
  Fingerprints = {0, 1}
  NStripes = 2
  Depth = 1
  Bits = {}
  BitsOf <- NoBits
  Widths = {1}
  InitWidth = 1
  MaxResizes = 0
  r1 = r1
  r2 = r2
  t1 = t1
INVARIANTS
  FullStripeSignalled
PROPERTIES
  FullStripeDrained
  CloseReturns
