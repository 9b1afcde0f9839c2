SPECIFICATION Spec
CONSTANTS
  Recorders = {r1}
  Tuners = {t1}
  Fingerprints = {0, 1}
  NStripes = 1
  Depth = 2
  Bits = {0, 1, 2}
  BitsOf <- MCBitsOf
  Widths = {2, 3}
  InitWidth = 2
  MaxResizes = 1
  r1 = r1
  r2 = r2
  t1 = t1
INVARIANTS
  AgingBounded
  SamplesConserved
  FinalDrain
PROPERTIES
  ClosedIsFinal
