SPECIFICATION PSpec
CONSTANTS
  Estimators = {e1}
  Fingerprints = {1, 2, 3}
  Depth = 2
  Width = 4
  PerWord = 2
  Max = 3
  NibbleBits = 2
  IndexOf <- MCIndexOf
  e1 = e1
INVARIANTS
  NeverUnder
  EstimateNeverUnder
  ExactWhenAlone
  WordsAgree
