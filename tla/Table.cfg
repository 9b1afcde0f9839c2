SPECIFICATION Spec
CONSTANTS
  Keys = {k1, k2, k3, k4}
  Vals = {0, 1}
  Absent = Absent
  HashFunctions <- Hashes
  MinCap = 4
  FragValues = 4
  MaxDib = 1
  k1 = k1
  k2 = k2
  k3 = k3
  k4 = k4
INVARIANTS
  RobinHood
PROPERTIES
  ImplementsMap
  NoThrash
