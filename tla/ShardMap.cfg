SPECIFICATION FairSpec
CONSTANTS
  g1 = g1
  g2 = g2
  k1 = k1
  k2 = k2
  v1 = v1
  v2 = v2
  Goroutines = {g1, g2}
  Keys = {k1, k2}
  Vals = {v1, v2}
  Absent = Absent
  NoCall = NoCall
  NoReply = NoReply
  NShards = 2
  ShardOf <- MCShardOf
  SampleN = 2
  DrawFactor = 1
  DrawFloor = 1
  Ops = {"Get", "Set", "Swap", "Delete", "Len", "Range", "Sample"}
  MaxOps = 3
INVARIANTS
  NeverTorn
  ScanBounded
  SampleFinds
PROPERTIES
  ImplementsAtomicMap
  OpsReturn
