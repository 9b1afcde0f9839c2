SPECIFICATION FairSpec
CONSTANTS
  c1 = c1
  c2 = c2
  k1 = k1
  k2 = k2
  k3 = k3
  Clients = {c1, c2}
  Tuners = {c1}
  Keys = {k1, k2}
  KeyLen <- MCKeyLen
  Sizes = {1}
  Absent = Absent
  EntryOverhead = 1
  Shards = {1, 2}
  ShardOf <- MCShardOf
  SampleN = 5
  MaxEvictMisses = 1
  AvgEntryCost = 1
  CountersMin = 1
  CountersMax = 3
  InitMaxMemory = 3
  InitPolicies = {"allkeys-lfu"}
  TTLs = {1}
  Ceilings = {0, 1, 2, 5}
  Ops = {"Set", "Get", "Del", "TTL", "SetMaxMemory", "SetEvictionPolicy"}
  MaxOps = 3
  MaxTime = 2

  
PROPERTIES
  CallsReturn
