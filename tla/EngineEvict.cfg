SPECIFICATION HSpec
CONSTANTS
  c1 = c1
  c2 = c2
  k1 = k1
  k2 = k2
  k3 = k3
  Clients = {c1, c2}
  Tuners = {}
  Keys = {k1, k2, k3}
  KeyLen <- MCKeyLen
  Sizes = {0, 1}
  Absent = Absent
  EntryOverhead = 1
  Shards = {1, 2}
  ShardOf <- MCShardOf
  SampleN = 5
  MaxEvictMisses = 1
  AvgEntryCost = 1
  CountersMin = 1
  CountersMax = 3
  InitMaxMemory = 3
  InitPolicies = {"allkeys-lfu", "noeviction"}
  TTLs = {0}
  Ceilings = {0}
  Ops = {"Set", "Del"}
  MaxOps = 4
  MaxTime = 1
SYMMETRY ClientSymmetry
INVARIANTS
  Accounting
  EvictionOwed
  NoEvictionOvershoot
  OverEvictionBounded
PROPERTIES
  NewcomerKept
