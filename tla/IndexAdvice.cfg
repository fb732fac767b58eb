SPECIFICATION FairSpec
CONSTANTS
  d = d
  e = e
  f = f
  g = g
  s1 = s1
  s2 = s2
  s3 = s3
  s4 = s4
  Everywhere = Everywhere
  Datasets <- MCDatasets
  KeyLists <- MCKeyLists
  Fields = {f, g}
  Statements = {s1, s2, s3, s4}
  Workload <- MCWorkload
  ScopesOf <- MCScopesOf
  Over <- MCOver
  Filters <- MCFilters
  Unfit = {s4}
  OldIndexes <- MCOldIndexes
  Operators = {"architect", "developer"}
  Cleaners = {"architect"}
  Scopes = {d, Everywhere}
  MaxRecommendations = 2
  MaxFaults = 1
PROPERTIES NoLookupLost AdviceSettles
CHECK_DEADLOCK FALSE
