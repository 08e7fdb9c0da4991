\* Two processes sync the same cache.
SPECIFICATION WindowSpec
CONSTANTS
  NoRow = NoRow
  Syncs = {s1, s2}
  Users = {u1}
  RecordIDs = {i1, i2}
  Types = {text}
  Data = {a}
  MaxRevision = 2
PROPERTY SyncedCacheIsServerState
