\* One sync at a time; two records, three revisions.
SPECIFICATION Spec
CONSTANTS
  NoRow = NoRow
  Syncs = {s1}
  Users = {u1}
  RecordIDs = {i1, i2}
  Types = {text}
  Data = {a}
  MaxRevision = 3
INVARIANTS TypeOK CacheMirrorsServer
PROPERTIES SyncRepairs CacheNeverStepsBack EverySyncEnds
