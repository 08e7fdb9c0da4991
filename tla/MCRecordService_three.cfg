\* Three devices of two users at one record: two types, two contents, the
\* range of revisions ending at 2.
SPECIFICATION Spec
SYMMETRY Symmetry
CONSTANTS
  c1 = c1
  c2 = c2
  c3 = c3
  u1 = u1
  u2 = u2
  NoRow = NoRow
  None = None
  Clients = {c1, c2, c3}
  Users = {u1, u2}
  UserOf <- DeviceOwners
  RecordIDs = {i1}
  Types = {text, card}
  Data = {a, b}
  MaxRevision = 2
INVARIANTS TypeOK RevisionNamesVersion RefusalsHold RowsDecrypt OwnRecordsOnly
PROPERTIES NoLostUpdate ImplementsTable
