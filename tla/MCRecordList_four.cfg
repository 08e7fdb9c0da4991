\* Lists of up to four records on pages of one to three rows.
SPECIFICATION Spec
CONSTANTS
  Records = {r1, r2, r3, r4}
  NoRecord = NoRecord
  Pages = {1, 2, 3}
  MaxLength = 4
INVARIANTS TypeOK SelectionVisible ClickIsCurrent
PROPERTY RefreshKeepsSelection
