\* A window that is resized while a path picker covers the list.
SPECIFICATION Spec
CONSTANTS
  Records = {r1, r2, r3}
  NoRecord = NoRecord
  Pages = {1, 2}
  MaxLength = 3
INVARIANT ResizeKeepsPage
