\* Four windows, pickers and edits.  One directory and one file; a picker of
\* files and one of directories in the configuration, and those of the forms.
\* When the budget is used up, the user has nothing more to do.
CHECK_DEADLOCK FALSE
SPECIFICATION Spec
CONSTANTS
  DirNames = {1}
  FileNames = {2}
  MaxDepth = 1
  Heights = {1, 2}
  Targets = {"sessionDir", "saveDir", "createFile", "editFile"}
  MaxReads = 2
  MaxTimers = 2
  Inputs <- SomeInputs
  Loads <- SomeLoads
  MaxField = 3
  MinNumber = 2
  MaxNumber = 3
  CVVSize = 2
  MaxText = 4
  Budget = 4
INVARIANTS TypeOK PickerFits SubmittedIsValid
PROPERTIES TextIsKept
