\* Two accounts, two session directories, three operations of the user.
\* The program ends when the user quits it.
CHECK_DEADLOCK FALSE
SPECIFICATION HomeSpec
CONSTANTS
  Kinds = {"CurrentUser", "Login", "Register", "Logout", "ServerStatus", "ListRecords", "OpenCache", "ViewRecord", "ViewCachedRecord", "LoadRecordForEdit", "CreateRecord", "EditRecord", "DeleteRecord", "BinarySave", "Sync"}
  alice = alice
  home = home
  other = other
  Logins = {alice, bob}
  NoLogin = NoLogin
  Dirs = {home, other}
  MaxStarts = 3
INVARIANTS TypeOK GuestSeesNothing NoWindowIsStuck ShownCacheIsOpen
PROPERTIES TableIsUsedAsPromised BusyEnds
