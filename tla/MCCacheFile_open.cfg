\* Three processes open, use and lose one cache; two passwords.
SPECIFICATION Spec
CONSTANTS
  Openers = {p1, p2, p3}
  Passwords = {w1, w2}
  Inodes = {i1, i2, i3, i4}
  None = None
SYMMETRY Symmetry
INVARIANTS TypeOK OpenIsOnDisk OneKey
PROPERTIES CacheIsKept OfflineCreatesNothing
