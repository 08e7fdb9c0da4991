\* Two first syncs at once; nobody crashes.
SPECIFICATION CalmSpec
CONSTANTS
  Openers = {p1, p2}
  Passwords = {w1}
  Inodes = {i1, i2, i3}
  None = None
INVARIANT CacheIsUsable
