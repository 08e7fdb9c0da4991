\* A sync and a logout of one user, or a sync and the login of another.
SPECIFICATION Spec
CONSTANTS
  a = a
  A = A
  b = b
  space = space
  alice = alice
  bob = bob
  NoLogin = NoLogin
  NoPassword = NoPassword
  NoSession = NoSession
  Logins = {alice, bob}
  Canonical <- CanonicalLogin
  Spellings = {a, b}
  Passwords = {good}
  WellFormed = {good}
  TTL = 2
  Second = 1
  MaxTime = 0
  Clients = {p1, p2}
PROPERTY OnlyLoginOpensSession
