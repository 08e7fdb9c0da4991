\* Two processes of one user; one login in two spellings; tokens of a second and a half.
SPECIFICATION Spec
CONSTANTS
  a = a
  A = A
  b = b
  space = space
  alice = alice
  bob = bob
  NoLogin = NoLogin
  NoPassword = NoPassword
  NoSession = NoSession
  Logins = {alice}
  Canonical <- CanonicalLogin
  Spellings = {a, A, space}
  Passwords = {good, other}
  WellFormed = {good, other}
  TTL = 3
  Second = 2
  MaxTime = 3
  Clients = {p1, p2}
SYMMETRY Symmetry
INVARIANTS TypeOK RegistrationHolds SessionFileIsIssued
PROPERTIES SessionNeedsPassword ExpiryAgreed
