\* Two users race for two devices with two calls in flight.
CONSTANTS
  u1 = u1  u2 = u2  d1 = d1  d2 = d2  c1 = c1  c2 = c2
  Users = {u1, u2}
  Devices = {d1, d2}
  Calls = {c1, c2}
  Unregistered = Unregistered
  NoOwner = NoOwner
  None = None
  EphemeralKey = TRUE
SYMMETRY Symmetry
SPECIFICATION Spec
INVARIANTS
  TypeOK PeersSeeOwnersData OwnerCheckStaysTrue TokensAreGranted AuditTellsTheTruth
PROPERTY OwnershipIsFixed
