CONSTANTS
  r1 = r1
  r2 = r2
  r3 = r3
  p = p
  alice = alice
  bob = bob
  carol = carol
  a = a
  c = c
  Requests = {r1, r2, r3}
  Probes = {p}
  Creds = {alice, bob, carol}
  CredOf <- ThreeCallers
  IDs = {a, c}
  Hash <- Colliding
  None = None
SPECIFICATION Spec
INVARIANTS
  OwnCredential
  NoLeakedConnection
  OneLiveSession
  HeldByOpen
CHECK_DEADLOCK FALSE
