CONSTANTS
  r1 = r1
  r2 = r2
  r3 = r3
  p = p
  alice = alice
  bob = bob
  carol = carol
  a = a
  c = c
  Requests = {r1, r2}
  Probes = {}
  Creds = {alice, bob, carol}
  CredOf <- OneCaller
  IDs = {a, c}
  Hash <- Colliding
  None = None
SPECIFICATION FairSpec
PROPERTY LaterCallsReopen
CHECK_DEADLOCK FALSE
