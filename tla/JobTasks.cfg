SPECIFICATION Spec
CONSTANTS
  k1 = k1
  k2 = k2
  own = own
  other = other
  Creds = {k1, k2}
  Calls = {c1, c2, s}
  Synchronous = {s}
  Declaring = {c1, c2}
  Pollers = {own, other}
  CredOf <- MCCredOf
  taskTTL = 1
  MaxTime = 2
  MaxRestarts = 1
  None = None
INVARIANTS TaskIsOwnJob OwnTasksOnly KnownUntilTTL ToldTruth
SYMMETRY MCSymmetry
CHECK_DEADLOCK FALSE
