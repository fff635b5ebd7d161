SPECIFICATION Spec
CONSTANTS
  site = site
  local = local
  plain = plain
  Uris = {site, plain}
  KindOf <- MCKindOf
  Creds = {k1}
  Verifiers = {p, q}
  Forms = {f1, f2}
  Exchanges = {x1, x2}
  CodeTTL = 2
  AccessTokenTTL = 1
  RefreshTokenTTL = 0
  TicksPerSecond = 2
  ConfiguredKey = FALSE
  MaxTime = 7
  MaxSealed = 4
  MaxRestarts = 0
  None = None
INVARIANTS CodeRedeemedOnce
SYMMETRY MCSymmetry
CHECK_DEADLOCK FALSE
