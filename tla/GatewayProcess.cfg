SPECIFICATION Spec
CONSTANTS
  Conns = {c1, c2}
  Sessions = {k1, k2}
INVARIANT TypeOK
PROPERTIES TerminationIsHonoured ReloadIsHonoured LocksExpire
