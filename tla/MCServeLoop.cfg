CONSTANTS
  r1 = r1 r2 = r2 r3 = r3 r4 = r4
  s1 = s1 s2 = s2 s3 = s3
  Unsafe = Unsafe
  None = None
  Requests = {r1, r2, r3, r4}
  Scopes = {s1, s2, s3}
  ScopeOf <- MCScopeOf
  MaxScopes = 2
  MaxFaults = 1
  MaxTokens = 2
SPECIFICATION Spec
CHECK_DEADLOCK TRUE
INVARIANTS WarmBounded UnsafeRefused
PROPERTIES NoResultLostToRotation KeepsMostRecent EveryRequestAnswered
