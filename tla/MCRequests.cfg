CONSTANTS
  Row = {1, 2}
  NoRow = 0
  Request = {q1, q2}
  PoolSize = 3
  Class = {"sa", "internal"}
  IdentityClass = "sa"
  NoClass = "none"
  Idle <- IdleLimits
  Absolute <- AbsoluteLimits
  AccessTTL = 1
  Capability = {"revoke", "invite", "list"}
  NoCapability = "none"
  IdentityCapability = {"list"}
  Gated = {"revoke", "invite"}
  Matrix <- WhoMay
  Elevation = {e1}
  NoElevation = NoElevation
  ElevationTTL = 1
  MaxTime = 3
SPECIFICATION Spec
INVARIANT ElevationServesOnce PoolNeverWedges
PROPERTY ServedWasEntitled AbsoluteLimitHolds
ACTION_CONSTRAINT InOrder
CONSTRAINT Explored
SYMMETRY Symmetric
