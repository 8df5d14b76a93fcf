SPECIFICATION Spec
CONSTANTS
  u1 = u1
  u2 = u2
  u3 = u3
  u4 = u4
  r1 = r1
  r2 = r2
  None = None
  Users = {u1, u2, u3, u4}
  Founders = {u1, u2}
  Subjects = {s1}
  Requests = {r1, r2}
  Limit = 2
  MaxConcurrency = 1
  MaxRequests = 3
  MaxAttempts = 2
  MaxRestarts = 1
  Kinds = {"login", "change", "reset", "toggle", "delete", "create", "header", "oidc"}
CHECK_DEADLOCK FALSE
SYMMETRY Alike
INVARIANTS
  LimiterHolds
PROPERTIES
  RevokedForGood
  LastAdminGuard
  OwnIdentity
