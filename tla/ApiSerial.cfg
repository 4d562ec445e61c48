SPECIFICATION SerialSpec
CONSTANTS
  Sessions = {s1, s2}
  Agents = {a1, a2}
  Emails = {e1}
  Requests = {r1, r2}
  Handlers = {h1, h2}
  None = None
  MaxPendingSessionsPerAgent = 1
  MaxFailedAttempts = 2
  CodeExpiryMinutes = 1
  RequireCallbackJwtValidation = FALSE
  MaxTime = 2
  MaxWrongCodes = 3
SYMMETRY Symmetry
INVARIANTS
  LockoutReached
  PendingCapRespected
PROPERTIES
  ImplementsLifecycle
  PushedAtMostOnce
