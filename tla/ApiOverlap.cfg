SPECIFICATION Spec
CONSTANTS
  Sessions = {s1}
  Agents = {a1}
  Emails = {e1}
  Requests = {r1, r2}
  Handlers = {h1, h2}
  None = None
  MaxPendingSessionsPerAgent = 1
  MaxFailedAttempts = 2
  CodeExpiryMinutes = 1
  RequireCallbackJwtValidation = TRUE
  MaxTime = 1
  MaxWrongCodes = 3
SYMMETRY Symmetry
INVARIANTS
  TypeOK
  CredentialsPaired
  VerifiedByItsRequest
  VerifiedFieldsTogether
  FailureIsEarned
  PendingBelowThreshold
  PushedOutcomeHappened
PROPERTIES
  IdentityKept
  ImplementsSessionServer
