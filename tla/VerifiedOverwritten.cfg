SPECIFICATION Spec
CONSTANTS
  Sessions = {s1}
  Agents = {a1}
  Emails = {e1}
  Requests = {r1, r2}
  Handlers = {h1, h2}
  None = None
  MaxPendingSessionsPerAgent = 1
  MaxFailedAttempts = 2
  CodeExpiryMinutes = 1
  RequireCallbackJwtValidation = FALSE
  MaxTime = 1
  MaxWrongCodes = 3
PROPERTIES
  VerifiedIsFinal
