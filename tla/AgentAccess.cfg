SPECIFICATION FairSpec
CONSTANTS
  Agents = {a1, a2}
  LargeOrg = {a2}
  Members = {a1}
  Calls = {c1, c2}
  MaxChanges = 1
  MaxRestarts = 1
INVARIANTS
  TypeOK
  StrangerKeptOut
  MemberTurnedAwayOnlyOnOverage
PROPERTIES
  RevokedLosesAccess
