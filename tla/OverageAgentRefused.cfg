SPECIFICATION Spec
CONSTANTS
  Agents = {a1, a2}
  LargeOrg = {a2}
  Members = {a1, a2}
  Calls = {c1}
  MaxChanges = 1
  MaxRestarts = 1
INVARIANTS
  OverageAgentServed
