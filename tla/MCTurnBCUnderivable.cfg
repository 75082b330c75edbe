SPECIFICATION Spec
CONSTANTS
  Roles <- MCRoles
  FromTurns = {"C"}
  MaxPolls <- MCMaxPolls
  MaxTime <- MCMaxTime
CHECK_DEADLOCK FALSE
INVARIANTS
  RunDerivable
