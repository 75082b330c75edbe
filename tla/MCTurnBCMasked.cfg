SPECIFICATION Spec
CONSTANTS
  Roles <- MCRoles
  FromTurns = {"B"}
  MaxPolls <- MCMaxPolls
  MaxTime <- MCMaxTime
CHECK_DEADLOCK FALSE
INVARIANTS
  AgentsSucceeded
