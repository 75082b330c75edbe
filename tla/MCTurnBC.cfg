SPECIFICATION Spec
CONSTANTS
  Roles <- MCRoles
  FromTurns = {"B", "C"}
  MaxPolls <- MCMaxPolls
  MaxTime <- MCMaxTime
CHECK_DEADLOCK FALSE
INVARIANTS
  TypeOK
  StatusProjectable
  OutcomeExplained
  PassEarned
  StatusCurrent
PROPERTIES
  Finishes
