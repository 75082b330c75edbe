SPECIFICATION Spec
CONSTANTS
  Roles <- MCRoles
  Launches <- MCLaunches
  Modes = {"unattended", "terminal", "headless"}
  MaxAttempts = 3
CHECK_DEADLOCK FALSE
INVARIANTS
  TypeOK
  RunOutcome
  CompletionEarned
  PageTruthful
PROPERTIES
  RunEnds
  KeepsLoop
