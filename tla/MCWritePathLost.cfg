SPECIFICATION Spec
CONSTANTS
  One = 4
  Malformed = Malformed
  Requests <- MCGoodRequests
  NoBoundary = NoBoundary
  NoRequest = NoRequest
  LostAppends = TRUE
  MaxEvents = 3
  MaxFaults = 2
INVARIANT
  RecoveredEquivalent
