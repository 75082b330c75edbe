SPECIFICATION Spec
CONSTANTS
  One = 4
  Malformed = Malformed
  Requests <- MCRequests
  NoBoundary = NoBoundary
  NoRequest = NoRequest
  LostAppends = FALSE
  MaxEvents = 3
  MaxFaults = 2
INVARIANTS
  TypeOK
  ServingGraphIsReplay
  NoReceiptPastBoundary
  SnapshotsReplayable
PROPERTIES
  Heals
  KeepsPromise
