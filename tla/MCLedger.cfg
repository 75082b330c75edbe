SPECIFICATION Spec
CONSTANTS
  Callers = {c1, c2}
  Readers = {r1}
  NoCaller = NoCaller
  NoEvent = NoEvent
  Genesis = Genesis
  ScanLimit = 3
  MaxAppends = 3
INVARIANTS
  TypeOK
  ChainIntact
  AckedEventsStay
  ReadersSeeAcked
PROPERTIES
  LockReleased
  KeepsPromise
