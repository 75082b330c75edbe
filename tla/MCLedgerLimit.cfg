SPECIFICATION Spec
CONSTANTS
  Callers = {c1}
  Readers = {}
  NoCaller = NoCaller
  NoEvent = NoEvent
  Genesis = Genesis
  ScanLimit = 2
  MaxAppends = 4
INVARIANT
  AckedEventsStay
