SPECIFICATION Spec
CONSTANTS
  Beaters = {b1, b2}
  Limit = 3
  PollEvery = 2
  Hold = 2
  MaxTime = 10
INVARIANTS TypeOK BoundedSilence
PROPERTIES NoEarlyTrip
CHECK_DEADLOCK FALSE
