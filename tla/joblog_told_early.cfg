\* A job that is cancelled while it ends.
SPECIFICATION Spec
CONSTANTS
  N = 2
  Lines = 3
  RING = 2
  MAXLINES = 2
  Service = Service
  Reader = Reader
  Canceller = Canceller
  Scenarios <- CancelledAtTheEnd
INVARIANT NothingAfterTheEnd
CHECK_DEADLOCK FALSE
