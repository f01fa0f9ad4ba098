\* Jobs told to a panel that loses its connection at any point.
SPECIFICATION Spec
CONSTANTS
  N = 2
  Lines = 3
  RING = 2
  MAXLINES = 2
  Service = Service
  Reader = Reader
  Canceller = Canceller
  Scenarios <- MCScenarios
INVARIANT TheLogDoesNotLie
INVARIANT LinesComeBeforeTheEnd
INVARIANT PanelShowsTheJob
PROPERTY LogsAreComplete
CHECK_DEADLOCK FALSE
