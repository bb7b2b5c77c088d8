\* Two submitters, a ceiling of 1, two cache requests.
CONSTANTS
  Submitters = {s1, s2}
  MaxOutstanding = 1
  MaxSubmits = 2
  None = None
SPECIFICATION Spec
INVARIANT PollerStartNeverPanics
\* A receiver whose teardown has finished, or a process that panicked, stops.
CHECK_DEADLOCK FALSE
