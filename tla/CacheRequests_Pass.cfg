\* Two submitters, a ceiling of 1, three cache requests.
CONSTANTS
  Submitters = {s1, s2}
  MaxOutstanding = 1
  MaxSubmits = 3
  None = None
SPECIFICATION FairSpec
INVARIANTS TypeOK CounterBounded OutstandingAccounted
PROPERTIES RequestResolved TeardownCompletes
\* A receiver whose teardown has finished, or a process that panicked, stops.
CHECK_DEADLOCK FALSE
