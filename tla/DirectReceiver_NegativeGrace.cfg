\* Terminate(-1) with a message still queued.
CONSTANTS
  Capacity = 1
  Strategies = {"DropOldest"}
  Producers = {p1}
  Receivers = {r1}
  MaxMsgs = 2
  GracePeriods = {"Negative"}
  Timeouts = {"Finite", "Infinite"}

SPECIFICATION Spec

INVARIANT NegativeGraceWaits

\* A terminated receiver whose threads have all returned really stops.
CHECK_DEADLOCK FALSE
