\* ReceiveMessage with a negative timeout on a receiver terminated before Start.
CONSTANTS
  Capacity = 1
  Strategies = {"DropOldest"}
  Producers = {p1}
  Receivers = {r1}
  MaxMsgs = 1
  GracePeriods = {"Positive"}
  Timeouts = {"Finite", "Infinite"}

SPECIFICATION FairSpec

PROPERTY ReceiveReturnsAfterTermination

\* A terminated receiver whose threads have all returned really stops.
CHECK_DEADLOCK FALSE
