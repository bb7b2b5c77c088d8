\* DropOldest: a consumer pops between the drop and the flag store.
CONSTANTS
  Capacity = 2
  Strategies = {"DropOldest"}
  Producers = {p1}
  Receivers = {r1}
  MaxMsgs = 3
  GracePeriods = {"Positive"}
  Timeouts = {"Finite", "Infinite"}

SPECIFICATION Spec

INVARIANT NextDeliveryAfterDropTagged

\* A terminated receiver whose threads have all returned really stops.
CHECK_DEADLOCK FALSE
