\* Terminate that times out with messages still queued.
CONSTANTS
  Capacity = 1
  Strategies = {"DropOldest"}
  Producers = {p1}
  Receivers = {r1}
  MaxMsgs = 2
  GracePeriods = {"Zero"}
  Timeouts = {"Finite", "Infinite"}

SPECIFICATION Spec

INVARIANT TerminateTearsDownCache

\* A terminated receiver whose threads have all returned really stops.
CHECK_DEADLOCK FALSE
