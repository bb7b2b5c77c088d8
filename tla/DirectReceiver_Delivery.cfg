\* Both backpressure strategies with a two-slot buffer: the third queued
\* message overflows.  Under DropOldest a consumer can pop between the drop
\* and the flag store; under DropLatest the overflowing message is refused.
CONSTANTS
  Capacity = 2
  Strategies = {"DropOldest", "DropLatest"}
  Producers = {p1}
  Receivers = {r1}
  MaxMsgs = 3
  GracePeriods = {"Positive"}
  Timeouts = {"Finite", "Infinite"}

SPECIFICATION FairSpec

INVARIANT TypeOK
INVARIANT MessagesConserved
INVARIANT DropNotificationNotLost
INVARIANT DiscardTagsBounded
INVARIANT MessageOwnership

PROPERTY TerminationCompletes
PROPERTY BufferedMessageResolved

\* A terminated receiver whose threads have all returned really stops.
CHECK_DEADLOCK FALSE
