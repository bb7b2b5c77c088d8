\* One application goroutine calls AddSubscriptionAsync(t1) and then
\* RemoveSubscriptionAsync(t1), then Terminate: does the session keep a
\* subscription?
CONSTANTS
  t1 = t1
  t2 = t2
  t3 = t3
  c1 = c1
  c2 = c2
  c3 = c3
  g1 = g1
  g2 = g2
  Topics = {t1, t2}
  Callers = {c1}
  Workers = {g1, g2}
  Ops <- AsyncAddRemoveOps
  Startup <- StartupNone
  MaxCalls = 2
SPECIFICATION Spec
INVARIANT
  SubscriptionsReleased
CHECK_DEADLOCK FALSE
