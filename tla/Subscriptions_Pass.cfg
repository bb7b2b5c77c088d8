\* Start with one startup topic (its Subscribe or its confirmation may
\* fail); c1 adding and removing t2 with the blocking calls; c2 adding t2
\* and removing t1 through the Async calls, two of which may be in flight
\* at once; any Subscribe, Unsubscribe or confirmation may be refused; and a
\* Terminate and a session down racing them.  A terminated
\* receiver has no further steps.
CONSTANTS
  t1 = t1
  t2 = t2
  t3 = t3
  c1 = c1
  c2 = c2
  c3 = c3
  g1 = g1
  g2 = g2
  Topics = {t1, t2}
  Callers = {c1, c2}
  Workers = {g1, g2}
  Ops <- SharedTopicOps
  Startup <- StartupOne
  MaxCalls = 4
SPECIFICATION FairSpec
INVARIANTS
  TypeOK
  ListMatchesTransport
  ReleasedUnlessRaced
PROPERTIES
  SubscriptionSetRefined
  CallsAndTerminateReturn
CHECK_DEADLOCK FALSE
