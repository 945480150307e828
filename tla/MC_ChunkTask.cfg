\* Concurrent cancels and waiters.  The task object stops once every call
\* has returned, so deadlock is not checked.
CONSTANTS
  w1 = w1
  w2 = w2
  k1 = k1
  k2 = k2
  q1 = q1
  Waiters <- MCWaiters
  Cancelers <- MCCancelers
  Queriers <- MCQueriers
SPECIFICATION Spec
INVARIANTS
  ContextRemovedOnce
PROPERTIES
  WaitersWoken
CHECK_DEADLOCK FALSE
