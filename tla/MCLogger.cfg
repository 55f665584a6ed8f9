SPECIFICATION FairSpec
CONSTANTS
  Threads = {t1, t2}
  Sinks = {k1, k2}
  Reentrant = {k1}
  Senders = {s1, s2}
  Lists <- MCLists
  None = None
CHECK_DEADLOCK FALSE
INVARIANTS
  NoCallToDestroyed
PROPERTIES
  MutexReleased
