\* All four operations, with fairness.
CONSTANTS
  Threads = {t1, t2, t3}
  Ops = {"readLock", "tryReadLock", "writeLock", "tryWriteLock"}
SPECIFICATION FairSpec
INVARIANT CountsExact
PROPERTIES ImplementsRWLock WriterGetsIn
