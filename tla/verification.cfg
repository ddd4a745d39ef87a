\* Two POSTs over two submissions, one batch, every fault.
SPECIFICATION FairSpec
CHECK_DEADLOCK FALSE
CONSTANTS
  s1 = s1
  s2 = s2
  t1 = t1
  t2 = t2
  b1 = b1
  Submissions = {s1, s2}
  Nullifiers = {s1, s2}
  Tasks = {t1, t2}
  Batches = {b1}
  MaxRetries = 2
  MaxPosts = 2
  Faults = {"crash", "db", "rpc"}
  None = None
INVARIANTS
  VerifiedMeansOnChain
  RetryBudget
  QueueAgrees
PROPERTIES
  VerifiedIsFinal
  
