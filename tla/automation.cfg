\* Two triggers about one supporter, one scheduler, every fault; events stop coming.
SPECIFICATION FairSpec
CHECK_DEADLOCK FALSE
CONSTANTS
  t1 = t1
  t2 = t2
  p1 = p1
  i1 = i1
  Supporters = {1}
  Imports = {i1}
  MaxNotices = 1
  Triggers = {t1, t2}
  SupporterOf <- Everybody
  Schedulers = {p1}
  Steps <- Workflow
  Faults = {"crash", "db", "ses"}
  None = None
INVARIANTS
  StepOnce
  DelaysAreKept
  StuckOnlyByLoss
PROPERTIES
  SuppressedForever
  ExecutionsEnd
