\* Three workers of one submission, two POSTs, every fault; requests are used up, so it may stop.
SPECIFICATION FairSpec
CHECK_DEADLOCK FALSE
CONSTANTS
  s1 = s1
  house = house
  senate = senate
  Submissions = {s1}
  Runs = {1, 2, 3}
  Offices = {house, senate}
  Senate = {senate}
  Attempts = 2
  MaxPosts = 2
  Faults = {"crash", "db", "lost_reply"}
INVARIANTS
  DeliveredHasReceipt
  AbandonedOnlyByLoss
  OneWorkerAtATime
PROPERTIES
  ErasedStaysSilent
  Settles
