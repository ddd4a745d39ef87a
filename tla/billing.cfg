\* One donation and one subscription, two deliveries at a time, replays and failures.
SPECIFICATION FairSpec
CHECK_DEADLOCK FALSE
CONSTANTS
  d1 = d1
  d2 = d2
  w1 = w1
  w2 = w2
  Donations = {d1}
  Amount <- Amounts
  Recurring = {}
  Deliveries = {w1, w2}
  Overlapping = FALSE
  MaxChanges = 1
  MaxReplays = 1
  MaxFaults = 1
  None = None
INVARIANTS
  CampaignTotals
PROPERTIES
  RefundedIsFinal
  PaidIsRecorded
  SubscriberGetsPlan
