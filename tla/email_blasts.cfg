\* One blast or one test over two supporters, two crons that overlap, every fault; editors stop.
SPECIFICATION FairSpec
CHECK_DEADLOCK FALSE
CONSTANTS
  c1 = c1
  c2 = c2
  Supporters = {1, 2}
  Imports = {}
  MaxNotices = 1
  Blasts = {1, 2, 3, 4}
  Crons = {c1, c2}
  BatchSize = 1
  MaxComposed = 1
  Faults = {"crash", "db", "ses", "lost_reply"}
INVARIANTS
  TypeOK
  MailedOnce
  SentIsAccountedFor
  PickedIsDispatched
PROPERTIES
  NoMailAfterLeaving
  BlastsSettle
