\* One test over three supporters, one cron, and nothing goes wrong.
SPECIFICATION Spec
CHECK_DEADLOCK FALSE
CONSTANTS
  c1 = c1
  c2 = c2
  Supporters = {1, 2, 3}
  Imports = {}
  MaxNotices = 0
  Blasts = {1, 2, 3}
  Crons = {c1}
  BatchSize = 2
  MaxComposed = 1
  Faults = {}
INVARIANTS
  WinnerReachesTheRest
