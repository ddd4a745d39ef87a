SPECIFICATION Spec
CONSTANTS
  c1 = c1
  c2 = c2
  c3 = c3
  cron = cron
  Callers = {c1, c2, c3}
  Crons = {}
  Threshold = 3
  Window = 3
  Cooldown = 2
  SilentExits = TRUE
  None = None
INVARIANTS
  NeverStranded
