\* Two calls and a cron, with silent exits: everything the breaker can be asked.
SPECIFICATION FairSpec
CONSTANTS
  c1 = c1
  c2 = c2
  c3 = c3
  cron = cron
  Callers = {c1, c2}
  Crons = {cron}
  Threshold = 3
  Window = 3
  Cooldown = 2
  SilentExits = TRUE
  None = None
INVARIANTS
  ClosedMeansQuiet
  OpenCanExpire
  StrandedOnlyInSilence
PROPERTIES
  ProbeResolves
