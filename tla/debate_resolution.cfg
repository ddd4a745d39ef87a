\* Two arguments, two resolvers, two evaluators on one isolate; every request ends,
\* so the system stops.
SPECIFICATION DebateSpec
CHECK_DEADLOCK FALSE
CONSTANTS
  i1 = i1
  i2 = i2
  r1 = r1
  r2 = r2
  p1 = p1
  p2 = p2
  e1 = e1
  e2 = e2
  s1 = s1
  None = None
  Identities = {i1, i2}
  Requests = {r1, r2}
  Stake <- SomeStake
  Weight <- SomeWeight
  Kinds = {"argument"}
  Senders = {"wallet", "relayer"}
  Names = {"own"}
  Deployments = {TRUE, FALSE}
  Resolvers = {p1, p2}
  Evaluators = {e1, e2}
  Isolates = {s1}
SYMMETRY Symmetry
INVARIANTS
  ResolutionTypeOK
  OneResolver
  MirrorsChain
  WinnerIsVerified
  SlotHasEvaluation
PROPERTIES
  SettledIsFinal
