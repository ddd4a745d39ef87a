\* Two arguments submitted at the same time.
SPECIFICATION Spec
CHECK_DEADLOCK FALSE
CONSTANTS
  i1 = i1
  i2 = i2
  i3 = i3
  r1 = r1
  r2 = r2
  r3 = r3
  None = None
  Identities = {i1, i2, i3}
  Requests = {r1, r2}
  Stake <- SomeStake
  Weight <- SomeWeight
  Kinds = {"argument"}
  Senders = {"relayer"}
  Names = {"own", "other"}
  Deployments = {TRUE}
INVARIANTS
  ArgumentIndexIsOnChain
