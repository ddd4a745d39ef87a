\* Three identities and three requests, with a contract and without; every request ends, so the system stops.
SPECIFICATION OpenSpec
CHECK_DEADLOCK FALSE
CONSTANTS
  i1 = i1
  i2 = i2
  i3 = i3
  r1 = r1
  r2 = r2
  r3 = r3
  None = None
  Identities = {i1, i2, i3}
  Requests = {r1, r2, r3}
  Stake <- SomeStake
  Weight <- SomeWeight
  Kinds = {"argument", "cosign"}
  Senders = {"wallet", "relayer"}
  Names = {"own", "other"}
  Deployments = {TRUE, FALSE}
SYMMETRY Symmetry
INVARIANTS
  NumberedWithoutGaps
  TotalsMatch
  OneRole
  VerifiedIsOnChain
