\* Three requests in flight; every request ends, so the system stops.
SPECIFICATION Spec
CHECK_DEADLOCK FALSE
CONSTANTS
  u1 = u1
  u2 = u2
  n1 = n1
  n2 = n2
  k1 = k1
  k2 = k2
  r1 = r1
  r2 = r2
  r3 = r3
  None = None
  Users = {u1, u2}
  Nullifiers = {n1, n2}
  Keys = {k1, k2}
  Requests = {r1, r2, r3}
  Bodies <- SomeBodies
PROPERTIES
  ImplementsRegistry
