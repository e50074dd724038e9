SPECIFICATION Spec
CONSTANTS
  MaxStops = 1
  u1 = u1
  u2 = u2
  Users = {u1, u2}
  Nonces = {n1, n2}
  Secrets = {s1, s2}
  Settings <- MCSettings
  Handlers = {h1, h2}
  NonceTTL = 1
  SessionTTL = 1
  TestInterval = 2
  Never = Never
  MaxTime = 2
  MaxRequests = 2
SYMMETRY MCSymmetry
INVARIANTS TypeOK LoginsProven SessionsLast TestsSpaced StakesAreOwn
