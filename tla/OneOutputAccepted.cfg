SPECIFICATION Spec
CONSTANTS
  Configs = {k1, k2}
  Runs = {r1, r2}
  Trials = {t1}
  Outputs = {o1, o2}
  Clients = {c1, c2}
  MaxRequests = 5
INVARIANT OneOutputAccepted
CHECK_DEADLOCK FALSE
