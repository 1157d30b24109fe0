SPECIFICATION Spec
CONSTANTS
  Users = {u1, u2}
  Orders = {o1}
  Requests = {q1, q2, q3}
  None = None
  OrderAmount = 3
  Cost = 1
  Adjustments = {2}
  Limits = {1}
SYMMETRY IdSymmetry
CHECK_DEADLOCK FALSE
INVARIANTS EnabledAdapterIsComplete BalanceFollowsLedger PaidOnce RevokedSessionsEnd
PROPERTY AnAdministratorRemains
