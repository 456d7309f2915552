SPECIFICATION Spec

CONSTANTS
  k1 = k1
  s1 = s1
  s2 = s2
  s3 = s3
  Tasks = {k1}
  Amounts = {1, 2}
  MIN_WITHDRAW_AMOUNT = 1
  PAGE_SIZE = 1
  Opening = 1
  Reward = 1
  MaxRows = 2
  Slots = {s1, s2}
  NoTask = NoTask
  NoRequest = NoRequest

INVARIANT TotalWithdrawnIsTheSum
CHECK_DEADLOCK FALSE
