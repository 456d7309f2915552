SPECIFICATION OrderlySpec
CONSTANTS
  a1 = a1
  p1 = p1
  p2 = p2
  k1 = k1
  k2 = k2
  t1 = t1
  t2 = t2
  Tasks = {k1}
  Accounts = {a1, p1}
  Providers = {p1}
  OwnerOf <- Client
  Slots <- TwoSlots
  Reward <- UnitReward
  MaxDeposit = 2
  Threads = {t1, t2}
  Faults = FALSE
  NoAccount = NoAccount
  NoTask = NoTask
INVARIANT SlotForEachProvider
SYMMETRY Symmetry
CHECK_DEADLOCK FALSE
