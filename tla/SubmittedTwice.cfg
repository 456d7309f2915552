SPECIFICATION Spec

CONSTANTS
  j1 = j1
  j2 = j2
  f1 = f1
  f2 = f2
  s1 = s1
  s2 = s2
  sample = sample
  Jobs = {j1}
  Files = {f1}
  Slots = {s1, s2}
  NoJob = NoJob
  NoData = NoData
  NoRequest = NoRequest

INVARIANT OneCreationAtATime
CHECK_DEADLOCK FALSE
