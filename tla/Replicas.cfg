SPECIFICATION PromptSpec
CONSTANTS
  j1 = j1
  j2 = j2
  c1 = c1
  c2 = c2
  p1 = p1
  p2 = p2
  p3 = p3
  p4 = p4
  v1 = v1
  v2 = v2
  v3 = v3
  t1 = t1
  t2 = t2
  Jobs = {j1}
  Chunks = {c1}
  JobOf <- OneJob
  Providers = {p1, p2, p3, p4}
  Values = {v1, v2, v3}
  Threads = {t1, t2}
  MaxAttempts = 4
  MaxClaim = 1
  NoJob = NoJob
  NoChunk = NoChunk
  NoProvider = NoProvider
  NoValue = NoValue
INVARIANT SettledOnce
INVARIANT SettlementFollowsVerdict
INVARIANT EachAttemptAnotherProvider
INVARIANT ResultReducesDoneChunks
PROPERTY TerminalChunksStay
SYMMETRY Symmetry
CHECK_DEADLOCK FALSE
