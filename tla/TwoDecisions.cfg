SPECIFICATION Spec

CONSTANTS
  k1 = k1
  k2 = k2
  f1 = f1
  s1 = s1
  s2 = s2
  s3 = s3
  Tasks = {k1}
  Filters = {f1}
  Slots = {s1, s2}
  Elsewhere = {"accept", "start", "complete", "fail"}
  MAX_CONSECUTIVE_ERRORS = 2
  NoTask = NoTask
  NoRequest = NoRequest

INVARIANT OneDecisionAtATime
CHECK_DEADLOCK FALSE
