SPECIFICATION AcceptedSpec

CONSTANTS
  k1 = k1
  k2 = k2
  f1 = f1
  s1 = s1
  s2 = s2
  s3 = s3
  Tasks = {k1, k2}
  Filters = {}
  Slots = {s1, s2}
  Elsewhere = {"fail"}
  MAX_CONSECUTIVE_ERRORS = 1
  NoTask = NoTask
  NoRequest = NoRequest

INVARIANT AnnouncedOutcomeIsTrue
SYMMETRY Symmetry
CHECK_DEADLOCK FALSE
