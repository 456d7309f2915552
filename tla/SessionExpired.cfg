SPECIFICATION FairSpec

CONSTANTS
  a = a
  b = b
  t1 = t1
  t2 = t2
  s1 = s1
  s2 = s2
  s3 = s3
  Accounts = {a}
  Tabs = {t1}
  Slots = {s1}
  MaxTokens = 1
  NoToken = NoToken
  NoProfile = NoProfile
  NoRequest = NoRequest

PROPERTY RejectedSessionsReachTheForm
CHECK_DEADLOCK FALSE
