SPECIFICATION Spec

CONSTANTS
  a = a
  b = b
  t1 = t1
  t2 = t2
  s1 = s1
  s2 = s2
  s3 = s3
  Accounts = {a, b}
  Tabs = {t1}
  Slots = {s1, s2, s3}
  MaxTokens = 3
  NoToken = NoToken
  NoProfile = NoProfile
  NoRequest = NoRequest

INVARIANT ProfileIsOwn
SYMMETRY Symmetry
CHECK_DEADLOCK FALSE
