SPECIFICATION Spec

CONSTANTS
  a = a
  b = b
  t1 = t1
  t2 = t2
  s1 = s1
  s2 = s2
  s3 = s3
  Accounts = {a, b}
  Tabs = {t1, t2}
  Slots = {s1, s2}
  MaxTokens = 2
  NoToken = NoToken
  NoProfile = NoProfile
  NoRequest = NoRequest

INVARIANT ActsAsShown
INVARIANT StoredSessionIsShown
INVARIANT NothingLeftAfterLogout
CHECK_DEADLOCK FALSE
