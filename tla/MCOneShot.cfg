SPECIFICATION MCSpec
CONSTANTS
  Tasks = {t1, t2, t3}
  Threads = {s1, s2, s3}
  NoTask = null
  MaxCalls = 2
  AfterWait = "out"
  Counts = {0, 2, 3}
  Values = {v1, v2}
  Unset = unset
INVARIANTS TypeOK NoLostWakeup OneValue
PROPERTIES EventImplemented OpensAtZero Released
