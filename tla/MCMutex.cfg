SPECIFICATION FairSpec
CONSTANTS
  Tasks = {t1, t2, t3}
  Threads = {s1, s2}
  Thread0 = s1
  NotASchedulerThread = none
  NoTask = null
  VersionMod = 16
  MaxLocks = 2
  MaxBlocks = 1
INVARIANTS TypeOK MutualExclusion OneToken TokenNotLost NoLostHandOff NoNullExecute OnePlace
PROPERTIES AllReturn LockImplemented
