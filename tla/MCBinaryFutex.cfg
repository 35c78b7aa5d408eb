SPECIFICATION FutexFairSpec
CONSTANT Users = {t1, t2, t3, t4}
INVARIANT NoLostWakeup
PROPERTY CloseReleases
