CONSTANTS
  t1 = t1  t2 = t2
  emmc = emmc  soft = soft
  Threads <- TwoThreads
  Cond = {emmc, soft}
  Emmc = emmc
  Sd = Null
  Value = {0, 1}
  Null = Null
SPECIFICATION FairSpec
INVARIANTS NoLostWakeup ThreadsSound
PROPERTIES ThreadsProgress ImplementsWaits
