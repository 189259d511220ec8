SPECIFICATION FairSpec
CONSTANTS
  Main = Main
  t1 = t1
  t2 = t2
  t3 = t3
  t4 = t4
  Tasks = {t1, t2, t3, t4}
  Parent <- MixedParent
  GroupOf <- MixedGroup
  ThreadCount = 3
  Width = 8
INVARIANTS
  TypeOK
  SyncMeansDone
  NoLostWakeup
  PoolOutlivesWorkers
PROPERTIES
  DeadLatchUntouched
  KeepsPromise
  PoolShutsDown
