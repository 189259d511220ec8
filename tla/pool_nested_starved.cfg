SPECIFICATION FairSpec
CONSTANTS
  Main = Main
  t1 = t1
  t2 = t2
  t3 = t3
  t4 = t4
  Tasks = {t1, t2, t3, t4}
  Parent <- Nest2Parent
  GroupOf <- Nest2Group
  ThreadCount = 2
  Width = 8
PROPERTIES
  SyncReturns
CHECK_DEADLOCK FALSE
