\* Two workers, three tasks, two concurrent shutdowns, every fault.
SPECIFICATION FairSpec
CONSTANTS
  Workers = {w1, w2}
  Tasks = {t1, t2, t3}
  Destroyers = {d1, d2}
  Main = Main
  Nobody = Nobody
  Faults = {"malloc", "create", "broadcast"}
  MaxSpurious = 1
INVARIANTS
  TypeOK
  OnePlace
  WorkConserving
  NoSleeperAfterShutdown
  NoWorkerAfterDestroy
  GracefulDrains
PROPERTIES
  ImplementsTaskPool
  AcceptedRuns
  WorkersEnd
CHECK_DEADLOCK FALSE
