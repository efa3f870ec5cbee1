\* Two threads shut the pool down.
SPECIFICATION FairSpec
CONSTANTS
  Workers = {w1, w2}
  Tasks = {t1}
  Destroyers = {d1, d2}
  Main = Main
  Nobody = Nobody
  Faults = {}
  MaxSpurious = 0
PROPERTIES
  ShutdownEndsWorkers
CHECK_DEADLOCK FALSE
