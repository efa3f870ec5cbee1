\* malloc of a task fails.
SPECIFICATION Spec
CONSTANTS
  Workers = {w1}
  Tasks = {t1}
  Destroyers = {}
  Main = Main
  Nobody = Nobody
  Faults = {"malloc"}
  MaxSpurious = 0
INVARIANTS
  AddedMeansAccepted
CHECK_DEADLOCK FALSE
