CONSTANTS
  Tasks = {t1, t2}
  Served <- Listing
SPECIFICATION Spec
CHECK_DEADLOCK FALSE
INVARIANTS NoWaitCycle
