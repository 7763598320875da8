CONSTANTS
  Tasks = {t1, t2, t3}
  Served <- Representative
SPECIFICATION Spec
SYMMETRY TaskSymmetry
INVARIANTS NoWaitCycle SlowLeavesConfigFree
