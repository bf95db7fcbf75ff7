SPECIFICATION Spec
CONSTANTS
  Cells = {lo, hi}
  Readers = {t1, t2}
  Scan = Scan
  Nobody = Nobody
  Sweeps = 5
INVARIANTS
  ReadsOneSweep
