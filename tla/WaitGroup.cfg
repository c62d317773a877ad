CONSTANTS
  Targets = {t1, t2}
  LateTargets = {}
  Cancellers = {c1, c2}
  MaxLoads = 2
SPECIFICATION FairSpec
INVARIANTS
  NoLostWakeup
  DoneClosedOnce
PROPERTY WaitEnds
