CONSTANTS
  Targets = {t1, t2}
  LateTargets = {}
  Cancellers = {c1}
  MaxLoads = 2
SPECIFICATION Spec
INVARIANT WaitsForFrames
