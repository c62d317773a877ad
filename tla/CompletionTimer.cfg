CONSTANTS
  Requests = 2
  Cancellers = {c1}
  MaxIdle = 2
  MaxTotal = 4
  QuietWaits = 2
SPECIFICATION FairSpec
INVARIANTS
  TypeOK
  SuccessIsReal
  DoneChanClosedOnce
  IdleOnTime
PROPERTIES
  IdleNotEarly
  WaitEnds
