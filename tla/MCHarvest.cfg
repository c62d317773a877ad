CONSTANTS
  Pages <- MCPages
  Seed = "S"
  LinkCounts = {0, 2}
SPECIFICATION Spec
CHECK_DEADLOCK FALSE
INVARIANTS
  TypeOK
  PathsFromSeed
  RecordsAgree
  ReportIsRight
