CONSTANTS
  Clients = {c1, c2}
  MaxRetries = 2
SPECIFICATION FairSpec
INVARIANTS
  FailsOnlyInTrouble
  ConnectionsBounded
PROPERTIES
  QueriesEnd
  ImplementsQuery
