CONSTANTS
  MaxSessions = 3
  Pages = {p1, p2}
  Stoppers = {signal, metrics}
  NoSession = NoSession
SPECIFICATION FairSpec
INVARIANTS
  SessionExclusive
  AccountsAgree
  SendsHaveRoom
  AtMostOneLatePage
  CloseWaitClean
  StopsForAReason
PROPERTIES
  ShutdownTerminates
  EveryPageReported
  ImplementsSessionPool
