CONSTANTS
  Nav = nav
  Hops = {}
  Subs = {sub}
  Streams = {s1, s2}
  MaxNews = 1
  Logs <- MCLogs
  NoRequest = NoRequest
  NoLog = NoLog
SPECIFICATION Spec
SYMMETRY Symmetry
INVARIANTS
  TypeOK
  AckedLogsHarvested
  RequestsInOrder
  AbortNotTimeout
