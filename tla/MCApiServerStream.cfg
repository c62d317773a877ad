CONSTANTS
  Nav = nav
  Hops = {hop}
  Subs = {}
  Streams = {s1}
  MaxNews = 2
  Logs <- MCLogs
  NoRequest = NoRequest
  NoLog = NoLog
SPECIFICATION FairSpec
INVARIANT NoDoubleCancel
PROPERTIES
  FetchEnds
  BoundStreamsEnd
