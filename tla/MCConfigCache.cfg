CONSTANTS
  id = id
  selector = selector
  Clients = {c1, c2}
  Lookups <- MCLookups
  Selectors = {selector}
  TTLs = {0, 2}
  Minute = 1
  QueryTimeout = 1
  MaxAge = 4
SPECIFICATION Spec
INVARIANTS
  TypeOK
  StalenessBounded
  EntriesLeave
