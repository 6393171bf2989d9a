\* Two connections, two databases, write transactions that may stay open.
CONSTANTS
  c1 = c1
  c2 = c2
  d1 = d1
  d2 = d2
  bad = bad
  Conn = {c1, c2}
  Db = {d1, d2}
  UnsafeDb = {bad}
  NoDb = NoDb
  AuthRequired = FALSE
  Requests <- Crossing
  MaxFiles = 2
SPECIFICATION FairSpec
PROPERTIES CallReturns
