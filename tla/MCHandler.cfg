\* Two connections, a password, one database name and every kind of request;
\* the name may be created three times.
CONSTANTS
  c1 = c1
  c2 = c2
  d1 = d1
  d2 = d2
  bad = bad
  Conn = {c1, c2}
  Db = {d1}
  UnsafeDb = {bad}
  NoDb = NoDb
  AuthRequired = TRUE
  Requests <- AllRequests
  MaxFiles = 3
SPECIFICATION Spec
SYMMETRY Symmetry
INVARIANTS TypeOK OnlySafeNames AuthGate  CachedIsTuned
