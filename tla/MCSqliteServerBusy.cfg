\* Two clients run transactions on one database through one permit.
CONSTANTS
  c1 = c1
  c2 = c2
  d1 = d1
  Conn = {c1, c2}
  Allowed = {c1, c2}
  Workers = 1
  MaxPacketSize = 1
  Sizes = {1}
  Fragmented = FALSE
  Departures = {"shut", "gone"}
  Pipeline = 1
  SocketBuffer = 1
  Db = {d1}
  UnsafeDb = {}
  NoDb = NoDb
  AuthRequired = FALSE
  Requests <- Transactions
  MaxFiles = 1
SPECIFICATION Spec
INVARIANTS BusyNotByLimiter
