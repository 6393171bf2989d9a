\* Two connections, no password, transactions and deletes.
CONSTANTS
  c1 = c1
  c2 = c2
  d1 = d1
  d2 = d2
  bad = bad
  Conn = {c1, c2}
  Db = {d1}
  UnsafeDb = {bad}
  NoDb = NoDb
  AuthRequired = FALSE
  Requests <- TransactionsAndDelete
  MaxFiles = 2
SPECIFICATION Spec
INVARIANTS OneFilePerName
