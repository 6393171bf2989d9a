\* workers = 0, which the code raises to one permit.  Of two clients one may
\* send forever, read nothing, announce too much or vanish.
CONSTANTS
  c1 = c1
  c2 = c2
  Conn = {c1, c2}
  Allowed = {c1, c2}
  Workers = 0
  MaxPacketSize = 1
  Sizes = {1, 2}
  Fragmented = TRUE
  Departures = {"shut", "gone"}
  Pipeline = 1
  SocketBuffer = 1
SPECIFICATION FairSpec
INVARIANTS TypeOK
PROPERTIES RequestServed DeadPeerReaped 
