\* Three clients of the whitelist contend for two permits, sending packets of
\* and above the largest size, one behind the one being served; a fourth is
\* not in the whitelist.
CONSTANTS
  c1 = c1
  c2 = c2
  c3 = c3
  d = d
  Conn = {c1, c2, c3, d}
  Allowed = {c1, c2, c3}
  Workers = 2
  MaxPacketSize = 1
  Sizes = {1, 2}
  Fragmented = TRUE
  Departures = {"gone"}
  Pipeline = 1
  SocketBuffer = 1
SPECIFICATION Spec
SYMMETRY Symmetry
INVARIANTS Admission QueueExact PermitAccounting
PROPERTIES RunToCompletion ImplementsLimiter
