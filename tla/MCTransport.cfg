\* Both clients, every setup and three calls; three messages of bodies around
\* a limit of six, with lengths of 4 bits.  A connection ends.
CONSTANTS
  Langs = {"rust", "python"}
  Ops = {"query", "list", "delete"}
  Setups <- AnySetup
  MaxCalls = 3
  Base = 2
  Bodies <- SmallBodies
  Limit = 6
  MaxMessages = 3
SPECIFICATION BothSpec
INVARIANTS NoSilentFailure LateOnlyAfterTimeout AtMostOnce
PROPERTIES ImplementsRpc CallEnds ImplementsChannel 
CHECK_DEADLOCK FALSE
