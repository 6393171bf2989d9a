\* Ports of two bits, sizes of three.  Loading a configuration ends.
CONSTANTS
  PortBits = 2
  SizeBits = 3
  DefaultBusyTimeout = 5
  Inputs <- MCInputs
  Folders <- MCFolders
  Resolver <- MCResolver
  Fallback <- MCFallback
SPECIFICATION Spec
INVARIANTS SettingsAsWritten
CHECK_DEADLOCK FALSE
