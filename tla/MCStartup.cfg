\* Ports of two bits, sizes of three.  Octets of two bits; addresses of two and
\* three octets, so that prefixes fall on octet boundaries and inside octets of
\* either family.  Loading a configuration ends.
CONSTANTS
  PortBits = 2
  SizeBits = 3
  DefaultBusyTimeout = 5
  Inputs <- MCInputs
  Folders <- MCFolders
  Resolver <- MCResolver
  Fallback <- MCFallback
  OctetBits = 2
  V4Octets = 2
  V6Octets = 3
  Lists <- MCLists
SPECIFICATION BothSpec
INVARIANTS RestrictionsInForce ListensWhereTold NoEntryDropped WhitelistExact NetworksCanonical
CHECK_DEADLOCK FALSE
