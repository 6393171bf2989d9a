\* The Python client without passwords.
CONSTANTS
  Langs = {"python"}
  Ops = {"query"}
  Setups <- Unprotected
  MaxCalls = 2
SPECIFICATION Spec
INVARIANTS OwnAnswer
CHECK_DEADLOCK FALSE
