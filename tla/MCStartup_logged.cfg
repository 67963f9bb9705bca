CONSTANTS
  Absent = Absent
  Invalid = Invalid
  None = None
  ProviderStates = {FALSE}
  PortValues <- MCPortValues
  SportValues <- MCSportValues
  ParseAddr <- MCParseAddr
SPECIFICATION Spec
INVARIANT
  FatalErrorLogged
