CONSTANTS
  Absent = Absent
  Invalid = Invalid
  None = None
  ProviderStates = {FALSE, TRUE}
  PortValues <- MCPortValues
  SportValues <- MCSportValues
  ParseAddr <- MCParseAddr
SPECIFICATION Spec
INVARIANTS
  TypeOK
  ListenersOnConfiguredPorts
  TlsVersionsMatchReference
