CONSTANTS
  c1 = c1
  c2 = c2
  Conns <- MCConns
  TlsConns <- MCTlsConns
  Cap = 1
  TimeoutOn = TRUE
  MaxAcceptErrors = 1
  MaxRequests = 2
  EnableHTTP2 = TRUE
  Http2Settings <- MCHttp2SettingsOutOfRange
  EnableConnectProtocol = TRUE
  NotBool = NotBool
  U32Bits = 16
SPECIFICATION Spec
INVARIANTS
  Http2SettingsApplied
