CONSTANTS
  c1 = c1
  c2 = c2
  Conns <- MCConns
  TlsConns <- MCTlsConns
  Cap = 1
  TimeoutOn = TRUE
  MaxAcceptErrors = 1
  MaxRequests = 2
  EnableHTTP2 = FALSE
  Http2Settings <- MCHttp2Settings
  EnableConnectProtocol = NotBool
  NotBool = NotBool
  U32Bits = 16
SPECIFICATION Spec
INVARIANTS
  TypeOK
  ConnectionOutcomeLogged
PROPERTIES
  AcceptProgress
  RequestLogged
