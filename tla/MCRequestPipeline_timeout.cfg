CONSTANTS
  User = u1
  NoUser = none
  Chain <- MCChain
  ConnectCapable <- MCConnectCapable
  WsCapable <- MCWsCapable
  RequestLines <- MCRequestLines
  ModuleOutcomes <- MCModuleOutcomes
  HostKinds = {"mixed", "opaque"}
  UrlKinds = {"same", "bad"}
  XffKinds = {"absent", "ip", "notip", "opaque"}
  TimeoutSettings = {"null", "int"}

SPECIFICATION Spec

PROPERTIES
  RequestEventuallyEnds
