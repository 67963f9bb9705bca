----------------------------- MODULE MCStartup -----------------------------
(* Ports: absent, in range, one past u16 by 80 (so a wrapping cast lands *)
(* on 80), negative, a full socket address string and a bare number      *)
(* string (which SocketAddr does not parse).  HTTPS ports: absent, in     *)
(* range, out of range.                                                   *)
EXTENDS Startup

MCPortValues ==
  {Absent, IntPort(8080), IntPort(65616), IntPort(-1),
   StrPort("[::1]:8080"), StrPort("8080")}
MCSportValues == {Absent, IntPort(8443), IntPort(65536)}
MCParseAddr == ("[::1]:8080" :> Addr("::1", 8080)) @@ ("8080" :> Invalid)

=============================================================================
