------------------------- MODULE MCRequestPipeline -------------------------
(***************************************************************************)
(* Model-checking instance of RequestPipeline: the X-Forwarded-For module *)
(* first, then two opaque modules, the first of them CONNECT-capable.     *)
(***************************************************************************)
EXTENDS RequestPipeline

MCChain == <<"xff", "module", "module">>

MCConnectCapable == {2}

MCWsCapable == {3}

\* Request lines: origin, absolute (proxy) and asterisk forms on HTTP/1.1,
\* CONNECT with and without authority, and HTTP/2 requests.
MCRequestLines ==
  { [method |-> "GET",     form |-> "origin",    version |-> "1.1"],
    [method |-> "GET",     form |-> "absolute",  version |-> "1.1"],
    [method |-> "OPTIONS", form |-> "asterisk",  version |-> "1.1"],
    [method |-> "CONNECT", form |-> "authority", version |-> "2"],
    [method |-> "CONNECT", form |-> "origin",    version |-> "1.1"],
    [method |-> "GET",     form |-> "absolute",  version |-> "2"] }


\* Module results: every combination of the three primary fields, with and
\* with the auth_user kept, set or cleared; K on the response or on the extra headers.
MCModuleOutcomes ==
  { [err |-> FALSE, response |-> r, status |-> s, request |-> q, code |-> 403,
     auth |-> a, setsK |-> r, hdrK |-> ~r /\ s, parallel |-> q /\ a = "set",
     newRemote |-> FALSE] :
      r \in BOOLEAN, s \in BOOLEAN, q \in BOOLEAN, a \in {"keep", "set", "clear"} }
  \cup
  { [err |-> FALSE, response |-> TRUE, status |-> FALSE, request |-> FALSE,
     code |-> 403, auth |-> "keep", setsK |-> FALSE, hdrK |-> TRUE,
     parallel |-> FALSE, newRemote |-> FALSE] }

=============================================================================
