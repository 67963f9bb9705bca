------------------------------ MODULE Startup ------------------------------
(***************************************************************************)
(* The start of server_event_loop (src/project-karpacz/src/server.rs,    *)
(* lines 252-762 and 882-889): configuration checks, the crypto provider, *)
(* TLS material, TLS versions, client authentication, the listener       *)
(* addresses, binding, and the choice of accept loop.  Each step reads   *)
(* its part of the configuration (chosen with \E when it is read) and    *)
(* either goes on or ends the server with an error; most error paths     *)
(* first await an error record into the log channel.  The channel cannot  *)
(* be full this early, so a send is a single step here.                   *)
(***************************************************************************)
EXTENDS Integers, Sequences, SequencesExt

CONSTANTS
  PortValues,   \* global "port": IntPort(n), StrPort(s) or Absent
  SportValues,  \* global "sport": IntPort(n) or Absent
  ParseAddr,    \* ParseAddr[s]: s.parse::<SocketAddr>(), an address or Invalid
  Absent,       \* a key missing from the configuration
  Invalid,      \* a failed conversion
  None,         \* no listener, no error, not read yet
  ProviderStates  \* whether a default crypto provider may already be
                  \* installed in the process by the caller of start_server

\* A YAML value read with as_i64() or with as_str().
IntPort(n) == [int |-> n]
StrPort(s) == [str |-> s]
IsInt(p) == p # Absent /\ "int" \in DOMAIN p
IsStr(p) == p # Absent /\ "str" \in DOMAIN p

\* Listener addresses; [::] is the IPv6 wildcard of the code.
Addr(h, p) == [host |-> h, port |-> p]
Wildcard(p) == Addr("::", p)

\* TLS versions, by their configuration names.
VersionNames == {"TLSv1.2", "TLSv1.3"}
VersionOf == [v \in VersionNames |-> IF v = "TLSv1.2" THEN 12 ELSE 13]

Stages == {"modules", "validate", "crypto", "certs", "install", "versions",
           "clientAuth", "ports", "bindHttp", "bindHttps", "loop", "serving",
           "failed"}

VARIABLES
  pc,             \* the step server_event_loop is at
  providerInstalled, \* a default crypto provider was installed before
  logged,         \* error records sent to the log channel, oldest first
  fatal,          \* the error server_event_loop returned, or None
  versionCfg,     \* <<tlsMinVersion, tlsMaxVersion>> as read, or None
  tlsVersions,    \* protocol versions of the TLS config builder
  portCfg,        \* global "port" as read
  sportCfg,       \* global "sport" as read
  secureCfg,      \* global "secure" as read
  disableCfg,     \* global "disableNonEncryptedServer" as read
  addr, addrTls, tlsEnabled, nonTlsDisabled, alpn,
  listener,       \* the bound HTTP listener's address, or None
  listenerTls     \* the bound HTTPS listener's address, or None

vars == <<pc, providerInstalled, logged, fatal, versionCfg, tlsVersions, portCfg, sportCfg,
          secureCfg, disableCfg, addr, addrTls, tlsEnabled, nonTlsDisabled, alpn,
          listener, listenerTls>>

cfgVars == <<providerInstalled, versionCfg, tlsVersions, portCfg, sportCfg, secureCfg, disableCfg, addr,
             addrTls, tlsEnabled, nonTlsDisabled, alpn>>

Init ==
  /\ pc = "modules"
  /\ providerInstalled \in ProviderStates
  /\ logged = <<>>
  /\ fatal = None
  /\ versionCfg = None
  /\ tlsVersions = {12, 13}
  /\ portCfg = Absent
  /\ sportCfg = Absent
  /\ secureCfg = Absent
  /\ disableCfg = Absent
  /\ addr = Wildcard(80)
  /\ addrTls = Wildcard(443)
  /\ tlsEnabled = FALSE
  /\ nonTlsDisabled = FALSE
  /\ alpn = <<>>
  /\ listener = None
  /\ listenerTls = None

\* logger.send(LogMessage::new(k, true)).await, then Err(k)?
Fail(k) ==
  /\ logged' = Append(logged, k)
  /\ fatal' = k
  /\ pc' = "failed"

\* Err(k)? with no record sent first.
FailSilently(k) ==
  /\ fatal' = k
  /\ pc' = "failed"
  /\ UNCHANGED logged

Goto(s) ==
  /\ pc' = s
  /\ UNCHANGED <<logged, fatal>>

\* A step that ends in one of the error kinds in Errs, or goes on to s.
Step(from, s, Errs) ==
  /\ pc = from
  /\ \/ \E k \in Errs : Fail(k)
     \/ Goto(s)
  /\ UNCHANGED <<cfgVars, listener, listenerTls>>

-----------------------------------------------------------------------------
\* A module failed to load (lines 252-258).
CheckModules == Step("modules", "validate", {"module"})

\* prepare_config_for_validation, validate_config and each module's
\* validation function over every configuration block (lines 260-319).
Validate == Step("validate", "crypto", {"validation"})

\* cipherSuite and ecdhCurve: an unknown name is fatal (lines 321-391).
CryptoProvider == Step("crypto", "certs", {"cipherSuite", "ecdhCurve"})

\* The fallback and per-SNI-host certificates and keys (lines 393-511).
LoadCertificates == Step("certs", "install", {"certificate", "privateKey"})

\* crypto_provider.install_default() fails when the process already has a
\* default provider; the error is returned without a record (lines 513-515).
InstallProvider ==
  /\ pc = "install"
  /\ \/ providerInstalled /\ FailSilently("cryptoProvider")
     \/ ~providerInstalled /\ Goto("versions")
  /\ UNCHANGED <<cfgVars, listener, listenerTls>>

\* The outcome of version gating: protocol versions, or an error.
Versions(S) == [versions |-> S]
VersionError(k) == [error |-> k]
IsVersionError(v) == "error" \in DOMAIN v

\* Mutant: with min TLSv1.2 or absent, a missing max is read as TLSv1.2.
TlsVersionsForMaxDefault(min, max) ==
  CASE min = "TLSv1.3" ->
         (CASE max = "TLSv1.2" -> VersionError("maxOlderThanMin")
            [] max \in {"TLSv1.3", Absent} -> Versions({13})
            [] OTHER -> VersionError("invalidMax"))
    [] min \in {"TLSv1.2", Absent} ->
         (CASE max \in {"TLSv1.2", Absent} -> Versions({12})
            [] max = "TLSv1.3" -> Versions({12, 13})
            [] OTHER -> VersionError("invalidMax"))
    [] OTHER -> VersionError("invalidMin")

\* The (tlsMinVersion, tlsMaxVersion) match of lines 520-580: the versions
\* handed to builder_with_protocol_versions, or the error it ends with.
TlsVersionsFor(min, max) ==
  CASE min = "TLSv1.3" ->
         (CASE max = "TLSv1.2" -> VersionError("maxOlderThanMin")
            [] max \in {"TLSv1.3", Absent} -> Versions({13})
            [] OTHER -> VersionError("invalidMax"))
    [] min \in {"TLSv1.2", Absent} ->
         (CASE max = "TLSv1.2" -> Versions({12})
            [] max \in {"TLSv1.3", Absent} -> Versions({12, 13})
            [] OTHER -> VersionError("invalidMax"))
    [] OTHER -> VersionError("invalidMin")

\* tlsMinVersion / tlsMaxVersion: a known name, absent, or another string.
VersionInputs == VersionNames \cup {Absent, "other"}


TlsVersions ==
  /\ pc = "versions"
  /\ \E min, max \in VersionInputs :
       LET v == TlsVersionsFor(min, max) IN
       /\ versionCfg' = <<min, max>>
       /\ IF IsVersionError(v)
          THEN Fail(v.error) /\ UNCHANGED tlsVersions
          ELSE tlsVersions' = v.versions /\ Goto("clientAuth")
  /\ UNCHANGED <<providerInstalled, portCfg, sportCfg, secureCfg, disableCfg, addr, addrTls, tlsEnabled,
                 nonTlsDisabled, alpn, listener, listenerTls>>

(* useClientCertificate (lines 582-630).  When it is true, the native    *)
(* certificate store can report errors, hold a certificate the root store *)
(* refuses, or hold no certificate at all: then the WebPKI verifier       *)
(* builder has no trust anchor and `build()?` returns without a record.   *)
(* Otherwise, as without client certificates, the step goes on.  OCSP     *)
(* stapling (lines 632-638) wraps the resolver and cannot fail.           *)
ClientAuth ==
  /\ pc = "clientAuth"
  /\ \/ Goto("ports")
     \/ Fail("nativeStore")
     \/ Fail("addCertificate")
     \/ FailSilently("clientVerifier")
  /\ UNCHANGED <<cfgVars, listener, listenerTls>>

-----------------------------------------------------------------------------
(* The listener addresses (lines 640-707).                                 *)

\* Mutant: the `as u16` cast, which wraps instead of failing.
AsU16(n) == n % 65536

\* i64::try_into::<u16>() (lines 646-651): the port, or Invalid.
TryIntoU16(n) == IF n \in 0..65535 THEN n ELSE Invalid

\* Mutant: the port used without a range check.
PortAddrUnchecked(p) == Wildcard(p.int)

\* What an integer port gives: [::]:p, or Invalid.
PortAddr(p) == IF TryIntoU16(p.int) = Invalid THEN Invalid ELSE Wildcard(TryIntoU16(p.int))

\* addr: global "port" as an integer, else as a SocketAddr string.
HttpAddr(p) ==
  CASE IsInt(p) -> PortAddr(p)
    [] IsStr(p) -> ParseAddr[p.str]
    [] OTHER -> Wildcard(80)

\* addr_tls: global "sport" as an integer, else global "port" as a string.
HttpsAddr(s, p) ==
  CASE IsInt(s) -> PortAddr(s)
    [] IsStr(p) -> ParseAddr[p.str]
    [] OTHER -> Wildcard(443)

ReadPorts ==
  /\ pc = "ports"
  /\ \E p \in PortValues, s \in SportValues, sec \in BOOLEAN \cup {Absent},
        dis, h2 \in BOOLEAN :
       /\ portCfg' = p
       /\ sportCfg' = s
       /\ secureCfg' = sec
       /\ disableCfg' = dis
       /\ \/ /\ HttpAddr(p) = Invalid
             /\ Fail("httpPort")
             /\ UNCHANGED <<addr, addrTls, tlsEnabled, nonTlsDisabled, alpn>>
          \/ /\ HttpAddr(p) # Invalid
             /\ HttpsAddr(s, p) = Invalid
             /\ Fail("httpsPort")
             /\ UNCHANGED <<addr, addrTls, tlsEnabled, nonTlsDisabled, alpn>>
          \/ /\ HttpAddr(p) # Invalid
             /\ HttpsAddr(s, p) # Invalid
             /\ addr' = HttpAddr(p)
             /\ addrTls' = HttpsAddr(s, p)
             \* disableNonEncryptedServer is read only when secure is a bool.
             /\ tlsEnabled' = (sec = TRUE)
             /\ nonTlsDisabled' = (sec \in BOOLEAN /\ dis)
             \* ALPN (lines 709-716): h2 first when enableHTTP2 is true.
             /\ alpn' = IF h2 THEN <<"h2", "http/1.1", "http/1.0">>
                              ELSE <<"http/1.1", "http/1.0">>
             /\ Goto("bindHttp")
  /\ UNCHANGED <<providerInstalled, versionCfg, tlsVersions, listener, listenerTls>>

(* TcpListener::bind (lines 719-761).  Binding can fail (a port in use,   *)
(* no permission); the HTTPS bind always fails on the address the HTTP    *)
(* listener holds, where the wildcard overlaps every host and port 0 asks  *)
(* for a fresh port.                                                       *)
Overlaps(a, b) ==
  /\ b # None
  /\ a.port = b.port
  /\ a.port # 0
  /\ (a.host = b.host \/ "::" \in {a.host, b.host})

BindHttp ==
  /\ pc = "bindHttp"
  /\ \/ nonTlsDisabled /\ Goto("bindHttps") /\ UNCHANGED listener
     \/ ~nonTlsDisabled /\ listener' = addr /\ Goto("bindHttps")
     \/ ~nonTlsDisabled /\ Fail("bindHttp") /\ UNCHANGED listener
  /\ UNCHANGED <<cfgVars, listenerTls>>

BindHttps ==
  /\ pc = "bindHttps"
  /\ \/ ~tlsEnabled /\ Goto("loop") /\ UNCHANGED listenerTls
     \/ /\ tlsEnabled /\ ~Overlaps(addrTls, listener)
        /\ listenerTls' = addrTls /\ Goto("loop")
     \/ tlsEnabled /\ Fail("bindHttps") /\ UNCHANGED listenerTls
  /\ UNCHANGED <<cfgVars, listener>>

\* The accept loop's match (lines 775, 856, 882-889): with no listener it
\* logs "No server is listening" and returns.
EnterLoop ==
  /\ pc = "loop"
  /\ \/ listener = None /\ listenerTls = None /\ Fail("noListener")
     \/ (listener # None \/ listenerTls # None) /\ Goto("serving")
  /\ UNCHANGED <<cfgVars, listener, listenerTls>>

\* server_event_loop serves (the Server module), or has returned its error.
Done ==
  /\ pc \in {"serving", "failed"}
  /\ UNCHANGED vars

Next ==
  \/ CheckModules \/ Validate \/ CryptoProvider \/ LoadCertificates
  \/ InstallProvider \/ TlsVersions \/ ClientAuth \/ ReadPorts
  \/ BindHttp \/ BindHttps \/ EnterLoop \/ Done

Spec == Init /\ [][Next]_vars

-----------------------------------------------------------------------------
Addrs == {Wildcard(p) : p \in 0..65535} \cup Range(ParseAddr)

TypeOK ==
  /\ pc \in Stages
  /\ providerInstalled \in BOOLEAN
  /\ logged \in Seq(STRING)
  /\ fatal \in STRING \cup {None}
  /\ tlsVersions \in SUBSET {12, 13}
  /\ portCfg \in PortValues \cup {Absent}
  /\ sportCfg \in SportValues \cup {Absent}
  /\ versionCfg \in {None} \cup (VersionInputs \X VersionInputs)
  /\ {addr, addrTls} \subseteq Addrs
  /\ {tlsEnabled, nonTlsDisabled} \subseteq BOOLEAN
  /\ {listener, listenerTls} \subseteq Addrs \cup {None}

(* Spec 4.1 and section 7: a fatal startup error ends the process after   *)
(* the error log.  Every way server_event_loop returns an error must      *)
(* first send that error's record.                                         *)
FatalErrorLogged == pc = "failed" => fatal \in Range(logged)

(* Spec 4.1, version gating, as a reference: the versions are those from  *)
(* tlsMinVersion (default TLSv1.2) to tlsMaxVersion (default TLSv1.3);    *)
(* an unknown name, or a maximum older than the minimum, is fatal.         *)
RefVersions(min, max) ==
  IF min \notin VersionNames \cup {Absent} THEN VersionError("invalidMin")
  ELSE IF max \notin VersionNames \cup {Absent} THEN VersionError("invalidMax")
  ELSE LET lo == IF min = Absent THEN 12 ELSE VersionOf[min]
           hi == IF max = Absent THEN 13 ELSE VersionOf[max]
       IN IF lo > hi THEN VersionError("maxOlderThanMin")
          ELSE Versions({v \in {12, 13} : lo <= v /\ v <= hi})

(* The nested match on (tlsMinVersion, tlsMaxVersion) builds exactly the  *)
(* reference's versions, and fails with the reference's error otherwise.  *)
TlsVersionsMatchReference ==
  versionCfg # None =>
    LET ref == RefVersions(versionCfg[1], versionCfg[2]) IN
    IF IsVersionError(ref) THEN pc = "failed" /\ fatal = ref.error
    ELSE tlsVersions = ref.versions

(* Spec 4.1 and section 6: for integer ports (the spec's type), a server  *)
(* that serves listens on [::]:port (default 80) unless non-encrypted      *)
(* serving is disabled next to `secure`, and on [::]:sport (default 443)  *)
(* exactly when secure is true; a port outside 0..65535 never serves.      *)
(* The i64-to-u16 conversions and the secure/disable flags are what this  *)
(* is about.                                                               *)
ListenersOnConfiguredPorts ==
  pc = "serving" /\ ~IsStr(portCfg) =>
    /\ \A p \in {portCfg, sportCfg} : IsInt(p) => p.int \in 0..65535
    /\ listener = IF secureCfg \in BOOLEAN /\ disableCfg THEN None
                  ELSE Wildcard(IF portCfg = Absent THEN 80 ELSE portCfg.int)
    /\ listenerTls = IF secureCfg = TRUE
                     THEN Wildcard(IF sportCfg = Absent THEN 443 ELSE sportCfg.int)
                     ELSE None

(* Spec 4.1 and section 6: the HTTPS listener is bound on [::]:sport, 443  *)
(* by default, whatever form `port` takes.                                 *)
HttpsListensOnSport ==
  pc = "serving" /\ secureCfg = TRUE =>
    listenerTls = Wildcard(IF sportCfg = Absent THEN 443 ELSE sportCfg.int)

=============================================================================
