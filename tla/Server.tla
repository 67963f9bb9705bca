------------------------------- MODULE Server -------------------------------
(***************************************************************************)
(* The accept loop of server_event_loop and the connection tasks of       *)
(* accept_connection (src/project-karpacz/src/server.rs, lines 41-241 and *)
(* 769-896), all sending to the one bounded log channel that the log     *)
(* runtime drains (lines 950 and 1020).                                   *)
(*                                                                         *)
(* A connection carries up to MaxRequests requests in turn: hyper's      *)
(* HTTP/1.x keep-alive reads the next request once a response went out.  *)
(* The request pipeline is reduced                                        *)
(* to what this composition needs from RequestPipeline: it runs until its *)
(* handlers are done, then awaits the send of its access record, and the  *)
(* timeout can cancel it at either point.  A cancelled request makes the  *)
(* service return Err; serve_connection then ends with that error, which *)
(* the connection task logs (HTTP/1.x, the default without enableHTTP2).  *)
(***************************************************************************)
EXTENDS Naturals, Sequences, FiniteSets, SequencesExt

CONSTANTS
  Conns,          \* connections clients open
  TlsConns,       \* those arriving on the HTTPS listener
  Cap,            \* log channel capacity (10000 in the code)
  TimeoutOn,      \* the global "timeout" is an integer (not null)
  MaxAcceptErrors,\* bound on failed listener.accept() calls
  MaxRequests,    \* bound on the requests one connection carries
  EnableHTTP2,    \* global "enableHTTP2": TRUE, FALSE or NotBool
  Http2Settings,  \* the integer http2Settings knobs given, name -> i64
  EnableConnectProtocol, \* http2Settings.enableConnectProtocol
  NotBool,        \* a YAML value that is not a boolean (or is absent)
  U32Bits         \* width of the settings hyper takes (32; scaled down for TLC)

\* The integer knobs of http2Settings (lines 112-123).
Knobs == {"initialWindowSize", "maxFrameSize", "maxConcurrentStreams",
          "maxHeaderListSize"}

ASSUME /\ TlsConns \subseteq Conns
       /\ Cap \in Nat \ {0}
       /\ MaxAcceptErrors \in Nat
       /\ MaxRequests \in Nat \ {0}
       /\ DOMAIN Http2Settings \subseteq Knobs
       /\ \A k \in DOMAIN Http2Settings : Http2Settings[k] \in Int
       /\ U32Bits \in Nat \ {0}

\* The accept loop's own records name it instead of a connection.
Loop == "loop"

\* What a log record reports: an access record, or the error it logs.
Whats == {"access", "nodelay", "localaddr", "accept", "tls", "serve", "tunnel"}

Rec(c, w) == [c |-> c, what |-> w]

Records == [c : Conns \cup {Loop}, what : Whats]

\* The accept loop waiting in accept(), and (in a mutant) ended.
Accepting == Rec(Loop, "none")
Stopped == Rec(Loop, "stopped")

States == {"queued", "handshake", "serving", "handling", "respond",
           "logTls", "logServe", "closed"}

\* A detached CONNECT or WebSocket task of the connection's request.
TunnelStates == {"none", "spawned", "open", "log", "done"}

\* No builder yet: the task has not started serving.
NoBuilder == [mode |-> "none"]

\* Rust's `as u32` on an i64 keeps the low 32 bits: it wraps, never fails.
AsU32(v) == v % (2 ^ U32Bits)

(* The builder each connection task makes before serve_connection (lines *)
(* 97-129 after the handshake, 171-204 on plain connections): HTTP/1.x  *)
(* only unless enableHTTP2 is the boolean true, and every http2Settings *)
(* knob that as_i64() reads is applied through `as u32`.                 *)
Http2Builder ==
  [mode     |-> IF EnableHTTP2 = TRUE THEN "auto" ELSE "http1",
   settings |-> [k \in DOMAIN Http2Settings |-> AsU32(Http2Settings[k])],
   connectProtocol |-> EnableConnectProtocol = TRUE]


VARIABLES
  chan,       \* the log channel
  received,   \* records the log runtime's receive loop has taken, in order
  loop,       \* the accept loop: Accepting, or the record it is sending
  acceptErrs, \* failed listener.accept() calls so far
  conn,       \* conn[c]: where connection c is
  requests,   \* requests[c]: requests that arrived on connection c
  tunnel,     \* tunnel[c]: the detached upgrade task of c's request
  builder     \* builder[c]: the HTTP builder c is served with, or NoBuilder

vars == <<chan, received, loop, acceptErrs, conn, requests, tunnel, builder>>

Init ==
  /\ chan = <<>>
  /\ received = <<>>
  /\ loop = Accepting
  /\ acceptErrs = 0
  /\ conn = [c \in Conns |-> "queued"]
  /\ requests = [c \in Conns |-> 0]
  /\ tunnel = [c \in Conns |-> "none"]
  /\ builder = [c \in Conns |-> NoBuilder]

\* Mutant: a send that does not wait for room.
SendNoCap(r) ==
  /\ chan' = Append(chan, r)

\* A producer's logger.send(..).await completes only with room in the channel.
Send(r) ==
  /\ Len(chan) < Cap
  /\ chan' = Append(chan, r)

-----------------------------------------------------------------------------
(* The accept loop (lines 769-896).  accept_connection runs inline: it    *)
(* sets TCP_NODELAY and reads the local address, logging and returning on *)
(* failure, then spawns the connection task (a TLS handshake first on     *)
(* the HTTPS listener).  tokio::select! takes either ready listener.       *)
\* The task starts serving c with the builder it made.
Serve(c) ==
  /\ conn' = [conn EXCEPT ![c] = "serving"]
  /\ builder' = [builder EXCEPT ![c] = Http2Builder]

\* Mutant: the failure branches log but do not return.
AcceptNoReturn(c) ==
  /\ loop = Accepting
  /\ conn[c] = "queued"
  /\ IF c \in TlsConns
     THEN conn' = [conn EXCEPT ![c] = "handshake"] /\ UNCHANGED builder
     ELSE Serve(c)
  /\ \E r \in {"ok", "nodelay", "localaddr"} :
       loop' = IF r = "ok" THEN loop ELSE Rec(c, r)
  /\ UNCHANGED <<chan, received, acceptErrs, requests, tunnel>>

Accept(c) ==
  /\ loop = Accepting
  /\ conn[c] = "queued"
  /\ \E r \in {"ok", "nodelay", "localaddr"} :
       IF r = "ok"
       THEN /\ IF c \in TlsConns
               THEN conn' = [conn EXCEPT ![c] = "handshake"] /\ UNCHANGED builder
               ELSE Serve(c)
            /\ UNCHANGED loop
       ELSE /\ conn' = [conn EXCEPT ![c] = "closed"]
            /\ loop' = Rec(c, r)
            /\ UNCHANGED builder
  /\ UNCHANGED <<chan, received, acceptErrs, requests, tunnel>>

\* listener.accept() returned Err: log "Cannot accept a connection".
AcceptFails ==
  /\ loop = Accepting
  /\ acceptErrs < MaxAcceptErrors
  /\ acceptErrs' = acceptErrs + 1
  /\ loop' = Rec(Loop, "accept")
  /\ UNCHANGED <<chan, received, conn, requests, tunnel, builder>>

\* Mutant: the loop ends after logging a failure, as the fatal branches do.
LoopLogExits ==
  /\ loop \notin {Accepting, Stopped}
  /\ Send(loop)
  /\ loop' = Stopped
  /\ UNCHANGED <<received, acceptErrs, conn, requests, tunnel, builder>>

\* The loop's own log send; it accepts nothing until the send completes.
LoopLog ==
  /\ loop # Accepting
  /\ Send(loop)
  /\ loop' = Accepting
  /\ UNCHANGED <<received, acceptErrs, conn, requests, tunnel, builder>>

-----------------------------------------------------------------------------
(* A connection task (lines 81-238).                                       *)

\* tls_acceptor.accept(stream): the client completes the handshake, or not.
Handshake(c) ==
  /\ conn[c] = "handshake"
  /\ \/ Serve(c)
     \/ conn' = [conn EXCEPT ![c] = "logTls"] /\ UNCHANGED builder
  /\ UNCHANGED <<chan, received, loop, acceptErrs, requests, tunnel>>

\* The client sends its request: hyper calls the service, request_handler.
Request(c) ==
  /\ conn[c] = "serving"
  /\ requests[c] < MaxRequests
  /\ conn' = [conn EXCEPT ![c] = "handling"]
  /\ requests' = [requests EXCEPT ![c] = @ + 1]
  /\ UNCHANGED <<chan, received, loop, acceptErrs, tunnel, builder>>

\* The client closes the idle connection; serve_connection returns Ok.
ClientCloses(c) ==
  /\ conn[c] = "serving"
  /\ conn' = [conn EXCEPT ![c] = "closed"]
  /\ UNCHANGED <<chan, received, loop, acceptErrs, requests, tunnel, builder>>

(* The pipeline's handlers are done; it now awaits its access log send. *)
(* A CONNECT (request_handler.rs 712) or WebSocket (978) answer has      *)
(* spawned its detached task first, which awaits the upgrade.            *)
HandlersDone(c) ==
  /\ conn[c] = "handling"
  /\ conn' = [conn EXCEPT ![c] = "respond"]
  /\ \E upgrade \in BOOLEAN :
       tunnel' = IF upgrade THEN [tunnel EXCEPT ![c] = "spawned"] ELSE tunnel
  /\ UNCHANGED <<chan, received, loop, acceptErrs, requests, builder>>

(* The access record is sent and the response goes out.  The connection *)
(* then waits for the client's next request, or, after an upgrade       *)
(* answer, hyper hands it to the detached task and serve_connection      *)
(* returns Ok.                                                           *)
SendAccess(c) ==
  /\ conn[c] = "respond"
  /\ Send(Rec(c, "access"))
  /\ conn' = [conn EXCEPT ![c] = IF tunnel[c] = "spawned" THEN "closed" ELSE "serving"]
  /\ tunnel' = IF tunnel[c] = "spawned" THEN [tunnel EXCEPT ![c] = "open"] ELSE tunnel
  /\ UNCHANGED <<received, loop, acceptErrs, requests, builder>>

(* tokio::time::timeout polls the pipeline before its deadline, so a send *)
(* into a channel with room completes first: a pipeline that is sending   *)
(* is cancelled only while the channel is full.  A detached task that     *)
(* awaits the upgrade is not cancelled: the response never goes out, its *)
(* upgrade fails and it logs "Error while upgrading" (lines 733-740).    *)
Timeout(c) ==
  /\ TimeoutOn
  /\ \/ conn[c] = "handling"
     \/ conn[c] = "respond" /\ Len(chan) = Cap
  /\ conn' = [conn EXCEPT ![c] = "logServe"]
  /\ tunnel' = IF tunnel[c] = "spawned" THEN [tunnel EXCEPT ![c] = "log"] ELSE tunnel
  /\ UNCHANGED <<chan, received, loop, acceptErrs, requests, builder>>

(* serve_connection_with_upgrades returns Err on the client's side: a     *)
(* malformed request (hyper answers 400 itself and calls no service), or  *)
(* the connection reset while a request is handled, while its pipeline   *)
(* awaits its access log send, or while its response is written after    *)
(* that send.  hyper then drops the service future; a detached task      *)
(* awaiting the upgrade sees it fail and logs it (lines 158-164, 229-235).*)
HyperError(c) ==
  /\ conn[c] \in {"serving", "handling", "respond"}
  /\ conn' = [conn EXCEPT ![c] = "logServe"]
  /\ tunnel' = IF tunnel[c] = "spawned" THEN [tunnel EXCEPT ![c] = "log"] ELSE tunnel
  /\ UNCHANGED <<chan, received, loop, acceptErrs, requests, builder>>

\* Mutant: the error is offered with try_send and dropped when the channel is full.
LogConnErrorTry(c) ==
  /\ conn[c] \in {"logTls", "logServe"}
  /\ chan' = IF Len(chan) < Cap
              THEN Append(chan, Rec(c, IF conn[c] = "logTls" THEN "tls" ELSE "serve"))
              ELSE chan
  /\ conn' = [conn EXCEPT ![c] = "closed"]
  /\ UNCHANGED <<received, loop, acceptErrs, requests, tunnel, builder>>

\* "Error during TLS handshake" / "Error serving HTTP(S) connection".
LogConnError(c) ==
  /\ conn[c] \in {"logTls", "logServe"}
  /\ Send(Rec(c, IF conn[c] = "logTls" THEN "tls" ELSE "serve"))
  /\ conn' = [conn EXCEPT ![c] = "closed"]
  /\ UNCHANGED <<received, loop, acceptErrs, requests, tunnel, builder>>

(* The tunnel or WebSocket session ends when its peers close it, cleanly *)
(* or with an Err of the handler's entry point that the task logs.       *)
TunnelEnds(c) ==
  /\ tunnel[c] = "open"
  /\ \E err \in BOOLEAN : tunnel' = [tunnel EXCEPT ![c] = IF err THEN "log" ELSE "done"]
  /\ UNCHANGED <<chan, received, loop, acceptErrs, conn, requests, builder>>

\* error_logger.log(..).await of the detached task.
LogTunnelError(c) ==
  /\ tunnel[c] = "log"
  /\ Send(Rec(c, "tunnel"))
  /\ tunnel' = [tunnel EXCEPT ![c] = "done"]
  /\ UNCHANGED <<received, loop, acceptErrs, conn, requests, builder>>

-----------------------------------------------------------------------------
\* The log runtime's receive loop (line 1020) takes the oldest record.
Receive ==
  /\ chan # <<>>
  /\ received' = Append(received, Head(chan))
  /\ chan' = Tail(chan)
  /\ UNCHANGED <<loop, acceptErrs, conn, requests, tunnel, builder>>

\* Nothing is in flight: no task runs, the channel is empty and the loop
\* is not sending, so the process idles in accept() until a client comes.
Waiting ==
  /\ loop \notin Records
  /\ chan = <<>>
  /\ \A c \in Conns : conn[c] \in {"queued", "closed"}
  /\ \A c \in Conns : tunnel[c] \in {"none", "done"}
  /\ UNCHANGED vars

Next ==
  \/ \E c \in Conns :
       \/ Accept(c) \/ Handshake(c) \/ Request(c) \/ ClientCloses(c)
       \/ HandlersDone(c) \/ SendAccess(c) \/ Timeout(c) \/ HyperError(c)
       \/ LogConnError(c)
       \/ TunnelEnds(c) \/ LogTunnelError(c)
  \/ AcceptFails
  \/ LoopLog
  \/ Receive
  \/ Waiting

(* Fairness.  The receive loop and the timer are weakly fair.  A blocked  *)
(* send is woken when room appears, but another sender may take the slot *)
(* first, so the senders are strongly fair (async_channel wakes waiters in*)
(* order).  Accepting is strongly fair: select! picks a ready branch at   *)
(* random and each listener's backlog is served in order.  Clients        *)
(* (Handshake, Request, ClientCloses, HyperError), handler modules and   *)
(* the sessions of detached tasks (TunnelEnds) are not fair.              *)
Fairness ==
  /\ WF_vars(Receive)
  /\ SF_vars(LoopLog)
  /\ \A c \in Conns :
       /\ SF_vars(Accept(c))
       /\ SF_vars(SendAccess(c))
       /\ SF_vars(LogConnError(c))
       /\ SF_vars(LogTunnelError(c))
       /\ WF_vars(Timeout(c))

Spec == Init /\ [][Next]_vars /\ Fairness

-----------------------------------------------------------------------------

TypeOK ==
  /\ chan \in BoundedSeq(Records, Cap)
  /\ received \in Seq(Records)
  /\ loop \in {Accepting} \cup Records
  /\ acceptErrs \in 0..MaxAcceptErrors
  /\ conn \in [Conns -> States]
  /\ requests \in [Conns -> 0..MaxRequests]
  /\ tunnel \in [Conns -> TunnelStates]
  /\ builder \in [Conns -> {NoBuilder, Http2Builder}]

\* Every record sent so far, received or still in the channel.
Logged == received \o chan

LoggedAbout(c) == {i \in DOMAIN Logged : Logged[i].c = c}

\* The access records, the detached task's records, and the connection's
\* own error records, about connection c.
AccessAbout(c) == {i \in LoggedAbout(c) : Logged[i].what = "access"}
TunnelAbout(c) == {i \in LoggedAbout(c) : Logged[i].what = "tunnel"}
ErrorsAbout(c) == LoggedAbout(c) \ (AccessAbout(c) \cup TunnelAbout(c))

\* The serve error of c, if any: the timeout or a hyper error ended c.
ServeErrorAbout(c) == {i \in ErrorsAbout(c) : Logged[i].what = "serve"}

(* Spec 4.1: connection-level errors and timed-out requests are logged to *)
(* the error sink.  Over a keep-alive connection no request is access-    *)
(* logged twice; while the connection waits for the next request every   *)
(* request so far has its access record; once it is closed, at most the  *)
(* last request lacks one, and then the connection's serve error ("Error *)
(* serving HTTP connection", after the timeout or a hyper error) stands  *)
(* for it.  A connection has at most one error record, the last about it *)
(* and only once it is closed; an accept or handshake error only on a    *)
(* connection that never served a request.  A detached CONNECT or        *)
(* WebSocket task adds at most one record, and no request follows an     *)
(* upgrade on its connection.  The failure branches of accept_connection *)
(* must return, and every error must be awaited into the channel, for   *)
(* this to hold.                                                         *)
ConnectionOutcomeLogged ==
  \A c \in Conns :
    /\ Cardinality(ErrorsAbout(c)) <= 1
    /\ \A e \in ErrorsAbout(c) :
         /\ conn[c] = "closed"
         /\ \A i \in LoggedAbout(c) \ TunnelAbout(c) : i <= e
         /\ Logged[e].what # "serve" => requests[c] = 0
    /\ Cardinality(AccessAbout(c)) <= requests[c]
    /\ conn[c] = "serving" => Cardinality(AccessAbout(c)) = requests[c]
    /\ conn[c] = "closed" =>
         Cardinality(AccessAbout(c)) + Cardinality(ServeErrorAbout(c)) >= requests[c]
    /\ Cardinality(TunnelAbout(c)) <= 1
    /\ TunnelAbout(c) # {} => tunnel[c] = "done"
    /\ tunnel[c] \notin {"none", "spawned"} => conn[c] \in {"logServe", "closed"}

(* Spec 4.1: connection errors never stop the accept loop.  Although the   *)
(* loop awaits its own log sends inline, and blocks while the channel is  *)
(* full, every connection waiting in a listener's backlog is accepted   *)
(* (all of them queue at the start, so all are eventually accepted).     *)
AcceptProgress == <>(\A c \in Conns : conn[c] # "queued")

\* Requests on c whose access record or timeout error the log runtime took.
ReceivedFor(c) ==
  Cardinality({i \in DOMAIN received :
                 received[i].c = c /\ received[i].what \in {"access", "serve"}})

(* Spec 4.1 and section 5: with a timeout set, every request ends logged: *)
(* again and again, every request that arrived so far has its access     *)
(* record or its timeout error received by the log runtime, even when    *)
(* handlers hang, clients stall, tunnels stay open and the channel is    *)
(* full.  Both counts only grow, so each request is logged eventually.   *)
RequestLogged == []<>(\A c \in Conns : ReceivedFor(c) >= requests[c])

(* Spec 4.1 and its configuration table: http2Settings are HTTP/2 tuning  *)
(* knobs, applied when present.  A connection served with HTTP/2 allowed *)
(* gets every configured knob with the value configured.  The `as u32`   *)
(* casts of the connection task (lines 112-123, 191-202) must not turn a *)
(* negative or too large value into another limit.                       *)
Http2SettingsApplied ==
  \A c \in Conns : builder[c].mode = "auto" => builder[c].settings = Http2Settings

=============================================================================
