-------------------------- MODULE RequestPipeline --------------------------
(***************************************************************************)
(* One request through ferron's request_handler (src/ferron/src/          *)
(* request_handler.rs): the classification, Host check, configuration     *)
(* lookup, URL sanitation, the asterisk and CONNECT early answers, the    *)
(* walk over the handler chain with WebSocket upgrades, the LIFO          *)
(* post-processing, the access and error log records it puts in the log   *)
(* channel, and the timeout that wraps all of it.                          *)
(*                                                                         *)
(* The pipeline is split at its await points (a log send, a handler call, *)
(* a response-modifying call) because the timeout can cancel it at any of *)
(* them.  Records sent to the log channel are appended to `sent`; records *)
(* a path still has to send are in `pending`, sent one per Emit step.     *)
(*                                                                         *)
(* Handler modules are external code: every call has a nondeterministic   *)
(* outcome from ModuleOutcomes, except the X-Forwarded-For module of      *)
(* src/project-karpacz/src/modules/x_forwarded_for.rs, modelled exactly.  *)
(***************************************************************************)
EXTENDS Naturals, Sequences, SequencesExt

CONSTANTS
  Chain,            \* handler kinds in chain order: "xff" or "module"
  ConnectCapable,   \* indices i with does_connect_proxy_requests() = TRUE
  WsCapable,        \* indices whose does_websocket_requests may hold
  User,             \* an authenticated user name
  NoUser,           \* the absent auth_user (logged as "-")
  RequestLines,     \* [method, form, version] of the request line
  HostKinds,        \* Host header: "none", "lower", "mixed" or "opaque"
  UrlKinds,         \* sanitize_url result: "same", "changed", "bad", "unrebuildable"
  XffKinds,         \* x-forwarded-for: "absent", "ip", "notip", "opaque"
  TimeoutSettings,  \* global "timeout": "null", "int", "negative", "other"
  ModuleOutcomes    \* Ok(ResponseData) shapes a module may return

N == Len(Chain)
Idx == 1..N

ASSUME /\ N >= 1
       /\ ConnectCapable \subseteq Idx
       /\ WsCapable \subseteq Idx
       /\ User # NoUser

VARIABLES
  req,        \* the request: line, host, url, ws (is_upgrade_request), xff
  cfg,        \* global and combined configuration flags of this request
  wsCap,      \* indices whose does_websocket_requests(config, socket) holds
  pc,         \* "prelude", "chain", "post", "emit", "done", "timedout"
  idx,        \* next handler of the chain walk
  executed,   \* executed_handlers stack
  mode,       \* why post-processing runs: "response", "status", "error", "notfound"
  hdrK,       \* the `headers` of the last outcome carry the custom header K
  auth,       \* latest_auth_data
  remote,     \* socket_data.remote_addr: "peer" or "fwd" (rewritten by XFF)
  resp,       \* the response being built
  pending,    \* log records still to be sent on this path, in order
  sent,       \* log records this request has sent to the log channel
  detached,   \* detached tasks spawned: "connect", "ws" not yet run
  spawned,    \* number of tokio::spawn calls (parallel_fn, CONNECT, WebSocket)
  replaced,   \* history: status of the response a post-processor built, or NoReplace
  outcomes,   \* history: forward results, in order
  postFailed, \* history: a response-modifying handler returned Err
  upgraded    \* history: WebSocket upgrade "none", "ok" or "failed"

vars == <<req, cfg, wsCap, pc, idx, executed, mode, hdrK, auth, remote, resp,
          pending, sent, detached, spawned, replaced, outcomes,
          postFailed, upgraded>>

Final == {"done", "timedout"}

NoReplace == 0

\* The timeout wraps the pipeline unless "timeout" is null (lines 1638-1653);
\* a negative value is cast `as u64` to about 2^64 ms, a deadline never met.
TimeoutEffective == cfg.timeout \in {"int", "other"}

Statuses == {101, 200, 204, 400, 403, 404, 500, 501}
KValues == {"absent", "cfg", "handler", "post"}
Responses == [status: Statuses, server: BOOLEAN, k: KValues]
LogRecords == [log: {"error"}, tag: {"host", "config", "url", "ws", "post",
                                      "handler", "connect", "wsTask"}]
               \cup [log: {"access"}, status: Statuses,
                     user: {User, NoUser}, ip: {"peer", "fwd"}]

-----------------------------------------------------------------------------
(* Classification, lines 169-175.                                          *)
IsProxyRequest ==
  IF req.line.version = "2"
  THEN req.line.method = "CONNECT" /\ req.line.form \in {"absolute", "authority"}
  ELSE req.line.form \in {"absolute", "authority"}

IsConnectProxyRequest == req.line.method = "CONNECT"

HasAuthority == req.line.form \in {"absolute", "authority"}

(* Error records go through the channel only if errorLogFilePath is set.   *)
ErrRec(tag) ==
  IF cfg.errlog THEN <<[log |-> "error", tag |-> tag]>> ELSE <<>>

\* Mutant: the client address is the one the connection was accepted from.
AccRecPeerIp(status, user) ==
  IF cfg.log
  THEN <<[log |-> "access", status |-> status, user |-> user, ip |-> "peer"]>>
  ELSE <<>>

(* log_combined: client ip as socket_data holds it at the time of the log. *)
AccRec(status, user) ==
  IF cfg.log
  THEN <<[log |-> "access", status |-> status, user |-> user, ip |-> remote]>>
  ELSE <<>>

(* generate_error_response: the extra headers (but Content-Type/Length)    *)
(* are copied; K is present iff they carried it.                           *)
ErrorResponse(status, withK) ==
  [status |-> status, server |-> FALSE, k |-> IF withK THEN "handler" ELSE "absent"]

(* The customHeaders merge (only where the name is absent) followed by the *)
(* Server header insert.  `custom` is FALSE where no combined config exists.*)
Finish(r, custom) ==
  [r EXCEPT !.server = TRUE,
            !.k = IF custom /\ cfg.customK /\ r.k = "absent" THEN "cfg" ELSE @]

(* Leave for the log sends of `p`; a path with nothing to send returns.    *)
Leave(p) ==
  /\ pending' = p
  /\ pc' = IF p = <<>> THEN "done" ELSE "emit"

-----------------------------------------------------------------------------
RequestInit ==
  [line: RequestLines, host: HostKinds, url: UrlKinds,
   ws: BOOLEAN, xff: XffKinds]

ConfigInit ==
  [found: BOOLEAN, customK: BOOLEAN, spoof: BOOLEAN,
   log: BOOLEAN, errlog: BOOLEAN, timeout: TimeoutSettings]

Init ==
  /\ req \in RequestInit
  /\ cfg \in ConfigInit
  /\ wsCap \in SUBSET WsCapable
  /\ pc = "prelude"
  /\ idx = 1
  /\ executed = <<>>
  /\ mode = "notfound"
  /\ hdrK = FALSE
  /\ auth = NoUser
  /\ remote = "peer"
  /\ resp = [status |-> 200, server |-> FALSE, k |-> "absent"]
  /\ pending = <<>>
  /\ sent = <<>>
  /\ detached = {}
  /\ spawned = 0
  /\ replaced = NoReplace
  /\ outcomes = <<>>
  /\ postFailed = FALSE
  /\ upgraded = "none"

-----------------------------------------------------------------------------
(* An early answer: its response, its headers and its log sends.         *)
Answer(status, custom, p) ==
  /\ resp' = Finish(ErrorResponse(status, FALSE), custom)
  /\ Leave(p)

FirstConnectHandlerExists == ConnectCapable # {}

HostRejected == req.host = "opaque"

UrlAccepted == req.url \in {"same", "changed"}

(* Lines 221-340: a Host header that is not visible ASCII is a 400.        *)
BadHost ==
  /\ HostRejected
  /\ Answer(400, FALSE, ErrRec("host") \o AccRec(400, NoUser))
  /\ UNCHANGED <<idx, detached, spawned>>

(* Lines 345-415: combine_config found no configuration: a 500.            *)
NoConfig ==
  /\ ~HostRejected
  /\ ~cfg.found
  /\ Answer(500, FALSE, ErrRec("config") \o AccRec(500, NoUser))
  /\ UNCHANGED <<idx, detached, spawned>>

(* Lines 417-627: sanitize_url failed, or the sanitized URL could not be  *)
(* put back into the request: a 400.                                      *)
BadUrl ==
  /\ ~HostRejected
  /\ cfg.found
  /\ ~UrlAccepted
  /\ Answer(400, TRUE, ErrRec("url") \o AccRec(400, NoUser))
  /\ UNCHANGED <<idx, detached, spawned>>

(* Lines 629-696: "*" answers OPTIONS with 204, anything else with 400.    *)
AsteriskAnswer ==
  /\ ~HostRejected
  /\ cfg.found
  /\ UrlAccepted
  /\ req.line.form = "asterisk"
  /\ LET status == IF req.line.method = "OPTIONS" THEN 204 ELSE 400
     IN Answer(status, TRUE, AccRec(status, NoUser))
  /\ UNCHANGED <<idx, detached, spawned>>

(* Lines 697-896: CONNECT goes to the first capable handler's tunnel (200 *)
(* and a spawned task), is a 400 without an authority, or a 501.          *)
ConnectAnswer ==
  /\ ~HostRejected
  /\ cfg.found
  /\ UrlAccepted
  /\ req.line.form # "asterisk"
  /\ IsConnectProxyRequest
  /\ IF FirstConnectHandlerExists /\ HasAuthority
     THEN /\ Answer(200, TRUE, AccRec(200, NoUser))
          /\ detached' = {"connect"}
          /\ spawned' = spawned + 1
     ELSE LET status == IF FirstConnectHandlerExists THEN 400 ELSE 501
          IN /\ Answer(status, TRUE, AccRec(status, NoUser))
             /\ UNCHANGED <<detached, spawned>>
  /\ UNCHANGED idx

(* Lines 897-903: every other request walks the handler chain.            *)
EnterChain ==
  /\ ~HostRejected
  /\ cfg.found
  /\ UrlAccepted
  /\ req.line.form # "asterisk"
  /\ ~IsConnectProxyRequest
  /\ pc' = "chain"
  /\ UNCHANGED <<resp, pending, idx, detached, spawned>>

(* Lines 169-697: everything before the chain walk.  Up to its first await *)
(* the pipeline runs without yielding, so these checks are one step; an    *)
(* early answer then leaves through its log sends.  The Host header is     *)
(* lowercased in place (lines 221-287).                                    *)
Prelude ==
  /\ pc = "prelude"
  /\ req' = IF req.host = "mixed" THEN [req EXCEPT !.host = "lower"] ELSE req
  /\ \/ BadHost
     \/ NoConfig
     \/ BadUrl
     \/ AsteriskAnswer
     \/ ConnectAnswer
     \/ EnterChain
  /\ UNCHANGED <<cfg, wsCap, executed, mode, hdrK, auth, remote, sent,
                 replaced, outcomes, postFailed, upgraded>>

-----------------------------------------------------------------------------
(* The chain walk, lines 898-1500.                                         *)

\* A handler result that only hands the request on.
Pass == [err |-> FALSE, response |-> FALSE, status |-> FALSE, request |-> TRUE, code |-> 400,
         auth |-> "keep", setsK |-> FALSE, hdrK |-> FALSE, parallel |-> FALSE,
         newRemote |-> FALSE]

\* The handler returned Err(...).
HandlerErr == [Pass EXCEPT !.err = TRUE, !.request = FALSE]

(* XForwardedForModuleHandlers: request_handler (x_forwarded_for.rs 37-88) *)
(* and proxy_request_handler (90-98).  A header that is not visible ASCII  *)
(* makes to_str()? return Err; split(",").nth(0) is never None.            *)
XffResult ==
  CASE IsProxyRequest \/ ~cfg.spoof \/ req.xff = "absent" -> Pass
    [] req.xff = "opaque" -> HandlerErr
    [] req.xff = "notip"  -> [Pass EXCEPT !.status = TRUE, !.request = FALSE]
    [] req.xff = "ip"     -> [Pass EXCEPT !.newRemote = TRUE]

HandlerResults(i) ==
  IF Chain[i] = "xff" THEN {XffResult} ELSE ModuleOutcomes \cup {HandlerErr}

\* Lines 904-1047: the handler at idx takes over a WebSocket upgrade.
WebSocketUpgrade ==
  /\ pc = "chain"
  /\ req.ws
  /\ idx \in wsCap
  /\ \/ /\ upgraded' = "ok"
        /\ resp' = Finish([status |-> 101, server |-> FALSE, k |-> "absent"], TRUE)
        /\ detached' = detached \cup {"ws"}
        /\ spawned' = spawned + 1
        /\ Leave(AccRec(101, NoUser))
     \/ /\ upgraded' = "failed"
        /\ resp' = Finish(ErrorResponse(500, FALSE), TRUE)
        /\ Leave(ErrRec("ws") \o AccRec(500, NoUser))
        /\ UNCHANGED <<detached, spawned>>
  /\ UNCHANGED <<req, cfg, wsCap, idx, executed, mode, hdrK, auth, remote,
                 sent, replaced, outcomes, postFailed>>

\* Mutant: the walk continues past the last handler of the chain.
HasNextPastEnd == idx <= N

(* The `for handlers in handlers_vec` loop has a next handler.            *)
HasNext == idx < N

\* Mutant: a status is honoured before a response.
VerdictStatusFirst(o) ==
  CASE o.err -> "error" [] o.status -> "status" [] o.response -> "response"
    [] o.request /\ HasNext -> "continue" [] OTHER -> "notfound"

(* Lines 1064-1356: Err, else response, else status, else the next        *)
(* handler with the returned request, else end of chain (404).            *)
Verdict(o) ==
  CASE o.err -> "error" [] o.response -> "response" [] o.status -> "status"
    [] o.request /\ HasNext -> "continue" [] OTHER -> "notfound"

\* The response a verdict ends the walk with, before the header merge.
VerdictResponse(v, o) ==
  CASE v = "response" -> [status |-> 200, server |-> FALSE,
                          k |-> IF o.setsK THEN "handler" ELSE "absent"]
    [] v = "status"   -> ErrorResponse(o.code, o.hdrK)
    [] v = "error"    -> ErrorResponse(500, FALSE)
    [] v = "notfound" -> ErrorResponse(404, FALSE)

(* Lines 1049-1356 and 1501-1523: call the handler, push it on the stack,  *)
(* take latest_auth_data from the returned auth_data (line 1074: kept,   *)
(* set or cleared by the module) and act on its verdict.  Custom headers and Server are merged before   *)
(* post-processing.                                                        *)
Apply(o) ==
  LET v == Verdict(o) IN
  /\ auth' = CASE o.auth = "set" -> User [] o.auth = "clear" -> NoUser [] OTHER -> auth
  /\ remote' = IF o.newRemote THEN "fwd" ELSE remote
  /\ spawned' = IF o.parallel THEN spawned + 1 ELSE spawned
  /\ IF v = "continue"
     THEN /\ idx' = idx + 1
          /\ UNCHANGED <<resp, mode, hdrK, pc>>
     ELSE /\ mode' = v
          /\ hdrK' = (v \in {"response", "status"} /\ o.hdrK)
          /\ resp' = Finish(VerdictResponse(v, o), TRUE)
          /\ pc' = "post"
          /\ UNCHANGED idx

InvokeHandler ==
  /\ pc = "chain"
  /\ ~(req.ws /\ idx \in wsCap)
  /\ executed' = Append(executed, idx)
  /\ \E o \in HandlerResults(idx) :
       /\ outcomes' = Append(outcomes, o)
       /\ Apply(o)
  /\ UNCHANGED <<req, cfg, wsCap, pending, sent, detached, replaced,
                 postFailed, upgraded>>

-----------------------------------------------------------------------------
(* Post-processing: pop executed_handlers and call the response-modifying *)
(* handler (or its proxy variant).  Its Ok(response) replaces the        *)
(* response whole: a module may hand back the one it got, add K to it, or *)
(* build a new one, which carries neither Server nor K (the merge ran     *)
(* before the loop and does not run again).  An Err is logged, collapses  *)
(* into a synthesized 500 (with the outcome's `headers` on the response   *)
(* and status paths) and abandons the rest of the stack.                  *)
PostResults(h) ==
  IF Chain[h] = "xff" THEN {"keep"} ELSE {"keep", "setK", "replace", "fail"}

\* Statuses a post-processor's own response may have.
PostStatuses == {200, 403}

(* executed_handlers.pop(): the rest of the stack and the popped handler. *)
Pop(s) == <<Front(s), Last(s)>>

(* The Ok arm: the returned response becomes the response.                *)
PostOk(r) ==
  \/ /\ r = "keep"
     /\ UNCHANGED <<resp, replaced>>
  \/ /\ r = "setK"
     /\ resp' = [resp EXCEPT !.k = "post"]
     /\ UNCHANGED replaced
  \/ /\ r = "replace"
     /\ \E st \in PostStatuses :
          /\ resp' = [status |-> st, server |-> FALSE, k |-> "absent"]
          /\ replaced' = st

\* Mutant: a failed post-processor is logged with the status it replaced.
PostProcessLogsOld ==
  /\ pc = "post"
  /\ executed # <<>>
  /\ executed' = Pop(executed)[1]
  /\ \E r \in PostResults(Pop(executed)[2]) :
       \/ /\ r # "fail"
          /\ PostOk(r)
          /\ UNCHANGED <<pending, pc, postFailed>>
       \/ /\ r = "fail"
          /\ postFailed' = TRUE
          /\ resp' = Finish(ErrorResponse(500, hdrK), TRUE)
          /\ Leave(ErrRec("post") \o AccRec(resp.status, auth))
          /\ UNCHANGED replaced
  /\ UNCHANGED <<req, cfg, wsCap, idx, mode, hdrK, auth, remote, sent,
                 detached, spawned, outcomes, upgraded>>

(* The Err arm of the four post-processing loops (after a response, a    *)
(* status, an Err and the end of the chain): log the error, synthesize a *)
(* 500 (with the outcome's headers only after a response or a status),   *)
(* log its access record with the latest auth_user and return.           *)
PostFail ==
  /\ postFailed' = TRUE
  /\ resp' = Finish(ErrorResponse(500, hdrK), TRUE)
  /\ Leave(ErrRec("post") \o AccRec(500, auth))
  /\ UNCHANGED replaced

PostProcess ==
  /\ pc = "post"
  /\ executed # <<>>
  /\ executed' = Pop(executed)[1]
  /\ \E r \in PostResults(Pop(executed)[2]) :
       \/ /\ r # "fail"
          /\ PostOk(r)
          /\ UNCHANGED <<pending, pc, postFailed>>
       \/ /\ r = "fail"
          /\ PostFail
  /\ UNCHANGED <<req, cfg, wsCap, idx, mode, hdrK, auth, remote, sent,
                 detached, spawned, outcomes, upgraded>>

\* The stack is empty: on the Err path the handler's error is logged now.
PostDone ==
  /\ pc = "post"
  /\ executed = <<>>
  /\ Leave((IF mode = "error" THEN ErrRec("handler") ELSE <<>>)
           \o AccRec(resp.status, auth))
  /\ UNCHANGED <<req, cfg, wsCap, idx, executed, mode, hdrK, auth, remote,
                 resp, sent, detached, spawned, replaced, outcomes,
                 postFailed, upgraded>>

-----------------------------------------------------------------------------
\* One logger.send(...).await; the response is returned right after the last.
Emit ==
  /\ pc = "emit"
  /\ sent' = Append(sent, Head(pending))
  /\ pending' = Tail(pending)
  /\ pc' = IF Len(pending) = 1 THEN "done" ELSE "emit"
  /\ UNCHANGED <<req, cfg, wsCap, idx, executed, mode, hdrK, auth, remote,
                 resp, detached, spawned, replaced, outcomes,
                 postFailed, upgraded>>

(* tokio::time::timeout drops the pipeline future at an await point; the  *)
(* detached tasks it spawned keep running (lines 1654-1671).              *)
\* Mutant: only the handler chain walk is under the timeout.
TimeoutChainOnly ==
  /\ TimeoutEffective
  /\ pc = "chain"
  /\ pc' = "timedout"
  /\ pending' = <<>>
  /\ UNCHANGED <<req, cfg, wsCap, idx, executed, mode, hdrK, auth, remote,
                 resp, sent, detached, spawned, replaced, outcomes,
                 postFailed, upgraded>>

Timeout ==
  /\ TimeoutEffective
  /\ pc \notin Final \cup {"prelude"}
  /\ pc' = "timedout"
  /\ pending' = <<>>
  /\ UNCHANGED <<req, cfg, wsCap, idx, executed, mode, hdrK, auth, remote,
                 resp, sent, detached, spawned, replaced, outcomes,
                 postFailed, upgraded>>

(* A spawned CONNECT (lines 712-742) or WebSocket (978-996) task.  The    *)
(* upgrade only succeeds once the response went out; an upgrade error or  *)
(* an Err of the module's handler goes to the error logger.               *)
DetachedRun(t) ==
  /\ pc \in Final
  /\ detached' = detached \ {t}
  /\ \/ /\ pc = "done"
        /\ UNCHANGED sent
     \/ sent' = sent \o ErrRec(IF t = "connect" THEN "connect" ELSE "wsTask")
  /\ UNCHANGED <<req, cfg, wsCap, pc, idx, executed, mode, hdrK, auth, remote,
                 resp, pending, spawned, replaced, outcomes,
                 postFailed, upgraded>>

\* The request is over and its detached tasks have finished.
Finished ==
  /\ pc \in Final
  /\ detached = {}
  /\ UNCHANGED vars

Next ==
  \/ Prelude
  \/ WebSocketUpgrade
  \/ InvokeHandler
  \/ PostProcess
  \/ PostDone
  \/ Emit
  \/ Timeout
  \/ \E t \in detached : DetachedRun(t)
  \/ Finished

(* The pipeline's own steps and the timer are fair.  Module calls are not:*)
(* a module may await forever (a dead upstream, a stuck client body).     *)
Fairness ==
  /\ WF_vars(Prelude)
  /\ WF_vars(WebSocketUpgrade)
  /\ WF_vars(PostDone)
  /\ WF_vars(Emit)
  /\ WF_vars(Timeout)

Spec == Init /\ [][Next]_vars /\ Fairness

-----------------------------------------------------------------------------
(* Properties                                                              *)

TypeOK ==
  /\ pc \in {"prelude", "chain", "post", "emit"} \cup Final
  /\ idx \in Idx
  /\ executed \in Seq(Idx)
  /\ mode \in {"response", "status", "error", "notfound"}
  /\ auth \in {User, NoUser}
  /\ remote \in {"peer", "fwd"}
  /\ resp \in Responses
  /\ pending \in Seq(LogRecords)
  /\ sent \in Seq(LogRecords)
  /\ detached \subseteq {"connect", "ws"}
  /\ upgraded \in {"none", "ok", "failed"}

ChainPath == outcomes # <<>> \/ upgraded # "none"

IsContinue(o) == ~o.err /\ ~o.response /\ ~o.status /\ o.request

(* What the spec (4.4 step 8, 4.4 step 10) says the status of a request   *)
(* that reached the chain is: a failed post-processor gives 500; else the *)
(* last post-processor that built its own response decides; else the      *)
(* upgrade; else the last handler's result by the precedence              *)
(* Err > response > status > request/none (404).                          *)
SpecChainStatus ==
  IF postFailed THEN 500
  ELSE IF replaced # NoReplace THEN replaced
  ELSE CASE upgraded = "ok"     -> 101
         [] upgraded = "failed" -> 500
         [] OTHER ->
              LET o == Last(outcomes) IN
              CASE o.err -> 500 [] o.response -> 200 [] o.status -> o.code
                [] OTHER -> 404

(* The chain walks past a handler only when it returned a bare request,   *)
(* and the delivered status is the one the precedence rules give for the  *)
(* outcomes seen.  Breaking it takes a handler result and a later step:   *)
(* a wrong precedence, a walk past a status, a lost post-processing Err.  *)
StatusFollowsPrecedence ==
  (pc = "done" /\ ChainPath) =>
    /\ \A j \in 1..(Len(outcomes) - 1) : IsContinue(outcomes[j])
    /\ upgraded # "none" => \A j \in DOMAIN outcomes : IsContinue(outcomes[j])
    /\ resp.status = SpecChainStatus

AccessRecords == SelectSeq(sent, LAMBDA r : r.log = "access")

(* Spec property 3 and S6: at most one access record per request, one for *)
(* every delivered response when logging is on, none for a timed-out one;*)
(* it carries the delivered status and the client address as rewritten by*)
(* X-Forwarded-For, and on the handler paths the latest auth_user.        *)
AccessLogFaithful ==
  /\ Len(AccessRecords) <= 1
  /\ AccessRecords # <<>> =>
        /\ pc = "done"
        /\ AccessRecords[1].status = resp.status
        /\ AccessRecords[1].ip = remote
        /\ (outcomes # <<>> /\ upgraded = "none") => AccessRecords[1].user = auth
  /\ (pc = "done" /\ cfg.log) => Len(AccessRecords) = 1

(* Spec property 1 and 2: every delivered response carries Server; once a *)
(* configuration was resolved a configured custom header is present, and *)
(* a handler's own value of it is never replaced by the configured one.   *)
OwnResponseSetK ==
  /\ outcomes # <<>>
  /\ upgraded = "none"
  /\ ~postFailed
  /\ Last(outcomes).response
  /\ ~Last(outcomes).err
  /\ Last(outcomes).setsK

FinalHeaders ==
  pc = "done" =>
    /\ resp.server
    /\ (cfg.found /\ req.host # "opaque" /\ cfg.customK) => resp.k # "absent"
    /\ OwnResponseSetK => resp.k \in {"handler", "post"}

(* Spec 4.4/5: the pipeline is bounded by `timeout`, 300000 ms by default.*)
RequestEventuallyEnds == <>(pc \in Final)

(* Spec 7: a handler failure becomes a 500 and its detail is written to   *)
(* the error log.                                                         *)
HandlerFailureLogged ==
  (pc = "done" /\ cfg.errlog /\ \E j \in DOMAIN outcomes : outcomes[j].err)
    => [log |-> "error", tag |-> "handler"] \in Range(sent)

-----------------------------------------------------------------------------
(* Refinement of Pipeline.  The answer is settled once the pipeline is    *)
(* only sending log records (pc = "emit") or done; the abstract log is    *)
(* the statuses of the access records sent.  An Emit that sends an error  *)
(* record, and a detached task's error record, are stuttering steps.      *)
NoAnswer == 0

P == INSTANCE Pipeline WITH
       phase   <- CASE pc = "done" -> "responded"
                    [] pc = "timedout" -> "cut"
                    [] OTHER -> "running",
       answer  <- IF pc \in {"emit", "done"} THEN resp.status ELSE NoAnswer,
       logged  <- [i \in DOMAIN AccessRecords |-> AccessRecords[i].status],
       limited <- TimeoutEffective,
       logOn   <- cfg.log,
       None    <- NoAnswer

(* The pipeline implements Pipeline: the status logged is the one of the  *)
(* response that goes out, sent with it and never after a timeout, on    *)
(* every path (early answers, WebSocket upgrade, post-processing Err),    *)
(* and with a timeout every request ends (lines 1638-1671).               *)
RefinesPipeline == P!Spec

=============================================================================
