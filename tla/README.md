# TLA+ models of the project-karpacz / ferron server core

This directory holds TLA+ specifications of the concurrent core of the
server in `src/`, the TLC configurations that check them, and `PROJECT.json`,
which maps every definition to the source lines it models and lists the runs,
mutants, findings and hazards.

## The system

The server (`src/project-karpacz/src/server.rs`) starts two tokio runtimes:
a log runtime and a server runtime.

* **Log sink** (`start_server`, lines 940-1061). This is a bounded
  `async_channel` (10000 records) shared by every producer. A receive loop
  spawns one writer task per record. Each writer locks the access or error
  file, whichever is_error selects. That file is a 128 KiB `BufWriter`
  behind a tokio `Mutex`. A separate task flushes both files every 100 ms.
  After the server event loop returns an error, `start_server` sleeps 100 ms
  and returns, and that drops the log runtime.
* **Server event loop and listeners** (`server_event_loop`). Startup runs
  a fixed sequence of steps. It validates the configuration, builds the
  crypto provider, loads TLS material, gates TLS versions, sets up client
  certificates, reads `port`/`sport`/`secure`/`disableNonEncryptedServer`
  and binds the listeners. Most failures first await an error record into
  the log channel and then return. Afterwards the loop accepts from one
  listener, or `select!`s over both. It awaits `accept_connection` and its
  own error sends inline.
* **Connection driver** (`accept_connection`). It sets TCP_NODELAY and
  reads the local address, logging and returning on failure. It then spawns
  a task that does the TLS handshake (on the HTTPS listener) and serves the
  connection with hyper. For each request that task calls `request_handler`
  with a fresh list of handler instances. A serve error is logged.
* **Request pipeline** (`src/ferron/src/request_handler.rs`).
  * `request_handler` wraps `request_handler_wrapped` in
    `tokio::time::timeout` unless `timeout` is null.
  * The wrapped function classifies the request, lowercases the Host header,
    resolves the combined configuration and sanitizes the URL.
  * It answers `*` and CONNECT requests early.
  * Otherwise it walks the handler chain. A WebSocket-capable handler takes
    over the upgrade. Every other handler's result decides whether to stop:
    Err > response > status > request > end of chain (404).
  * It then pops the executed handlers LIFO for post-processing. Each
    response-modifying handler returns the response to go on with: the one
    it got, changed, or a new one. Server and the custom headers are merged
    before this loop and not after it.
  * It sends the access and error log records through the channel.
* **X-Forwarded-For module** (`src/project-karpacz/src/modules/x_forwarded_for.rs`).
  When `enableIPSpoofing` is set, it rewrites the client address from the
  header's first entry.

The pipelines and the log sink interact only through the channel. A log
send blocks when the channel is full, and a log send is an await point where
the request timeout can cancel the pipeline.

## Modules

| Module | Models | State | Actions |
|---|---|---|---|
| `RequestPipeline` | `request_handler`, `request_handler_wrapped`, `generate_error_response`, `log_combined`, the XFF module | request, config flags, program counter, chain index, executed stack, last outcome's mode, auth, client address, response, log records pending and sent, detached tasks, histories | `Prelude` (the `BadHost`, `NoConfig`, `BadUrl`, `AsteriskAnswer`, `ConnectAnswer` and `EnterChain` disjuncts), `WebSocketUpgrade`, `InvokeHandler`, `PostProcess`, `PostDone`, `Emit`, `Timeout`, `DetachedRun` |
| `Pipeline` | what `request_handler` promises about one request (spec 4.4, 5, property 3), as an abstract specification | phase, settled answer, access statuses logged, timeout in force, logging on | `Settle`, `Respond`, `Cut` |
| `MCRequestPipeline` | model values for the above: chain xff, module, module; module 2 CONNECT-capable, module 3 WebSocket-capable | | |
| `LogSink` | the log runtime of `start_server` | channel, sent counts, open results, writer tasks, buffers, files, records lost to disk errors, flush timer phase, exit countdown | `Send`, `MainFails`, `Receive`, `Write`, `Flush`, `Tick`, `Exit` |
| `LogQueue` | what the log sink promises (spec 4.7), as an abstract specification | accepted, pending and stored records, open files, halted | `Submit`, `Settle`, `Halt` |
| `MCLogSink` | two senders with scripts (access, error) and (access, access) | | |
| `Server` | the accept loop, the connection tasks and the log channel they share, composed | log channel, records received, loop state, accept errors, per-connection state, requests per connection, per-connection detached task, per-connection HTTP builder | `Accept`, `AcceptFails`, `LoopLog`, `Handshake`, `Request`, `ClientCloses`, `HandlersDone`, `SendAccess`, `Timeout`, `HyperError`, `LogConnError`, `TunnelEnds`, `LogTunnelError`, `Receive`, `Waiting` |
| `MCServer` | one plain and one TLS connection, up to two requests each | | |
| `Startup` | `server_event_loop` up to the accept loop, and the no-listener branch | step, error records sent, returned error, configuration read, TLS versions, addresses, flags, ALPN, bound listeners | `CheckModules`, `Validate`, `CryptoProvider`, `LoadCertificates`, `InstallProvider`, `TlsVersions`, `ClientAuth`, `ReadPorts`, `BindHttp`, `BindHttps`, `EnterLoop`, `Done` |
| `MCStartup` | port values absent, 8080, 65616, -1, "[::1]:8080", "8080"; sport absent, 8443, 65536 | | |

**How `RequestPipeline` corresponds to the code.**

* The pipeline runs without yielding until its first await, so every check
  before the chain walk is one step, `Prelude`.
* Each handler call is one step, `InvokeHandler`. Each response-modifying
  call is one step, `PostProcess`. Each `logger.send(..).await` is one step,
  `Emit`, fed from `pending`.
* `Timeout` may fire at any of these await points. It abandons the pending
  log sends.
* Handler modules other than XFF are external code. A call returns any
  member of `ModuleOutcomes` or `Err`, and it may never return: module
  calls have no fairness.
* Response data is abstracted to three things: the status, whether a Server
  header is present, and where the custom header `K` came from (absent,
  configuration, handler or post-processor).
* A response-modifying call returns the response (`"keep"`), adds `K` to it
  (`"setK"`), returns a new response with a status from `PostStatuses` and
  neither Server nor `K` (`"replace"`), or fails (`PostFail`). `replaced`
  records the status of the last new response.
* `latest_auth_data` takes the `auth_data` of every Ok result (line 1074).
  A module may keep, set or clear it.

**How `LogSink` corresponds to the code.**

* Time is a phase counter. `Period` ticks make one 100 ms interval, and the
  exit sleep is also `Period` ticks.
* The interval's first tick is immediate, so `flushDue` starts TRUE.
* A full `BufWriter` writes its buffer to the file before it buffers the
  new line (`Write`).
* A record whose file was not opened is dropped by `Receive`.
* While fewer than `MaxDiskErrors` writes have failed (`diskErrs`), a
  spill or a flush may write only a prefix of the buffer (`Written`). `flush_buf` then keeps the unwritten rest buffered
  (`Unwritten`). A spill that fails also loses the new line, which the code
  only prints to stderr (`lost`).

**How `RequestPipeline` refines `Pipeline`.** `RequestPipeline` ends with
`P == INSTANCE Pipeline WITH ...`. Under that mapping:

* the request is *responded* at `pc = "done"`, *cut* at `"timedout"`, and
  *running* otherwise;
* its *answer* is `resp.status` once only log sends remain (`"emit"`) or it
  is done, and none before;
* the abstract *log* is the statuses of the access records in `sent`;
* *limited* is `TimeoutEffective`, *logOn* is the `log` flag.

A step into `"emit"` is `Settle`, the step into `"done"` is `Respond` (the
access record is always the last send), `Timeout` is `Cut`, and every other
step, including error-record sends and detached tasks, stutters.
`RefinesPipeline` (`P!Spec`) includes `WF(Cut)`: with a timeout in force
no request runs forever, even when a module never returns.

**How `LogSink` refines `LogQueue`.** `LogSink` ends with
`LQ == INSTANCE LogQueue WITH ...`. Under that mapping:

* a record is *accepted* once sent;
* it is *pending* while it is in the channel, in a writer task or in a buffer;
* it is *stored* once it is in its file;
* a file is *open* when `OpenOptions::open` succeeded;
* the sink is *halted* once the log runtime is dropped.

`LogQueue!Settle(S, D)` stores the records in `S` and discards those in
`D` in one step. One step is needed because a BufWriter spill that fails
part way writes a prefix and loses the new line at once. `RefinesLogQueue`
(`LQ!Spec`) includes the liveness that every pending record leaves
`pending`. A record of an open file may be discarded only when writes can
fail, and then alone (`D = {m}`): it is the line whose spill failed. A spill
or flush that dropped the unwritten rest of a buffer would discard more. A
disk that fails forever would keep a record buffered forever, so the disk
fails at most `MaxDiskErrors` times. Afterwards the interval flush must
still store every buffered record.

**How `Server` corresponds to the code.**

* A connection carries up to `MaxRequests` requests in turn, as hyper's
  HTTP/1.x keep-alive reads the next request once a response went out.
  The client may close the idle connection at any time (`ClientCloses`).
* hyper's `serve_connection` returns Err without the timeout too
  (`HyperError`). A malformed request fails before any service call, and a
  reset fails while a request is handled, while its access log send is
  pending, or while the response is written after that send. hyper drops
  the service future, and the task logs its serve error.
* The pipeline is reduced to what this composition needs from
  `RequestPipeline`: handlers run (`HandlersDone`), then the access record
  is sent (`SendAccess`).
* `tokio::time::timeout` polls the pipeline before it checks the deadline.
  So `Timeout` fires during handling at any time, but at the access log
  send only while the channel is full.
* A cancelled request makes hyper's `serve_connection` return Err, and the
  task sends "Error serving HTTP(S) connection" (`LogConnError`).
* A CONNECT or WebSocket answer spawns its detached task before the access
  log send (`HandlersDone` chooses whether the request is one).
  * If the response goes out, hyper hands the connection to the task and
    `serve_connection` returns Ok (`SendAccess` closes it).
  * If the timeout cancels the pipeline first, the upgrade fails and the
    task has an error to log.
  * An open tunnel ends when its peers close it, cleanly or with an Err
    (`TunnelEnds`). The task then sends its error (`LogTunnelError`).
* The accept loop holds the record it is sending (`loop`). It accepts
  nothing until `LoopLog` has put it in the channel.
* `Waiting` is the process idling in `accept()` when nothing is in flight.
* Before it serves, each connection task makes its HTTP builder
  (`Http2Builder`, set by `Serve`). The builder is HTTP/1.x only unless
  `enableHTTP2` is the boolean true. Every integer `http2Settings` knob is
  converted `as u32` (`AsU32`, the value modulo 2^`U32Bits`).
  `U32Bits` is 32 in the code. The MC module scales it to 16, because TLC
  integers are 32-bit signed, and the wrap is the same at either width.
  The serving steps that follow are HTTP/1.x in every run.

**How `Startup` corresponds to the code.**

* Each step reads its part of the configuration with `\E` when the code
  reads it, and either goes on or fails.
* `Fail(k)` sends the record and then returns. `FailSilently(k)` returns
  with no record, as `install_default().is_err()` (line 513) and
  `WebPkiClientVerifier::builder(..).build()?` (line 627) do.
* `port` and `sport` are YAML values read with `as_i64` (then `try_into`
  u16) or `as_str` (then parsed as a full `SocketAddr`, given as the
  table `ParseAddr`).
* The HTTPS bind always fails on an address the HTTP listener already
  holds (`Overlaps`). Otherwise either bind may fail.

## Runs

| Run | Checks | Result |
|---|---|---|
| `pipeline` | `TypeOK`, `StatusFollowsPrecedence`, `AccessLogFaithful`, `RefinesPipeline` | pass, 4,092,736 states, about 2 min |
| `pipeline_headers` | `FinalHeaders` | violation: a post-processor that returns a response of its own delivers it without Server and the custom header |
| `pipeline_timeout_null` | `RequestEventuallyEnds` | violation: with `timeout: null`, a module that never returns holds the request forever |
| `pipeline_errlog` | `HandlerFailureLogged` | violation: handler Err followed by a post-processing Err never logs the handler's Err |
| `logsink` | `TypeOK`, `NoRecordLostOrDuplicated`, `RefinesLogQueue` | pass, with and without a fatal exit and one failing write or flush, 72,392 states, about 1 min |
| `logsink_fatal_saved` | `FatalErrorSaved` | violation: the 100 ms sleep does not guarantee the fatal error reaches the file |
| `logsink_order` | `FileOrderFollowsSendOrder` | violation: per-record writer tasks reorder one sender's lines |
| `server` | `TypeOK`, `ConnectionOutcomeLogged`, `AcceptProgress`, `RequestLogged` | pass, 74,800 states, about 2 min |
| `server_h2_settings` | `Http2SettingsApplied` | violation: `maxConcurrentStreams: -1` and a `maxFrameSize` past the u32 range reach hyper as other values |
| `startup` | `TypeOK`, `ListenersOnConfiguredPorts`, `TlsVersionsMatchReference` | pass, 3,496 states |
| `startup_fatal_logged` | `FatalErrorLogged` | violation: client certificates with an empty native store end startup with no error record |
| `startup_sport` | `HttpsListensOnSport` | violation: a `port` given as an address string moves the HTTPS listener off `[::]:443` |

What the pass runs show:

* Every combination of request form, Host, URL, XFF header and config flags
  ends in a status that follows the precedence rules.
* A delivered response carries exactly one access record, with the
  delivered status and the client address as XFF rewrote it. A request that
  timed out carries none.
* The status follows a post-processor that built its own response, and
  the access record logs that status and the last `auth_user`, even one a
  later module cleared.
* The pipeline implements `Pipeline`: on every path the access record is
  sent with the response it describes, never after a timeout, and with an
  effective timeout every request ends.
* The log sink neither loses nor duplicates a record. The only exceptions
  are records a failed write drops and records the fatal exit discards. It
  implements the abstract `LogQueue`, liveness included, with a disk
  that fails part way: a failed write loses only its own line.
* Composed over one full channel, no request of a keep-alive connection
  is access-logged twice. Once the connection closes, a request without
  an access record is covered by the connection's serve error, whether a
  timeout or a hyper error cut it off. This includes a cut during the
  blocked access log send.
* A connection has at most one error record of its own, and nothing else of
  the connection is logged after it. Its detached task adds at most one
  record, and no request follows an upgrade.
* No connection waits forever in a backlog, although the accept loop blocks
  on its own log sends.
* Every request's record reaches the log runtime, even while tunnels stay
  open.
* For integer ports, the listeners bind exactly the configured ports and
  flags, and a port outside 0..65535 never serves.
* The version gating equals a reference definition: minimum to maximum,
  defaults TLSv1.2 and TLSv1.3, with errors for unknown names and for a
  maximum older than the minimum.

Every property of a passing run has a mutant in `PROJECT.json`. The mutant
breaks the code's definition the way a plausible bug would, and TLC finds
the property violated. Examples:

* a wrapping `as u16` cast instead of `try_into`;
* failure branches of `accept_connection` without their `return`;
* a `try_send` of a connection error;
* the accept loop ending after it logs an error.

### Bounds

**`pipeline`:**

* A chain of three handlers makes room for a handler before and after the
  WebSocket-capable one, and for a CONNECT-capable handler that is not first.
* Module outcomes cover every combination of response/status/request, with
  auth kept, set or cleared, and with and without a parallel task.
* A post-processor's own response has status 200 or 403
  (`PostStatuses`): one equals a chain status and one differs from it.
* The XFF header takes all four of its shapes.
* The Host is mixed-case or opaque, and the URL accepted or rejected.
* The request lines cover origin, absolute, asterisk and authority forms on
  HTTP/1.1 and 2.

**`logsink`:**

* Two senders, four records, capacity 2 and a buffer of 2 records make the
  channel fill, the buffer spill, and writer tasks race the flush task.
* `MaxDiskErrors = 1`: a spill or a flush fails once, part way, with
  records after it that must still be stored.

**`server`:**

* The accept loop and two connections share a channel of one slot, so
  every send can block behind another.
* One accept error makes the loop itself a third sender.
* One connection is TLS, so the handshake error path is present.
* `MaxRequests = 2`: a second request on a connection follows a logged
  first one, so a timeout after an answered request is reached. Each
  connection can also upgrade, so the detached task's record contends for
  the slot too.
* The pass run configures two in-range knobs, `enableHTTP2` false and a
  non-boolean `enableConnectProtocol`. `server_h2_settings` configures -1
  and 2^16 + 16384, the first value under zero and a value past the range
  at the scaled width.
* `AcceptProgress` and `RequestLogged` are stated as one `<>` and one
  `[]<>` formula over all connections. The counts they compare only grow,
  so `RequestLogged` implies that each request is eventually logged.

**`startup`:**

* Each port value exercises one branch of the conversion:
  * 65616 wraps to 80 under `as u16`;
  * -1 is negative;
  * "8080" is a string `SocketAddr` refuses;
  * "[::1]:8080" is accepted, and it overlaps nothing on `[::]:443`.
* 65536 is the first out-of-range `sport`.
* All nine (min, max) version pairs over {TLSv1.2, TLSv1.3, absent} and an
  unknown name are tried.

### Fairness

* The pipeline's own steps (`Prelude`, `WebSocketUpgrade`, `PostDone`,
  `Emit`) and the timer (`Timeout`) are weakly fair, because tokio polls a
  ready task and its timer fires.
* Module calls (`InvokeHandler`, `PostProcess`) are not fair, because an
  external module may await forever.
* In `LogSink`, the receive loop, every writer task, the flush task, the
  timer and the exit are weakly fair. Senders are not.
* In `Server`, the receive loop and each request's timer are weakly fair.
* Sends (`LoopLog`, `SendAccess`, `LogConnError`) are strongly fair. A
  blocked sender is woken whenever a slot frees, but another sender may
  take the slot first. `async_channel` wakes its waiters in order.
* `Accept(c)` is strongly fair. `select!` picks a ready branch at random,
  and a listener's backlog is served in order.
* Sends (`LogTunnelError` too) are strongly fair.
* Clients (`Handshake`, `Request`, `ClientCloses`, `HyperError`), handlers
  (`HandlersDone`) and tunnel sessions (`TunnelEnds`) are not fair.

## Not modelled

* **Outside `src/`; enter only as inputs:** `combine_config`,
  `sanitize_url`, the handler modules, and the code that calls
  `start_server` (whether a crypto provider is already installed is a
  choice, `ProviderStates`).
* **Abstracted to success or failure:** certificate and key contents,
  cipher and curve names, SNI and OCSP.
* **Left out:** the text layout of log records, error page file reads,
  environment variables (`start_server`, lines 910-925; they only call
  `set_var` and change no state the server reads), and runtime
  construction.
* **Not modelled:**
  * HTTP/2 streams: concurrent requests on one connection. The keep-alive
    requests of HTTP/1.x are modelled.
  * What hyper does with the HTTP/2 settings. `server_h2_settings` shows
    which values reach its builder; for example, `maxConcurrentStreams: -1`
    arrives as 4294967295 and lifts the limit.
  * A post-processor that changes the status of the response it got
    without replacing it; a new response covers that status change.
