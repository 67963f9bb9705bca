------------------------------ MODULE LogSink ------------------------------
(***************************************************************************)
(* The asynchronous log fan-in of start_server (src/project-karpacz/src/  *)
(* server.rs, lines 950-1058): a bounded async_channel, a receive loop    *)
(* that spawns one writer task per message, a tokio Mutex around a       *)
(* 128 KiB BufWriter per file (access and error), a 100 ms interval that  *)
(* flushes both buffers, and the 100 ms sleep before start_server returns *)
(* after a fatal startup error, when the log runtime is dropped.          *)
(*                                                                         *)
(* Time is a phase counter: Period ticks make one flush interval, and the *)
(* exit sleep lasts Period ticks too (both are 100 ms in the code).       *)
(***************************************************************************)
EXTENDS Naturals, Sequences, SequencesExt, FiniteSets

CONSTANTS
  Producers,   \* tasks that send log records (request pipelines, connections)
  Script,      \* Script[p]: is_error flags of the records p sends, in order
  Main,        \* the server event loop, which may fail fatally
  Cap,         \* channel capacity (10000 in the code)
  BufCap,      \* BufWriter capacity in records (131072 bytes in the code)
  Period,      \* ticks per flush interval and per exit sleep (100 ms)
  FileStates,  \* possible open results of a configured file: "ok", "failed", "none"
  MainMayFail, \* whether the event loop may hit a fatal startup error
  MaxDiskErrors \* how many writes of a BufWriter to its file may fail (0: none)

ASSUME /\ Main \notin Producers
       /\ Cap \in Nat \ {0}
       /\ BufCap \in Nat \ {0}
       /\ Period \in Nat \ {0}
       /\ MaxDiskErrors \in Nat

Kinds == {"access", "error"}

\* A record is identified by its sender and its place in the sender's script.
Msg(p, n) == [p |-> p, n |-> n, err |-> Script[p][n]]
FatalMsg == [p |-> Main, n |-> 1, err |-> TRUE]
Msgs == UNION {{Msg(p, n) : n \in DOMAIN Script[p]} : p \in Producers} \cup {FatalMsg}

KindOf(m) == IF m.err THEN "error" ELSE "access"

VARIABLES
  chan,      \* the channel's queue
  nsent,     \* nsent[p]: records p has sent
  opened,    \* opened[f]: result of opening file f at startup
  writers,   \* spawned writer tasks, each holding one record
  buf,       \* buf[f]: BufWriter contents
  file,      \* file[f]: what reached the file
  phase,     \* position inside the current flush interval
  flushDue,  \* the interval has ticked and the flush task has not run yet
  exitIn,    \* ticks left of the sleep before the runtime is dropped; -1: none
  exited,    \* start_server has returned and the log runtime is gone
  lost,      \* records whose write failed (printed to stderr, then dropped)
  diskErrs   \* writes to a file that have failed so far

vars == <<chan, nsent, opened, writers, buf, file, phase, flushDue, exitIn, exited,
          lost, diskErrs>>

Init ==
  /\ chan = <<>>
  /\ nsent = [p \in Producers \cup {Main} |-> 0]
  /\ opened \in [Kinds -> FileStates]
  /\ writers = {}
  /\ buf = [f \in Kinds |-> <<>>]
  /\ file = [f \in Kinds |-> <<>>]
  /\ phase = 0
  /\ flushDue = TRUE
  /\ exitIn = -1
  /\ exited = FALSE
  /\ lost = {}
  /\ diskErrs = 0

-----------------------------------------------------------------------------
(* logger.send(LogMessage::new(..)).await: blocks while the channel is    *)
(* full.                                                                   *)
Send(p) ==
  /\ ~exited
  /\ nsent[p] < Len(Script[p])
  /\ Len(chan) < Cap
  /\ chan' = Append(chan, Msg(p, nsent[p] + 1))
  /\ nsent' = [nsent EXCEPT ![p] = @ + 1]
  /\ UNCHANGED <<opened, writers, buf, file, phase, flushDue, exitIn, exited, lost, diskErrs>>

(* server_event_loop logs a fatal error and returns Err; start_server then*)
(* sleeps 100 ms (lines 1046-1061).                                       *)
MainFails ==
  /\ MainMayFail
  /\ ~exited
  /\ nsent[Main] = 0
  /\ Len(chan) < Cap
  /\ chan' = Append(chan, FatalMsg)
  /\ nsent' = [nsent EXCEPT ![Main] = 1]
  /\ exitIn' = Period
  /\ UNCHANGED <<opened, writers, buf, file, phase, flushDue, exited, lost, diskErrs>>

(* Lines 1022-1027: the handle a record goes to, chosen by is_error.      *)
Handle(m) == opened[KindOf(m)]

(* Lines 1020-1042: receive one record and spawn a writer for it if its   *)
(* file is open; a record for a file that is not open is dropped.          *)
Receive ==
  /\ ~exited
  /\ chan # <<>>
  /\ chan' = Tail(chan)
  /\ writers' = IF Handle(Head(chan)) = "ok"
                THEN writers \cup {Head(chan)}
                ELSE writers
  /\ UNCHANGED <<nsent, opened, buf, file, phase, flushDue, exitIn, exited, lost, diskErrs>>

(* BufWriter::flush_buf: the file takes a prefix of the buffer; a write  *)
(* error ends the loop and only the written prefix leaves the buffer.     *)
(* The disk fails at most MaxDiskErrors times.                           *)
Written(f) == IF diskErrs < MaxDiskErrors THEN 0..Len(buf[f]) ELSE {Len(buf[f])}

\* Mutant: a failed flush clears the whole buffer instead of the written part.
UnwrittenClear(f, n) == <<>>

Unwritten(f, n) == SubSeq(buf[f], n + 1, Len(buf[f]))

\* Mutant: a full buffer is not emptied before the new line is buffered.
WriteNoSpill(m) ==
  /\ ~exited
  /\ m \in writers
  /\ writers' = writers \ {m}
  /\ buf' = [buf EXCEPT ![KindOf(m)] = Append(@, m)]
  /\ UNCHANGED <<chan, nsent, opened, file, phase, flushDue, exitIn, exited, lost, diskErrs>>

(* Lines 1029-1040: a writer task takes the file's lock and writes its   *)
(* line.  A line that does not fit makes BufWriter flush first; if that  *)
(* fails, write returns the error, the line is printed to stderr and     *)
(* dropped.                                                                *)
Write(m) ==
  /\ ~exited
  /\ m \in writers
  /\ writers' = writers \ {m}
  /\ LET f == KindOf(m) IN
       IF Len(buf[f]) < BufCap
       THEN /\ buf' = [buf EXCEPT ![f] = Append(@, m)]
            /\ UNCHANGED <<file, lost, diskErrs>>
       ELSE \E n \in Written(f) :
              /\ file' = [file EXCEPT ![f] = @ \o SubSeq(buf[f], 1, n)]
              /\ IF n = Len(buf[f])
                 THEN /\ buf' = [buf EXCEPT ![f] = <<m>>]
                      /\ UNCHANGED <<lost, diskErrs>>
                 ELSE /\ buf' = [buf EXCEPT ![f] = Unwritten(f, n)]
                      /\ lost' = lost \cup {m}
                      /\ diskErrs' = diskErrs + 1
  /\ UNCHANGED <<chan, nsent, opened, phase, flushDue, exitIn, exited>>

\* Mutant: the flush writes the buffers out but does not empty them.
FlushKeepBuffer ==
  /\ ~exited
  /\ flushDue
  /\ file' = [f \in Kinds |-> file[f] \o buf[f]]
  /\ flushDue' = FALSE
  /\ UNCHANGED <<chan, nsent, opened, writers, buf, phase, exitIn, exited, lost, diskErrs>>

(* Lines 1003-1017: on each interval tick, lock and flush each open file; *)
(* the error of a failed flush is discarded and the rest stays buffered.  *)
Flush ==
  /\ ~exited
  /\ flushDue
  /\ \E n \in [Kinds -> 0..BufCap] :
       /\ \A f \in Kinds : n[f] \in Written(f)
       /\ file' = [f \in Kinds |-> file[f] \o SubSeq(buf[f], 1, n[f])]
       /\ buf' = [f \in Kinds |-> Unwritten(f, n[f])]
       /\ diskErrs' = diskErrs + Cardinality({f \in Kinds : n[f] < Len(buf[f])})
       /\ diskErrs' <= MaxDiskErrors
  /\ flushDue' = FALSE
  /\ UNCHANGED <<chan, nsent, opened, writers, phase, exitIn, exited, lost>>

\* Time advances one tick; the interval ticks when the phase wraps.
Tick ==
  /\ ~exited
  /\ ~flushDue
  /\ exitIn # 0
  /\ phase' = (phase + 1) % Period
  /\ flushDue' = (phase' = 0)
  /\ exitIn' = IF exitIn > 0 THEN exitIn - 1 ELSE exitIn
  /\ UNCHANGED <<chan, nsent, opened, writers, buf, file, exited, lost, diskErrs>>

\* The sleep is over: start_server returns and log_runtime is dropped.
Exit ==
  /\ ~exited
  /\ exitIn = 0
  /\ exited' = TRUE
  /\ UNCHANGED <<chan, nsent, opened, writers, buf, file, phase, flushDue, exitIn, lost, diskErrs>>

Stopped ==
  /\ exited
  /\ UNCHANGED vars

Next ==
  \/ \E p \in Producers : Send(p)
  \/ MainFails
  \/ Receive
  \/ \E m \in writers : Write(m)
  \/ Flush
  \/ Tick
  \/ Exit
  \/ Stopped

(* The log runtime's tasks and its timer are fair: tokio runs every ready *)
(* task eventually and the interval keeps ticking.                        *)
Fairness ==
  /\ WF_vars(Receive)
  /\ \A m \in Msgs : WF_vars(Write(m))
  /\ WF_vars(Flush)
  /\ WF_vars(Tick)
  /\ WF_vars(Exit)

Spec == Init /\ [][Next]_vars /\ Fairness

-----------------------------------------------------------------------------
(* Properties                                                              *)

TypeOK ==
  /\ chan \in Seq(Msgs)
  /\ Len(chan) <= Cap
  /\ writers \subseteq Msgs
  /\ buf \in [Kinds -> Seq(Msgs)]
  /\ file \in [Kinds -> Seq(Msgs)]
  /\ \A f \in Kinds : Len(buf[f]) <= BufCap
  /\ phase \in 0..(Period - 1)
  /\ exitIn \in -1..Period
  /\ diskErrs \in 0..MaxDiskErrors

SentMsgs ==
  UNION {{Msg(p, n) : n \in 1..nsent[p]} : p \in Producers}
  \cup (IF nsent[Main] = 1 THEN {FatalMsg} ELSE {})

\* Where a record can be after it was sent.
InFlight(m) ==
  (IF m \in Range(chan) THEN 1 ELSE 0) + (IF m \in writers THEN 1 ELSE 0)
  + (IF m \in Range(buf[KindOf(m)]) THEN 1 ELSE 0)
  + (IF m \in Range(file[KindOf(m)]) THEN 1 ELSE 0)

(* Every record sent is, exactly once, in the channel, in a writer task,  *)
(* in the buffer or in the file of its own kind, unless its file was not  *)
(* open or the write of its line failed, and buffers and files hold no    *)
(* record twice and no record of the other kind.  A write that empties a  *)
(* full buffer, a flush that stops part way, and the routing by is_error  *)
(* all have to agree for this to hold.                                    *)
NoRecordLostOrDuplicated ==
  /\ \A m \in SentMsgs :
       \/ InFlight(m) = 1
       \/ (opened[KindOf(m)] # "ok" \/ m \in lost) /\ InFlight(m) = 0
  /\ \A f \in Kinds :
       /\ IsInjective(buf[f] \o file[f])
       /\ \A m \in Range(buf[f] \o file[f]) : KindOf(m) = f

(* Comment at line 1057: the sleep before returning ensures that error    *)
(* logs are saved.                                                         *)
FatalErrorSaved ==
  (exited /\ opened["error"] = "ok") => FatalMsg \in Range(file["error"])

(* The records of one sender appear in its file in the order it sent them.*)
FileOrderFollowsSendOrder ==
  \A f \in Kinds : \A i, j \in DOMAIN file[f] :
    (i < j /\ file[f][i].p = file[f][j].p) => file[f][i].n < file[f][j].n

-----------------------------------------------------------------------------
(* Refinement: the sink implements LogQueue.  A record is pending while  *)
(* it is in the channel, in a writer task or in a buffer; it is stored    *)
(* once it is in its file.                                                *)
LQ == INSTANCE LogQueue WITH
        Kind <- [m \in Msgs |-> KindOf(m)],
        MayLose <- MaxDiskErrors > 0,
        accepted <- SentMsgs,
        pending <- Range(chan) \cup writers \cup UNION {Range(buf[f]) : f \in Kinds},
        stored <- [f \in Kinds |-> Range(file[f])],
        open <- [f \in Kinds |-> opened[f] = "ok"],
        halted <- exited

(* Every step of the sink is a step of LogQueue, and under the fairness  *)
(* of the log runtime every record handed to the sink settles: it is      *)
(* stored in its own file, or dropped because that file is not open or    *)
(* because the write of its own line failed.  A failed spill or flush     *)
(* must keep the unwritten rest of the buffer pending, and once the disk  *)
(* stops failing the interval flush must still store it.                  *)
RefinesLogQueue == LQ!Spec

=============================================================================
