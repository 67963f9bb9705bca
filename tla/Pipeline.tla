------------------------------ MODULE Pipeline ------------------------------
(***************************************************************************)
(* What request_handler promises about one request (spec 4.4, 5 and     *)
(* property 3).  The request runs until it is answered or, when a timeout *)
(* is in force, cut off.  An answer may be settled before it goes out;   *)
(* with access logging on, it goes out together with exactly one access  *)
(* record of its status.  A request cut off has no access record and     *)
(* loses the answer it had settled.  With a timeout, the request does not *)
(* run forever.                                                            *)
(***************************************************************************)
CONSTANTS
  Statuses, \* the statuses an answer can have
  None      \* no answer settled yet

VARIABLES
  phase,    \* "running", "responded" or "cut"
  answer,   \* the status settled for the response, or None
  logged,   \* statuses of the access records sent, in order
  limited,  \* a timeout wraps the request
  logOn     \* access logging is configured

pvars == <<phase, answer, logged, limited, logOn>>

Init ==
  /\ phase = "running"
  /\ answer = None
  /\ logged = <<>>
  /\ limited \in BOOLEAN
  /\ logOn \in BOOLEAN

\* The response is settled but not yet returned.
Settle(s) ==
  /\ phase = "running"
  /\ answer = None
  /\ answer' = s
  /\ UNCHANGED <<phase, logged, limited, logOn>>

\* The response goes out, with its access record when logging is on.
Respond(s) ==
  /\ phase = "running"
  /\ answer \in {None, s}
  /\ answer' = s
  /\ phase' = "responded"
  /\ logged' = IF logOn THEN <<s>> ELSE <<>>
  /\ UNCHANGED <<limited, logOn>>

\* The timeout drops the request before its response went out.
Cut ==
  /\ limited
  /\ phase = "running"
  /\ phase' = "cut"
  /\ answer' = None
  /\ UNCHANGED <<logged, limited, logOn>>

Next ==
  \/ \E s \in Statuses : Settle(s) \/ Respond(s)
  \/ Cut

Spec == Init /\ [][Next]_pvars /\ WF_pvars(Cut)

=============================================================================
