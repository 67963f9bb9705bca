----------------------------- MODULE LogQueue -----------------------------
(***************************************************************************)
(* What the log sink promises its producers (spec section 4.7, "Log      *)
(* Sink"): a record handed to it is either stored in the file of its kind *)
(* or discarded, and discarded only when that file is not open or a write *)
(* to it failed.  Stored records stay stored.  Once the sink halts (the   *)
(* log runtime is dropped) nothing moves any more.  Order is not part of  *)
(* the promise: records are sets here.                                    *)
(***************************************************************************)
EXTENDS FiniteSets

CONSTANTS
  Msgs,     \* the records producers can submit
  Kinds,    \* the files: access and error
  Kind,     \* Kind[m]: the file record m belongs to
  MayLose   \* whether a write can fail (a disk error)

VARIABLES
  accepted, \* records handed to the sink
  pending,  \* accepted records neither stored nor discarded yet
  stored,   \* stored[f]: records that reached file f
  open,     \* open[f]: file f was opened at startup
  halted    \* the sink has stopped

avars == <<accepted, pending, stored, open, halted>>

Init ==
  /\ accepted = {}
  /\ pending = {}
  /\ stored = [f \in Kinds |-> {}]
  /\ open \in [Kinds -> BOOLEAN]
  /\ halted = FALSE

Submit(m) ==
  /\ ~halted
  /\ m \in Msgs \ accepted
  /\ accepted' = accepted \cup {m}
  /\ pending' = pending \cup {m}
  /\ UNCHANGED <<stored, open, halted>>

(* Pending records leave in one step: those in S reach their files, those *)
(* in D are discarded (a write that fails part way does both).  A record  *)
(* of a closed file may be discarded; a record of an open file only when  *)
(* writes can fail, and then alone: the one line whose write failed.      *)
Settle(S, D) ==
  /\ ~halted
  /\ S \cup D # {}
  /\ S \cap D = {}
  /\ S \cup D \subseteq pending
  /\ \A m \in S : open[Kind[m]]
  /\ \A m \in D : open[Kind[m]] => MayLose /\ D = {m}
  /\ pending' = pending \ (S \cup D)
  /\ stored' = [f \in Kinds |-> stored[f] \cup {m \in S : Kind[m] = f}]
  /\ UNCHANGED <<accepted, open, halted>>

Halt ==
  /\ ~halted
  /\ halted' = TRUE
  /\ UNCHANGED <<accepted, pending, stored, open>>

Next ==
  \/ \E m \in Msgs : Submit(m)
  \/ \E S, D \in SUBSET pending : Settle(S, D)
  \/ Halt

\* Record m leaves `pending`, one way or the other.
Leaves(m) == \E S, D \in SUBSET pending : m \in S \cup D /\ Settle(S, D)

SafetySpec == Init /\ [][Next]_avars

Spec == SafetySpec /\ \A m \in Msgs : WF_avars(Leaves(m))

=============================================================================
