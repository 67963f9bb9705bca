----------------------------- MODULE MCLogSink -----------------------------
EXTENDS LogSink

\* Two senders: one sends an access and an error record, the other two
\* access records.
MCScript == [q \in Producers |-> IF q = "p1" THEN <<FALSE, TRUE>> ELSE <<FALSE, FALSE>>]

=============================================================================
