------------------------------ MODULE MCServer ------------------------------
(* Two connections, one per listener, a channel of one slot so that     *)
(* every send may block, and one failed accept(): three senders contend  *)
(* for the slot.                                                          *)
EXTENDS Server

CONSTANTS c1, c2

MCConns == {c1, c2}
MCTlsConns == {c2}

\* Knobs within u32 range (at the scaled width U32Bits = 16).
MCHttp2Settings ==
  [k \in {"initialWindowSize", "maxConcurrentStreams"} |->
     IF k = "initialWindowSize" THEN 65535 ELSE 100]

\* maxConcurrentStreams -1 and a maxFrameSize past the u32 range.
MCHttp2SettingsOutOfRange ==
  [k \in {"maxFrameSize", "maxConcurrentStreams"} |->
     IF k = "maxFrameSize" THEN 65536 + 16384 ELSE -1]

=============================================================================
