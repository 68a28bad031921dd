------------------------- MODULE MCWebRtcEventLoop -------------------------
(***************************************************************************)
(* Two multipliers: one that lets the delays grow, and 0.7, rounded.       *)
(***************************************************************************)
EXTENDS WebRtcEventLoop

Doubled == [d \in 0..LongestDelay |-> 2 * d]
Reduced == [d \in 0..LongestDelay |-> (7 * d) \div 10]
=============================================================================
