--------------------------- MODULE MCMavlinkMode ---------------------------
(* MavlinkMode with queues that overflow and counters that wrap.           *)
EXTENDS MavlinkMode
=============================================================================
