--------------------------- MODULE MCMessageRouter ---------------------------
(* One request, a response timer of two ticks, a Hub that may stall for two. *)
EXTENDS MessageRouter
==============================================================================
