------------------------- MODULE MCFrameCallbacks --------------------------
(* Instances of FrameCallbacks for TLC.  A flooder with a synchronized       *)
(* subsurface writes more than the limit lets it; its shard-mate draws once.  *)
EXTENDS FrameCallbacks, TLC

CONSTANTS flooder, mate

FloodAndTrickle == flooder :> 3 @@ mate :> 1
=============================================================================
