--------------------------- MODULE MCTokioChannel ---------------------------
(***************************************************************************)
(* TokioChannel with four senders for two permits: two wait while two hold *)
(* guards, were given permits, or have items in the queue.                 *)
(***************************************************************************)
EXTENDS TokioChannel, TLC
=============================================================================
