----------------------------- MODULE MCConTask -----------------------------
(***************************************************************************)
(* ConTask on small channels.  With two command permits a packet, a call   *)
(* and a timer compete for the second one while the Tick has the first;    *)
(* two events fit the queue, so that their order shows; and with two calls *)
(* and one stream a response can replace another.                          *)
(***************************************************************************)
EXTENDS ConTaskApi, TLC
=============================================================================
