---------------------------- MODULE MCTokioUdp ----------------------------
(***************************************************************************)
(* TokioUdp with two closers, so that one close can consume the waker the  *)
(* other one would have woken, and two senders, whose sends can overlap.   *)
(***************************************************************************)
EXTENDS TokioUdp, TLC
=============================================================================
