------------------------------ MODULE MCEpTask ------------------------------
(***************************************************************************)
(* EpTask with limits small enough for packets, connects and events to wait *)
(* for each other.  An Initial packet is routed by an id only after it was *)
(* accepted, so one is enough here; the run about repeated ones has two.   *)
(***************************************************************************)
EXTENDS EpTaskApi, TLC
=============================================================================
