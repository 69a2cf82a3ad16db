----------------------------- MODULE EpTaskApi ------------------------------
(***************************************************************************)
(* ep_task and its channels implement the Ep trait: under the mapping      *)
(* below every step of EpTask is a step of EpApi or changes nothing of it. *)
(***************************************************************************)
EXTENDS EpTask

ApiCall ==
  [c \in Callers |-> IF call[c] \in {"acquire", "queued"} THEN "pending" ELSE call[c]]

Api == INSTANCE EpApi WITH
  call      <- ApiCall,
  owner     <- origin,
  evts      <- evtq,
  listening <- recvAlive

\* The application's view of an endpoint: each connect() is answered once, with
\* a connection of its own; an id is never given twice, whatever fails in
\* between; incoming connections arrive in order and within the limit
\* (ep.rs:119-128, 223-278, 283-290).
ImplementsEpApi == Api!Spec
=============================================================================
