----------------------------- MODULE ConTaskApi -----------------------------
(***************************************************************************)
(* con_task and its channels implement the Con trait: under the mapping    *)
(* below every step of ConTask is a step of ConApi or changes nothing of   *)
(* it.                                                                     *)
(***************************************************************************)
EXTENDS ConTask

\* A call is pending while it waits for a permit, is queued, or is stored.
ApiCall ==
  [c \in Calls |-> IF call[c] \in {"acquire"} \cup Sent THEN "pending" ELSE call[c]]

Api == INSTANCE ConApi WITH
  ended     <- (pc = "done"),
  evts      <- evtq,
  listening <- recvAlive,
  call      <- ApiCall

\* The application's view of a connection: Connected once and first, messages
\* only in between, nothing after the end, never more than the limit
\* undelivered; each http3() call is answered once, on a live connection only
\* when a response for the same stream replaced it (con.rs:115-123, 185-251).
ImplementsConApi == Api!Spec
=============================================================================
