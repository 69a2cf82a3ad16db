---------------------------- MODULE OneHandshake ----------------------------
(***************************************************************************)
(* What connect() promises: "Establish a new outgoing connection"          *)
(* (absquic_core/src/ep.rs 32-35, 43-44), one call, one connection.  The   *)
(* client settles on one connection of the server, it is established at    *)
(* the client's end first and then at that connection's, and none of this  *)
(* is ever undone.                                                         *)
(***************************************************************************)
CONSTANTS Client, Attempt, Servers

VARIABLES
  peer,        \* the server's connection the client talks to, Attempt before
  established  \* the connections that are established

vars == <<peer, established>>

Init == peer = Attempt /\ established = {}

\* The first answer decides.
Meet(x) ==
  /\ peer = Attempt /\ peer' = x
  /\ UNCHANGED established

\* ConEvt::Connected at the client.
ClientEstablished ==
  /\ peer \in Servers
  /\ established = {} /\ established' = {Client}
  /\ UNCHANGED peer

\* ConEvt::Connected at the server.
ServerEstablished ==
  /\ established = {Client} /\ established' = {Client, peer}
  /\ UNCHANGED peer

Next == (\E x \in Servers : Meet(x)) \/ ClientEstablished \/ ServerEstablished

Spec == Init /\ [][Next]_vars
=============================================================================
