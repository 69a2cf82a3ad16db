---------------------------- MODULE MCHandshake -----------------------------
(***************************************************************************)
(* Handshake with two ids for the server, so that a repeated Initial makes *)
(* a second connection, one packet lost and one repeated by the network.   *)
(***************************************************************************)
EXTENDS Handshake, TLC
=============================================================================
