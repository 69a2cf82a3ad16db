---------------------------- MODULE MCH3Inbound -----------------------------
(***************************************************************************)
(* H3Inbound with one plain stream and one that may have trailers: three   *)
(* frames are headers and a body in two pieces, or headers, a body and     *)
(* trailers.  With one event permit every message waits for the one before. *)
(***************************************************************************)
EXTENDS H3Inbound, TLC
=============================================================================
