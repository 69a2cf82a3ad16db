------------------------------- MODULE ConApi -------------------------------
(***************************************************************************)
(* What the Con trait and its event receiver promise an application        *)
(* (absquic_core/src/con.rs 69-157), whoever implements them: Connected    *)
(* comes once and first, nothing comes after the end, at most EvtLimit     *)
(* events wait, and each http3() call is answered at most once, with an    *)
(* error only for a reason the application can know of.                    *)
(***************************************************************************)
EXTENDS Naturals, Sequences

CONSTANTS Calls, Refs, EvtLimit

VARIABLES
  ended,      \* the connection is gone
  connected,  \* it has been established
  evts,       \* events the application has not received
  listening,  \* the application holds its event receiver
  call,       \* idle, pending, answered with an error, or cancelled
  ref         \* the stream a call responds to, or that it is a request

vars == <<ended, connected, evts, listening, call, ref>>

Request == "request"

Init ==
  /\ ended = FALSE /\ connected = FALSE
  /\ evts = <<>> /\ listening = TRUE
  /\ call = [c \in Calls |-> "idle"] /\ ref = [c \in Calls |-> Request]

\* http3().
Begin(c) ==
  /\ call[c] = "idle" /\ call' = [call EXCEPT ![c] = "pending"]
  /\ \E r \in Refs \cup {Request} : ref' = [ref EXCEPT ![c] = r]
  /\ UNCHANGED <<ended, connected, evts, listening>>

Cancel(c) ==
  /\ call[c] = "pending" /\ call' = [call EXCEPT ![c] = "cancelled"]
  /\ UNCHANGED <<ended, connected, evts, listening, ref>>

\* Some pending calls get this answer.
Answer(S, result) ==
  /\ \A c \in S : call[c] = "pending"
  /\ call' = [c \in Calls |-> IF c \in S THEN result ELSE call[c]]

\* On a connection that lives, a call can only lose against a later response for
\* the same stream.
Replace(c) ==
  /\ ~ended /\ call[c] \in {"pending", "cancelled"} /\ ref[c] \in Refs
  /\ \E S \in SUBSET {d \in Calls \ {c} : ref[d] = ref[c]} : Answer(S, "ConShutdown")
  /\ UNCHANGED <<ended, connected, evts, listening, ref>>

Refuse(c) ==
  /\ ended /\ Answer({c}, "ChannelClosed")
  /\ UNCHANGED <<ended, connected, evts, listening, ref>>

End ==
  /\ ~ended /\ ended' = TRUE
  /\ \E S \in SUBSET Calls : Answer(S, "ConShutdown")
  /\ UNCHANGED <<connected, evts, listening, ref>>

Emit(evt) ==
  /\ ~ended /\ Len(evts) < EvtLimit
  /\ evts' = IF listening THEN Append(evts, evt) ELSE evts
  /\ UNCHANGED <<ended, listening, call, ref>>

Connect ==
  /\ ~connected /\ connected' = TRUE
  /\ Emit("Connected")

Message ==
  /\ connected /\ listening /\ UNCHANGED connected
  /\ Emit("Http3")

Receive ==
  /\ listening /\ evts # <<>> /\ evts' = Tail(evts)
  /\ UNCHANGED <<ended, connected, listening, call, ref>>

Unlisten ==
  /\ listening /\ listening' = FALSE /\ evts' = <<>>
  /\ UNCHANGED <<ended, connected, call, ref>>

Next ==
  \/ \E c \in Calls : Begin(c) \/ Cancel(c) \/ Replace(c) \/ Refuse(c)
  \/ End \/ Connect \/ Message \/ Receive \/ Unlisten

Spec == Init /\ [][Next]_vars
=============================================================================
