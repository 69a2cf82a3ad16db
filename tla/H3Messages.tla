----------------------------- MODULE H3Messages -----------------------------
(***************************************************************************)
(* What ConEvt::Http3 promises the application (absquic_core/src/con.rs    *)
(* 57-76): "an incoming http3 request or response" with the headers and    *)
(* the body "associated with this message".  A message is a HEADERS frame  *)
(* of its stream with all the data up to the next one or the end of the    *)
(* stream; it is handed over once, and only when the peer has ended the    *)
(* stream.  Without trailers that is the one message of the stream.        *)
(***************************************************************************)
EXTENDS Naturals, Sequences

CONSTANTS Streams, TrailerStreams

VARIABLES
  frames,   \* what the peer sent on each stream: a sequence of frame kinds
  end,      \* whether the stream is open, finished or reset
  handed,   \* the messages handed over, in order
  ended     \* the connection's task has returned

vars == <<frames, end, handed, ended>>

\* The numbers from a to b, in order.
Run(a, b) == [i \in 1..(b - a + 1) |-> a + i - 1]

\* Frame h of s has headers, and the frames after it, up to last, their body.
Section(s, h, last) ==
  /\ frames[s][h] = "headers" /\ h <= last
  /\ \A i \in (h + 1)..last : frames[s][i] = "data"
  /\ last < Len(frames[s]) => frames[s][last + 1] = "headers"

\* The message with the headers of frame h was handed over; any message was.
Handed(s, h) == \E i \in 1..Len(handed) : handed[i].stream = s /\ handed[i].headers = h
HandedAny(s) == \E i \in 1..Len(handed) : handed[i].stream = s

Init ==
  /\ frames = [s \in Streams |-> <<>>]
  /\ end = [s \in Streams |-> "open"]
  /\ handed = <<>>
  /\ ended = FALSE

\* The peer goes on with a stream: headers, data, and trailers where it may.
Write(s) ==
  /\ end[s] = "open"
  /\ \E f \in {"headers", "data"} :
       /\ f = "headers" => frames[s] = <<>> \/ s \in TrailerStreams
       /\ f = "data" => frames[s] # <<>>
       /\ frames' = [frames EXCEPT ![s] = Append(@, f)]
  /\ UNCHANGED <<end, handed, ended>>

Finish(s) ==
  /\ end[s] = "open" /\ frames[s] # <<>>
  /\ end' = [end EXCEPT ![s] = "fin"]
  /\ UNCHANGED <<frames, handed, ended>>

Reset(s) ==
  /\ end[s] # "reset" /\ ~HandedAny(s)
  /\ end' = [end EXCEPT ![s] = "reset"]
  /\ UNCHANGED <<frames, handed, ended>>

HandOver(s) ==
  /\ ~ended /\ end[s] = "fin"
  /\ \E h, last \in 1..Len(frames[s]) :
       /\ Section(s, h, last) /\ ~Handed(s, h)
       /\ handed' = Append(handed, [stream |-> s, headers |-> h, body |-> Run(h + 1, last)])
  /\ UNCHANGED <<frames, end, ended>>

End ==
  /\ ~ended /\ ended' = TRUE
  /\ UNCHANGED <<frames, end, handed>>

Next ==
  \/ \E s \in Streams : Write(s) \/ Finish(s) \/ Reset(s) \/ HandOver(s)
  \/ End

Spec == Init /\ [][Next]_vars
=============================================================================
