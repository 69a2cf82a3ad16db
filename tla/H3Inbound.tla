----------------------------- MODULE H3Inbound ------------------------------
(***************************************************************************)
(* How con_task puts inbound http3 messages together (absquic_quiche       *)
(* src/con.rs 134-137, 266-376): the poll loop of ConTask, with the        *)
(* streams, their frames and the map h3_inbound that ConTask abstracts to  *)
(* "absorbed" or "delivered".                                              *)
(*                                                                         *)
(* A stream is the sequence of frame kinds that arrived on it; a frame is  *)
(* known by its number, so a message is a record of numbers.  quiche::h3   *)
(* is external: which stream a poll reports is its choice.                 *)
(*                                                                         *)
(* A definition X_Bug that stands before X is X with a plausible bug.      *)
(***************************************************************************)
EXTENDS Naturals, Sequences

CONSTANTS
  Streams,         \* the streams of the connection
  TrailerStreams,  \* the streams on which the peer may send trailers
  EvtLimit,        \* permits of the event channel (64 in the code)
  MaxFrames        \* bound: frames on a stream

ASSUME StreamsAssumption == TrailerStreams \subseteq Streams
ASSUME LimitsAssumption == EvtLimit \in Nat \ {0} /\ MaxFrames \in Nat

VARIABLES
  pc,         \* con_task: waiting for a command, taking packets in, polling, done
  frames,     \* the frames that arrived on each stream
  end,        \* the stream is open, finished or reset
  read,       \* how many of its frames con_task has read
  reported,   \* quiche has reported Finished or Reset
  inbound,    \* h3_inbound
  handed,     \* every message sent to the event channel, in order
  taken,      \* how many of them the application has received
  recvAlive   \* the application holds its QuicheConRecv

peerVars == <<frames, end>>
pollVars == <<read, reported, inbound, handed>>
vars     == <<pc, peerVars, pollVars, taken, recvAlive>>

Plain == Streams \ TrailerStreams

NoEntry == [headers |-> 0, body |-> <<>>]
Entry   == [headers : Nat, body : Seq(Nat)]
Msg     == [stream : Streams, headers : Nat, body : Seq(Nat)]

TypeOK ==
  /\ pc \in {"recv", "pak", "h3", "done"}
  /\ frames \in [Streams -> Seq({"headers", "data"})]
  /\ end \in [Streams -> {"open", "fin", "reset"}]
  /\ read \in [Streams -> Nat] /\ reported \in [Streams -> BOOLEAN]
  /\ inbound \in [Streams -> Entry]
  /\ handed \in Seq(Msg) /\ taken \in 0..Len(handed)
  /\ Len(handed) - taken <= EvtLimit
  /\ recvAlive \in BOOLEAN

\* The numbers from a to b, in order.
Run(a, b) == [i \in 1..(b - a + 1) |-> a + i - 1]

\* Does not wait for a permit.
CanHoldEvt_NoWait == TRUE

\* The event channel has a permit, or con_task already holds it.
CanHoldEvt == Len(handed) - taken < EvtLimit

Init ==
  /\ pc = "recv"
  /\ frames = [s \in Streams |-> <<>>] /\ end = [s \in Streams |-> "open"]
  /\ read = [s \in Streams |-> 0] /\ reported = [s \in Streams |-> FALSE]
  /\ inbound = [s \in Streams |-> NoEntry]
  /\ handed = <<>> /\ taken = 0 /\ recvAlive = TRUE

-----------------------------------------------------------------------------
(* con.recv(): what packets do to the streams.                             *)

Arrival == pc \in {"recv", "pak"} /\ pc' = "pak" /\ UNCHANGED <<pollVars, taken, recvAlive>>

\* Headers come first; a second HEADERS frame, after some data, is the trailers
\* and the last.
ArriveFrame(s) ==
  /\ Arrival
  /\ end[s] = "open" /\ Len(frames[s]) < MaxFrames
  /\ \E f \in {"headers", "data"} :
       /\ f = "headers" => frames[s] = <<>> \/ s \in TrailerStreams
       /\ f = "data" => frames[s] # <<>>
       /\ \A i \in 2..Len(frames[s]) : frames[s][i] = "data"
       /\ frames' = [frames EXCEPT ![s] = Append(@, f)]
  /\ UNCHANGED end

ArriveFin(s) ==
  /\ Arrival
  /\ end[s] = "open" /\ frames[s] # <<>>
  /\ end' = [end EXCEPT ![s] = "fin"]
  /\ UNCHANGED frames

\* A reset throws away what was not read, a fin included.
ArriveReset(s) ==
  /\ Arrival
  /\ end[s] # "reset" /\ ~reported[s]
  /\ end' = [end EXCEPT ![s] = "reset"]
  /\ UNCHANGED frames

-----------------------------------------------------------------------------
(* The poll loop.                                                          *)

EnterLoop ==
  /\ pc = "pak" /\ CanHoldEvt /\ pc' = "h3"
  /\ UNCHANGED <<peerVars, pollVars, taken, recvAlive>>

Poll == pc = "h3" /\ CanHoldEvt /\ UNCHANGED <<peerVars, taken, recvAlive>>

\* There is an unread frame, and it is of this kind.
NextIs(s, kind) ==
  end[s] # "reset" /\ read[s] < Len(frames[s]) /\ frames[s][read[s] + 1] = kind

AllRead(s) == end[s] = "fin" /\ read[s] = Len(frames[s])

\* con_evt_send.send(Http3); without a receiver con_task returns.
Send(s, entry) ==
  IF recvAlive
  THEN /\ handed' = Append(handed, [stream |-> s, headers |-> entry.headers, body |-> entry.body])
       /\ UNCHANGED pc
  ELSE pc' = "done" /\ UNCHANGED handed

\* Whether a body has begun to arrive.
HasBody_OnlyIfSeen(s) == read[s] + 1 < Len(frames[s])

\* quiche's has_body: the stream does not end with these headers.
HasBody(s) == ~(end[s] = "fin" /\ read[s] + 1 = Len(frames[s]))

\* Event::Headers with has_body: an entry, in place of any the stream had.
PollHeaders(s) ==
  /\ Poll
  /\ NextIs(s, "headers")
  /\ read' = [read EXCEPT ![s] = @ + 1]
  /\ LET entry == [headers |-> read[s] + 1, body |-> <<>>] IN
     IF HasBody(s)
        THEN inbound' = [inbound EXCEPT ![s] = entry] /\ UNCHANGED <<pc, handed>>
        ELSE Send(s, entry) /\ UNCHANGED inbound
  /\ UNCHANGED reported

\* The body is what was read last.
WithBody_Replaces(entry, chunks) ==
  IF entry = NoEntry THEN NoEntry ELSE [entry EXCEPT !.body = chunks]

\* item.body.push, if the stream has an entry.
WithBody(entry, chunks) ==
  IF entry = NoEntry THEN NoEntry ELSE [entry EXCEPT !.body = @ \o chunks]

\* Event::Data: recv_body until Done reads up to the next HEADERS frame.
PollData(s) ==
  /\ Poll
  /\ NextIs(s, "data")
  /\ \E last \in (read[s] + 1)..Len(frames[s]) :
       /\ \A i \in (read[s] + 1)..last : frames[s][i] = "data"
       /\ last < Len(frames[s]) => frames[s][last + 1] # "data"
       /\ read' = [read EXCEPT ![s] = last]
       /\ inbound' = [inbound EXCEPT ![s] = WithBody(@, Run(read[s] + 1, last))]
  /\ UNCHANGED <<pc, reported, handed>>

Report(s) ==
  /\ Poll
  /\ ~reported[s] /\ reported' = [reported EXCEPT ![s] = TRUE]
  /\ UNCHANGED read

\* get() where the code has remove().
Removed_Stays(s) == inbound

Removed(s) == [inbound EXCEPT ![s] = NoEntry]

\* Looks at the body to see whether there is a message.
Complete_IfBody(entry) == entry.body # <<>>

Complete(entry) == entry # NoEntry

\* Event::Finished: the entry, if there is one, is the message.
PollFinished(s) ==
  /\ Report(s)
  /\ AllRead(s)
  /\ inbound' = Removed(s)
  /\ IF Complete(inbound[s]) THEN Send(s, inbound[s]) ELSE UNCHANGED <<pc, handed>>

\* Event::Reset: the entry is forgotten.
PollReset(s) ==
  /\ Report(s)
  /\ end[s] = "reset"
  /\ inbound' = Removed(s)
  /\ UNCHANGED <<pc, handed>>

Quiet(s) ==
  /\ ~NextIs(s, "headers") /\ ~NextIs(s, "data")
  /\ reported[s] \/ (~AllRead(s) /\ end[s] # "reset")

\* Error::Done: quiche has nothing more to report.
PollDone ==
  /\ Poll
  /\ \A s \in Streams : Quiet(s)
  /\ pc' = "recv"
  /\ UNCHANGED pollVars

\* GoAway, or an error of poll, recv_body or recv_dgram; a reset that recv_body
\* meets in the middle of a body is one.
PollError ==
  /\ Poll
  /\ pc' = "done"
  /\ UNCHANGED pollVars

ConTaskStep ==
  \/ EnterLoop \/ PollDone \/ PollError
  \/ \E s \in Streams : PollHeaders(s) \/ PollData(s) \/ PollFinished(s) \/ PollReset(s)

-----------------------------------------------------------------------------
AppRecv ==
  /\ recvAlive /\ taken < Len(handed) /\ taken' = taken + 1
  /\ UNCHANGED <<pc, peerVars, pollVars, recvAlive>>

\* Dropping the receiver drops what it did not take.
AppDropRecv ==
  /\ recvAlive /\ recvAlive' = FALSE /\ taken' = Len(handed)
  /\ UNCHANGED <<pc, peerVars, pollVars>>

Next ==
  \/ ConTaskStep
  \/ \E s \in Streams : ArriveFrame(s) \/ ArriveFin(s) \/ ArriveReset(s)
  \/ AppRecv \/ AppDropRecv

Spec == Init /\ [][Next]_vars

\* The runtime polls con_task; the application keeps receiving.
Fairness == WF_vars(ConTaskStep) /\ WF_vars(AppRecv)

FairSpec == Spec /\ Fairness
-----------------------------------------------------------------------------
(* Properties.                                                             *)

\* The entry of a message in progress has its headers and every chunk of its
\* body read so far, whatever other streams do, in whatever pieces the body
\* arrives, and also when trailers were read after it (con.rs:285, 327-343).
EntriesCurrent ==
  \A s \in Streams : inbound[s] # NoEntry =>
    LET h == inbound[s].headers IN
    \E last \in {read[s] - 1, read[s]} :
      /\ h \in 1..last /\ frames[s][h] = "headers"
      /\ \A i \in (h + 1)..read[s] : frames[s][i] = "headers" <=> i > last
      /\ inbound[s].body = Run(h + 1, last)

\* No entry outlives its stream: after quiche's last report about a stream
\* h3_inbound has nothing for it, trailers or not (con.rs:306, 324).
NoStaleEntry == \A s \in Streams : reported[s] => inbound[s] = NoEntry

\* A finished stream's message reaches the event channel, with or without a
\* body and however slowly the application receives, unless con_task ends or the
\* peer resets the stream after all (con.rs:288-321).
FinishedIsHanded ==
  \A s \in Streams :
    end[s] = "fin" ~> \/ \E i \in 1..Len(handed) : handed[i].stream = s
                      \/ end[s] = "reset" \/ pc = "done"

Messages == INSTANCE H3Messages WITH ended <- (pc = "done")

\* Whatever the application is handed has the headers of one HEADERS frame and
\* all the data that belongs to it in order, once, after the end of its stream,
\* and nothing comes of a stream that was reset; a message of a stream without
\* trailers is the whole stream (con.rs:280-346).
ImplementsMessages == Messages!Spec

\* "Headers associated with this message", "Body (if any) associated with this
\* message" (absquic_core/src/con.rs:60,63), for every stream: what is handed
\* over is a whole message of its stream.
EveryMessageWhole ==
  \A i \in 1..Len(handed) :
    LET m == handed[i] IN
    /\ m.headers = 1
    /\ \A j \in 1..Len(frames[m.stream]) :
         frames[m.stream][j] = "data" => \E k \in 1..Len(m.body) : m.body[k] = j
=============================================================================
