-------------------------- MODULE H3InboundProofs --------------------------
(***************************************************************************)
(* Proofs about the assembly of inbound http3 messages, for any streams,   *)
(* with and without trailers, any number of frames and any event limit:    *)
(* the invariants, and that con_task implements H3Messages.                *)
(***************************************************************************)
EXTENDS H3Inbound, PermitLemmas

\* Frame h of s has headers, and the frames after it, up to last, are their body
\* (con.rs:280-346).
Section(s, h, last) ==
  /\ h \in 1..last /\ last <= Len(frames[s]) /\ frames[s][h] = "headers"
  /\ \A i \in (h + 1)..last : frames[s][i] = "data"
  /\ last < Len(frames[s]) => frames[s][last + 1] = "headers"

EntryCurrent(s) ==
  inbound[s] # NoEntry =>
    LET h == inbound[s].headers IN
    \E last \in {read[s] - 1, read[s]} :
      /\ h \in 1..last /\ frames[s][h] = "headers"
      /\ \A i \in (h + 1)..read[s] : frames[s][i] = "headers" <=> i > last
      /\ inbound[s].body = Run(h + 1, last)

\* What holds of a stream's state: con_task never reads beyond what arrived; only
\* the first frame and the trailers, which are the last one, are HEADERS; what
\* quiche has reported the end of has nothing unread and no entry.
StreamSound(s) ==
  /\ read[s] <= Len(frames[s])
  /\ \A i \in 2..Len(frames[s]) :
       frames[s][i] = "headers" => i = Len(frames[s]) /\ s \in TrailerStreams
  /\ reported[s] =>
       /\ end[s] = "reset" \/ (end[s] = "fin" /\ read[s] = Len(frames[s]))
       /\ inbound[s] = NoEntry
  /\ EntryCurrent(s)

StreamsSound == \A s \in Streams : StreamSound(s)

\* A message handed over is a section of its stream, which the peer had ended and
\* con_task has read to its end; what the stream's entry has are other headers;
\* and con_task is still polling if quiche has not reported the end yet, so that
\* no reset can come in between.
MessageSound(m) ==
  /\ end[m.stream] = "fin" /\ read[m.stream] = Len(frames[m.stream])
  /\ inbound[m.stream] # NoEntry => inbound[m.stream].headers # m.headers
  /\ reported[m.stream] \/ pc \in {"h3", "done"}
  /\ \E last \in Nat : Section(m.stream, m.headers, last) /\ m.body = Run(m.headers + 1, last)

MessagesSound == \A i \in 1..Len(handed) : MessageSound(handed[i])

\* No headers are handed over twice.
HandedOnce ==
  \A i, j \in 1..Len(handed) :
    handed[i].stream = handed[j].stream /\ handed[i].headers = handed[j].headers => i = j

IInv == TypeOK /\ StreamsSound /\ MessagesSound /\ HandedOnce

-----------------------------------------------------------------------------
(* Runs of frame numbers.                                                  *)

\* A run is a sequence of as many numbers as it has.
LEMMA RunSeq ==
  ASSUME NEW a \in Nat, NEW b \in Nat, a <= b + 1
  PROVE  /\ Run(a, b) \in Seq(Nat) /\ Len(Run(a, b)) = b - a + 1
         /\ \A i \in 1..(b - a + 1) : Run(a, b)[i] = a + i - 1
<1>. DEFINE n == b - a + 1
<1>1. n \in Nat
  OBVIOUS
<1>2. Run(a, b) \in [1..n -> Nat] /\ \A i \in 1..n : Run(a, b)[i] = a + i - 1
  BY DEF Run
<1>. HIDE DEF n
<1>3. Run(a, b) \in Seq(Nat)
  BY <1>1, <1>2, SeqDef
<1>4. DOMAIN Run(a, b) = 1..n /\ DOMAIN Run(a, b) = 1..Len(Run(a, b)) /\ Len(Run(a, b)) \in Nat
  BY <1>2, <1>3, LenProperties
<1>5. Len(Run(a, b)) = n
  BY <1>1, <1>4
<1>. QED  BY <1>2, <1>3, <1>5 DEF n

\* A body that goes on where it stopped is one run.
LEMMA RunOn ==
  ASSUME NEW a \in Nat, NEW b \in Nat, NEW c \in Nat, a <= b + 1, b <= c
  PROVE  Run(a, b) \o Run(b + 1, c) = Run(a, c)
<1>. DEFINE u == Run(a, b)
            v == Run(b + 1, c)
            w == Run(a, c)
<1>1. /\ u \in Seq(Nat) /\ Len(u) = b - a + 1
      /\ \A i \in 1..(b - a + 1) : u[i] = a + i - 1
  BY RunSeq
<1>2. /\ v \in Seq(Nat) /\ Len(v) = c - b
      /\ \A i \in 1..(c - b) : v[i] = b + i
  <2>1. b + 1 \in Nat /\ b + 1 <= c + 1
    OBVIOUS
  <2>2. /\ v \in Seq(Nat) /\ Len(v) = c - (b + 1) + 1
        /\ \A i \in 1..(c - (b + 1) + 1) : v[i] = b + 1 + i - 1
    BY <2>1, RunSeq, ZenonT(30)
  <2>. HIDE DEF v
  <2>3. c - (b + 1) + 1 = c - b /\ \A i \in 1..(c - b) : b + 1 + i - 1 = b + i
    OBVIOUS
  <2>. QED  BY <2>2, <2>3
<1>3. /\ w \in Seq(Nat) /\ Len(w) = c - a + 1
      /\ \A i \in 1..(c - a + 1) : w[i] = a + i - 1
  <2>1. a <= c + 1
    OBVIOUS
  <2>. QED  BY <2>1, RunSeq
<1>. HIDE DEF u, v, w
<1>4. /\ u \o v \in Seq(Nat) /\ Len(u \o v) = Len(u) + Len(v)
      /\ \A i \in 1..(Len(u) + Len(v)) : (u \o v)[i] = IF i <= Len(u) THEN u[i] ELSE v[i - Len(u)]
  BY <1>1, <1>2, ConcatProperties, ZenonT(30)
<1>5. Len(u \o v) = Len(w)
  BY <1>1, <1>2, <1>3, <1>4
<1>6. ASSUME NEW i \in 1..Len(u \o v) PROVE (u \o v)[i] = w[i]
  <2>1. CASE i <= Len(u)
    BY <1>1, <1>2, <1>3, <1>4, <2>1
  <2>2. CASE ~(i <= Len(u))
    <3>1. i - Len(u) \in 1..(c - b) /\ (u \o v)[i] = v[i - Len(u)]
      BY <1>1, <1>2, <1>4, <2>2, SMTT(30)
    <3>2. v[i - Len(u)] = a + i - 1
      BY <1>1, <1>2, <3>1
    <3>. QED  BY <1>1, <1>2, <1>3, <1>4, <3>1, <3>2
  <2>. QED  BY <2>1, <2>2
<1>7. u \o v = w
  BY <1>3, <1>4, <1>5, <1>6, SeqEqual
<1>. QED  BY <1>7 DEF u, v, w

-----------------------------------------------------------------------------
(* The parts of the state.                                                 *)

\* Types of a stream's state, and of the messages, without the Boolean parts.
LEMMA StreamTypes ==
  ASSUME TypeOK
  PROVE  /\ \A s \in Streams :
              /\ frames[s] \in Seq({"headers", "data"}) /\ Len(frames[s]) \in Nat
              /\ read[s] \in Nat /\ inbound[s] \in Entry
              /\ end[s] \in {"open", "fin", "reset"}
         /\ handed \in Seq(Msg) /\ Len(handed) \in Nat /\ taken \in 0..Len(handed)
         /\ Len(handed) - taken <= EvtLimit
         /\ \A i \in 1..Len(handed) : handed[i] \in Msg /\ handed[i].stream \in Streams
<1>1. \A s \in Streams : Len(frames[s]) \in Nat
  BY LenProperties DEF TypeOK
<1>2. Len(handed) \in Nat /\ \A i \in 1..Len(handed) : handed[i] \in Msg
  BY LenProperties, ElementOfSeq DEF TypeOK
<1>3. \A m \in Msg : m.stream \in Streams
  BY DEF Msg
<1>. QED  BY <1>1, <1>2, <1>3 DEF TypeOK

\* The absent entry is typed like one.
LEMMA Absent == NoEntry \in Entry
<1>1. <<>> \in Seq(Nat)
  BY EmptySeq
<1>. QED  BY <1>1 DEF NoEntry, Entry

\* Pushing pieces to the body of a typed entry.
LEMMA BodyPushed ==
  ASSUME NEW entry \in Entry, NEW c \in Seq(Nat), entry # NoEntry
  PROVE  /\ WithBody(entry, c) \in Entry
         /\ WithBody(entry, c).headers = entry.headers
         /\ WithBody(entry, c).body = entry.body \o c
<1>1. entry.body \o c \in Seq(Nat)
  BY ConcatProperties DEF Entry
<1>. QED  BY <1>1 DEF WithBody, Entry

\* A stream of which quiche reports a frame has not been reported as ended.
LEMMA UnreadIsUnreported ==
  ASSUME IInv, NEW s \in Streams, NEW kind, NextIs(s, kind)
  PROVE  /\ ~reported[s] /\ end[s] # "reset" /\ read[s] < Len(frames[s])
         /\ read[s] + 1 \in 1..Len(frames[s]) /\ frames[s][read[s] + 1] = kind
<1>1. end[s] # "reset" /\ read[s] < Len(frames[s]) /\ frames[s][read[s] + 1] = kind
  BY DEF NextIs
<1>2. read[s] \in Nat /\ Len(frames[s]) \in Nat
  BY StreamTypes DEF IInv
<1>3. read[s] # Len(frames[s]) /\ read[s] + 1 \in 1..Len(frames[s])
  BY <1>1, <1>2
<1>4. ~reported[s]
  BY <1>1, <1>3 DEF IInv, StreamsSound, StreamSound
<1>. QED  BY <1>1, <1>3, <1>4

\* A stream that goes on, or is reset, has nothing handed over yet.
LEMMA NotHanded ==
  ASSUME IInv, NEW s \in Streams,
         \/ end[s] # "fin"
         \/ read[s] # Len(frames[s])
         \/ ~reported[s] /\ pc \notin {"h3", "done"}
  PROVE  \A i \in 1..Len(handed) : handed[i].stream # s
BY DEF IInv, MessagesSound, MessageSound

\* A step about one stream leaves the others as they were.
Others(s) ==
  \A d \in Streams : d # s =>
    /\ frames'[d] = frames[d] /\ end'[d] = end[d] /\ read'[d] = read[d]
    /\ reported'[d] = reported[d] /\ inbound'[d] = inbound[d]

LEMMA OthersSound ==
  ASSUME IInv, NEW s \in Streams, Others(s), StreamSound(s)'
  PROVE  StreamsSound'
<1>1. SUFFICES ASSUME NEW d \in Streams, d # s PROVE StreamSound(d)'
  BY DEF StreamsSound
<1>2. StreamSound(d)
  BY DEF IInv, StreamsSound
<1>3. /\ frames'[d] = frames[d] /\ end'[d] = end[d] /\ read'[d] = read[d]
      /\ (reported'[d] <=> reported[d]) /\ inbound'[d] = inbound[d]
  BY <1>1, Zenon DEF Others
<1>. QED  BY <1>2, <1>3 DEF StreamSound, EntryCurrent

\* A message stays sound in a step that leaves its stream alone, or only forgets
\* the stream's entry and reports its end, unless con_task stops polling before
\* that.
LEMMA MessageKept ==
  ASSUME NEW m, MessageSound(m),
         /\ frames'[m.stream] = frames[m.stream] /\ end'[m.stream] = end[m.stream]
         /\ read'[m.stream] = read[m.stream]
         /\ inbound'[m.stream] \in {inbound[m.stream], NoEntry}
         /\ reported[m.stream] => reported'[m.stream],
         pc' \in {"h3", "done"} \/ reported'[m.stream]
  PROVE  MessageSound(m)'
<1>1. \E last \in Nat : Section(m.stream, m.headers, last)' /\ m.body = Run(m.headers + 1, last)
  BY DEF MessageSound, Section
<1>2. inbound'[m.stream] # NoEntry => inbound'[m.stream].headers # m.headers
  BY DEF MessageSound
<1>. QED  BY <1>1, <1>2 DEF MessageSound

\* The same of all messages, in a step about one stream that hands nothing over:
\* from packets only what has no message yet changes.
LEMMA KeepMessages ==
  ASSUME IInv, NEW s \in Streams, Others(s), handed' = handed,
         (\E i \in 1..Len(handed) : handed[i].stream = s) =>
           /\ frames'[s] = frames[s] /\ end'[s] = end[s] /\ read'[s] = read[s]
           /\ inbound'[s] \in {inbound[s], NoEntry}
           /\ reported[s] => reported'[s],
         pc' \in {"h3", "done"} \/ (pc \notin {"h3", "done"} /\ reported' = reported)
  PROVE  MessagesSound' /\ HandedOnce'
<1>1. HandedOnce'
  BY DEF IInv, HandedOnce
<1>2. ASSUME NEW i \in 1..Len(handed) PROVE MessageSound(handed[i])'
  <2>. DEFINE m == handed[i]
  <2>1. MessageSound(m) /\ m.stream \in Streams
    BY StreamTypes DEF IInv, MessagesSound
  <2>2. /\ frames'[m.stream] = frames[m.stream] /\ end'[m.stream] = end[m.stream]
        /\ read'[m.stream] = read[m.stream]
        /\ inbound'[m.stream] \in {inbound[m.stream], NoEntry}
        /\ reported[m.stream] => reported'[m.stream]
    <3>1. CASE m.stream = s
      BY <3>1
    <3>2. CASE m.stream # s
      BY <2>1, <3>2 DEF Others
    <3>. QED  BY <3>1, <3>2
  <2>3. pc' \in {"h3", "done"} \/ reported'[m.stream]
    BY <2>1 DEF MessageSound
  <2>4. m' = m
    OBVIOUS
  <2>. HIDE DEF m
  <2>5. MessageSound(m)'
    BY <2>1, <2>2, <2>3, <2>4, MessageKept
  <2>. QED  BY <2>5 DEF m
<1>. QED  BY <1>1, <1>2 DEF MessagesSound

\* What con_task hands over keeps the messages sound, when it is a section of a
\* stream that is over, with headers that were not handed over and that no entry
\* has any more.
LEMMA HandOver ==
  ASSUME IInv, NEW s \in Streams, NEW entry \in Entry, NEW last \in Nat,
         CanHoldEvt, pc = "h3", Send(s, entry), Others(s),
         UNCHANGED <<taken, frames, end>>,
         Section(s, entry.headers, last), entry.body = Run(entry.headers + 1, last),
         end[s] = "fin", read'[s] = Len(frames[s]),
         inbound'[s] \in {inbound[s], NoEntry},
         inbound'[s] # NoEntry => inbound'[s].headers # entry.headers,
         reported[s] => reported'[s],
         \A i \in 1..Len(handed) : handed[i].stream = s => handed[i].headers # entry.headers
  PROVE  /\ pc' \in {"h3", "done"}
         /\ handed' \in Seq(Msg) /\ taken' \in 0..Len(handed')
         /\ Len(handed') - taken' <= EvtLimit
         /\ MessagesSound' /\ HandedOnce'
<1>0. TypeOK /\ MessagesSound /\ HandedOnce
  BY DEF IInv
<1>1. /\ handed \in Seq(Msg) /\ Len(handed) \in Nat /\ taken \in 0..Len(handed)
      /\ Len(handed) - taken < EvtLimit /\ EvtLimit \in Nat
      /\ \A i \in 1..Len(handed) : handed[i].stream \in Streams
  BY <1>0, StreamTypes, LimitsAssumption DEF CanHoldEvt
<1>2. pc' \in {"h3", "done"}
  BY DEF Send
<1>3. ASSUME NEW i \in 1..Len(handed), NEW m, m = handed[i], m' = m PROVE MessageSound(m)'
  <2>1. MessageSound(m) /\ m.stream \in Streams
    BY <1>0, <1>1, <1>3 DEF MessagesSound
  <2>2. /\ frames'[m.stream] = frames[m.stream] /\ end'[m.stream] = end[m.stream]
        /\ read'[m.stream] = read[m.stream]
        /\ inbound'[m.stream] \in {inbound[m.stream], NoEntry}
        /\ reported[m.stream] => reported'[m.stream]
    <3>1. CASE m.stream = s
      BY <2>1, <3>1 DEF MessageSound
    <3>2. CASE m.stream # s
      BY <2>1, <3>2 DEF Others
    <3>. QED  BY <3>1, <3>2
  <2>. QED  BY <1>2, <1>3, <2>1, <2>2, MessageKept
<1>4. CASE recvAlive
  <2>. DEFINE m == [stream |-> s, headers |-> entry.headers, body |-> entry.body]
  <2>1. m \in Msg /\ m.stream = s /\ m.headers = entry.headers /\ m.body = entry.body
    BY DEF Msg, Entry
  <2>2. handed' = Append(handed, m)
    BY <1>4 DEF Send
  <2>3. MessageSound(m)'
    <3>1. Section(s, entry.headers, last)'
      BY DEF Section
    <3>. QED  BY <1>2, <2>1, <3>1 DEF MessageSound
  <2>. HIDE DEF m
  <2>4. /\ handed' \in Seq(Msg) /\ Len(handed') = Len(handed) + 1 /\ handed'[Len(handed) + 1] = m
        /\ \A i \in 1..Len(handed) : handed'[i] = handed[i]
    BY <1>1, <2>1, <2>2, Push
  <2>5. taken' \in 0..Len(handed') /\ Len(handed') - taken' <= EvtLimit
    BY <1>1, <2>4
  <2>6. \A i \in 1..Len(handed') : i \in 1..Len(handed) \/ i = Len(handed) + 1
    BY <1>1, <2>4
  <2>7. MessagesSound'
    BY <1>3, <2>3, <2>4, <2>6 DEF MessagesSound
  <2>8. HandedOnce'
    <3>1. SUFFICES ASSUME NEW i \in 1..Len(handed'), NEW j \in 1..Len(handed'),
                          handed'[i].stream = handed'[j].stream,
                          handed'[i].headers = handed'[j].headers
                   PROVE  i = j
      BY DEF HandedOnce
    <3>2. CASE i \in 1..Len(handed) /\ j \in 1..Len(handed)
      BY <1>0, <2>4, <3>1, <3>2 DEF HandedOnce
    <3>3. CASE i = Len(handed) + 1 /\ j \in 1..Len(handed)
      BY <2>1, <2>4, <3>1, <3>3
    <3>4. CASE i \in 1..Len(handed) /\ j = Len(handed) + 1
      BY <2>1, <2>4, <3>1, <3>4
    <3>. QED  BY <2>6, <3>2, <3>3, <3>4
  <2>. QED  BY <1>2, <2>4, <2>5, <2>7, <2>8
<1>5. CASE ~recvAlive
  <2>1. handed' = handed
    BY <1>5 DEF Send
  <2>2. MessagesSound' /\ HandedOnce'
    BY <1>0, <1>3, <2>1 DEF MessagesSound, HandedOnce
  <2>. QED  BY <1>1, <1>2, <2>1, <2>2
<1>. QED  BY <1>4, <1>5

-----------------------------------------------------------------------------
(* One lemma per step.                                                     *)

LEMMA ArriveFrameKeeps ==
  ASSUME IInv, NEW s \in Streams, ArriveFrame(s)
  PROVE  IInv'
<1>1. PICK f \in {"headers", "data"} :
        /\ f = "headers" => frames[s] = <<>> \/ s \in TrailerStreams
        /\ \A i \in 2..Len(frames[s]) : frames[s][i] = "data"
        /\ frames' = [frames EXCEPT ![s] = Append(@, f)]
  BY DEF ArriveFrame
<1>2. /\ UNCHANGED <<end, pollVars, taken, recvAlive>> /\ pc' = "pak" /\ end[s] = "open"
      /\ pc \notin {"h3", "done"}
  BY DEF ArriveFrame, Arrival
<1>3. TypeOK /\ StreamSound(s)
  BY DEF IInv, StreamsSound
<1>4. /\ frames[s] \in Seq({"headers", "data"}) /\ Len(frames[s]) \in Nat
      /\ read[s] \in Nat /\ inbound[s] \in Entry
  BY <1>3, StreamTypes
<1>5. /\ frames' \in [Streams -> Seq({"headers", "data"})]
      /\ frames'[s] = Append(frames[s], f)
      /\ \A d \in Streams : d # s => frames'[d] = frames[d]
  <2>1. Append(frames[s], f) \in Seq({"headers", "data"})
    BY <1>4, AppendProperties
  <2>. QED  BY <1>1, <1>3, <2>1 DEF TypeOK
<1>6. TypeOK'
  BY <1>2, <1>3, <1>5 DEF TypeOK, pollVars
<1>7. /\ Len(frames'[s]) = Len(frames[s]) + 1 /\ frames'[s][Len(frames[s]) + 1] = f
      /\ \A i \in 1..Len(frames[s]) : frames'[s][i] = frames[s][i]
  BY <1>4, <1>5, AppendProperties
<1>8. ~reported[s]
  BY <1>2, <1>3 DEF StreamSound
<1>9. StreamSound(s)'
  <2>1. read[s] <= Len(frames[s]) /\ read[s] <= Len(frames'[s])
    BY <1>3, <1>4, <1>7 DEF StreamSound
  <2>2. ASSUME NEW i \in 2..Len(frames'[s]), frames'[s][i] = "headers"
        PROVE  i = Len(frames'[s]) /\ s \in TrailerStreams
    <3>1. CASE i \in 2..Len(frames[s])
      BY <1>1, <1>4, <1>7, <2>2, <3>1
    <3>2. CASE i = Len(frames[s]) + 1
      <4>1. frames[s] # <<>>
        BY <1>4, <2>2, <3>2, EmptySeq
      <4>. QED  BY <1>1, <1>7, <2>2, <3>2, <4>1
    <3>. QED  BY <1>4, <1>7, <2>2, <3>1, <3>2
  <2>3. \A i \in 1..read[s] : frames'[s][i] = frames[s][i]
    BY <1>4, <1>7, <2>1
  <2>4. EntryCurrent(s)'
    <3>1. SUFFICES ASSUME inbound[s] # NoEntry PROVE EntryCurrent(s)'
      BY <1>2 DEF EntryCurrent, pollVars
    <3>. DEFINE h == inbound[s].headers
    <3>2. h \in Nat
      BY <1>4 DEF Entry
    <3>3. PICK last \in {read[s] - 1, read[s]} :
            /\ h \in 1..last /\ frames[s][h] = "headers"
            /\ \A i \in (h + 1)..read[s] : frames[s][i] = "headers" <=> i > last
            /\ inbound[s].body = Run(h + 1, last)
      BY <1>3, <3>1 DEF StreamSound, EntryCurrent
    <3>. HIDE DEF h
    <3>4. \A i \in (h + 1)..read[s] : i \in 1..read[s]
      BY <1>4, <3>2
    <3>5. h \in 1..read[s]
      BY <1>4, <3>2, <3>3
    <3>6. frames'[s][h] = "headers" /\ \A i \in (h + 1)..read[s] : frames'[s][i] = "headers" <=> i > last
      BY <2>3, <3>3, <3>4, <3>5
    <3>. QED  BY <1>2, <3>3, <3>6 DEF EntryCurrent, pollVars, h
  <2>. QED  BY <1>2, <1>8, <2>1, <2>2, <2>4 DEF StreamSound, pollVars
<1>10. Others(s) /\ handed' = handed /\ reported' = reported
  BY <1>2, <1>5 DEF Others, pollVars
<1>11. StreamsSound'
  BY <1>9, <1>10, OthersSound
<1>12. \A i \in 1..Len(handed) : handed[i].stream # s
  BY <1>2, NotHanded
<1>13. MessagesSound' /\ HandedOnce'
  BY <1>2, <1>10, <1>12, KeepMessages
<1>. QED  BY <1>6, <1>11, <1>13 DEF IInv

\* A fin or a reset: only the stream's end changes.
LEMMA ArriveEndKeeps ==
  ASSUME IInv, NEW s \in Streams, ArriveFin(s) \/ ArriveReset(s)
  PROVE  IInv'
<1>1. PICK e \in {"fin", "reset"} : end' = [end EXCEPT ![s] = e]
  BY DEF ArriveFin, ArriveReset
<1>2. /\ UNCHANGED <<frames, pollVars, taken, recvAlive>> /\ pc' = "pak"
      /\ pc \notin {"h3", "done"}
  BY DEF ArriveFin, ArriveReset, Arrival
<1>3. TypeOK /\ StreamSound(s)
  BY DEF IInv, StreamsSound
<1>4. ~reported[s]
  BY <1>3 DEF ArriveFin, ArriveReset, StreamSound
<1>5. /\ end' \in [Streams -> {"open", "fin", "reset"}]
      /\ \A d \in Streams : d # s => end'[d] = end[d]
  BY <1>1, <1>3 DEF TypeOK
<1>6. TypeOK'
  BY <1>2, <1>3, <1>5 DEF TypeOK, pollVars
<1>7. StreamSound(s)'
  BY <1>2, <1>3, <1>4 DEF StreamSound, EntryCurrent, pollVars
<1>8. Others(s) /\ handed' = handed /\ reported' = reported
  BY <1>2, <1>5 DEF Others, pollVars
<1>9. StreamsSound'
  BY <1>7, <1>8, OthersSound
<1>10. \A i \in 1..Len(handed) : handed[i].stream # s
  BY <1>2, <1>4, NotHanded
<1>11. MessagesSound' /\ HandedOnce'
  BY <1>2, <1>8, <1>10, KeepMessages
<1>. QED  BY <1>6, <1>9, <1>11 DEF IInv

\* The entry of a stream on which quiche reports another frame has all that was
\* read: no trailers came yet.
LEMMA EntryBeforeFrame ==
  ASSUME IInv, NEW s \in Streams, NEW kind, NextIs(s, kind), inbound[s] # NoEntry
  PROVE  /\ inbound[s].headers \in 1..read[s]
         /\ frames[s][inbound[s].headers] = "headers"
         /\ \A i \in (inbound[s].headers + 1)..read[s] : frames[s][i] # "headers"
         /\ inbound[s].body = Run(inbound[s].headers + 1, read[s])
<1>. DEFINE h == inbound[s].headers
<1>1. StreamSound(s) /\ TypeOK
  BY DEF IInv, StreamsSound
<1>2. read[s] \in Nat /\ Len(frames[s]) \in Nat /\ h \in Nat /\ read[s] < Len(frames[s])
  BY <1>1, StreamTypes, UnreadIsUnreported DEF Entry
<1>3. PICK last \in {read[s] - 1, read[s]} :
        /\ h \in 1..last /\ frames[s][h] = "headers"
        /\ \A i \in (h + 1)..read[s] : frames[s][i] = "headers" <=> i > last
        /\ inbound[s].body = Run(h + 1, last)
  BY <1>1 DEF StreamSound, EntryCurrent
<1>. HIDE DEF h
<1>4. last = read[s]
  <2>1. SUFFICES ASSUME last = read[s] - 1 PROVE FALSE
    BY <1>3
  <2>2. read[s] \in (h + 1)..read[s] /\ read[s] > last /\ read[s] \in 2..Len(frames[s])
    BY <1>2, <1>3, <2>1
  <2>3. frames[s][read[s]] = "headers"
    BY <1>3, <2>2
  <2>4. read[s] = Len(frames[s])
    BY <1>1, <2>2, <2>3 DEF StreamSound
  <2>. QED  BY <1>2, <2>4
<1>5. \A i \in (h + 1)..read[s] : frames[s][i] # "headers"
  BY <1>2, <1>3, <1>4
<1>. QED  BY <1>3, <1>4, <1>5 DEF h

\* The effect of Event::Headers, as the invariant and the refinement need it: an
\* entry for the headers, or, if the stream ends with them, a message without body
\* beside whatever entry the stream has.
LEMMA PollHeadersEffect ==
  ASSUME IInv, NEW s \in Streams, PollHeaders(s)
  PROVE  /\ pc = "h3" /\ CanHoldEvt
         /\ UNCHANGED <<frames, end, taken, recvAlive, reported>>
         /\ read' \in [Streams -> Nat] /\ read'[s] = read[s] + 1 /\ Others(s)
         /\ \A i \in 1..Len(handed) : handed[i].stream # s
         /\ \E entry \in Entry :
              /\ entry.headers = read[s] + 1 /\ entry.body = <<>>
              /\ \/ /\ inbound' \in [Streams -> Entry] /\ inbound'[s] = entry
                    /\ UNCHANGED <<pc, handed>>
                 \/ /\ inbound' = inbound /\ Send(s, entry)
                    /\ end[s] = "fin" /\ read'[s] = Len(frames[s])
<1>. DEFINE entry == [headers |-> read[s] + 1, body |-> <<>>]
<1>1. /\ pc = "h3" /\ CanHoldEvt /\ UNCHANGED <<frames, end, taken, recvAlive, reported>>
      /\ NextIs(s, "headers") /\ read' = [read EXCEPT ![s] = @ + 1]
  BY DEF PollHeaders, Poll, peerVars
<1>2. IF HasBody(s)
         THEN inbound' = [inbound EXCEPT ![s] = entry] /\ UNCHANGED <<pc, handed>>
         ELSE Send(s, entry) /\ UNCHANGED inbound
  BY DEF PollHeaders
<1>3. TypeOK
  BY DEF IInv
<1>4. Len(frames[s]) \in Nat /\ read[s] \in Nat /\ read[s] < Len(frames[s])
  BY <1>1, <1>3, StreamTypes, UnreadIsUnreported
<1>5. /\ read' \in [Streams -> Nat] /\ read'[s] = read[s] + 1
      /\ \A d \in Streams : d # s => read'[d] = read[d]
  BY <1>1, <1>3, <1>4 DEF TypeOK
<1>6. entry \in Entry /\ entry.headers = read[s] + 1 /\ entry.body = <<>>
  <2>1. <<>> \in Seq(Nat) /\ read[s] + 1 \in Nat
    BY <1>4, EmptySeq
  <2>. QED  BY <2>1 DEF Entry
<1>7. \A i \in 1..Len(handed) : handed[i].stream # s
  <2>1. read[s] # Len(frames[s])
    BY <1>4
  <2>. QED  BY <2>1, NotHanded
<1>. HIDE DEF entry
<1>8. CASE HasBody(s)
  <2>1. /\ inbound' \in [Streams -> Entry] /\ inbound'[s] = entry
        /\ \A d \in Streams : d # s => inbound'[d] = inbound[d]
    BY <1>2, <1>3, <1>6, <1>8 DEF TypeOK
  <2>2. Others(s)
    BY <1>1, <1>5, <2>1 DEF Others
  <2>3. UNCHANGED <<pc, handed>>
    BY <1>2, <1>8
  <2>. QED  BY <1>1, <1>5, <1>6, <1>7, <2>1, <2>2, <2>3
<1>9. CASE ~HasBody(s)
  <2>1. Send(s, entry) /\ inbound' = inbound /\ end[s] = "fin" /\ read'[s] = Len(frames[s])
    BY <1>2, <1>5, <1>9 DEF HasBody
  <2>2. Others(s)
    BY <1>1, <1>5, <2>1 DEF Others
  <2>. QED  BY <1>1, <1>5, <1>6, <1>7, <2>1, <2>2
<1>. QED  BY <1>8, <1>9

\* A body of which nothing was read.
LEMMA RunEmpty ==
  ASSUME NEW a \in Nat
  PROVE  Run(a + 1, a) = <<>>
<1>1. a + 1 \in Nat /\ a + 1 <= a + 1
  OBVIOUS
<1>2. Run(a + 1, a) \in Seq(Nat) /\ Len(Run(a + 1, a)) = a - (a + 1) + 1
  BY <1>1, RunSeq
<1>3. Len(Run(a + 1, a)) = 0
  BY <1>2
<1>. QED  BY <1>2, <1>3, EmptySeq

LEMMA PollHeadersKeeps ==
  ASSUME IInv, NEW s \in Streams, PollHeaders(s)
  PROVE  IInv'
<1>1. /\ pc = "h3" /\ CanHoldEvt
      /\ UNCHANGED <<frames, end, taken, recvAlive, reported>>
      /\ read' \in [Streams -> Nat] /\ read'[s] = read[s] + 1 /\ Others(s)
      /\ \A i \in 1..Len(handed) : handed[i].stream # s
  BY PollHeadersEffect
<1>2. PICK entry \in Entry :
        /\ entry.headers = read[s] + 1 /\ entry.body = <<>>
        /\ \/ /\ inbound' \in [Streams -> Entry] /\ inbound'[s] = entry
              /\ UNCHANGED <<pc, handed>>
           \/ /\ inbound' = inbound /\ Send(s, entry)
              /\ end[s] = "fin" /\ read'[s] = Len(frames[s])
  BY PollHeadersEffect
<1>3. TypeOK /\ StreamSound(s) /\ NextIs(s, "headers")
  BY DEF IInv, StreamsSound, PollHeaders
<1>4. /\ ~reported[s] /\ end[s] # "reset" /\ read[s] < Len(frames[s])
      /\ frames[s][read[s] + 1] = "headers"
      /\ Len(frames[s]) \in Nat /\ read[s] \in Nat /\ inbound[s] \in Entry
  BY <1>3, StreamTypes, UnreadIsUnreported
<1>5. entry.body = Run(entry.headers + 1, entry.headers)
  BY <1>2, <1>4, RunEmpty
<1>6. EntryCurrent(s)'
  <2>1. CASE inbound'[s] = entry
    <3>. DEFINE h == entry.headers
                r == read'[s]
    <3>1. r = h /\ h \in 1..r /\ frames[s][h] = "headers" /\ (h + 1)..r = {}
      BY <1>1, <1>2, <1>4
    <3>2. r \in {r - 1, r}
      OBVIOUS
    <3>3. /\ h \in 1..r /\ frames[s][h] = "headers"
          /\ \A i \in (h + 1)..r : frames[s][i] = "headers" <=> i > r
          /\ entry.body = Run(h + 1, r)
      BY <1>5, <3>1
    <3>. QED  BY <1>1, <2>1, <3>2, <3>3 DEF EntryCurrent
  <2>2. CASE inbound' = inbound
    <3>1. SUFFICES ASSUME inbound[s] # NoEntry PROVE EntryCurrent(s)'
      BY <2>2 DEF EntryCurrent
    <3>. DEFINE h == inbound[s].headers
                r == read[s] + 1
    <3>2. /\ h \in 1..read[s] /\ frames[s][h] = "headers"
          /\ \A i \in (h + 1)..read[s] : frames[s][i] # "headers"
          /\ inbound[s].body = Run(h + 1, read[s])
      BY <1>3, <3>1, EntryBeforeFrame
    <3>3. h \in Nat
      BY <1>4 DEF Entry
    <3>. HIDE DEF h
    <3>4. \A i \in (h + 1)..r : frames[s][i] = "headers" <=> i > read[s]
      BY <1>4, <3>2, <3>3
    <3>5. read'[s] = r /\ read[s] = r - 1
      BY <1>1, <1>4
    <3>. QED  BY <1>1, <2>2, <3>2, <3>4, <3>5 DEF EntryCurrent, h
  <2>. QED  BY <1>2, <2>1, <2>2
<1>7. StreamSound(s)'
  <2>1. read'[s] <= Len(frames[s])
    BY <1>1, <1>4
  <2>. QED  BY <1>1, <1>3, <1>4, <1>6, <2>1 DEF StreamSound
<1>8. StreamsSound'
  BY <1>1, <1>7, OthersSound
<1>9. /\ pc' \in {"h3", "done"}
      /\ handed' \in Seq(Msg) /\ taken' \in 0..Len(handed')
      /\ Len(handed') - taken' <= EvtLimit
      /\ MessagesSound' /\ HandedOnce'
  <2>1. CASE UNCHANGED <<pc, handed>>
    <3>1. MessagesSound' /\ HandedOnce'
      BY <1>1, <2>1, KeepMessages
    <3>. QED  BY <1>1, <1>3, <2>1, <3>1 DEF TypeOK
  <2>2. CASE /\ inbound' = inbound /\ Send(s, entry)
             /\ end[s] = "fin" /\ read'[s] = Len(frames[s])
    <3>1. Section(s, entry.headers, entry.headers) /\ entry.headers \in Nat
      BY <1>1, <1>2, <1>4, <2>2 DEF Section
    <3>2. inbound[s] # NoEntry => inbound[s].headers # entry.headers
      <4>1. inbound[s] # NoEntry => inbound[s].headers \in 1..read[s]
        BY <1>3, EntryBeforeFrame
      <4>. QED  BY <1>2, <1>4, <4>1
    <3>. QED  BY <1>1, <1>5, <2>2, <3>1, <3>2, HandOver
  <2>. QED  BY <1>2, <2>1, <2>2
<1>10. inbound' \in [Streams -> Entry]
  BY <1>2, <1>3 DEF TypeOK
<1>11. TypeOK'
  BY <1>1, <1>3, <1>9, <1>10 DEF TypeOK
<1>. QED  BY <1>8, <1>9, <1>11 DEF IInv

LEMMA PollDataKeeps ==
  ASSUME IInv, NEW s \in Streams, PollData(s)
  PROVE  IInv'
<1>1. PICK last \in (read[s] + 1)..Len(frames[s]) :
        /\ \A i \in (read[s] + 1)..last : frames[s][i] = "data"
        /\ read' = [read EXCEPT ![s] = last]
        /\ inbound' = [inbound EXCEPT ![s] = WithBody(@, Run(read[s] + 1, last))]
  BY DEF PollData
<1>2. UNCHANGED <<frames, end, taken, recvAlive, pc, reported, handed>> /\ NextIs(s, "data") /\ pc = "h3"
  BY DEF PollData, Poll, peerVars
<1>3. TypeOK /\ StreamSound(s)
  BY DEF IInv, StreamsSound
<1>4. /\ ~reported[s] /\ read[s] < Len(frames[s])
      /\ read[s] + 1 \in 1..Len(frames[s]) /\ frames[s][read[s] + 1] = "data"
  BY <1>2, UnreadIsUnreported
<1>5. /\ Len(frames[s]) \in Nat /\ read[s] \in Nat /\ inbound[s] \in Entry
      /\ last \in Nat /\ read[s] + 1 <= last /\ last <= Len(frames[s])
  BY <1>1, <1>3, StreamTypes
<1>. DEFINE chunks == Run(read[s] + 1, last)
<1>6. chunks \in Seq(Nat)
  <2>1. read[s] + 1 \in Nat /\ read[s] + 1 <= last + 1
    BY <1>5
  <2>. QED  BY <1>5, <2>1, RunSeq
<1>. HIDE DEF chunks
<1>7. /\ inbound[s] = NoEntry => WithBody(inbound[s], chunks) = NoEntry
      /\ inbound[s] # NoEntry => /\ WithBody(inbound[s], chunks) \in Entry
                                 /\ WithBody(inbound[s], chunks).headers = inbound[s].headers
                                 /\ WithBody(inbound[s], chunks).body = inbound[s].body \o chunks
  <2>1. inbound[s] = NoEntry => WithBody(inbound[s], chunks) = NoEntry
    BY DEF WithBody
  <2>. QED  BY <1>5, <1>6, <2>1, BodyPushed
<1>8. /\ read' \in [Streams -> Nat] /\ read'[s] = last
      /\ \A d \in Streams : d # s => read'[d] = read[d]
  BY <1>1, <1>3, <1>5 DEF TypeOK
<1>9. /\ inbound' \in [Streams -> Entry] /\ inbound'[s] = WithBody(inbound[s], chunks)
      /\ \A d \in Streams : d # s => inbound'[d] = inbound[d]
  <2>1. WithBody(inbound[s], chunks) \in Entry
    BY <1>7, Absent
  <2>2. inbound' = [inbound EXCEPT ![s] = WithBody(inbound[s], chunks)]
    BY <1>1 DEF chunks
  <2>. QED  BY <1>3, <2>1, <2>2 DEF TypeOK
<1>10. TypeOK'
  BY <1>2, <1>3, <1>8, <1>9 DEF TypeOK
<1>11. Others(s)
  BY <1>2, <1>8, <1>9 DEF Others
<1>12. EntryCurrent(s)'
  <2>1. SUFFICES ASSUME inbound[s] # NoEntry PROVE EntryCurrent(s)'
    BY <1>7, <1>9 DEF EntryCurrent
  <2>. DEFINE h == inbound[s].headers
  <2>2. /\ h \in 1..read[s] /\ frames[s][h] = "headers"
        /\ \A i \in (h + 1)..read[s] : frames[s][i] # "headers"
        /\ inbound[s].body = Run(h + 1, read[s])
    BY <1>2, <2>1, EntryBeforeFrame
  <2>3. h \in Nat
    BY <1>5 DEF Entry
  <2>4. inbound'[s].headers = h /\ inbound'[s].body = inbound[s].body \o chunks
    BY <1>7, <1>9, <2>1
  <2>. HIDE DEF h
  <2>5. Run(h + 1, read[s]) \o chunks = Run(h + 1, last)
    <3>1. h + 1 \in Nat /\ h + 1 <= read[s] + 1 /\ read[s] <= last
      BY <1>5, <2>2, <2>3
    <3>. QED  BY <1>5, <3>1, RunOn DEF chunks
  <2>6. h \in 1..last /\ \A i \in (h + 1)..last : frames[s][i] = "headers" <=> i > last
    <3>1. ASSUME NEW i \in (h + 1)..last PROVE frames[s][i] # "headers" /\ ~(i > last)
      <4>1. i \in (h + 1)..read[s] \/ i \in (read[s] + 1)..last
        BY <1>5, <2>3
      <4>2. frames[s][i] # "headers"
        BY <1>1, <2>2, <4>1
      <4>3. ~(i > last)
        BY <1>5, <2>3
      <4>. QED  BY <4>2, <4>3
    <3>2. h \in 1..last
      BY <1>5, <2>2, <2>3
    <3>. QED  BY <3>1, <3>2
  <2>7. last \in {last - 1, last}
    OBVIOUS
  <2>. QED  BY <1>2, <1>8, <2>2, <2>4, <2>5, <2>6, <2>7 DEF EntryCurrent
<1>13. StreamSound(s)'
  BY <1>2, <1>3, <1>4, <1>5, <1>8, <1>12 DEF StreamSound
<1>14. StreamsSound'
  BY <1>11, <1>13, OthersSound
<1>15. \A i \in 1..Len(handed) : handed[i].stream # s
  <2>1. read[s] # Len(frames[s])
    BY <1>4, <1>5
  <2>. QED  BY <2>1, NotHanded
<1>16. MessagesSound' /\ HandedOnce'
  BY <1>2, <1>11, <1>15, KeepMessages
<1>. QED  BY <1>10, <1>14, <1>16 DEF IInv

\* The effect of Event::Finished: the entry is removed, and if there was one it is
\* a section of the stream, and handed over.
LEMMA PollFinishedEffect ==
  ASSUME IInv, NEW s \in Streams, PollFinished(s)
  PROVE  /\ pc = "h3" /\ CanHoldEvt
         /\ UNCHANGED <<frames, end, taken, recvAlive, read>>
         /\ end[s] = "fin" /\ read[s] = Len(frames[s])
         /\ inbound' \in [Streams -> Entry] /\ inbound'[s] = NoEntry
         /\ reported' \in [Streams -> BOOLEAN] /\ reported'[s] /\ Others(s)
         /\ \/ inbound[s] = NoEntry /\ UNCHANGED <<pc, handed>>
            \/ /\ inbound[s] # NoEntry /\ Send(s, inbound[s])
               /\ \A i \in 1..Len(handed) :
                    handed[i].stream = s => handed[i].headers # inbound[s].headers
               /\ \E last \in Nat :
                    /\ Section(s, inbound[s].headers, last)
                    /\ inbound[s].body = Run(inbound[s].headers + 1, last)
<1>1. /\ pc = "h3" /\ CanHoldEvt /\ UNCHANGED <<frames, end, taken, recvAlive, read>>
      /\ reported' = [reported EXCEPT ![s] = TRUE]
      /\ end[s] = "fin" /\ read[s] = Len(frames[s])
      /\ inbound' = [inbound EXCEPT ![s] = NoEntry]
  BY DEF PollFinished, Report, Poll, peerVars, AllRead, Removed
<1>2. IF inbound[s] # NoEntry THEN Send(s, inbound[s]) ELSE UNCHANGED <<pc, handed>>
  BY DEF PollFinished, Complete
<1>3. TypeOK /\ StreamSound(s) /\ MessagesSound
  BY DEF IInv, StreamsSound
<1>4. /\ inbound' \in [Streams -> Entry] /\ inbound'[s] = NoEntry
      /\ \A d \in Streams : d # s => inbound'[d] = inbound[d]
  BY <1>1, <1>3, Absent DEF TypeOK
<1>5. /\ reported' \in [Streams -> BOOLEAN] /\ reported'[s]
      /\ \A d \in Streams : d # s => reported'[d] = reported[d]
  BY <1>1, <1>3 DEF TypeOK
<1>6. Others(s)
  BY <1>1, <1>4, <1>5 DEF Others
<1>7. CASE inbound[s] = NoEntry
  BY <1>1, <1>2, <1>4, <1>5, <1>6, <1>7
<1>8. CASE inbound[s] # NoEntry
  <2>. DEFINE h == inbound[s].headers
  <2>1. \A i \in 1..Len(handed) : handed[i].stream = s => handed[i].headers # h
    BY <1>3, <1>8 DEF MessagesSound, MessageSound
  <2>2. Len(frames[s]) \in Nat /\ h \in Nat
    BY <1>3, StreamTypes DEF Entry
  <2>3. PICK last \in {read[s] - 1, read[s]} :
          /\ h \in 1..last /\ frames[s][h] = "headers"
          /\ \A i \in (h + 1)..read[s] : frames[s][i] = "headers" <=> i > last
          /\ inbound[s].body = Run(h + 1, last)
    BY <1>3, <1>8 DEF StreamSound, EntryCurrent
  <2>4. last \in Nat /\ last <= Len(frames[s])
    BY <1>1, <2>2, <2>3
  <2>. HIDE DEF h
  <2>5. \A i \in (h + 1)..last : frames[s][i] = "data"
    <3>1. SUFFICES ASSUME NEW i \in (h + 1)..last PROVE frames[s][i] = "data"
      OBVIOUS
    <3>2. i \in (h + 1)..read[s] /\ ~(i > last) /\ i \in 1..Len(frames[s])
      BY <1>1, <2>2, <2>3, <2>4
    <3>3. frames[s][i] # "headers"
      BY <2>3, <3>2
    <3>4. frames[s][i] \in {"headers", "data"}
      <4>1. frames[s] \in Seq({"headers", "data"})
        BY <1>3, StreamTypes
      <4>. QED  BY <3>2, <4>1, ElementOfSeq
    <3>. QED  BY <3>3, <3>4
  <2>6. last < Len(frames[s]) => frames[s][last + 1] = "headers"
    <3>1. SUFFICES ASSUME last < Len(frames[s]) PROVE frames[s][last + 1] = "headers"
      OBVIOUS
    <3>2. last + 1 \in (h + 1)..read[s] /\ last + 1 > last
      BY <1>1, <2>2, <2>3, <2>4, <3>1
    <3>. QED  BY <2>3, <3>2
  <2>7. Section(s, h, last)
    BY <2>3, <2>4, <2>5, <2>6 DEF Section
  <2>8. Send(s, inbound[s])
    BY <1>2, <1>8
  <2>. QED  BY <1>1, <1>4, <1>5, <1>6, <1>8, <2>1, <2>3, <2>4, <2>7, <2>8 DEF h
<1>. QED  BY <1>7, <1>8

LEMMA PollFinishedKeeps ==
  ASSUME IInv, NEW s \in Streams, PollFinished(s)
  PROVE  IInv'
<1>1. /\ pc = "h3" /\ CanHoldEvt
      /\ UNCHANGED <<frames, end, taken, recvAlive, read>>
      /\ end[s] = "fin" /\ read[s] = Len(frames[s])
      /\ inbound' \in [Streams -> Entry] /\ inbound'[s] = NoEntry
      /\ reported' \in [Streams -> BOOLEAN] /\ reported'[s] /\ Others(s)
  BY PollFinishedEffect
<1>2. TypeOK /\ StreamSound(s) /\ inbound[s] \in Entry
  BY StreamTypes DEF IInv, StreamsSound
<1>3. StreamSound(s)'
  BY <1>1, <1>2 DEF StreamSound, EntryCurrent
<1>4. StreamsSound'
  BY <1>1, <1>3, OthersSound
<1>5. /\ pc' \in {"h3", "done"}
      /\ handed' \in Seq(Msg) /\ taken' \in 0..Len(handed')
      /\ Len(handed') - taken' <= EvtLimit
      /\ MessagesSound' /\ HandedOnce'
  <2>1. CASE inbound[s] = NoEntry
    <3>1. UNCHANGED <<pc, handed>>
      BY <2>1, PollFinishedEffect
    <3>2. MessagesSound' /\ HandedOnce'
      BY <1>1, <3>1, KeepMessages
    <3>. QED  BY <1>1, <1>2, <3>1, <3>2 DEF TypeOK
  <2>2. CASE inbound[s] # NoEntry
    <3>1. /\ Send(s, inbound[s])
          /\ \A i \in 1..Len(handed) :
               handed[i].stream = s => handed[i].headers # inbound[s].headers
      BY <2>2, PollFinishedEffect
    <3>2. PICK last \in Nat :
            /\ Section(s, inbound[s].headers, last)
            /\ inbound[s].body = Run(inbound[s].headers + 1, last)
      BY <2>2, PollFinishedEffect
    <3>. QED  BY <1>1, <1>2, <3>1, <3>2, HandOver
  <2>. QED  BY <2>1, <2>2
<1>6. TypeOK'
  BY <1>1, <1>2, <1>5 DEF TypeOK
<1>. QED  BY <1>4, <1>5, <1>6 DEF IInv

LEMMA PollResetKeeps ==
  ASSUME IInv, NEW s \in Streams, PollReset(s)
  PROVE  IInv'
<1>1. /\ UNCHANGED <<frames, end, taken, recvAlive, read, pc, handed>> /\ pc = "h3"
      /\ reported' = [reported EXCEPT ![s] = TRUE] /\ end[s] = "reset"
      /\ inbound' = [inbound EXCEPT ![s] = NoEntry]
  BY DEF PollReset, Report, Poll, peerVars, Removed
<1>2. TypeOK /\ StreamSound(s)
  BY DEF IInv, StreamsSound
<1>3. /\ inbound' \in [Streams -> Entry] /\ inbound'[s] = NoEntry
      /\ \A d \in Streams : d # s => inbound'[d] = inbound[d]
  BY <1>1, <1>2, Absent DEF TypeOK
<1>4. /\ reported' \in [Streams -> BOOLEAN] /\ reported'[s]
      /\ \A d \in Streams : d # s => reported'[d] = reported[d]
  BY <1>1, <1>2 DEF TypeOK
<1>5. TypeOK'
  BY <1>1, <1>2, <1>3, <1>4 DEF TypeOK
<1>6. StreamSound(s)'
  BY <1>1, <1>2, <1>3, <1>4 DEF StreamSound, EntryCurrent
<1>7. Others(s)
  BY <1>1, <1>3, <1>4 DEF Others
<1>8. StreamsSound'
  BY <1>6, <1>7, OthersSound
<1>9. MessagesSound' /\ HandedOnce'
  BY <1>1, <1>3, <1>4, <1>7, KeepMessages
<1>. QED  BY <1>5, <1>8, <1>9 DEF IInv

\* con_task stops polling only when quiche has reported the end of every stream
\* that is read to its end.
LEMMA PollDoneReported ==
  ASSUME IInv, PollDone
  PROVE  \A i \in 1..Len(handed) : reported[handed[i].stream]
<1>1. SUFFICES ASSUME NEW i \in 1..Len(handed) PROVE reported[handed[i].stream]
  OBVIOUS
<1>2. handed[i].stream \in Streams /\ MessageSound(handed[i])
  BY StreamTypes DEF IInv, MessagesSound
<1>3. Quiet(handed[i].stream) /\ AllRead(handed[i].stream)
  BY <1>2 DEF PollDone, MessageSound, AllRead
<1>. QED  BY <1>3 DEF Quiet

\* Steps that touch neither the streams nor what was handed over.
LEMMA OtherStepsKeep ==
  ASSUME IInv, EnterLoop \/ PollDone \/ PollError \/ AppRecv \/ AppDropRecv \/ UNCHANGED vars
  PROVE  IInv'
<1>1. UNCHANGED <<frames, end, read, reported, inbound, handed>>
  BY DEF EnterLoop, PollDone, PollError, AppRecv, AppDropRecv, vars, Poll, peerVars, pollVars
<1>2. TypeOK /\ Len(handed) \in Nat /\ taken \in 0..Len(handed) /\ EvtLimit \in Nat
      /\ Len(handed) - taken <= EvtLimit
  BY StreamTypes, LimitsAssumption DEF IInv
<1>3. /\ taken' \in 0..Len(handed) /\ Len(handed) - taken' <= EvtLimit
      /\ recvAlive' \in BOOLEAN /\ pc' \in {"recv", "pak", "h3", "done"}
  <2>1. CASE EnterLoop \/ PollDone \/ PollError \/ UNCHANGED vars
    BY <1>2, <2>1 DEF EnterLoop, PollDone, PollError, Poll, vars, TypeOK
  <2>2. CASE AppRecv \/ AppDropRecv
    <3>1. taken' \in 0..Len(handed) /\ Len(handed) - taken' <= EvtLimit
      BY <1>2, <2>2 DEF AppRecv, AppDropRecv
    <3>2. recvAlive' \in BOOLEAN /\ pc' \in {"recv", "pak", "h3", "done"}
      BY <1>2, <2>2 DEF AppRecv, AppDropRecv, TypeOK
    <3>. QED  BY <3>1, <3>2
  <2>. QED  BY <2>1, <2>2
<1>4. TypeOK'
  BY <1>1, <1>2, <1>3 DEF TypeOK
<1>5. StreamsSound' /\ HandedOnce'
  BY <1>1 DEF IInv, StreamsSound, StreamSound, EntryCurrent, HandedOnce
<1>6. ASSUME NEW i \in 1..Len(handed), NEW m, m = handed[i], m' = m PROVE MessageSound(m)'
  <2>1. MessageSound(m)
    BY <1>6 DEF IInv, MessagesSound
  <2>2. pc' \in {"h3", "done"} \/ reported[m.stream]
    <3>1. CASE PollDone
      BY <1>6, <3>1, PollDoneReported
    <3>2. CASE EnterLoop \/ PollError \/ AppRecv \/ AppDropRecv \/ UNCHANGED vars
      BY <2>1, <3>2 DEF EnterLoop, PollError, AppRecv, AppDropRecv, vars, MessageSound
    <3>. QED  BY <3>1, <3>2
  <2>. QED  BY <1>1, <2>1, <2>2, MessageKept
<1>7. MessagesSound'
  BY <1>1, <1>6 DEF MessagesSound
<1>. QED  BY <1>4, <1>5, <1>7 DEF IInv

-----------------------------------------------------------------------------
LEMMA InitIInv == Init => IInv
<1>1. SUFFICES ASSUME Init PROVE IInv
  OBVIOUS
<1>2. <<>> \in Seq({"headers", "data"}) /\ <<>> \in Seq(Msg) /\ Len(<<>>) = 0
  BY EmptySeq
<1>3. TypeOK
  BY <1>1, <1>2, Absent, LimitsAssumption DEF Init, TypeOK
<1>4. StreamsSound
  <2>1. SUFFICES ASSUME NEW s \in Streams PROVE StreamSound(s)
    BY DEF StreamsSound
  <2>2. frames[s] = <<>> /\ read[s] = 0 /\ ~reported[s] /\ inbound[s] = NoEntry
    BY <1>1 DEF Init
  <2>. QED  BY <1>2, <2>2 DEF StreamSound, EntryCurrent
<1>5. 1..Len(handed) = {}
  BY <1>1, <1>2 DEF Init
<1>6. MessagesSound /\ HandedOnce
  BY <1>5 DEF MessagesSound, HandedOnce
<1>. QED  BY <1>3, <1>4, <1>6 DEF IInv

LEMMA NextIInv == IInv /\ [Next]_vars => IInv'
<1>1. SUFFICES ASSUME IInv, [Next]_vars PROVE IInv'
  OBVIOUS
<1>2. ASSUME NEW s \in Streams, ArriveFrame(s) PROVE IInv'
  BY <1>1, <1>2, ArriveFrameKeeps
<1>3. ASSUME NEW s \in Streams, ArriveFin(s) \/ ArriveReset(s) PROVE IInv'
  BY <1>1, <1>3, ArriveEndKeeps
<1>4. ASSUME NEW s \in Streams, PollHeaders(s) PROVE IInv'
  BY <1>1, <1>4, PollHeadersKeeps
<1>5. ASSUME NEW s \in Streams, PollData(s) PROVE IInv'
  BY <1>1, <1>5, PollDataKeeps
<1>6. ASSUME NEW s \in Streams, PollFinished(s) PROVE IInv'
  BY <1>1, <1>6, PollFinishedKeeps
<1>7. ASSUME NEW s \in Streams, PollReset(s) PROVE IInv'
  BY <1>1, <1>7, PollResetKeeps
<1>8. CASE EnterLoop \/ PollDone \/ PollError \/ AppRecv \/ AppDropRecv \/ UNCHANGED vars
  BY <1>1, <1>8, OtherStepsKeep
<1>. QED  BY <1>1, <1>2, <1>3, <1>4, <1>5, <1>6, <1>7, <1>8 DEF Next, ConTaskStep

\* The inductive invariant.
THEOREM Invariance == Spec => []IInv
  BY InitIInv, NextIInv, PTL DEF Spec

\* Every variable keeps its type, and no more messages wait in the event channel
\* than it has permits (con.rs:134-137, 266-376).
THEOREM TypeCorrect == Spec => []TypeOK
<1>1. IInv => TypeOK
  BY DEF IInv
<1>. QED  BY <1>1, Invariance, PTL

\* After quiche's last report about a stream h3_inbound has nothing for it, for any
\* number of streams (con.rs:306, 324).
THEOREM NoStaleEntries == Spec => []NoStaleEntry
<1>1. IInv => NoStaleEntry
  BY DEF IInv, StreamsSound, StreamSound, NoStaleEntry
<1>. QED  BY <1>1, Invariance, PTL

\* The entry of a message in progress has its headers and every piece of its body
\* read so far, for any number of streams and pieces, with trailers or without
\* (con.rs:285, 327-343).
THEOREM EntriesAreCurrent == Spec => []EntriesCurrent
<1>1. IInv => EntriesCurrent
  BY DEF IInv, StreamsSound, StreamSound, EntryCurrent, EntriesCurrent
<1>. QED  BY <1>1, Invariance, PTL

\* A message of a stream without trailers is handed over once, after the stream has
\* ended, with its headers and its whole body (con.rs:280-346).
PlainWhole ==
  \A i \in 1..Len(handed) : handed[i].stream \in Plain =>
    /\ handed[i].headers = 1
    /\ handed[i].body = Run(2, Len(frames[handed[i].stream]))
    /\ end[handed[i].stream] = "fin"
    /\ \A j \in 1..Len(handed) : handed[j].stream = handed[i].stream => i = j

LEMMA PlainHeadersFirst ==
  ASSUME IInv, NEW i \in 1..Len(handed), handed[i].stream \in Plain
  PROVE  /\ handed[i].headers = 1 /\ end[handed[i].stream] = "fin"
         /\ handed[i].body = Run(2, Len(frames[handed[i].stream]))
<1>. DEFINE m == handed[i]
            s == m.stream
<1>1. MessageSound(m) /\ StreamSound(s) /\ s \notin TrailerStreams /\ Len(frames[s]) \in Nat
  BY StreamTypes DEF IInv, MessagesSound, StreamsSound, Plain
<1>2. PICK last \in Nat : Section(s, m.headers, last) /\ m.body = Run(m.headers + 1, last)
  BY <1>1 DEF MessageSound
<1>3. \A k \in 2..Len(frames[s]) : frames[s][k] # "headers"
  BY <1>1 DEF StreamSound
<1>. HIDE DEF m, s
<1>4. m.headers = 1
  BY <1>1, <1>2, <1>3 DEF Section
<1>5. last = Len(frames[s])
  <2>1. last >= 1 /\ last <= Len(frames[s]) /\ (last < Len(frames[s]) => frames[s][last + 1] = "headers")
    BY <1>2, <1>4 DEF Section
  <2>. QED  BY <1>1, <1>3, <2>1
<1>6. end[s] = "fin"
  BY <1>1 DEF MessageSound, s
<1>. QED  BY <1>2, <1>4, <1>5, <1>6 DEF m, s

\* Without trailers nothing of a stream is missing, and nothing comes twice.
THEOREM PlainMessagesWhole == Spec => []PlainWhole
<1>1. IInv => PlainWhole
  <2>1. SUFFICES ASSUME IInv PROVE PlainWhole
    OBVIOUS
  <2>2. \A i \in 1..Len(handed) : handed[i].stream \in Plain =>
          /\ handed[i].headers = 1 /\ end[handed[i].stream] = "fin"
          /\ handed[i].body = Run(2, Len(frames[handed[i].stream]))
    BY <2>1, PlainHeadersFirst
  <2>. QED  BY <2>1, <2>2 DEF IInv, HandedOnce, PlainWhole
<1>. QED  BY <1>1, Invariance, PTL

-----------------------------------------------------------------------------
(* What the application is promised.                                       *)

LEMMA InitImplements == Init => Messages!Init
BY DEF Init, Messages!Init

\* A message handed over, or con_task returning without a receiver.
LEMMA SendImplements ==
  ASSUME IInv, NEW s \in Streams, NEW entry \in Entry, NEW last \in Nat,
         pc = "h3", Send(s, entry), UNCHANGED <<frames, end>>, end[s] = "fin",
         Section(s, entry.headers, last), entry.body = Run(entry.headers + 1, last),
         \A i \in 1..Len(handed) : handed[i].stream = s => handed[i].headers # entry.headers
  PROVE  Messages!HandOver(s) \/ Messages!End
<1>1. CASE recvAlive
  <2>. DEFINE h == entry.headers
              f == frames[s]
  <2>1. Len(f) \in Nat /\ h \in Nat
    BY StreamTypes DEF IInv, Entry
  <2>2. /\ h \in 1..last /\ last <= Len(f) /\ f[h] = "headers"
        /\ \A i \in (h + 1)..last : f[i] = "data"
        /\ last < Len(f) => f[last + 1] = "headers"
    BY DEF Section
  <2>3. h \in 1..Len(f) /\ last \in 1..Len(f)
    BY <2>1, <2>2
  <2>4. Messages!Section(s, h, last)
    BY <2>1, <2>2 DEF Messages!Section
  <2>5. ~Messages!Handed(s, h)
    BY DEF Messages!Handed
  <2>6. handed' = Append(handed, [stream |-> s, headers |-> h, body |-> Messages!Run(h + 1, last)])
    BY <1>1 DEF Send, Run, Messages!Run
  <2>7. pc' = pc
    BY <1>1 DEF Send
  <2>. HIDE DEF h, f
  <2>. QED  BY <2>3, <2>4, <2>5, <2>6, <2>7 DEF Messages!HandOver, f
<1>2. CASE ~recvAlive
  BY <1>2 DEF Send, Messages!End
<1>. QED  BY <1>1, <1>2

LEMMA ArriveImplements ==
  ASSUME IInv, NEW s \in Streams, ArriveFrame(s) \/ ArriveFin(s) \/ ArriveReset(s)
  PROVE  Messages!Write(s) \/ Messages!Finish(s) \/ Messages!Reset(s)
<1>1. handed' = handed /\ pc' = "pak" /\ pc \in {"recv", "pak"}
  BY DEF ArriveFrame, ArriveFin, ArriveReset, Arrival, pollVars
<1>2. CASE ArriveFrame(s)
  BY <1>1, <1>2 DEF ArriveFrame, Messages!Write
<1>3. CASE ArriveFin(s)
  BY <1>1, <1>3 DEF ArriveFin, Messages!Finish
<1>4. CASE ArriveReset(s)
  <2>1. ~reported[s] /\ pc \notin {"h3", "done"}
    BY <1>1, <1>4 DEF ArriveReset
  <2>2. ~Messages!HandedAny(s)
    BY <2>1, NotHanded DEF Messages!HandedAny
  <2>. QED  BY <1>1, <1>4, <2>2 DEF ArriveReset, Messages!Reset
<1>. QED  BY <1>2, <1>3, <1>4

LEMMA NextImplements ==
  ASSUME IInv, [Next]_vars
  PROVE  [Messages!Next]_Messages!vars
<1>1. ASSUME NEW s \in Streams, ArriveFrame(s) \/ ArriveFin(s) \/ ArriveReset(s)
      PROVE  Messages!Next
  BY <1>1, ArriveImplements DEF Messages!Next
<1>2. ASSUME NEW s \in Streams, PollHeaders(s) PROVE [Messages!Next]_Messages!vars
  <2>1. /\ pc = "h3" /\ UNCHANGED <<frames, end>>
        /\ \A i \in 1..Len(handed) : handed[i].stream # s
    BY <1>2, PollHeadersEffect
  <2>2. PICK entry \in Entry :
          /\ entry.headers = read[s] + 1 /\ entry.body = <<>>
          /\ \/ UNCHANGED <<pc, handed>>
             \/ Send(s, entry) /\ end[s] = "fin" /\ read'[s] = Len(frames[s])
    BY <1>2, PollHeadersEffect
  <2>3. CASE UNCHANGED <<pc, handed>>
    BY <2>1, <2>3 DEF Messages!vars
  <2>4. CASE Send(s, entry) /\ end[s] = "fin" /\ read'[s] = Len(frames[s])
    <3>1. /\ frames[s][read[s] + 1] = "headers" /\ read'[s] = read[s] + 1
          /\ Len(frames[s]) \in Nat /\ read[s] \in Nat
      <4>1. NextIs(s, "headers")
        BY <1>2 DEF PollHeaders
      <4>2. frames[s][read[s] + 1] = "headers"
        BY <4>1 DEF NextIs
      <4>3. read'[s] = read[s] + 1
        BY <1>2, PollHeadersEffect
      <4>. QED  BY <4>2, <4>3, StreamTypes DEF IInv
    <3>2. entry.headers \in Nat /\ Section(s, entry.headers, entry.headers)
      BY <2>2, <2>4, <3>1 DEF Section
    <3>3. entry.body = Run(entry.headers + 1, entry.headers)
      BY <2>2, <3>2, RunEmpty
    <3>4. Messages!HandOver(s) \/ Messages!End
      BY <2>1, <2>4, <3>2, <3>3, SendImplements
    <3>. QED  BY <3>4 DEF Messages!Next
  <2>. QED  BY <2>2, <2>3, <2>4
<1>3. ASSUME NEW s \in Streams, PollFinished(s) PROVE [Messages!Next]_Messages!vars
  <2>1. pc = "h3" /\ UNCHANGED <<frames, end>> /\ end[s] = "fin" /\ inbound[s] \in Entry
    BY <1>3, PollFinishedEffect, StreamTypes DEF IInv
  <2>2. CASE inbound[s] = NoEntry
    <3>1. UNCHANGED <<pc, handed>>
      BY <1>3, <2>2, PollFinishedEffect
    <3>. QED  BY <2>1, <3>1 DEF Messages!vars
  <2>3. CASE inbound[s] # NoEntry
    <3>1. /\ Send(s, inbound[s])
          /\ \A i \in 1..Len(handed) :
               handed[i].stream = s => handed[i].headers # inbound[s].headers
      BY <1>3, <2>3, PollFinishedEffect
    <3>2. PICK last \in Nat :
            /\ Section(s, inbound[s].headers, last)
            /\ inbound[s].body = Run(inbound[s].headers + 1, last)
      BY <1>3, <2>3, PollFinishedEffect
    <3>3. Messages!HandOver(s) \/ Messages!End
      BY <2>1, <3>1, <3>2, SendImplements
    <3>. QED  BY <3>3 DEF Messages!Next
  <2>. QED  BY <2>2, <2>3
<1>4. CASE (\E s \in Streams : PollData(s) \/ PollReset(s)) \/ EnterLoop \/ PollDone
           \/ AppRecv \/ AppDropRecv \/ UNCHANGED vars
  <2>1. UNCHANGED <<frames, end, handed>>
    BY <1>4 DEF PollData, PollReset, EnterLoop, PollDone, AppRecv, AppDropRecv, Report, Poll,
                peerVars, pollVars, vars
  <2>2. pc' = "done" <=> pc = "done"
    BY <1>4 DEF PollData, PollReset, EnterLoop, PollDone, AppRecv, AppDropRecv, Report, Poll, vars
  <2>. QED  BY <2>1, <2>2 DEF Messages!vars
<1>5. CASE PollError
  BY <1>5 DEF PollError, Poll, peerVars, pollVars, Messages!Next, Messages!End
<1>. QED  BY <1>1, <1>2, <1>3, <1>4, <1>5 DEF Next, ConTaskStep

\* However streams, trailers, resets and a slow application interleave, what
\* con_task hands over are the messages H3Messages promises, each once, whole and
\* after its stream's end (con.rs:280-346).
THEOREM H3ImplementsMessages == Spec => ImplementsMessages
<1>1. IInv /\ [Next]_vars => [Messages!Next]_Messages!vars
  BY NextImplements
<1>. QED  BY <1>1, InitImplements, Invariance, PTL DEF Spec, Messages!Spec, ImplementsMessages
=============================================================================
