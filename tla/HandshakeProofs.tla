-------------------------- MODULE HandshakeProofs ---------------------------
(***************************************************************************)
(* Proofs about Handshake, for every set of server ids and every bound:    *)
(* its invariants, and that the connections implement OneHandshake.        *)
(*                                                                         *)
(* The inductive invariant says what a packet under way knows: what it     *)
(* acknowledges its sender has received, a packet of the client goes to    *)
(* the id the client uses now, or is one of its first, and only a client   *)
(* that has the server's whole flight has sent c2.                         *)
(***************************************************************************)
EXTENDS Handshake, TLAPS

\* Nothing has left before the client's Tick.
FreshOK ==
  ~ticked =>
    /\ dcid = Attempt /\ net = {}
    /\ \A x \in Cons : rcvd[x] = {} /\ inflight[x] = {}

ClientPacketOK(p) ==
  /\ p.item \in {"c1", "c2", "ack"}
  /\ p.to = dcid \/ (p.to = Attempt /\ p.acks = {} /\ p.item # "c2")
  /\ p.item = "c2" => ServerFlight \subseteq rcvd[Client]

ServerPacketOK(p) ==
  p.from \in conMap /\ p.to = Client /\ p.item \in {"s1", "s2", "s3", "ack"}

PacketOK(p) ==
  /\ p.acks \subseteq rcvd[p.from]
  /\ p.from = Client => ClientPacketOK(p)
  /\ p.from # Client => ServerPacketOK(p)

PacketsOK == \A p \in net : PacketOK(p)

\* Only what was sent is outstanding.
FlightsOK == \A x \in Cons : inflight[x] \subseteq Flight(x, rcvd[x])

\* The client takes nothing from a server whose id it does not have.
ClientKnowsServer == rcvd[Client] # {} => dcid # Attempt

\* A connection ep_task has not made yet has nothing.
OnlyMadeReceive == \A x \in Servers \ conMap : rcvd[x] = {}

IInv ==
  /\ TypeOK /\ FreshOK /\ PacketsOK /\ FlightsOK /\ ClientKnowsServer /\ OnlyMadeReceive
  /\ OneServerCompletes /\ AckedIsReceived

-----------------------------------------------------------------------------
(* Operators.                                                              *)

\* What has been sent stays sent (external: quiche::Connection::send).
LEMMA FlightGrows ==
  ASSUME NEW x, NEW R, NEW S, R \subseteq S
  PROVE  Flight(x, R) \subseteq Flight(x, S) /\ Flight(x, R) \subseteq Items
BY DEF Flight, ServerFlight, Items

\* The items of the two ends.
LEMMA FlightItems ==
  ASSUME NEW x, NEW R, NEW i \in Flight(x, R)
  PROVE  /\ x = Client => i \in {"c1", "c2"} /\ (i = "c2" => ServerFlight \subseteq R)
         /\ x # Client => i \in {"s1", "s2", "s3"}
BY DEF Flight, ServerFlight

\* Only what is outstanding is declared lost.
LEMMA LostIsOutstanding ==
  ASSUME NEW unacked, NEW again \in DeclaredLost(unacked)
  PROVE  again \subseteq unacked
BY DEF DeclaredLost

\* The timers of a connection that are told apart stay within their bound
\* (con.rs:208-217).
LEMMA SchedTimeoutType ==
  ASSUME TypeOK, NEW x \in Cons, NEW left \in Nat, NEW unacked, SchedTimeout(x, left, unacked)
  PROVE  timers' \in [Cons -> 0..MaxTimers]
<1>1. Count(unacked # {}) \in Nat
  BY DEF Count
<1>2. \A n \in Nat : Capped(n) \in 0..MaxTimers
  BY BoundsAssumption DEF Capped
<1> HIDE DEF Count
<1>3. Capped(left + Count(unacked # {})) \in 0..MaxTimers
  <2>1. left + Count(unacked # {}) \in Nat
    BY <1>1
  <2> QED BY <1>2, <2>1
<1>4. timers \in [Cons -> 0..MaxTimers]
  BY DEF TypeOK
<1> QED BY <1>3, <1>4 DEF SchedTimeout

\* What the send loop makes of its items (con.rs:394-416).
LEMMA SentPackets ==
  ASSUME NEW x \in Cons, NEW to \in Cons \cup {Attempt}, NEW items \in SUBSET Items,
         NEW acks \in SUBSET Items, NEW elicited, NEW q \in Sent(x, to, items, acks, elicited)
  PROVE  /\ q \in Packet
         /\ q.from = x /\ q.to = to /\ q.acks = acks
         /\ q.item \in items \cup {"ack"}
BY DEF Sent, Packet

-----------------------------------------------------------------------------
(* con.recv() and what follows it (con.rs:180-217, 379-418).               *)

\* A connection's items only grow, by the item of a packet it can use.
LEMMA ProcessReceives ==
  ASSUME TypeOK, NEW x \in Cons, NEW p \in net, Process(x, p)
  PROVE  /\ rcvd' \in [Cons -> SUBSET Items]
         /\ \A y \in Cons : rcvd[y] \subseteq rcvd'[y] /\ (y # x => rcvd'[y] = rcvd[y])
         /\ \A i \in rcvd'[x] \ rcvd[x] : i = p.item /\ Usable(p)
<1> DEFINE R == rcvd[x] \cup {i \in Items : Usable(p) /\ p.item = i}
<1>1. rcvd' = [rcvd EXCEPT ![x] = R]
  BY DEF Process
<1>2. R \in SUBSET Items /\ rcvd[x] \subseteq R
  BY DEF TypeOK
<1>3. \A i \in R \ rcvd[x] : i = p.item /\ Usable(p)
  OBVIOUS
<1>4. rcvd \in [Cons -> SUBSET Items]
  BY DEF TypeOK
<1> HIDE DEF R
<1> QED BY <1>1, <1>2, <1>3, <1>4

\* The client takes up the sender of a packet it can use.
LEMMA ProcessDcid ==
  ASSUME TypeOK, NEW x \in Cons, NEW p \in net, Process(x, p)
  PROVE  \/ dcid' = dcid
         \/ x = Client /\ Usable(p) /\ dcid' = p.from
BY DEF Process

\* What is not outstanding any more, an acknowledgement was about, in a packet
\* the connection could use.
LEMMA ProcessAcks ==
  ASSUME TypeOK, FlightsOK, NEW x \in Cons, NEW p \in net, Process(x, p)
  PROVE  /\ inflight' \in [Cons -> SUBSET Items]
         /\ \A y \in Cons : y # x => inflight'[y] = inflight[y]
         /\ inflight'[x] \subseteq Flight(x, rcvd'[x])
         /\ \A i \in Flight(x, rcvd'[x]) \ inflight'[x] :
              \/ i \in Flight(x, rcvd[x]) \ inflight[x]
              \/ i \in p.acks /\ Usable(p)
<1> DEFINE R == rcvd[x] \cup {i \in Items : Usable(p) /\ p.item = i}
           unacked == inflight[x] \ {i \in p.acks : Usable(p)}
           new == Flight(x, R) \ Flight(x, rcvd[x])
<1>1. /\ rcvd' = [rcvd EXCEPT ![x] = R]
      /\ inflight' = [inflight EXCEPT ![x] = unacked \cup new]
  BY DEF Process
<1>2. rcvd \in [Cons -> SUBSET Items] /\ inflight \in [Cons -> SUBSET Items]
  BY DEF TypeOK
<1>3. rcvd'[x] = R /\ inflight'[x] = unacked \cup new
  BY <1>1, <1>2
<1>4. Flight(x, rcvd[x]) \subseteq Flight(x, R) /\ Flight(x, R) \subseteq Items
  BY FlightGrows
<1>5. inflight[x] \subseteq Flight(x, rcvd[x])
  BY DEF FlightsOK
<1>6. unacked \cup new \subseteq Flight(x, R)
  BY <1>4, <1>5
<1>7. \A i \in Flight(x, R) \ (unacked \cup new) :
        i \in Flight(x, rcvd[x]) \ inflight[x] \/ (i \in p.acks /\ Usable(p))
  OBVIOUS
<1> HIDE DEF R, unacked, new
<1> QED BY <1>1, <1>2, <1>3, <1>4, <1>6, <1>7

\* What it sends goes to the other end, acknowledges what it has, and carries
\* items of its flight.
LEMMA ProcessSends ==
  ASSUME TypeOK, FlightsOK, NEW x \in Cons, NEW p \in net, Process(x, p)
  PROVE  \A q \in net' :
           \/ q \in net
           \/ /\ q \in Packet
              /\ q.from = x /\ q.acks = rcvd'[x]
              /\ q.to = Peer(x, dcid')
              /\ q.item \in Flight(x, rcvd'[x]) \cup {"ack"}
<1> DEFINE R == rcvd[x] \cup {i \in Items : Usable(p) /\ p.item = i}
           unacked == inflight[x] \ {i \in p.acks : Usable(p)}
           new == Flight(x, R) \ Flight(x, rcvd[x])
           to == IF x = Client /\ Usable(p) THEN p.from ELSE dcid
           elicited == Usable(p) /\ p.item # "ack"
           out(again) == Sent(x, Peer(x, to), new \cup again, R, elicited)
<1>1. rcvd' = [rcvd EXCEPT ![x] = R] /\ (dcid' = IF x = Client THEN to ELSE dcid)
  BY DEF Process
<1>2. PICK again \in DeclaredLost(unacked) : net' \subseteq net \cup out(again)
  BY DEF Process
<1>3. rcvd'[x] = R
  BY <1>1 DEF TypeOK
<1>4. Peer(x, to) = Peer(x, dcid')
  BY <1>1 DEF Peer
<1>5. p \in Packet /\ dcid \in {Attempt} \cup Cons
  BY DEF TypeOK, Cons
<1>6. Peer(x, to) \in Cons \cup {Attempt}
  BY <1>5 DEF Packet, Peer, Cons
<1>7. Flight(x, rcvd[x]) \subseteq Flight(x, R) /\ Flight(x, R) \subseteq Items /\ R \in SUBSET Items
  BY FlightGrows DEF TypeOK
<1>8. new \cup again \subseteq Flight(x, R)
  <2>1. again \subseteq inflight[x] /\ inflight[x] \subseteq Flight(x, rcvd[x])
    BY LostIsOutstanding DEF FlightsOK
  <2> QED BY <1>7, <2>1
<1> DEFINE items == new \cup again
<1>9. items \in SUBSET Items /\ items \subseteq Flight(x, R)
  BY <1>7, <1>8
<1>10. net' \subseteq net \cup Sent(x, Peer(x, to), items, R, elicited)
  BY <1>2
<1> HIDE DEF R, to, elicited, items
<1>11. \A q \in Sent(x, Peer(x, to), items, R, elicited) :
        q \in Packet /\ q.from = x /\ q.to = Peer(x, to) /\ q.acks = R /\ q.item \in items \cup {"ack"}
  BY <1>6, <1>7, <1>9, SentPackets, SMTT(30)
<1> QED BY <1>3, <1>4, <1>9, <1>10, <1>11

\* The rest of its state.
LEMMA ProcessRest ==
  ASSUME TypeOK, NEW x \in Cons, NEW p \in net, Process(x, p)
  PROVE  /\ timers' \in [Cons -> 0..MaxTimers] /\ dups' \in 0..MaxDup
         /\ ticked' = ticked /\ lost' = lost
<1>1. ticked' = ticked /\ lost' = lost /\ (dups' = dups \/ (dups' = dups + 1 /\ dups < MaxDup))
  BY DEF Process
<1>2. dups' \in 0..MaxDup
  BY <1>1, BoundsAssumption DEF TypeOK
<1>3. timers[x] \in Nat
  BY BoundsAssumption DEF TypeOK
<1>4. PICK unacked : SchedTimeout(x, timers[x], unacked)
  BY DEF Process
<1>5. timers' \in [Cons -> 0..MaxTimers]
  BY <1>3, <1>4, SchedTimeoutType
<1> QED BY <1>1, <1>2, <1>5

\* A packet comes to the connection its id stands for, or opens a new one.
Arrives(x, p) ==
  \/ p.to = x /\ x \in {Client} \cup conMap
  \/ p.to = Attempt /\ x \in Servers \ conMap

\* What an arriving packet that can be used tells: the client hears a server,
\* and a server hears the client, about whom it may know something only if it
\* is the one the client took up.
LEMMA ArrivingPacket ==
  ASSUME IInv, NEW x \in Cons, NEW p \in net, Arrives(x, p)
  PROVE  /\ ticked
         /\ x = Client => /\ p.from \in conMap
                          /\ p.item \in {"s1", "s2", "s3", "ack"}
                          /\ Usable(p) => dcid \in {Attempt, p.from}
         /\ x # Client => /\ p.from = Client
                          /\ p.item \in {"c1", "c2", "ack"}
                          /\ p.acks # {} \/ p.item = "c2" => x = dcid
                          /\ p.item = "c2" => ServerFlight \subseteq rcvd[Client]
         /\ p.acks \subseteq rcvd[p.from]
<1>1. p \in Packet /\ PacketOK(p)
  BY DEF IInv, TypeOK, PacketsOK
<1>2. ticked
  BY DEF IInv, FreshOK
<1>3. x = Client => p.to = Client
  BY NamesAssumption DEF Arrives
<1>4. CASE x = Client
  <2>1. p.from # Client
    <3>1. dcid # Client
      BY NamesAssumption DEF IInv, TypeOK
    <3> QED BY <1>1, <1>3, <1>4, <3>1, NamesAssumption DEF PacketOK, ClientPacketOK
  <2> QED BY <1>1, <1>2, <1>3, <1>4, <2>1 DEF PacketOK, ServerPacketOK, Usable
<1>5. CASE x # Client
  <2>1. p.to # Client
    BY <1>5, NamesAssumption DEF Arrives
  <2>2. p.from = Client /\ ClientPacketOK(p)
    BY <1>1, <2>1 DEF PacketOK, ServerPacketOK
  <2>3. p.acks # {} \/ p.item = "c2" => p.to = dcid /\ dcid # Attempt
    <3>1. SUFFICES ASSUME dcid = Attempt PROVE p.acks = {} /\ p.item # "c2"
      BY <2>2 DEF ClientPacketOK
    <3>2. rcvd[Client] = {}
      BY <3>1 DEF IInv, ClientKnowsServer
    <3> QED BY <1>1, <2>2, <3>2 DEF PacketOK, ClientPacketOK, ServerFlight
  <2>4. p.acks # {} \/ p.item = "c2" => x = dcid
    BY <2>3 DEF Arrives
  <2> QED BY <1>1, <1>2, <1>5, <2>2, <2>4 DEF PacketOK, ClientPacketOK
<1> QED BY <1>4, <1>5

\* The client's id for the server is settled with the first packet it can use.
LEMMA DcidSettles ==
  ASSUME IInv, NEW x \in Cons, NEW p \in net, Arrives(x, p), Process(x, p)
  PROVE  /\ dcid' \in {Attempt} \cup conMap
         /\ dcid' # dcid => dcid = Attempt /\ x = Client /\ Usable(p)
         /\ x = Client /\ Usable(p) => dcid' = p.from
<1>1. x = Client /\ Usable(p) => dcid' = p.from
  BY DEF Process
<1>2. dcid' # dcid => x = Client /\ Usable(p)
  BY ProcessDcid DEF IInv
<1>3. x = Client /\ Usable(p) => p.from \in conMap /\ dcid \in {Attempt, p.from}
  BY ArrivingPacket
<1>4. dcid \in {Attempt} \cup conMap
  BY DEF IInv, TypeOK
<1> QED BY <1>1, <1>2, <1>3, <1>4

\* Processing a packet keeps the invariant, whether the connection was there or
\* is made for it (ep.rs:212-254).
LEMMA ProcessKeeps ==
  ASSUME IInv, NEW x \in Cons, NEW p \in net, Arrives(x, p), Process(x, p),
         conMap' = conMap \cup ({x} \ {Client})
  PROVE  IInv'
<1>1. TypeOK /\ FlightsOK
  BY DEF IInv
<1>2. /\ ticked
      /\ x = Client => p.from \in conMap /\ p.item \in {"s1", "s2", "s3", "ack"}
      /\ x # Client => /\ p.from = Client
                       /\ p.acks # {} \/ p.item = "c2" => x = dcid
                       /\ p.item = "c2" => ServerFlight \subseteq rcvd[Client]
      /\ p.acks \subseteq rcvd[p.from]
  BY ArrivingPacket
<1>3. /\ dcid' \in {Attempt} \cup conMap
      /\ dcid' # dcid => dcid = Attempt /\ x = Client /\ Usable(p)
      /\ x = Client /\ Usable(p) => dcid' = p.from
  BY DcidSettles
<1>4. /\ rcvd' \in [Cons -> SUBSET Items]
      /\ \A y \in Cons : rcvd[y] \subseteq rcvd'[y] /\ (y # x => rcvd'[y] = rcvd[y])
      /\ \A i \in rcvd'[x] \ rcvd[x] : i = p.item /\ Usable(p)
  BY <1>1, ProcessReceives
<1>5. /\ inflight' \in [Cons -> SUBSET Items]
      /\ \A y \in Cons : y # x => inflight'[y] = inflight[y]
      /\ inflight'[x] \subseteq Flight(x, rcvd'[x])
      /\ \A i \in Flight(x, rcvd'[x]) \ inflight'[x] :
           \/ i \in Flight(x, rcvd[x]) \ inflight[x]
           \/ i \in p.acks /\ Usable(p)
  BY <1>1, ProcessAcks
<1>6. \A q \in net' :
        \/ q \in net
        \/ /\ q \in Packet
           /\ q.from = x /\ q.acks = rcvd'[x]
           /\ q.to = Peer(x, dcid')
           /\ q.item \in Flight(x, rcvd'[x]) \cup {"ack"}
  BY <1>1, ProcessSends
<1>7. /\ timers' \in [Cons -> 0..MaxTimers] /\ dups' \in 0..MaxDup
      /\ ticked' = ticked /\ lost' = lost
  BY <1>1, ProcessRest
<1>8. Client \in Cons /\ conMap' \subseteq Servers /\ conMap \subseteq conMap'
  BY <1>1 DEF Cons, TypeOK
<1>9. TypeOK'
  <2>1. net' \subseteq Packet
    BY <1>1, <1>6 DEF TypeOK
  <2> QED BY <1>1, <1>3, <1>4, <1>5, <1>7, <1>8, <2>1 DEF TypeOK
<1>10. FreshOK'
  BY <1>2, <1>7 DEF FreshOK
<1>11. PacketsOK'
  <2> SUFFICES ASSUME NEW q \in net' PROVE PacketOK(q)'
    BY DEF PacketsOK
  <2>1. CASE q \in net
    <3>1. q \in Packet /\ PacketOK(q)
      BY <1>1, <2>1 DEF IInv, TypeOK, PacketsOK
    <3>2. q.acks \subseteq rcvd'[q.from] /\ rcvd[Client] \subseteq rcvd'[Client]
      BY <1>4, <1>8, <3>1 DEF PacketOK, Packet
    <3>3. q.from = Client => ClientPacketOK(q)'
      <4>1. SUFFICES ASSUME q.from = Client, q.to = dcid, dcid' # dcid
                     PROVE  q.acks = {} /\ q.item # "c2"
        BY <1>3, <3>1, <3>2 DEF PacketOK, ClientPacketOK
      <4>2. rcvd[Client] = {}
        BY <1>3, <4>1 DEF IInv, ClientKnowsServer
      <4> QED BY <3>1, <4>1, <4>2 DEF PacketOK, ClientPacketOK, ServerFlight
    <3>4. q.from # Client => ServerPacketOK(q)'
      BY <1>8, <3>1 DEF PacketOK, ServerPacketOK
    <3> QED BY <3>2, <3>3, <3>4 DEF PacketOK
  <2>2. CASE q \notin net
    <3>1. /\ q.from = x /\ q.acks = rcvd'[x] /\ q.to = Peer(x, dcid')
          /\ q.item \in Flight(x, rcvd'[x]) \cup {"ack"}
      BY <1>6, <2>2
    <3>2. CASE x = Client
      <4>1. q.item \in {"c1", "c2", "ack"} /\ (q.item = "c2" => ServerFlight \subseteq rcvd'[x])
        BY <3>1, <3>2, FlightItems
      <4> QED BY <3>1, <3>2, <4>1 DEF PacketOK, ClientPacketOK, Peer
    <3>3. CASE x # Client
      <4>1. q.item \in {"s1", "s2", "s3", "ack"}
        BY <3>1, <3>3, FlightItems
      <4> QED BY <3>1, <3>3, <4>1 DEF PacketOK, ServerPacketOK, Peer
    <3> QED BY <3>2, <3>3
  <2> QED BY <2>1, <2>2
<1>12. FlightsOK'
  BY <1>1, <1>4, <1>5 DEF FlightsOK
<1>13. ClientKnowsServer'
  <2>1. CASE rcvd'[Client] = rcvd[Client]
    BY <1>3, <2>1, <1>1, <1>2, NamesAssumption DEF IInv, ClientKnowsServer, TypeOK
  <2>2. CASE rcvd'[Client] # rcvd[Client]
    <3>1. x = Client /\ Usable(p)
      BY <1>4, <1>8, <2>2
    <3>2. dcid' \in conMap
      BY <1>2, <1>3, <3>1
    <3> QED BY <1>1, <3>2, NamesAssumption DEF ClientKnowsServer, TypeOK
  <2> QED BY <2>1, <2>2
<1>14. OneServerCompletes'
  <2> SUFFICES ASSUME NEW y \in Servers, Established(y)'
               PROVE  dcid' = y /\ ServerFlight \subseteq rcvd'[Client]
    BY DEF OneServerCompletes, Established
  <2>1. y # Client /\ y \in Cons /\ "c2" \in rcvd'[y] /\ y # Attempt
    BY NamesAssumption DEF Established, Cons
  <2>2. y = dcid /\ ServerFlight \subseteq rcvd[Client]
    <3>1. CASE "c2" \in rcvd[y]
      BY <2>1, <3>1 DEF IInv, OneServerCompletes, Established
    <3>2. CASE "c2" \notin rcvd[y]
      <4>1. y = x /\ p.item = "c2"
        BY <1>4, <2>1, <3>2
      <4> QED BY <1>2, <2>1, <4>1
    <3> QED BY <3>1, <3>2
  <2>3. dcid' = dcid
    BY <1>3, <2>1, <2>2
  <2> QED BY <1>4, <1>8, <2>2, <2>3
<1>15. AckedIsReceived'
  <2> SUFFICES ASSUME NEW y \in Cons, NEW i \in Acked(y)'
               PROVE  dcid' \in Servers /\ y \in {Client, dcid'} /\ i \in rcvd'[Peer(y, dcid')]
    BY DEF AckedIsReceived
  <2>1. i \in Flight(y, rcvd'[y]) \ inflight'[y]
    BY <1>2, <1>7 DEF Acked
  <2>2. CASE i \in Flight(y, rcvd[y]) \ inflight[y]
    <3>1. i \in Acked(y)
      BY <1>2, <2>2 DEF Acked
    <3>2. dcid \in Servers /\ y \in {Client, dcid} /\ i \in rcvd[Peer(y, dcid)]
      BY <3>1 DEF IInv, AckedIsReceived
    <3>3. dcid' = dcid
      BY <1>3, <3>2, NamesAssumption
    <3>4. Peer(y, dcid) \in Cons
      BY <1>8, <3>2 DEF Peer, Cons
    <3> QED BY <1>4, <3>2, <3>3, <3>4
  <2>3. CASE i \notin Flight(y, rcvd[y]) \ inflight[y]
    <3>1. y = x /\ i \in p.acks /\ Usable(p)
      BY <1>4, <1>5, <2>1, <2>3
    <3>2. CASE x = Client
      <4>1. dcid' = p.from /\ p.from \in conMap /\ i \in rcvd[p.from]
        BY <1>2, <1>3, <3>1, <3>2
      <4>2. p.from \in Servers /\ p.from \in Cons
        BY <1>1, <4>1 DEF TypeOK, Cons
      <4> QED BY <1>4, <3>1, <3>2, <4>1, <4>2 DEF Peer
    <3>3. CASE x # Client
      <4>1. x = dcid /\ i \in rcvd[Client]
        BY <1>2, <3>1, <3>3
      <4>2. dcid' = dcid /\ dcid \in Servers
        BY <1>1, <1>3, <3>3, <4>1, NamesAssumption DEF TypeOK, Cons
      <4> QED BY <1>4, <1>8, <3>1, <3>3, <4>1, <4>2 DEF Peer
    <3> QED BY <3>2, <3>3
  <2> QED BY <2>2, <2>3
<1>16. OnlyMadeReceive'
  <2> SUFFICES ASSUME NEW y \in Servers \ conMap' PROVE rcvd'[y] = {}
    BY DEF OnlyMadeReceive
  <2>1. y # x /\ y \in Cons /\ y \in Servers \ conMap
    BY <1>8, NamesAssumption DEF Cons
  <2> QED BY <1>4, <2>1 DEF IInv, OnlyMadeReceive
<1> QED BY <1>9, <1>10, <1>11, <1>12, <1>13, <1>14, <1>15, <1>16 DEF IInv

-----------------------------------------------------------------------------
(* The actions.                                                            *)

\* cid() gives an id nobody has (ep.rs:283-290).
LEMMA NextCidIsNew ==
  ASSUME TypeOK, Servers # conMap
  PROVE  NextCid \in Servers \ conMap
<1>1. \E x \in Servers : x \notin conMap
  BY DEF TypeOK
<1> QED BY <1>1 DEF NextCid

\* Both ways a packet is delivered are arrivals.
LEMMA DeliveryArrives ==
  ASSUME IInv, NEW x \in Cons, NEW p \in net, Route(x, p) \/ Accept(x, p)
  PROVE  Arrives(x, p) /\ Process(x, p) /\ conMap' = conMap \cup ({x} \ {Client})
<1>1. CASE Route(x, p)
  <2>1. conMap = conMap \cup ({x} \ {Client})
    BY <1>1 DEF Route
  <2> QED BY <1>1, <2>1 DEF Route, Arrives
<1>2. CASE Accept(x, p)
  <2>1. x \in Servers \ conMap
    BY <1>2, NextCidIsNew DEF Accept, IInv
  <2>2. x # Client
    BY <2>1, NamesAssumption
  <2> QED BY <1>2, <2>1, <2>2 DEF Accept, Arrives
<1> QED BY <1>1, <1>2

\* What only sends again, or sends c1 first, changes no id, and nothing of what
\* was received.
LEMMA TickKeeps ==
  ASSUME IInv, ClientTick
  PROVE  IInv'
<1>1. /\ ~ticked /\ ticked' = TRUE
      /\ inflight' = [inflight EXCEPT ![Client] = {"c1"}]
      /\ net' = net \cup Sent(Client, dcid, {"c1"}, {}, FALSE)
      /\ conMap' = conMap /\ dcid' = dcid /\ rcvd' = rcvd /\ lost' = lost /\ dups' = dups
  BY DEF ClientTick
<1>2. /\ dcid = Attempt /\ net = {}
      /\ \A x \in Cons : rcvd[x] = {} /\ inflight[x] = {}
  BY <1>1 DEF IInv, FreshOK
<1>3. TypeOK /\ Client \in Cons /\ "c1" \in Items
  BY DEF IInv, Cons, Items
<1>4. \A q \in net' :
        /\ q \in Packet /\ q.from = Client /\ q.to = dcid /\ q.acks = {}
        /\ q.item \in {"c1", "ack"}
  <2> DEFINE elicited == FALSE
  <2>1. net' = Sent(Client, dcid, {"c1"}, {}, elicited) /\ dcid \in Cons \cup {Attempt}
    BY <1>1, <1>2
  <2>2. {"c1"} \in SUBSET Items /\ {} \in SUBSET Items
    BY <1>3
  <2> HIDE DEF elicited
  <2> QED BY <1>3, <2>1, <2>2, SentPackets
<1>5. TypeOK'
  <2>1. timers[Client] \in Nat
    BY <1>3, BoundsAssumption DEF TypeOK
  <2>2. timers' \in [Cons -> 0..MaxTimers]
    BY <1>3, <2>1, SchedTimeoutType DEF ClientTick
  <2>3. inflight' \in [Cons -> SUBSET Items]
    BY <1>1, <1>3 DEF TypeOK
  <2>4. net' \subseteq Packet
    BY <1>4
  <2> QED BY <1>1, <1>3, <2>2, <2>3, <2>4 DEF TypeOK
<1>6. FreshOK'
  BY <1>1 DEF FreshOK
<1>7. PacketsOK'
  BY <1>1, <1>4 DEF PacketsOK, PacketOK, ClientPacketOK
<1>8. \A x \in Cons : inflight'[x] = Flight(x, rcvd'[x])
  <2> TAKE x \in Cons
  <2>1. inflight'[x] = IF x = Client THEN {"c1"} ELSE {}
    BY <1>1, <1>2, <1>3 DEF TypeOK
  <2>2. Flight(x, rcvd'[x]) = IF x = Client THEN {"c1"} ELSE {}
    BY <1>1, <1>2 DEF Flight, ServerFlight
  <2> QED BY <2>1, <2>2
<1>9. FlightsOK'
  BY <1>8 DEF FlightsOK
<1>10. AckedIsReceived'
  BY <1>1, <1>8 DEF AckedIsReceived, Acked
<1>11. ClientKnowsServer' /\ OneServerCompletes' /\ OnlyMadeReceive'
  BY <1>1 DEF IInv, ClientKnowsServer, OneServerCompletes, Established, OnlyMadeReceive
<1> QED BY <1>5, <1>6, <1>7, <1>9, <1>10, <1>11 DEF IInv

\* A Timeout that finds its deadline moved, and one that sends the outstanding
\* items again (con.rs:175-217).
LEMMA TimeoutKeeps ==
  ASSUME IInv, NEW x \in Cons, TimeoutStale(x) \/ TimeoutDue(x)
  PROVE  IInv'
<1>1. /\ ticked' = ticked /\ conMap' = conMap /\ dcid' = dcid
      /\ rcvd' = rcvd /\ inflight' = inflight /\ lost' = lost /\ dups' = dups
      /\ \E waits : SchedTimeout(x, timers[x] - 1, waits)
      /\ timers[x] > 0
      /\ \/ net' = net
         \/ /\ inflight[x] # {}
            /\ net' = net \cup Sent(x, Peer(x, dcid), inflight[x], rcvd[x], FALSE)
  BY DEF TimeoutStale, TimeoutDue
<1>2. TypeOK
  BY DEF IInv
<1>3. /\ inflight[x] \in SUBSET Items /\ rcvd[x] \in SUBSET Items
      /\ inflight[x] \subseteq Flight(x, rcvd[x])
      /\ Peer(x, dcid) \in Cons \cup {Attempt}
  BY DEF IInv, TypeOK, FlightsOK, Peer, Cons
<1>4. \A q \in net' :
        \/ q \in net
        \/ /\ q \in Packet /\ inflight[x] # {}
           /\ q.from = x /\ q.acks = rcvd[x] /\ q.to = Peer(x, dcid)
           /\ q.item \in Flight(x, rcvd[x]) \cup {"ack"}
  <2> DEFINE elicited == FALSE
             out == Sent(x, Peer(x, dcid), inflight[x], rcvd[x], elicited)
  <2>1. net' = net \/ (inflight[x] # {} /\ net' = net \cup out)
    BY <1>1
  <2> HIDE DEF elicited
  <2>2. \A q \in out :
          /\ q \in Packet /\ q.from = x /\ q.to = Peer(x, dcid) /\ q.acks = rcvd[x]
          /\ q.item \in inflight[x] \cup {"ack"}
    BY <1>3, SentPackets
  <2> HIDE DEF out
  <2> QED BY <1>3, <2>1, <2>2
<1>5. TypeOK'
  <2>1. timers[x] - 1 \in Nat
    BY <1>1, <1>2, BoundsAssumption DEF TypeOK
  <2>2. timers' \in [Cons -> 0..MaxTimers]
    BY <1>1, <1>2, <2>1, SchedTimeoutType
  <2>3. net' \subseteq Packet
    BY <1>2, <1>4 DEF TypeOK
  <2> QED BY <1>1, <1>2, <2>2, <2>3 DEF TypeOK
<1>6. FreshOK'
  BY <1>1, <1>4 DEF IInv, FreshOK
<1>7. PacketsOK'
  <2> SUFFICES ASSUME NEW q \in net' PROVE PacketOK(q)'
    BY DEF PacketsOK
  <2>1. CASE q \in net
    BY <1>1, <2>1 DEF IInv, PacketsOK, PacketOK, ClientPacketOK, ServerPacketOK
  <2>2. CASE q \notin net
    <3>1. /\ q.from = x /\ q.acks = rcvd[x] /\ q.to = Peer(x, dcid) /\ inflight[x] # {}
          /\ q.item \in Flight(x, rcvd[x]) \cup {"ack"}
      BY <1>4, <2>2
    <3>2. CASE x = Client
      <4>1. q.item \in {"c1", "c2", "ack"} /\ (q.item = "c2" => ServerFlight \subseteq rcvd[x])
        BY <3>1, <3>2, FlightItems
      <4> QED BY <1>1, <3>1, <3>2, <4>1 DEF PacketOK, ClientPacketOK, Peer
    <3>3. CASE x # Client
      <4>1. q.item \in {"s1", "s2", "s3", "ack"}
        BY <3>1, <3>3, FlightItems
      <4>2. x \in conMap
        <5>1. x \in Servers /\ rcvd[x] # {}
          BY <1>3, <3>1, <3>3 DEF Cons, Flight
        <5> QED BY <5>1 DEF IInv, OnlyMadeReceive
      <4> QED BY <1>1, <3>1, <3>3, <4>1, <4>2 DEF PacketOK, ServerPacketOK, Peer
    <3> QED BY <3>2, <3>3
  <2> QED BY <2>1, <2>2
<1>8. FlightsOK' /\ ClientKnowsServer' /\ OnlyMadeReceive' /\ OneServerCompletes' /\ AckedIsReceived'
  BY <1>1 DEF IInv, FlightsOK, ClientKnowsServer, OnlyMadeReceive, OneServerCompletes,
              Established, AckedIsReceived, Acked
<1> QED BY <1>5, <1>6, <1>7, <1>8 DEF IInv

LEMMA InitInv == Init => IInv
<1> SUFFICES ASSUME Init PROVE IInv
  OBVIOUS
<1>1. TypeOK
  <2>1. 0 \in 0..MaxTimers /\ 0 \in 0..MaxLoss /\ 0 \in 0..MaxDup
    BY BoundsAssumption
  <2>2. {} \in SUBSET Items /\ {} \subseteq Packet /\ {} \subseteq Servers
    OBVIOUS
  <2> QED BY <2>1, <2>2 DEF Init, TypeOK
<1>2. Client \in Cons /\ Servers \subseteq Cons
  BY DEF Cons
<1>3. FreshOK /\ PacketsOK /\ FlightsOK /\ ClientKnowsServer /\ OnlyMadeReceive
  BY <1>2 DEF Init, FreshOK, PacketsOK, FlightsOK, ClientKnowsServer, OnlyMadeReceive
<1>4. OneServerCompletes
  BY <1>2, NamesAssumption DEF Init, OneServerCompletes, Established
<1>5. AckedIsReceived
  <2>1. \A x \in Cons : Acked(x) = {}
    <3> TAKE x \in Cons
    <3>1. x # Client => Flight(x, rcvd[x]) = {}
      BY DEF Init, Flight
    <3>2. ~ticked
      BY DEF Init
    <3> QED BY <3>1, <3>2 DEF Acked
  <2> QED BY <2>1 DEF AckedIsReceived
<1> QED BY <1>1, <1>3, <1>4, <1>5 DEF IInv

LEMMA LossKeeps ==
  ASSUME IInv, NEW p \in net, Lose(p)
  PROVE  IInv'
<1>1. /\ net' = net \ {p} /\ lost' = lost + 1 /\ lost < MaxLoss
      /\ ticked' = ticked /\ conMap' = conMap /\ dcid' = dcid /\ rcvd' = rcvd
      /\ inflight' = inflight /\ timers' = timers /\ dups' = dups
  BY DEF Lose, conVars
<1>2. TypeOK'
  BY <1>1, BoundsAssumption DEF IInv, TypeOK
<1>3. PacketsOK'
  BY <1>1 DEF IInv, PacketsOK, PacketOK, ClientPacketOK, ServerPacketOK
<1>4. FreshOK' /\ FlightsOK' /\ ClientKnowsServer' /\ OnlyMadeReceive' /\ OneServerCompletes' /\ AckedIsReceived'
  BY <1>1 DEF IInv, FreshOK, FlightsOK, ClientKnowsServer, OnlyMadeReceive, OneServerCompletes,
              Established, AckedIsReceived, Acked
<1> QED BY <1>2, <1>3, <1>4 DEF IInv

LEMMA NextInv == IInv /\ [Next]_vars => IInv'
<1> SUFFICES ASSUME IInv, [Next]_vars PROVE IInv'
  OBVIOUS
<1>1. CASE ClientTick
  BY <1>1, TickKeeps
<1>2. ASSUME NEW p \in net, Deliver(p) PROVE IInv'
  <2>1. PICK x \in Cons : Route(x, p) \/ Accept(x, p)
    BY <1>2 DEF Deliver
  <2>2. Arrives(x, p) /\ Process(x, p) /\ conMap' = conMap \cup ({x} \ {Client})
    BY <2>1, DeliveryArrives
  <2> QED BY <2>2, ProcessKeeps
<1>3. ASSUME NEW p \in net, Lose(p) PROVE IInv'
  BY <1>3, LossKeeps
<1>4. ASSUME NEW x \in Cons, TimeoutStale(x) \/ TimeoutDue(x) PROVE IInv'
  BY <1>4, TimeoutKeeps
<1>5. CASE UNCHANGED vars
  BY <1>5 DEF vars, conVars, IInv, TypeOK, FreshOK, PacketsOK, PacketOK, ClientPacketOK,
              ServerPacketOK, FlightsOK, ClientKnowsServer, OnlyMadeReceive,
              OneServerCompletes, Established, AckedIsReceived, Acked
<1> QED BY <1>1, <1>2, <1>3, <1>4, <1>5 DEF Next

-----------------------------------------------------------------------------
(* The theorems.                                                           *)

\* The inductive invariant holds.
THEOREM Invariance == Spec => []IInv
<1> QED BY InitInv, NextInv, PTL DEF Spec

\* No packet names a connection that does not exist, and the client's id for the
\* server is one ep_task has in con_map (ep.rs:168-173, con.rs:394-401).
THEOREM TypeCorrect == Spec => []TypeOK
<1>1. IInv => TypeOK
  BY DEF IInv
<1> QED BY Invariance, <1>1, PTL

\* However many connections the server makes of repeated Initials, one it has
\* established is the one the client has established (ep.rs:212-254).
THEOREM OneServer == Spec => []OneServerCompletes
<1>1. IInv => OneServerCompletes
  BY DEF IInv
<1> QED BY Invariance, <1>1, PTL

\* What an end does not send again has reached the other end of the client's own
\* handshake (ep.rs:212-222, con.rs:180-217).
THEOREM AcksAreReceived == Spec => []AckedIsReceived
<1>1. IInv => AckedIsReceived
  BY DEF IInv
<1> QED BY Invariance, <1>1, PTL

-----------------------------------------------------------------------------
(* The handshake is one handshake.                                         *)

EstablishedCons == {x \in Cons : Established(x)}

\* The server's connections that are established are at most the client's one,
\* and only when the client is.
LEMMA EstablishedTogether ==
  ASSUME IInv
  PROVE  /\ EstablishedCons \subseteq {Client, dcid}
         /\ Client \notin EstablishedCons => EstablishedCons = {}
         /\ Client \in EstablishedCons <=> ServerFlight \subseteq rcvd[Client]
         /\ Client \in EstablishedCons => dcid \in Servers
<1>1. OneServerCompletes /\ ClientKnowsServer /\ dcid \in {Attempt} \cup conMap /\ conMap \subseteq Servers
  BY DEF IInv, TypeOK
<1>2. Client \in EstablishedCons <=> ServerFlight \subseteq rcvd[Client]
  BY NamesAssumption DEF EstablishedCons, Established, Cons
<1>3. \A x \in EstablishedCons : x # Client => x = dcid /\ Client \in EstablishedCons
  BY <1>1 DEF EstablishedCons, Established, OneServerCompletes, Cons
<1>4. Client \in EstablishedCons => dcid \in Servers
  BY <1>1, <1>2 DEF ClientKnowsServer, ServerFlight
<1> QED BY <1>2, <1>3, <1>4

\* One packet takes the connection at most one step further: the client meets
\* the server, or one of the two ends is established.
LEMMA ProcessImplements ==
  ASSUME IInv, IInv', NEW x \in Cons, NEW p \in net, Arrives(x, p), Process(x, p)
  PROVE  \/ dcid = Attempt /\ dcid' \in Servers /\ EstablishedCons' = EstablishedCons
         \/ /\ dcid \in Servers /\ EstablishedCons = {}
            /\ EstablishedCons' = {Client} /\ dcid' = dcid
         \/ /\ EstablishedCons = {Client}
            /\ EstablishedCons' = {Client, dcid} /\ dcid' = dcid
         \/ dcid' = dcid /\ EstablishedCons' = EstablishedCons
<1>1. /\ \A y \in Cons : rcvd[y] \subseteq rcvd'[y] /\ (y # x => rcvd'[y] = rcvd[y])
      /\ \A i \in rcvd'[x] \ rcvd[x] : i = p.item /\ Usable(p)
  BY ProcessReceives DEF IInv
<1>2. /\ dcid' \in {Attempt} \cup conMap
      /\ dcid' # dcid => dcid = Attempt /\ x = Client
  BY DcidSettles
<1>3. Client \in Cons /\ conMap \subseteq Servers /\ Attempt \notin Servers /\ Client \notin Servers
  BY NamesAssumption DEF Cons, IInv, TypeOK
<1>4. /\ EstablishedCons \subseteq {Client, dcid}
      /\ Client \notin EstablishedCons => EstablishedCons = {}
      /\ Client \in EstablishedCons <=> ServerFlight \subseteq rcvd[Client]
      /\ Client \in EstablishedCons => dcid \in Servers
  BY EstablishedTogether
<1>5. /\ EstablishedCons' \subseteq {Client, dcid'}
      /\ Client \notin EstablishedCons' => EstablishedCons' = {}
      /\ Client \in EstablishedCons' <=> ServerFlight \subseteq rcvd'[Client]
      /\ Client \in EstablishedCons' => dcid' \in Servers
  <2>1. IInv' => (/\ EstablishedCons \subseteq {Client, dcid}
                  /\ Client \notin EstablishedCons => EstablishedCons = {}
                  /\ Client \in EstablishedCons <=> ServerFlight \subseteq rcvd[Client]
                  /\ Client \in EstablishedCons => dcid \in Servers)'
    BY EstablishedTogether, PTL
  <2> QED BY <2>1
<1>6. EstablishedCons \subseteq EstablishedCons'
  BY <1>1 DEF EstablishedCons, Established
<1>7. \A y \in EstablishedCons' \ EstablishedCons : y = x
  BY <1>1 DEF EstablishedCons, Established
<1>8. CASE dcid' # dcid
  <2>1. rcvd[Client] = {}
    BY <1>2, <1>8 DEF IInv, ClientKnowsServer
  <2>2. Client \notin EstablishedCons'
    <3>1. \A i, j \in rcvd'[Client] : i = j
      BY <1>1, <1>2, <1>8, <2>1
    <3> QED BY <1>5, <3>1 DEF ServerFlight
  <2> QED BY <1>2, <1>3, <1>5, <1>6, <1>8, <2>2
<1>9. CASE dcid' = dcid
  BY <1>4, <1>5, <1>6, <1>7, <1>9
<1> QED BY <1>8, <1>9

LEMMA InitImplements == Init => OneConnection!Init
<1> SUFFICES ASSUME Init PROVE OneConnection!Init
  OBVIOUS
<1>1. dcid = Attempt
  BY DEF Init
<1>2. \A x \in Cons : ~Established(x)
  BY DEF Init, Established, ServerFlight
<1> QED BY <1>1, <1>2 DEF OneConnection!Init

LEMMA NextImplements ==
  ASSUME IInv, IInv', [Next]_vars
  PROVE  [OneConnection!Next]_OneConnection!vars
<1>1. ASSUME NEW p \in net, Deliver(p) PROVE [OneConnection!Next]_OneConnection!vars
  <2>1. PICK x \in Cons : Route(x, p) \/ Accept(x, p)
    BY <1>1 DEF Deliver
  <2>2. \/ dcid = Attempt /\ dcid' \in Servers /\ EstablishedCons' = EstablishedCons
        \/ /\ dcid \in Servers /\ EstablishedCons = {}
           /\ EstablishedCons' = {Client} /\ dcid' = dcid
        \/ /\ EstablishedCons = {Client}
           /\ EstablishedCons' = {Client, dcid} /\ dcid' = dcid
        \/ dcid' = dcid /\ EstablishedCons' = EstablishedCons
    BY <2>1, DeliveryArrives, ProcessImplements
  <2> QED BY <2>2 DEF EstablishedCons, OneConnection!Next, OneConnection!Meet, OneConnection!vars,
                      OneConnection!ClientEstablished, OneConnection!ServerEstablished
<1>2. CASE ClientTick \/ (\E p \in net : Lose(p))
           \/ (\E x \in Cons : TimeoutStale(x) \/ TimeoutDue(x)) \/ UNCHANGED vars
  <2>1. dcid' = dcid /\ rcvd' = rcvd
    BY <1>2 DEF ClientTick, Lose, TimeoutStale, TimeoutDue, vars, conVars
  <2>2. EstablishedCons' = EstablishedCons
    BY <2>1 DEF EstablishedCons, Established
  <2> QED BY <2>1, <2>2 DEF EstablishedCons, OneConnection!vars
<1> QED BY <1>1, <1>2 DEF Next

\* The client settles on one connection of the server, and that one is
\* established, after the client's own end and once: the two tasks and the
\* network implement OneHandshake (ep.rs:212-254, con.rs:180-217, 224).
THEOREM HandshakeImplementsOneHandshake == Spec => ImplementsOneHandshake
<1>1. IInv /\ [Next]_vars => [OneConnection!Next]_OneConnection!vars
  BY NextInv, NextImplements
<1> QED BY <1>1, Invariance, InitImplements, PTL DEF Spec, OneConnection!Spec, ImplementsOneHandshake
=============================================================================
