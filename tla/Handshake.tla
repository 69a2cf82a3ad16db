----------------------------- MODULE Handshake ------------------------------
(***************************************************************************)
(* Two endpoints and the network between them: one connect() of a client,  *)
(* and the connections the server's ep_task makes of what arrives          *)
(* (absquic_quiche/src/ep.rs 212-254, con.rs 167-217, 379-418).            *)
(*                                                                         *)
(* The network is a set of packets.  Each packet leaves in a task of its   *)
(* own that sleeps first (con.rs:409), so packets arrive in any order; the *)
(* network may also lose and repeat some.                                  *)
(*                                                                         *)
(* One action is one iteration of a con_task: it takes a command, reads    *)
(* con.timeout() and spawns a timer task, and only then sends.  Permits,   *)
(* events and http3 are in ConTask.  The handshake itself is quiche's, and *)
(* external: hello c1, server flight s1, s2 and s3, finished c2; s1 brings *)
(* the keys for s2 and s3, which share a packet number space.              *)
(* quiche drops a packet whose keys it does not have yet, and has a        *)
(* timeout while something it sent is neither acknowledged nor declared    *)
(* lost, and no other when no idle timeout is configured, as in test.rs.   *)
(*                                                                         *)
(* A definition X_Bug that stands before X is X with a plausible bug.      *)
(***************************************************************************)
EXTENDS Naturals, Permits

CONSTANTS
  Client,     \* the client's connection
  Attempt,    \* the dcid the client chose for its first packets
  Servers,    \* ids the server's cid() gives out; bounds what it accepts
  MaxTimers,  \* bound: timer tasks of a connection that are told apart
  MaxLoss,    \* bound: packets the network loses
  MaxDup      \* bound: packets the network repeats

ASSUME NamesAssumption == Client \notin Servers /\ Attempt \notin {Client} \cup Servers
ASSUME BoundsAssumption == MaxTimers \in Nat \ {0} /\ MaxLoss \in Nat /\ MaxDup \in Nat

Cons  == {Client} \cup Servers
Items == {"c1", "c2", "s1", "s2", "s3"}
ServerFlight == {"s1", "s2", "s3"}

VARIABLES
  ticked,    \* the client's con_task has processed its Tick
  conMap,    \* the server's con_map
  dcid,      \* the id the client sends to
  rcvd,      \* the items each connection has received
  inflight,  \* the items it sent that are not acknowledged
  timers,    \* its sleeping timer tasks
  net,       \* packets under way
  lost,      \* packets lost so far
  dups       \* packets repeated so far

conVars == <<ticked, conMap, dcid, rcvd, inflight, timers>>
vars    == <<conVars, net, lost, dups>>

\* A packet has an item or is an acknowledgement only.
Packet == [from : Cons, to : Cons \cup {Attempt}, item : Items \cup {"ack"}, acks : SUBSET Items]

TypeOK ==
  /\ ticked \in BOOLEAN /\ conMap \subseteq Servers
  /\ dcid \in {Attempt} \cup conMap
  /\ rcvd \in [Cons -> SUBSET Items] /\ inflight \in [Cons -> SUBSET Items]
  /\ timers \in [Cons -> 0..MaxTimers]
  /\ net \subseteq Packet
  /\ lost \in 0..MaxLoss /\ dups \in 0..MaxDup

Init ==
  /\ ticked = FALSE /\ conMap = {} /\ dcid = Attempt
  /\ rcvd = [x \in Cons |-> {}] /\ inflight = [x \in Cons |-> {}]
  /\ timers = [x \in Cons |-> 0]
  /\ net = {} /\ lost = 0 /\ dups = 0

-----------------------------------------------------------------------------
(* quiche.                                                                 *)

\* What a connection that has received R has sent.
Flight(x, R) ==
  IF x = Client
  THEN {"c1"} \cup {i \in {"c2"} : ServerFlight \subseteq R}
  ELSE {i \in ServerFlight : "c1" \in R}

\* is_established().
Established(x) ==
  \/ x = Client /\ ServerFlight \subseteq rcvd[x]
  \/ x \in Servers /\ "c2" \in rcvd[x]

\* The client has the keys for s1 and learns the server's id from it; before
\* that, and from any other connection of the server, it can use nothing.
Usable(p) ==
  p.to # Client \/ p.from = dcid \/ (dcid = Attempt /\ p.item = "s1")

\* Loss detection: s2 may be declared lost once s3, a later packet of its space,
\* is acknowledged.  It is sent again, and until then there is no timeout for it.
DeclaredLost(unacked) == SUBSET {i \in unacked : i = "s2" /\ "s3" \notin unacked}

Peer(x, serverId) == IF x = Client THEN serverId ELSE Client

-----------------------------------------------------------------------------
(* One iteration of con_task.                                              *)

Capped(n) == IF n > MaxTimers THEN MaxTimers ELSE n

\* Leaves quiche's deadline to the next packet.
SchedTimeout_Never(x, left, unacked) == timers' = [timers EXCEPT ![x] = left]

\* Takes a fired timer for the end of the matter.
SchedTimeout_Once(x, left, unacked) ==
  timers' = [timers EXCEPT ![x] =
               Capped(left + Count(unacked # {} /\ left = timers[x]))]

\* if let Some(timeout) = con.timeout(), where left timers still sleep.
SchedTimeout(x, left, unacked) ==
  timers' = [timers EXCEPT ![x] = Capped(left + Count(unacked # {}))]

\* The packets of the send loop; unless it carries an item, an acknowledgement
\* goes by itself.
Sent(x, to, items, acks, elicited) ==
  [from : {x}, to : {to}, acks : {acks},
   item : IF items = {} /\ elicited THEN {"ack"} ELSE items]

\* con.recv(p), or nothing if quiche cannot use p; then con.timeout(), then
\* con.send().
Process(x, p) ==
  LET usable  == Usable(p)
      R       == rcvd[x] \cup {i \in Items : usable /\ p.item = i}
      unacked == inflight[x] \ {i \in p.acks : usable}
      new     == Flight(x, R) \ Flight(x, rcvd[x])
      to      == IF x = Client /\ usable THEN p.from ELSE dcid
  IN /\ rcvd' = [rcvd EXCEPT ![x] = R]
     /\ dcid' = IF x = Client THEN to ELSE dcid
     /\ inflight' = [inflight EXCEPT ![x] = unacked \cup new]
     /\ \E again \in DeclaredLost(unacked) :
        LET out == Sent(x, Peer(x, to), new \cup again, R, usable /\ p.item # "ack") IN
        /\ SchedTimeout(x, timers[x], unacked \ again)
        /\ \/ net' = (net \ {p}) \cup out /\ UNCHANGED dups
           \/ net' = net \cup out /\ dups' = dups + 1 /\ dups < MaxDup
     /\ UNCHANGED <<ticked, lost>>

\* ConCmd::Tick of the client: there is no timeout yet, then c1 leaves.
ClientTick ==
  /\ ~ticked /\ ticked' = TRUE
  /\ SchedTimeout(Client, timers[Client], inflight[Client])
  /\ inflight' = [inflight EXCEPT ![Client] = {"c1"}]
  /\ net' = net \cup Sent(Client, dcid, {"c1"}, {}, FALSE)
  /\ UNCHANGED <<conMap, dcid, rcvd, lost, dups>>

\* Any connection of the endpoint takes the packet.
Route_AnyCon(x, p) ==
  /\ p \in net /\ p.to # Attempt
  /\ x = p.to \/ {x, p.to} \subseteq conMap
  /\ Process(x, p)
  /\ UNCHANGED conMap

\* ep_task routes the packet by its dcid.
Route(x, p) ==
  /\ p \in net /\ p.to = x
  /\ x \in {Client} \cup conMap
  /\ Process(x, p)
  /\ UNCHANGED conMap

\* cid(): the ids come in a fixed order.
NextCid == CHOOSE x \in Servers : x \notin conMap

\* Forgets con_map.insert.
Accept_Unmapped(x, p) ==
  /\ p \in net /\ p.to = Attempt
  /\ Servers # conMap /\ x = NextCid /\ UNCHANGED conMap
  /\ Process(x, p)

\* Makes a connection without looking for the id in con_map.
Accept_NoLookup(x, p) ==
  /\ p \in net /\ p.to # Client
  /\ Servers # conMap /\ x = NextCid /\ conMap' = conMap \cup {x}
  /\ Process(x, p)

\* An Initial for an id ep_task does not know becomes a new connection, with an
\* id of its own; its Tick has nothing to send.
Accept(x, p) ==
  /\ p \in net /\ p.to = Attempt
  /\ Servers # conMap /\ x = NextCid /\ conMap' = conMap \cup {x}
  /\ Process(x, p)

\* ConCmd::Timeout: the deadline was an older one, and nothing happens, or what
\* is not acknowledged is sent again.
TimeoutStale(x) ==
  /\ timers[x] > 0
  /\ SchedTimeout(x, timers[x] - 1, inflight[x])
  /\ UNCHANGED <<ticked, conMap, dcid, rcvd, inflight, net, lost, dups>>

TimeoutDue(x) ==
  /\ timers[x] > 0 /\ inflight[x] # {}
  /\ \E again \in DeclaredLost(inflight[x]) :
       SchedTimeout(x, timers[x] - 1, inflight[x] \ again)
  /\ net' = net \cup Sent(x, Peer(x, dcid), inflight[x], rcvd[x], FALSE)
  /\ UNCHANGED <<ticked, conMap, dcid, rcvd, inflight, lost, dups>>

Lose(p) ==
  /\ p \in net /\ net' = net \ {p}
  /\ lost < MaxLoss /\ lost' = lost + 1
  /\ UNCHANGED <<conVars, dups>>

Deliver(p) == \E x \in Cons : Route(x, p) \/ Accept(x, p)

Next ==
  \/ ClientTick
  \/ \E p \in net : Deliver(p) \/ Lose(p)
  \/ \E x \in Cons : TimeoutStale(x) \/ TimeoutDue(x)

Spec == Init /\ [][Next]_vars

\* A packet that arrives has left the network or was repeated: Deliver says so
\* too, and said first it spares TLC most packets.
DeliverItem(i) ==
  \E p \in net : p.item = i /\ (p \in net' => dups' # dups) /\ Deliver(p)

\* DeliverItem(i) can happen: only a packet that asks for a connection beyond
\* Servers, a bound of the model, cannot arrive.
Deliverable(i) == \E p \in net : p.item = i /\ (p.to = Attempt => conMap # Servers)

\* con_task runs, a deadline that was not moved comes, and what the network does
\* not lose arrives: the last line is WF_vars(DeliverItem(i)) with its ENABLED
\* written out, which TLC evaluates faster.
Fairness ==
  /\ WF_vars(ClientTick)
  /\ \A x \in Cons : WF_vars(TimeoutDue(x))
  /\ \A i \in Items \cup {"ack"} : []<>~Deliverable(i) \/ []<><<DeliverItem(i)>>_vars

FairSpec == Spec /\ Fairness
-----------------------------------------------------------------------------
(* Properties.                                                             *)

Complete ==
  /\ Established(Client) /\ inflight[Client] = {}
  /\ Established(dcid) /\ inflight[dcid] = {}

\* Packets overtake each other because each sleeps in its own task
\* (con.rs:409-414), quiche drops those that come too early, and repeated ones
\* make connections that lead nowhere (ep.rs:223); as long as none is lost the
\* client and one connection of the server complete the handshake.
CompletesWithoutLoss == <>(lost > 0 \/ Complete)

\* A timer task sleeps for something that is outstanding.
Timed == \E x \in Cons : timers[x] > 0 /\ inflight[x] # {}

BothEstablished == Established(Client) /\ Established(dcid)

\* Once a timer task sleeps for something, the connection is established, unless
\* more is lost after that: what was lost before is sent again, whether the timer
\* that fires was about an older deadline, what it is about was acknowledged and
\* replaced by the next flight meanwhile, or it was declared lost and is sent with
\* no timer of its own (con.rs:176-180, 208-217, 379-418).
TimerGetsItThrough ==
  \A n \in 1..MaxLoss : (Timed /\ lost = n) ~> (BothEstablished \/ lost > n)

\* A server connection that is established belongs to the client's own
\* handshake: of the connections made of repeated Initials only the one whose
\* s1 the client took up gets further (ep.rs:212-254).
OneServerCompletes ==
  \A x \in Servers : Established(x) => x = dcid /\ Established(Client)

\* The items of x that it does not send again, because x takes them for
\* acknowledged.
Acked(x) == IF x = Client /\ ~ticked THEN {} ELSE Flight(x, rcvd[x]) \ inflight[x]

\* What an end no longer sends again has reached the other end of the client's
\* own handshake: no acknowledgement gets to a connection whose packets it was
\* not about, among repeated Initials and packets in any order (ep.rs:212-222,
\* con.rs:180-217).
AckedIsReceived ==
  \A x \in Cons : Acked(x) # {} =>
    /\ dcid \in Servers /\ x \in {Client, dcid}
    /\ Acked(x) \subseteq rcvd[Peer(x, dcid)]

OneConnection == INSTANCE OneHandshake WITH
  peer        <- dcid,
  established <- {x \in Cons : Established(x)}

\* The connections together make one connection of the connect() call: the
\* client's end is established before the server's, no third one is, and no late
\* or repeated packet undoes it or moves the client to another connection.
ImplementsOneHandshake == OneConnection!Spec

\* "Establish a new outgoing connection" (absquic_core/src/ep.rs:43): QUIC sends
\* again what is lost, so a client whose server is there comes to know it, which
\* is the first step to a connection.
ServerMetDespiteLoss == <>(dcid # Attempt)
=============================================================================
