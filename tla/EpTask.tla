------------------------------ MODULE EpTask ------------------------------
(***************************************************************************)
(* The endpoint of absquic_quiche (crates/absquic_quiche/src/ep.rs):       *)
(* ep_task, which owns the map from connection ids to connections, the     *)
(* packets udp_task brings it, the connect() calls of the application, and *)
(* the endpoint's event channel.                                           *)
(*                                                                         *)
(* Packets and connects share one unbounded queue but not one semaphore:   *)
(* a packet holds a permit of udp_task's limit (TokioUdp), a connect one   *)
(* of QuicheEp's limit, and both come back when ep_task is done with the   *)
(* command.  The permit udp_task holds while it polls counts as free here. *)
(*                                                                         *)
(* ep_task awaits in two places: for a command, when cur = NoCmd (ep.rs    *)
(* 174), and for an event permit, before it handles cur (ep.rs:176).       *)
(* Handling is one stretch without an await.  A connection (ConTask) is    *)
(* here only alive or ended.                                               *)
(*                                                                         *)
(* A definition X_Bug that stands before X is X with a plausible bug; see  *)
(* the README.                                                             *)
(***************************************************************************)
EXTENDS Naturals, Sequences, FiniteSets, Permits

CONSTANTS
  UdpLimit,    \* permits of udp_task (64)
  ConLimit,    \* permits of QuicheEp's limit (64)
  EvtLimit,    \* permits of the event channel (64)
  Callers,     \* the connect() calls the application makes
  Attempts,    \* remote attempts to connect: the dcid each client chose
  MaxInitial   \* bound: Initial packets that arrive

ASSUME LimitsAssumption ==
  /\ UdpLimit \in Nat \ {0} /\ ConLimit \in Nat \ {0} /\ EvtLimit \in Nat \ {0}
  /\ MaxInitial \in Nat
  /\ IsFiniteSet(Callers)

\* Bound on cid()'s counter: every connect and every Initial takes one id at
\* most, so it never stops ep_task.
Cids == 1..(Cardinality(Callers) + MaxInitial)

Nobody == 0

ASSUME NamesAssumption == Attempts \cap Nat = {} /\ Callers \cap (Nat \cup Attempts) = {}

VARIABLES
  cmdq,       \* ep_cmd_recv
  cur,        \* the command ep_task works on, with its guard
  udpFree,    \* permits in udp_task's limit
  udpEnded,   \* the udp stream ended
  initials,   \* Initial packets that arrived so far
  conFree,    \* permits in QuicheEp's limit
  conWait,    \* connect() calls waiting in its FIFO
  call,       \* state of each connect() call
  evtq,       \* ep_evt_recv: undelivered InCon events, by connection id
  evtFree,    \* permits in the event semaphore
  evtGuard,   \* ep_task's evt_guard is Some
  recvAlive,  \* the application holds its QuicheEpRecv
  nextCid,    \* the id cid() returns next
  conMap,     \* ids in con_map
  con,        \* state of the connection with each id
  origin      \* who it was made for

udpVars  == <<udpFree, udpEnded, initials>>
callVars == <<conFree, conWait, call>>
evtVars  == <<evtq, evtFree, evtGuard>>
conVars  == <<nextCid, conMap, con, origin>>
vars     == <<cmdq, cur, udpVars, callVars, evtVars, recvAlive, conVars>>

\* A malformed packet or an error of the stream, the stream's end, and a packet
\* with a header.
Junk   == [type |-> "junk"]
None   == [type |-> "none"]
Header == [type : {"Initial", "Short"}, dcid : Attempts \cup Cids]
Pak    == Header \cup {Junk, None}

InPak(p)  == [cmd |-> "InPak", pak |-> p]
NewCon(c) == [cmd |-> "NewCon", call |-> c]
Paks      == {InPak(p) : p \in Pak}
NewCons   == {NewCon(c) : c \in Callers}
EpCmd     == Paks \cup NewCons
NoCmd     == [cmd |-> "NoCmd"]

TypeOK ==
  /\ cmdq \in Seq(EpCmd) /\ cur \in EpCmd \cup {NoCmd}
  /\ udpFree \in Nat /\ udpEnded \in BOOLEAN /\ initials \in 0..MaxInitial
  /\ conFree \in Nat /\ conWait \in Seq(Callers)
  /\ call \in [Callers -> {"idle", "acquire", "queued", "ok", "err", "cancelled"}]
  /\ evtq \in Seq(Cids) /\ evtFree \in Nat
  /\ evtGuard \in BOOLEAN /\ recvAlive \in BOOLEAN
  /\ nextCid \in Nat \ {0} /\ conMap \subseteq Cids
  /\ con \in [Cids -> {"unborn", "live", "ended"}]
  /\ origin \in [Cids -> Attempts \cup Callers \cup Cids \cup {Nobody}]

Init ==
  /\ cmdq = <<>> /\ cur = NoCmd
  /\ udpFree = UdpLimit /\ udpEnded = FALSE /\ initials = 0
  /\ conFree = ConLimit /\ conWait = <<>> /\ call = [c \in Callers |-> "idle"]
  /\ evtq = <<>> /\ evtFree = EvtLimit /\ evtGuard = FALSE /\ recvAlive = TRUE
  /\ nextCid = 1 /\ conMap = {}
  /\ con = [i \in Cids |-> "unborn"] /\ origin = [i \in Cids |-> Nobody]

-----------------------------------------------------------------------------
(* udp_task and the callers.                                               *)

\* A packet arrives: the first flight of an attempt, a packet for an id the
\* endpoint has given out, junk, or the end of the stream.
UdpTask(p) ==
  /\ ~udpEnded /\ udpFree > 0
  /\ p \in Header => p.dcid \in Attempts \cup {i \in Cids : con[i] # "unborn"}
  /\ initials' = initials + Count(p.type = "Initial")
  /\ initials' <= MaxInitial
  /\ udpEnded' = (p = None)
  /\ udpFree' = udpFree - 1
  /\ cmdq' = Append(cmdq, InPak(p))
  /\ UNCHANGED <<cur, callVars, evtVars, recvAlive, conVars>>

\* connect(): the call takes its place in the semaphore's queue.
ConnectStart(c) ==
  /\ call[c] = "idle" /\ call' = [call EXCEPT ![c] = "acquire"]
  /\ conWait' = Append(conWait, c)
  /\ UNCHANGED <<cmdq, cur, udpVars, conFree, evtVars, recvAlive, conVars>>

\* The call has its permit, wakes and sends the command with it.
ConnectSend(c) ==
  /\ \E i \in 1..Len(conWait) :
       i <= conFree /\ conWait[i] = c /\ conWait' = Without(conWait, i)
  /\ conFree' = conFree - 1
  /\ cmdq' = Append(cmdq, NewCon(c))
  /\ call' = [call EXCEPT ![c] = "queued"]
  /\ UNCHANGED <<cur, udpVars, evtVars, recvAlive, conVars>>

\* The application drops the future.
ConnectCancel(c) ==
  /\ \/ /\ call[c] = "acquire"
        /\ \E i \in 1..Len(conWait) : conWait[i] = c /\ conWait' = Without(conWait, i)
     \/ call[c] = "queued" /\ UNCHANGED conWait
  /\ call' = [call EXCEPT ![c] = "cancelled"]
  /\ UNCHANGED <<cmdq, cur, udpVars, conFree, evtVars, recvAlive, conVars>>

-----------------------------------------------------------------------------
(* ep_task.                                                                *)

TakeCmd ==
  /\ cur = NoCmd
  /\ cmdq # <<>> /\ cur' = Head(cmdq) /\ cmdq' = Tail(cmdq)
  /\ UNCHANGED <<udpVars, callVars, evtVars, recvAlive, conVars>>

\* evt_guard = acquire().await can complete, at once if ep_task has one.
CanHoldEvt == evtGuard \/ evtFree > 0

\* Acquires without looking whether evt_guard is Some.
FreeOnceHeld_NoCheck == evtFree - 1

FreeOnceHeld == evtFree - Count(~evtGuard)

KeepEvtGuard ==
  /\ evtGuard' = TRUE
  /\ evtFree' = FreeOnceHeld
  /\ UNCHANGED evtq

\* The guard of an event nobody can receive is kept by mistake.
SendInCon_LeaksGuard(i) ==
  /\ evtGuard' = FALSE
  /\ evtFree' = FreeOnceHeld
  /\ evtq' = IF recvAlive THEN Append(evtq, i) ELSE evtq

\* ep_evt_send.send(InCon, evt_guard.take()): without a receiver both are dropped.
SendInCon(i) ==
  /\ evtGuard' = FALSE
  /\ IF recvAlive
     THEN evtq' = Append(evtq, i) /\ evtFree' = FreeOnceHeld
     ELSE evtFree' = FreeOnceHeld + 1 /\ UNCHANGED evtq

\* Gives every guard back to udp_task.
Finish_OneLimit ==
  /\ cur' = NoCmd
  /\ udpFree' = udpFree + 1
  /\ UNCHANGED <<cmdq, conFree, conWait, udpEnded, initials, recvAlive>>

\* The end of the iteration: the guard of the command is dropped.
Finish ==
  /\ cur' = NoCmd
  /\ udpFree' = udpFree + Count(cur.cmd = "InPak")
  /\ conFree' = conFree + Count(cur.cmd = "NewCon")
  /\ UNCHANGED <<cmdq, conWait, udpEnded, initials, recvAlive>>

\* Reads the counter without adding to it.
NextCid_Same == nextCid \in Cids /\ UNCHANGED nextCid

\* cid() spends an id, whatever becomes of the connection.
NextCid == nextCid \in Cids /\ nextCid' = nextCid + 1

\* quiche_con: con_task is running when the handle is given out.
NewConnection(who) ==
  /\ con' = [con EXCEPT ![nextCid] = "live"]
  /\ conMap' = conMap \cup {nextCid}
  /\ origin' = [origin EXCEPT ![nextCid] = who]

HandlePak == cur.cmd = "InPak" /\ CanHoldEvt /\ Finish /\ UNCHANGED call

\* Malformed, an error, the end of the stream, or a dcid nobody has.
DropPak ==
  /\ HandlePak
  /\ cur.pak.type # "Initial"
  /\ cur.pak \in Header => cur.pak.dcid \notin conMap
  /\ KeepEvtGuard
  /\ UNCHANGED conVars

\* Forgets a connection that has no permit left, too.
Forgotten_IfFull(i) == conMap' = conMap \/ conMap' = conMap \ {i}

\* A live connection takes the packet or has no permit and misses it.  One that
\* has ended refuses it and is forgotten, unless its timers hold every permit.
Forgotten(i) ==
  \/ UNCHANGED conMap
  \/ con[i] = "ended" /\ conMap' = conMap \ {i}

RoutePak ==
  /\ HandlePak
  /\ cur.pak \in Header /\ cur.pak.dcid \in conMap
  /\ Forgotten(cur.pak.dcid)
  /\ KeepEvtGuard
  /\ UNCHANGED <<nextCid, con, origin>>

\* A client's Initial: quiche::accept may fail, which still spends an id.
AcceptPak ==
  /\ HandlePak
  /\ cur.pak.type = "Initial" /\ cur.pak.dcid \notin conMap
  /\ NextCid
  /\ \/ NewConnection(cur.pak.dcid) /\ SendInCon(nextCid)
     \/ KeepEvtGuard /\ UNCHANGED <<conMap, con, origin>>

\* rsp() in the success path only.
Answer_OnlyOk(result) == IF result = "ok" THEN "ok" ELSE "queued"

Answer(result) == result

\* quiche::connect may fail.  A call whose future was dropped drops its result.
HandleConnect(c) ==
  /\ cur = NewCon(c) /\ CanHoldEvt /\ Finish
  /\ NextCid
  /\ KeepEvtGuard
  /\ \E result \in {"ok", "err"} :
       /\ call' = [call EXCEPT ![c] = IF @ = "queued" THEN Answer(result) ELSE @]
       /\ IF result = "ok" THEN NewConnection(c) ELSE UNCHANGED <<conMap, con, origin>>

EpTaskStep ==
  \/ TakeCmd \/ DropPak \/ RoutePak \/ AcceptPak
  \/ \E c \in Callers : HandleConnect(c)

-----------------------------------------------------------------------------
(* Connections and the application.                                        *)

\* con_task returns (ConTask); nothing tells ep_task.
ConEnd(i) ==
  /\ con[i] = "live" /\ con' = [con EXCEPT ![i] = "ended"]
  /\ UNCHANGED <<cmdq, cur, udpVars, callVars, evtVars, recvAlive, nextCid, conMap, origin>>

AppRecv ==
  /\ recvAlive /\ evtq # <<>>
  /\ evtq' = Tail(evtq) /\ evtFree' = evtFree + 1
  /\ UNCHANGED <<cmdq, cur, udpVars, callVars, evtGuard, recvAlive, conVars>>

AppDropRecv ==
  /\ recvAlive /\ recvAlive' = FALSE
  /\ evtq' = <<>> /\ evtFree' = evtFree + Len(evtq)
  /\ UNCHANGED <<cmdq, cur, udpVars, callVars, evtGuard, conVars>>

Next ==
  \/ EpTaskStep
  \/ \E p \in Pak : UdpTask(p)
  \/ \E c \in Callers : ConnectStart(c) \/ ConnectSend(c) \/ ConnectCancel(c)
  \/ \E i \in Cids : ConEnd(i)
  \/ AppRecv \/ AppDropRecv

Spec == Init /\ [][Next]_vars

\* The runtime polls what was woken; the application keeps receiving, as
\* test.rs does.
Fairness ==
  /\ WF_vars(EpTaskStep)
  /\ \A c \in Callers : WF_vars(ConnectSend(c))
  /\ WF_vars(AppRecv)

FairSpec == Spec /\ Fairness
-----------------------------------------------------------------------------
(* Properties.                                                             *)

\* The commands of one kind ep_task has yet to finish.
InFlight(cmds) == Among(cmdq, cmds) + Count(cur \in cmds)

\* Packets and connects give their permits back each to its own semaphore, so
\* a flood of one never eats the room of the other, and the queue they share
\* is bounded (ep.rs:57, 70, 123-126, 138-151).
LimitsKept ==
  /\ udpFree + InFlight(Paks) = UdpLimit
  /\ conFree + InFlight(NewCons) = ConLimit

\* No event permit is lost, whether the application listens or not
\* (ep.rs:176-178, 249-256).
EvtPermits == evtFree + Len(evtq) + Count(evtGuard) = EvtLimit

\* A connection that runs can be reached: only one that has ended leaves
\* con_map, however slow it is and however many packets it missed
\* (ep.rs:212-222).
LiveIsRouted == \A i \in Cids : con[i] = "live" => i \in conMap

\* Each pending connect() is answered by exactly one command: the queue or
\* ep_task has it once (ep.rs:119-128).
CallsTracked ==
  \A c \in Callers : call[c] = "queued" =>
    Cardinality({i \in 1..Len(cmdq) : cmdq[i] = NewCon(c)}) + Count(cur = NewCon(c)) = 1

\* As long as the application takes its incoming connections, each connect()
\* ends, however many others compete for permits (ep.rs:119-128, 259-278).
ConnectAnswered ==
  \A c \in Callers : call[c] = "acquire" ~> call[c] \in {"ok", "err", "cancelled"}

\* "Received a new incoming connection" (absquic_core/src/ep.rs:14): an attempt
\* of a client becomes one connection.
OneInConPerAttempt ==
  \A i, j \in Cids : origin[i] \in Attempts /\ origin[j] = origin[i] => i = j
=============================================================================
