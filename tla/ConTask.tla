------------------------------ MODULE ConTask ------------------------------
(***************************************************************************)
(* One QUIC connection of absquic_quiche: con_task, the event loop that    *)
(* owns the quiche connection (crates/absquic_quiche/src/con.rs), and      *)
(* everybody who shares state with it:                                     *)
(*                                                                         *)
(*   - ep_task, which routes received packets to it (ep.rs);               *)
(*   - the timer tasks it spawns for con.timeout();                        *)
(*   - the http3() calls of the application (QuicheCon);                   *)
(*   - the application's event receiver (QuicheConRecv).                   *)
(*                                                                         *)
(* A bounded channel is an unbounded queue and a semaphore: each item      *)
(* travels with a permit ("guard") that returns to the semaphore when the  *)
(* guard is dropped.  The command guard of con_task may outlive the        *)
(* command: it moves into the timer task and comes back with the Timeout.  *)
(*                                                                         *)
(* con_task runs without yielding between two awaits, so one action is one *)
(* such stretch and pc names the await, or the loop, the task is at:       *)
(*   "recv"  con_cmd_recv.recv().await        (con.rs:167)                 *)
(*   "evt"   con_evt_send.acquire().await     (con.rs:219)                 *)
(*   "h3"    the http3 poll loop              (con.rs:266)                 *)
(*   "send"  the send loop                    (con.rs:379)                 *)
(*   "done"  con_task has returned                                         *)
(*                                                                         *)
(* A definition X_Bug that stands before X is X with a plausible bug.  The  *)
(* specification never uses it; see the README.                            *)
(***************************************************************************)
EXTENDS Naturals, Sequences, Permits

CONSTANTS
  CmdLimit,   \* permits of the command channel (64 in the code)
  EvtLimit,   \* permits of the event channel (64 in the code)
  Calls,      \* the http3() calls the application makes
  Refs,       \* the stream ids a response can refer to
  MaxH3       \* bound: http3 events quiche holds for the poll loop

\* ep.rs:244 unwraps a second permit while the first is out with the Tick.
ASSUME LimitsAssumption ==
  /\ CmdLimit \in Nat /\ CmdLimit >= 2
  /\ EvtLimit \in Nat \ {0}
  /\ MaxH3 \in Nat

Request == "request"   \* Opaque::default(), u64::MAX: the item is a request
ASSUME RequestAssumption == Request \notin Refs

VARIABLES
  pc,            \* where con_task is
  cmdq,          \* con_cmd_recv: the queued commands, each with its guard
  cmdFree,       \* permits in the command semaphore
  cmdWait,       \* calls waiting in the semaphore's FIFO
  cmdGuard,      \* con_task holds the guard of the command it processes
  timers,        \* sleeping timer tasks, each holding a guard
  shouldSend,    \* con_task's should_send
  evtq,          \* con_evt_recv: the undelivered events, each with its guard
  evtFree,       \* permits in the event semaphore
  evtGuard,      \* con_task's evt_guard is Some
  recvAlive,     \* the application holds its QuicheConRecv
  connected,     \* con_task's connected
  h3,            \* con_task's h3_con is Some
  established,   \* quiche: the handshake is complete
  closed,        \* quiche: the connection is closed
  armed,         \* quiche: timeout() is Some
  h3Ready,       \* quiche: http3 events the next polls return
  call,          \* state of each http3() call
  ref,           \* the reference of its item
  handed,        \* the QuicheCon was given to the application
  routed         \* ep_task's con_map has the connection

taskVars == <<pc, cmdGuard, shouldSend, connected, h3>>
cmdVars  == <<cmdq, cmdFree, cmdWait>>
evtVars  == <<evtq, evtFree, evtGuard>>
conVars  == <<established, closed, armed, h3Ready>>
callVars == <<call, ref>>
envVars  == <<recvAlive, handed, routed>>
vars     == <<taskVars, cmdVars, timers, evtVars, conVars, callVars, envVars>>

Tick     == [cmd |-> "Tick"]
Timeout  == [cmd |-> "Timeout"]
InPak    == [cmd |-> "InPak"]
Http3(c) == [cmd |-> "Http3", call |-> c]
ConCmd   == {Tick, Timeout, InPak} \cup {Http3(c) : c \in Calls}
ConEvt   == {"Connected", "Http3"}

\* The call's responder is alive: in the queue, in h3_outbound_wait or in h3_outbound.
Sent     == {"queued", "outWait", "outbound"}
Answered == {"ChannelClosed", "ConShutdown", "cancelled"}

TypeOK ==
  /\ pc \in {"recv", "evt", "h3", "send", "done"}
  /\ cmdq \in Seq(ConCmd) /\ cmdFree \in Nat /\ cmdWait \in Seq(Calls)
  /\ timers \in Nat
  /\ evtq \in Seq(ConEvt) /\ evtFree \in Nat
  /\ h3Ready \in 0..MaxH3
  /\ call \in [Calls -> {"idle", "acquire"} \cup Sent \cup Answered]
  /\ ref \in [Calls -> Refs \cup {Request}]
  /\ cmdGuard \in BOOLEAN /\ shouldSend \in BOOLEAN /\ evtGuard \in BOOLEAN
  /\ recvAlive \in BOOLEAN /\ connected \in BOOLEAN /\ h3 \in BOOLEAN
  /\ established \in BOOLEAN /\ closed \in BOOLEAN /\ armed \in BOOLEAN
  /\ handed \in BOOLEAN /\ routed \in BOOLEAN

-----------------------------------------------------------------------------
(* The channels.                                                           *)

\* quiche_con: the channels are new and a Tick is queued with one permit.  An
\* accepted connection is not handed over before its first packet is queued.
Init ==
  /\ pc = "recv" /\ cmdGuard = FALSE /\ shouldSend = FALSE
  /\ cmdq = <<Tick>> /\ cmdFree = CmdLimit - 1 /\ cmdWait = <<>>
  /\ timers = 0
  /\ evtq = <<>> /\ evtFree = EvtLimit /\ evtGuard = FALSE /\ recvAlive = TRUE
  /\ connected = FALSE /\ h3 = FALSE
  /\ established = FALSE /\ closed = FALSE /\ armed = FALSE /\ h3Ready = 0
  /\ call = [c \in Calls |-> "idle"] /\ ref = [c \in Calls |-> Request]
  /\ handed \in BOOLEAN /\ routed = TRUE

\* try_acquire finds a permit: the semaphore is FIFO, so the first permits
\* belong to the calls that wait for one.
Available == cmdFree > Len(cmdWait)

\* Drops a call's command when the channel is about to be full, as if it were udp.
SendCmd_DropsWhenFull(cmd) ==
  IF pc = "done" \/ cmdFree = 1
  THEN UNCHANGED <<cmdq, cmdFree>>
  ELSE cmdq' = Append(cmdq, cmd) /\ cmdFree' = cmdFree - 1

\* send(cmd, guard) where guard was just taken from the semaphore.  Once
\* con_task has returned the channel is closed and the guard is dropped.
SendCmd(cmd) ==
  IF pc = "done"
  THEN UNCHANGED <<cmdq, cmdFree>>
  ELSE cmdq' = Append(cmdq, cmd) /\ cmdFree' = cmdFree - 1

\* evt_guard = acquire().await can complete, at once if con_task has one.
CanHoldEvt == evtGuard \/ evtFree > 0

\* Acquires without looking whether evt_guard is Some.
FreeOnceHeld_NoCheck == evtFree - 1

FreeOnceHeld == evtFree - Count(~evtGuard)

\* con_task goes on with evt_guard unused.
KeepEvtGuard ==
  /\ evtGuard' = TRUE
  /\ evtFree' = FreeOnceHeld
  /\ UNCHANGED evtq

\* Keeps the guard of an event that could not be sent.
SendEvt_LeaksGuard(evt) ==
  /\ evtGuard' = FALSE
  /\ evtFree' = FreeOnceHeld
  /\ evtq' = IF recvAlive THEN Append(evtq, evt) ELSE evtq

\* con_evt_send.send(evt, evt_guard.take()): without a receiver both are dropped.
SendEvt(evt) ==
  /\ evtGuard' = FALSE
  /\ IF recvAlive
     THEN evtq' = Append(evtq, evt) /\ evtFree' = FreeOnceHeld
     ELSE evtFree' = FreeOnceHeld + 1 /\ UNCHANGED evtq

\* Forgets the guards of the commands left in the queue.
ReleasedOnReturn_LeaksQueue == cmdFree + Count(cmdGuard)

ReleasedOnReturn == cmdFree + Len(cmdq) + Count(cmdGuard)

\* con_task returns: its receiver, guards and responders are dropped.  The
\* events already sent stay with the application.
Return ==
  /\ pc' = "done"
  /\ cmdq' = <<>>
  /\ cmdFree' = ReleasedOnReturn
  /\ cmdGuard' = FALSE
  /\ evtFree' = evtFree + Count(evtGuard)
  /\ evtGuard' = FALSE
  /\ call' = [c \in Calls |-> IF call[c] \in Sent THEN "ConShutdown" ELSE call[c]]
  /\ shouldSend' = FALSE
  /\ UNCHANGED <<cmdWait, evtq, timers, connected, h3, conVars, ref, envVars>>

-----------------------------------------------------------------------------
(* quiche::Connection, as con_task calls it.                               *)

\* recv(): fails, or takes the packet in; a stateless reset closes at once.
QuicheRecv ==
  \/ UNCHANGED conVars
  \/ /\ ~closed /\ closed' \in BOOLEAN
     /\ established' \in {established, TRUE}
     /\ armed' \in {FALSE, ~closed'}
     /\ h3Ready' \in IF established' THEN h3Ready..MaxH3 ELSE {h3Ready}

\* on_timeout(): nothing is due, or a timer is: it is cleared or restarted,
\* and the idle and the draining timer close the connection.
QuicheOnTimeout ==
  /\ \/ UNCHANGED <<armed, closed>>
     \/ armed /\ armed' = FALSE /\ closed' \in BOOLEAN
  /\ UNCHANGED <<established, h3Ready>>

\* send() until Done: packets in flight start the loss timer.
QuicheSend ==
  /\ armed' \in {armed, ~closed}
  /\ UNCHANGED <<established, closed, h3Ready>>

-----------------------------------------------------------------------------
(* con_task: one command.                                                  *)

\* Spawns the timer without moving the guard into it.
SchedTimeout_KeepsGuard ==
  /\ timers' = timers + Count(armed')
  /\ cmdGuard' = TRUE

\* Reads con.timeout() before the command was processed.
SchedTimeout_ReadsEarly ==
  /\ timers' = timers + Count(armed)
  /\ cmdGuard' = ~armed

\* Sleeps for some default when con.timeout() is None.
SchedTimeout_Always ==
  /\ timers' = timers + 1
  /\ cmdGuard' = FALSE

\* if let Some(timeout) = con.timeout(): the guard moves into a timer task.
SchedTimeout ==
  /\ timers' = timers + Count(armed')
  /\ cmdGuard' = ~armed'

TakeCmd(cmd) ==
  /\ pc = "recv" /\ pc' = "evt"
  /\ cmdq # <<>> /\ Head(cmdq) = cmd
  /\ cmdq' = Tail(cmdq)
  /\ UNCHANGED <<cmdFree, cmdWait, connected, h3, evtVars, envVars, ref>>

DoTick ==
  /\ TakeCmd(Tick)
  /\ shouldSend' = TRUE
  /\ UNCHANGED <<conVars, call>>
  /\ SchedTimeout

DoTimeout ==
  /\ TakeCmd(Timeout)
  /\ QuicheOnTimeout
  /\ shouldSend' = TRUE
  /\ UNCHANGED call
  /\ SchedTimeout

DoInPak ==
  /\ TakeCmd(InPak)
  /\ QuicheRecv
  /\ shouldSend' = TRUE
  /\ UNCHANGED call
  /\ SchedTimeout

\* Keeps the item and drops its responder.
Stored_DropsRsp(c, place) == IF call[c] = "cancelled" THEN "cancelled" ELSE "ConShutdown"

\* A call whose future was dropped keeps its entry, with nobody to answer.
Stored(c, place) == IF call[c] = "cancelled" THEN "cancelled" ELSE place

\* h3_outbound_wait.push_back.  Nothing takes an item out again: of the
\* results of send_request the loop at con.rs:255 only has StreamBlocked.
DoRequest(c) ==
  /\ TakeCmd(Http3(c))
  /\ ref[c] = Request
  /\ call' = [call EXCEPT ![c] = Stored(c, "outWait")]
  /\ shouldSend' = FALSE
  /\ UNCHANGED conVars
  /\ SchedTimeout

\* h3_outbound.insert: an entry for the same stream is replaced, and dropping
\* its responder answers the earlier call.
DoResponse(c) ==
  /\ TakeCmd(Http3(c))
  /\ ref[c] \in Refs
  /\ call' = [d \in Calls |->
                IF d = c THEN Stored(c, "outbound")
                ELSE IF call[d] = "outbound" /\ ref[d] = ref[c] THEN "ConShutdown"
                ELSE call[d]]
  /\ shouldSend' = FALSE
  /\ UNCHANGED conVars
  /\ SchedTimeout

\* Does not look at con_task's connected.
JustConnected_Repeats == established

JustConnected == established /\ ~connected

\* The handshake has completed: start http3 (if configured, and it may fail)
\* and tell the application.
Connect ==
  /\ pc = "evt" /\ CanHoldEvt
  /\ JustConnected
  /\ connected' = TRUE
  /\ \/ h3' = TRUE /\ shouldSend' = TRUE /\ pc' = "h3"
     \/ UNCHANGED <<h3, shouldSend>> /\ pc' = "send"
  /\ SendEvt("Connected")
  /\ UNCHANGED <<cmdGuard, cmdVars, timers, conVars, callVars, envVars>>

NoConnect ==
  /\ pc = "evt" /\ CanHoldEvt
  /\ ~JustConnected
  /\ pc' = IF h3 THEN "h3" ELSE "send"
  /\ KeepEvtGuard
  /\ UNCHANGED <<cmdGuard, shouldSend, connected, h3, cmdVars, timers, conVars, callVars, envVars>>

\* One pass of the http3 loop: the event permit comes before the poll.
H3Poll ==
  /\ pc = "h3" /\ CanHoldEvt
  /\ UNCHANGED <<cmdGuard, shouldSend, connected, h3, cmdVars, timers,
                 established, closed, armed, callVars, envVars>>

H3Done ==
  /\ h3Ready = 0 /\ UNCHANGED h3Ready
  /\ pc' = "send"
  /\ KeepEvtGuard
  /\ H3Poll

\* Headers of a message with a body, body data, a reset, a datagram.
H3Absorb ==
  /\ h3Ready > 0 /\ h3Ready' = h3Ready - 1
  /\ UNCHANGED pc
  /\ KeepEvtGuard
  /\ H3Poll

\* A complete message goes to the application.
H3Message ==
  /\ recvAlive
  /\ h3Ready > 0 /\ h3Ready' = h3Ready - 1
  /\ UNCHANGED pc
  /\ SendEvt("Http3")
  /\ H3Poll

\* A message nobody can receive, GoAway or an http3 error end con_task.
H3End ==
  /\ pc = "h3" /\ CanHoldEvt
  /\ Return

EndIteration ==
  /\ pc = "send" /\ pc' = "recv"
  /\ cmdFree' = cmdFree + Count(cmdGuard)
  /\ cmdGuard' = FALSE
  /\ shouldSend' = FALSE
  /\ UNCHANGED <<cmdq, cmdWait, connected, h3, timers, evtVars, callVars, envVars>>

SendLoop ==
  /\ IF shouldSend THEN QuicheSend ELSE UNCHANGED conVars
  /\ EndIteration

SendEnd ==
  /\ pc = "send" /\ shouldSend
  /\ Return

ConTaskStep ==
  \/ DoTick \/ DoTimeout \/ DoInPak
  \/ \E c \in Calls : DoRequest(c) \/ DoResponse(c)
  \/ Connect \/ NoConnect
  \/ H3Done \/ H3Absorb \/ H3Message \/ H3End
  \/ SendLoop \/ SendEnd

-----------------------------------------------------------------------------
(* The tasks around it.                                                    *)

\* A timer task wakes and sends its Timeout with the guard it holds.
TimerFire ==
  /\ timers > 0 /\ timers' = timers - 1
  /\ IF pc = "done"
     THEN cmdFree' = cmdFree + 1 /\ UNCHANGED cmdq
     ELSE cmdq' = Append(cmdq, Timeout) /\ UNCHANGED cmdFree
  /\ UNCHANGED <<taskVars, cmdWait, evtVars, conVars, callVars, envVars>>

\* ep_task's accept path: the first packet, then the application gets the
\* connection.  try_acquire().unwrap() panics if there is no permit.
EpAccept ==
  /\ ~handed /\ Available
  /\ SendCmd(InPak)
  /\ handed' = TRUE
  /\ UNCHANGED <<taskVars, cmdWait, timers, evtVars, conVars, callVars, recvAlive, routed>>

\* ep_task routes a packet.  Without a permit it drops the packet, and nothing
\* changes; if con_task is gone the connection leaves con_map.
EpRoute ==
  /\ handed /\ routed /\ Available
  /\ SendCmd(InPak)
  /\ routed' = (pc # "done")
  /\ UNCHANGED <<taskVars, cmdWait, timers, evtVars, conVars, callVars, recvAlive, handed>>

\* The application gets the connection before its first packet is queued.
Http3Start_BeforeAccept(c) ==
  /\ call[c] = "idle"
  /\ call' = [call EXCEPT ![c] = "acquire"]
  /\ \E r \in Refs \cup {Request} : ref' = [ref EXCEPT ![c] = r]
  /\ cmdWait' = Append(cmdWait, c)
  /\ UNCHANGED <<taskVars, cmdq, cmdFree, timers, evtVars, conVars, envVars>>

\* http3(): the call takes its place in the semaphore's queue.
Http3Start(c) ==
  /\ handed /\ call[c] = "idle"
  /\ call' = [call EXCEPT ![c] = "acquire"]
  /\ \E r \in Refs \cup {Request} : ref' = [ref EXCEPT ![c] = r]
  /\ cmdWait' = Append(cmdWait, c)
  /\ UNCHANGED <<taskVars, cmdq, cmdFree, timers, evtVars, conVars, envVars>>

\* The call was given a permit, wakes and sends; the calls that have one may
\* wake in any order.
Http3Send(c) ==
  /\ \E i \in 1..Len(cmdWait) :
       /\ i <= cmdFree /\ cmdWait[i] = c
       /\ cmdWait' = Without(cmdWait, i)
  /\ SendCmd(Http3(c))
  /\ call' = [call EXCEPT ![c] = IF pc = "done" THEN "ChannelClosed" ELSE "queued"]
  /\ UNCHANGED <<taskVars, timers, evtVars, conVars, ref, envVars>>

\* The application drops the future of the call.
Http3Cancel(c) ==
  /\ \/ /\ call[c] = "acquire"
        /\ \E i \in 1..Len(cmdWait) : cmdWait[i] = c /\ cmdWait' = Without(cmdWait, i)
     \/ call[c] \in Sent /\ UNCHANGED cmdWait
  /\ call' = [call EXCEPT ![c] = "cancelled"]
  /\ UNCHANGED <<taskVars, cmdq, cmdFree, timers, evtVars, conVars, ref, envVars>>

\* Gives the item out and keeps its guard.
AppRecv_KeepsGuard ==
  /\ handed /\ recvAlive /\ evtq # <<>>
  /\ evtq' = Tail(evtq)
  /\ UNCHANGED <<taskVars, cmdVars, timers, evtFree, evtGuard, conVars, callVars, envVars>>

\* QuicheConRecv::poll_next drops the guard with the item.
AppRecv ==
  /\ handed /\ recvAlive /\ evtq # <<>>
  /\ evtq' = Tail(evtq)
  /\ evtFree' = evtFree + 1
  /\ UNCHANGED <<taskVars, cmdVars, timers, evtGuard, conVars, callVars, envVars>>

\* Dropping the receiver drops the queued events and their guards.
AppDropRecv ==
  /\ handed /\ recvAlive /\ recvAlive' = FALSE
  /\ evtq' = <<>>
  /\ evtFree' = evtFree + Len(evtq)
  /\ UNCHANGED <<taskVars, cmdVars, timers, evtGuard, conVars, callVars, handed, routed>>

Next ==
  \/ ConTaskStep
  \/ TimerFire
  \/ EpAccept \/ EpRoute
  \/ \E c \in Calls : Http3Start(c) \/ Http3Send(c) \/ Http3Cancel(c)
  \/ AppRecv \/ AppDropRecv

Spec == Init /\ [][Next]_vars

\* The runtime polls every task that was woken, and a sleep ends.  The
\* application keeps receiving as handle_con_recv of test.rs does.
Fairness ==
  /\ WF_vars(ConTaskStep)
  /\ WF_vars(TimerFire)
  /\ WF_vars(EpAccept)
  /\ \A c \in Calls : WF_vars(Http3Send(c))
  /\ WF_vars(AppRecv)

FairSpec == Spec /\ Fairness
-----------------------------------------------------------------------------
(* Properties.                                                             *)

\* No permit of the command channel is lost or made up: each is in the
\* semaphore, with a queued command, with con_task or asleep in a timer task
\* (con.rs:207-217, bound_multi_send.rs).
CmdPermits ==
  cmdFree + Len(cmdq) + Count(cmdGuard) + timers = CmdLimit

\* The same for the event channel: its queue never exceeds the limit, and a
\* receiver that is gone never leaves con_task without a permit (con.rs:219-251).
EvtPermits ==
  evtFree + Len(evtq) + Count(evtGuard) = EvtLimit

\* A deadline con_task read from quiche is never forgotten while it works on
\* the command: a timer task sleeps for it or its Timeout is already queued
\* (con.rs:208-217), whatever the other tasks do meanwhile.
DeadlineCovered ==
  pc \in {"evt", "h3", "send"} /\ armed
    => timers > 0 \/ \E i \in 1..Len(cmdq) : cmdq[i] = Timeout

\* try_acquire().unwrap() at ep.rs:244 never panics: con_task may already work
\* on the Tick and hold its permit, but one is always left.
AcceptHasPermit == ~handed => Available

\* The application sees Connected once and before any http3 message
\* (con.rs:224-251).
ConnectedFirst ==
  /\ ~connected => evtq = <<>>
  /\ \A i \in 2..Len(evtq) : evtq[i] = "Http3"

\* Each call whose item was sent and not yet taken has its command in the
\* queue exactly once: no responder is lost between http3() and con_task, and
\* the semaphore's queue holds exactly the calls that wait (con.rs:115-122).
CallsTracked ==
  \A c \in Calls :
    /\ call[c] = "queued" =>
         \E i \in 1..Len(cmdq) : \A j \in 1..Len(cmdq) : cmdq[j] = Http3(c) <=> j = i
    /\ call[c] = "acquire" <=> \E i \in 1..Len(cmdWait) : cmdWait[i] = c

\* Once con_task has returned no http3() call hangs: the queued ones are
\* dropped with the receiver, the stored ones with the task, and the waiting
\* ones get a permit back and fail to send (con.rs:119-121).
EndAnswersCalls ==
  \A c \in Calls : pc = "done" /\ call[c] \in {"acquire"} \cup Sent
                    ~> call[c] \in Answered

\* As long as the application keeps receiving, con_task gets to every http3
\* command that was queued, behind any number of packets and timeouts.
QueuedIsProcessed ==
  \A c \in Calls : call[c] = "queued" ~> call[c] # "queued"

\* A closed connection lets go of its timers: their permits come back to the
\* command channel and none is armed again (con.rs:208).
ClosedStopsTimers == closed ~> [](timers = 0)

\* "dropping packet post-receive due to slow connection handler" (ep.rs:219-222):
\* a live con_task whose channel has no permit left has work to do.
DropMeansSlowHandler ==
  pc # "done" /\ ~Available => pc # "recv" \/ cmdq # <<>> \/ cmdWait # <<>>

\* "ConShutdown" (con.rs:121): a call pending on a connection that shut down
\* is told so.
ShutdownReported ==
  \A c \in Calls : closed /\ call[c] \in Sent ~> call[c] \notin Sent
=============================================================================
