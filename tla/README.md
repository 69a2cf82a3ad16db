# absquic in TLA+

A verification development for [absquic](../src/README.md), a QUIC and http3
transport library for Rust: TLA+ models of its asynchronous tasks and of the
channels between them, TLC configurations that check them on small instances,
and TLAPS proofs that hold for every value of the constants.

Paths below are relative to `src/crates/`; `con.rs` and `ep.rs` without a path
are those of `absquic_quiche/src`.

## 1. The system

absquic runs every QUIC endpoint and every connection as a task of its own. The
protocol itself is the `quiche` library, which never does I/O: the tasks feed it
packets, ask it for its next deadline, and send what it produces.

```
 application            absquic_quiche                      absquic_tokio
                 connect()                    InPak
 QuicheEp     ------------->  ep_task  <---------------- udp_task <- TokioUdpRecv
 QuicheEpRecv <-------------  con_map                                 (the socket)
                 InCon          | InPak                                  ^ Weak
                 http3()        v                                        |
 QuicheCon    ------------->  con_task  ------ one task per packet --> TokioUdp::send
 QuicheConRecv<-------------   ^    |
       Connected, Http3        |    v
                        Timeout|   timer tasks
```

Components, their state and their operations:

| Component | State | Operations | What makes it correct |
|---|---|---|---|
| `con_task` (con.rs:139-420) | the quiche connection, `connected`, `h3_con`, `evt_guard`, `h3_outbound_wait`, `h3_outbound`, `h3_inbound` | process Tick, Timeout, InPak, Http3; schedule a timer; tell the application; poll http3; send | permits conserved, deadlines kept, events in order, calls answered |
| `QuicheCon::http3` (con.rs:115) | a future: waits for a permit, queues, waits for the answer | start, send, cancel | not lost, not answered twice, ends when the connection ends |
| timer tasks (con.rs:213) | a command guard and a deadline | sleep, then send Timeout | guard comes back |
| `QuicheConRecv`, `QuicheEpRecv` | queue of events with guards | receive (drops the guard), be dropped | back-pressure without loss |
| `ep_task` (ep.rs:157-281) | `con_map`, `evt_guard` | route, accept, connect | live connections are reachable, permits conserved |
| `QuicheEp::connect` (ep.rs:119) | a future, a semaphore of its own | start, send, cancel | every call is answered |
| `udp_task` (ep.rs:131-155) | a semaphore | acquire, poll the stream, forward | bounded number of packets under way |
| `TokioUdpRecv`, `TokioUdp`, `Shutdown` (absquic_tokio/src/tokio_udp.rs) | a flag, an `AtomicWaker`, the socket and Weak references to it | poll_next, close_immediate, send | no lost wake-up, errors end the stream, close closes |
| `bound_channel` (bound_multi_send.rs), `TokioRt` (tokio_runtime.rs) | a FIFO semaphore and an unbounded queue | acquire, try_acquire, send, recv | items never exceed the limit |
| `QuicheEpFactory`, `TokioUdpFactory`, the traits and boxed wrappers of absquic_core | none after construction | bind, forward | plumbing |

The central device is `bound_channel`: a bounded channel is an *unbounded* queue
beside a semaphore, and each item travels with a permit, its *guard*, that goes
back to the semaphore when the guard is dropped. Nothing but discipline keeps the
guards right: they move into timer tasks, stay with a task across iterations,
are dropped with a failed send, with a cancelled future, or with everything a
task owns when it returns. Most hazards of this code are about that discipline.

What is hard here, and where a test hardly reaches: tasks that interleave at
every await and, on the multi-threaded runtime, between any two accesses to
shared state; futures dropped at any await; receivers dropped while their sender
works; a task that returns in the middle of an iteration; timers that outlive
what they were set for; packets lost, repeated and reordered; a flag and a waker
that race. `PROJECT.json` lists them one by one under `hazards`.

At this commit the sources do not compile: con.rs:255-261, which should take
requests out of `h3_outbound_wait`, calls a method `H3OutboundProgress` does not
have and matches one result only, and nothing reads `h3_outbound` ("process
outgoing data already in progress" is a comment, con.rs:263). The model takes the
code at its word: a stored request or response stays stored, and its responder is
dropped when it is replaced or when `con_task` returns. `absquic_quiche/src/lib.rs`
lines 18-360 are an older implementation inside a comment and are not modelled.

## 2. The modules

| Module | Models | Extends |
|---|---|---|
| `Permits` | a guard as a number of permits, the FIFO of a semaphore | |
| `ConTask` | one connection: `con_task` and everyone who shares state with it | `Permits` |
| `EpTask` | the endpoint: `ep_task`, `con_map`, `connect()` | `Permits` |
| `TokioUdp` | the udp backend and its reader `udp_task` | `Permits` |
| `TokioChannel` | `bound_channel` over tokio's semaphore and unbounded channel | `Permits` |
| `H3Inbound` | the http3 poll loop of `con_task` with streams and `h3_inbound` | |
| `Handshake` | a client, the connections the server makes of its packets, and the network | `Permits` |
| `ConApi`, `EpApi` | abstract: what the `Con` and `Ep` traits promise an application | |
| `BoundChannel` | abstract: the channel as `ConTask` and `EpTask` use it | `Permits` |
| `H3Messages` | abstract: a message is headers and the data that belongs to them, handed over once | |
| `OneHandshake` | abstract: the one connection a `connect()` call makes | |
| `ConTaskApi`, `EpTaskApi` | the refinement mappings from `ConTask` to `ConApi`, `EpTask` to `EpApi` | the module of that name |
| `MC...` | the instance TLC checks | the module of that name |
| `PermitLemmas` | facts about guards and queues | `Permits` |
| `...Proofs` | the theorems | the module of that name, `PermitLemmas` |

How they fit together:

```
  EpApi        ConApi        H3Messages  OneHandshake  BoundChannel   what is promised
    ^            ^               ^            ^             ^
    | EpTaskApi  | ConTaskApi    |            |             |         refinement (INSTANCE)
  EpTask       ConTask ....... H3Inbound   Handshake   TokioChannel   what the code does
    :            : : (http3 loop)             :             :
    :            : `.......(timers, sends)....'             :
  TokioUdp       `.........(channels in place)..............'
```

A refinement is a TLA+ `INSTANCE ... WITH` and is checked. The dotted lines are
cuts: a module takes from its neighbour what the neighbour's own run shows. `ConTask`
and `EpTask` hold their channels in place, in the form of `BoundChannel`, which
`TokioChannel` implements. `H3Inbound` is the http3 loop of `ConTask` with its streams:
`ConTask` has "absorbed" and "delivered" for it. `Handshake` composes a client's
`con_task`, the routing and accepting of `ep_task` and the server's `con_task`s, and
leaves permits and events to `ConTask`.

**Atomicity.** A task of an async runtime gives way only at an await, and the
state a task owns is touched by nobody else; so one action is the stretch of code
between two awaits, and `pc` (or, in `EpTask`, `cur`) names the await. In `ConTask`
the http3 loop and the send loop are separate positions although no await lies
before the send: this only adds interleavings. In `TokioUdp`, where the shared
state is an atomic flag and an `AtomicWaker` that other threads access, one action
is one access. In `TokioChannel` a permit that is released and the poll of the task
that gets it are two steps.

**Queues and semaphores.** A queue is a sequence. In `ConTask`, `EpTask` and
`BoundChannel` a semaphore is the number of its free permits and, where callers may
wait, the sequence of waiters: the i-th waiter has been given a permit iff `i <= free`,
so it may leave with it whenever it wakes, and `try_acquire` finds one iff
`free > Len(waiters)`. A guard held is `Count(flag)` permits, so conservation is one
equation. `TokioChannel` has the counter, the queue and the hand-over as tokio does
them, and `ImplementsBoundChannel` says that this is the same.

**quiche** is external. `QuicheRecv`, `QuicheOnTimeout` and `QuicheSend` in
`ConTask` say which of the four facts `con_task` observes (`established`, `closed`,
`armed` for a Some timeout, `h3Ready` for events the next polls return) a call may
change, and otherwise choose. A closed connection stays closed and has no timeout.
`H3Inbound` and `Handshake` rely on these facts about quiche: `Headers` comes with
`has_body` false only if the stream ends with it; `Finished` comes after all data was
read, `Reset` at most once; what a reset finds unread is gone; there is a timeout while something is
outstanding that is not declared lost, and no other (no idle timeout is configured), so none
before something was sent; only what a later packet of its space was acknowledged after is
declared lost, without a probe; packets that come before their keys are dropped. `AtomicWaker::wake`, the readiness of the socket and tokio's semaphore are
external as well.

**ConTask.** `TakeCmd` is the receive at con.rs:167 and the five `Do` actions are
the arms of the match, each followed by `SchedTimeout` (con.rs:208-217) in the same
step. `Connect` and `NoConnect` are what happens when `acquire().await` at con.rs:219
completes, up to the http3 loop. `H3Done`, `H3Absorb`, `H3Message` and `H3End` are
one pass of that loop each; `SendLoop` and `SendEnd` end the iteration; `Return` is
any `return` of con_task, with all its locals dropped. `TimerFire`, `EpAccept`,
`EpRoute`, `Http3Start`, `Http3Send`, `Http3Cancel`, `AppRecv`, `AppDropRecv` are
everybody else. `handed = FALSE` initially is the connection ep_task accepts: it is
already running (con.rs:63) but the application does not have it before ep_task
has queued the first packet (ep.rs:244-247).

**H3Inbound.** `frames[s]` and `end[s]` are what arrived on a stream, `read[s]` how far
`con_task` got, `inbound[s]` the entry of `h3_inbound` (`NoEntry` if there is none). A
frame is known by its number, so a message is its headers' number and the numbers of its
body. `PollHeaders`, `PollData` (which drains the body up to the next HEADERS frame),
`PollFinished`, `PollReset`, `PollDone` and `PollError` are the results of one poll; quiche
chooses the stream. `PollError` is every `return` of the loop that does not depend on the
receiver: a body that is reset while it is read ends the connection that way (con.rs:343-345).
Datagrams are read and thrown away (con.rs:357-375) and have no state. `H3Messages` knows
frames but neither a poll nor a map: a message is a HEADERS frame with the data up to the
next one, handed over once and only after the stream has ended.

**Handshake.** One action is one iteration of a `con_task`: take a command, read
`con.timeout()`, spawn the timer task, send. `Process` is an InPak, `ClientTick` the Tick,
`TimeoutDue` and `TimeoutStale` a Timeout that finds a deadline or does not. `Route` and
`Accept` are the two branches of `ep_task`. `net` is the set of packets under way: a packet
leaves in a task of its own that sleeps (con.rs:409), so any of them may be next. The
handshake is five items with acknowledgements: the client's `c1`, the server's flight `s1`,
`s2`, `s3`, of which `s1` brings the keys, and the client's `c2`. `s2` and `s3` share a
packet number space, so quiche may declare `s2` lost (`DeclaredLost`) once `s3` is
acknowledged. What is declared lost has no timeout until it is sent again, and `con_task`
reads `con.timeout()` before it sends: that packet goes out with no timer task asleep for
it. In `ConTask` the same is `QuicheOnTimeout` leaving `armed` FALSE on a connection that is
not closed. Left out: the amplification limit, a client's probe when its server has nothing
to send (one timer more, so the properties are harder without it), and more than one
datagram for a flight of the client. `OneHandshake` is what `connect()` is for: the
client meets one connection of the server, is established, then that one is, and nothing
undoes it. `ImplementsOneHandshake` maps the id the client sends to and the set of
established connections to it.

**TokioUdp.** `Load`, `Register`, `Check` are the three accesses of `is_shutdown`;
`RecvPak`, `RecvErr`, `RecvPending` the results of `poll_recv_from`; `Resume` the next
poll of the task; `CloseStore` and `CloseWake` the two accesses of `shutdown()`. The
flag is Relaxed: AtomicWaker's register and wake order it, which its documentation
promises and the model assumes. `EpTake` is ep_task dropping a command's guard.

**TokioChannel.** `Acquire` is the first poll of `acquire()`, `Wake` the poll after the
hand-over, `CancelWaiting` and `CancelGranted` the future dropped before and after it.
`Send` on a closed channel drops the guard with the item; `Recv`, `DropGuard` and `Close`
are the receiver's. A received guard that is not dropped but sent again with another item,
as a timer task does (con.rs:212-215), is an action of `ConTask` and not of this module:
it only moves a guard, so nothing changes in `PermitsConserved`, but
`WaiterIsServed` is about receivers that let go of their guards, and a chain of timers may
keep its guard for good (finding 1).

**EpTask.** `TakeCmd` is the receive at ep.rs:175; the handlers `DropPak`, `RoutePak`,
`AcceptPak`, `HandleConnect` start when the event permit is there (ep.rs:176) and end
with `Finish`, which drops the command's guard. `con[i]` says whether connection i's
task still runs and `origin[i]` for whom it was made (the attempt of a remote client,
or a `connect()` call). `Forgotten` chooses between the three outcomes of routing: the
packet is queued, there is no permit, or the connection has ended and leaves con_map.
The permit udp_task holds while it polls counts as free here; `TokioUdp` has it.

**Definitions `X_Bug`.** A definition such as `SendEvt_LeaksGuard`, which stands before
`SendEvt`, is `SendEvt` with a plausible bug. The specifications never use it: it is
kept so that each property can be seen to fail when the code it is about is wrong.
`PROJECT.json` says under `mutants` which one breaks which property.

## 3. The runs

| Run | Configuration | Question | Distinct states |
|---|---|---|---|
| `con` | `ConTask.cfg` | are permits, deadlines, events and calls of a connection kept, does what must happen happen, and does the application see what `ConApi` promises? | 165 222 |
| `ep` | `EpTask.cfg` | the same for the endpoint and `EpApi` | 513 034 |
| `udp` | `TokioUdp.cfg` | is a wake-up ever lost, the limit ever broken, an error ever followed by a packet, does a close end the stream? | 13 028 |
| `channel` | `TokioChannel.cfg` | does a permit ever get lost or leave a waiter behind, and is this `BoundChannel`? | 2 522 |
| `h3` | `H3Inbound.cfg` | is each http3 message handed over once, with the data that belongs to its headers, and its entry removed? | 48 983 |
| `handshake` | `Handshake.cfg` | does a handshake complete in any order of packets, is it one handshake, and does it get through once a timer sleeps? | 218 704 |
| six more | one cfg each | what a doc or a message of the code says, refuted: section 4 | |

Run one with `tlc -workers 2 -config ConTask.cfg MCConTask.tla`.

**Bounds.** The limits are 64 in the code. What a limit does shows at its edge, when
the last permit is taken and somebody waits, so the runs use limits of 1 and 2. `con`
has 2 command permits, so that a packet, a call and a timer compete for the one the
Tick leaves, 2 events, so that their order shows, and 2 calls on one stream so that a
response can replace another; `udp` 2 closers (one may take the waker the other would
have used) and 2 senders (sends that overlap); `ep` 2 packets, 1 connect and 1 event
with 2 callers; `channel` 4 senders on 2 permits, so that two can wait behind two;
`h3` two streams of up to four frames (headers, a body in two pieces, trailers) and one
event permit. With one event permit and one Initial, `ep` does not show the order of
several incoming connections; the theorem `EpTaskImplementsEpApi` covers it. Bounds that are not limits of the code: `MaxH3` (events quiche holds),
`MaxInitial` (Initial packets that arrive; together with the callers it bounds the ids
`cid()` gives out), `MaxInbox` (datagrams in the socket), `MaxFrames` (frames on a
stream), `MaxLoss` and `MaxDup` (packets the network loses and repeats), and `MaxTimers`
(timer tasks of a connection that are told apart; more than that count as that many, and
since a timer may fire for nothing at any time no behaviour is lost). They bound the
inputs, not what the tasks do. In `Handshake` the ids `Servers` bound what the server
accepts; there must be more of them than `MaxLoss`, or the lost first packet of the
attempt whose id was spent could not be accepted when it comes again, which the code
always can. The theorems hold for all values.

**Deadlock.** `CHECK_DEADLOCK FALSE` everywhere: the system really may stop. After
`con_task` has returned, every call has been answered and the receiver has been
dropped nothing is left to do; the same holds for a closed socket with no datagram, an
endpoint whose udp stream has ended and a handshake that is complete. What must not stop
is stated as liveness.

**Fairness.** Weak fairness of each task's step: the runtime polls what was woken
(tokio's promise), a sleep ends, a thread inside `close_immediate` or a send goes on.
`WF(AppRecv)`: the application keeps receiving, as both loops of
`absquic_quiche/src/test.rs:45-70` do; without it `con_task` and `ep_task` wait for an
event permit, by design. So `QueuedIsProcessed` and `ConnectAnswered` say nothing of an
application that leaves its events: there the calls wait as well. In `TokioChannel` a sender that has its guard sends (there is no
await between the two in the code) and the receiver goes on. In `Handshake` weak fairness
of `DeliverItem` for each kind of packet (written out with `Deliverable` for its ENABLED):
what the network does not lose arrives; of `TimeoutDue`: a deadline comes. There is no fairness for arriving packets elsewhere, new
calls, a close, an error of quiche, or the end of a connection: nobody has to do any of
these. In `ConTask` fairness of `ConTaskStep` as a whole is one task being polled; which
result quiche returns stays free. No property rests on strong fairness.

What the properties say, beyond their comments:

- `CmdPermits`, `EvtPermits` (both modules), `LimitsKept`, `LimitKept`, `PermitsConserved`:
  every permit is in exactly one place. Since items carry a guard, this bounds each queue,
  and it shows that no path, error, cancellation or return leaks one.
- `DeadlineCovered`: no deadline that was read is forgotten. It says nothing of the
  deadline quiche sets later in the same iteration. Because of that what is sent may have
  no timer task; `TimerGetsItThrough` says that one timer asleep for something outstanding
  is enough for the connection to be established, and `ServerMetDespiteLoss` (section 4)
  that there may be none.
- `AcceptHasPermit`: the `unwrap` at ep.rs:244 is safe although `con_task` already runs.
- `ConnectedFirst`, `CallsTracked`, `LiveIsRouted`, `ErrorIsLast`, `ParkedIsWakeable`:
  order, exactly-once, reachability and wake-ups. `ErrorIsLast` is about the tokio backend;
  ep.rs:193, "this may not be fatal", allows any other backend to go on after an error, and
  `EpTask` takes both for possible.
- `EntriesCurrent`, `NoStaleEntry`, `OneServerCompletes`: entries of a map that belong to
  one stream, or one handshake, while others interleave.
- `AckedIsReceived`: an end stops sending what the other end of its own handshake has, and
  no acknowledgement meant for another connection is the reason.
- `ImplementsConApi`, `ImplementsEpApi`, `ImplementsBoundChannel`, `ImplementsMessages`,
  `ImplementsOneHandshake`: every step is a step of the abstract specification or changes
  nothing of it.
- `EndAnswersCalls`, `QueuedIsProcessed`, `ClosedStopsTimers`, `ShutdownEndsStream`,
  `ConnectAnswered`, `FinishedIsHanded`, `WaiterIsServed`, `CompletesWithoutLoss`,
  `TimerGetsItThrough`: what must happen.

## 4. Findings

Six statements of the repository that the code does not keep; each is a run that TLC
ends with a counterexample.

1. `DropMeansSlowHandler`. ep.rs:221 drops a packet "due to slow connection handler".
   The permits also run out when `con_task` is idle: each command processed while
   `con.timeout()` is Some leaves its permit with a new timer task (con.rs:208-217), so
   with an idle timeout configured 64 packets within it exhaust the channel.
2. `ShutdownReported`. A call pending on a connection quiche has closed is never told
   "ConShutdown" (con.rs:121): `con_task` never asks `is_closed` and owns a sender of its
   own channel (con.rs:144), so it never ends by itself.
3. `CloseReleasesSocket`. absquic_core/src/udp.rs:39 "Immediately shutdown the socket":
   `send` keeps upgrading its Weak (tokio_udp.rs:136) as long as another send holds the
   socket; two threads whose sends overlap keep it open for ever.
4. `OneInConPerAttempt`. absquic_core/src/ep.rs:14 "a new incoming connection": a client
   that repeats its Initial, because the answer is slow or was lost, is accepted again
   (ep.rs:223); con_map knows only the id the server chose. `OneServerCompletes` shows that
   the others never get further, and nothing ends them.
5. `EveryMessageWhole`. absquic_core/src/con.rs:60 and 63, "Headers associated with this
   message", "Body (if any) associated with this message": trailers, or the final headers
   after an interim response, are one more `Headers` event. They become a message of their
   own (con.rs:289-300), or take the place of the entry with its headers and body
   (con.rs:284-287). `ImplementsMessages` shows that what is handed over is still headers
   with the data that follows them, never a mixture; on a stream without trailers that is
   the whole message (`PlainMessagesWhole`).
6. `ServerMetDespiteLoss`. absquic_core/src/ep.rs:43 "Establish a new outgoing
   connection": `con_task` reads `con.timeout()` before it sends (con.rs:208, 386), and
   before the first flight there is none. If that packet is lost no timer task sleeps for
   it, and the client never even meets its server unless another command arrives.

Two observations that contradict no statement. A second response for the same stream
replaces the first in `h3_outbound` and its call gets "ConShutdown" on a live connection
(con.rs:198); `ConApi` has this as `Replace`. And the end of the udp stream is only logged
(ep.rs:183-186): `ep_task` goes on and answers `connect()` with Ok, so "EndpointClosed"
(ep.rs:126) is never returned.

## 5. What is proved

TLAPS checks the theorems below for every value of the constants, from the named
assumptions of the modules: the limits are positive, the command channel of a connection
has at least two permits (ep.rs:244 unwraps the second; the code has 64), model values
of different kinds differ, the set of `connect()` calls is finite, and the streams with
trailers are streams.

| Module | Theorem | States |
|---|---|---|
| `ConTaskProofs` | `TypeCorrect`, `CmdPermitsConserved`, `EvtPermitsConserved`, `DeadlineIsCovered`, `AcceptNeverPanics`, `ConnectedComesFirst` | `Spec => []P` for `TypeOK`, `CmdPermits`, `EvtPermits`, `DeadlineCovered`, `AcceptHasPermit`, `ConnectedFirst` |
| | `CallsAreTracked` | `Spec => []CallsTracked` |
| | `EndLeavesNothing`, `EndReleasesPermits` | after the end no command, guard or responder is left, and every permit is free but those of sleeping timers and undelivered events |
| | `ClosedSpawnsNoTimer` | a closed connection stays closed and spawns no timer task |
| | `ConTaskImplementsConApi` | `Spec => ImplementsConApi`: con_task keeps the promise of the `Con` trait |
| `EpTaskProofs` | `TypeCorrect`, `EvtPermitsConserved`, `LiveStaysRouted`, `LimitsAreKept` | the same for `TypeOK`, `EvtPermits`, `LiveIsRouted`, `LimitsKept` |
| | `CallsAreTracked`, `IdsAreFresh` | the same for `CallsTracked` and `FreshIds` |
| | `EpTaskImplementsEpApi` | `Spec => ImplementsEpApi`: ep_task keeps the promise of the `Ep` trait |
| `TokioUdpProofs` | `TypeCorrect`, `NoLostWakeup`, `LimitIsKept`, `ErrorEndsStream` | the same for `TypeOK`, `ParkedIsWakeable`, `LimitKept`, `ErrorIsLast` |
| `TokioChannelProofs` | `TypeCorrect`, `PermitsAreConserved` | the same for `TypeOK`, `PermitsConserved` |
| | `TokioImplementsBoundChannel` | `Spec => ImplementsBoundChannel`: the channel the other models hold in place is tokio's |
| `H3InboundProofs` | `TypeCorrect`, `NoStaleEntries`, `EntriesAreCurrent`, `PlainMessagesWhole` | the same for `TypeOK`, `NoStaleEntry`, `EntriesCurrent`, and that a message of a stream without trailers is whole and the only one |
| | `H3ImplementsMessages` | `Spec => ImplementsMessages`: the http3 loop hands over the messages `ConEvt::Http3` promises |
| `HandshakeProofs` | `TypeCorrect`, `OneServer`, `AcksAreReceived` | the same for `TypeOK`, `OneServerCompletes`, `AckedIsReceived` |
| | `HandshakeImplementsOneHandshake` | `Spec => ImplementsOneHandshake`: client, endpoint and server connections make one handshake |

Each module proves `Invariance` (and `CallInvariance` for the calls of `ConTaskProofs` and
`EpTaskProofs`) with one lemma per action or group of actions, and derives the rest.
`PermitLemmas` has what they share: what taking a waiter out of a queue leaves, and how
pushing and popping changes the number of elements of a kind (`Among`).

*ConTask.* `TypeOK` is not inductive alone: `cmdFree \in Nat` needs the guards to exist
that are given back, hence `CmdPermits`, which in turn needs that `con_task` holds no
guard when it takes the next one (`NoGuardAtRecv`), or that one would be overwritten.
`AcceptHasPermit` needs that before the hand-over only the Tick's permit is out
(`OnlyTickOut`): no call waits, and queue, guard and timers hold at most one. There the
assumption of two permits is used. `ConnectedFirst` needs that http3 runs only after
Connected (`H3NeedsConnected`). `EndLeavesNothing` is the safety half of `EndAnswersCalls`:
the return drops everything, and a send that comes later finds the channel closed; with
the permit sums the waiting calls then have their permits. `ClosedSpawnsNoTimer` is the
same for `ClosedStopsTimers`, and rests on quiche having no deadline once it is closed.

*Calls, in both tasks.* `CallsTracked` says what each state of a call means for the queue
and the semaphore. It becomes inductive with two facts it does not mention: the command
of a call is in the queue at most once, or the one that is answered would leave a second
one behind, and the semaphore's queue has no call twice, or the one that leaves would
still be waiting.

*EpTask.* `EvtPermits` and `LiveIsRouted` are inductive together with the types.
`LimitsKept` counts the commands of a kind in the queue and in ep_task's hand: each step
moves one guard, and the lemmas `TakeFlight`, `PushFlight` and `FinishFlight` say by how
much the count of each kind changes.

*Refinements.* The step lemmas (`NextApi`) take each action of the task to the action of
the abstract specification it stands for, or show that nothing the application can see
changes. They rest on the invariants: that a response finds its call still waiting is
`CallInv`; that an event fits the abstract limit is `EvtPermits`; that a new connection
is new to the application is `FreshIds` (an id that `cid()` has not given out yet belongs to
nobody).

*TokioUdp.* `ParkedIsWakeable` is the conclusion of a three-part argument. `Armed`: from the
second load on the AtomicWaker has the waker or has used it. `WakeDue`: a poll that got
past the second load although the flag is up was woken or will be, since the close that
set the flag after that load has its wake still to come. `SockArmed`: the socket likewise.
`ErrorIsLast` needs `ErrorShutsDown`: while an error is queued the flag is up and udp_task
is at a place from which it can only find the flag.

*TokioChannel.* Types, `PermitsConserved` and the fact that no permit is free while somebody
waits (`NoIdlePermit`) need each other: a permit that
comes back goes to the first waiter or, if there is none, to the counter, so the counter
is zero while somebody waits; and since every permit is in one place the counter stays
within the limit. In the refinement the granted senders that have not been polled stand in
front of those that wait, in one queue, and the counter counts what they were given: the
lemmas `WithoutLeft` and `WithoutRight` say that leaving either part is leaving the whole.

*H3Inbound.* The invariant of one stream, `StreamSound`, says where `con_task` is in the
frames that arrived: the entry has headers, all data up to the last frame read and nothing
else (`EntryCurrent`), except that trailers may have been read that the entry does not
know; and what quiche has reported the end of has no entry. A message handed over
(`MessageSound`) is a section of its stream that has been read to the end, the stream's
entry has other headers, and `con_task` is still polling until quiche has reported the
end, so that no reset comes in between. So the headers of an entry were never handed over
(`HandedOnce`), and each step that hands over is a step of `H3Messages`. The pieces of a
body make one run of frame numbers (`RunOn`).

*Handshake.* The invariant says what a packet under way knows of its sender (`PacketOK`):
what it acknowledges the sender has received; a packet of the client goes to the id the
client uses now, or is one of its first, which acknowledge nothing; `c2` is sent only with
the server's whole flight received; and a packet of a server comes from a connection
ep_task has made. With `FlightsOK` (only what was sent is outstanding) and
`OnlyMadeReceive` this is inductive: a late packet from another of the server's connections
is one the client cannot use, and no acknowledgement reaches a connection whose packets it
is not about. `ProcessKeeps` is the one long lemma, since every delivery is a `Process`;
`ProcessImplements` shows that a packet lets the client meet a server, establishes one
end, or changes nothing of this.

**Only model-checked.** Liveness under fairness, which is out of the prover's reach:
`EndAnswersCalls`, `QueuedIsProcessed`, `ClosedStopsTimers`, `ShutdownEndsStream`,
`ConnectAnswered`, `FinishedIsHanded`, `WaiterIsServed`, `CompletesWithoutLoss`,
`TimerGetsItThrough`; and the refuted statements of section 4. Every other property that
a run checks is proved. What the model says of quiche, of the network and of tokio's
semaphore is assumed in both.

## 6. What is not modelled, and what could come next

Not modelled, and why:

- what headers, bodies and addresses contain, and datagrams of http3: nothing the tasks do
  depends on them (con.rs:357-375 throws datagrams away);
- `addr()` of the endpoint and the socket: it reads one value;
- the dynamic-dispatch wrappers, boxed futures and re-exports of absquic_core and absquic:
  they forward and keep no state;
- `bind()` of the factories failing: nothing runs yet. What it builds is `Init`;
- the join handle of `spawn`, which nobody in the modelled code awaits, and the instant
  at which a sleep ends: a timer may fire at any time;
- `absquic_quiche/src/lib.rs` 18-360, an older implementation inside a comment;
- quiche's congestion and flow control, and in `Handshake` the amplification limit,
  permits, events and http3: `ConTask` has the permits and events.

What could come next: a refinement of `ConTask` by `H3Inbound`'s http3 loop in place of the
cut between them, and a model of `h3_outbound` once the code reads it (con.rs:255-263).
