------------------------------ MODULE TokioUdp ------------------------------
(***************************************************************************)
(* The tokio udp backend (crates/absquic_tokio/src/tokio_udp.rs) and its   *)
(* reader udp_task (crates/absquic_quiche/src/ep.rs).                      *)
(*                                                                         *)
(* TokioUdpRecv owns the socket; each TokioUdp handle has a Weak one that  *)
(* a send upgrades, so the socket is open while the reader or a send lives.*)
(* close_immediate() raises a flag and wakes the reader through an         *)
(* AtomicWaker.  Other threads run between any two accesses to those two,  *)
(* so poll_next is one action per access.  pc is where udp_task is:        *)
(*   "acquire"   limit.acquire().await              (ep.rs:140)            *)
(*   "load"      is_shutdown, the first load        (tokio_udp.rs:37)      *)
(*   "register"  before waker.register              (tokio_udp.rs:40)      *)
(*   "check"     is_shutdown, the second load       (tokio_udp.rs:42)      *)
(*   "recv"      before poll_recv_from              (tokio_udp.rs:177)     *)
(*   "parked"    poll_next returned Pending                                *)
(*   "done"      udp_task has returned and dropped the TokioUdpRecv        *)
(*                                                                         *)
(* AtomicWaker's register and wake are atomic, as its documentation        *)
(* promises, and order the Relaxed flag around them.  A definition X_Bug   *)
(* that stands before X is X with a plausible bug; see the README.         *)
(***************************************************************************)
EXTENDS Naturals, Sequences, Permits

CONSTANTS
  UdpLimit,   \* packets udp_task may have on their way to ep_task (64)
  Closers,    \* threads that call close_immediate()
  Senders,    \* threads that call send()
  MaxInbox    \* bound: datagrams waiting in the socket

ASSUME UdpAssumption == UdpLimit \in Nat \ {0} /\ MaxInbox \in Nat \ {0}

VARIABLES
  pc,          \* where udp_task is
  free,        \* permits in udp_task's limit
  epq,         \* InPak commands on their way to ep_task, each with a permit
  shutdown,    \* the AtomicBool
  waker,       \* the AtomicWaker holds udp_task's waker
  sockWaker,   \* the socket holds udp_task's waker
  woken,       \* udp_task was woken since it last ran
  inbox,       \* datagrams waiting in the socket
  sockErr,     \* an error waits in the socket
  closer,      \* each close_immediate() call
  sender       \* each sender

queueVars == <<free, epq>>
sockVars  == <<sockWaker, inbox, sockErr>>
userVars  == <<closer, sender>>
vars == <<pc, queueVars, shutdown, waker, woken, sockVars, userVars>>

Items == {"pak", "err", "none"}   \* Some(Ok(pak)), Some(Err(_)), None

TypeOK ==
  /\ pc \in {"acquire", "load", "register", "check", "recv", "parked", "done"}
  /\ free \in Nat /\ epq \in Seq(Items)
  /\ shutdown \in BOOLEAN /\ waker \in BOOLEAN /\ sockWaker \in BOOLEAN
  /\ woken \in BOOLEAN /\ sockErr \in BOOLEAN
  /\ inbox \in 0..MaxInbox
  /\ closer \in [Closers -> {"idle", "stored", "done"}]
  /\ sender \in [Senders -> {"idle", "sending", "SocketClosed"}]

\* Somebody holds a strong reference to the socket.
Open == pc # "done" \/ \E s \in Senders : sender[s] = "sending"

Init ==
  /\ pc = "acquire" /\ free = UdpLimit /\ epq = <<>>
  /\ shutdown = FALSE /\ waker = FALSE /\ sockWaker = FALSE /\ woken = FALSE
  /\ inbox = 0 /\ sockErr = FALSE
  /\ closer = [c \in Closers |-> "idle"]
  /\ sender = [s \in Senders |-> "idle"]

\* AtomicWaker::wake takes the waker out and wakes the task, if there is one.
Wake ==
  /\ waker' = FALSE
  /\ woken' = (woken \/ waker)

-----------------------------------------------------------------------------
(* udp_task.                                                               *)

\* Polls the stream first and counts the packet afterwards.
Acquire_Unchecked ==
  /\ pc = "acquire" /\ pc' = "load"
  /\ free' = free - 1
  /\ woken' \in {FALSE, woken}
  /\ UNCHANGED <<epq, shutdown, waker, sockVars, userVars>>

\* A wake-up that came before may have been spent on the semaphore.
Acquire ==
  /\ pc = "acquire" /\ pc' = "load"
  /\ free > 0 /\ free' = free - 1
  /\ woken' \in {FALSE, woken}
  /\ UNCHANGED <<epq, shutdown, waker, sockVars, userVars>>

\* What udp_task does with an item of the stream: it goes to ep_task with the
\* permit.
Deliver(item) == epq' = Append(epq, item) /\ UNCHANGED free

\* poll_next returned None: udp_task passes it on and returns.
End ==
  /\ pc' = "done"
  /\ Deliver("none")
  /\ UNCHANGED <<shutdown, waker, woken, sockVars, userVars>>

\* The first load goes straight to the socket.
Load_SkipsRegister ==
  /\ pc = "load"
  /\ \/ shutdown /\ End
     \/ /\ ~shutdown /\ pc' = "recv"
        /\ UNCHANGED <<queueVars, shutdown, waker, woken, sockVars, userVars>>

Load ==
  /\ pc = "load"
  /\ \/ shutdown /\ End
     \/ /\ ~shutdown /\ pc' = "register"
        /\ UNCHANGED <<queueVars, shutdown, waker, woken, sockVars, userVars>>

\* "AtomicWaker docs say we need to check after too" (tokio_udp.rs:41): does not.
Register_NoCheck ==
  /\ pc = "register" /\ pc' = "recv"
  /\ waker' = TRUE
  /\ UNCHANGED <<queueVars, shutdown, woken, sockVars, userVars>>

Register ==
  /\ pc = "register" /\ pc' = "check"
  /\ waker' = TRUE
  /\ UNCHANGED <<queueVars, shutdown, woken, sockVars, userVars>>

Check ==
  /\ pc = "check"
  /\ \/ shutdown /\ End
     \/ /\ ~shutdown /\ pc' = "recv"
        /\ UNCHANGED <<queueVars, shutdown, waker, woken, sockVars, userVars>>

RecvPak ==
  /\ pc = "recv" /\ pc' = "acquire"
  /\ inbox > 0 /\ inbox' = inbox - 1
  /\ Deliver("pak")
  /\ UNCHANGED <<shutdown, waker, woken, sockWaker, sockErr, userVars>>

\* Leaves the flag alone after an error.
RecvErr_GoesOn ==
  /\ pc = "recv" /\ pc' = "acquire"
  /\ sockErr /\ sockErr' = FALSE
  /\ Deliver("err")
  /\ UNCHANGED <<shutdown, waker, woken, sockWaker, inbox, userVars>>

\* An error shuts the stream down, whatever the error.
RecvErr ==
  /\ pc = "recv" /\ pc' = "acquire"
  /\ sockErr /\ sockErr' = FALSE
  /\ shutdown' = TRUE /\ Wake
  /\ Deliver("err")
  /\ UNCHANGED <<sockWaker, inbox, userVars>>

\* Takes another permit for every poll.
RecvPending_Reacquires ==
  /\ pc = "recv" /\ pc' = "acquire"
  /\ inbox = 0 /\ ~sockErr
  /\ sockWaker' = TRUE
  /\ UNCHANGED <<queueVars, shutdown, waker, woken, inbox, sockErr, userVars>>

RecvPending ==
  /\ pc = "recv" /\ pc' = "parked"
  /\ inbox = 0 /\ ~sockErr
  /\ sockWaker' = TRUE
  /\ UNCHANGED <<queueVars, shutdown, waker, woken, inbox, sockErr, userVars>>

\* The runtime polls the task again.
Resume ==
  /\ pc = "parked" /\ pc' = "load"
  /\ woken /\ woken' = FALSE
  /\ UNCHANGED <<queueVars, shutdown, waker, sockVars, userVars>>

UdpTask ==
  \/ Acquire \/ Load \/ Register \/ Check
  \/ RecvPak \/ RecvErr \/ RecvPending \/ Resume

-----------------------------------------------------------------------------
(* Its surroundings.                                                       *)

\* ep_task is done with a command and drops the permit.
EpTake ==
  /\ epq # <<>> /\ epq' = Tail(epq)
  /\ free' = free + 1
  /\ UNCHANGED <<pc, shutdown, waker, woken, sockVars, userVars>>

\* The socket has something to read and wakes the task that polled it last.
SockReady ==
  /\ Open
  /\ \/ inbox < MaxInbox /\ inbox' = inbox + 1 /\ UNCHANGED sockErr
     \/ ~sockErr /\ sockErr' = TRUE /\ UNCHANGED inbox
  /\ sockWaker' = FALSE
  /\ woken' = (woken \/ sockWaker)
  /\ UNCHANGED <<pc, queueVars, shutdown, waker, userVars>>

\* close_immediate(): the store, then the wake.
CloseStore(c) ==
  /\ closer[c] = "idle" /\ closer' = [closer EXCEPT ![c] = "stored"]
  /\ shutdown' = TRUE
  /\ UNCHANGED <<pc, queueVars, waker, woken, sockVars, sender>>

CloseWake(c) ==
  /\ closer[c] = "stored" /\ closer' = [closer EXCEPT ![c] = "done"]
  /\ Wake
  /\ UNCHANGED <<pc, queueVars, shutdown, sockVars, sender>>

\* send(): the future owns the socket from the start.
Send(s) ==
  /\ sender[s] = "idle"
  /\ sender' = [sender EXCEPT ![s] = IF Open THEN "sending" ELSE "SocketClosed"]
  /\ UNCHANGED <<pc, queueVars, shutdown, waker, woken, sockVars, closer>>

\* The future completes or is dropped; the thread may send again.
SendDone(s) ==
  /\ sender[s] = "sending" /\ sender' = [sender EXCEPT ![s] = "idle"]
  /\ UNCHANGED <<pc, queueVars, shutdown, waker, woken, sockVars, closer>>

Next ==
  \/ UdpTask
  \/ EpTake \/ SockReady
  \/ \E c \in Closers : CloseStore(c) \/ CloseWake(c)
  \/ \E s \in Senders : Send(s) \/ SendDone(s)

Spec == Init /\ [][Next]_vars

\* udp_task is polled when it was woken, ep_task drops each command in the
\* end, a thread inside close_immediate or a send goes on.  Nobody has to
\* close, and no datagram has to come.
Fairness ==
  /\ WF_vars(UdpTask)
  /\ WF_vars(EpTake)
  /\ \A c \in Closers : WF_vars(CloseWake(c))
  /\ \A s \in Senders : WF_vars(SendDone(s))

FairSpec == Spec /\ Fairness
-----------------------------------------------------------------------------
(* Properties.                                                             *)

\* No wake-up is lost, whatever the order of the loads, the store, register
\* and wake (tokio_udp.rs:31-46): when udp_task sleeps it was woken, or both
\* wakers would wake it and a close in progress has its wake still to come.
ParkedIsWakeable ==
  pc = "parked" /\ ~woken =>
    /\ waker /\ sockWaker
    /\ shutdown => \E c \in Closers : closer[c] = "stored"

\* Each permit of udp_task is in its limit, with a packet or with the poll in
\* progress: udp_task never has more than UdpLimit packets under way
\* (ep.rs:138-153).
LimitKept ==
  free + Len(epq) + Count(pc \notin {"acquire", "done"}) = UdpLimit

\* After an error ep_task gets the end of the stream and nothing else: no
\* packet follows an error (tokio_udp.rs:179-182).
ErrorIsLast ==
  \A i, j \in 1..Len(epq) : i < j /\ epq[i] = "err" => epq[j] = "none"

\* A close or an error ends the stream, also when udp_task sleeps, waits for a
\* permit or is in the middle of a poll.
ShutdownEndsStream == shutdown ~> pc = "done"

\* "Immediately shutdown the socket - data in flight may be lost" (udp.rs:39):
\* once close_immediate has returned the socket goes away.
CloseReleasesSocket == \A c \in Closers : closer[c] = "done" ~> ~Open
=============================================================================
