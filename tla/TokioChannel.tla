---------------------------- MODULE TokioChannel ----------------------------
(***************************************************************************)
(* bound_channel on the tokio runtime: BoundMultiSend and its receiver     *)
(* (absquic_quiche/src/bound_multi_send.rs) over TokioSemaphore and the    *)
(* unbounded TokioMultiSend (absquic_tokio/src/tokio_runtime.rs).          *)
(*                                                                         *)
(* tokio::sync::Semaphore is external: a permit that is released goes to   *)
(* the first waiter, and only without one back to the counter; the waiter  *)
(* has it before its task is polled, and gives it back if its future is    *)
(* dropped in between.                                                     *)
(*                                                                         *)
(* A definition X_Bug that stands before X is X with a plausible bug.      *)
(***************************************************************************)
EXTENDS Naturals, Sequences, FiniteSets, Permits

CONSTANTS Senders, Limit

ASSUME LimitAssumption == Limit \in Nat \ {0} /\ IsFiniteSet(Senders)

VARIABLES
  permits,   \* the semaphore's counter
  waiters,   \* senders in its queue, in order
  granted,   \* senders that were given a permit and have not been polled since
  hold,      \* senders that hold a guard
  queue,     \* the unbounded channel: items with their guards, by sender
  out,       \* guards of received items
  closed     \* the receiver was dropped

chanVars == <<queue, out, closed>>
vars     == <<permits, waiters, granted, hold, chanVars>>

In(c, s) == \E i \in 1..Len(s) : s[i] = c

TypeOK ==
  /\ permits \in 0..Limit /\ out \in 0..Limit /\ closed \in BOOLEAN
  /\ waiters \in Seq(Senders) /\ granted \in Seq(Senders) /\ queue \in Seq(Senders)
  /\ hold \subseteq Senders

Init ==
  /\ permits = Limit /\ waiters = <<>> /\ granted = <<>> /\ hold = {}
  /\ queue = <<>> /\ out = 0 /\ closed = FALSE

Idle(c) == ~In(c, waiters) /\ ~In(c, granted) /\ c \notin hold

\* n permits come back: to the first of the waiters w, the rest to the counter.
Release(n, w, g) ==
  LET k == IF n < Len(w) THEN n ELSE Len(w) IN
  /\ permits' = permits + (n - k)
  /\ waiters' = SubSeq(w, k + 1, Len(w))
  /\ granted' = g \o SubSeq(w, 1, k)

\* acquire(), first poll: a permit at once, or a place in the queue.
Acquire(c) ==
  /\ Idle(c)
  /\ IF permits > 0
     THEN permits' = permits - 1 /\ hold' = hold \cup {c} /\ UNCHANGED waiters
     ELSE waiters' = Append(waiters, c) /\ UNCHANGED <<permits, hold>>
  /\ UNCHANGED <<granted, chanVars>>

\* The task that was woken is polled and has its guard.
Wake(c) ==
  /\ \E i \in 1..Len(granted) : granted[i] = c /\ granted' = Without(granted, i)
  /\ hold' = hold \cup {c}
  /\ UNCHANGED <<permits, waiters, chanVars>>

\* Takes a permit that is not there.
TryAcquire_Unchecked(c) ==
  /\ Idle(c)
  /\ permits' = permits - 1 /\ hold' = hold \cup {c}
  /\ UNCHANGED <<waiters, granted, chanVars>>

\* try_acquire(); without a permit it is None and nothing changes.
TryAcquire(c) ==
  /\ Idle(c) /\ permits > 0
  /\ permits' = permits - 1 /\ hold' = hold \cup {c}
  /\ UNCHANGED <<waiters, granted, chanVars>>

\* The permit of a future that was dropped before it was polled is gone.
CancelGranted_LosesPermit(c) ==
  /\ \E i \in 1..Len(granted) : granted[i] = c /\ granted' = Without(granted, i)
  /\ UNCHANGED <<permits, waiters, hold, chanVars>>

\* The future is dropped after it was given a permit, before it was polled.
CancelGranted(c) ==
  /\ \E i \in 1..Len(granted) : granted[i] = c /\ Release(1, waiters, Without(granted, i))
  /\ UNCHANGED <<hold, chanVars>>

CancelWaiting(c) ==
  /\ \E i \in 1..Len(waiters) : waiters[i] = c /\ waiters' = Without(waiters, i)
  /\ UNCHANGED <<permits, granted, hold, chanVars>>

\* The guard stays behind and is dropped when send() returns.
Send_GuardApart(c) ==
  /\ c \in hold /\ hold' = hold \ {c}
  /\ Release(1, waiters, granted)
  /\ queue' = IF closed THEN queue ELSE Append(queue, c)
  /\ UNCHANGED <<out, closed>>

\* send(t, g): the guard travels with the item; a closed channel drops both.
Send(c) ==
  /\ c \in hold /\ hold' = hold \ {c}
  /\ IF closed
     THEN Release(1, waiters, granted) /\ UNCHANGED queue
     ELSE queue' = Append(queue, c) /\ UNCHANGED <<permits, waiters, granted>>
  /\ UNCHANGED <<out, closed>>

\* The guard of a received item is forgotten, not dropped.
Recv_LosesGuard ==
  /\ queue # <<>> /\ queue' = Tail(queue)
  /\ UNCHANGED <<permits, waiters, granted, hold, out, closed>>

Recv ==
  /\ queue # <<>> /\ queue' = Tail(queue) /\ out' = out + 1
  /\ UNCHANGED <<permits, waiters, granted, hold, closed>>

\* The receiver's task is done with an item and drops its guard.
DropGuard ==
  /\ out > 0 /\ out' = out - 1
  /\ Release(1, waiters, granted)
  /\ UNCHANGED <<hold, queue, closed>>

\* The receiver is dropped, and what is queued with it.
Close ==
  /\ ~closed /\ closed' = TRUE
  /\ queue' = <<>>
  /\ Release(Len(queue), waiters, granted)
  /\ UNCHANGED <<hold, out>>

Next ==
  \/ \E c \in Senders :
       \/ Acquire(c) \/ Wake(c) \/ TryAcquire(c)
       \/ CancelGranted(c) \/ CancelWaiting(c) \/ Send(c)
  \/ Recv \/ DropGuard \/ Close

Spec == Init /\ [][Next]_vars

\* Woken tasks are polled, a sender with a guard sends, and the receiver goes on
\* receiving and finishes with what it received.
Fairness ==
  /\ \A c \in Senders : WF_vars(Wake(c)) /\ WF_vars(Send(c))
  /\ WF_vars(Recv) /\ WF_vars(DropGuard)

FairSpec == Spec /\ Fairness
-----------------------------------------------------------------------------
(* Properties.                                                             *)

\* At most Limit items are queued, held or worked on, through cancelled futures,
\* failed sends and a dropped receiver (bound_multi_send.rs:23-35).
PermitsConserved ==
  permits + Len(granted) + Cardinality(hold) + Len(queue) + out = Limit

\* The semaphore with its hand-over is the one ConTask and EpTask use: a permit
\* handed over counts as free, its receiver still as waiting, and no try_acquire
\* overtakes a waiter (bound_multi_send.rs:23-46).
Abstract == INSTANCE BoundChannel WITH
  free <- permits + Len(granted),
  wait <- granted \o waiters

ImplementsBoundChannel == Abstract!Spec

\* Nobody waits for ever while the receiver works: senders that come again and
\* again, cancel or try do not starve one that waits (tokio_runtime.rs:74-85).
WaiterIsServed == \A c \in Senders : In(c, waiters) ~> ~In(c, waiters)
=============================================================================
