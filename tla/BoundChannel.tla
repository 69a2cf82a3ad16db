---------------------------- MODULE BoundChannel ----------------------------
(***************************************************************************)
(* What bound_channel (absquic_quiche/src/bound_multi_send.rs) promises    *)
(* the tasks that use it, in the form ConTask and EpTask rely on: the free *)
(* permits are a number and the waiters a sequence, and the i-th waiter    *)
(* may go on once i permits are free, whoever wakes first.                 *)
(***************************************************************************)
EXTENDS Naturals, Sequences, Permits

CONSTANTS Senders, Limit

VARIABLES
  free,    \* permits nobody has taken
  wait,    \* senders in acquire().await, in the order they came
  hold,    \* senders that hold a guard
  queue,   \* queued items, each with its guard, by sender
  out,     \* guards of received items
  closed   \* the receiver was dropped

vars == <<free, wait, hold, queue, out, closed>>

Init ==
  /\ free = Limit /\ wait = <<>> /\ hold = {}
  /\ queue = <<>> /\ out = 0 /\ closed = FALSE

Idle(c) == c \notin hold /\ \A i \in 1..Len(wait) : wait[i] # c

Wait(c) ==
  /\ Idle(c)
  /\ wait' = Append(wait, c)
  /\ UNCHANGED <<free, hold, queue, out, closed>>

Take(c) ==
  /\ \E i \in 1..Len(wait) : i <= free /\ wait[i] = c /\ wait' = Without(wait, i)
  /\ free' = free - 1
  /\ hold' = hold \cup {c}
  /\ UNCHANGED <<queue, out, closed>>

\* Nobody overtakes those who wait.
TakeAtOnce(c) ==
  /\ Idle(c) /\ free > Len(wait)
  /\ free' = free - 1
  /\ hold' = hold \cup {c}
  /\ UNCHANGED <<wait, queue, out, closed>>

GiveUp(c) ==
  /\ \E i \in 1..Len(wait) : wait[i] = c /\ wait' = Without(wait, i)
  /\ UNCHANGED <<free, hold, queue, out, closed>>

Send(c) ==
  /\ c \in hold /\ hold' = hold \ {c}
  /\ IF closed
     THEN free' = free + 1 /\ UNCHANGED queue
     ELSE queue' = Append(queue, c) /\ UNCHANGED free
  /\ UNCHANGED <<wait, out, closed>>

Recv ==
  /\ queue # <<>> /\ queue' = Tail(queue)
  /\ out' = out + 1
  /\ UNCHANGED <<free, wait, hold, closed>>

Drop ==
  /\ out > 0 /\ out' = out - 1
  /\ free' = free + 1
  /\ UNCHANGED <<wait, hold, queue, closed>>

Close ==
  /\ ~closed /\ closed' = TRUE
  /\ queue' = <<>> /\ free' = free + Len(queue)
  /\ UNCHANGED <<wait, hold, out>>

Next ==
  \/ \E c \in Senders : Wait(c) \/ Take(c) \/ TakeAtOnce(c) \/ GiveUp(c) \/ Send(c)
  \/ Recv \/ Drop \/ Close

Spec == Init /\ [][Next]_vars
=============================================================================
