------------------------------- MODULE EpApi --------------------------------
(***************************************************************************)
(* What the Ep trait and its event receiver promise an application         *)
(* (absquic_core/src/ep.rs 8-121): a connect() call is answered at most    *)
(* once, every connection is a new one that belongs to one call or to one  *)
(* remote client, and incoming ones are reported in the order they were    *)
(* made, with at most EvtLimit of them waiting.                            *)
(***************************************************************************)
EXTENDS Naturals, Sequences

CONSTANTS Callers, Attempts, Cids, Nobody, EvtLimit

VARIABLES
  call,       \* idle, pending, ok, err or cancelled
  owner,      \* for whom each connection was made
  evts,       \* incoming connections the application has not received
  listening   \* the application holds its event receiver

vars == <<call, owner, evts, listening>>

Init ==
  /\ call = [c \in Callers |-> "idle"]
  /\ owner = [i \in Cids |-> Nobody]
  /\ evts = <<>> /\ listening = TRUE

Begin(c) ==
  /\ call[c] = "idle" /\ call' = [call EXCEPT ![c] = "pending"]
  /\ UNCHANGED <<owner, evts, listening>>

Cancel(c) ==
  /\ call[c] = "pending" /\ call' = [call EXCEPT ![c] = "cancelled"]
  /\ UNCHANGED <<owner, evts, listening>>

Fail(c) ==
  /\ call[c] = "pending" /\ call' = [call EXCEPT ![c] = "err"]
  /\ UNCHANGED <<owner, evts, listening>>

New(i, who) == owner[i] = Nobody /\ owner' = [owner EXCEPT ![i] = who]

\* A call that was cancelled may still make its connection, which nobody holds.
Connect(c, i) ==
  /\ New(i, c)
  /\ call[c] \in {"pending", "cancelled"}
  /\ call' = [call EXCEPT ![c] = IF @ = "pending" THEN "ok" ELSE @]
  /\ UNCHANGED <<evts, listening>>

Incoming(a, i) ==
  /\ New(i, a)
  /\ Len(evts) < EvtLimit
  /\ evts' = IF listening THEN Append(evts, i) ELSE evts
  /\ UNCHANGED <<call, listening>>

Receive ==
  /\ listening /\ evts # <<>> /\ evts' = Tail(evts)
  /\ UNCHANGED <<call, owner, listening>>

Unlisten ==
  /\ listening /\ listening' = FALSE /\ evts' = <<>>
  /\ UNCHANGED <<call, owner>>

Next ==
  \/ \E c \in Callers : Begin(c) \/ Cancel(c) \/ Fail(c) \/ \E i \in Cids : Connect(c, i)
  \/ \E a \in Attempts \cup Cids, i \in Cids : Incoming(a, i)
  \/ Receive \/ Unlisten

Spec == Init /\ [][Next]_vars
=============================================================================
