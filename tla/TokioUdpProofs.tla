--------------------------- MODULE TokioUdpProofs ---------------------------
(***************************************************************************)
(* Proofs about TokioUdp for every limit, every number of closers and      *)
(* senders, and every size of the socket's buffer.                         *)
(***************************************************************************)
EXTENDS TokioUdp, PermitLemmas, SequenceTheorems, TLAPS

\* From the second load on, the AtomicWaker has the waker or has used it.
Armed == pc \in {"check", "recv", "parked"} => waker \/ woken

\* A poll that missed the flag is woken, or will be: the close that set the
\* flag after the second load has its wake still to come.
WakeDue ==
  pc \in {"recv", "parked"} /\ shutdown
    => woken \/ \E c \in Closers : closer[c] = "stored"

SockArmed == pc = "parked" => sockWaker \/ woken

\* While an error is on its way, udp_task can only find the flag.
ErrorShutsDown ==
  (\E i \in 1..Len(epq) : epq[i] = "err")
    => shutdown /\ pc \in {"acquire", "load", "done"}

WakeInv == Armed /\ WakeDue /\ SockArmed

IInv == TypeOK /\ WakeInv /\ LimitKept /\ ErrorShutsDown /\ ErrorIsLast

\* The poll in progress holds one permit.
Held == Count(pc \notin {"acquire", "done"})

\* Between two polls nothing is held, during a poll one permit is.
LEMMA HeldValue ==
  ASSUME TypeOK
  PROVE  /\ pc \in {"acquire", "done"} => Held = 0
         /\ pc \notin {"acquire", "done"} => Held = 1
BY DEF Held, Count

\* The numbers and the queue of the state.
LEMMA NumTypes ==
  ASSUME TypeOK
  PROVE  free \in Nat /\ epq \in Seq(Items) /\ Len(epq) \in Nat
BY LenProperties DEF TypeOK

\* A fresh endpoint satisfies every part of the invariant.
LEMMA InitIInv == Init => IInv
<1>. SUFFICES ASSUME Init PROVE IInv
  OBVIOUS
<1>1. TypeOK
  <2>1. epq \in Seq(Items)
    BY EmptySeq DEF Init
  <2>2. free \in Nat /\ inbox \in 0..MaxInbox
    BY UdpAssumption DEF Init
  <2>. QED  BY <2>1, <2>2, Zenon DEF Init, TypeOK
<1>2. WakeInv
  BY DEF Init, WakeInv, Armed, WakeDue, SockArmed
<1>3. LimitKept
  <2>1. Held = 0
    BY <1>1, HeldValue DEF Init
  <2>. QED  BY <2>1, UdpAssumption DEF Init, LimitKept, Held
<1>4. ErrorShutsDown /\ ErrorIsLast
  BY DEF Init, ErrorShutsDown, ErrorIsLast
<1>. QED  BY <1>1, <1>2, <1>3, <1>4 DEF IInv

\* Types, step by step.
LEMMA TypeStep == TypeOK /\ [Next]_vars => TypeOK'
<1>. SUFFICES ASSUME TypeOK, [Next]_vars PROVE TypeOK'
  OBVIOUS
<1>. USE NumTypes DEF queueVars, sockVars, userVars
<1>1. CASE Acquire
  <2>1. free' \in Nat
    BY <1>1 DEF Acquire
  <2>2. woken' \in BOOLEAN
    BY <1>1 DEF Acquire, TypeOK
  <2>. QED  BY <1>1, <2>1, <2>2, Zenon DEF Acquire, TypeOK
<1>2. CASE Load \/ Check
  <2>1. CASE End
    BY <2>1, Push DEF End, Deliver, Items, TypeOK
  <2>2. CASE ~End
    BY <1>2, <2>2 DEF Load, Check, TypeOK
  <2>. QED  BY <2>1, <2>2
<1>3. CASE Register
  BY <1>3 DEF Register, TypeOK
<1>4. CASE RecvPak
  <2>1. epq' \in Seq(Items)
    BY <1>4, Push DEF RecvPak, Deliver, Items
  <2>2. pc' = "acquire" /\ free' \in Nat /\ inbox' \in 0..MaxInbox
    BY <1>4, UdpAssumption DEF RecvPak, Deliver, TypeOK
  <2>3. UNCHANGED <<shutdown, waker, woken, sockWaker, sockErr, closer, sender>>
    BY <1>4 DEF RecvPak
  <2>. QED  BY <2>1, <2>2, <2>3 DEF TypeOK
<1>5. CASE RecvErr
  <2>1. epq' \in Seq(Items)
    BY <1>5, Push DEF RecvErr, Deliver, Items
  <2>2. /\ woken' \in BOOLEAN /\ waker' \in BOOLEAN
        /\ shutdown' \in BOOLEAN /\ sockErr' \in BOOLEAN
    BY <1>5, Zenon DEF RecvErr, Wake
  <2>3. free' \in Nat /\ inbox' \in 0..MaxInbox /\ UNCHANGED <<sockWaker, closer, sender>>
    BY <1>5 DEF RecvErr, Deliver, TypeOK
  <2>4. pc' = "acquire"
    BY <1>5 DEF RecvErr
  <2>. QED  BY <2>1, <2>2, <2>3, <2>4 DEF TypeOK
<1>6. CASE RecvPending \/ Resume
  BY <1>6 DEF RecvPending, Resume, TypeOK
<1>7. CASE EpTake
  BY <1>7, Pop DEF EpTake, TypeOK
<1>8. CASE SockReady
  <2>1. inbox' \in 0..MaxInbox
    BY <1>8, UdpAssumption DEF SockReady, TypeOK
  <2>2. woken' \in BOOLEAN /\ sockWaker' \in BOOLEAN /\ sockErr' \in BOOLEAN
    BY <1>8 DEF SockReady, TypeOK
  <2>. QED  BY <1>8, <2>1, <2>2, Zenon DEF SockReady, TypeOK
<1>9. ASSUME NEW c \in Closers, CloseStore(c) \/ CloseWake(c) PROVE TypeOK'
  BY <1>9 DEF CloseStore, CloseWake, Wake, TypeOK
<1>10. ASSUME NEW s \in Senders, Send(s) \/ SendDone(s) PROVE TypeOK'
  BY <1>10 DEF Send, SendDone, TypeOK
<1>11. CASE UNCHANGED vars
  BY <1>11 DEF vars, TypeOK
<1>. QED
  BY <1>1, <1>2, <1>3, <1>4, <1>5, <1>6, <1>7, <1>8, <1>9, <1>10, <1>11 DEF Next, UdpTask

\* The wake-ups, step by step.
LEMMA WakeStep == TypeOK /\ WakeInv /\ [Next]_vars => WakeInv'
<1>. SUFFICES ASSUME TypeOK, WakeInv, [Next]_vars PROVE WakeInv'
  OBVIOUS
<1>. USE DEF WakeInv, Armed, WakeDue, SockArmed, queueVars, sockVars, userVars
<1>1. CASE Acquire \/ RecvPak \/ RecvErr \/ Resume
  BY <1>1 DEF Acquire, RecvPak, RecvErr, Resume
<1>2. CASE Load \/ Check
  BY <1>2 DEF Load, Check, End
<1>3. CASE Register
  BY <1>3 DEF Register
<1>4. CASE RecvPending
  BY <1>4 DEF RecvPending
<1>5. CASE EpTake
  BY <1>5 DEF EpTake
<1>6. CASE SockReady
  BY <1>6 DEF SockReady
<1>7. ASSUME NEW c \in Closers, CloseStore(c) PROVE WakeInv'
  <2>1. closer'[c] = "stored"
    BY <1>7 DEF CloseStore, TypeOK
  <2>. QED  BY <1>7, <2>1 DEF CloseStore
<1>8. ASSUME NEW c \in Closers, CloseWake(c) PROVE WakeInv'
  BY <1>8 DEF CloseWake, Wake
<1>9. ASSUME NEW s \in Senders, Send(s) \/ SendDone(s) PROVE WakeInv'
  BY <1>9 DEF Send, SendDone
<1>10. CASE UNCHANGED vars
  BY <1>10 DEF vars
<1>. QED
  BY <1>1, <1>2, <1>3, <1>4, <1>5, <1>6, <1>7, <1>8, <1>9, <1>10 DEF Next, UdpTask

\* What a delivered item does to the queue.
LEMMA Delivered ==
  ASSUME TypeOK, NEW item \in Items, Deliver(item)
  PROVE  /\ free' = free /\ Len(epq') = Len(epq) + 1
         /\ \A i \in 1..Len(epq) : epq'[i] = epq[i]
         /\ epq'[Len(epq) + 1] = item
BY NumTypes, Push DEF Deliver

\* What ep_task taking a command does to the queue.
LEMMA Taken ==
  ASSUME TypeOK, EpTake
  PROVE  /\ free' = free + 1 /\ Len(epq') = Len(epq) - 1 /\ Len(epq) >= 1
         /\ \A i \in 1..Len(epq') : epq'[i] = epq[i + 1]
BY NumTypes, Pop DEF EpTake

\* The permits, step by step.
LEMMA LimitStep == TypeOK /\ LimitKept /\ [Next]_vars => LimitKept'
<1>. SUFFICES ASSUME TypeOK, LimitKept, [Next]_vars PROVE LimitKept'
  OBVIOUS
<1>0. /\ free + Len(epq) + Held = UdpLimit
      /\ free \in Nat /\ Len(epq) \in Nat /\ Held \in 0..1
  BY NumTypes, HeldValue DEF LimitKept, Held
<1>held. /\ pc \in {"acquire", "done"} => Held = 0
         /\ pc \notin {"acquire", "done"} => Held = 1
  BY HeldValue
<1>held2. /\ pc' \in {"acquire", "done"} => Held' = 0
          /\ pc' \notin {"acquire", "done"} => Held' = 1
  BY DEF Held, Count
<1>. SUFFICES free' + Len(epq') + Held' = UdpLimit
  BY DEF LimitKept, Held
<1>1. CASE Acquire
  <2>1. free' = free - 1 /\ epq' = epq /\ Held = 0 /\ Held' = 1
    BY <1>1, <1>held, <1>held2 DEF Acquire
  <2>. QED  BY <1>0, <2>1
<1>2. CASE ((Load \/ Check) /\ End) \/ RecvPak \/ RecvErr
  <2>1. PICK item \in Items : Deliver(item)
    BY <1>2 DEF End, RecvPak, RecvErr, Items
  <2>2. pc \notin {"acquire", "done"} /\ pc' \in {"acquire", "done"}
    BY <1>2 DEF Load, Check, End, RecvPak, RecvErr
  <2>. QED  BY <1>0, <1>held, <1>held2, <2>1, <2>2, Delivered, SMTT(30)
<1>3. CASE (Load \/ Check) /\ ~End
  <2>1. pc \notin {"acquire", "done"} /\ pc' \notin {"acquire", "done"} /\ UNCHANGED queueVars
    BY <1>3 DEF Load, Check
  <2>. QED  BY <1>0, <1>held, <1>held2, <2>1 DEF queueVars
<1>4. CASE Register \/ RecvPending \/ Resume
  <2>1. pc \notin {"acquire", "done"} /\ pc' \notin {"acquire", "done"} /\ UNCHANGED queueVars
    BY <1>4 DEF Register, RecvPending, Resume
  <2>. QED  BY <1>0, <1>held, <1>held2, <2>1 DEF queueVars
<1>5. CASE EpTake
  <2>1. Held' = Held
    BY <1>5 DEF EpTake, Held
  <2>. QED  BY <1>0, <1>5, <2>1, Taken, SMTT(30)
<1>6. CASE UNCHANGED <<pc, queueVars>>
  BY <1>0, <1>6 DEF queueVars, Held
<1>7. CASE \/ SockReady
           \/ \E c \in Closers : CloseStore(c) \/ CloseWake(c)
           \/ \E s \in Senders : Send(s) \/ SendDone(s)
           \/ UNCHANGED vars
  BY <1>6, <1>7 DEF SockReady, CloseStore, CloseWake, Send, SendDone, vars
<1>. QED
  BY <1>1, <1>2, <1>3, <1>4, <1>5, <1>7 DEF Next, UdpTask

\* Errors, step by step.
LEMMA ErrorStep ==
  TypeOK /\ ErrorShutsDown /\ ErrorIsLast /\ [Next]_vars => ErrorShutsDown' /\ ErrorIsLast'
<1>. SUFFICES ASSUME TypeOK, ErrorShutsDown, ErrorIsLast, [Next]_vars
              PROVE  ErrorShutsDown' /\ ErrorIsLast'
  OBVIOUS
<1>0. Len(epq) \in Nat
  BY NumTypes
<1>1. CASE (Load \/ Check) /\ End
  <2>1. /\ Len(epq') = Len(epq) + 1 /\ epq'[Len(epq) + 1] = "none"
        /\ \A i \in 1..Len(epq) : epq'[i] = epq[i]
    BY <1>1, Delivered DEF End, Items
  <2>2. pc' = "done" /\ shutdown' = shutdown /\ shutdown
    BY <1>1 DEF End, Load, Check
  <2>. QED  BY <1>0, <2>1, <2>2 DEF ErrorShutsDown, ErrorIsLast
<1>2. CASE RecvPak \/ RecvErr
  <2>1. \A i \in 1..Len(epq) : epq[i] # "err"
    BY <1>2 DEF RecvPak, RecvErr, ErrorShutsDown
  <2>2. PICK item \in {"pak", "err"} : Deliver(item) /\ (item = "err" => RecvErr)
    BY <1>2 DEF RecvPak, RecvErr
  <2>3. /\ Len(epq') = Len(epq) + 1 /\ epq'[Len(epq) + 1] = item
        /\ \A i \in 1..Len(epq) : epq'[i] = epq[i]
    BY <2>2, Delivered DEF Items
  <2>4. item = "err" => shutdown' /\ pc' = "acquire"
    BY <2>2 DEF RecvErr
  <2>. QED  BY <1>0, <2>1, <2>3, <2>4 DEF ErrorShutsDown, ErrorIsLast
<1>3. CASE EpTake
  <2>1. /\ Len(epq') = Len(epq) - 1 /\ Len(epq) >= 1
        /\ \A i \in 1..Len(epq') : epq'[i] = epq[i + 1]
    BY <1>3, Taken
  <2>2. \A i \in 1..Len(epq') : i + 1 \in 1..Len(epq) /\ epq'[i] = epq[i + 1]
    BY <1>0, <2>1
  <2>3. ErrorIsLast'
    <3>. SUFFICES ASSUME NEW i \in 1..Len(epq'), NEW j \in 1..Len(epq'), i < j, epq'[i] = "err"
                  PROVE  epq'[j] = "none"
      BY DEF ErrorIsLast
    <3>1. i + 1 < j + 1
      BY <1>0, <2>1
    <3>. QED  BY <2>2, <3>1 DEF ErrorIsLast
  <2>. QED  BY <1>3, <2>2, <2>3 DEF ErrorShutsDown, EpTake
<1>4. CASE epq' = epq /\ (shutdown => shutdown')
           /\ (pc' \in {pc, "load"} \/ pc \in {"register", "check", "recv", "parked"} \/ ~shutdown)
  BY <1>4 DEF ErrorShutsDown, ErrorIsLast
<1>5. CASE \/ Acquire \/ ((Load \/ Check) /\ ~End)
           \/ Register \/ RecvPending \/ Resume \/ SockReady
           \/ \E c \in Closers : CloseStore(c) \/ CloseWake(c)
           \/ \E s \in Senders : Send(s) \/ SendDone(s)
           \/ UNCHANGED vars
  <2>1. epq' = epq
    BY <1>5 DEF Acquire, Load, Check, Register, RecvPending, Resume, SockReady,
                CloseStore, CloseWake, Send, SendDone, vars, queueVars
  <2>2. shutdown => shutdown'
    BY <1>5 DEF Acquire, Load, Check, Register, RecvPending, Resume, SockReady,
                CloseStore, CloseWake, Send, SendDone, vars
  <2>3. pc' \in {pc, "load"} \/ pc \in {"register", "check", "recv", "parked"} \/ ~shutdown
    BY <1>5 DEF Acquire, Load, Check, Register, RecvPending, Resume, SockReady,
                CloseStore, CloseWake, Send, SendDone, vars
  <2>. QED  BY <1>4, <2>1, <2>2, <2>3
<1>. QED
  BY <1>1, <1>2, <1>3, <1>5 DEF Next, UdpTask

\* The inductive invariant holds in every reachable state.
THEOREM Invariance == Spec => []IInv
<1>1. IInv /\ [Next]_vars => IInv'
  BY TypeStep, WakeStep, LimitStep, ErrorStep DEF IInv
<1>. QED  BY <1>1, InitIInv, PTL DEF Spec

\* Every variable keeps its type: udp_task polls only with a permit, so its
\* limit never goes negative, with any number of threads around it.
THEOREM TypeCorrect == Spec => []TypeOK
<1>1. IInv => TypeOK
  BY DEF IInv
<1>. QED  BY <1>1, Invariance, PTL

\* No wake-up is lost between is_shutdown and shutdown (tokio_udp.rs:31-46),
\* with any number of threads closing at once.
THEOREM NoLostWakeup == Spec => []ParkedIsWakeable
<1>1. IInv => ParkedIsWakeable
  BY DEF IInv, WakeInv, Armed, WakeDue, SockArmed, ParkedIsWakeable
<1>. QED  BY <1>1, Invariance, PTL

\* udp_task never has more packets on their way to ep_task than its limit
\* (ep.rs:138-153).
THEOREM LimitIsKept == Spec => []LimitKept
<1>1. IInv => LimitKept
  BY DEF IInv
<1>. QED  BY <1>1, Invariance, PTL

\* After an error of the socket ep_task sees the end of the stream and no
\* packet (tokio_udp.rs:179-182).
THEOREM ErrorEndsStream == Spec => []ErrorIsLast
<1>1. IInv => ErrorIsLast
  BY DEF IInv
<1>. QED  BY <1>1, Invariance, PTL
=============================================================================
