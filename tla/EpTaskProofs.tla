---------------------------- MODULE EpTaskProofs ----------------------------
(***************************************************************************)
(* Proofs about EpTask for any limits, callers and attempts, and any bound *)
(* on the packets that arrive; and that EpTask implements EpApi.           *)
(***************************************************************************)
EXTENDS EpTaskApi, PermitLemmas

\* The properties proved need no more than each other and the types.
IInv == TypeOK /\ EvtPermits /\ LiveIsRouted

\* The numbers of the state; leaves that count permits need no more of TypeOK.
LEMMA NumTypes ==
  ASSUME TypeOK
  PROVE  /\ udpFree \in Nat /\ conFree \in Nat /\ evtFree \in Nat
         /\ Len(cmdq) \in Nat /\ Len(conWait) \in Nat /\ Len(evtq) \in Nat
         /\ Count(evtGuard) \in 0..1
BY CountOf, LenProperties DEF TypeOK

\* A fresh endpoint satisfies every part of the invariant.
LEMMA InitIInv == Init => IInv
<1>. SUFFICES ASSUME Init PROVE IInv
  OBVIOUS
<1>1. TypeOK
  <2>1. cmdq \in Seq(EpCmd) /\ conWait \in Seq(Callers) /\ evtq \in Seq(Cids)
    BY EmptySeq DEF Init
  <2>2. /\ udpFree \in Nat /\ conFree \in Nat /\ evtFree \in Nat
        /\ initials \in 0..MaxInitial /\ nextCid \in Nat \ {0}
    BY LimitsAssumption DEF Init
  <2>3. /\ con \in [Cids -> {"unborn", "live", "ended"}]
        /\ origin \in [Cids -> Attempts \cup Callers \cup Cids \cup {Nobody}]
        /\ call \in [Callers -> {"idle", "acquire", "queued", "ok", "err", "cancelled"}]
    BY DEF Init
  <2>4. /\ udpEnded \in BOOLEAN /\ evtGuard \in BOOLEAN /\ recvAlive \in BOOLEAN
        /\ conMap \subseteq Cids /\ cur \in EpCmd \cup {NoCmd}
    BY DEF Init
  <2>. QED  BY <2>1, <2>2, <2>3, <2>4 DEF TypeOK
<1>2. EvtPermits
  <2>1. Count(evtGuard) = 0 /\ Len(evtq) = 0
    BY Counts, Zenon DEF Init
  <2>. QED  BY <2>1, LimitsAssumption DEF Init, EvtPermits
<1>3. LiveIsRouted
  BY DEF Init, LiveIsRouted
<1>. QED  BY <1>1, <1>2, <1>3 DEF IInv

-----------------------------------------------------------------------------
(* The event channel.                                                      *)

\* Once ep_task has an event permit, the semaphore is one short of what it
\* would be with that permit back.
LEMMA HoldEvt ==
  ASSUME TypeOK, CanHoldEvt
  PROVE  FreeOnceHeld \in Nat /\ FreeOnceHeld + 1 = evtFree + Count(evtGuard)
<1>1. \/ evtGuard /\ Count(evtGuard) = 1 /\ Count(~evtGuard) = 0
      \/ ~evtGuard /\ Count(evtGuard) = 0 /\ Count(~evtGuard) = 1
  BY CountOf DEF TypeOK
<1>2. evtFree \in Nat
  BY DEF TypeOK
<1>. QED  BY <1>1, <1>2 DEF FreeOnceHeld, CanHoldEvt

\* Handling a command keeps the event channel sound.
LEMMA EvtStep ==
  ASSUME TypeOK, EvtPermits, CanHoldEvt,
         KeepEvtGuard \/ \E i \in Cids : SendInCon(i)
  PROVE  /\ evtq' \in Seq(Cids) /\ evtFree' \in Nat /\ evtGuard' \in BOOLEAN
         /\ EvtPermits'
<1>1. /\ FreeOnceHeld \in Nat /\ FreeOnceHeld + 1 = evtFree + Count(evtGuard)
      /\ evtFree + Len(evtq) + Count(evtGuard) = EvtLimit
      /\ Len(evtq) \in Nat /\ evtFree \in Nat /\ Count(evtGuard) \in 0..1
  BY HoldEvt, NumTypes DEF EvtPermits
<1>2. evtq \in Seq(Cids)
  BY DEF TypeOK
<1>3. CASE KeepEvtGuard
  <2>1. Count(evtGuard') = 1
    BY <1>3, Counts, Zenon DEF KeepEvtGuard
  <2>2. evtFree' = FreeOnceHeld /\ evtq' = evtq /\ evtGuard' \in BOOLEAN
    BY <1>3 DEF KeepEvtGuard
  <2>. QED  BY <1>1, <1>2, <2>1, <2>2 DEF EvtPermits
<1>4. ASSUME NEW i \in Cids, SendInCon(i)
      PROVE  /\ evtq' \in Seq(Cids) /\ evtFree' \in Nat /\ evtGuard' \in BOOLEAN
             /\ EvtPermits'
  <2>1. Count(evtGuard') = 0
    BY <1>4, Counts, Zenon DEF SendInCon
  <2>2. evtGuard' \in BOOLEAN
    BY <1>4 DEF SendInCon
  <2>3. CASE recvAlive
    <3>1. evtq' = Append(evtq, i) /\ evtFree' = FreeOnceHeld
      BY <1>4, <2>3 DEF SendInCon
    <3>2. evtq' \in Seq(Cids) /\ Len(evtq') = Len(evtq) + 1
      BY <1>2, <3>1, Push
    <3>. QED  BY <1>1, <2>1, <2>2, <3>1, <3>2, SMTT(30) DEF EvtPermits
  <2>4. CASE ~recvAlive
    <3>1. evtq' = evtq /\ evtFree' = FreeOnceHeld + 1
      BY <1>4, <2>4 DEF SendInCon
    <3>. QED  BY <1>1, <1>2, <2>1, <2>2, <3>1 DEF EvtPermits
  <2>. QED  BY <2>3, <2>4
<1>. QED  BY <1>3, <1>4

-----------------------------------------------------------------------------
(* ep_task.                                                                *)

\* Taking a command moves it from the queue to ep_task.
LEMMA TakeStep ==
  ASSUME IInv, TakeCmd
  PROVE  IInv'
<1>. USE DEF IInv
<1>1. cmdq' \in Seq(EpCmd) /\ cur' \in EpCmd
  <2>1. cmdq \in Seq(EpCmd) /\ cmdq # <<>> /\ cmdq' = Tail(cmdq) /\ cur' = Head(cmdq)
    BY DEF TakeCmd, TypeOK
  <2>2. cmdq' \in Seq(EpCmd) /\ cur' = cmdq[1] /\ 1 \in 1..Len(cmdq)
    BY <2>1, Pop, LenProperties
  <2>. QED  BY <2>1, <2>2, ElementOfSeq
<1>2. UNCHANGED <<udpVars, callVars, evtVars, recvAlive, conVars>>
  BY DEF TakeCmd
<1>3. TypeOK'
  BY <1>1, <1>2 DEF TypeOK, udpVars, callVars, evtVars, conVars
<1>4. EvtPermits' /\ LiveIsRouted'
  BY <1>2 DEF EvtPermits, LiveIsRouted, evtVars, conVars
<1>. QED  BY <1>3, <1>4

\* What every handler does at its end.
LEMMA FinishType ==
  ASSUME TypeOK, Finish
  PROVE  /\ cur' \in EpCmd \cup {NoCmd} /\ cmdq' \in Seq(EpCmd)
         /\ udpFree' \in Nat /\ udpEnded' \in BOOLEAN /\ initials' \in 0..MaxInitial
         /\ conFree' \in Nat /\ conWait' \in Seq(Callers) /\ recvAlive' \in BOOLEAN
<1>1. Count(cur.cmd = "InPak") \in 0..1 /\ Count(cur.cmd = "NewCon") \in 0..1
  BY DEF Count
<1>2. udpFree' \in Nat /\ conFree' \in Nat
  BY <1>1, NumTypes, SMTT(30) DEF Finish
<1>. QED  BY <1>2 DEF Finish, TypeOK

\* A new connection is in con_map from the start.
LEMMA NewConnectionStep ==
  ASSUME TypeOK, LiveIsRouted, NextCid,
         NEW who \in Attempts \cup Callers \cup Cids, NewConnection(who)
  PROVE  /\ con' \in [Cids -> {"unborn", "live", "ended"}] /\ conMap' \subseteq Cids
         /\ origin' \in [Cids -> Attempts \cup Callers \cup Cids \cup {Nobody}]
         /\ nextCid' \in Nat \ {0} /\ nextCid \in Cids
         /\ LiveIsRouted'
<1>1. nextCid \in Cids
  BY DEF NextCid
<1>2. nextCid' \in Nat \ {0}
  BY DEF NextCid, TypeOK
<1>3. con' \in [Cids -> {"unborn", "live", "ended"}] /\ conMap' \subseteq Cids
  BY <1>1 DEF NewConnection, TypeOK
<1>4. origin' \in [Cids -> Attempts \cup Callers \cup Cids \cup {Nobody}]
  BY <1>1 DEF NewConnection, TypeOK
<1>5. LiveIsRouted'
  BY <1>1 DEF NewConnection, LiveIsRouted, TypeOK
<1>. QED  BY <1>1, <1>2, <1>3, <1>4, <1>5

\* The four ways ep_task handles a command.
LEMMA HandleStep ==
  ASSUME IInv,
         DropPak \/ RoutePak \/ AcceptPak \/ \E c \in Callers : HandleConnect(c)
  PROVE  IInv'
<1>. USE DEF IInv
<1>1. Finish /\ CanHoldEvt
  BY DEF DropPak, RoutePak, AcceptPak, HandlePak, HandleConnect
<1>2. KeepEvtGuard \/ \E i \in Cids : SendInCon(i)
  BY DEF DropPak, RoutePak, AcceptPak, HandleConnect, NextCid
<1>3. /\ evtq' \in Seq(Cids) /\ evtFree' \in Nat /\ evtGuard' \in BOOLEAN
      /\ EvtPermits'
  BY <1>1, <1>2, EvtStep
<1>4. call' \in [Callers -> {"idle", "acquire", "queued", "ok", "err", "cancelled"}]
  BY DEF DropPak, RoutePak, AcceptPak, HandlePak, HandleConnect, Answer, TypeOK
<1>5. /\ con' \in [Cids -> {"unborn", "live", "ended"}] /\ conMap' \subseteq Cids
      /\ origin' \in [Cids -> Attempts \cup Callers \cup Cids \cup {Nobody}]
      /\ nextCid' \in Nat \ {0}
      /\ LiveIsRouted'
  <2>1. CASE DropPak
    BY <2>1 DEF DropPak, conVars, TypeOK, LiveIsRouted
  <2>2. CASE RoutePak
    <3>1. conMap' \subseteq Cids /\ \A i \in conMap : con[i] = "live" => i \in conMap'
      BY <2>2 DEF RoutePak, Forgotten, TypeOK
    <3>. QED  BY <2>2, <3>1 DEF RoutePak, TypeOK, LiveIsRouted
  <2>3. CASE AcceptPak
    <3>1. NextCid /\ cur.pak.dcid \in Attempts \cup Callers \cup Cids
      <4>1. cur \in EpCmd /\ cur.cmd = "InPak" /\ cur.pak.type = "Initial"
        BY <2>3 DEF AcceptPak, HandlePak, TypeOK, NoCmd
      <4>2. PICK p \in Pak : cur = InPak(p)
        BY <4>1 DEF EpCmd, Paks, NewCons, InPak, NewCon
      <4>3. p \in Header /\ cur.pak = p
        BY <4>1, <4>2 DEF Pak, Junk, None, InPak
      <4>. QED  BY <2>3, <4>3 DEF AcceptPak, Header
    <3>2. CASE NewConnection(cur.pak.dcid)
      BY <3>1, <3>2, NewConnectionStep
    <3>3. CASE UNCHANGED <<conMap, con, origin>>
      BY <3>1, <3>3 DEF NextCid, TypeOK, LiveIsRouted
    <3>. QED  BY <2>3, <3>2, <3>3 DEF AcceptPak
  <2>4. ASSUME NEW c \in Callers, HandleConnect(c)
        PROVE  /\ con' \in [Cids -> {"unborn", "live", "ended"}] /\ conMap' \subseteq Cids
               /\ origin' \in [Cids -> Attempts \cup Callers \cup Cids \cup {Nobody}]
               /\ nextCid' \in Nat \ {0}
               /\ LiveIsRouted'
    <3>1. NextCid /\ (NewConnection(c) \/ UNCHANGED <<conMap, con, origin>>)
      BY <2>4 DEF HandleConnect
    <3>2. CASE NewConnection(c)
      BY <3>1, <3>2, NewConnectionStep
    <3>3. CASE UNCHANGED <<conMap, con, origin>>
      BY <3>1, <3>3 DEF NextCid, TypeOK, LiveIsRouted
    <3>. QED  BY <3>1, <3>2, <3>3
  <2>. QED  BY <2>1, <2>2, <2>3, <2>4
<1>6. TypeOK'
  BY <1>1, <1>3, <1>4, <1>5, FinishType DEF TypeOK
<1>. QED  BY <1>3, <1>5, <1>6

-----------------------------------------------------------------------------
(* The tasks and calls around it.                                          *)

\* A packet arrives with a permit of udp_task.
LEMMA UdpStep ==
  ASSUME IInv, NEW p \in Pak, UdpTask(p)
  PROVE  IInv'
<1>. USE DEF IInv
<1>1. UNCHANGED <<cur, callVars, evtVars, recvAlive, conVars>>
  BY DEF UdpTask
<1>2. cmdq' \in Seq(EpCmd)
  <2>1. InPak(p) \in EpCmd
    BY DEF EpCmd, Paks
  <2>. QED  BY <2>1, Push DEF UdpTask, TypeOK
<1>3. udpFree' \in Nat
  BY NumTypes DEF UdpTask
<1>4. initials' \in 0..MaxInitial
  <2>1. Count(p.type = "Initial") \in 0..1
    BY DEF Count
  <2>. QED  BY <2>1, LimitsAssumption DEF UdpTask, TypeOK
<1>5. udpEnded' \in BOOLEAN
  BY DEF UdpTask
<1>6. TypeOK'
  BY <1>1, <1>2, <1>3, <1>4, <1>5 DEF TypeOK, callVars, evtVars, conVars
<1>7. EvtPermits' /\ LiveIsRouted'
  BY <1>1 DEF EvtPermits, LiveIsRouted, evtVars, conVars
<1>. QED  BY <1>6, <1>7

\* A connect() call starts, sends its command or is dropped.
LEMMA ConnectStep ==
  ASSUME IInv, NEW c \in Callers, ConnectStart(c) \/ ConnectSend(c) \/ ConnectCancel(c)
  PROVE  IInv'
<1>. USE DEF IInv
<1>1. UNCHANGED <<cur, udpVars, evtVars, recvAlive, conVars>>
  BY DEF ConnectStart, ConnectSend, ConnectCancel
<1>2. conWait' \in Seq(Callers)
  <2>0. conWait \in Seq(Callers)
    BY DEF TypeOK
  <2>1. CASE conWait' = conWait
    BY <2>0, <2>1
  <2>2. CASE conWait' = Append(conWait, c)
    BY <2>0, <2>2, Push
  <2>3. CASE \E i \in 1..Len(conWait) : conWait' = Without(conWait, i)
    BY <2>0, <2>3, WithoutElems
  <2>. QED  BY <2>1, <2>2, <2>3 DEF ConnectStart, ConnectSend, ConnectCancel
<1>3. conFree' \in Nat
  <2>1. \/ conFree' = conFree
        \/ conFree' = conFree - 1 /\ \E i \in 1..Len(conWait) : i <= conFree
    BY DEF ConnectStart, ConnectSend, ConnectCancel
  <2>. QED  BY <2>1, NumTypes
<1>4. cmdq' \in Seq(EpCmd)
  <2>1. NewCon(c) \in EpCmd
    BY DEF EpCmd, NewCons
  <2>2. cmdq \in Seq(EpCmd)
    BY DEF TypeOK
  <2>3. CASE cmdq' = cmdq
    BY <2>2, <2>3
  <2>4. CASE cmdq' = Append(cmdq, NewCon(c))
    BY <2>1, <2>2, <2>4, Push
  <2>. QED  BY <2>3, <2>4 DEF ConnectStart, ConnectSend, ConnectCancel
<1>5. call' \in [Callers -> {"idle", "acquire", "queued", "ok", "err", "cancelled"}]
  BY DEF ConnectStart, ConnectSend, ConnectCancel, TypeOK
<1>6. TypeOK'
  BY <1>1, <1>2, <1>3, <1>4, <1>5 DEF TypeOK, udpVars, evtVars, conVars
<1>7. EvtPermits' /\ LiveIsRouted'
  BY <1>1 DEF EvtPermits, LiveIsRouted, evtVars, conVars
<1>. QED  BY <1>6, <1>7

\* A connection ends: it may stay in con_map, nobody looks for it there.
LEMMA ConEndStep ==
  ASSUME IInv, NEW i \in Cids, ConEnd(i)
  PROVE  IInv'
<1>. USE DEF IInv
<1>1. UNCHANGED <<cmdq, cur, udpVars, callVars, evtVars, recvAlive, nextCid, conMap, origin>>
  BY DEF ConEnd
<1>2. con' \in [Cids -> {"unborn", "live", "ended"}]
  BY DEF ConEnd, TypeOK
<1>3. TypeOK'
  BY <1>1, <1>2 DEF TypeOK, udpVars, callVars, evtVars
<1>4. EvtPermits' /\ LiveIsRouted'
  BY <1>1 DEF EvtPermits, LiveIsRouted, evtVars, ConEnd, TypeOK
<1>. QED  BY <1>3, <1>4

\* The application takes an incoming connection, or drops the receiver.
LEMMA AppStep ==
  ASSUME IInv, AppRecv \/ AppDropRecv
  PROVE  IInv'
<1>. USE DEF IInv
<1>1. UNCHANGED <<cmdq, cur, udpVars, callVars, evtGuard, conVars>>
  BY DEF AppRecv, AppDropRecv
<1>2. /\ evtq' \in Seq(Cids) /\ Len(evtq') \in Nat
      /\ evtFree' + Len(evtq') = evtFree + Len(evtq) /\ evtFree' \in Nat
  <2>1. CASE AppRecv
    <3>1. evtq \in Seq(Cids) /\ evtq # <<>> /\ evtq' = Tail(evtq) /\ evtFree' = evtFree + 1
      BY <2>1 DEF AppRecv, TypeOK
    <3>2. evtq' \in Seq(Cids) /\ Len(evtq') = Len(evtq) - 1 /\ Len(evtq) >= 1
      BY <3>1, Pop
    <3>. QED  BY <3>1, <3>2, NumTypes, SMTT(30)
  <2>2. CASE AppDropRecv
    <3>1. evtq' = <<>> /\ Len(evtq') = 0 /\ evtFree' = evtFree + Len(evtq)
      BY <2>2 DEF AppDropRecv
    <3>. QED  BY <3>1, EmptySeq, NumTypes
  <2>. QED  BY <2>1, <2>2
<1>3. recvAlive' \in BOOLEAN
  BY DEF AppRecv, AppDropRecv, TypeOK
<1>4. TypeOK'
  BY <1>1, <1>2, <1>3 DEF TypeOK, udpVars, callVars, conVars
<1>5. EvtPermits'
  <2>1. Count(evtGuard)' = Count(evtGuard)
    BY <1>1
  <2>. QED  BY <1>2, <2>1, NumTypes DEF EvtPermits
<1>6. LiveIsRouted'
  BY <1>1 DEF LiveIsRouted, conVars
<1>. QED  BY <1>4, <1>5, <1>6

-----------------------------------------------------------------------------
(* The theorems.                                                           *)

\* Every step keeps the invariant: one case per action of Next.
LEMMA NextIInv == IInv /\ [Next]_vars => IInv'
<1>. SUFFICES ASSUME IInv, [Next]_vars PROVE IInv'
  OBVIOUS
<1>1. CASE EpTaskStep
  BY <1>1, TakeStep, HandleStep DEF EpTaskStep
<1>2. ASSUME NEW p \in Pak, UdpTask(p) PROVE IInv'
  BY <1>2, UdpStep
<1>3. ASSUME NEW c \in Callers, ConnectStart(c) \/ ConnectSend(c) \/ ConnectCancel(c)
      PROVE  IInv'
  BY <1>3, ConnectStep
<1>4. ASSUME NEW i \in Cids, ConEnd(i) PROVE IInv'
  BY <1>4, ConEndStep
<1>5. CASE AppRecv \/ AppDropRecv
  BY <1>5, AppStep
<1>6. CASE UNCHANGED vars
  BY <1>6 DEF vars, udpVars, callVars, evtVars, conVars,
              IInv, TypeOK, EvtPermits, LiveIsRouted
<1>. QED  BY <1>1, <1>2, <1>3, <1>4, <1>5, <1>6 DEF Next

\* The inductive invariant holds in every reachable state.
THEOREM Invariance == Spec => []IInv
BY InitIInv, NextIInv, PTL DEF Spec

\* Every variable keeps its type: no semaphore of the endpoint goes negative,
\* and every id in con_map was given out by cid() within its bound.
THEOREM TypeCorrect == Spec => []TypeOK
<1>1. IInv => TypeOK
  BY DEF IInv
<1>. QED  BY <1>1, Invariance, PTL

\* No event permit of the endpoint is lost, whether the application listens or
\* not (ep.rs:176-178, 249-256).
THEOREM EvtPermitsConserved == Spec => []EvtPermits
<1>1. IInv => EvtPermits
  BY DEF IInv
<1>. QED  BY <1>1, Invariance, PTL

\* A running connection never leaves con_map (ep.rs:212-222).
THEOREM LiveStaysRouted == Spec => []LiveIsRouted
<1>1. IInv => LiveIsRouted
  BY DEF IInv
<1>. QED  BY <1>1, Invariance, PTL

-----------------------------------------------------------------------------
(* The permits of the commands.                                            *)

\* A command is a packet or a connect, and NoCmd is neither.
LEMMA Kinds ==
  /\ \A x \in EpCmd \cup {NoCmd} : x.cmd = "InPak" <=> x \in Paks
  /\ \A x \in EpCmd \cup {NoCmd} : x.cmd = "NewCon" <=> x \in NewCons
  /\ \A x \in Paks : x \notin NewCons
  /\ NoCmd \notin Paks /\ NoCmd \notin NewCons
<1>1. \A x \in Paks : x.cmd = "InPak"
  BY DEF Paks, InPak
<1>2. \A x \in NewCons : x.cmd = "NewCon"
  BY DEF NewCons, NewCon
<1>3. NoCmd.cmd = "NoCmd"
  BY DEF NoCmd
<1>. QED  BY <1>1, <1>2, <1>3 DEF EpCmd

\* The commands in flight of one kind, as numbers.
LEMMA Flight ==
  ASSUME TypeOK, NEW K
  PROVE  Among(cmdq, K) \in Nat /\ Count(cur \in K) \in 0..1 /\ udpFree \in Nat /\ conFree \in Nat
<1>1. Count(cur \in K) \in 0..1
  BY DEF Count
<1>2. Among(cmdq, K) \in Nat
  BY AmongType DEF TypeOK
<1>. QED  BY <1>1, <1>2 DEF TypeOK

\* Taking a command from the queue finishes none.
LEMMA TakeFlight ==
  ASSUME TypeOK, TakeCmd, NEW K, NoCmd \notin K
  PROVE  InFlight(K)' = InFlight(K)
<1>1. Among(cmdq, K) = Among(Tail(cmdq), K) + Count(Head(cmdq) \in K)
  BY AmongPop DEF TypeOK, TakeCmd
<1>2. Count(cur \in K) = 0
  BY DEF Count, TakeCmd
<1>3. Among(cmdq, K) = Among(cmdq, K) + 0
  BY Flight
<1>. QED  BY <1>1, <1>2, <1>3, Zenon DEF InFlight, TakeCmd

\* A command that is queued is in flight until ep_task finishes it.
LEMMA PushFlight ==
  ASSUME TypeOK, NEW x \in EpCmd, cmdq' = Append(cmdq, x), cur' = cur, NEW K
  PROVE  /\ x \in K => InFlight(K)' = InFlight(K) + 1
         /\ x \notin K => InFlight(K)' = InFlight(K)
<1>1. Among(cmdq', K) = Among(cmdq, K) + Count(x \in K)
  BY AmongPush DEF TypeOK
<1>2. Among(cmdq, K) \in Nat /\ Count(cur \in K) \in 0..1
  BY Flight
<1>3. InFlight(K)' = Among(cmdq', K) + Count(cur \in K)
  BY DEF InFlight
<1>4. CASE x \in K
  <2>1. Count(x \in K) = 1
    BY <1>4 DEF Count
  <2>2. Among(cmdq', K) = Among(cmdq, K) + 1
    BY <1>1, <2>1, Zenon
  <2>. DEFINE a == Among(cmdq, K)
              b == Count(cur \in K)
  <2>3. a + 1 + b = a + b + 1
    <3>1. a \in Nat /\ b \in 0..1
      BY <1>2
    <3>. HIDE DEF a, b
    <3>. QED  BY <3>1
  <2>. QED  BY <1>3, <1>4, <2>2, <2>3, Zenon DEF InFlight
<1>5. CASE x \notin K
  <2>1. Count(x \in K) = 0
    BY <1>5 DEF Count
  <2>2. Among(cmdq', K) = Among(cmdq, K) + 0
    BY <1>1, <2>1, Zenon
  <2>3. Among(cmdq', K) = Among(cmdq, K)
    BY <1>2, <2>2
  <2>. QED  BY <1>3, <1>5, <2>3, Zenon DEF InFlight
<1>. QED  BY <1>4, <1>5

\* Finishing a command gives back one permit of its kind.
LEMMA FinishFlight ==
  ASSUME TypeOK, LimitsKept, Finish
  PROVE  LimitsKept'
<1>1. cmdq' = cmdq /\ cur' = NoCmd /\ cur \in EpCmd \cup {NoCmd}
  BY DEF Finish, TypeOK
<1>2. \A K : NoCmd \notin K => InFlight(K)' = Among(cmdq, K) + 0
  <2>1. SUFFICES ASSUME NEW K, NoCmd \notin K PROVE InFlight(K)' = Among(cmdq, K) + 0
    OBVIOUS
  <2>2. Count(NoCmd \in K) = 0
    BY <2>1 DEF Count
  <2>. QED  BY <1>1, <2>2, Zenon DEF InFlight
<1>3. Count(cur.cmd = "InPak") = Count(cur \in Paks)
  BY <1>1, Kinds DEF Count
<1>4. Count(cur.cmd = "NewCon") = Count(cur \in NewCons)
  BY <1>1, Kinds DEF Count
<1>. DEFINE p == Count(cur \in Paks)
            n == Count(cur \in NewCons)
<1>5. udpFree' = udpFree + p /\ conFree' = conFree + n
  BY <1>3, <1>4, Zenon DEF Finish
<1>6. /\ Among(cmdq, Paks) \in Nat /\ p \in 0..1 /\ udpFree \in Nat
      /\ Among(cmdq, NewCons) \in Nat /\ n \in 0..1 /\ conFree \in Nat
  BY Flight
<1>7. /\ udpFree + (Among(cmdq, Paks) + p) = UdpLimit
      /\ conFree + (Among(cmdq, NewCons) + n) = ConLimit
  BY Zenon DEF LimitsKept, InFlight
<1>. HIDE DEF p, n
<1>8. InFlight(Paks)' = Among(cmdq, Paks) /\ InFlight(NewCons)' = Among(cmdq, NewCons)
  BY <1>2, <1>6, Kinds
<1>. QED  BY <1>5, <1>6, <1>7, <1>8 DEF LimitsKept

\* The two kinds of permit are conserved, each by itself.
LEMMA NextLimits == TypeOK /\ LimitsKept /\ [Next]_vars => LimitsKept'
<1>. SUFFICES ASSUME TypeOK, LimitsKept, [Next]_vars PROVE LimitsKept'
  OBVIOUS
<1>1. /\ udpFree \in Nat /\ conFree \in Nat
      /\ \A K : InFlight(K) \in Nat
  <2>1. \A K : Among(cmdq, K) \in Nat /\ Count(cur \in K) \in 0..1
    BY Flight
  <2>2. \A K : Among(cmdq, K) + Count(cur \in K) \in Nat
    BY <2>1
  <2>. QED  BY <2>2 DEF TypeOK, InFlight
<1>2. CASE UNCHANGED <<cmdq, cur, udpFree, conFree>>
  <2>1. InFlight(Paks)' = InFlight(Paks) /\ InFlight(NewCons)' = InFlight(NewCons)
    BY <1>2 DEF InFlight
  <2>. QED  BY <1>2, <2>1 DEF LimitsKept
<1>3. CASE TakeCmd
  <2>1. InFlight(Paks)' = InFlight(Paks) /\ InFlight(NewCons)' = InFlight(NewCons)
    BY <1>3, Kinds, TakeFlight
  <2>. QED  BY <1>3, <2>1 DEF LimitsKept, TakeCmd, udpVars, callVars
<1>4. CASE DropPak \/ RoutePak \/ AcceptPak \/ \E c \in Callers : HandleConnect(c)
  BY <1>4, FinishFlight DEF DropPak, RoutePak, AcceptPak, HandlePak, HandleConnect
<1>5. ASSUME NEW p \in Pak, UdpTask(p) PROVE LimitsKept'
  <2>1. /\ cmdq' = Append(cmdq, InPak(p)) /\ cur' = cur /\ conFree' = conFree
        /\ udpFree' = udpFree - 1 /\ udpFree > 0
    BY <1>5 DEF UdpTask, callVars
  <2>2. InPak(p) \in Paks /\ InPak(p) \in EpCmd /\ InPak(p) \notin NewCons
    BY Kinds DEF Paks, EpCmd
  <2>3. InFlight(Paks)' = InFlight(Paks) + 1 /\ InFlight(NewCons)' = InFlight(NewCons)
    BY <2>1, <2>2, PushFlight
  <2>. QED  BY <1>1, <2>1, <2>3 DEF LimitsKept
<1>6. ASSUME NEW c \in Callers, ConnectSend(c) PROVE LimitsKept'
  <2>1. /\ cmdq' = Append(cmdq, NewCon(c)) /\ cur' = cur /\ udpFree' = udpFree
        /\ conFree' = conFree - 1
    BY <1>6 DEF ConnectSend, udpVars
  <2>2. NewCon(c) \in NewCons /\ NewCon(c) \in EpCmd /\ NewCon(c) \notin Paks
    BY Kinds DEF NewCons, EpCmd
  <2>3. InFlight(Paks)' = InFlight(Paks) /\ InFlight(NewCons)' = InFlight(NewCons) + 1
    BY <2>1, <2>2, PushFlight
  <2>. QED  BY <1>1, <2>1, <2>3 DEF LimitsKept
<1>7. CASE \/ \E c \in Callers : ConnectStart(c) \/ ConnectCancel(c)
           \/ \E i \in Cids : ConEnd(i)
           \/ AppRecv \/ AppDropRecv \/ UNCHANGED vars
  BY <1>2, <1>7 DEF ConnectStart, ConnectCancel, ConEnd, AppRecv, AppDropRecv,
                    vars, udpVars, callVars
<1>. QED  BY <1>3, <1>4, <1>5, <1>6, <1>7 DEF Next, EpTaskStep

\* A fresh endpoint has every permit.
LEMMA InitLimits == Init => LimitsKept
<1>. SUFFICES ASSUME Init PROVE LimitsKept
  OBVIOUS
<1>1. \A K : NoCmd \notin K => InFlight(K) = 0
  <2>1. \A K : Among(cmdq, K) = 0
    BY AmongEmpty DEF Init
  <2>2. \A K : NoCmd \notin K => Count(cur \in K) = 0
    BY DEF Count, Init
  <2>. QED  BY <2>1, <2>2 DEF InFlight
<1>. QED  BY <1>1, Kinds, LimitsAssumption DEF Init, LimitsKept

\* A flood of packets never eats the room of connect() or the other way round,
\* and the queue they share is bounded (ep.rs:57, 70, 123-126, 138-151).
THEOREM LimitsAreKept == Spec => []LimitsKept
<1>1. IInv => TypeOK
  BY DEF IInv
<1>. QED  BY <1>1, InitLimits, NextLimits, Invariance, PTL DEF Spec

-----------------------------------------------------------------------------
(* The connect() calls of an endpoint.                                     *)

\* What ep_task works on is the front of its queue.
Work(i) == IF i = 0 THEN cur ELSE cmdq[i]

\* A call's command is there at most once.
WorkOnce ==
  \A c \in Callers : \A i, j \in 0..Len(cmdq) :
    Work(i) = NewCon(c) /\ Work(j) = NewCon(c) => i = j

\* The call of a command still waits for it, or was dropped.
WorkCalls ==
  \A c \in Callers : \A i \in 0..Len(cmdq) :
    Work(i) = NewCon(c) => call[c] \in {"queued", "cancelled"}

\* The command of a call that is queued is there.
WorkThere ==
  \A c \in Callers : call[c] = "queued" => \E i \in 0..Len(cmdq) : Work(i) = NewCon(c)

\* Those who wait for a permit have not got one.
Waiters ==
  \A c \in Callers : (\E i \in 1..Len(conWait) : conWait[i] = c) => call[c] = "acquire"

\* What CallsTracked needs to be inductive.
CallInv == WorkOnce /\ WorkCalls /\ WorkThere /\ Waiters /\ Distinct(conWait)

\* Ids that cid() has not given out belong to nobody.
FreshIds == \A i \in Cids : i >= nextCid => origin[i] = Nobody

\* Commands are told apart by their call.
LEMMA Commands ==
  /\ \A c, d \in Callers : NewCon(c) = NewCon(d) => c = d
  /\ \A c \in Callers : NewCon(c) # NoCmd /\ NewCon(c) \in EpCmd
  /\ \A c \in Callers : \A p \in Pak : NewCon(c) # InPak(p)
<1>1. \A c \in Callers : NewCon(c).call = c /\ NewCon(c).cmd = "NewCon"
  BY DEF NewCon
<1>2. NoCmd.cmd = "NoCmd" /\ \A p \in Pak : InPak(p).cmd = "InPak"
  BY DEF NoCmd, InPak
<1>. QED  BY <1>1, <1>2 DEF EpCmd, NewCons

\* The invariant looks at the commands, the waiters and the calls only.
LEMMA SameCalls ==
  ASSUME CallInv, UNCHANGED <<cmdq, cur, conWait, call>>
  PROVE  CallInv'
BY DEF CallInv, WorkOnce, WorkCalls, WorkThere, Work, Waiters, Distinct

\* Taking a command moves every command one place to the front.
LEMMA TakeCalls ==
  ASSUME TypeOK, CallInv, TakeCmd
  PROVE  CallInv'
<1>. USE DEF CallInv
<1>1. UNCHANGED <<conWait, call>>
  BY DEF TakeCmd, callVars
<1>2. /\ Len(cmdq) \in Nat /\ Len(cmdq') = Len(cmdq) - 1 /\ Len(cmdq) >= 1
      /\ cur' = cmdq[1] /\ cur = NoCmd
      /\ \A i \in 1..Len(cmdq') : cmdq'[i] = cmdq[i + 1]
  BY Pop, LenProperties DEF TakeCmd, TypeOK
<1>3. \A i \in 0..Len(cmdq') : i + 1 \in 0..Len(cmdq) /\ Work(i)' = Work(i + 1)
  BY <1>2 DEF Work
<1>4. \A c \in Callers : Work(0) # NewCon(c)
  BY <1>2, Commands DEF Work
<1>5. WorkOnce'
  <2>1. SUFFICES ASSUME NEW c \in Callers, NEW i \in 0..Len(cmdq'), NEW j \in 0..Len(cmdq'),
                        Work(i)' = NewCon(c), Work(j)' = NewCon(c)
                 PROVE  i = j
    BY DEF WorkOnce
  <2>2. i + 1 = j + 1
    BY <1>3, <2>1 DEF WorkOnce
  <2>. QED  BY <1>2, <2>2
<1>6. WorkCalls'
  BY <1>1, <1>3 DEF WorkCalls
<1>7. WorkThere'
  <2>1. SUFFICES ASSUME NEW c \in Callers, call[c] = "queued"
                 PROVE  \E i \in 0..Len(cmdq') : Work(i)' = NewCon(c)
    BY <1>1 DEF WorkThere
  <2>2. PICK i \in 0..Len(cmdq) : Work(i) = NewCon(c)
    BY <2>1 DEF WorkThere
  <2>3. i # 0
    BY <1>4, <2>2
  <2>4. i - 1 \in 0..Len(cmdq') /\ (i - 1) + 1 = i
    BY <1>2, <2>3
  <2>5. Work(i - 1)' = Work(i)
    BY <1>3, <2>4
  <2>. QED  BY <2>2, <2>4, <2>5
<1>8. Waiters' /\ Distinct(conWait)'
  BY <1>1 DEF Waiters, Distinct
<1>. QED  BY <1>5, <1>6, <1>7, <1>8

\* Finishing the command of a call answers it, if anybody still waits.
LEMMA FinishCalls ==
  ASSUME TypeOK, CallInv, Finish,
         \A c \in Callers : cur # NewCon(c) => call'[c] = call[c],
         \A c \in Callers : cur = NewCon(c) => call'[c] \in {"ok", "err", "cancelled"}
  PROVE  CallInv'
<1>. USE DEF CallInv
<1>1. cmdq' = cmdq /\ cur' = NoCmd /\ conWait' = conWait /\ Len(cmdq) \in Nat
  BY LenProperties DEF Finish, TypeOK
<1>2. \A c \in Callers : \A i \in 0..Len(cmdq) :
        Work(i)' = NewCon(c) <=> i # 0 /\ Work(i) = NewCon(c)
  BY <1>1, Commands DEF Work
<1>3. \A c \in Callers : \A i \in 0..Len(cmdq) :
        Work(i)' = NewCon(c) => cur # NewCon(c)
  <2>1. \A c \in Callers : cur = NewCon(c) => Work(0) = NewCon(c)
    BY DEF Work
  <2>. QED  BY <1>1, <1>2, <2>1 DEF WorkOnce
<1>4. WorkOnce'
  BY <1>1, <1>2 DEF WorkOnce
<1>5. WorkCalls'
  BY <1>1, <1>2, <1>3 DEF WorkCalls
<1>6. WorkThere'
  <2>1. SUFFICES ASSUME NEW c \in Callers, call'[c] = "queued"
                 PROVE  \E i \in 0..Len(cmdq) : Work(i)' = NewCon(c)
    BY <1>1 DEF WorkThere
  <2>2. cur # NewCon(c) /\ call[c] = "queued"
    BY <2>1
  <2>3. PICK i \in 0..Len(cmdq) : Work(i) = NewCon(c)
    BY <2>2 DEF WorkThere
  <2>4. i # 0
    BY <2>2, <2>3 DEF Work
  <2>. QED  BY <1>2, <2>3, <2>4
<1>7. Waiters'
  <2>1. \A c \in Callers : cur = NewCon(c) => call[c] # "acquire"
    <3>1. \A c \in Callers : cur = NewCon(c) => Work(0) = NewCon(c) /\ 0 \in 0..Len(cmdq)
      BY <1>1 DEF Work
    <3>. QED  BY <3>1 DEF WorkCalls
  <2>. QED  BY <1>1, <2>1 DEF Waiters
<1>8. Distinct(conWait)'
  BY <1>1 DEF Distinct
<1>. QED  BY <1>4, <1>5, <1>6, <1>7, <1>8

\* A packet is queued behind the others.
LEMMA PakCalls ==
  ASSUME TypeOK, CallInv, NEW p \in Pak, UdpTask(p)
  PROVE  CallInv'
<1>. USE DEF CallInv
<1>1. /\ Len(cmdq) \in Nat /\ Len(cmdq') = Len(cmdq) + 1 /\ cmdq'[Len(cmdq) + 1] = InPak(p)
      /\ \A i \in 1..Len(cmdq) : cmdq'[i] = cmdq[i]
      /\ UNCHANGED <<cur, conWait, call>>
  <2>1. InPak(p) \in EpCmd /\ cmdq \in Seq(EpCmd) /\ cmdq' = Append(cmdq, InPak(p))
    BY DEF EpCmd, Paks, TypeOK, UdpTask
  <2>2. UNCHANGED <<cur, conWait, call>>
    BY DEF UdpTask, callVars
  <2>. QED  BY <2>1, <2>2, Push, LenProperties
<1>2. \A c \in Callers : \A i \in 0..Len(cmdq') :
        Work(i)' = NewCon(c) <=> i \in 0..Len(cmdq) /\ Work(i) = NewCon(c)
  <2>1. \A i \in 0..Len(cmdq') : Work(i)' = IF i \in 0..Len(cmdq) THEN Work(i) ELSE InPak(p)
    BY <1>1 DEF Work
  <2>. QED  BY <2>1, Commands
<1>3. WorkOnce' /\ WorkCalls'
  BY <1>1, <1>2 DEF WorkOnce, WorkCalls
<1>4. WorkThere'
  <2>1. 0..Len(cmdq) \subseteq 0..Len(cmdq')
    BY <1>1
  <2>. QED  BY <1>1, <1>2, <2>1 DEF WorkThere
<1>5. Waiters' /\ Distinct(conWait)'
  BY <1>1 DEF Waiters, Distinct
<1>. QED  BY <1>3, <1>4, <1>5

\* A call that begins is not among the waiters yet.
LEMMA StartCalls ==
  ASSUME TypeOK, CallInv, NEW c \in Callers, ConnectStart(c)
  PROVE  CallInv'
<1>. USE DEF CallInv
<1>1. /\ call[c] = "idle" /\ cmdq' = cmdq /\ cur' = cur
      /\ \A d \in Callers : call'[d] = IF d = c THEN "acquire" ELSE call[d]
  BY DEF ConnectStart, TypeOK
<1>2. /\ conWait \in Seq(Callers) /\ Len(conWait) \in Nat
      /\ Len(conWait') = Len(conWait) + 1 /\ conWait'[Len(conWait) + 1] = c
      /\ \A i \in 1..Len(conWait) : conWait'[i] = conWait[i]
  BY Push, LenProperties DEF ConnectStart, TypeOK
<1>3. \A i \in 1..Len(conWait) : conWait[i] # c
  BY <1>1 DEF Waiters
<1>4. WorkOnce' /\ WorkCalls' /\ WorkThere'
  BY <1>1 DEF WorkOnce, WorkCalls, WorkThere, Work
<1>5. Waiters'
  BY <1>1, <1>2 DEF Waiters
<1>6. Distinct(conWait)'
  BY <1>2, <1>3 DEF Distinct
<1>. QED  BY <1>4, <1>5, <1>6

\* A call that leaves the waiters is not among them any more.
LEMMA LeaveWaiters ==
  ASSUME TypeOK, CallInv, NEW c \in Callers, NEW i \in 1..Len(conWait), conWait[i] = c,
         conWait' = Without(conWait, i),
         \A d \in Callers : d # c => call'[d] = call[d]
  PROVE  call[c] = "acquire" /\ Waiters' /\ Distinct(conWait)'
<1>. USE DEF CallInv
<1>1. /\ Distinct(conWait')
      /\ \A d : (\E j \in 1..Len(conWait') : conWait'[j] = d)
             <=> d # c /\ \E j \in 1..Len(conWait) : conWait[j] = d
  <2>. DEFINE w == Without(conWait, i)
  <2>1. /\ Distinct(w)
        /\ \A d : (\E j \in 1..Len(w) : w[j] = d)
               <=> d # conWait[i] /\ \E j \in 1..Len(conWait) : conWait[j] = d
    BY WithoutDistinct DEF TypeOK
  <2>2. conWait' = w
    OBVIOUS
  <2>. HIDE DEF w
  <2>. QED  BY <2>1, <2>2
<1>2. call[c] = "acquire"
  BY DEF Waiters
<1>3. Waiters'
  BY <1>1 DEF Waiters
<1>4. Distinct(conWait)'
  BY <1>1 DEF Distinct
<1>. QED  BY <1>2, <1>3, <1>4

\* A call that was given a permit queues its command, which was not there.
LEMMA SendCalls ==
  ASSUME TypeOK, CallInv, NEW c \in Callers, ConnectSend(c)
  PROVE  CallInv' /\ call[c] = "acquire"
<1>. USE DEF CallInv
<1>1. PICK i \in 1..Len(conWait) : conWait[i] = c /\ conWait' = Without(conWait, i)
  BY DEF ConnectSend
<1>2. /\ \A d \in Callers : call'[d] = IF d # c THEN call[d] ELSE "queued"
      /\ cur' = cur
  BY DEF ConnectSend, TypeOK
<1>3. call[c] = "acquire" /\ Waiters' /\ Distinct(conWait)'
  BY <1>1, <1>2, LeaveWaiters
<1>4. \A j \in 0..Len(cmdq) : Work(j) # NewCon(c)
  BY <1>3 DEF WorkCalls
<1>5. /\ Len(cmdq) \in Nat /\ Len(cmdq') = Len(cmdq) + 1 /\ cmdq'[Len(cmdq) + 1] = NewCon(c)
      /\ \A j \in 1..Len(cmdq) : cmdq'[j] = cmdq[j]
  <2>1. NewCon(c) \in EpCmd /\ cmdq \in Seq(EpCmd) /\ cmdq' = Append(cmdq, NewCon(c))
    BY Commands DEF TypeOK, ConnectSend
  <2>. QED  BY <2>1, Push, LenProperties
<1>6. \A j \in 0..Len(cmdq') :
        Work(j)' = IF j \in 0..Len(cmdq) THEN Work(j) ELSE NewCon(c)
  BY <1>2, <1>5 DEF Work
<1>7. \A d \in Callers : \A j \in 0..Len(cmdq') :
        Work(j)' = NewCon(d) =>
          \/ d = c /\ j = Len(cmdq) + 1
          \/ d # c /\ j \in 0..Len(cmdq) /\ Work(j) = NewCon(d)
  BY <1>4, <1>5, <1>6, Commands
<1>8. WorkOnce'
  BY <1>7 DEF WorkOnce
<1>9. WorkCalls'
  BY <1>2, <1>7 DEF WorkCalls
<1>10. WorkThere'
  <2>1. SUFFICES ASSUME NEW d \in Callers, call'[d] = "queued"
                 PROVE  \E j \in 0..Len(cmdq') : Work(j)' = NewCon(d)
    BY DEF WorkThere
  <2>2. CASE d = c
    <3>1. Len(cmdq) + 1 \in 0..Len(cmdq') /\ Len(cmdq) + 1 \notin 0..Len(cmdq)
      BY <1>5
    <3>. QED  BY <1>6, <2>2, <3>1
  <2>3. CASE d # c
    <3>1. PICK j \in 0..Len(cmdq) : Work(j) = NewCon(d)
      BY <1>2, <2>1, <2>3 DEF WorkThere
    <3>2. j \in 0..Len(cmdq')
      BY <1>5
    <3>. QED  BY <1>6, <3>1, <3>2
  <2>. QED  BY <2>2, <2>3
<1>. QED  BY <1>3, <1>8, <1>9, <1>10

\* A dropped call leaves the waiters, or leaves its command with nobody to answer.
LEMMA CancelCalls ==
  ASSUME TypeOK, CallInv, NEW c \in Callers, ConnectCancel(c)
  PROVE  CallInv' /\ call[c] \in {"acquire", "queued"}
<1>. USE DEF CallInv
<1>1. /\ cmdq' = cmdq /\ cur' = cur
      /\ \A d \in Callers : call'[d] = IF d = c THEN "cancelled" ELSE call[d]
  BY DEF ConnectCancel, TypeOK
<1>2. WorkOnce' /\ WorkCalls' /\ WorkThere'
  BY <1>1 DEF WorkOnce, WorkCalls, WorkThere, Work
<1>3. CASE call[c] = "queued" /\ UNCHANGED conWait
  <2>1. Waiters' /\ Distinct(conWait)'
    BY <1>1, <1>3 DEF Waiters, Distinct
  <2>. QED  BY <1>2, <1>3, <2>1
<1>4. CASE \E i \in 1..Len(conWait) : conWait[i] = c /\ conWait' = Without(conWait, i)
  <2>1. PICK i \in 1..Len(conWait) : conWait[i] = c /\ conWait' = Without(conWait, i)
    BY <1>4
  <2>2. call[c] = "acquire" /\ Waiters' /\ Distinct(conWait)'
    BY <1>1, <2>1, LeaveWaiters
  <2>. QED  BY <1>2, <2>2
<1>. QED  BY <1>3, <1>4 DEF ConnectCancel

-----------------------------------------------------------------------------
(* Calls are never lost.                                                   *)

\* The call ep_task answers still waits for its answer, or was dropped.
LEMMA Answered ==
  ASSUME TypeOK, CallInv, NEW c \in Callers, HandleConnect(c)
  PROVE  /\ cur = NewCon(c) /\ call[c] \in {"queued", "cancelled"}
         /\ \A d \in Callers : d # c => call'[d] = call[d]
<1>1. cur = NewCon(c) /\ Work(0) = NewCon(c) /\ 0 \in 0..Len(cmdq)
  BY LenProperties DEF HandleConnect, Work, TypeOK
<1>2. \A d \in Callers : d # c => call'[d] = call[d]
  BY DEF HandleConnect, TypeOK
<1>. QED  BY <1>1, <1>2 DEF CallInv, WorkCalls

\* Every step keeps track of the calls.
LEMMA NextCallInv == TypeOK /\ CallInv /\ [Next]_vars => CallInv'
<1>. SUFFICES ASSUME TypeOK, CallInv, [Next]_vars PROVE CallInv'
  OBVIOUS
<1>1. CASE TakeCmd
  BY <1>1, TakeCalls
<1>2. CASE DropPak \/ RoutePak \/ AcceptPak
  <2>1. Finish /\ call' = call /\ cur.cmd = "InPak"
    BY <1>2 DEF DropPak, RoutePak, AcceptPak, HandlePak
  <2>2. \A c \in Callers : cur # NewCon(c)
    BY <2>1 DEF NewCon
  <2>. QED  BY <2>1, <2>2, FinishCalls
<1>3. ASSUME NEW c \in Callers, HandleConnect(c) PROVE CallInv'
  <2>1. Finish
    BY <1>3 DEF HandleConnect
  <2>2. /\ cur = NewCon(c) /\ call[c] \in {"queued", "cancelled"}
        /\ \A d \in Callers : d # c => call'[d] = call[d]
    BY <1>3, Answered
  <2>3. call'[c] \in {"ok", "err", "cancelled"}
    BY <1>3, <2>2 DEF HandleConnect, Answer, TypeOK
  <2>. QED  BY <2>1, <2>2, <2>3, FinishCalls, Commands
<1>4. ASSUME NEW p \in Pak, UdpTask(p) PROVE CallInv'
  BY <1>4, PakCalls
<1>5. ASSUME NEW c \in Callers, ConnectStart(c) \/ ConnectSend(c) \/ ConnectCancel(c)
      PROVE  CallInv'
  BY <1>5, StartCalls, SendCalls, CancelCalls
<1>6. CASE \/ \E i \in Cids : ConEnd(i)
           \/ AppRecv \/ AppDropRecv \/ UNCHANGED vars
  BY <1>6, SameCalls DEF ConEnd, AppRecv, AppDropRecv, vars, callVars
<1>. QED  BY <1>1, <1>2, <1>3, <1>4, <1>5, <1>6 DEF Next, EpTaskStep

\* A fresh endpoint has no call.
LEMMA InitCallInv == Init => CallInv
<1>. SUFFICES ASSUME Init PROVE CallInv
  OBVIOUS
<1>1. Len(cmdq) = 0 /\ Len(conWait) = 0 /\ cur = NoCmd /\ \A c \in Callers : call[c] = "idle"
  BY DEF Init
<1>2. \A c \in Callers : \A i \in 0..Len(cmdq) : Work(i) # NewCon(c)
  BY <1>1, Commands DEF Work
<1>. QED  BY <1>1, <1>2 DEF CallInv, WorkOnce, WorkCalls, WorkThere, Waiters, Distinct

\* Calls are tracked in every reachable state.
THEOREM CallInvariance == Spec => []CallInv
<1>1. IInv => TypeOK
  BY DEF IInv
<1>. QED  BY <1>1, InitCallInv, NextCallInv, Invariance, PTL DEF Spec

\* Exactly one command answers each pending connect() (ep.rs:119-128).
THEOREM CallsAreTracked == Spec => []CallsTracked
<1>1. TypeOK /\ CallInv => CallsTracked
  <2>. SUFFICES ASSUME TypeOK, CallInv, NEW c \in Callers, call[c] = "queued"
                PROVE  Cardinality({i \in 1..Len(cmdq) : cmdq[i] = NewCon(c)})
                         + Count(cur = NewCon(c)) = 1
    BY DEF CallsTracked
  <2>. DEFINE Q == {i \in 1..Len(cmdq) : cmdq[i] = NewCon(c)}
  <2>1. PICK k \in 0..Len(cmdq) : Work(k) = NewCon(c)
    BY DEF CallInv, WorkThere
  <2>2. \A i \in 0..Len(cmdq) : Work(i) = NewCon(c) => i = k
    BY <2>1 DEF CallInv, WorkOnce
  <2>3. Len(cmdq) \in Nat
    BY LenProperties DEF TypeOK
  <2>4. \A i \in 1..Len(cmdq) : i \in 0..Len(cmdq) /\ Work(i) = cmdq[i]
    BY <2>3 DEF Work
  <2>5. CASE k = 0
    <3>1. Q = {} /\ cur = NewCon(c)
      BY <2>1, <2>2, <2>4, <2>5 DEF Work
    <3>2. Cardinality(Q) = 0 /\ Count(cur = NewCon(c)) = 1
      BY <3>1, FS_EmptySet DEF Count
    <3>. QED  BY <3>2
  <2>6. CASE k # 0
    <3>1. k \in 1..Len(cmdq) /\ cmdq[k] = NewCon(c)
      BY <2>1, <2>3, <2>6 DEF Work
    <3>2. Q = {k}
      BY <2>2, <2>4, <3>1
    <3>3. cur # NewCon(c)
      BY <2>2, <2>3, <2>6 DEF Work
    <3>4. Cardinality(Q) = 1 /\ Count(cur = NewCon(c)) = 0
      BY <3>2, <3>3, FS_Singleton DEF Count
    <3>. QED  BY <3>4
  <2>. QED  BY <2>5, <2>6
<1>2. IInv => TypeOK
  BY DEF IInv
<1>. QED  BY <1>1, <1>2, CallInvariance, Invariance, PTL

-----------------------------------------------------------------------------
(* EpTask implements EpApi.                                                *)

\* cid() gives out ids in order, so the next one is always new.
LEMMA NextFresh == TypeOK /\ FreshIds /\ [Next]_vars => FreshIds'
<1>. SUFFICES ASSUME TypeOK, FreshIds, [Next]_vars PROVE FreshIds'
  OBVIOUS
<1>1. CASE NextCid /\ \/ \E who : NewConnection(who)
                      \/ UNCHANGED origin
  BY <1>1 DEF FreshIds, NextCid, NewConnection, TypeOK
<1>2. CASE UNCHANGED <<nextCid, origin>>
  BY <1>2 DEF FreshIds
<1>3. CASE AcceptPak \/ \E c \in Callers : HandleConnect(c)
  BY <1>1, <1>3 DEF AcceptPak, HandleConnect
<1>4. CASE TakeCmd \/ DropPak \/ RoutePak
  BY <1>2, <1>4 DEF TakeCmd, DropPak, RoutePak, conVars
<1>5. CASE \/ \E p \in Pak : UdpTask(p)
           \/ \E c \in Callers : ConnectStart(c) \/ ConnectSend(c) \/ ConnectCancel(c)
           \/ \E i \in Cids : ConEnd(i)
           \/ AppRecv \/ AppDropRecv \/ UNCHANGED vars
  BY <1>2, <1>5 DEF UdpTask, ConnectStart, ConnectSend, ConnectCancel, ConEnd, AppRecv,
                    AppDropRecv, vars, conVars
<1>. QED  BY <1>3, <1>4, <1>5 DEF Next, EpTaskStep

\* No id that is not given out yet has an owner.
THEOREM IdsAreFresh == Spec => []FreshIds
<1>1. Init => FreshIds
  BY DEF Init, FreshIds
<1>2. IInv => TypeOK
  BY DEF IInv
<1>. QED  BY <1>1, <1>2, NextFresh, Invariance, PTL DEF Spec

\* What a call is to the application.
Seen(state) == IF state \in {"acquire", "queued"} THEN "pending" ELSE state

\* A step that changes at most one call.
LEMMA SeenOne ==
  ASSUME NEW c \in Callers, \A d \in Callers : d # c => call'[d] = call[d]
  PROVE  /\ ApiCall' = [ApiCall EXCEPT ![c] = Seen(call'[c])]
         /\ ApiCall[c] = Seen(call[c])
         /\ Seen(call'[c]) = Seen(call[c]) => ApiCall' = ApiCall
BY DEF ApiCall, Seen

\* A connect() call's own steps.
LEMMA ConnectApi ==
  ASSUME TypeOK, CallInv, NEW c \in Callers, ConnectStart(c) \/ ConnectSend(c) \/ ConnectCancel(c)
  PROVE  [Api!Next]_(Api!vars)
<1>1. UNCHANGED <<origin, evtq, recvAlive>>
  BY DEF ConnectStart, ConnectSend, ConnectCancel, evtVars, conVars
<1>2. \A d \in Callers : d # c => call'[d] = call[d]
  <2>1. \E v : call' = [call EXCEPT ![c] = v]
    BY DEF ConnectStart, ConnectSend, ConnectCancel
  <2>. QED  BY <2>1 DEF TypeOK
<1>3. /\ ApiCall' = [ApiCall EXCEPT ![c] = Seen(call'[c])]
      /\ ApiCall[c] = Seen(call[c])
      /\ Seen(call'[c]) = Seen(call[c]) => ApiCall' = ApiCall
  BY <1>2, SeenOne
<1>4. CASE ConnectStart(c)
  <2>1. Seen(call[c]) = "idle" /\ Seen(call'[c]) = "pending"
    BY <1>4 DEF ConnectStart, Seen, TypeOK
  <2>2. Api!Begin(c)
    BY <1>1, <1>3, <2>1 DEF Api!Begin
  <2>. QED  BY <2>2 DEF Api!Next
<1>5. CASE ConnectSend(c)
  <2>1. call[c] = "acquire" /\ call'[c] = "queued"
    BY <1>5, SendCalls DEF ConnectSend, TypeOK
  <2>2. ApiCall' = ApiCall
    BY <1>3, <2>1 DEF Seen
  <2>. QED  BY <1>1, <2>2 DEF Api!vars
<1>6. CASE ConnectCancel(c)
  <2>1. call[c] \in {"acquire", "queued"} /\ call'[c] = "cancelled"
    BY <1>6, CancelCalls DEF ConnectCancel, TypeOK
  <2>2. Seen(call[c]) = "pending" /\ Seen(call'[c]) = "cancelled"
    BY <2>1 DEF Seen
  <2>3. Api!Cancel(c)
    BY <1>1, <1>3, <2>2 DEF Api!Cancel
  <2>. QED  BY <2>3 DEF Api!Next
<1>. QED  BY <1>4, <1>5, <1>6

\* An incoming connection is reported within the limit, under a new id.
LEMMA AcceptApi ==
  ASSUME IInv, FreshIds, AcceptPak
  PROVE  [Api!Next]_(Api!vars)
<1>. DEFINE a == cur.pak.dcid
<1>1. /\ call' = call /\ recvAlive' = recvAlive /\ CanHoldEvt /\ NextCid
      /\ cur.cmd = "InPak" /\ cur.pak.type = "Initial" /\ cur \in EpCmd \cup {NoCmd}
  BY DEF AcceptPak, HandlePak, Finish, IInv, TypeOK
<1>2. ApiCall' = ApiCall
  BY <1>1 DEF ApiCall
<1>3. a \in Attempts \cup Cids
  <2>1. PICK p \in Pak : cur = InPak(p)
    BY <1>1 DEF EpCmd, Paks, NewCons, NewCon, NoCmd
  <2>2. cur.pak = p
    BY <2>1 DEF InPak
  <2>. QED  BY <1>1, <2>2 DEF Pak, Junk, None, Header
<1>4. nextCid \in Cids /\ origin[nextCid] = Nobody
  BY <1>1 DEF NextCid, FreshIds, Cids
<1>5. Len(evtq) < EvtLimit
  <2>1. /\ FreeOnceHeld \in Nat /\ FreeOnceHeld + 1 = evtFree + Count(evtGuard)
        /\ evtFree + Len(evtq) + Count(evtGuard) = EvtLimit
        /\ Len(evtq) \in Nat /\ evtFree \in Nat /\ Count(evtGuard) \in 0..1
    BY <1>1, HoldEvt, NumTypes DEF IInv, EvtPermits
  <2>. QED  BY <2>1
<1>. HIDE DEF a
<1>6. CASE NewConnection(a) /\ SendInCon(nextCid)
  <2>1. /\ origin' = [origin EXCEPT ![nextCid] = a]
        /\ evtq' = IF recvAlive THEN Append(evtq, nextCid) ELSE evtq
    BY <1>6 DEF NewConnection, SendInCon
  <2>2. Api!Incoming(a, nextCid)
    BY <1>1, <1>2, <1>4, <1>5, <2>1 DEF Api!Incoming, Api!New
  <2>. QED  BY <1>3, <1>4, <2>2 DEF Api!Next
<1>7. CASE KeepEvtGuard /\ UNCHANGED origin
  BY <1>1, <1>2, <1>7 DEF Api!vars, KeepEvtGuard
<1>. QED  BY <1>6, <1>7 DEF AcceptPak, a

\* A connect() is answered once, with a connection of its own.
LEMMA AnswerApi ==
  ASSUME TypeOK, CallInv, FreshIds, NEW c \in Callers, HandleConnect(c)
  PROVE  [Api!Next]_(Api!vars)
<1>1. UNCHANGED <<evtq, recvAlive>> /\ nextCid \in Cids
  BY DEF HandleConnect, Finish, KeepEvtGuard, NextCid
<1>2. /\ call[c] \in {"queued", "cancelled"}
      /\ \A d \in Callers : d # c => call'[d] = call[d]
  BY Answered
<1>3. /\ ApiCall' = [ApiCall EXCEPT ![c] = Seen(call'[c])]
      /\ ApiCall[c] = Seen(call[c])
      /\ Seen(call'[c]) = Seen(call[c]) => ApiCall' = ApiCall
  BY <1>2, SeenOne
<1>4. origin[nextCid] = Nobody
  BY <1>1 DEF FreshIds, Cids
<1>5. CASE /\ call'[c] = IF call[c] = "queued" THEN "ok" ELSE call[c]
           /\ NewConnection(c)
  <2>1. /\ ApiCall[c] \in {"pending", "cancelled"}
        /\ Seen(call'[c]) = IF ApiCall[c] = "pending" THEN "ok" ELSE ApiCall[c]
    BY <1>2, <1>3, <1>5 DEF Seen
  <2>2. Api!New(nextCid, c)
    BY <1>4, <1>5 DEF Api!New, NewConnection
  <2>3. Api!Connect(c, nextCid)
    BY <1>1, <1>3, <2>1, <2>2 DEF Api!Connect
  <2>. QED  BY <1>1, <2>3 DEF Api!Next
<1>6. CASE /\ call'[c] = IF call[c] = "queued" THEN "err" ELSE call[c]
           /\ UNCHANGED origin
  <2>1. CASE call[c] = "queued"
    <3>1. ApiCall[c] = "pending" /\ Seen(call'[c]) = "err"
      BY <1>3, <1>6, <2>1 DEF Seen
    <3>2. Api!Fail(c)
      BY <1>1, <1>3, <1>6, <3>1 DEF Api!Fail
    <3>. QED  BY <3>2 DEF Api!Next
  <2>2. CASE call[c] # "queued"
    <3>1. ApiCall' = ApiCall
      BY <1>3, <1>6, <2>2
    <3>. QED  BY <1>1, <1>6, <3>1 DEF Api!vars
  <2>. QED  BY <2>1, <2>2
<1>. QED
  <2>1. PICK result \in {"ok", "err"} :
          /\ call' = [call EXCEPT ![c] = IF @ = "queued" THEN result ELSE @]
          /\ IF result = "ok" THEN NewConnection(c) ELSE UNCHANGED <<conMap, con, origin>>
    BY DEF HandleConnect, Answer
  <2>2. call'[c] = IF call[c] = "queued" THEN result ELSE call[c]
    BY <2>1 DEF TypeOK
  <2>. QED  BY <1>5, <1>6, <2>1, <2>2

\* The application's own steps.
LEMMA AppApi ==
  ASSUME TypeOK, AppRecv \/ AppDropRecv
  PROVE  [Api!Next]_(Api!vars)
<1>1. UNCHANGED <<call, origin>>
  BY DEF AppRecv, AppDropRecv, callVars, conVars
<1>2. ApiCall' = ApiCall
  BY <1>1 DEF ApiCall
<1>3. CASE AppRecv
  <2>1. Api!Receive
    BY <1>1, <1>2, <1>3 DEF Api!Receive, AppRecv
  <2>. QED  BY <2>1 DEF Api!Next
<1>4. CASE AppDropRecv
  <2>1. Api!Unlisten
    BY <1>1, <1>2, <1>4 DEF Api!Unlisten, AppDropRecv
  <2>. QED  BY <2>1 DEF Api!Next
<1>. QED  BY <1>3, <1>4

\* Everything else is invisible to the application.
LEMMA QuietApi ==
  ASSUME \/ TakeCmd \/ DropPak \/ RoutePak \/ UNCHANGED vars
         \/ \E p \in Pak : UdpTask(p)
         \/ \E i \in Cids : ConEnd(i)
  PROVE  UNCHANGED Api!vars
<1>1. UNCHANGED <<call, origin, evtq, recvAlive>>
  BY DEF TakeCmd, DropPak, RoutePak, HandlePak, Finish, KeepEvtGuard, UdpTask, ConEnd,
         vars, callVars, evtVars, conVars
<1>2. ApiCall' = ApiCall
  BY <1>1 DEF ApiCall
<1>. QED  BY <1>1, <1>2 DEF Api!vars

\* Every step of ep_task and its surroundings is a step of EpApi or no step.
LEMMA NextApi == IInv /\ CallInv /\ FreshIds /\ [Next]_vars => [Api!Next]_(Api!vars)
<1>. SUFFICES ASSUME IInv, CallInv, FreshIds, [Next]_vars PROVE [Api!Next]_(Api!vars)
  OBVIOUS
<1>0. TypeOK
  BY DEF IInv
<1>1. CASE AcceptPak
  BY <1>1, AcceptApi
<1>2. ASSUME NEW c \in Callers, HandleConnect(c) PROVE [Api!Next]_(Api!vars)
  BY <1>0, <1>2, AnswerApi
<1>3. ASSUME NEW c \in Callers, ConnectStart(c) \/ ConnectSend(c) \/ ConnectCancel(c)
      PROVE  [Api!Next]_(Api!vars)
  BY <1>0, <1>3, ConnectApi
<1>4. CASE AppRecv \/ AppDropRecv
  BY <1>0, <1>4, AppApi
<1>5. CASE \/ TakeCmd \/ DropPak \/ RoutePak \/ UNCHANGED vars
           \/ \E p \in Pak : UdpTask(p)
           \/ \E i \in Cids : ConEnd(i)
  BY <1>5, QuietApi
<1>. QED  BY <1>1, <1>2, <1>3, <1>4, <1>5 DEF Next, EpTaskStep

\* A fresh endpoint is a fresh one for the application.
LEMMA InitApi == Init => Api!Init
<1>. SUFFICES ASSUME Init PROVE Api!Init
  OBVIOUS
<1>1. ApiCall = [c \in Callers |-> "idle"]
  BY DEF Init, ApiCall
<1>. QED  BY <1>1 DEF Init, Api!Init

\* ep_task implements the Ep trait as EpApi states it (ep.rs:119-128, 223-290),
\* whatever the limits, callers and attempts.
THEOREM EpTaskImplementsEpApi == Spec => ImplementsEpApi
BY InitApi, NextApi, Invariance, CallInvariance, IdsAreFresh, PTL
   DEF Spec, ImplementsEpApi, Api!Spec
=============================================================================
