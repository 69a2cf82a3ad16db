--------------------------- MODULE ConTaskProofs ---------------------------
(***************************************************************************)
(* Proofs about ConTask for every value of its constants: any channel      *)
(* limits, any set of calls and streams; and that ConTask implements       *)
(* ConApi.                                                                 *)
(***************************************************************************)
EXTENDS ConTaskApi, PermitLemmas

\* Before the application has the connection only the Tick's permit is out:
\* what AcceptHasPermit needs to be inductive.
OnlyTickOut ==
  ~handed => cmdWait = <<>> /\ Len(cmdq) + Count(cmdGuard) + timers <= 1

\* con_task holds no command guard between two commands, so taking the next
\* guard never overwrites one.
NoGuardAtRecv == pc = "recv" => ~cmdGuard

\* http3 runs only on a connection the application was told about.
H3NeedsConnected == h3 \/ pc = "h3" => connected

IInv ==
  /\ TypeOK
  /\ NoGuardAtRecv
  /\ H3NeedsConnected
  /\ CmdPermits
  /\ EvtPermits
  /\ DeadlineCovered
  /\ OnlyTickOut
  /\ ConnectedFirst

\* The numbers of the state; leaves that count permits need no more of TypeOK.
LEMMA NumTypes ==
  ASSUME TypeOK
  PROVE  /\ cmdFree \in Nat /\ evtFree \in Nat /\ timers \in Nat
         /\ Len(cmdq) \in Nat /\ Len(cmdWait) \in Nat /\ Len(evtq) \in Nat
         /\ Count(cmdGuard) \in 0..1 /\ Count(evtGuard) \in 0..1
BY CountOf, LenProperties DEF TypeOK

\* A new connection satisfies every part of the invariant.
LEMMA InitIInv == Init => IInv
<1>. SUFFICES ASSUME Init PROVE IInv
  OBVIOUS
<1>. USE LimitsAssumption
<1>1. TypeOK
  <2>1. Tick \in ConCmd
    BY DEF ConCmd
  <2>2. cmdq \in Seq(ConCmd) /\ cmdWait \in Seq(Calls) /\ evtq \in Seq(ConEvt)
    BY <2>1, EmptySeq DEF Init
  <2>3. cmdFree \in Nat /\ evtFree \in Nat /\ timers \in Nat /\ h3Ready \in 0..MaxH3
    BY DEF Init
  <2>4. /\ call \in [Calls -> {"idle", "acquire"} \cup Sent \cup Answered]
        /\ ref \in [Calls -> Refs \cup {Request}]
    BY DEF Init
  <2>5. pc \in {"recv", "evt", "h3", "send", "done"}
    BY DEF Init
  <2>. QED  BY <2>2, <2>3, <2>4, <2>5, Zenon DEF Init, TypeOK
<1>2. CmdPermits /\ EvtPermits /\ OnlyTickOut
  <2>1. Len(cmdq) = 1 /\ Len(evtq) = 0
    BY DEF Init
  <2>2. Count(cmdGuard) = 0 /\ Count(evtGuard) = 0
    BY Counts, Zenon DEF Init
  <2>. QED  BY <2>1, <2>2 DEF Init, CmdPermits, EvtPermits, OnlyTickOut
<1>3. DeadlineCovered /\ ConnectedFirst
  BY DEF Init, DeadlineCovered, ConnectedFirst
<1>4. NoGuardAtRecv /\ H3NeedsConnected
  BY DEF Init, NoGuardAtRecv, H3NeedsConnected
<1>. QED  BY <1>1, <1>2, <1>3, <1>4 DEF IInv

-----------------------------------------------------------------------------
(* One lemma for each way con_task and its surroundings step.              *)

\* Taking a command and scheduling its timer: the five Do actions.
LEMMA TakeStep ==
  ASSUME IInv, NEW cmd, TakeCmd(cmd), SchedTimeout,
         shouldSend' \in BOOLEAN,
         established' \in BOOLEAN, closed' \in BOOLEAN, armed' \in BOOLEAN,
         h3Ready' \in 0..MaxH3,
         call' \in [Calls -> {"idle", "acquire"} \cup Sent \cup Answered]
  PROVE  IInv'
<1>. USE DEF IInv
<1>1. /\ cmdq' \in Seq(ConCmd) /\ Len(cmdq') = Len(cmdq) - 1
      /\ Len(cmdq) \in Nat /\ Len(cmdq') \in Nat /\ Len(evtq) \in Nat
  BY Pop, LenProperties DEF TakeCmd, TypeOK
<1>2. pc = "recv" /\ pc' = "evt" /\ cmdGuard = FALSE
  BY DEF TakeCmd, TypeOK, NoGuardAtRecv
<1>3. Count(cmdGuard) = 0
  BY <1>2, Counts, Zenon
<1>4. \/ armed' = TRUE /\ timers' = timers + 1 /\ Count(cmdGuard') = 0
      \/ armed' = FALSE /\ timers' = timers + 0 /\ Count(cmdGuard') = 1
  <2>1. CASE armed'
    <3>1. armed' = TRUE /\ cmdGuard' = FALSE
      BY <2>1, Zenon DEF SchedTimeout
    <3>. QED  BY <3>1, Counts, Zenon DEF SchedTimeout
  <2>2. CASE ~armed'
    <3>1. armed' = FALSE /\ cmdGuard' = TRUE
      BY <2>2, Zenon DEF SchedTimeout
    <3>. QED  BY <3>1, Counts, Zenon DEF SchedTimeout
  <2>. QED  BY <2>1, <2>2
<1>5. TypeOK'
  <2>1. timers' \in Nat /\ cmdGuard' \in BOOLEAN
    BY <1>4 DEF TypeOK, SchedTimeout
  <2>. QED  BY <1>1, <1>2, <2>1 DEF TypeOK, TakeCmd, evtVars, envVars
<1>6. CmdPermits'
  BY <1>1, <1>2, <1>3, <1>4 DEF TypeOK, CmdPermits, TakeCmd
<1>7. EvtPermits' /\ ConnectedFirst'
  BY DEF EvtPermits, ConnectedFirst, TakeCmd, evtVars
<1>8. DeadlineCovered'
  BY <1>4 DEF DeadlineCovered, TypeOK
<1>9. OnlyTickOut'
  BY <1>1, <1>2, <1>3, <1>4 DEF TypeOK, OnlyTickOut, TakeCmd, envVars
<1>10. NoGuardAtRecv' /\ H3NeedsConnected'
  BY <1>2 DEF NoGuardAtRecv, H3NeedsConnected, TakeCmd
<1>. QED  BY <1>5, <1>6, <1>7, <1>8, <1>9, <1>10

\* Once con_task has an event permit, the semaphore is one short of what it
\* would be with that permit back.
LEMMA HoldEvt ==
  ASSUME TypeOK, CanHoldEvt
  PROVE  FreeOnceHeld \in Nat /\ FreeOnceHeld + 1 = evtFree + Count(evtGuard)
<1>1. \/ evtGuard /\ Count(evtGuard) = 1 /\ Count(~evtGuard) = 0
      \/ ~evtGuard /\ Count(evtGuard) = 0 /\ Count(~evtGuard) = 1
  BY CountOf DEF TypeOK
<1>2. evtFree \in Nat
  BY DEF TypeOK
<1>. QED  BY <1>1, <1>2 DEF FreeOnceHeld, CanHoldEvt

\* What con_task does with the event permit keeps the event channel sound.
LEMMA EvtStep ==
  ASSUME TypeOK, EvtPermits, CanHoldEvt, NEW evt \in ConEvt,
         KeepEvtGuard \/ SendEvt(evt)
  PROVE  /\ evtq' \in Seq(ConEvt) /\ evtFree' \in Nat /\ evtGuard' \in BOOLEAN
         /\ EvtPermits'
<1>1. /\ FreeOnceHeld \in Nat /\ FreeOnceHeld + 1 = evtFree + Count(evtGuard)
      /\ evtFree + Len(evtq) + Count(evtGuard) = EvtLimit
  BY HoldEvt DEF EvtPermits
<1>2. evtq \in Seq(ConEvt) /\ Len(evtq) \in Nat /\ evtFree \in Nat
  BY LenProperties DEF TypeOK
<1>3. Count(evtGuard) \in 0..1
  BY CountOf DEF TypeOK
<1>4. CASE KeepEvtGuard
  <2>1. Count(evtGuard') = 1
    BY <1>4, Counts, Zenon DEF KeepEvtGuard
  <2>2. evtFree' = FreeOnceHeld /\ evtq' = evtq /\ evtGuard' \in BOOLEAN
    BY <1>4 DEF KeepEvtGuard
  <2>. QED  BY <1>1, <1>2, <1>3, <2>1, <2>2 DEF EvtPermits
<1>5. CASE SendEvt(evt)
  <2>1. Count(evtGuard') = 0
    BY <1>5, Counts, Zenon DEF SendEvt
  <2>2. evtGuard' \in BOOLEAN
    BY <1>5 DEF SendEvt
  <2>3. CASE recvAlive
    <3>1. evtq' = Append(evtq, evt) /\ evtFree' = FreeOnceHeld
      BY <1>5, <2>3 DEF SendEvt
    <3>2. evtq' \in Seq(ConEvt) /\ Len(evtq') = Len(evtq) + 1
      BY <1>2, <3>1, Push
    <3>. QED  BY <1>1, <1>2, <1>3, <2>1, <2>2, <3>1, <3>2, SMTT(30) DEF EvtPermits
  <2>4. CASE ~recvAlive
    <3>1. evtq' = evtq /\ evtFree' = FreeOnceHeld + 1
      BY <1>5, <2>4 DEF SendEvt
    <3>. QED  BY <1>1, <1>2, <1>3, <2>1, <2>2, <3>1 DEF EvtPermits
  <2>. QED  BY <2>3, <2>4
<1>. QED  BY <1>4, <1>5

\* After the event permit is there: Connect, NoConnect and the http3 loop.
LEMMA EventStep ==
  ASSUME IInv,
         Connect \/ NoConnect \/ H3Done \/ H3Absorb \/ H3Message
  PROVE  IInv'
<1>. USE DEF IInv
<1>1. CanHoldEvt /\ UNCHANGED <<cmdGuard, cmdVars, timers, armed, callVars, envVars>>
  BY DEF Connect, NoConnect, H3Done, H3Absorb, H3Message, H3Poll, conVars
<1>2. pc \in {"evt", "h3"} /\ pc' \in {"h3", "send"}
  BY DEF Connect, NoConnect, H3Done, H3Absorb, H3Message, H3Poll
<1>3. \E evt \in ConEvt : KeepEvtGuard \/ SendEvt(evt)
  BY DEF Connect, NoConnect, H3Done, H3Absorb, H3Message, ConEvt
<1>4. /\ evtq' \in Seq(ConEvt) /\ evtFree' \in Nat /\ evtGuard' \in BOOLEAN
      /\ EvtPermits'
  BY <1>1, <1>3, EvtStep
<1>5. /\ shouldSend' \in BOOLEAN /\ connected' \in BOOLEAN /\ h3' \in BOOLEAN
      /\ established' \in BOOLEAN /\ closed' \in BOOLEAN /\ h3Ready' \in 0..MaxH3
  <2>1. \/ h3Ready' = h3Ready
        \/ h3Ready > 0 /\ h3Ready' = h3Ready - 1
    BY Zenon DEF Connect, NoConnect, H3Done, H3Absorb, H3Message, H3Poll, conVars
  <2>2. h3Ready' \in 0..MaxH3
    BY <2>1, LimitsAssumption DEF TypeOK
  <2>3. /\ shouldSend' \in {shouldSend, TRUE} /\ h3' \in {h3, TRUE}
        /\ connected' \in {connected, TRUE}
        /\ established' = established /\ closed' = closed
    BY Zenon DEF Connect, NoConnect, H3Done, H3Absorb, H3Message, H3Poll, conVars
  <2>. QED  BY <2>2, <2>3 DEF TypeOK
<1>6. TypeOK'
  BY <1>1, <1>2, <1>4, <1>5 DEF TypeOK, cmdVars, callVars, envVars
<1>7. CmdPermits' /\ OnlyTickOut' /\ NoGuardAtRecv'
  BY <1>1, <1>2 DEF CmdPermits, OnlyTickOut, NoGuardAtRecv, cmdVars, envVars
<1>8. DeadlineCovered'
  BY <1>1, <1>2 DEF DeadlineCovered, cmdVars
<1>9. H3NeedsConnected'
  BY DEF H3NeedsConnected, Connect, NoConnect, H3Done, H3Absorb, H3Message, H3Poll
<1>10. ConnectedFirst'
  <2>1. evtq \in Seq(ConEvt) /\ Len(evtq) \in Nat
    BY LenProperties DEF TypeOK
  <2>2. CASE Connect
    <3>1. evtq = <<>> /\ evtq' \in {<<>>, Append(<<>>, "Connected")} /\ connected'
      BY <2>2 DEF Connect, JustConnected, SendEvt, ConnectedFirst
    <3>. QED  BY <3>1 DEF ConnectedFirst
  <2>3. CASE H3Message
    <3>1. evtq' = Append(evtq, "Http3") /\ connected' = connected /\ connected
      BY <2>3 DEF H3Message, H3Poll, SendEvt, H3NeedsConnected
    <3>2. /\ Len(evtq') = Len(evtq) + 1 /\ evtq'[Len(evtq) + 1] = "Http3"
          /\ \A i \in 1..Len(evtq) : evtq'[i] = evtq[i]
      BY <2>1, <3>1, Push DEF ConEvt
    <3>. QED  BY <2>1, <3>1, <3>2 DEF ConnectedFirst
  <2>4. CASE NoConnect \/ H3Done \/ H3Absorb
    BY <2>4 DEF NoConnect, H3Done, H3Absorb, H3Poll, KeepEvtGuard, ConnectedFirst
  <2>. QED  BY <2>2, <2>3, <2>4
<1>. QED  BY <1>4, <1>6, <1>7, <1>8, <1>9, <1>10

\* con_task returns.
LEMMA ReturnStep ==
  ASSUME IInv, Return
  PROVE  IInv'
<1>. USE DEF IInv
<1>1. cmdq' = <<>> /\ Len(cmdq') = 0 /\ Len(cmdq) \in Nat /\ Len(evtq) \in Nat
  BY LenProperties DEF Return, TypeOK
<1>2. Count(cmdGuard') = 0 /\ Count(evtGuard') = 0
  BY Counts, Zenon DEF Return
<1>3. Count(cmdGuard) \in 0..1 /\ Count(evtGuard) \in 0..1
  BY CountOf DEF TypeOK
<1>4. TypeOK'
  <2>1. cmdFree' \in Nat /\ evtFree' \in Nat
    BY <1>1, <1>3, SMTT(30) DEF Return, ReleasedOnReturn, TypeOK
  <2>2. cmdq' \in Seq(ConCmd)
    BY <1>1, EmptySeq
  <2>3. call' \in [Calls -> {"idle", "acquire"} \cup Sent \cup Answered]
    BY DEF Return, TypeOK, Answered
  <2>4. cmdGuard' \in BOOLEAN /\ evtGuard' \in BOOLEAN /\ shouldSend' \in BOOLEAN
    BY DEF Return
  <2>. QED  BY <2>1, <2>2, <2>3, <2>4 DEF Return, TypeOK, conVars, envVars
<1>5. CmdPermits'
  BY <1>1, <1>2, <1>3 DEF Return, ReleasedOnReturn, TypeOK, CmdPermits
<1>6. EvtPermits'
  <2>1. evtFree' = evtFree + Count(evtGuard) /\ evtq' = evtq
    BY DEF Return
  <2>2. evtFree \in Nat /\ evtFree + Len(evtq) + Count(evtGuard) = EvtLimit
    BY DEF TypeOK, EvtPermits
  <2>3. evtFree' + Len(evtq') + Count(evtGuard') = EvtLimit
    BY <1>1, <1>2, <1>3, <2>1, <2>2
  <2>. QED  BY <2>3 DEF EvtPermits
<1>7. OnlyTickOut'
  BY <1>1, <1>2, <1>3 DEF Return, TypeOK, OnlyTickOut, envVars
<1>8. DeadlineCovered' /\ NoGuardAtRecv' /\ H3NeedsConnected'
  BY DEF Return, DeadlineCovered, NoGuardAtRecv, H3NeedsConnected
<1>9. ConnectedFirst'
  BY DEF Return, ConnectedFirst
<1>. QED  BY <1>4, <1>5, <1>6, <1>7, <1>8, <1>9

\* The end of an iteration: the command guard, if still there, is dropped.
LEMMA SendLoopStep ==
  ASSUME IInv, SendLoop
  PROVE  IInv'
<1>. USE DEF IInv
<1>1. EndIteration
  BY DEF SendLoop
<1>2. /\ armed' \in BOOLEAN /\ established' = established
      /\ closed' = closed /\ h3Ready' = h3Ready
  BY DEF SendLoop, QuicheSend, conVars, TypeOK
<1>3. Count(cmdGuard') = 0
  BY <1>1, Counts, Zenon DEF EndIteration
<1>4. Count(cmdGuard) \in 0..1 /\ Len(cmdq) \in Nat
  BY CountOf, LenProperties DEF TypeOK
<1>5. TypeOK'
  <2>1. cmdFree' \in Nat
    BY <1>1, <1>4 DEF EndIteration, TypeOK
  <2>2. cmdGuard' \in BOOLEAN /\ shouldSend' \in BOOLEAN
    BY <1>1 DEF EndIteration
  <2>. QED  BY <1>1, <1>2, <2>1, <2>2 DEF EndIteration, TypeOK, evtVars, callVars, envVars
<1>6. CmdPermits' /\ OnlyTickOut'
  <2>1. /\ cmdFree' = cmdFree + Count(cmdGuard) /\ cmdq' = cmdq /\ timers' = timers
        /\ cmdWait' = cmdWait /\ handed' = handed
    BY <1>1 DEF EndIteration, envVars
  <2>2. CmdPermits'
    BY <1>3, <2>1, NumTypes DEF CmdPermits
  <2>3. OnlyTickOut'
    BY <1>3, <2>1, NumTypes DEF OnlyTickOut
  <2>. QED  BY <2>2, <2>3
<1>7. EvtPermits' /\ ConnectedFirst'
  BY <1>1 DEF EndIteration, EvtPermits, ConnectedFirst, evtVars
<1>8. DeadlineCovered' /\ NoGuardAtRecv' /\ H3NeedsConnected'
  BY <1>1 DEF EndIteration, DeadlineCovered, NoGuardAtRecv, H3NeedsConnected
<1>. QED  BY <1>5, <1>6, <1>7, <1>8

-----------------------------------------------------------------------------
(* The tasks around con_task.                                              *)

\* Sending with a permit the sender just took, or gives to the command.
LEMMA SendStep ==
  ASSUME TypeOK, CmdPermits, DeadlineCovered, cmdFree > 0,
         NEW cmd \in ConCmd, SendCmd(cmd), UNCHANGED <<pc, cmdGuard, timers, armed>>
  PROVE  /\ cmdq' \in Seq(ConCmd) /\ cmdFree' \in Nat
         /\ CmdPermits' /\ DeadlineCovered'
<1>1. Count(cmdGuard) \in 0..1 /\ cmdq \in Seq(ConCmd) /\ Len(cmdq) \in Nat
  BY CountOf, LenProperties DEF TypeOK
<1>2. CASE pc = "done"
  BY <1>2 DEF SendCmd, CmdPermits, DeadlineCovered, TypeOK
<1>3. CASE pc # "done"
  <2>1. cmdq' = Append(cmdq, cmd) /\ cmdFree' = cmdFree - 1
    BY <1>3 DEF SendCmd
  <2>2. /\ cmdq' \in Seq(ConCmd) /\ Len(cmdq') = Len(cmdq) + 1
        /\ \A i \in 1..Len(cmdq) : cmdq'[i] = cmdq[i]
    BY <1>1, <2>1, Push
  <2>3. cmdFree' \in Nat /\ CmdPermits'
    BY <1>1, <2>1, <2>2 DEF CmdPermits, TypeOK
  <2>4. DeadlineCovered'
    BY <1>1, <2>2 DEF DeadlineCovered, TypeOK
  <2>. QED  BY <2>2, <2>3, <2>4
<1>. QED  BY <1>2, <1>3

\* A timer task wakes: its permit moves to the queued Timeout, or comes back
\* when con_task is gone.
LEMMA TimerStep ==
  ASSUME IInv, TimerFire
  PROVE  IInv'
<1>. USE DEF IInv
<1>1. /\ Count(cmdGuard) \in 0..1 /\ cmdq \in Seq(ConCmd) /\ Len(cmdq) \in Nat
      /\ timers' = timers - 1 /\ timers' \in Nat
  BY CountOf, LenProperties DEF TypeOK, TimerFire
<1>2. UNCHANGED <<taskVars, cmdWait, evtVars, conVars, callVars, envVars>>
  BY DEF TimerFire
<1>3. \/ pc = "done" /\ cmdFree' = cmdFree + 1 /\ cmdq' = cmdq
      \/ /\ pc # "done" /\ cmdFree' = cmdFree
         /\ cmdq' \in Seq(ConCmd) /\ Len(cmdq') = Len(cmdq) + 1
         /\ cmdq'[Len(cmdq) + 1] = Timeout
  <2>1. Timeout \in ConCmd
    BY DEF ConCmd
  <2>. QED  BY <1>1, <2>1, Push DEF TimerFire
<1>4. TypeOK'
  BY <1>1, <1>2, <1>3 DEF TypeOK, taskVars, evtVars, conVars, callVars, envVars
<1>5. CmdPermits' /\ OnlyTickOut'
  <2>1. Count(cmdGuard)' = Count(cmdGuard) /\ cmdWait' = cmdWait /\ handed' = handed
    BY <1>2 DEF taskVars, envVars
  <2>2. cmdFree' + Len(cmdq') = cmdFree + Len(cmdq) + 1 /\ cmdFree' \in Nat
    BY <1>3, NumTypes, SMTT(30)
  <2>3. Len(cmdq') \in Nat /\ Len(cmdq') <= Len(cmdq) + 1
    BY <1>3, NumTypes
  <2>4. CmdPermits'
    BY <1>1, <2>1, <2>2, <2>3, NumTypes, SMTT(30) DEF CmdPermits
  <2>5. OnlyTickOut'
    BY <1>1, <2>1, <2>3, NumTypes, SMTT(30) DEF OnlyTickOut
  <2>. QED  BY <2>4, <2>5
<1>6. DeadlineCovered'
  BY <1>1, <1>2, <1>3 DEF DeadlineCovered, taskVars, conVars
<1>7. EvtPermits' /\ ConnectedFirst' /\ NoGuardAtRecv' /\ H3NeedsConnected'
  BY <1>2 DEF EvtPermits, ConnectedFirst, NoGuardAtRecv, H3NeedsConnected, taskVars, evtVars
<1>. QED  BY <1>4, <1>5, <1>6, <1>7

\* ep_task hands a packet to con_task: its first one, or a later one.
LEMMA RouteStep ==
  ASSUME IInv, EpAccept \/ EpRoute
  PROVE  IInv'
<1>. USE DEF IInv
<1>1. /\ SendCmd(InPak) /\ handed'
      /\ UNCHANGED <<taskVars, cmdWait, timers, evtVars, conVars, callVars, recvAlive>>
  BY DEF EpAccept, EpRoute
<1>2. cmdFree > 0
  BY NumTypes DEF EpAccept, EpRoute, Available
<1>3. InPak \in ConCmd
  BY DEF ConCmd
<1>4. /\ cmdq' \in Seq(ConCmd) /\ cmdFree' \in Nat
      /\ CmdPermits' /\ DeadlineCovered'
  BY <1>1, <1>2, <1>3, SendStep DEF taskVars, conVars
<1>5. TypeOK'
  <2>1. handed' \in BOOLEAN /\ routed' \in BOOLEAN
    BY DEF EpAccept, EpRoute, TypeOK
  <2>. QED  BY <1>1, <1>4, <2>1 DEF TypeOK, taskVars, evtVars, conVars, callVars
<1>6. OnlyTickOut' /\ EvtPermits' /\ ConnectedFirst' /\ NoGuardAtRecv' /\ H3NeedsConnected'
  BY <1>1 DEF OnlyTickOut, EvtPermits, ConnectedFirst, NoGuardAtRecv, H3NeedsConnected,
              taskVars, evtVars
<1>. QED  BY <1>4, <1>5, <1>6

\* An http3() call joins the semaphore's queue; no permit moves.
LEMMA StartStep ==
  ASSUME IInv, NEW c \in Calls, Http3Start(c)
  PROVE  IInv'
<1>. USE DEF IInv
<1>1. UNCHANGED <<taskVars, cmdq, cmdFree, timers, evtVars, conVars, envVars>> /\ handed
  BY DEF Http3Start
<1>2. TypeOK'
  <2>1. cmdWait' \in Seq(Calls)
    BY Push DEF Http3Start, TypeOK
  <2>2. call' \in [Calls -> {"idle", "acquire"} \cup Sent \cup Answered]
    BY DEF Http3Start, TypeOK
  <2>3. ref' \in [Calls -> Refs \cup {Request}]
    BY DEF Http3Start, TypeOK
  <2>. QED  BY <1>1, <2>1, <2>2, <2>3 DEF TypeOK, taskVars, evtVars, conVars, envVars
<1>3. CmdPermits' /\ EvtPermits' /\ DeadlineCovered'
  BY <1>1 DEF CmdPermits, EvtPermits, DeadlineCovered, taskVars, evtVars, conVars
<1>4. OnlyTickOut' /\ ConnectedFirst' /\ NoGuardAtRecv' /\ H3NeedsConnected'
  BY <1>1 DEF OnlyTickOut, ConnectedFirst, NoGuardAtRecv, H3NeedsConnected,
              taskVars, evtVars, envVars
<1>. QED  BY <1>2, <1>3, <1>4

\* An http3() call that was given a permit sends its command with it.
LEMMA Http3SendStep ==
  ASSUME IInv, NEW c \in Calls, Http3Send(c)
  PROVE  IInv'
<1>. USE DEF IInv
<1>1. PICK i \in 1..Len(cmdWait) : i <= cmdFree /\ cmdWait' = Without(cmdWait, i)
  BY DEF Http3Send
<1>2. /\ SendCmd(Http3(c))
      /\ UNCHANGED <<taskVars, timers, evtVars, conVars, ref, envVars>>
  BY DEF Http3Send
<1>3. cmdFree > 0 /\ cmdWait # <<>>
  BY <1>1, NumTypes
<1>4. Http3(c) \in ConCmd
  BY DEF ConCmd
<1>5. /\ cmdq' \in Seq(ConCmd) /\ cmdFree' \in Nat
      /\ CmdPermits' /\ DeadlineCovered'
  BY <1>2, <1>3, <1>4, SendStep DEF taskVars, conVars
<1>6. TypeOK'
  <2>1. cmdWait' \in Seq(Calls)
    BY <1>1, WithoutElems DEF TypeOK
  <2>2. call' \in [Calls -> {"idle", "acquire"} \cup Sent \cup Answered]
    BY DEF Http3Send, TypeOK, Sent, Answered
  <2>. QED  BY <1>2, <1>5, <2>1, <2>2 DEF TypeOK, taskVars, evtVars, conVars, envVars
<1>7. OnlyTickOut'
  BY <1>2, <1>3 DEF OnlyTickOut, envVars
<1>8. EvtPermits' /\ ConnectedFirst' /\ NoGuardAtRecv' /\ H3NeedsConnected'
  BY <1>2 DEF EvtPermits, ConnectedFirst, NoGuardAtRecv, H3NeedsConnected, taskVars, evtVars
<1>. QED  BY <1>5, <1>6, <1>7, <1>8

\* A dropped http3() call leaves the semaphore's queue; no permit moves.
LEMMA CancelStep ==
  ASSUME IInv, NEW c \in Calls, Http3Cancel(c)
  PROVE  IInv'
<1>. USE DEF IInv
<1>1. UNCHANGED <<taskVars, cmdq, cmdFree, timers, evtVars, conVars, ref, envVars>>
  BY DEF Http3Cancel
<1>2. cmdWait' = cmdWait \/ \E i \in 1..Len(cmdWait) : cmdWait' = Without(cmdWait, i)
  BY DEF Http3Cancel
<1>3. TypeOK'
  <2>1. cmdWait' \in Seq(Calls)
    BY <1>2, WithoutElems DEF TypeOK
  <2>2. call' \in [Calls -> {"idle", "acquire"} \cup Sent \cup Answered]
    BY DEF Http3Cancel, TypeOK, Answered
  <2>. QED  BY <1>1, <2>1, <2>2 DEF TypeOK, taskVars, evtVars, conVars, envVars
<1>4. CmdPermits' /\ EvtPermits' /\ DeadlineCovered'
  BY <1>1 DEF CmdPermits, EvtPermits, DeadlineCovered, taskVars, evtVars, conVars
<1>5. OnlyTickOut'
  <2>1. cmdWait = <<>> => cmdWait' = <<>>
    BY <1>2
  <2>. QED  BY <1>1, <2>1 DEF OnlyTickOut, taskVars, envVars
<1>6. ConnectedFirst' /\ NoGuardAtRecv' /\ H3NeedsConnected'
  BY <1>1 DEF ConnectedFirst, NoGuardAtRecv, H3NeedsConnected, taskVars, evtVars
<1>. QED  BY <1>3, <1>4, <1>5, <1>6

\* The application takes an event, or drops the receiver with all of them.
LEMMA AppStep ==
  ASSUME IInv, AppRecv \/ AppDropRecv
  PROVE  IInv'
<1>. USE DEF IInv
<1>1. UNCHANGED <<taskVars, cmdVars, timers, evtGuard, conVars, callVars, handed, routed>>
  BY DEF AppRecv, AppDropRecv, envVars
<1>2. /\ evtq' \in Seq(ConEvt) /\ Len(evtq') \in Nat
      /\ evtFree' + Len(evtq') = evtFree + Len(evtq) /\ evtFree' \in Nat
      /\ \/ evtq' = <<>>
         \/ /\ evtq # <<>> /\ Len(evtq') = Len(evtq) - 1
            /\ \A i \in 1..Len(evtq') : evtq'[i] = evtq[i + 1]
  <2>1. CASE AppRecv
    <3>1. evtq # <<>> /\ evtq' = Tail(evtq) /\ evtFree' = evtFree + 1
      BY <2>1 DEF AppRecv
    <3>2. evtq \in Seq(ConEvt)
      BY DEF TypeOK
    <3>3. /\ evtq' \in Seq(ConEvt) /\ Len(evtq') = Len(evtq) - 1 /\ Len(evtq) >= 1
          /\ \A i \in 1..Len(evtq') : evtq'[i] = evtq[i + 1]
      BY <3>1, <3>2, Pop
    <3>. QED  BY <3>1, <3>3, NumTypes, SMTT(30)
  <2>2. CASE AppDropRecv
    <3>1. evtq' = <<>> /\ Len(evtq') = 0 /\ evtFree' = evtFree + Len(evtq)
      BY <2>2 DEF AppDropRecv
    <3>. QED  BY <3>1, EmptySeq, NumTypes
  <2>. QED  BY <2>1, <2>2
<1>3. TypeOK'
  <2>1. recvAlive' \in BOOLEAN
    BY DEF AppRecv, AppDropRecv, envVars, TypeOK
  <2>. QED  BY <1>1, <1>2, <2>1 DEF TypeOK, taskVars, cmdVars, conVars, callVars
<1>4. EvtPermits'
  <2>1. Count(evtGuard)' = Count(evtGuard)
    BY <1>1
  <2>. QED  BY <1>2, <2>1, NumTypes DEF EvtPermits
<1>5. ConnectedFirst'
  <2>1. connected' = connected
    BY <1>1 DEF taskVars
  <2>2. \A i \in 2..Len(evtq') : evtq'[i] = "Http3"
    <3>1. SUFFICES ASSUME NEW i \in 2..Len(evtq') PROVE evtq'[i] = "Http3"
      OBVIOUS
    <3>2. evtq' # <<>>
      BY <3>1
    <3>3. evtq'[i] = evtq[i + 1] /\ i + 1 \in 2..Len(evtq)
      BY <1>2, <3>1, <3>2, NumTypes
    <3>. QED  BY <3>3 DEF ConnectedFirst
  <2>3. ~connected => evtq' = <<>>
    BY <1>2 DEF ConnectedFirst
  <2>. QED  BY <2>1, <2>2, <2>3 DEF ConnectedFirst
<1>6. CmdPermits' /\ DeadlineCovered' /\ OnlyTickOut'
  BY <1>1 DEF CmdPermits, DeadlineCovered, OnlyTickOut, taskVars, cmdVars, conVars
<1>7. NoGuardAtRecv' /\ H3NeedsConnected'
  BY <1>1 DEF NoGuardAtRecv, H3NeedsConnected, taskVars
<1>. QED  BY <1>3, <1>4, <1>5, <1>6, <1>7

-----------------------------------------------------------------------------
(* The theorems.                                                           *)

\* Every step keeps the invariant: one case per action of Next.
LEMMA NextIInv == IInv /\ [Next]_vars => IInv'
<1>. SUFFICES ASSUME IInv, [Next]_vars PROVE IInv'
  OBVIOUS
<1>types. TypeOK /\ \A c \in Calls : \A x \in {"outWait", "outbound"} : Stored(c, x) \in {"cancelled", x}
  BY DEF IInv, Stored
<1>1. CASE DoTick
  BY <1>1, <1>types, TakeStep DEF DoTick, TypeOK, conVars
<1>2. CASE DoTimeout
  BY <1>2, <1>types, TakeStep DEF DoTimeout, QuicheOnTimeout, TypeOK
<1>3. CASE DoInPak
  <2>1. /\ established' \in BOOLEAN /\ closed' \in BOOLEAN /\ armed' \in BOOLEAN
        /\ h3Ready' \in 0..MaxH3
    <3>1. CASE UNCHANGED conVars
      BY <1>types, <3>1 DEF TypeOK, conVars
    <3>2. CASE /\ closed' \in BOOLEAN /\ established' \in {established, TRUE}
               /\ armed' \in {FALSE, ~closed'}
               /\ h3Ready' \in IF established' THEN h3Ready..MaxH3 ELSE {h3Ready}
      <4>1. established' \in BOOLEAN /\ closed' \in BOOLEAN /\ armed' \in BOOLEAN
        BY <1>types, <3>2 DEF TypeOK
      <4>2. h3Ready' \in (h3Ready..MaxH3) \cup {h3Ready} /\ h3Ready \in 0..MaxH3
        BY <1>types, <3>2 DEF TypeOK
      <4>3. h3Ready' \in 0..MaxH3
        BY <4>2, LimitsAssumption
      <4>. QED  BY <4>1, <4>3
    <3>. QED  BY <1>3, <3>1, <3>2, Zenon DEF DoInPak, QuicheRecv
  <2>. QED  BY <1>3, <1>types, <2>1, TakeStep DEF DoInPak, TypeOK
<1>4. ASSUME NEW c \in Calls, DoRequest(c) PROVE IInv'
  <2>1. call' \in [Calls -> {"idle", "acquire"} \cup Sent \cup Answered]
    BY <1>4, <1>types DEF DoRequest, TypeOK, Sent, Answered
  <2>. QED  BY <1>4, <1>types, <2>1, TakeStep DEF DoRequest, TypeOK, conVars
<1>5. ASSUME NEW c \in Calls, DoResponse(c) PROVE IInv'
  <2>1. call' \in [Calls -> {"idle", "acquire"} \cup Sent \cup Answered]
    BY <1>5, <1>types DEF DoResponse, TypeOK, Sent, Answered
  <2>. QED  BY <1>5, <1>types, <2>1, TakeStep DEF DoResponse, TypeOK, conVars
<1>6. CASE Connect \/ NoConnect \/ H3Done \/ H3Absorb \/ H3Message
  BY <1>6, EventStep
<1>7. CASE H3End \/ SendEnd
  BY <1>7, ReturnStep DEF H3End, SendEnd
<1>8. CASE SendLoop
  BY <1>8, SendLoopStep
<1>9. CASE TimerFire
  BY <1>9, TimerStep
<1>10. CASE EpAccept \/ EpRoute
  BY <1>10, RouteStep
<1>11. ASSUME NEW c \in Calls, Http3Start(c) \/ Http3Send(c) \/ Http3Cancel(c) PROVE IInv'
  BY <1>11, StartStep, Http3SendStep, CancelStep
<1>12. CASE AppRecv \/ AppDropRecv
  BY <1>12, AppStep
<1>13. CASE UNCHANGED vars
  BY <1>13 DEF IInv, TypeOK, NoGuardAtRecv, H3NeedsConnected, CmdPermits, EvtPermits,
               DeadlineCovered, OnlyTickOut, ConnectedFirst, vars, taskVars, cmdVars,
               evtVars, conVars, callVars, envVars
<1>. QED
  BY <1>1, <1>2, <1>3, <1>4, <1>5, <1>6, <1>7, <1>8, <1>9, <1>10, <1>11, <1>12, <1>13
     DEF Next, ConTaskStep

\* The inductive invariant holds in every reachable state.
THEOREM Invariance == Spec => []IInv
BY InitIInv, NextIInv, PTL DEF Spec

\* Every variable keeps its type; in particular no semaphore goes negative:
\* con_task, its timers and the senders only spend permits they were given.
THEOREM TypeCorrect == Spec => []TypeOK
<1>1. IInv => TypeOK
  BY DEF IInv
<1>. QED  BY <1>1, Invariance, PTL

\* No command permit is lost or made up (con.rs:207-217), whatever the limit
\* and however many calls, packets and timers there are.
THEOREM CmdPermitsConserved == Spec => []CmdPermits
<1>1. IInv => CmdPermits
  BY DEF IInv
<1>. QED  BY <1>1, Invariance, PTL

\* No event permit is lost or made up, with or without a receiver
\* (con.rs:219-251).
THEOREM EvtPermitsConserved == Spec => []EvtPermits
<1>1. IInv => EvtPermits
  BY DEF IInv
<1>. QED  BY <1>1, Invariance, PTL

\* While con_task works on a command, a timer task or a queued Timeout stands
\* for the deadline quiche asked for (con.rs:208-217).
THEOREM DeadlineIsCovered == Spec => []DeadlineCovered
<1>1. IInv => DeadlineCovered
  BY DEF IInv
<1>. QED  BY <1>1, Invariance, PTL

\* The unwrap at ep.rs:244 never panics when the channel has two permits.
THEOREM AcceptNeverPanics == Spec => []AcceptHasPermit
<1>1. IInv => AcceptHasPermit
  <2>. SUFFICES ASSUME IInv, ~handed PROVE Available
    BY DEF AcceptHasPermit
  <2>1. /\ TypeOK /\ cmdWait = <<>> /\ Len(cmdWait) = 0
        /\ Len(cmdq) + Count(cmdGuard) + timers <= 1
        /\ cmdFree + Len(cmdq) + Count(cmdGuard) + timers = CmdLimit
    BY DEF IInv, OnlyTickOut, CmdPermits
  <2>. QED  BY <2>1, NumTypes, LimitsAssumption DEF Available
<1>. QED  BY <1>1, Invariance, PTL

\* Connected comes once and before any http3 message (con.rs:224-251).
THEOREM ConnectedComesFirst == Spec => []ConnectedFirst
<1>1. IInv => ConnectedFirst
  BY DEF IInv
<1>. QED  BY <1>1, Invariance, PTL

-----------------------------------------------------------------------------
(* The http3() calls of a connection.                                      *)

\* A command of a call is in the queue at most once.
QueuedOnce ==
  \A c \in Calls : \A i, j \in 1..Len(cmdq) :
    cmdq[i] = Http3(c) /\ cmdq[j] = Http3(c) => i = j

\* The call of a queued command still waits for it, or was dropped.
QueuedCalls ==
  \A c \in Calls : \A i \in 1..Len(cmdq) :
    cmdq[i] = Http3(c) => call[c] \in {"queued", "cancelled"}

\* The command of a call that is queued is in the queue.
QueuedThere ==
  \A c \in Calls : call[c] = "queued" => \E i \in 1..Len(cmdq) : cmdq[i] = Http3(c)

\* The semaphore's queue has exactly the calls that wait.
WaitersTracked ==
  \A c \in Calls : call[c] = "acquire" <=> \E i \in 1..Len(cmdWait) : cmdWait[i] = c

\* What CallsTracked needs to be inductive.
CallInv ==
  /\ QueuedOnce
  /\ QueuedCalls
  /\ QueuedThere
  /\ WaitersTracked
  /\ Distinct(cmdWait)

\* Commands are told apart by their kind and their call.
LEMMA Commands ==
  /\ \A c, d \in Calls : Http3(c) = Http3(d) => c = d
  /\ \A c \in Calls : Http3(c) # Tick /\ Http3(c) # Timeout /\ Http3(c) # InPak
<1>1. \A c, d \in Calls : Http3(c) = Http3(d) => c = d
  <2>1. \A c \in Calls : Http3(c).call = c
    BY DEF Http3
  <2>. QED  BY <2>1
<1>2. \A c \in Calls : Http3(c) # Tick /\ Http3(c) # Timeout /\ Http3(c) # InPak
  <2>1. /\ \A c \in Calls : Http3(c).cmd = "Http3"
        /\ Tick.cmd = "Tick" /\ Timeout.cmd = "Timeout" /\ InPak.cmd = "InPak"
    BY DEF Http3, Tick, Timeout, InPak
  <2>. QED  BY <2>1
<1>. QED  BY <1>1, <1>2

\* The invariant looks at the queue, the waiters and the calls only.
LEMMA SameCalls ==
  ASSUME CallInv, UNCHANGED <<cmdq, cmdWait, call>>
  PROVE  CallInv'
BY DEF CallInv, QueuedOnce, QueuedCalls, QueuedThere, WaitersTracked, Distinct

\* A packet or a Timeout is queued behind the others.
LEMMA PushOther ==
  ASSUME TypeOK, CallInv, NEW cmd \in {Timeout, InPak},
         cmdq' = Append(cmdq, cmd), UNCHANGED <<cmdWait, call>>
  PROVE  CallInv'
<1>. USE DEF CallInv
<1>1. /\ cmdq \in Seq(ConCmd) /\ Len(cmdq) \in Nat /\ cmd \in ConCmd
  BY LenProperties DEF TypeOK, ConCmd
<1>2. /\ Len(cmdq') = Len(cmdq) + 1 /\ cmdq'[Len(cmdq) + 1] = cmd
      /\ \A i \in 1..Len(cmdq) : cmdq'[i] = cmdq[i]
  BY <1>1, Push
<1>3. \A c \in Calls : cmd # Http3(c)
  BY Commands
<1>4. \A c \in Calls : \A i \in 1..Len(cmdq') :
        cmdq'[i] = Http3(c) => i \in 1..Len(cmdq) /\ cmdq[i] = Http3(c)
  BY <1>1, <1>2, <1>3
<1>5. QueuedOnce' /\ QueuedCalls'
  BY <1>4 DEF QueuedOnce, QueuedCalls
<1>6. QueuedThere'
  BY <1>1, <1>2 DEF QueuedThere
<1>7. WaitersTracked' /\ Distinct(cmdWait)'
  BY DEF WaitersTracked, Distinct
<1>. QED  BY <1>5, <1>6, <1>7

\* con_task takes a command: a call that was queued is stored, and no other call
\* that waits or is queued changes.
LEMMA TakeCalls ==
  ASSUME TypeOK, CallInv, NEW cmd, TakeCmd(cmd),
         \A d \in Calls : cmd # Http3(d) =>
            \/ call'[d] = call[d]
            \/ call[d] = "outbound" /\ call'[d] = "ConShutdown",
         \A d \in Calls : cmd = Http3(d) => call'[d] \in {"cancelled", "outWait", "outbound"}
  PROVE  CallInv'
<1>. USE DEF CallInv
<1>1. /\ cmdq \in Seq(ConCmd) /\ Len(cmdq) \in Nat /\ Len(cmdq') \in Nat
      /\ Len(cmdq) >= 1 /\ cmdq[1] = cmd /\ Len(cmdq') = Len(cmdq) - 1
      /\ \A i \in 1..Len(cmdq') : cmdq'[i] = cmdq[i + 1]
      /\ cmdWait' = cmdWait
  BY Pop, LenProperties DEF TypeOK, TakeCmd
<1>2. \A c \in Calls : \A i \in 1..Len(cmdq') :
        cmdq'[i] = Http3(c) =>
          /\ i + 1 \in 1..Len(cmdq) /\ cmdq[i + 1] = Http3(c)
          /\ cmd # Http3(c)
  <2>1. SUFFICES ASSUME NEW c \in Calls, NEW i \in 1..Len(cmdq'), cmdq'[i] = Http3(c)
                 PROVE  /\ i + 1 \in 1..Len(cmdq) /\ cmdq[i + 1] = Http3(c)
                        /\ cmd # Http3(c)
    OBVIOUS
  <2>2. i + 1 \in 1..Len(cmdq) /\ 1 \in 1..Len(cmdq) /\ cmdq[i + 1] = Http3(c) /\ i + 1 # 1
    BY <1>1, <2>1
  <2>. QED  BY <1>1, <2>2 DEF QueuedOnce
<1>3. QueuedOnce'
  <2>1. SUFFICES ASSUME NEW c \in Calls, NEW i \in 1..Len(cmdq'), NEW j \in 1..Len(cmdq'),
                        cmdq'[i] = Http3(c), cmdq'[j] = Http3(c)
                 PROVE  i = j
    BY DEF QueuedOnce
  <2>2. i + 1 = j + 1
    BY <1>2, <2>1 DEF QueuedOnce
  <2>. QED  BY <1>1, <2>2
<1>4. QueuedCalls'
  <2>1. SUFFICES ASSUME NEW c \in Calls, NEW i \in 1..Len(cmdq'), cmdq'[i] = Http3(c)
                 PROVE  call'[c] \in {"queued", "cancelled"}
    BY DEF QueuedCalls
  <2>2. cmd # Http3(c) /\ call[c] \in {"queued", "cancelled"}
    BY <1>2, <2>1 DEF QueuedCalls
  <2>. QED  BY <2>2
<1>5. QueuedThere'
  <2>1. SUFFICES ASSUME NEW c \in Calls, call'[c] = "queued"
                 PROVE  \E i \in 1..Len(cmdq') : cmdq'[i] = Http3(c)
    BY DEF QueuedThere
  <2>2. cmd # Http3(c) /\ call[c] = "queued"
    BY <2>1
  <2>3. PICK i \in 1..Len(cmdq) : cmdq[i] = Http3(c)
    BY <2>2 DEF QueuedThere
  <2>4. i # 1
    BY <1>1, <2>2, <2>3
  <2>5. i - 1 \in 1..Len(cmdq') /\ cmdq'[i - 1] = cmdq[i]
    BY <1>1, <2>4
  <2>. QED  BY <2>3, <2>5
<1>6. WaitersTracked'
  <2>1. \A c \in Calls : call'[c] = "acquire" <=> call[c] = "acquire"
    <3>1. SUFFICES ASSUME NEW c \in Calls
                   PROVE  call'[c] = "acquire" <=> call[c] = "acquire"
      OBVIOUS
    <3>2. CASE cmd = Http3(c)
      BY <1>1, <3>2 DEF QueuedCalls
    <3>3. CASE cmd # Http3(c)
      BY <3>3
    <3>. QED  BY <3>2, <3>3
  <2>. QED  BY <1>1, <2>1 DEF WaitersTracked
<1>7. Distinct(cmdWait)'
  BY <1>1 DEF Distinct
<1>. QED  BY <1>3, <1>4, <1>5, <1>6, <1>7

\* con_task returns: nothing is queued, and the calls that wait go on waiting.
LEMMA ReturnCalls ==
  ASSUME TypeOK, CallInv, Return
  PROVE  CallInv'
<1>. USE DEF CallInv
<1>1. cmdq' = <<>> /\ Len(cmdq') = 0 /\ cmdWait' = cmdWait
  BY DEF Return
<1>2. \A c \in Calls : call'[c] = IF call[c] \in Sent THEN "ConShutdown" ELSE call[c]
  BY DEF Return
<1>3. QueuedOnce' /\ QueuedCalls'
  BY <1>1 DEF QueuedOnce, QueuedCalls
<1>4. QueuedThere'
  BY <1>2 DEF QueuedThere, Sent
<1>5. WaitersTracked'
  BY <1>1, <1>2 DEF WaitersTracked, Sent
<1>6. Distinct(cmdWait)'
  BY <1>1 DEF Distinct
<1>. QED  BY <1>3, <1>4, <1>5, <1>6

\* A call that begins is not among the waiters yet.
LEMMA StartCalls ==
  ASSUME TypeOK, CallInv, NEW c \in Calls, Http3Start(c)
  PROVE  CallInv'
<1>. USE DEF CallInv
<1>1. /\ call[c] = "idle" /\ cmdq' = cmdq
      /\ \A d \in Calls : call'[d] = IF d = c THEN "acquire" ELSE call[d]
  BY DEF Http3Start, TypeOK
<1>2. /\ cmdWait \in Seq(Calls) /\ Len(cmdWait) \in Nat
      /\ Len(cmdWait') = Len(cmdWait) + 1 /\ cmdWait'[Len(cmdWait) + 1] = c
      /\ \A i \in 1..Len(cmdWait) : cmdWait'[i] = cmdWait[i]
  BY Push, LenProperties DEF Http3Start, TypeOK
<1>3. \A i \in 1..Len(cmdWait) : cmdWait[i] # c
  BY <1>1 DEF WaitersTracked
<1>4. QueuedOnce' /\ QueuedCalls' /\ QueuedThere'
  BY <1>1 DEF QueuedOnce, QueuedCalls, QueuedThere
<1>5. WaitersTracked'
  <2>1. SUFFICES ASSUME NEW d \in Calls
                 PROVE  call'[d] = "acquire" <=> \E i \in 1..Len(cmdWait') : cmdWait'[i] = d
    BY DEF WaitersTracked
  <2>2. CASE d = c
    BY <1>1, <1>2, <2>2
  <2>3. CASE d # c
    <3>1. (\E i \in 1..Len(cmdWait') : cmdWait'[i] = d)
            <=> \E i \in 1..Len(cmdWait) : cmdWait[i] = d
      BY <1>2, <2>3
    <3>. QED  BY <1>1, <2>3, <3>1 DEF WaitersTracked
  <2>. QED  BY <2>2, <2>3
<1>6. Distinct(cmdWait)'
  BY <1>2, <1>3 DEF Distinct
<1>. QED  BY <1>4, <1>5, <1>6

\* A call that leaves the waiters is not among them any more.
LEMMA LeaveWaiters ==
  ASSUME TypeOK, CallInv, NEW c \in Calls, NEW i \in 1..Len(cmdWait), cmdWait[i] = c,
         cmdWait' = Without(cmdWait, i),
         \A d \in Calls : d # c => call'[d] = call[d],
         call'[c] # "acquire"
  PROVE  call[c] = "acquire" /\ WaitersTracked' /\ Distinct(cmdWait)'
<1>. USE DEF CallInv
<1>1. /\ Distinct(cmdWait')
      /\ \A d : (\E j \in 1..Len(cmdWait') : cmdWait'[j] = d)
             <=> d # c /\ \E j \in 1..Len(cmdWait) : cmdWait[j] = d
  <2>. DEFINE w == Without(cmdWait, i)
  <2>1. /\ Distinct(w)
        /\ \A d : (\E j \in 1..Len(w) : w[j] = d)
               <=> d # cmdWait[i] /\ \E j \in 1..Len(cmdWait) : cmdWait[j] = d
    BY WithoutDistinct DEF TypeOK
  <2>2. cmdWait' = w
    OBVIOUS
  <2>. HIDE DEF w
  <2>. QED  BY <2>1, <2>2
<1>2. call[c] = "acquire"
  BY DEF WaitersTracked
<1>3. WaitersTracked'
  BY <1>1 DEF WaitersTracked
<1>4. Distinct(cmdWait)'
  BY <1>1 DEF Distinct
<1>. QED  BY <1>2, <1>3, <1>4

\* A call that was given a permit queues its command, which was not there.
LEMMA SendCalls ==
  ASSUME TypeOK, CallInv, NEW c \in Calls, Http3Send(c)
  PROVE  CallInv' /\ call[c] = "acquire"
<1>. USE DEF CallInv
<1>1. PICK i \in 1..Len(cmdWait) : cmdWait[i] = c /\ cmdWait' = Without(cmdWait, i)
  BY DEF Http3Send
<1>2. \A d \in Calls : call'[d] = IF d # c THEN call[d]
                                  ELSE IF pc = "done" THEN "ChannelClosed" ELSE "queued"
  BY DEF Http3Send, TypeOK
<1>3. call[c] = "acquire" /\ WaitersTracked' /\ Distinct(cmdWait)'
  BY <1>1, <1>2, LeaveWaiters
<1>4. \A j \in 1..Len(cmdq) : cmdq[j] # Http3(c)
  BY <1>3 DEF QueuedCalls
<1>5. CASE pc = "done"
  <2>1. cmdq' = cmdq
    BY <1>5 DEF Http3Send, SendCmd
  <2>. QED  BY <1>2, <1>3, <1>4, <1>5, <2>1 DEF QueuedOnce, QueuedCalls, QueuedThere
<1>6. CASE pc # "done"
  <2>1. /\ cmdq \in Seq(ConCmd) /\ Len(cmdq) \in Nat /\ Http3(c) \in ConCmd
        /\ cmdq' = Append(cmdq, Http3(c))
    BY <1>6, LenProperties DEF TypeOK, ConCmd, Http3Send, SendCmd
  <2>2. /\ Len(cmdq') = Len(cmdq) + 1 /\ cmdq'[Len(cmdq) + 1] = Http3(c)
        /\ \A j \in 1..Len(cmdq) : cmdq'[j] = cmdq[j]
    BY <2>1, Push
  <2>3. \A d \in Calls : \A j \in 1..Len(cmdq') :
          cmdq'[j] = Http3(d) =>
            \/ d = c /\ j = Len(cmdq) + 1
            \/ d # c /\ j \in 1..Len(cmdq) /\ cmdq[j] = Http3(d)
    BY <1>4, <2>1, <2>2, Commands
  <2>4. QueuedOnce'
    BY <2>3 DEF QueuedOnce
  <2>5. QueuedCalls'
    BY <1>2, <1>6, <2>3 DEF QueuedCalls
  <2>6. QueuedThere'
    BY <1>2, <2>1, <2>2 DEF QueuedThere
  <2>. QED  BY <1>3, <2>4, <2>5, <2>6
<1>. QED  BY <1>5, <1>6

\* A dropped call leaves the waiters, or leaves its command with nobody to answer.
LEMMA CancelCalls ==
  ASSUME TypeOK, CallInv, NEW c \in Calls, Http3Cancel(c)
  PROVE  CallInv' /\ call[c] \in {"acquire"} \cup Sent
<1>. USE DEF CallInv
<1>1. /\ cmdq' = cmdq
      /\ \A d \in Calls : call'[d] = IF d = c THEN "cancelled" ELSE call[d]
  BY DEF Http3Cancel, TypeOK
<1>2. QueuedOnce' /\ QueuedCalls' /\ QueuedThere'
  BY <1>1 DEF QueuedOnce, QueuedCalls, QueuedThere
<1>3. CASE call[c] \in Sent /\ UNCHANGED cmdWait
  <2>1. WaitersTracked' /\ Distinct(cmdWait)'
    BY <1>1, <1>3 DEF WaitersTracked, Distinct, Sent
  <2>. QED  BY <1>2, <1>3, <2>1
<1>4. CASE \E i \in 1..Len(cmdWait) : cmdWait[i] = c /\ cmdWait' = Without(cmdWait, i)
  <2>1. PICK i \in 1..Len(cmdWait) : cmdWait[i] = c /\ cmdWait' = Without(cmdWait, i)
    BY <1>4
  <2>2. call[c] = "acquire" /\ WaitersTracked' /\ Distinct(cmdWait)'
    BY <1>1, <2>1, LeaveWaiters
  <2>. QED  BY <1>2, <2>2
<1>. QED  BY <1>3, <1>4 DEF Http3Cancel

-----------------------------------------------------------------------------
(* Calls are never lost.                                                   *)

\* Every step keeps track of the calls.
LEMMA NextCallInv == TypeOK /\ CallInv /\ [Next]_vars => CallInv'
<1>. SUFFICES ASSUME TypeOK, CallInv, [Next]_vars PROVE CallInv'
  OBVIOUS
<1>1. CASE DoTick
  BY <1>1, TakeCalls, Commands DEF DoTick
<1>2. CASE DoTimeout
  BY <1>2, TakeCalls, Commands DEF DoTimeout
<1>3. CASE DoInPak
  BY <1>3, TakeCalls, Commands DEF DoInPak
<1>4. ASSUME NEW c \in Calls, DoRequest(c) PROVE CallInv'
  <2>1. TakeCmd(Http3(c)) /\ \A d \in Calls : call'[d] = IF d = c THEN Stored(c, "outWait") ELSE call[d]
    BY <1>4 DEF DoRequest, TypeOK
  <2>2. Stored(c, "outWait") \in {"cancelled", "outWait"}
    BY DEF Stored
  <2>. QED  BY <2>1, <2>2, TakeCalls, Commands
<1>5. ASSUME NEW c \in Calls, DoResponse(c) PROVE CallInv'
  <2>1. /\ TakeCmd(Http3(c)) /\ call'[c] = Stored(c, "outbound")
        /\ \A d \in Calls : d # c =>
             \/ call'[d] = call[d]
             \/ call[d] = "outbound" /\ call'[d] = "ConShutdown"
    BY <1>5 DEF DoResponse
  <2>2. Stored(c, "outbound") \in {"cancelled", "outbound"}
    BY DEF Stored
  <2>. QED  BY <2>1, <2>2, TakeCalls, Commands
<1>6. CASE Connect \/ NoConnect \/ H3Done \/ H3Absorb \/ H3Message
  BY <1>6, SameCalls DEF Connect, NoConnect, H3Done, H3Absorb, H3Message, H3Poll, cmdVars, callVars
<1>7. CASE H3End \/ SendEnd
  BY <1>7, ReturnCalls DEF H3End, SendEnd
<1>8. CASE SendLoop
  BY <1>8, SameCalls DEF SendLoop, EndIteration, callVars
<1>9. CASE TimerFire
  BY <1>9, SameCalls, PushOther DEF TimerFire, callVars
<1>10. CASE EpAccept \/ EpRoute
  BY <1>10, SameCalls, PushOther DEF EpAccept, EpRoute, SendCmd, callVars
<1>11. ASSUME NEW c \in Calls, Http3Start(c) \/ Http3Send(c) \/ Http3Cancel(c) PROVE CallInv'
  BY <1>11, StartCalls, SendCalls, CancelCalls
<1>12. CASE AppRecv \/ AppDropRecv
  BY <1>12, SameCalls DEF AppRecv, AppDropRecv, cmdVars, callVars
<1>13. CASE UNCHANGED vars
  BY <1>13, SameCalls DEF vars, cmdVars, callVars
<1>. QED
  BY <1>1, <1>2, <1>3, <1>4, <1>5, <1>6, <1>7, <1>8, <1>9, <1>10, <1>11, <1>12, <1>13
     DEF Next, ConTaskStep

\* A new connection has no call.
LEMMA InitCallInv == Init => CallInv
<1>. SUFFICES ASSUME Init PROVE CallInv
  OBVIOUS
<1>1. /\ cmdWait = <<>> /\ Len(cmdWait) = 0 /\ Len(cmdq) = 1 /\ cmdq[1] = Tick
      /\ \A c \in Calls : call[c] = "idle"
  BY DEF Init
<1>. QED
  BY <1>1, Commands DEF CallInv, QueuedOnce, QueuedCalls, QueuedThere, WaitersTracked, Distinct

\* Calls are tracked in every reachable state.
THEOREM CallInvariance == Spec => []CallInv
<1>1. IInv => TypeOK
  BY DEF IInv
<1>. QED  BY <1>1, InitCallInv, NextCallInv, Invariance, PTL DEF Spec

\* No http3() call is lost between the application and con_task, and none is
\* queued twice (con.rs:115-122).
THEOREM CallsAreTracked == Spec => []CallsTracked
<1>1. CallInv => CallsTracked
  <2>. SUFFICES ASSUME CallInv, NEW c \in Calls
                PROVE  /\ call[c] = "queued" =>
                            \E i \in 1..Len(cmdq) :
                              \A j \in 1..Len(cmdq) : cmdq[j] = Http3(c) <=> j = i
                       /\ call[c] = "acquire" <=> \E i \in 1..Len(cmdWait) : cmdWait[i] = c
    BY DEF CallsTracked
  <2>1. CASE call[c] = "queued"
    <3>1. PICK i \in 1..Len(cmdq) : cmdq[i] = Http3(c)
      BY <2>1 DEF CallInv, QueuedThere
    <3>2. \A j \in 1..Len(cmdq) : cmdq[j] = Http3(c) <=> j = i
      BY <3>1 DEF CallInv, QueuedOnce
    <3>. QED  BY <2>1, <3>2 DEF CallInv, WaitersTracked
  <2>2. CASE call[c] # "queued"
    BY <2>2 DEF CallInv, WaitersTracked
  <2>. QED  BY <2>1, <2>2
<1>. QED  BY <1>1, CallInvariance, PTL

-----------------------------------------------------------------------------
(* The end of con_task, and of the connection.                             *)

\* After its return con_task holds no command, no guard and no responder, and
\* nothing that is sent to it later is kept.
EndHolds ==
  pc = "done" =>
    /\ cmdq = <<>> /\ ~cmdGuard /\ ~evtGuard
    /\ \A c \in Calls : call[c] \notin Sent

\* So every permit of the command channel is free but those of the timers that
\* still sleep, and every permit of the event channel but those of the events the
\* application has not received: nobody who waits for one waits for con_task.
EndReleases ==
  pc = "done" => cmdFree + timers = CmdLimit /\ evtFree + Len(evtq) = EvtLimit

\* Nothing that was sent before the end is forgotten, and nothing after it is kept.
LEMMA NextEndHolds == TypeOK /\ EndHolds /\ [Next]_vars => EndHolds'
<1>. SUFFICES ASSUME TypeOK, EndHolds, [Next]_vars, pc' = "done"
              PROVE  /\ cmdq' = <<>> /\ ~cmdGuard' /\ ~evtGuard'
                     /\ \A c \in Calls : call'[c] \notin Sent
  BY DEF EndHolds
<1>1. CASE Return
  BY <1>1 DEF Return, Sent
<1>2. CASE ConTaskStep /\ ~Return
  <2>1. pc' # "done"
    BY <1>2 DEF ConTaskStep, DoTick, DoTimeout, DoInPak, DoRequest, DoResponse, TakeCmd,
                Connect, NoConnect, H3Done, H3Absorb, H3Message, H3Poll, H3End,
                SendLoop, SendEnd, EndIteration
  <2>. QED  BY <2>1
<1>3. CASE TimerFire \/ EpAccept \/ EpRoute
  BY <1>3 DEF TimerFire, EpAccept, EpRoute, SendCmd, taskVars, evtVars, callVars, EndHolds
<1>4. ASSUME NEW c \in Calls, Http3Start(c) \/ Http3Send(c) \/ Http3Cancel(c)
      PROVE  /\ cmdq' = <<>> /\ ~cmdGuard' /\ ~evtGuard'
             /\ \A d \in Calls : call'[d] \notin Sent
  <2>1. pc = "done" /\ cmdq' = cmdq /\ cmdGuard' = cmdGuard /\ evtGuard' = evtGuard
    BY <1>4 DEF Http3Start, Http3Send, Http3Cancel, SendCmd, taskVars, evtVars
  <2>2. \E state \in {"acquire", "ChannelClosed", "cancelled"} :
          call' = [call EXCEPT ![c] = state]
    BY <1>4, <2>1 DEF Http3Start, Http3Send, Http3Cancel
  <2>3. call \in [Calls -> {"idle", "acquire"} \cup Sent \cup Answered]
    BY DEF TypeOK
  <2>. QED  BY <2>1, <2>2, <2>3 DEF EndHolds, Sent
<1>5. CASE AppRecv \/ AppDropRecv \/ UNCHANGED vars
  BY <1>5 DEF AppRecv, AppDropRecv, vars, taskVars, cmdVars, evtVars, callVars, EndHolds
<1>. QED  BY <1>1, <1>2, <1>3, <1>4, <1>5 DEF Next

\* No return of con_task, wherever it is in its iteration, and no send that comes
\* after it leaves a command, a guard or a responder behind (con.rs:157-420).
THEOREM EndLeavesNothing == Spec => []EndHolds
<1>1. Init => EndHolds
  BY DEF Init, EndHolds
<1>. QED  BY <1>1, NextEndHolds, TypeCorrect, PTL DEF Spec

\* Once con_task has returned every waiting http3() call can have a permit, as
\* soon as the timers that are still asleep have ended (con.rs:119-121, 208-217).
THEOREM EndReleasesPermits == Spec => []EndReleases
<1>1. TypeOK /\ EndHolds /\ CmdPermits /\ EvtPermits => EndReleases
  <2>. SUFFICES ASSUME TypeOK, EndHolds, CmdPermits, EvtPermits, pc = "done"
                PROVE  cmdFree + timers = CmdLimit /\ evtFree + Len(evtq) = EvtLimit
    BY DEF EndReleases
  <2>1. Len(cmdq) = 0 /\ cmdGuard = FALSE /\ evtGuard = FALSE
    BY DEF EndHolds, TypeOK
  <2>2. Count(cmdGuard) = 0 /\ Count(evtGuard) = 0
    BY <2>1, Counts, Zenon
  <2>. QED  BY <2>1, <2>2, NumTypes DEF CmdPermits, EvtPermits
<1>. QED
  BY <1>1, EndLeavesNothing, TypeCorrect, CmdPermitsConserved, EvtPermitsConserved, PTL

\* quiche has no deadline for a connection that is closed (external: timeout()).
ClosedUnarmed == closed => ~armed

\* What taking a command does to a closed connection.
LEMMA ClosedTake ==
  ASSUME TypeOK, ClosedUnarmed, SchedTimeout,
         UNCHANGED conVars \/ QuicheOnTimeout \/ QuicheRecv
  PROVE  ClosedUnarmed' /\ (closed => closed' /\ timers' <= timers)
<1>1. armed \in BOOLEAN /\ closed \in BOOLEAN /\ timers \in Nat
  BY DEF TypeOK
<1>2. CASE closed
  <2>1. armed = FALSE
    BY <1>1, <1>2, Zenon DEF ClosedUnarmed
  <2>2. closed' /\ armed' = FALSE
    <3>1. CASE UNCHANGED conVars \/ QuicheOnTimeout
      BY <1>2, <2>1, <3>1, Zenon DEF QuicheOnTimeout, conVars
    <3>2. CASE QuicheRecv
      BY <1>2, <2>1, <3>2, Zenon DEF QuicheRecv, conVars
    <3>. QED  BY <3>1, <3>2
  <2>3. timers' = timers + 0
    BY <2>2, Counts, Zenon DEF SchedTimeout
  <2>4. timers' <= timers
    BY <1>1, <2>3
  <2>. QED  BY <2>2, <2>4, Zenon DEF ClosedUnarmed
<1>3. CASE ~closed
  <2>1. closed' = closed \/ armed' = FALSE \/ armed' = (~closed')
    <3>1. CASE UNCHANGED conVars \/ QuicheOnTimeout
      BY <3>1, Zenon DEF QuicheOnTimeout, conVars
    <3>2. CASE QuicheRecv
      BY <3>2, Zenon DEF QuicheRecv, conVars
    <3>. QED  BY <3>1, <3>2
  <2>2. ~closed' \/ ~armed'
    <3>1. CASE closed' = closed
      BY <1>3, <3>1, Zenon
    <3>2. CASE armed' = FALSE
      BY <3>2, Zenon
    <3>3. CASE armed' = (~closed')
      BY <3>3, Zenon
    <3>. QED  BY <2>1, <3>1, <3>2, <3>3
  <2>. QED  BY <1>3, <2>2, Zenon DEF ClosedUnarmed
<1>. QED  BY <1>2, <1>3

\* What each step does to it.
LEMMA ClosedStep ==
  ASSUME TypeOK, ClosedUnarmed, [Next]_vars
  PROVE  ClosedUnarmed' /\ (closed => closed' /\ timers' <= timers)
<1>1. timers \in Nat
  BY DEF TypeOK
<1>2. CASE DoTick \/ DoTimeout \/ DoInPak \/ \E c \in Calls : DoRequest(c) \/ DoResponse(c)
  <2>1. SchedTimeout /\ (UNCHANGED conVars \/ QuicheOnTimeout \/ QuicheRecv)
    BY <1>2, Zenon DEF DoTick, DoTimeout, DoInPak, DoRequest, DoResponse
  <2>. QED  BY <2>1, ClosedTake
<1>3. CASE SendLoop
  <2>1. timers' = timers
    BY <1>3 DEF SendLoop, EndIteration
  <2>2. closed' = closed /\ (armed' = armed \/ armed' = (~closed))
    BY <1>3, Zenon DEF SendLoop, QuicheSend, conVars
  <2>3. closed => closed' /\ ~armed'
    <3>1. CASE armed' = armed
      BY <2>2, <3>1, Zenon DEF ClosedUnarmed
    <3>2. CASE armed' = (~closed)
      BY <2>2, <3>2, Zenon
    <3>. QED  BY <2>2, <3>1, <3>2
  <2>4. timers' <= timers
    BY <1>1, <2>1
  <2>. QED  BY <2>2, <2>3, <2>4, Zenon DEF ClosedUnarmed
<1>4. CASE Connect \/ NoConnect \/ H3Done \/ H3Absorb \/ H3Message \/ H3End \/ SendEnd
  BY <1>1, <1>4 DEF Connect, NoConnect, H3Done, H3Absorb, H3Message, H3Poll, H3End, SendEnd,
                    Return, conVars, ClosedUnarmed
<1>5. CASE TimerFire
  BY <1>1, <1>5 DEF TimerFire, conVars, ClosedUnarmed
<1>6. CASE \/ EpAccept \/ EpRoute \/ AppRecv \/ AppDropRecv \/ UNCHANGED vars
           \/ \E c \in Calls : Http3Start(c) \/ Http3Send(c) \/ Http3Cancel(c)
  BY <1>1, <1>6 DEF EpAccept, EpRoute, AppRecv, AppDropRecv, Http3Start, Http3Send, Http3Cancel,
                    vars, conVars, ClosedUnarmed
<1>. QED  BY <1>2, <1>3, <1>4, <1>5, <1>6 DEF Next, ConTaskStep

\* A closed connection stays closed and spawns no timer task any more: those that
\* sleep are the last ones (con.rs:208-217).
THEOREM ClosedSpawnsNoTimer == Spec => [][closed => closed' /\ timers' <= timers]_vars
<1>1. Init => ClosedUnarmed
  BY DEF Init, ClosedUnarmed
<1>2. TypeOK /\ ClosedUnarmed /\ [Next]_vars
        => ClosedUnarmed' /\ [closed => closed' /\ timers' <= timers]_vars
  BY ClosedStep
<1>. QED  BY <1>1, <1>2, TypeCorrect, PTL DEF Spec

-----------------------------------------------------------------------------
(* ConTask implements ConApi.                                              *)

\* What a call is to the application.
Seen(state) == IF state \in {"acquire"} \cup Sent THEN "pending" ELSE state

\* A step in which no call changes for the application is no step of it for
\* the calls.
LEMMA SeenSame ==
  ASSUME \A c \in Calls : Seen(call'[c]) = Seen(call[c])
  PROVE  ApiCall' = ApiCall
BY DEF ApiCall, Seen

\* A step that changes one call.
LEMMA SeenOne ==
  ASSUME NEW c \in Calls, NEW v, Seen(call'[c]) = v,
         \A d \in Calls : d # c => call'[d] = call[d]
  PROVE  /\ ApiCall' = [ApiCall EXCEPT ![c] = v]
         /\ ApiCall' = [d \in Calls |-> IF d \in {c} THEN v ELSE ApiCall[d]]
BY DEF ApiCall, Seen

\* A step that answers some pending calls with an error.
LEMMA SeenAnswered ==
  ASSUME NEW S \in SUBSET Calls, NEW v, Seen(v) = v,
         \A c \in S : call[c] \in Sent /\ call'[c] = v,
         \A c \in Calls \ S : Seen(call'[c]) = Seen(call[c])
  PROVE  /\ \A c \in S : ApiCall[c] = "pending"
         /\ ApiCall' = [c \in Calls |-> IF c \in S THEN v ELSE ApiCall[c]]
BY DEF ApiCall, Seen

\* There is room for one more event whenever con_task has its permit.
LEMMA RoomForEvent ==
  ASSUME TypeOK, EvtPermits, CanHoldEvt
  PROVE  Len(evtq) < EvtLimit
BY HoldEvt, NumTypes, SMTT(30) DEF EvtPermits

\* Storing a request, or a response that may answer earlier calls.
LEMMA TakeApi ==
  ASSUME TypeOK, CallInv, NEW c \in Calls, DoRequest(c) \/ DoResponse(c)
  PROVE  [Api!Next]_(Api!vars)
<1>1. /\ cmdq # <<>> /\ Head(cmdq) = Http3(c) /\ pc = "recv" /\ pc' = "evt"
      /\ UNCHANGED <<connected, evtq, recvAlive, ref>>
  BY DEF DoRequest, DoResponse, TakeCmd, evtVars, envVars
<1>2. call[c] \in {"queued", "cancelled"}
  <2>1. 1 \in 1..Len(cmdq) /\ cmdq[1] = Http3(c)
    BY <1>1, Pop, LenProperties DEF TypeOK
  <2>. QED  BY <2>1 DEF CallInv, QueuedCalls
<1>3. CASE DoRequest(c)
  <2>1. \A d \in Calls : call'[d] = IF d = c THEN Stored(c, "outWait") ELSE call[d]
    BY <1>3 DEF DoRequest, TypeOK
  <2>2. \A d \in Calls : Seen(call'[d]) = Seen(call[d])
    BY <1>2, <2>1 DEF Seen, Stored, Sent
  <2>3. ApiCall' = ApiCall
    BY <2>2, SeenSame
  <2>. QED  BY <1>1, <2>3 DEF Api!vars
<1>4. CASE DoResponse(c)
  <2>. DEFINE S == {d \in Calls \ {c} : call[d] = "outbound" /\ ref[d] = ref[c]}
  <2>1. /\ ref[c] \in Refs
        /\ \A d \in Calls : call'[d] = IF d = c THEN Stored(c, "outbound")
                                    ELSE IF d \in S THEN "ConShutdown"
                                    ELSE call[d]
    BY <1>4 DEF DoResponse
  <2>2. Seen(call'[c]) = Seen(call[c])
    BY <1>2, <2>1 DEF Seen, Stored, Sent
  <2>3. \A d \in S : call[d] \in Sent /\ call'[d] = "ConShutdown"
    BY <2>1 DEF Sent
  <2>4. \A d \in Calls \ S : Seen(call'[d]) = Seen(call[d])
    BY <2>1, <2>2
  <2>5. Seen("ConShutdown") = "ConShutdown"
    BY DEF Seen, Sent
  <2>6. /\ \A d \in S : ApiCall[d] = "pending"
        /\ ApiCall' = [d \in Calls |-> IF d \in S THEN "ConShutdown" ELSE ApiCall[d]]
    <3>. HIDE DEF S
    <3>1. S \in SUBSET Calls
      BY DEF S
    <3>. QED  BY <2>3, <2>4, <2>5, <3>1, SeenAnswered
  <2>7. ApiCall[c] \in {"pending", "cancelled"}
    BY <1>2 DEF ApiCall, Sent
  <2>8. S \in SUBSET {d \in Calls \ {c} : ref[d] = ref[c]}
    OBVIOUS
  <2>9. Api!Replace(c)
    <3>. HIDE DEF S
    <3>1. Api!Answer(S, "ConShutdown")
      BY <2>6 DEF Api!Answer
    <3>. QED  BY <1>1, <2>1, <2>7, <2>8, <3>1 DEF Api!Replace
  <2>. QED  BY <2>9 DEF Api!Next
<1>. QED  BY <1>3, <1>4

\* con_task's return answers what was sent to it, and only that.
LEMMA ReturnApi ==
  ASSUME TypeOK, Return, pc # "done"
  PROVE  [Api!Next]_(Api!vars)
<1>. DEFINE S == {c \in Calls : call[c] \in Sent}
<1>1. \A c \in Calls : call'[c] = IF c \in S THEN "ConShutdown" ELSE call[c]
  BY DEF Return
<1>2. Seen("ConShutdown") = "ConShutdown"
  BY DEF Seen, Sent
<1>3. (\A c \in S : call[c] \in Sent) /\ S \in SUBSET Calls
  OBVIOUS
<1>. HIDE DEF S
<1>4. Api!Answer(S, "ConShutdown")
  BY <1>1, <1>2, <1>3, SeenAnswered DEF Api!Answer
<1>5. Api!End
  BY <1>3, <1>4 DEF Api!End, Return, envVars
<1>. QED  BY <1>5 DEF Api!Next

\* con_task tells the application.
LEMMA EventApi ==
  ASSUME IInv, Connect \/ NoConnect \/ H3Done \/ H3Absorb \/ H3Message
  PROVE  [Api!Next]_(Api!vars)
<1>1. /\ pc # "done" /\ pc' # "done" /\ CanHoldEvt
      /\ UNCHANGED <<call, ref, recvAlive>>
  BY DEF Connect, NoConnect, H3Done, H3Absorb, H3Message, H3Poll, callVars, envVars
<1>2. ApiCall' = ApiCall
  BY <1>1 DEF ApiCall
<1>3. Len(evtq) < EvtLimit
  BY <1>1, RoomForEvent DEF IInv
<1>4. CASE Connect
  <2>1. /\ ~connected /\ connected'
        /\ evtq' = IF recvAlive THEN Append(evtq, "Connected") ELSE evtq
    BY <1>4 DEF Connect, JustConnected, SendEvt
  <2>2. Api!Emit("Connected")
    BY <1>1, <1>2, <1>3, <2>1 DEF Api!Emit
  <2>3. Api!Connect
    BY <1>4, <2>1, <2>2 DEF Api!Connect, Connect
  <2>. QED  BY <2>3 DEF Api!Next
<1>5. CASE H3Message
  <2>1. connected /\ connected' = connected /\ recvAlive /\ evtq' = Append(evtq, "Http3")
    BY <1>5 DEF H3Message, H3Poll, SendEvt, IInv, H3NeedsConnected
  <2>2. Api!Emit("Http3")
    BY <1>1, <1>2, <1>3, <2>1 DEF Api!Emit
  <2>3. Api!Message
    BY <2>1, <2>2 DEF Api!Message
  <2>. QED  BY <2>3 DEF Api!Next
<1>6. CASE NoConnect \/ H3Done \/ H3Absorb
  <2>1. UNCHANGED <<connected, evtq>>
    BY <1>6 DEF NoConnect, H3Done, H3Absorb, H3Poll, KeepEvtGuard
  <2>2. (pc = "done")' = (pc = "done")
    BY <1>1
  <2>. QED  BY <1>1, <1>2, <2>1, <2>2, Zenon DEF Api!vars
<1>. QED  BY <1>4, <1>5, <1>6

\* The application's own steps.
LEMMA AppApi ==
  ASSUME TypeOK, AppRecv \/ AppDropRecv
  PROVE  [Api!Next]_(Api!vars)
<1>1. UNCHANGED <<pc, connected, call, ref>>
  BY DEF AppRecv, AppDropRecv, taskVars, callVars
<1>2. ApiCall' = ApiCall
  BY <1>1 DEF ApiCall
<1>3. CASE AppRecv
  <2>1. Api!Receive
    BY <1>1, <1>2, <1>3 DEF Api!Receive, AppRecv, envVars
  <2>. QED  BY <2>1 DEF Api!Next
<1>4. CASE AppDropRecv
  <2>1. Api!Unlisten
    BY <1>1, <1>2, <1>4 DEF Api!Unlisten, AppDropRecv
  <2>. QED  BY <2>1 DEF Api!Next
<1>. QED  BY <1>3, <1>4

\* The steps of a call.
LEMMA CallApi ==
  ASSUME TypeOK, CallInv, NEW c \in Calls,
         Http3Start(c) \/ Http3Send(c) \/ Http3Cancel(c)
  PROVE  [Api!Next]_(Api!vars)
<1>1. /\ UNCHANGED <<pc, connected, evtq, recvAlive>>
      /\ \A d \in Calls : d # c => call'[d] = call[d]
  <2>1. UNCHANGED <<pc, connected, evtq, recvAlive>>
    BY DEF Http3Start, Http3Send, Http3Cancel, taskVars, evtVars, envVars
  <2>2. \E a : call' = [call EXCEPT ![c] = a]
    BY DEF Http3Start, Http3Send, Http3Cancel
  <2>3. \A d \in Calls : d # c => call'[d] = call[d]
    BY <2>2 DEF TypeOK
  <2>. QED  BY <2>1, <2>3
<1>2. CASE Http3Start(c)
  <2>1. /\ call[c] = "idle" /\ call'[c] = "acquire"
        /\ \E r \in Refs \cup {Request} : ref' = [ref EXCEPT ![c] = r]
    BY <1>2 DEF Http3Start, TypeOK
  <2>2. ApiCall[c] = "idle" /\ Seen(call'[c]) = "pending"
    BY <2>1 DEF ApiCall, Seen, Sent
  <2>3. ApiCall' = [ApiCall EXCEPT ![c] = "pending"]
    BY <1>1, <2>2, SeenOne
  <2>4. Api!Begin(c)
    BY <1>1, <2>1, <2>2, <2>3 DEF Api!Begin, Api!Request, Request
  <2>. QED  BY <2>4 DEF Api!Next
<1>3. CASE Http3Send(c)
  <2>1. /\ call[c] = "acquire" /\ ref' = ref
        /\ call'[c] = IF pc = "done" THEN "ChannelClosed" ELSE "queued"
    BY <1>3, SendCalls DEF Http3Send, TypeOK
  <2>2. CASE pc = "done"
    <3>1. Seen(call'[c]) = "ChannelClosed" /\ ApiCall[c] = "pending"
      BY <2>1, <2>2 DEF Seen, Sent, ApiCall
    <3>2. ApiCall' = [d \in Calls |-> IF d \in {c} THEN "ChannelClosed" ELSE ApiCall[d]]
      BY <1>1, <3>1, SeenOne
    <3>3. Api!Answer({c}, "ChannelClosed")
      BY <3>1, <3>2 DEF Api!Answer
    <3>4. Api!Refuse(c)
      BY <1>1, <2>1, <2>2, <3>3 DEF Api!Refuse
    <3>. QED  BY <3>4 DEF Api!Next
  <2>3. CASE pc # "done"
    <3>1. \A d \in Calls : Seen(call'[d]) = Seen(call[d])
      BY <1>1, <2>1, <2>3 DEF Seen, Sent
    <3>2. ApiCall' = ApiCall
      BY <3>1, SeenSame
    <3>. QED  BY <1>1, <2>1, <3>2 DEF Api!vars
  <2>. QED  BY <2>2, <2>3
<1>4. CASE Http3Cancel(c)
  <2>1. /\ call[c] \in {"acquire"} \cup Sent /\ ref' = ref /\ call'[c] = "cancelled"
    BY <1>4, CancelCalls DEF Http3Cancel, TypeOK
  <2>2. ApiCall[c] = "pending" /\ Seen(call'[c]) = "cancelled"
    BY <2>1 DEF ApiCall, Seen, Sent
  <2>3. ApiCall' = [ApiCall EXCEPT ![c] = "cancelled"]
    BY <1>1, <2>2, SeenOne
  <2>4. Api!Cancel(c)
    BY <1>1, <2>1, <2>2, <2>3 DEF Api!Cancel
  <2>. QED  BY <2>4 DEF Api!Next
<1>. QED  BY <1>2, <1>3, <1>4

\* Everything else is invisible to the application.
LEMMA QuietApi ==
  ASSUME \/ DoTick \/ DoTimeout \/ DoInPak \/ SendLoop
         \/ TimerFire \/ EpAccept \/ EpRoute \/ UNCHANGED vars
  PROVE  UNCHANGED Api!vars
<1>1. UNCHANGED <<connected, evtq, recvAlive, call, ref>>
  BY DEF DoTick, DoTimeout, DoInPak, TakeCmd, SendLoop, EndIteration, TimerFire, EpAccept,
         EpRoute, vars, taskVars, evtVars, callVars, envVars
<1>2. (pc = "done")' = (pc = "done")
  BY DEF DoTick, DoTimeout, DoInPak, TakeCmd, SendLoop, EndIteration, TimerFire, EpAccept,
         EpRoute, vars, taskVars
<1>3. ApiCall' = ApiCall
  BY <1>1 DEF ApiCall
<1>. QED  BY <1>1, <1>2, <1>3, Zenon DEF Api!vars

\* Every step of con_task and its surroundings is a step of ConApi or no step.
LEMMA NextApi == IInv /\ CallInv /\ [Next]_vars => [Api!Next]_(Api!vars)
<1>. SUFFICES ASSUME IInv, CallInv, [Next]_vars PROVE [Api!Next]_(Api!vars)
  OBVIOUS
<1>0. TypeOK
  BY DEF IInv
<1>1. ASSUME NEW c \in Calls, DoRequest(c) \/ DoResponse(c) PROVE [Api!Next]_(Api!vars)
  BY <1>0, <1>1, TakeApi
<1>2. CASE Connect \/ NoConnect \/ H3Done \/ H3Absorb \/ H3Message
  BY <1>2, EventApi
<1>3. CASE H3End \/ SendEnd
  BY <1>0, <1>3, ReturnApi DEF H3End, SendEnd
<1>4. ASSUME NEW c \in Calls, Http3Start(c) \/ Http3Send(c) \/ Http3Cancel(c)
      PROVE  [Api!Next]_(Api!vars)
  BY <1>0, <1>4, CallApi
<1>5. CASE AppRecv \/ AppDropRecv
  BY <1>0, <1>5, AppApi
<1>6. CASE \/ DoTick \/ DoTimeout \/ DoInPak \/ SendLoop
           \/ TimerFire \/ EpAccept \/ EpRoute \/ UNCHANGED vars
  BY <1>6, QuietApi
<1>. QED  BY <1>1, <1>2, <1>3, <1>4, <1>5, <1>6 DEF Next, ConTaskStep

\* A new connection is a new one for the application.
LEMMA InitApi == Init => Api!Init
<1>. SUFFICES ASSUME Init PROVE Api!Init
  OBVIOUS
<1>1. ApiCall = [c \in Calls |-> "idle"]
  BY DEF Init, ApiCall, Sent
<1>. QED  BY <1>1 DEF Init, Api!Init, Api!Request, Request

\* con_task implements the Con trait as ConApi states it (con.rs:115-123,
\* 185-251), whatever the limits, calls and streams.
THEOREM ConTaskImplementsConApi == Spec => ImplementsConApi
BY InitApi, NextApi, Invariance, CallInvariance, PTL DEF Spec, ImplementsConApi, Api!Spec
=============================================================================
