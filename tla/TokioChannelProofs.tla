------------------------ MODULE TokioChannelProofs -------------------------
(***************************************************************************)
(* Proofs about bound_channel on the tokio runtime, and that it implements *)
(* BoundChannel, for any senders and any limit.                            *)
(***************************************************************************)
EXTENDS TokioChannel, PermitLemmas

\* The semaphore hands over: no permit lies in the counter while somebody waits.
NoIdlePermit == permits > 0 => waiters = <<>>

\* The three parts need each other: the hand-over keeps the counter at zero while
\* somebody waits, and the sum keeps it within the limit.
IInv == TypeOK /\ NoIdlePermit /\ PermitsConserved

-----------------------------------------------------------------------------
(* The semaphore's queue.                                                  *)

\* Leaving the front part of a queue.
LEMMA WithoutLeft ==
  ASSUME NEW S, NEW s \in Seq(S), NEW t \in Seq(S), NEW i \in 1..Len(s)
  PROVE  /\ i \in 1..Len(s \o t) /\ (s \o t)[i] = s[i]
         /\ Without(s \o t, i) = Without(s, i) \o t
<1>. DEFINE u == s \o t
            a == Without(u, i)
            b == Without(s, i)
<1>1. /\ u \in Seq(S) /\ Len(u) = Len(s) + Len(t) /\ Len(s) \in Nat /\ Len(t) \in Nat
      /\ \A j \in 1..(Len(s) + Len(t)) : u[j] = IF j <= Len(s) THEN s[j] ELSE t[j - Len(s)]
  BY ConcatProperties, LenProperties
<1>2. i \in 1..Len(u) /\ u[i] = s[i] /\ i \in Nat
  <2>. HIDE DEF u
  <2>. QED  BY <1>1
<1>. HIDE DEF u
<1>3. /\ a \in Seq(S) /\ Len(a) = Len(u) - 1
      /\ \A j \in 1..(Len(u) - 1) : a[j] = IF j < i THEN u[j] ELSE u[j + 1]
  BY <1>1, <1>2, WithoutElems
<1>4. /\ b \in Seq(S) /\ Len(b) = Len(s) - 1
      /\ \A j \in 1..(Len(s) - 1) : b[j] = IF j < i THEN s[j] ELSE s[j + 1]
  BY WithoutElems
<1>. HIDE DEF a, b
<1>5. /\ b \o t \in Seq(S) /\ Len(b \o t) = Len(b) + Len(t)
      /\ \A j \in 1..(Len(b) + Len(t)) : (b \o t)[j] = IF j <= Len(b) THEN b[j] ELSE t[j - Len(b)]
  BY <1>4, ConcatProperties
<1>6. Len(a) = Len(b \o t)
  BY <1>1, <1>3, <1>4, <1>5
<1>7. ASSUME NEW j \in 1..Len(a) PROVE a[j] = (b \o t)[j]
  <2>0. j \in Nat /\ j \in 1..(Len(u) - 1) /\ j \in 1..(Len(b) + Len(t))
    BY <1>1, <1>3, <1>4
  <2>1. CASE j < i
    <3>0. j \in 1..(Len(s) + Len(t)) /\ j <= Len(s)
      BY <1>1, <2>0, <2>1
    <3>1. a[j] = s[j]
      BY <1>1, <1>3, <2>0, <2>1, <3>0
    <3>2. (b \o t)[j] = s[j]
      BY <1>1, <1>2, <1>4, <1>5, <2>0, <2>1
    <3>. QED  BY <3>1, <3>2
  <2>2. CASE ~(j < i) /\ j <= Len(s) - 1
    <3>0. j + 1 \in 1..(Len(s) + Len(t)) /\ j + 1 <= Len(s)
      BY <1>1, <2>0, <2>2
    <3>1. a[j] = s[j + 1]
      BY <1>1, <1>3, <2>0, <2>2, <3>0
    <3>2. (b \o t)[j] = s[j + 1]
      BY <1>1, <1>2, <1>4, <1>5, <2>0, <2>2, SMTT(30)
    <3>. QED  BY <3>1, <3>2
  <2>3. CASE j > Len(s) - 1
    <3>0. /\ j + 1 \in 1..(Len(s) + Len(t)) /\ ~(j + 1 <= Len(s)) /\ ~(j < i)
      BY <1>1, <1>2, <2>0, <2>3, SMTT(30)
    <3>1. a[j] = t[j + 1 - Len(s)]
      BY <1>1, <1>3, <2>0, <3>0, SMTT(30)
    <3>2. (b \o t)[j] = t[j - (Len(s) - 1)]
      BY <1>1, <1>2, <1>4, <1>5, <2>0, <2>3, SMTT(30)
    <3>3. j + 1 - Len(s) = j - (Len(s) - 1)
      BY <1>1, <2>0
    <3>. QED  BY <3>1, <3>2, <3>3
  <2>. QED  BY <1>1, <1>2, <2>0, <2>1, <2>2, <2>3, SMTT(30)
<1>8. a = b \o t
  BY <1>3, <1>5, <1>6, <1>7, SeqEqual
<1>. QED  BY <1>2, <1>8 DEF a, b, u

\* Leaving the back part of a queue.
LEMMA WithoutRight ==
  ASSUME NEW S, NEW s \in Seq(S), NEW t \in Seq(S), NEW i \in 1..Len(t)
  PROVE  /\ Len(s) + i \in 1..Len(s \o t) /\ (s \o t)[Len(s) + i] = t[i]
         /\ Without(s \o t, Len(s) + i) = s \o Without(t, i)
<1>. DEFINE u == s \o t
            n == Len(s) + i
            a == Without(u, n)
            b == Without(t, i)
<1>1. /\ u \in Seq(S) /\ Len(u) = Len(s) + Len(t) /\ Len(s) \in Nat /\ Len(t) \in Nat
      /\ \A j \in 1..(Len(s) + Len(t)) : u[j] = IF j <= Len(s) THEN s[j] ELSE t[j - Len(s)]
  BY ConcatProperties, LenProperties
<1>2. n \in 1..Len(u) /\ u[n] = t[i] /\ i \in Nat
  <2>. HIDE DEF u
  <2>1. n \in 1..(Len(s) + Len(t)) /\ n - Len(s) = i /\ ~(n <= Len(s))
    BY <1>1
  <2>. QED  BY <1>1, <2>1
<1>. HIDE DEF u
<1>3. /\ a \in Seq(S) /\ Len(a) = Len(u) - 1
      /\ \A j \in 1..(Len(u) - 1) : a[j] = IF j < n THEN u[j] ELSE u[j + 1]
  <2>. HIDE DEF n
  <2>. QED  BY <1>1, <1>2, WithoutElems
<1>4. /\ b \in Seq(S) /\ Len(b) = Len(t) - 1
      /\ \A j \in 1..(Len(t) - 1) : b[j] = IF j < i THEN t[j] ELSE t[j + 1]
  BY WithoutElems
<1>. HIDE DEF a, b
<1>5. /\ s \o b \in Seq(S) /\ Len(s \o b) = Len(s) + Len(b)
      /\ \A j \in 1..(Len(s) + Len(b)) : (s \o b)[j] = IF j <= Len(s) THEN s[j] ELSE b[j - Len(s)]
  BY <1>4, ConcatProperties
<1>6. Len(a) = Len(s \o b)
  BY <1>1, <1>3, <1>4, <1>5
<1>7. ASSUME NEW j \in 1..Len(a) PROVE a[j] = (s \o b)[j]
  <2>0. j \in Nat /\ j \in 1..(Len(u) - 1) /\ j \in 1..(Len(s) + Len(b))
    BY <1>1, <1>3, <1>4
  <2>1. CASE j <= Len(s)
    <3>1. a[j] = s[j]
      BY <1>1, <1>2, <1>3, <2>0, <2>1, SMTT(30)
    <3>. QED  BY <1>5, <2>0, <2>1, <3>1
  <2>2. CASE j > Len(s) /\ j < n
    <3>1. a[j] = t[j - Len(s)]
      BY <1>1, <1>2, <1>3, <2>0, <2>2, SMTT(30)
    <3>2. (s \o b)[j] = b[j - Len(s)]
      BY <1>1, <1>5, <2>0, <2>2, SMTT(30)
    <3>3. j - Len(s) \in 1..(Len(t) - 1) /\ j - Len(s) < i
      BY <1>1, <1>2, <2>0, <2>2, SMTT(30)
    <3>. QED  BY <1>4, <3>1, <3>2, <3>3
  <2>3. CASE ~(j < n)
    <3>1. a[j] = t[j + 1 - Len(s)]
      BY <1>1, <1>2, <1>3, <2>0, <2>3, SMTT(30)
    <3>2. (s \o b)[j] = b[j - Len(s)]
      BY <1>1, <1>2, <1>5, <2>0, <2>3, SMTT(30)
    <3>3. /\ j - Len(s) \in 1..(Len(t) - 1) /\ ~(j - Len(s) < i)
          /\ j - Len(s) + 1 = j + 1 - Len(s)
      BY <1>1, <1>2, <2>0, <2>3, SMTT(30)
    <3>. QED  BY <1>4, <3>1, <3>2, <3>3
  <2>. QED  BY <1>1, <1>2, <2>0, <2>1, <2>2, <2>3, SMTT(30)
<1>8. a = s \o b
  BY <1>3, <1>5, <1>6, <1>7, SeqEqual
<1>. QED  BY <1>2, <1>8 DEF a, b, u, n

\* Three queues in a row, in the form leaves cite it.
LEMMA Regroup ==
  \A s, t, u \in Seq(Senders) : (s \o t) \o u = s \o (t \o u)
<1>. SUFFICES ASSUME NEW s \in Seq(Senders), NEW t \in Seq(Senders), NEW u \in Seq(Senders)
              PROVE  (s \o t) \o u = s \o (t \o u)
  OBVIOUS
<1>. QED  BY ConcatAssociative, SMTT(30)

\* The types of the state as facts about sequences and numbers.
LEMMA Types ==
  ASSUME TypeOK
  PROVE  /\ waiters \in Seq(Senders) /\ granted \in Seq(Senders) /\ queue \in Seq(Senders)
         /\ Len(waiters) \in Nat /\ Len(granted) \in Nat /\ Len(queue) \in Nat
         /\ permits \in Nat /\ out \in Nat /\ Limit \in Nat
         /\ IsFiniteSet(hold) /\ Cardinality(hold) \in Nat
<1>1. IsFiniteSet(hold)
  BY LimitAssumption, FS_Subset DEF TypeOK
<1>2. Cardinality(hold) \in Nat
  BY <1>1, FS_CardinalityType
<1>. QED  BY <1>1, <1>2, LimitAssumption, LenProperties DEF TypeOK

\* Released permits go to those who wait, in their order, and only then back to
\* the counter: none is lost and nobody overtakes.
LEMMA ReleaseKeeps ==
  ASSUME NEW n \in Nat, NEW w \in Seq(Senders), NEW g \in Seq(Senders),
         permits \in Nat, permits > 0 => w = <<>>, Release(n, w, g)
  PROVE  /\ waiters' \in Seq(Senders) /\ granted' \in Seq(Senders) /\ permits' \in Nat
         /\ permits' + Len(granted') = permits + n + Len(g)
         /\ granted' \o waiters' = g \o w
         /\ NoIdlePermit'
<1>. DEFINE k == IF n < Len(w) THEN n ELSE Len(w)
            front == SubSeq(w, 1, k)
            back == SubSeq(w, k + 1, Len(w))
<1>1. Len(w) \in Nat /\ Len(g) \in Nat
  BY LenProperties
<1>2. k \in Nat /\ k <= Len(w) /\ k <= n /\ (k = n \/ k = Len(w))
  BY <1>1
<1>3. permits' = permits + (n - k) /\ waiters' = back /\ granted' = g \o front
  BY DEF Release
<1>. HIDE DEF k
<1>4. front \in Seq(Senders) /\ Len(front) = k
  <2>1. \A i \in 1..k : w[i] \in Senders
    BY <1>1, <1>2, ElementOfSeq
  <2>. QED  BY <1>2, <2>1, SubSeqProperties
<1>5. back \in Seq(Senders) /\ (k = Len(w) => back = <<>>)
  <2>1. \A i \in (k + 1)..Len(w) : w[i] \in Senders
    BY <1>1, <1>2, ElementOfSeq
  <2>2. k = Len(w) => back = <<>>
    BY <1>1, SubSeqEmpty
  <2>. QED  BY <1>1, <1>2, <2>1, <2>2, SubSeqProperties
<1>6. front \o back = w
  <2>1. k \in 0..Len(w)
    BY <1>1, <1>2
  <2>. QED  BY <2>1, Split, ZenonT(30)
<1>. HIDE DEF front, back
<1>7. g \o front \in Seq(Senders) /\ Len(g \o front) = Len(g) + k
  BY <1>4, ConcatProperties
<1>8. (g \o front) \o back = g \o w
  <2>1. (g \o front) \o back = g \o (front \o back)
    <3>1. g \in Seq(Senders) /\ front \in Seq(Senders) /\ back \in Seq(Senders)
      BY <1>4, <1>5
    <3>. QED  BY <3>1, Regroup, SMTT(30)
  <2>. QED  BY <1>6, <2>1, Zenon
<1>9. permits' \in Nat /\ permits' + Len(granted') = permits + n + Len(g)
  BY <1>1, <1>2, <1>3, <1>7
<1>10. NoIdlePermit'
  <2>0. n - k \in Nat
    BY <1>2
  <2>1. SUFFICES ASSUME permits' > 0 PROVE back = <<>>
    BY <1>3 DEF NoIdlePermit
  <2>2. CASE k = Len(w)
    BY <1>5, <2>2
  <2>3. CASE k # Len(w)
    <3>1. permits > 0
      <4>1. k = n
        BY <1>2, <2>3
      <4>. QED  BY <1>2, <1>3, <2>1, <4>1
    <3>2. Len(w) = 0
      BY <3>1, EmptySeq
    <3>. QED  BY <1>2, <2>3, <3>2
  <2>. QED  BY <2>2, <2>3
<1>. QED  BY <1>3, <1>5, <1>7, <1>8, <1>9, <1>10

-----------------------------------------------------------------------------
(* The invariant and the refinement, action by action.                     *)

\* What BoundChannel calls the free permits and the line of those who wait.
Free == permits + Len(granted)
Line == granted \o waiters

\* The semaphore's promise in those terms.
LEMMA LineOf ==
  ASSUME TypeOK
  PROVE  /\ Line \in Seq(Senders) /\ Len(Line) = Len(granted) + Len(waiters)
         /\ \A c : ~In(c, granted) /\ ~In(c, waiters) => \A i \in 1..Len(Line) : Line[i] # c
<1>1. /\ granted \in Seq(Senders) /\ waiters \in Seq(Senders)
      /\ Len(granted) \in Nat /\ Len(waiters) \in Nat
  BY Types
<1>2. /\ Line \in Seq(Senders) /\ Len(Line) = Len(granted) + Len(waiters)
      /\ \A i \in 1..(Len(granted) + Len(waiters)) :
           Line[i] = IF i <= Len(granted) THEN granted[i] ELSE waiters[i - Len(granted)]
  BY <1>1, ConcatProperties DEF Line
<1>3. ASSUME NEW c, NEW i \in 1..Len(Line), Line[i] = c
      PROVE  In(c, granted) \/ In(c, waiters)
  <2>1. CASE i <= Len(granted)
    <3>1. i \in 1..Len(granted) /\ granted[i] = c
      BY <1>1, <1>2, <1>3, <2>1
    <3>. QED  BY <3>1 DEF In
  <2>2. CASE ~(i <= Len(granted))
    <3>1. i - Len(granted) \in 1..Len(waiters) /\ waiters[i - Len(granted)] = c
      BY <1>1, <1>2, <1>3, <2>2
    <3>. QED  BY <3>1 DEF In
  <2>. QED  BY <2>1, <2>2
<1>. QED  BY <1>2, <1>3

\* The sum bounds each of its parts.
LEMMA SumTypes ==
  ASSUME permits' \in Nat, out' \in Nat, closed' \in BOOLEAN, hold' \subseteq Senders,
         waiters' \in Seq(Senders), granted' \in Seq(Senders), queue' \in Seq(Senders),
         PermitsConserved'
  PROVE  TypeOK'
<1>1. IsFiniteSet(hold')
  BY LimitAssumption, FS_Subset
<1>2. Cardinality(hold') \in Nat /\ Len(granted') \in Nat /\ Len(queue') \in Nat
  BY <1>1, FS_CardinalityType, LenProperties
<1>3. permits' \in 0..Limit /\ out' \in 0..Limit
  BY <1>2, LimitAssumption, SMTT(30) DEF PermitsConserved
<1>. QED  BY <1>3 DEF TypeOK

\* One guard more or less.
LEMMA HoldCount ==
  ASSUME TypeOK, NEW c \in Senders
  PROVE  /\ c \notin hold => Cardinality(hold \cup {c}) = Cardinality(hold) + 1
         /\ c \in hold => Cardinality(hold \ {c}) = Cardinality(hold) - 1
BY Types, FS_AddElement, FS_RemoveElement

\* A sender takes a free permit at once, and overtakes nobody.
LEMMA TakeStep ==
  ASSUME IInv, NEW c \in Senders, Idle(c), permits > 0,
         permits' = permits - 1, hold' = hold \cup {c},
         UNCHANGED <<waiters, granted, chanVars>>
  PROVE  IInv' /\ Abstract!TakeAtOnce(c)
<1>. USE DEF IInv
<1>1. /\ waiters \in Seq(Senders) /\ granted \in Seq(Senders) /\ queue \in Seq(Senders)
      /\ Len(granted) \in Nat /\ Len(queue) \in Nat
      /\ permits \in Nat /\ out \in Nat /\ Cardinality(hold) \in Nat
      /\ UNCHANGED <<waiters, granted, queue, out, closed>>
  BY Types DEF chanVars
<1>2. Cardinality(hold') = Cardinality(hold) + 1
  BY HoldCount DEF Idle
<1>3. PermitsConserved'
  BY <1>1, <1>2 DEF PermitsConserved
<1>4. TypeOK'
  <2>1. permits' \in Nat /\ out' \in Nat /\ hold' \subseteq Senders /\ closed' \in BOOLEAN
    BY <1>1 DEF TypeOK
  <2>. QED  BY <1>1, <1>3, <2>1, SumTypes
<1>5. waiters = <<>> /\ NoIdlePermit'
  BY <1>1 DEF NoIdlePermit
<1>6. Len(Line) = Len(granted) /\ \A i \in 1..Len(Line) : Line[i] # c
  <2>1. Len(waiters) = 0
    BY <1>5, EmptySeq
  <2>. QED  BY <1>1, <2>1, LineOf DEF Idle
<1>7. Abstract!Idle(c)
  BY <1>6 DEF Abstract!Idle, Idle, Line
<1>8. Free > Len(Line) /\ Free' = Free - 1 /\ Line' = Line
  BY <1>1, <1>6 DEF Free, Line
<1>9. Abstract!TakeAtOnce(c)
  BY <1>1, <1>7, <1>8 DEF Abstract!TakeAtOnce, Free, Line
<1>. QED  BY <1>3, <1>4, <1>5, <1>9

\* Without a free permit it waits behind the others.
LEMMA WaitStep ==
  ASSUME IInv, NEW c \in Senders, Idle(c), ~(permits > 0),
         waiters' = Append(waiters, c), UNCHANGED <<permits, granted, hold, chanVars>>
  PROVE  IInv' /\ Abstract!Wait(c)
<1>. USE DEF IInv
<1>1. /\ waiters \in Seq(Senders) /\ granted \in Seq(Senders)
      /\ UNCHANGED <<permits, granted, hold, queue, out, closed>>
  BY Types DEF chanVars
<1>2. waiters' \in Seq(Senders)
  BY <1>1, Push
<1>3. TypeOK' /\ PermitsConserved' /\ NoIdlePermit'
  BY <1>1, <1>2 DEF TypeOK, PermitsConserved, NoIdlePermit
<1>4. Line' = Append(Line, c)
  <2>1. Append(waiters, c) = waiters \o <<c>> /\ <<c>> \in Seq(Senders)
    BY <1>1, AppendIsConcat
  <2>2. Line \in Seq(Senders) /\ Append(Line, c) = Line \o <<c>>
    BY LineOf, AppendIsConcat
  <2>3. (granted \o waiters) \o <<c>> = granted \o (waiters \o <<c>>)
    BY <1>1, <2>1, Regroup, SMTT(30)
  <2>. QED  BY <1>1, <2>1, <2>2, <2>3, Zenon DEF Line
<1>5. Abstract!Idle(c)
  BY LineOf DEF Abstract!Idle, Idle, Line
<1>6. Abstract!Wait(c)
  BY <1>1, <1>4, <1>5 DEF Abstract!Wait, Line
<1>. QED  BY <1>3, <1>6

\* acquire() at its first poll, and try_acquire().
LEMMA AcquireStep ==
  ASSUME IInv, NEW c \in Senders, Acquire(c) \/ TryAcquire(c)
  PROVE  IInv' /\ (Abstract!TakeAtOnce(c) \/ Abstract!Wait(c))
BY TakeStep, WaitStep DEF Acquire, TryAcquire

\* A woken sender leaves the line from within the permits handed over.
LEMMA WakeStep ==
  ASSUME IInv, NEW c \in Senders, c \notin hold, Wake(c)
  PROVE  IInv' /\ Abstract!Take(c)
<1>. USE DEF IInv
<1>1. /\ waiters \in Seq(Senders) /\ granted \in Seq(Senders) /\ queue \in Seq(Senders)
      /\ Len(granted) \in Nat /\ Len(queue) \in Nat
      /\ permits \in Nat /\ out \in Nat /\ Cardinality(hold) \in Nat
      /\ UNCHANGED <<permits, waiters, queue, out, closed>> /\ hold' = hold \cup {c}
  BY Types DEF Wake, chanVars
<1>2. PICK i \in 1..Len(granted) : granted[i] = c /\ granted' = Without(granted, i)
  BY DEF Wake
<1>3. granted' \in Seq(Senders) /\ Len(granted') = Len(granted) - 1
  BY <1>1, <1>2, WithoutElems
<1>4. Cardinality(hold') = Cardinality(hold) + 1
  BY <1>1, HoldCount
<1>5. PermitsConserved'
  BY <1>1, <1>3, <1>4 DEF PermitsConserved
<1>6. TypeOK'
  <2>1. permits' \in Nat /\ out' \in Nat /\ hold' \subseteq Senders /\ closed' \in BOOLEAN
    BY <1>1 DEF TypeOK
  <2>. QED  BY <1>1, <1>3, <1>5, <2>1, SumTypes
<1>7. NoIdlePermit'
  BY <1>1 DEF NoIdlePermit
<1>8. i \in 1..Len(Line) /\ Line[i] = c /\ Line' = Without(Line, i)
  BY <1>1, <1>2, WithoutLeft DEF Line
<1>9. i <= Free /\ Free' = Free - 1
  BY <1>1, <1>3 DEF Free
<1>10. Line' = Abstract!Without(Line, i)
  BY <1>8, Zenon DEF Without, Abstract!Without
<1>11. Abstract!Take(c)
  BY <1>1, <1>8, <1>9, <1>10 DEF Abstract!Take, Free, Line
<1>. QED  BY <1>5, <1>6, <1>7, <1>11

\* A dropped future leaves the line, and hands its permit on if it had one.
LEMMA CancelStep ==
  ASSUME IInv, NEW c \in Senders, CancelGranted(c) \/ CancelWaiting(c)
  PROVE  IInv' /\ Abstract!GiveUp(c)
<1>. USE DEF IInv
<1>1. /\ waiters \in Seq(Senders) /\ granted \in Seq(Senders) /\ queue \in Seq(Senders)
      /\ Len(granted) \in Nat /\ Len(queue) \in Nat
      /\ permits \in Nat /\ out \in Nat /\ Cardinality(hold) \in Nat
      /\ UNCHANGED <<hold, queue, out, closed>>
  BY Types DEF CancelGranted, CancelWaiting, chanVars
<1>2. SUFFICES /\ permits' \in Nat /\ waiters' \in Seq(Senders) /\ granted' \in Seq(Senders)
               /\ NoIdlePermit' /\ Free' = Free
               /\ \E i \in 1..Len(Line) : Line[i] = c /\ Line' = Without(Line, i)
  <2>1. permits' + Len(granted') = permits + Len(granted) /\ Len(granted') \in Nat
    BY <1>2, LenProperties DEF Free
  <2>2. PermitsConserved'
    BY <1>1, <1>2, <2>1 DEF PermitsConserved
  <2>3. TypeOK'
    BY <1>1, <1>2, <2>2, SumTypes DEF TypeOK
  <2>4. Abstract!GiveUp(c)
    <3>1. PICK i \in 1..Len(Line) : Line[i] = c /\ Line' = Without(Line, i)
      BY <1>2
    <3>2. Line' = Abstract!Without(Line, i)
      BY <3>1, Zenon DEF Without, Abstract!Without
    <3>. QED  BY <1>1, <1>2, <3>1, <3>2 DEF Abstract!GiveUp, Free, Line
  <2>. QED  BY <1>2, <2>2, <2>3, <2>4
<1>3. CASE CancelGranted(c)
  <2>1. PICK i \in 1..Len(granted) :
               granted[i] = c /\ Release(1, waiters, Without(granted, i))
    BY <1>3 DEF CancelGranted
  <2>2. Without(granted, i) \in Seq(Senders) /\ Len(Without(granted, i)) = Len(granted) - 1
    BY <1>1, WithoutElems
  <2>3. /\ waiters' \in Seq(Senders) /\ granted' \in Seq(Senders) /\ permits' \in Nat
        /\ permits' + Len(granted') = permits + 1 + (Len(granted) - 1)
        /\ granted' \o waiters' = Without(granted, i) \o waiters
        /\ NoIdlePermit'
    <3>. DEFINE g == Without(granted, i)
    <3>1. g \in Seq(Senders) /\ Len(g) = Len(granted) - 1 /\ Release(1, waiters, g)
      BY <2>1, <2>2
    <3>. HIDE DEF g
    <3>2. /\ waiters' \in Seq(Senders) /\ granted' \in Seq(Senders) /\ permits' \in Nat
          /\ permits' + Len(granted') = permits + 1 + Len(g)
          /\ granted' \o waiters' = g \o waiters
          /\ NoIdlePermit'
      BY <1>1, <3>1, ReleaseKeeps DEF NoIdlePermit
    <3>. QED  BY <3>1, <3>2 DEF g
  <2>4. i \in 1..Len(Line) /\ Line[i] = c /\ Without(Line, i) = Without(granted, i) \o waiters
    BY <1>1, <2>1, WithoutLeft DEF Line
  <2>5. Line' = Without(Line, i)
    BY <2>3, <2>4, Zenon DEF Line
  <2>6. Free' = Free
    BY <1>1, <2>3 DEF Free
  <2>. QED  BY <2>3, <2>4, <2>5, <2>6
<1>4. CASE CancelWaiting(c)
  <2>1. PICK i \in 1..Len(waiters) : waiters[i] = c /\ waiters' = Without(waiters, i)
    BY <1>4 DEF CancelWaiting
  <2>2. permits' = permits /\ granted' = granted
    BY <1>4 DEF CancelWaiting
  <2>3. waiters' \in Seq(Senders)
    BY <1>1, <2>1, WithoutElems
  <2>4. NoIdlePermit'
    <3>1. ~(permits > 0)
      <4>1. Len(waiters) # 0
        BY <1>1, <2>1, LenProperties
      <4>. QED  BY <4>1, EmptySeq DEF NoIdlePermit
    <3>. QED  BY <2>2, <3>1 DEF NoIdlePermit
  <2>5. /\ Len(granted) + i \in 1..Len(Line) /\ Line[Len(granted) + i] = c
        /\ Without(Line, Len(granted) + i) = granted \o Without(waiters, i)
    <3>1. granted \in Seq(Senders) /\ waiters \in Seq(Senders)
      BY <1>1
    <3>2. /\ Len(granted) + i \in 1..Len(granted \o waiters)
          /\ (granted \o waiters)[Len(granted) + i] = waiters[i]
          /\ Without(granted \o waiters, Len(granted) + i) = granted \o Without(waiters, i)
      BY <2>1, <3>1, WithoutRight
    <3>. QED  BY <2>1, <3>2, Zenon DEF Line
  <2>6. Line' = Without(Line, Len(granted) + i)
    BY <2>1, <2>2, <2>5, Zenon DEF Line
  <2>. QED  BY <1>1, <2>2, <2>3, <2>4, <2>5, <2>6 DEF Free
<1>. QED  BY <1>3, <1>4

\* What leaves one part of a sum for the other leaves the sum as it is.
LEMMA SameSum ==
  \A n, a, b, a1, b1 \in Nat : a1 = a + n /\ n + b1 = b => a1 + b1 = a + b
OBVIOUS

\* The part of the state a sender's or the receiver's guards move between, when
\* n of them are dropped.
LEMMA DropStep ==
  ASSUME IInv, NEW n \in Nat, Release(n, waiters, granted),
         out' \in Nat, closed' \in {closed, TRUE}, hold' \subseteq Senders, queue' \in Seq(Senders),
         n + Cardinality(hold') + Len(queue') + out' = Cardinality(hold) + Len(queue) + out
  PROVE  IInv' /\ Free' = Free + n /\ Line' = Line
<1>. USE DEF IInv
<1>1. /\ waiters \in Seq(Senders) /\ granted \in Seq(Senders)
      /\ Len(granted) \in Nat /\ Len(queue) \in Nat
      /\ permits \in Nat /\ out \in Nat /\ Cardinality(hold) \in Nat
  BY Types
<1>2. IsFiniteSet(hold')
  BY LimitAssumption, FS_Subset
<1>3. Cardinality(hold') \in Nat /\ Len(queue') \in Nat
  BY <1>2, FS_CardinalityType, LenProperties
<1>4. /\ waiters' \in Seq(Senders) /\ granted' \in Seq(Senders) /\ permits' \in Nat
      /\ permits' + Len(granted') = permits + n + Len(granted)
      /\ granted' \o waiters' = granted \o waiters
      /\ NoIdlePermit'
  BY <1>1, ReleaseKeeps DEF NoIdlePermit
<1>5. Len(granted') \in Nat
  BY <1>4, LenProperties
<1>6. PermitsConserved'
  <2>1. /\ permits' \in Nat /\ permits' + Len(granted') = permits + n + Len(granted)
        /\ Len(granted) \in Nat /\ Len(queue) \in Nat
        /\ permits \in Nat /\ out \in Nat /\ Cardinality(hold) \in Nat
    BY <1>1, <1>4
  <2>2. permits + Len(granted) + Cardinality(hold) + Len(queue) + out = Limit
    BY DEF PermitsConserved
  <2>3. /\ permits + Len(granted) \in Nat
        /\ Cardinality(hold) + Len(queue) + out \in Nat
        /\ permits + Len(granted) + (Cardinality(hold) + Len(queue) + out) = Limit
    BY <2>1, <2>2, SMTT(30)
  <2>4. /\ permits' + Len(granted') \in Nat /\ n \in Nat
        /\ permits' + Len(granted') = permits + Len(granted) + n
    BY <1>5, <2>1, SMTT(30)
  <2>5. /\ Cardinality(hold') + Len(queue') + out' \in Nat
        /\ n + (Cardinality(hold') + Len(queue') + out') = Cardinality(hold) + Len(queue) + out
    <3>1. n + (Cardinality(hold') + Len(queue') + out') = n + Cardinality(hold') + Len(queue') + out'
      BY <1>3
    <3>. QED  BY <1>3, <3>1
  <2>6. permits' + Len(granted') + (Cardinality(hold') + Len(queue') + out')
          = permits + Len(granted) + (Cardinality(hold) + Len(queue) + out)
    BY ONLY <2>3, <2>4, <2>5, SameSum
  <2>7. permits' + Len(granted') + (Cardinality(hold') + Len(queue') + out')
          = permits' + Len(granted') + Cardinality(hold') + Len(queue') + out'
    <3>. DEFINE p == permits'
                g == Len(granted')
                h == Cardinality(hold')
                q == Len(queue')
                o == out'
    <3>1. p \in Nat /\ g \in Nat /\ h \in Nat /\ q \in Nat /\ o \in Nat
      BY <1>3, <1>5, <2>1
    <3>. HIDE DEF p, g, h, q, o
    <3>2. p + g + (h + q + o) = p + g + h + q + o
      BY ONLY <3>1, SMTT(30)
    <3>. QED  BY <3>2 DEF p, g, h, q, o
  <2>. QED  BY <2>3, <2>6, <2>7, Zenon DEF PermitsConserved
<1>7. TypeOK'
  <2>1. closed' \in BOOLEAN
    BY DEF TypeOK
  <2>. QED  BY <1>4, <1>6, <2>1, SumTypes
<1>8. Free' = Free + n
  BY <1>1, <1>4 DEF Free
<1>. QED  BY <1>4, <1>6, <1>7, <1>8, Zenon DEF Line

\* A guard travels with its item, or both are dropped at a closed channel.
LEMMA SendStep ==
  ASSUME IInv, NEW c \in Senders, Send(c)
  PROVE  IInv' /\ Abstract!Send(c)
<1>. USE DEF IInv
<1>1. /\ queue \in Seq(Senders) /\ Len(queue) \in Nat /\ Len(granted) \in Nat
      /\ permits \in Nat /\ out \in Nat /\ Cardinality(hold) \in Nat
      /\ UNCHANGED <<out, closed>> /\ c \in hold /\ hold' = hold \ {c}
  BY Types DEF Send
<1>2. Cardinality(hold') = Cardinality(hold) - 1 /\ hold' \subseteq Senders
  BY <1>1, HoldCount DEF TypeOK
<1>3. CASE closed
  <2>1. Release(1, waiters, granted) /\ queue' = queue
    BY <1>3 DEF Send
  <2>2. IInv' /\ Free' = Free + 1 /\ Line' = Line
    <3>1. closed' \in {closed, TRUE} /\ out' \in Nat /\ queue' \in Seq(Senders)
      BY <1>1, <2>1 DEF TypeOK
    <3>2. 1 + Cardinality(hold') + Len(queue') + out' = Cardinality(hold) + Len(queue) + out
      <4>1. out' = out /\ queue' = queue /\ out \in Nat /\ Len(queue) \in Nat
            /\ Cardinality(hold) \in Nat
        BY <1>1, <2>1
      <4>. QED  BY <1>2, <4>1
    <3>. HIDE DEF IInv
    <3>. QED  BY <1>2, <2>1, <3>1, <3>2, DropStep
  <2>. QED  BY <1>1, <1>3, <2>1, <2>2 DEF Abstract!Send, Free, Line
<1>4. CASE ~closed
  <2>1. queue' = Append(queue, c) /\ UNCHANGED <<permits, waiters, granted>>
    BY <1>4 DEF Send
  <2>2. queue' \in Seq(Senders) /\ Len(queue') = Len(queue) + 1
    BY <1>1, <2>1, Push
  <2>3. PermitsConserved'
    <3>1. permits + Len(granted) + Cardinality(hold) + Len(queue) + out = Limit
      BY DEF PermitsConserved
    <3>2. Len(granted) \in Nat /\ Len(queue) \in Nat /\ permits \in Nat /\ out' = out
          /\ out \in Nat /\ Cardinality(hold) \in Nat /\ permits' = permits /\ granted' = granted
      BY <1>1, <2>1
    <3>3. permits' + Len(granted') + Cardinality(hold') + Len(queue') + out' = Limit
      BY <1>2, <2>2, <3>1, <3>2
    <3>. QED  BY <3>3 DEF PermitsConserved
  <2>4. TypeOK' /\ NoIdlePermit'
    BY <1>1, <1>2, <2>1, <2>2 DEF TypeOK, NoIdlePermit
  <2>5. Abstract!Send(c)
    BY <1>1, <1>4, <2>1 DEF Abstract!Send
  <2>. QED  BY <2>3, <2>4, <2>5
<1>. QED  BY <1>3, <1>4

\* The receiver takes an item with its guard.
LEMMA RecvStep ==
  ASSUME IInv, Recv
  PROVE  IInv' /\ Abstract!Recv
<1>. USE DEF IInv
<1>1. /\ queue \in Seq(Senders) /\ Len(queue) \in Nat /\ Len(granted) \in Nat
      /\ permits \in Nat /\ out \in Nat /\ Cardinality(hold) \in Nat
      /\ waiters \in Seq(Senders) /\ granted \in Seq(Senders)
      /\ UNCHANGED <<permits, waiters, granted, hold, closed>>
      /\ queue # <<>> /\ queue' = Tail(queue) /\ out' = out + 1
  BY Types DEF Recv
<1>2. queue' \in Seq(Senders) /\ Len(queue') = Len(queue) - 1
  BY <1>1, Pop
<1>3. PermitsConserved'
  <2>1. permits + Len(granted) + Cardinality(hold) + Len(queue) + out = Limit
    BY DEF PermitsConserved
  <2>2. Len(granted) \in Nat /\ Len(queue) \in Nat /\ permits \in Nat /\ out' = out + 1
        /\ out \in Nat /\ Cardinality(hold) \in Nat /\ permits' = permits
        /\ granted' = granted /\ hold' = hold
    BY <1>1
  <2>3. permits' + Len(granted') + Cardinality(hold') + Len(queue') + out' = Limit
    BY <1>2, <2>1, <2>2, SMTT(30)
  <2>. QED  BY <2>3 DEF PermitsConserved
<1>4. permits' \in Nat /\ out' \in Nat /\ hold' \subseteq Senders /\ closed' \in BOOLEAN
  BY <1>1 DEF TypeOK
<1>5. TypeOK'
  BY <1>1, <1>2, <1>3, <1>4, SumTypes
<1>6. NoIdlePermit' /\ Abstract!Recv
  BY <1>1 DEF NoIdlePermit, Abstract!Recv
<1>. QED  BY <1>3, <1>5, <1>6

\* The receiver is done with an item, or goes away with what is queued.
LEMMA ReceiverStep ==
  ASSUME IInv, DropGuard \/ Close
  PROVE  IInv' /\ (Abstract!Drop \/ Abstract!Close)
<1>. USE DEF IInv
<1>1. /\ queue \in Seq(Senders) /\ Len(queue) \in Nat /\ out \in Nat /\ Cardinality(hold) \in Nat
      /\ hold' = hold /\ hold \subseteq Senders /\ closed \in BOOLEAN
  BY Types DEF DropGuard, Close, TypeOK
<1>2. CASE DropGuard
  <2>1. out > 0 /\ out' = out - 1 /\ Release(1, waiters, granted) /\ UNCHANGED <<queue, closed>>
    BY <1>2 DEF DropGuard
  <2>2. IInv' /\ Free' = Free + 1 /\ Line' = Line
    BY <1>1, <2>1, DropStep
  <2>3. Abstract!Drop
    BY <1>1, <2>1, <2>2 DEF Abstract!Drop, Free, Line
  <2>. QED  BY <2>2, <2>3
<1>3. CASE Close
  <2>1. /\ ~closed /\ closed' = TRUE /\ queue' = <<>> /\ out' = out
        /\ Release(Len(queue), waiters, granted)
    BY <1>3 DEF Close
  <2>2. queue' \in Seq(Senders) /\ Len(queue') = 0
    BY <2>1, EmptySeq
  <2>3. IInv' /\ Free' = Free + Len(queue) /\ Line' = Line
    BY <1>1, <2>1, <2>2, DropStep
  <2>4. Abstract!Close
    BY <1>1, <2>1, <2>3 DEF Abstract!Close, Free, Line
  <2>. QED  BY <2>3, <2>4
<1>. QED  BY <1>2, <1>3

-----------------------------------------------------------------------------
(* The line of those who wait.                                             *)

\* Nobody stands in line twice, and nobody who stands in line holds a guard.
LineInv == Distinct(Line) /\ \A i \in 1..Len(Line) : Line[i] \notin hold

\* It is kept by every step BoundChannel allows.
LEMMA LineStep ==
  ASSUME TypeOK, LineInv, [Abstract!Next]_(Abstract!vars)
  PROVE  LineInv'
<1>. USE DEF LineInv
<1>1. Line \in Seq(Senders) /\ Len(Line) \in Nat
  BY LineOf, LenProperties
<1>2. CASE Line' = Line /\ hold' \subseteq hold
  BY <1>2 DEF Distinct
<1>3. ASSUME NEW c \in Senders, NEW i \in 1..Len(Line), Line[i] = c,
             Line' = Without(Line, i), hold' \subseteq hold \cup {c}
      PROVE  LineInv'
  <2>. DEFINE w == Without(Line, i)
  <2>1. /\ Distinct(w)
        /\ \A d : (\E j \in 1..Len(w) : w[j] = d)
               <=> d # Line[i] /\ \E j \in 1..Len(Line) : Line[j] = d
    BY <1>1, WithoutDistinct
  <2>2. Line' = w
    BY <1>3
  <2>. HIDE DEF w
  <2>. QED  BY <1>3, <2>1, <2>2
<1>4. ASSUME NEW c \in Senders, Abstract!Wait(c) PROVE LineInv'
  <2>1. Line' = Append(Line, c) /\ hold' = hold /\ c \notin hold
        /\ \A i \in 1..Len(Line) : Line[i] # c
    BY <1>4 DEF Abstract!Wait, Abstract!Idle, Line
  <2>2. /\ Len(Line') = Len(Line) + 1 /\ Line'[Len(Line) + 1] = c
        /\ \A i \in 1..Len(Line) : Line'[i] = Line[i]
    BY <1>1, <2>1, Push
  <2>. QED  BY <1>1, <2>1, <2>2 DEF Distinct
<1>5. ASSUME NEW c \in Senders, Abstract!Take(c) \/ Abstract!GiveUp(c) PROVE LineInv'
  <2>1. hold' \subseteq hold \cup {c}
    BY <1>5 DEF Abstract!Take, Abstract!GiveUp
  <2>2. \E i \in 1..Len(Line) : Line[i] = c /\ Line' = Abstract!Without(Line, i)
    BY <1>5 DEF Abstract!Take, Abstract!GiveUp, Line
  <2>3. PICK i \in 1..Len(Line) : Line[i] = c /\ Line' = Abstract!Without(Line, i)
    BY <2>2
  <2>4. Line' = Without(Line, i)
    BY <2>3, Zenon DEF Without, Abstract!Without
  <2>. QED  BY <1>3, <2>1, <2>3, <2>4
<1>6. ASSUME NEW c \in Senders, Abstract!TakeAtOnce(c) PROVE LineInv'
  <2>1. Line' = Line /\ hold' = hold \cup {c} /\ \A i \in 1..Len(Line) : Line[i] # c
    BY <1>6 DEF Abstract!TakeAtOnce, Abstract!Idle, Line
  <2>. QED  BY <2>1 DEF Distinct
<1>7. ASSUME NEW c \in Senders, Abstract!Send(c) PROVE LineInv'
  BY <1>2, <1>7 DEF Abstract!Send, Line
<1>8. CASE Abstract!Recv \/ Abstract!Drop \/ Abstract!Close \/ UNCHANGED Abstract!vars
  BY <1>2, <1>8 DEF Abstract!Recv, Abstract!Drop, Abstract!Close, Abstract!vars, Line
<1>. QED  BY <1>4, <1>5, <1>6, <1>7, <1>8 DEF Abstract!Next

-----------------------------------------------------------------------------
(* The theorems.                                                           *)

\* Every step keeps the invariant and is a step of BoundChannel.
LEMMA NextStep ==
  IInv /\ LineInv /\ [Next]_vars => IInv' /\ LineInv' /\ [Abstract!Next]_(Abstract!vars)
<1>. SUFFICES ASSUME IInv, LineInv, [Next]_vars
              PROVE  IInv' /\ [Abstract!Next]_(Abstract!vars)
  BY LineStep DEF IInv
<1>1. ASSUME NEW c \in Senders, Acquire(c) \/ TryAcquire(c)
      PROVE  IInv' /\ Abstract!Next
  BY <1>1, AcquireStep DEF Abstract!Next
<1>2. ASSUME NEW c \in Senders, Wake(c) PROVE IInv' /\ Abstract!Next
  <2>1. PICK i \in 1..Len(granted) : granted[i] = c
    BY <1>2 DEF Wake
  <2>2. i \in 1..Len(Line) /\ Line[i] = c
    BY <2>1, Types, WithoutLeft DEF Line, IInv
  <2>3. c \notin hold
    BY <2>2 DEF LineInv
  <2>. QED  BY <1>2, <2>3, WakeStep DEF Abstract!Next
<1>3. ASSUME NEW c \in Senders, CancelGranted(c) \/ CancelWaiting(c)
      PROVE  IInv' /\ Abstract!Next
  BY <1>3, CancelStep DEF Abstract!Next
<1>4. ASSUME NEW c \in Senders, Send(c) PROVE IInv' /\ Abstract!Next
  BY <1>4, SendStep DEF Abstract!Next
<1>5. CASE Recv \/ DropGuard \/ Close
  BY <1>5, RecvStep, ReceiverStep DEF Abstract!Next
<1>6. CASE UNCHANGED vars
  <2>1. UNCHANGED <<permits, waiters, granted, hold, queue, out, closed>>
    BY <1>6 DEF vars, chanVars
  <2>2. IInv'
    BY <2>1 DEF IInv, TypeOK, NoIdlePermit, PermitsConserved
  <2>. QED  BY <2>1, <2>2 DEF Abstract!vars
<1>. QED  BY <1>1, <1>2, <1>3, <1>4, <1>5, <1>6 DEF Next

\* A new channel has every permit free.
LEMMA InitStep == Init => IInv /\ LineInv /\ Abstract!Init
<1>. SUFFICES ASSUME Init PROVE IInv /\ LineInv /\ Abstract!Init
  OBVIOUS
<1>1. <<>> \in Seq(Senders) /\ Len(<<>>) = 0 /\ Cardinality({}) = 0
  BY EmptySeq, FS_EmptySet
<1>2. Line = <<>> /\ Free = Limit
  <2>1. granted \o waiters = <<>>
    BY <1>1, ConcatEmptySeq DEF Init
  <2>. QED  BY <1>1, <2>1, LimitAssumption DEF Init, Line, Free
<1>3. TypeOK
  <2>1. permits \in 0..Limit /\ out \in 0..Limit
    BY LimitAssumption DEF Init
  <2>2. waiters \in Seq(Senders) /\ granted \in Seq(Senders) /\ queue \in Seq(Senders)
    BY <1>1 DEF Init
  <2>3. closed \in BOOLEAN /\ hold \subseteq Senders
    BY DEF Init
  <2>. QED  BY <2>1, <2>2, <2>3 DEF TypeOK
<1>4. NoIdlePermit /\ PermitsConserved
  BY <1>1, LimitAssumption DEF Init, NoIdlePermit, PermitsConserved
<1>5. LineInv
  BY <1>1, <1>2 DEF LineInv, Distinct
<1>6. Abstract!Init
  BY <1>2 DEF Init, Abstract!Init, Line, Free
<1>. QED  BY <1>3, <1>4, <1>5, <1>6 DEF IInv

\* The inductive invariant holds in every reachable state.
THEOREM Invariance == Spec => [](IInv /\ LineInv)
BY InitStep, NextStep, PTL DEF Spec

\* The semaphore's counter stays within its limit.
THEOREM TypeCorrect == Spec => []TypeOK
<1>1. IInv => TypeOK
  BY DEF IInv
<1>. QED  BY <1>1, Invariance, PTL

\* At most Limit items are queued, held or worked on
\* (bound_multi_send.rs:23-35).
THEOREM PermitsAreConserved == Spec => []PermitsConserved
<1>1. IInv => PermitsConserved
  BY DEF IInv
<1>. QED  BY <1>1, Invariance, PTL

\* The channel of tokio is the one ConTask and EpTask use
\* (bound_multi_send.rs:23-46).
THEOREM TokioImplementsBoundChannel == Spec => ImplementsBoundChannel
BY InitStep, NextStep, Invariance, PTL DEF Spec, ImplementsBoundChannel, Abstract!Spec
=============================================================================
