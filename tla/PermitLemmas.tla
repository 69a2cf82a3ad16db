---------------------------- MODULE PermitLemmas ----------------------------
(***************************************************************************)
(* Facts about guards and queues the proofs of all components rest on.     *)
(***************************************************************************)
EXTENDS Permits, SequenceTheorems, FiniteSetTheorems, FunctionTheorems, TLAPS

\* A guard is one permit.  Leaves cite it in place of Count's definition: they
\* then do arithmetic with Count(guard) as a number.
LEMMA Counts == Count(TRUE) = 1 /\ Count(FALSE) = 0
BY DEF Count

\* The same for a guard known only to be Boolean: it is held and counts, or not.
LEMMA CountOf ==
  ASSUME NEW b \in BOOLEAN
  PROVE  \/ b /\ Count(b) = 1 /\ Count(~b) = 0
         \/ ~b /\ Count(b) = 0 /\ Count(~b) = 1
<1>1. CASE b
  <2>1. b = TRUE /\ (~b) = FALSE
    BY <1>1, Zenon
  <2>. QED  BY <2>1, Counts, Zenon
<1>2. CASE ~b
  <2>1. b = FALSE /\ (~b) = TRUE
    BY <1>2, Zenon
  <2>. QED  BY <2>1, Counts, Zenon
<1>. QED  BY <1>1, <1>2

\* A queue is its front and the rest.
LEMMA Split ==
  ASSUME NEW S, NEW s \in Seq(S), NEW k \in 0..Len(s)
  PROVE  SubSeq(s, 1, k) \o SubSeq(s, k + 1, Len(s)) = s
<1>. DEFINE m == 1
            n == Len(s)
<1>1. m \in 1..(Len(s) + 1) /\ k \in (m - 1)..Len(s) /\ n \in k..Len(s)
  BY LenProperties
<1>. HIDE DEF m, n
<1>2. SubSeq(s, m, k) \o SubSeq(s, k + 1, n) = SubSeq(s, m, n)
  BY <1>1, ConcatAdjacentSubSeq, ZenonT(30)
<1>3. SubSeq(s, 1, Len(s)) = s
  BY SubSeqFull
<1>. QED  BY <1>2, <1>3 DEF m, n

\* Taking one call out of the semaphore's queue leaves a queue of calls, in which
\* those that stay keep their order.
LEMMA WithoutElems ==
  ASSUME NEW S, NEW s \in Seq(S), NEW i \in 1..Len(s)
  PROVE  /\ Without(s, i) \in Seq(S)
         /\ Len(Without(s, i)) = Len(s) - 1
         /\ \A j \in 1..(Len(s) - 1) :
              Without(s, i)[j] = IF j < i THEN s[j] ELSE s[j + 1]
<1>0. Len(s) \in Nat /\ i \in Nat /\ Without(s, i) = SubSeq(s, 1, i - 1) \o SubSeq(s, i + 1, Len(s))
  BY LenProperties DEF Without
<1>1. /\ SubSeq(s, 1, i - 1) \in Seq(S)
      /\ Len(SubSeq(s, 1, i - 1)) = i - 1
      /\ \A j \in 1..(i - 1) : SubSeq(s, 1, i - 1)[j] = s[j]
  <2>1. \A j \in 1..(i - 1) : s[j] \in S
    BY ElementOfSeq
  <2>. QED  BY <1>0, <2>1, SubSeqProperties
<1>2. /\ SubSeq(s, i + 1, Len(s)) \in Seq(S)
      /\ Len(SubSeq(s, i + 1, Len(s))) = Len(s) - i
      /\ \A j \in 1..(Len(s) - i) : SubSeq(s, i + 1, Len(s))[j] = s[j + i]
  <2>1. \A j \in (i + 1)..Len(s) : s[j] \in S
    BY ElementOfSeq
  <2>. QED  BY <1>0, <2>1, SubSeqProperties
<1>. DEFINE a == SubSeq(s, 1, i - 1)
            b == SubSeq(s, i + 1, Len(s))
<1>3. /\ a \in Seq(S) /\ b \in Seq(S) /\ Len(a) = i - 1 /\ Len(b) = Len(s) - i
      /\ \A j \in 1..(i - 1) : a[j] = s[j]
      /\ \A j \in 1..(Len(s) - i) : b[j] = s[j + i]
      /\ Without(s, i) = a \o b
  BY <1>0, <1>1, <1>2
<1>. HIDE DEF a, b
<1>4. /\ a \o b \in Seq(S) /\ Len(a \o b) = Len(a) + Len(b)
      /\ \A j \in 1..(Len(a) + Len(b)) :
           (a \o b)[j] = IF j <= Len(a) THEN a[j] ELSE b[j - Len(a)]
  BY <1>3, ConcatProperties
<1>5. ASSUME NEW j \in 1..(Len(s) - 1)
      PROVE  (a \o b)[j] = IF j < i THEN s[j] ELSE s[j + 1]
  <2>1. CASE j < i
    BY <1>0, <1>3, <1>4, <2>1, SMTT(30)
  <2>2. CASE ~(j < i)
    <3>1. j - (i - 1) \in 1..(Len(s) - i) /\ (a \o b)[j] = b[j - (i - 1)]
      BY <1>0, <1>3, <1>4, <2>2, SMTT(30)
    <3>2. b[j - (i - 1)] = s[j - (i - 1) + i]
      BY <1>3, <3>1
    <3>. QED  BY <1>0, <2>2, <3>1, <3>2, SMTT(30)
  <2>. QED  BY <2>1, <2>2
<1>6. Len(a \o b) = Len(s) - 1
  BY <1>0, <1>3, <1>4
<1>7. Without(s, i) = a \o b /\ a \o b \in Seq(S)
  BY <1>3, <1>4
<1>. QED  BY <1>5, <1>6, <1>7, Zenon

\* A queue in which nobody stands twice.
Distinct(s) == \A j, k \in 1..Len(s) : s[j] = s[k] => j = k

\* Taking one out leaves exactly the others, and nobody twice.
LEMMA WithoutDistinct ==
  ASSUME NEW S, NEW s \in Seq(S), NEW i \in 1..Len(s), Distinct(s)
  PROVE  /\ Distinct(Without(s, i))
         /\ \A x : (\E j \in 1..Len(Without(s, i)) : Without(s, i)[j] = x)
                 <=> x # s[i] /\ \E j \in 1..Len(s) : s[j] = x
<1>. DEFINE w == Without(s, i)
<1>1. /\ Len(s) \in Nat /\ i \in Nat /\ Len(w) = Len(s) - 1
      /\ \A j \in 1..(Len(s) - 1) : w[j] = IF j < i THEN s[j] ELSE s[j + 1]
  BY WithoutElems, LenProperties
<1>. HIDE DEF w
<1>2. Distinct(w)
  <2>1. SUFFICES ASSUME NEW j \in 1..Len(w), NEW k \in 1..Len(w), w[j] = w[k]
                 PROVE  j = k
    BY DEF Distinct
  <2>2. CASE j < i /\ k < i
    BY <1>1, <2>1, <2>2 DEF Distinct
  <2>3. CASE j < i /\ ~(k < i)
    <3>1. j \in 1..Len(s) /\ k + 1 \in 1..Len(s) /\ s[j] = s[k + 1]
      BY <1>1, <2>1, <2>3
    <3>. QED  BY <1>1, <2>3, <3>1 DEF Distinct
  <2>4. CASE ~(j < i) /\ k < i
    <3>1. k \in 1..Len(s) /\ j + 1 \in 1..Len(s) /\ s[j + 1] = s[k]
      BY <1>1, <2>1, <2>4
    <3>. QED  BY <1>1, <2>4, <3>1 DEF Distinct
  <2>5. CASE ~(j < i) /\ ~(k < i)
    <3>1. j + 1 \in 1..Len(s) /\ k + 1 \in 1..Len(s) /\ s[j + 1] = s[k + 1]
      BY <1>1, <2>1, <2>5
    <3>. QED  BY <1>1, <3>1 DEF Distinct
  <2>. QED  BY <2>2, <2>3, <2>4, <2>5
<1>3. ASSUME NEW j \in 1..Len(w)
      PROVE  w[j] # s[i] /\ \E k \in 1..Len(s) : s[k] = w[j]
  <2>1. CASE j < i
    <3>1. j \in 1..Len(s) /\ w[j] = s[j] /\ j # i
      BY <1>1, <1>3, <2>1
    <3>. QED  BY <3>1 DEF Distinct
  <2>2. CASE ~(j < i)
    <3>1. j + 1 \in 1..Len(s) /\ w[j] = s[j + 1] /\ j + 1 # i
      BY <1>1, <1>3, <2>2
    <3>. QED  BY <3>1 DEF Distinct
  <2>. QED  BY <2>1, <2>2
<1>4. ASSUME NEW k \in 1..Len(s), s[k] # s[i]
      PROVE  \E j \in 1..Len(w) : w[j] = s[k]
  <2>1. CASE k < i
    <3>1. k \in 1..Len(w) /\ w[k] = s[k]
      BY <1>1, <1>4, <2>1
    <3>. QED  BY <3>1
  <2>2. CASE ~(k < i)
    <3>1. k # i
      BY <1>4
    <3>2. k - 1 \in 1..Len(w) /\ w[k - 1] = s[k]
      BY <1>1, <2>2, <3>1
    <3>. QED  BY <3>2
  <2>. QED  BY <2>1, <2>2
<1>. QED  BY <1>2, <1>3, <1>4, Zenon DEF w

\* What the head and the tail of a non-empty queue are.
LEMMA Pop ==
  ASSUME NEW S, NEW s \in Seq(S), s # <<>>
  PROVE  /\ Tail(s) \in Seq(S) /\ Len(Tail(s)) = Len(s) - 1 /\ Len(s) >= 1
         /\ Head(s) = s[1]
         /\ \A i \in 1..Len(Tail(s)) : Tail(s)[i] = s[i + 1]
BY HeadTailProperties, EmptySeq

\* What appending to a queue does.
LEMMA Push ==
  ASSUME NEW S, NEW s \in Seq(S), NEW e \in S
  PROVE  /\ Append(s, e) \in Seq(S) /\ Len(Append(s, e)) = Len(s) + 1
         /\ \A i \in 1..Len(s) : Append(s, e)[i] = s[i]
         /\ Append(s, e)[Len(s) + 1] = e
BY AppendProperties

-----------------------------------------------------------------------------
(* Counting the elements of a queue that are in a set.                     *)

\* The places counted are finitely many.
LEMMA AmongType ==
  ASSUME NEW S, NEW s \in Seq(S), NEW T
  PROVE  /\ IsFiniteSet({i \in 1..Len(s) : s[i] \in T})
         /\ Among(s, T) \in Nat
<1>1. Len(s) \in Nat /\ IsFiniteSet(1..Len(s))
  BY LenProperties, FS_Interval
<1>2. IsFiniteSet({i \in 1..Len(s) : s[i] \in T})
  <2>1. {i \in 1..Len(s) : s[i] \in T} \in SUBSET (1..Len(s))
    OBVIOUS
  <2>. QED  BY <1>1, <2>1, FS_Subset
<1>. QED  BY <1>2, FS_CardinalityType DEF Among

\* An empty queue has none.
LEMMA AmongEmpty ==
  ASSUME NEW T
  PROVE  Among(<<>>, T) = 0
<1>1. {i \in 1..Len(<<>>) : <<>>[i] \in T} = {}
  BY EmptySeq
<1>. QED  BY <1>1, FS_EmptySet DEF Among

\* What is appended counts if it is in the set.
LEMMA AmongPush ==
  ASSUME NEW S, NEW s \in Seq(S), NEW e \in S, NEW T
  PROVE  Among(Append(s, e), T) = Among(s, T) + Count(e \in T)
<1>. DEFINE A == {i \in 1..Len(s) : s[i] \in T}
            B == {i \in 1..Len(Append(s, e)) : Append(s, e)[i] \in T}
            n == Len(s) + 1
<1>1. /\ Len(s) \in Nat /\ Len(Append(s, e)) = n /\ Append(s, e)[n] = e
      /\ \A i \in 1..Len(s) : Append(s, e)[i] = s[i]
  BY Push, LenProperties
<1>2. n \notin A
  BY <1>1
<1>3. IsFiniteSet(A) /\ Cardinality(A) \in Nat
  BY AmongType, FS_CardinalityType
<1>4. CASE e \in T
  <2>0. B = A \cup {n}
    BY <1>1, <1>4
  <2>. HIDE DEF A, B, n
  <2>1. Cardinality(B) = Cardinality(A) + 1
    BY <1>2, <1>3, <2>0, FS_AddElement
  <2>2. Count(e \in T) = 1
    BY <1>4 DEF Count
  <2>. QED  BY <2>1, <2>2 DEF Among, A, B
<1>5. CASE e \notin T
  <2>0. B = A
    BY <1>1, <1>5
  <2>. HIDE DEF A, B, n
  <2>1. Cardinality(B) = Cardinality(A)
    BY <2>0
  <2>2. Count(e \in T) = 0
    BY <1>5 DEF Count
  <2>3. Cardinality(B) = Cardinality(A) + 0
    BY <1>3, <2>1
  <2>. QED  BY <2>2, <2>3, Zenon DEF Among, A, B
<1>. QED  BY <1>4, <1>5

\* What is taken from the head no longer counts.
LEMMA AmongPop ==
  ASSUME NEW S, NEW s \in Seq(S), s # <<>>, NEW T
  PROVE  Among(s, T) = Among(Tail(s), T) + Count(Head(s) \in T)
<1>. DEFINE A == {i \in 1..Len(s) : s[i] \in T}
            B == {i \in 1..Len(Tail(s)) : Tail(s)[i] \in T}
            f == [i \in B |-> i + 1]
<1>1. /\ Len(s) \in Nat /\ Len(Tail(s)) = Len(s) - 1 /\ Len(s) >= 1 /\ Head(s) = s[1]
      /\ Tail(s) \in Seq(S)
      /\ \A i \in 1..Len(Tail(s)) : Tail(s)[i] = s[i + 1]
  BY Pop, LenProperties
<1>2. IsFiniteSet(A) /\ IsFiniteSet(B) /\ Cardinality(A) \in Nat /\ Cardinality(B) \in Nat
  BY <1>1, AmongType, FS_CardinalityType
<1>3. Cardinality(A \ {1}) = Cardinality(B)
  <2>1. \A i \in B : i \in Nat /\ i + 1 \in A \ {1}
    BY <1>1
  <2>2. \A k \in A \ {1} : k - 1 \in B /\ (k - 1) + 1 = k
    BY <1>1
  <2>. HIDE DEF A, B
  <2>3. f \in [B -> A \ {1}] /\ \A a, b \in B : f[a] = f[b] => a = b
    BY <2>1
  <2>4. \A k \in A \ {1} : \E i \in B : f[i] = k
    BY <2>2
  <2>. HIDE DEF f
  <2>5. f \in Bijection(B, A \ {1})
    BY <2>3, <2>4, Fun_IsBij
  <2>6. ExistsBijection(B, A \ {1})
    BY <2>5 DEF ExistsBijection
  <2>. QED  BY <1>2, <2>6, FS_Bijection
<1>4. 1 \in A <=> Head(s) \in T
  BY <1>1
<1>. HIDE DEF A, B, f
<1>5. CASE 1 \in A
  <2>0. Cardinality(A) - 1 = Cardinality(B)
    BY <1>2, <1>3, <1>5, FS_RemoveElement
  <2>1. Cardinality(A) = Cardinality(B) + 1
    BY <1>2, <2>0
  <2>2. Count(Head(s) \in T) = 1
    BY <1>4, <1>5 DEF Count
  <2>. QED  BY <2>1, <2>2, Zenon DEF Among, A, B
<1>6. CASE 1 \notin A
  <2>0. Cardinality(A) = Cardinality(B)
    BY <1>2, <1>3, <1>6, FS_RemoveElement
  <2>1. Cardinality(A) = Cardinality(B) + 0
    BY <1>2, <2>0
  <2>2. Count(Head(s) \in T) = 0
    BY <1>4, <1>6 DEF Count
  <2>. QED  BY <2>1, <2>2, Zenon DEF Among, A, B
<1>. QED  BY <1>5, <1>6
=============================================================================
