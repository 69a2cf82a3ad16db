------------------------------ MODULE Permits ------------------------------
(***************************************************************************)
(* What the modules share about tokio's semaphores: a guard that may be    *)
(* there, as a number of permits, and the FIFO of those who wait.          *)
(***************************************************************************)
EXTENDS Naturals, Sequences, FiniteSets

\* The permits of a guard that is held or not.
Count(b) == IF b THEN 1 ELSE 0

\* The queue after its i-th waiter has left it.
Without(s, i) == SubSeq(s, 1, i - 1) \o SubSeq(s, i + 1, Len(s))

\* How many elements of the sequence are in T.
Among(s, T) == Cardinality({i \in 1..Len(s) : s[i] \in T})
=============================================================================
