------------------------------- MODULE Arrays -------------------------------
(***************************************************************************)
(* What the Go code does to a slice: adds it up, sorts it, keeps some of   *)
(* its elements.  Written with counting instead of SortSeq and SelectSeq,  *)
(* whose definitions the proof system does not know.                       *)
(***************************************************************************)
EXTENDS Integers, Sequences, FiniteSets

\* A loop that adds the elements to a sum that starts at 0.
Total(s) == LET sum[n \in 0..Len(s)] == IF n = 0 THEN 0 ELSE sum[n - 1] + s[n]
            IN  sum[Len(s)]

\* A loop that appends the elements at the positions K to a new slice.
Nth(K, n) == CHOOSE i \in K : Cardinality({j \in K : j <= i}) = n

Keep(s, K) == [n \in 1..Cardinality(K) |-> s[Nth(K, n)]]

\* sort.Slice with < and sort.Float64s: where an element goes, and the result.
Place(s, i) == Cardinality({j \in DOMAIN s : s[j] < s[i] \/ (s[j] = s[i] /\ j <= i)})

Sorted(s) == [n \in DOMAIN s |-> s[CHOOSE i \in DOMAIN s : Place(s, i) = n]]
=============================================================================
