---------------------------- MODULE SerialOrder -----------------------------
(***************************************************************************)
(* Strands in serial order: sequences that are increasing, and places that *)
(* hold sets of strands, left to right.  No variables: the reducer         *)
(* protocol and the proofs about it are stated with these.                 *)
(***************************************************************************)
EXTENDS Integers, Sequences

\* The elements are in increasing order.
Increasing(s) == \A i, j \in DOMAIN s : i < j => s[i] < s[j]

Content(s) == {s[i] : i \in DOMAIN s}

\* Every element of A is less than every element of B.
Less(A, B) == \A a \in A, b \in B : a < b

\* The open places K hold strands in serial order, and the strand of a child
\* that runs (in G) fits between what its neighbours hold.
Serial(own, right, K, G) ==
  /\ \A i \in K : Less(own[i], right[i])
  /\ \A i, k \in K : i < k => Less(own[i] \cup right[i], own[k] \cup right[k])
  /\ \A g \in G : /\ \A a \in own[g] : a <= 2 * g - 1
                  /\ \A a \in right[g] : 2 * g - 1 < a
                  /\ \A i \in K : \A a \in own[i] \cup right[i] :
                       (i < g => a < 2 * g - 1) /\ (g < i => 2 * g - 1 < a)

\* The set A has c elements: 1..c enumerates them.
Enumerated(A, c) ==
  \E f \in [1..c -> A] : /\ \A a \in A : \E k \in 1..c : f[k] = a
                         /\ \A k, m \in 1..c : f[k] = f[m] => k = m
=============================================================================
