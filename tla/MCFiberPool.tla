---------------------------- MODULE MCFiberPool ----------------------------
(***************************************************************************)
(* Fibers are interchangeable, so states that differ only in which fibers  *)
(* are where are identified: View keeps the number of fibers in each place *)
(* and whether each of them is in one place.                               *)
(***************************************************************************)
EXTENDS FiberPool

View ==
  <<[p \in Pools |-> <<Cardinality(fibers[p]), Cardinality(to_free[p]),
                       back[p] = NoFiber, total[p], pc[p]>>],
    at, Cardinality(used), Cardinality(heap), closing, OnePlace>>
=============================================================================
