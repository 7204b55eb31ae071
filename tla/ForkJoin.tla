------------------------------ MODULE ForkJoin ------------------------------
(***************************************************************************)
(* What the runtime promises a Cilk program: fork-join execution of a tree *)
(* of function instances.  A user thread enters Cilk with an initial       *)
(* function; a running function spawns or calls others; a function returns *)
(* only after everything it spawned and called has returned.  No worker,   *)
(* deque, full frame or join counter is mentioned.                         *)
(***************************************************************************)
EXTENDS Naturals, FiniteSets

CONSTANTS Users,    \* user threads
          NoOne,    \* not a user thread
          MaxFns    \* bound: function instances ever created

VARIABLES made,     \* the instances 1..made exist
          parent,   \* the instance that spawned or called it, 0 for an initial one
          kind,     \* "none" (not created), "initial", "spawn" or "call"
          tree,     \* the user thread whose computation it belongs to
          done      \* the instances that have returned

fjvars == <<made, parent, kind, tree, done>>

Fns == 1..MaxFns

Live == (1..made) \ done

Children(f) == {c \in 1..made : parent[c] = f}

Create(f, p, k, u) ==
  /\ f = made + 1 /\ f \in Fns
  /\ made' = f
  /\ parent' = [parent EXCEPT ![f] = p]
  /\ kind' = [kind EXCEPT ![f] = k]
  /\ tree' = [tree EXCEPT ![f] = u]
  /\ UNCHANGED done

Init == /\ made = 0
        /\ parent = [f \in Fns |-> 0]
        /\ kind = [f \in Fns |-> "none"]
        /\ tree = [f \in Fns |-> NoOne]
        /\ done = {}

\* A user thread enters Cilk when it has no computation under way.
Enter(u) == /\ \A f \in Live : tree[f] # u
            /\ Create(made + 1, 0, "initial", u)

\* A function that is not itself waiting for a call it made runs on.
Fork(p, k) == /\ p \in Live
              /\ \A c \in Children(p) \cap Live : kind[c] # "call"
              /\ Create(made + 1, p, k, tree[p])

\* The implicit sync before a return: every child has returned.
Return(f) == /\ f \in Live
             /\ Children(f) \subseteq done
             /\ done' = done \cup {f}
             /\ UNCHANGED <<made, parent, kind, tree>>

Next == \/ \E u \in Users : Enter(u)
        \/ \E p \in Fns, k \in {"spawn", "call"} : Fork(p, k)
        \/ \E f \in Fns : Return(f)

Spec == Init /\ [][Next]_fjvars
=============================================================================
