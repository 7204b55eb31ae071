-------------------------------- MODULE ReducerStrands ------------------------
(***************************************************************************)
(* The inductive invariant of the reducer protocol, and that it is         *)
(* preserved by user code, and by a worker that reaches a sync with        *)
(* nothing to deposit.                                                     *)
(***************************************************************************)
EXTENDS ReducerProtocol, SerialOrderProofs

\* Children are linked from when they are spawned until they are spliced out,
\* in the order they were spawned, and own nothing before and after.
Linked == Content(kids)
KidsInv ==
  /\ Increasing(kids)
  /\ \A i \in Kids :
       /\ i \in Linked <=> pc[i] \in {"run", "slow"}
       /\ i > spawned <=> pc[i] = "new"
       /\ i \notin Linked =>
            /\ reducer_map[i] = <<>> /\ right_reducer_map[i] = <<>>
            /\ pending_exception[i] = None /\ right_pending_exception[i] = None

\* The worker on the frame stalls with nothing, and all is quiet when it goes
\* on.  The join counter counts the children that have not arrived, and the
\* worker on the frame until it waits.
Active == {i \in Kids : pc[i] \in {"run", "slow", "spliced"}}
Absent == join_counter - (IF pc[0] = "waiting" THEN 0 ELSE 1)
ParentInv ==
  /\ pc[0] \in {"run", "slow", "stalled", "waiting"}
  /\ \A i \in Kids : pc[i] \in {"new", "run", "slow", "spliced", "done"}
  /\ pc[0] \in {"stalled", "waiting"} =>
       reducer_map[0] = <<>> /\ pending_exception[0] = None
  /\ ~unsynched =>
       /\ pc[0] = "run" /\ Active = {}
       /\ children_reducer_map = <<>> /\ child_pending_exception = None
  /\ Absent \in 0..spawned /\ Enumerated(Active, Absent)

\* The places of the frame by the number of the child: 0 for what finished
\* children left, N + 1 for the worker on the frame.
Spots == 0..(N + 1)
Open == Linked \cup {0, N + 1}
Going == {i \in Kids : pc[i] = "run"}

\* What a place holds of its own, and from its right: the strands in its maps,
\* and the strand that threw its exception.
OwnViews ==
  [i \in Spots |-> IF i = 0 THEN {}
                   ELSE Content(reducer_map[IF i = N + 1 THEN 0 ELSE i])]
RightViews ==
  [i \in Spots |-> IF i = 0 THEN Content(children_reducer_map)
                   ELSE IF i = N + 1 THEN {} ELSE Content(right_reducer_map[i])]
OwnThrows ==
  [i \in Spots |-> IF i = 0 THEN {}
                   ELSE {pending_exception[IF i = N + 1 THEN 0 ELSE i]} \ {None}]
RightThrows ==
  [i \in Spots |-> IF i = 0 THEN {child_pending_exception} \ {None}
                   ELSE IF i = N + 1 THEN {} ELSE {right_pending_exception[i]} \ {None}]

Held(own, right) == UNION {own[i] \cup right[i] : i \in Spots}

MapInv ==
  /\ \A x \in All : Increasing(reducer_map[x])
  /\ \A i \in Kids : Increasing(right_reducer_map[i])
  /\ Increasing(children_reducer_map)
  /\ Serial(OwnViews, RightViews, Open, Going)
  /\ Held(OwnViews, RightViews) = updates
  /\ \A a \in updates : a <= 2 * spawned

\* The strand that comes first of those that threw is pending.
ThrowInv ==
  /\ Serial(OwnThrows, RightThrows, Open, Going)
  /\ Held(OwnThrows, RightThrows) \subseteq thrown
  /\ \A s \in thrown : s <= 2 * spawned
  /\ thrown # {} => \E e \in Held(OwnThrows, RightThrows) : \A s \in thrown : e <= s
  /\ \A g \in Going : 2 * g - 1 \in thrown => pending_exception[g] # None
  /\ 2 * spawned \in thrown /\ pc[0] = "run" => pending_exception[0] # None

-----------------------------------------------------------------------------
(***************************************************************************)
(* The inductive invariant, and what it says of the places.                *)
(***************************************************************************)
ReducerInv == TypeOK /\ KidsInv /\ ParentInv /\ MapInv /\ ThrowInv

\* The invariant gives the places their types and bounds.
LEMMA PlaceFacts ==
  ASSUME ReducerInv
  PROVE  /\ N \in Nat /\ None \notin Int /\ Linked \subseteq 1..N
         /\ Open \subseteq Spots /\ Going \subseteq Linked /\ Going \subseteq Open
         /\ Whole(OwnViews, RightViews, Open) /\ Whole(OwnThrows, RightThrows, Open)
<1>1. N \in Nat /\ None \notin Int
  BY ReducerAssumption
<1>2. Linked \subseteq 1..N
  BY ContentType, Zenon DEF ReducerInv, TypeOK, Linked, Kids
<1>3. Open \subseteq Spots
  BY <1>1, <1>2 DEF Open, Spots
<1>4. Going \subseteq Linked
  BY DEF ReducerInv, KidsInv, Going
<1>5. Going \subseteq Open
  BY <1>4 DEF Open
<1>6. Spots \subseteq Int /\ 0..(2 * N) \subseteq Int
  BY <1>1 DEF Spots
<1>7. Whole(OwnViews, RightViews, Open)
  <2>1. \A x \in All : Content(reducer_map[x]) \subseteq 0..(2 * N)
    BY ContentType, Zenon DEF ReducerInv, TypeOK
  <2>2. \A x \in Kids : Content(right_reducer_map[x]) \subseteq 0..(2 * N)
    BY ContentType, Zenon DEF ReducerInv, TypeOK
  <2>3. Content(children_reducer_map) \subseteq 0..(2 * N)
    BY ContentType, Zenon DEF ReducerInv, TypeOK
  <2>4. \A k \in Spots : /\ k = 0 \/ k = N + 1 \/ k \in Kids
                         /\ k \in Kids => k \in All
    BY <1>1 DEF Spots, Kids, All
  <2>5. 0 \in All
    BY <1>1 DEF All
  <2>6. \A k \in Spots : OwnViews[k] \subseteq 0..(2 * N) /\ RightViews[k] \subseteq 0..(2 * N)
    BY <2>1, <2>2, <2>3, <2>4, <2>5 DEF OwnViews, RightViews
  <2>7. QED
    BY <1>3, <1>6, <2>6 DEF Whole
<1>8. Whole(OwnThrows, RightThrows, Open)
  <2>1. /\ \A x \in All : {pending_exception[x]} \ {None} \subseteq 0..(2 * N)
        /\ \A x \in Kids : {right_pending_exception[x]} \ {None} \subseteq 0..(2 * N)
        /\ {child_pending_exception} \ {None} \subseteq 0..(2 * N)
    BY DEF ReducerInv, TypeOK
  <2>4. \A k \in Spots : /\ k = 0 \/ k = N + 1 \/ k \in Kids
                         /\ k \in Kids => k \in All
    BY <1>1 DEF Spots, Kids, All
  <2>5. 0 \in All
    BY <1>1 DEF All
  <2>6. \A k \in Spots : OwnThrows[k] \subseteq 0..(2 * N) /\ RightThrows[k] \subseteq 0..(2 * N)
    BY <2>1, <2>4, <2>5 DEF OwnThrows, RightThrows
  <2>7. QED
    BY <1>3, <1>6, <2>6 DEF Whole
<1>9. QED
  BY <1>1, <1>2, <1>3, <1>4, <1>5, <1>7, <1>8

-----------------------------------------------------------------------------
(***************************************************************************)
(* User code, and a worker with nothing to deposit.                        *)
(***************************************************************************)
Spot(x) == IF x = 0 THEN N + 1 ELSE x

\* The strand a worker executes is new to T, and is put where the worker is.
Adds(own, right, own2, T, x) ==
  /\ Whole(own, right, Open) /\ Serial(own, right, Open, Going) /\ right[N + 1] = {}
  /\ Held(own, right) \subseteq T /\ Strand(x) \notin T
  /\ \A b \in T : b \in Int /\ b <= 2 * spawned
  /\ \A k \in Spots \ {Spot(x)} : own2[k] = own[k]
  /\ own2[Spot(x)] = own[Spot(x)] \cup {Strand(x)}

\* Where a running worker is, and the number of the strand it executes.
LEMMA RunFacts ==
  ASSUME ReducerInv, NEW x \in All, pc[x] = "run"
  PROVE  /\ N \in Nat /\ spawned \in 0..N
         /\ Spot(x) \in Open /\ Spot(x) \in Spots /\ Strand(x) \in 0..(2 * spawned)
         /\ Strand(x) \in 0..(2 * N) /\ Strand(x) \in Int
         /\ x # 0 => /\ x \in Kids /\ x \in Going /\ x <= spawned
                     /\ Strand(x) = 2 * x - 1 /\ Spot(x) = x
         /\ x = 0 => Strand(x) = 2 * spawned /\ Spot(x) = N + 1
         /\ \A g \in Going : g \in Int /\ 1 <= g /\ g <= spawned /\ g <= N
<1>1. N \in Nat /\ Open \subseteq Spots /\ Going \subseteq Open /\ N + 1 \in Open
  BY PlaceFacts DEF Open
<1>2. spawned \in 0..N
  BY DEF ReducerInv, TypeOK
<1>3. \A g \in Going : g \in Int /\ 1 <= g /\ g <= spawned /\ g <= N
  BY <1>1, <1>2 DEF Going, Kids, ReducerInv, KidsInv
<1>4. x # 0 => x \in Kids /\ x \in Going
  BY <1>1 DEF All, Kids, Going
<1>5. CASE x = 0
  BY <1>1, <1>2, <1>3, <1>5 DEF Strand, Spot
<1>6. CASE x # 0
  <2>1. x \in Going /\ x \in Kids /\ x \in Int /\ 1 <= x /\ x <= spawned
    BY <1>3, <1>4, <1>6
  <2>2. Strand(x) = 2 * x - 1 /\ Spot(x) = x
    BY <1>6, Zenon DEF Strand, Spot
  <2>3. QED
    BY <1>1, <1>2, <1>3, <1>6, <2>1, <2>2
<1>7. QED
  BY <1>5, <1>6

\* The strand a worker executes comes after all it holds and before all that is
\* on its right.
LEMMA StrandFits ==
  ASSUME ReducerInv, NEW x \in All, pc[x] = "run",
         NEW own, NEW right, NEW own2, NEW T, Adds(own, right, own2, T, x)
  PROVE  /\ Serial(own2, right, Open, Going)
         /\ Held(own2, right) = Held(own, right) \cup {Strand(x)}
         /\ \A b \in own[Spot(x)] : b < Strand(x)
<1> DEFINE a == Strand(x)
           p == Spot(x)
<1>1. /\ Open \subseteq Spots /\ Going \subseteq Open /\ Open \subseteq Int
      /\ N \in Nat /\ spawned \in 0..N /\ p \in Open /\ p \in Spots /\ a \in Int
      /\ x # 0 => /\ x \in Going /\ x \in Int /\ x <= spawned /\ a = 2 * x - 1 /\ p = x
      /\ x = 0 => a = 2 * spawned /\ p = N + 1
      /\ \A g \in Going : g \in Int /\ 1 <= g /\ g <= spawned /\ g <= N
  BY PlaceFacts, RunFacts, Zenon DEF Whole
<1>2. \A k \in Open : \A b \in own[k] \cup right[k] : b \in T /\ b # a /\ b \in Int
  <2>1. \A k \in Spots : own[k] \cup right[k] \subseteq Held(own, right)
    BY Zenon DEF Held
  <2>2. QED
    BY <1>1, <2>1, Zenon DEF Adds
<1>3. /\ Whole(own, right, Open) /\ Serial(own, right, Open, Going) /\ right[N + 1] = {}
      /\ \A b \in T : b \in Int /\ b <= 2 * spawned
      /\ \A k \in Spots \ {p} : own2[k] = own[k]
      /\ own2[p] = own[p] \cup {a}
  BY DEF Adds
<1> HIDE DEF a, p
<1>4. \A k \in Open : k \in Int /\ k <= N + 1
  BY <1>1 DEF Spots
<1>5. (\A b \in own[p] : b < a) /\ (\A b \in right[p] : a < b)
  <2>1. CASE x = 0
    BY <1>1, <1>2, <1>3, <2>1
  <2>2. CASE x # 0
    <3>1. (\A b \in own[x] : b <= 2 * x - 1) /\ (\A b \in right[x] : 2 * x - 1 < b)
      BY <1>1, <1>3, <2>2, Zenon DEF Serial
    <3>2. QED
      BY <1>1, <1>2, <2>2, <3>1
  <2>3. QED
    BY <2>1, <2>2, Zenon
<1>6. \A k \in Open : \A b \in own[k] \cup right[k] : (k < p => b < a) /\ (p < k => a < b)
  <2>1. CASE x = 0
    BY <1>1, <1>2, <1>3, <1>4, <2>1
  <2>2. CASE x # 0
    <3>1. \A k \in Open : \A b \in own[k] \cup right[k] :
            (k < x => b < 2 * x - 1) /\ (x < k => 2 * x - 1 < b)
      BY <1>1, <1>3, <2>2 DEF Serial
    <3>2. QED
      BY <1>1, <2>2, <3>1, Zenon
  <2>3. QED
    BY <2>1, <2>2, Zenon
<1>7. \A g \in Going : /\ g = p => a <= 2 * g - 1
                       /\ p < g => a < 2 * g - 1
                       /\ g < p => 2 * g - 1 < a
  BY <1>1
<1>8. Add(own, right, Open, Going, own2, p, a)
  <2>1. /\ \A k \in Open \ {p} : own2[k] = own[k]
        /\ own2[p] \subseteq own[p] \cup {a}
    BY <1>1, <1>3
  <2>2. QED
    BY <1>1, <1>3, <1>5, <1>6, <1>7, Zenon DEF Add
<1>9. Serial(own2, right, Open, Going)
  BY <1>8, SerialAdd
<1>10. Held(own2, right) = Held(own, right) \cup {a}
  <2>1. ASSUME NEW b
        PROVE  b \in Held(own2, right) <=> b \in Held(own, right) \cup {a}
    <3>0. b \in Held(own2, right) <=> \E k \in Spots : b \in own2[k] \/ b \in right[k]
      BY Zenon DEF Held
    <3>1. b \in Held(own, right) <=> \E k \in Spots : b \in own[k] \/ b \in right[k]
      BY Zenon DEF Held
    <3>2. ASSUME NEW k \in Spots, b \in own2[k] \/ b \in right[k]
          PROVE  b = a \/ \E j \in Spots : b \in own[j] \/ b \in right[j]
      BY <1>3, <3>2, Zenon
    <3>3. ASSUME NEW k \in Spots, b \in own[k] \/ b \in right[k]
          PROVE  \E j \in Spots : b \in own2[j] \/ b \in right[j]
      BY <1>3, <3>3, Zenon
    <3>4. a \in own2[p]
      BY <1>3
    <3>5. QED
      BY <1>1, <3>0, <3>1, <3>2, <3>3, <3>4, Zenon
  <2>2. QED
    BY <2>1
<1>11. QED
  BY <1>5, <1>9, <1>10, Zenon DEF a, p

\* User code that updates the reducer preserves the invariant.
LEMMA UpdatePreserves ==
  ASSUME ReducerInv, NEW x \in All, Update(x)
  PROVE  ReducerInv'
<1> DEFINE a == Strand(x)
           p == Spot(x)
           S == 0..(2 * N)
<1>1. /\ pc[x] = "run" /\ a \notin updates
      /\ reducer_map' = [reducer_map EXCEPT ![x] = Append(@, a)]
      /\ updates' = updates \cup {a}
      /\ kids' = kids /\ spawned' = spawned /\ unsynched' = unsynched
      /\ right_reducer_map' = right_reducer_map
      /\ children_reducer_map' = children_reducer_map
      /\ pending_exception' = pending_exception
      /\ right_pending_exception' = right_pending_exception
      /\ child_pending_exception' = child_pending_exception
      /\ join_counter' = join_counter /\ pc' = pc /\ thrown' = thrown
  BY Zenon DEF Update, Running, tree, exceptions
<1>20. pc[x] = "run"
  BY Zenon DEF Update, Running
<1>2. /\ N \in Nat /\ spawned \in 0..N /\ p \in Open /\ p \in Spots /\ a \in 0..(2 * spawned)
      /\ a \in S /\ S \in SUBSET Int /\ p # 0
      /\ x # 0 => x \in Kids /\ p = x /\ p # N + 1
      /\ x = 0 => p = N + 1
      /\ Whole(OwnViews, RightViews, Open)
  BY <1>1, RunFacts, PlaceFacts
<1> HIDE DEF a, p, S
<1>3. /\ reducer_map \in [All -> Seq(S)] /\ \A k \in All : Increasing(reducer_map[k])
      /\ Serial(OwnViews, RightViews, Open, Going)
      /\ Held(OwnViews, RightViews) = updates
      /\ updates \subseteq S /\ \A b \in updates : b <= 2 * spawned
  BY Zenon DEF ReducerInv, TypeOK, MapInv, S
<1>4. /\ OwnViews[p] = Content(reducer_map[x])
      /\ RightViews[N + 1] = {} /\ RightViews' = RightViews
  <2>1. N + 1 \in Spots /\ N + 1 # 0
    BY <1>2 DEF Spots
  <2>2. QED
    BY <1>1, <1>2, <2>1 DEF OwnViews, RightViews
<1>5. \A k \in Spots : (IF k = N + 1 THEN 0 ELSE k) = x /\ k # 0 => k = p
  BY <1>2
<1>6. \A k \in Spots \ {p} : OwnViews'[k] = OwnViews[k]
  BY <1>1, <1>5 DEF OwnViews
<1>7. OwnViews'[p] = Content(Append(reducer_map[x], a))
  BY <1>1, <1>2, <1>3 DEF OwnViews
<1>8. ASSUME \A b \in OwnViews[p] : b < a
      PROVE  /\ Append(reducer_map[x], a) \in Seq(S)
             /\ Content(Append(reducer_map[x], a)) = Content(reducer_map[x]) \cup {a}
             /\ Increasing(Append(reducer_map[x], a))
  <2>1. /\ reducer_map[x] \in Seq(S) /\ Increasing(reducer_map[x])
        /\ a \in S /\ S \in SUBSET Int
    BY <1>2, <1>3
  <2>2. \A b \in Content(reducer_map[x]) : b < a
    BY <1>4, <1>8, Zenon
  <2>3. QED
    BY <2>1, <2>2, ContentAppend
<1>9. \A b \in OwnViews[p] : b < a
  <2> DEFINE own2 == [OwnViews EXCEPT ![p] = @ \cup {a}]
  <2>1. Adds(OwnViews, RightViews, own2, updates, x)
    <3>1. \A k \in Spots \ {p} : own2[k] = OwnViews[k]
      BY Zenon DEF OwnViews
    <3>2. own2[p] = OwnViews[p] \cup {a}
      BY <1>2, Zenon DEF OwnViews
    <3>3. \A b \in updates : b \in Int
      BY <1>2, <1>3
    <3> HIDE DEF own2
    <3>4. QED
      BY <1>1, <1>2, <1>3, <1>4, <3>1, <3>2, Zenon DEF Adds, p, a
  <2> HIDE DEF own2
  <2>2. QED
    BY <1>20, <2>1, StrandFits DEF a, p
<1>10. /\ Serial(OwnViews', RightViews, Open, Going)
       /\ Held(OwnViews', RightViews) = updates \cup {a}
  <2>1. OwnViews'[p] = OwnViews[p] \cup {a}
    BY <1>4, <1>7, <1>8, <1>9
  <2>2. \A b \in updates : b \in Int
    BY <1>2, <1>3
  <2>3. Adds(OwnViews, RightViews, OwnViews', updates, x)
    BY <1>1, <1>2, <1>3, <1>4, <1>6, <2>1, <2>2, Zenon DEF Adds, p, a
  <2>4. QED
    BY <1>1, <1>3, <2>3, StrandFits, Zenon DEF a
<1>11. Open' = Open /\ Going' = Going /\ Active' = Active /\ Linked' = Linked
  BY <1>1 DEF Open, Linked, Going, Active
<1>12. /\ reducer_map' \in [All -> Seq(S)] /\ \A k \in All : Increasing(reducer_map'[k])
  BY <1>1, <1>3, <1>8, <1>9, Zenon
<1>13. MapInv'
  <2>1. \A b \in updates \cup {a} : b <= 2 * spawned
    BY <1>2, <1>3
  <2>2. QED
    BY <1>1, <1>4, <1>10, <1>11, <1>12, <2>1, Zenon DEF ReducerInv, MapInv
<1>14. ThrowInv'
  <2>1. OwnThrows' = OwnThrows /\ RightThrows' = RightThrows
    BY <1>1, Zenon DEF OwnThrows, RightThrows
  <2>2. QED
    BY <1>1, <1>11, <2>1, Zenon DEF ReducerInv, ThrowInv
<1>15. \A k \in All \ {x} : reducer_map'[k] = reducer_map[k]
  BY <1>1, <1>3, Zenon
<1>16. KidsInv'
  <2>1. \A k \in Kids : k \notin Linked => k # x /\ k \in All
    BY <1>1 DEF ReducerInv, KidsInv, Kids, All
  <2>2. QED
    BY <1>1, <1>11, <1>15, <2>1, Zenon DEF ReducerInv, KidsInv
<1>17. ParentInv'
  <2>1. pc[0] \in {"stalled", "waiting"} => 0 # x /\ 0 \in All
    BY <1>1, <1>2 DEF All
  <2>2. Absent' = Absent
    BY <1>1, Zenon DEF Absent
  <2>3. QED
    BY <1>1, <1>11, <1>15, <2>1, <2>2 DEF ReducerInv, ParentInv
<1>18. TypeOK'
  BY <1>1, <1>2, <1>3, <1>12 DEF ReducerInv, TypeOK, S
<1>19. QED
  BY <1>13, <1>14, <1>16, <1>17, <1>18 DEF ReducerInv

\* User code that throws preserves the invariant.
LEMMA ThrowPreserves ==
  ASSUME ReducerInv, NEW x \in All, Throw(x)
  PROVE  ReducerInv'
<1> DEFINE a == Strand(x)
           p == Spot(x)
           S == 0..(2 * N) \cup {None}
<1>1. /\ pc[x] = "run" /\ pending_exception[x] = None
      /\ pending_exception' = [pending_exception EXCEPT ![x] = a]
      /\ thrown' = thrown \cup {a}
      /\ kids' = kids /\ spawned' = spawned /\ unsynched' = unsynched
      /\ reducer_map' = reducer_map
      /\ right_reducer_map' = right_reducer_map
      /\ children_reducer_map' = children_reducer_map
      /\ right_pending_exception' = right_pending_exception
      /\ child_pending_exception' = child_pending_exception
      /\ join_counter' = join_counter /\ pc' = pc /\ updates' = updates
  BY Zenon DEF Throw, Running, tree, maps
<1>20. pc[x] = "run"
  BY Zenon DEF Throw, Running
<1>2. /\ N \in Nat /\ spawned \in 0..N /\ p \in Open /\ p \in Spots /\ a \in 0..(2 * spawned)
      /\ a \in 0..(2 * N) /\ p # 0 /\ None \notin Int
      /\ x # 0 => x \in Kids /\ p = x /\ p # N + 1 /\ a = 2 * x - 1 /\ x \in Going
      /\ x = 0 => p = N + 1 /\ a = 2 * spawned
      /\ Whole(OwnThrows, RightThrows, Open)
      /\ \A g \in Going : g \in Int /\ g \in All
  BY <1>1, RunFacts, PlaceFacts DEF All
<1> HIDE DEF a, p
<1>3. /\ pending_exception \in [All -> S]
      /\ Serial(OwnThrows, RightThrows, Open, Going)
      /\ Held(OwnThrows, RightThrows) \subseteq thrown
      /\ thrown \subseteq 0..(2 * N) /\ \A b \in thrown : b <= 2 * spawned
      /\ \A g \in Going : 2 * g - 1 \in thrown => pending_exception[g] # None
      /\ 2 * spawned \in thrown /\ pc[0] = "run" => pending_exception[0] # None
      /\ thrown # {} => \E e \in Held(OwnThrows, RightThrows) : \A s \in thrown : e <= s
  BY Zenon DEF ReducerInv, TypeOK, ThrowInv
<1>4. a \notin thrown
  BY <1>1, <1>2, <1>3, Zenon
<1>5. /\ OwnThrows[p] = {} /\ RightThrows[N + 1] = {} /\ RightThrows' = RightThrows
  <2>1. N + 1 \in Spots /\ N + 1 # 0
    BY <1>2 DEF Spots
  <2>2. QED
    BY <1>1, <1>2, <2>1 DEF OwnThrows, RightThrows
<1>6. \A k \in Spots : (IF k = N + 1 THEN 0 ELSE k) = x /\ k # 0 => k = p
  BY <1>2
<1>7. \A k \in Spots \ {p} : OwnThrows'[k] = OwnThrows[k]
  <2>1. \A k \in Spots \ {p} : /\ k # 0 => (IF k = N + 1 THEN 0 ELSE k) \in All
                               /\ k # 0 => (IF k = N + 1 THEN 0 ELSE k) # x
    BY <1>2, <1>6 DEF Spots, All
  <2>2. \A j \in All : j # x => pending_exception'[j] = pending_exception[j]
    BY <1>1, <1>3
  <2>3. QED
    BY <2>1, <2>2 DEF OwnThrows
<1>8. OwnThrows'[p] = OwnThrows[p] \cup {a}
  <2>1. OwnThrows'[p] = {a} \ {None} /\ a # None
    BY <1>1, <1>2, <1>3 DEF OwnThrows
  <2>2. QED
    BY <1>5, <2>1, Zenon
<1>9. /\ Serial(OwnThrows', RightThrows, Open, Going)
      /\ Held(OwnThrows', RightThrows) = Held(OwnThrows, RightThrows) \cup {a}
  <2>1. Adds(OwnThrows, RightThrows, OwnThrows', thrown, x)
    BY <1>2, <1>3, <1>4, <1>5, <1>7, <1>8 DEF Adds, p, a
  <2>2. QED
    BY <1>20, <2>1, StrandFits, Zenon DEF a
<1>10. Open' = Open /\ Going' = Going /\ Active' = Active /\ Linked' = Linked
  BY <1>1, Zenon DEF Open, Linked, Going, Active
<1>11. /\ pending_exception' \in [All -> S] /\ pending_exception'[x] # None
       /\ \A k \in All \ {x} : pending_exception'[k] = pending_exception[k]
  BY <1>1, <1>2, <1>3
<1>12. ThrowInv'
  <2>1. \E e \in Held(OwnThrows', RightThrows) : \A s \in thrown' : e <= s
    <3>1. CASE thrown = {}
      <4>1. a \in Held(OwnThrows', RightThrows) /\ thrown' = {a}
        BY <1>1, <1>9, <3>1
      <4>2. \A s \in thrown' : a <= s
        BY <1>2, <4>1
      <4>3. QED
        BY <4>1, <4>2
    <3>2. CASE thrown # {}
      <4>1. PICK e \in Held(OwnThrows, RightThrows) : \A s \in thrown : e <= s
        BY <1>3, <3>2
      <4>2. e \in Int /\ a \in Int /\ \A s \in thrown : s \in Int
        <5>1. e \in thrown
          BY <1>3
        <5>2. 0..(2 * N) \subseteq Int /\ a \in Int
          BY <1>2
        <5>3. QED
          BY <1>3, <5>1, <5>2
      <4>3. CASE e <= a
        BY <1>1, <1>9, <4>1, <4>3
      <4>4. CASE a < e
        <5>1. \A s \in thrown' : a <= s
          BY <1>1, <4>1, <4>2, <4>4
        <5>2. QED
          BY <1>9, <5>1, Zenon
      <4>5. QED
        BY <4>2, <4>3, <4>4
    <3>3. QED
      BY <3>1, <3>2
  <2>2. \A g \in Going : 2 * g - 1 \in thrown' => pending_exception'[g] # None
    BY <1>1, <1>2, <1>3
  <2>3. 2 * spawned \in thrown' /\ pc[0] = "run" => pending_exception'[0] # None
    BY <1>1, <1>2, <1>3
  <2>4. /\ Held(OwnThrows', RightThrows) \subseteq thrown'
        /\ \A b \in thrown' : b <= 2 * spawned
    BY <1>1, <1>2, <1>3, <1>9
  <2>5. QED
    <3>1. /\ Serial(OwnThrows', RightThrows', Open', Going')
          /\ Held(OwnThrows', RightThrows') \subseteq thrown'
          /\ \E e \in Held(OwnThrows', RightThrows') : \A s \in thrown' : e <= s
      BY <1>5, <1>9, <1>10, <2>1, <2>4, Zenon
    <3>2. QED
      BY <1>1, <1>10, <2>2, <2>3, <2>4, <3>1, Zenon DEF ThrowInv, Held
<1>13. MapInv'
  <2>1. OwnViews' = OwnViews /\ RightViews' = RightViews
    BY <1>1, Zenon DEF OwnViews, RightViews
  <2>2. QED
    BY <1>1, <1>10, <2>1, Zenon DEF ReducerInv, MapInv, Held
<1>14. KidsInv'
  <2>1. \A k \in Kids : k \notin Linked => k # x /\ k \in All
    <3>1. \A k \in Kids : k \in Linked <=> pc[k] \in {"run", "slow"}
      BY Zenon DEF ReducerInv, KidsInv
    <3>2. QED
      BY <1>20, <3>1 DEF Kids, All
  <2>2. QED
    BY <1>1, <1>10, <1>11, <2>1, Zenon DEF ReducerInv, KidsInv
<1>15. ParentInv'
  <2>1. pc[0] \in {"stalled", "waiting"} => 0 # x /\ 0 \in All
    BY <1>1, <1>2 DEF All
  <2>2. Absent' = Absent
    BY <1>1 DEF Absent
  <2>3. QED
    BY <1>1, <1>10, <1>11, <2>1, <2>2 DEF ReducerInv, ParentInv
<1>16. TypeOK'
  BY <1>1, <1>2, <1>3, <1>11, Zenon DEF ReducerInv, TypeOK
<1>17. QED
  BY <1>12, <1>13, <1>14, <1>15, <1>16, Zenon DEF ReducerInv

\* A worker that reaches the sync with nothing to deposit preserves the invariant.
LEMMA SyncFastPathPreserves ==
  ASSUME ReducerInv, SyncFastPath
  PROVE  ReducerInv'
<1>1. /\ pc[0] = "run" /\ unsynched /\ pc' = [pc EXCEPT ![0] = "stalled"]
      /\ reducer_map[0] = <<>> /\ pending_exception[0] = None
      /\ kids' = kids /\ spawned' = spawned /\ unsynched' = unsynched
      /\ reducer_map' = reducer_map
      /\ right_reducer_map' = right_reducer_map
      /\ children_reducer_map' = children_reducer_map
      /\ pending_exception' = pending_exception
      /\ right_pending_exception' = right_pending_exception
      /\ child_pending_exception' = child_pending_exception
      /\ join_counter' = join_counter /\ updates' = updates /\ thrown' = thrown
  BY Zenon DEF SyncFastPath, Goto, tree, maps, exceptions, history
<1>2. 0 \in All /\ \A k \in Kids : k \in All /\ k # 0
  BY PlaceFacts DEF All, Kids
<1>3. pc \in [All -> {"new", "run", "slow", "stalled", "waiting", "spliced", "done"}]
  BY DEF ReducerInv, TypeOK
<1>4. pc'[0] = "stalled" /\ \A k \in Kids : pc'[k] = pc[k]
  BY <1>1, <1>2, <1>3, Zenon
<1>5. /\ Open' = Open /\ Going' = Going /\ Active' = Active /\ Linked' = Linked
      /\ OwnThrows' = OwnThrows /\ RightThrows' = RightThrows
      /\ OwnViews' = OwnViews /\ RightViews' = RightViews
  <2>1. Open' = Open /\ Going' = Going /\ Active' = Active /\ Linked' = Linked
    BY <1>1, <1>4 DEF Open, Linked, Going, Active
  <2>2. OwnThrows' = OwnThrows /\ RightThrows' = RightThrows
    BY <1>1, Zenon DEF OwnThrows, RightThrows
  <2>3. OwnViews' = OwnViews /\ RightViews' = RightViews
    BY <1>1, Zenon DEF OwnViews, RightViews
  <2>4. QED
    BY <2>1, <2>2, <2>3
<1>6. TypeOK'
  BY <1>1, <1>3, Zenon DEF ReducerInv, TypeOK
<1>7. KidsInv'
  BY <1>1, <1>4, <1>5, Zenon DEF ReducerInv, KidsInv
<1>8. ParentInv'
  BY <1>1, <1>4, <1>5 DEF ReducerInv, ParentInv
<1>9. MapInv'
  <2>1. /\ reducer_map' = reducer_map /\ right_reducer_map' = right_reducer_map
        /\ children_reducer_map' = children_reducer_map
        /\ spawned' = spawned /\ updates' = updates
    BY <1>1
  <2>2. QED
    BY <1>5, <2>1, Zenon DEF ReducerInv, MapInv
<1>10. ThrowInv'
  BY <1>1, <1>4, <1>5 DEF ReducerInv, ThrowInv, Held
<1>11. QED
  BY <1>6, <1>7, <1>8, <1>9, <1>10 DEF ReducerInv
=============================================================================
