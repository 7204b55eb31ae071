--------------------------- MODULE ReducerProofs ----------------------------
(***************************************************************************)
(* Proof that the reducer protocol combines the views of any number of     *)
(* stolen children in serial order, loses none, and keeps the exception a  *)
(* serial execution would have thrown first.                               *)
(***************************************************************************)
EXTENDS ReducerSteps

-----------------------------------------------------------------------------
(***************************************************************************)
(* The join counter: a steal, and an arrival at the sync.                  *)
(***************************************************************************)
LEMMA SpawnPreserves ==
  ASSUME ReducerInv, StolenSpawn
  PROVE  ReducerInv'
<1> DEFINE k == spawned + 1
           n == N + 1
           S == 0..(2 * N)
           PC == {"new", "run", "slow", "stalled", "waiting", "spliced", "done"}
<1>1. /\ pc[0] = "run" /\ pending_exception[0] = None /\ spawned < N
      /\ spawned' = k /\ kids' = Append(kids, k)
      /\ reducer_map' = [reducer_map EXCEPT ![0] = <<>>, ![k] = reducer_map[0]]
      /\ unsynched' = TRUE /\ join_counter' = join_counter + 1
      /\ pc' = [pc EXCEPT ![k] = "run"]
      /\ right_reducer_map' = right_reducer_map
      /\ children_reducer_map' = children_reducer_map
      /\ pending_exception' = pending_exception
      /\ right_pending_exception' = right_pending_exception
      /\ child_pending_exception' = child_pending_exception
      /\ updates' = updates /\ thrown' = thrown
  BY DEF StolenSpawn, Running, Goto, exceptions, history
<1>2. /\ N \in Nat /\ spawned \in 0..N /\ None \notin Int
      /\ kids \in Seq(Kids) /\ pc \in [All -> PC] /\ reducer_map \in [All -> Seq(S)]
      /\ pending_exception \in [All -> S \cup {None}]
      /\ Open \subseteq Spots /\ Going \subseteq Open /\ Linked \subseteq 1..N
      /\ n \in Open /\ n \in Spots /\ n \notin Going /\ n # 0
  BY PlaceFacts, SyncFacts, Zenon DEF ReducerInv, TypeOK
<1>3. /\ k \in Kids /\ k \in All /\ k # 0 /\ k \in Int /\ k \in 1..N /\ k < n /\ k \in Spots
      /\ 0 \in All /\ (\A j \in Kids : j \in All /\ j # 0)
      /\ \A j \in Spots : j = 0 \/ j = n \/ j \in Kids
  BY <1>1, <1>2 DEF Kids, All, Spots
<1>4. /\ pc[k] = "new" /\ k \notin Linked
      /\ \A j \in Linked : j < k
      /\ reducer_map[k] = <<>> /\ right_reducer_map[k] = <<>>
      /\ pending_exception[k] = None /\ right_pending_exception[k] = None
  <2>1. pc[k] = "new"
    BY <1>2, <1>3 DEF ReducerInv, KidsInv
  <2>2. k \notin Linked
    BY <1>3, <2>1 DEF ReducerInv, KidsInv
  <2>3. \A j \in Linked : j \in Kids /\ pc[j] # "new"
    BY <1>2, Zenon DEF ReducerInv, KidsInv, Kids
  <2>4. \A j \in Linked : j < k
    BY <1>2, <2>3 DEF ReducerInv, KidsInv
  <2>5. QED
    BY <1>3, <2>1, <2>2, <2>4 DEF ReducerInv, KidsInv
<1>5. kids' \in Seq(Kids) /\ Linked' = Linked \cup {k} /\ Increasing(kids')
  <2>1. Kids \in SUBSET Int
    BY DEF Kids
  <2>2. Increasing(kids) /\ \A j \in Content(kids) : j < k
    BY <1>4 DEF ReducerInv, KidsInv, Linked
  <2> HIDE DEF k
  <2>3. QED
    BY <1>1, <1>2, <1>3, <2>1, <2>2, ContentAppend DEF Linked
<1>6. /\ pc' \in [All -> PC] /\ pc'[k] = "run" /\ pc'[0] = "run"
      /\ \A j \in All \ {k} : pc'[j] = pc[j]
  BY <1>1, <1>2, <1>3
<1>7. /\ reducer_map' \in [All -> Seq(S)] /\ reducer_map'[0] = <<>>
      /\ reducer_map'[k] = reducer_map[0]
      /\ \A j \in All \ {0, k} : reducer_map'[j] = reducer_map[j]
  <2> HIDE DEF k, S
  <2>1. <<>> \in Seq(S) /\ reducer_map[0] \in Seq(S)
    BY <1>2, <1>3
  <2>2. QED
    BY <1>1, <1>2, <1>3, <2>1, Zenon
<1> HIDE DEF k, PC, S
<1>8. /\ Going' = Going \cup {k} /\ Open' = Open \cup {k} /\ k \notin Open
      /\ Active' = Active \cup {k} /\ k \notin Active
  <2>1. k \notin Open
    BY <1>3, <1>4 DEF Open
  <2>2. QED
    BY <1>3, <1>4, <1>5, <1>6, <2>1, Zenon DEF Going, Open, Active
<1>9. KidsInv'
  <2>1. \A j \in Kids : /\ j \in Linked' <=> pc'[j] \in {"run", "slow"}
                        /\ j > spawned' <=> pc'[j] = "new"
    <3> TAKE j \in Kids
    <3>1. CASE j = k
      BY <1>1, <1>3, <1>5, <1>6, <3>1
    <3>2. CASE j # k
      <4>1. j > spawned <=> j > k
        BY <1>2, <1>3, <3>2 DEF Kids, k
      <4>2. QED
        BY <1>1, <1>3, <1>5, <1>6, <3>2, <4>1 DEF ReducerInv, KidsInv
    <3>3. QED
      BY <3>1, <3>2
  <2>2. QED
    BY <1>1, <1>3, <1>5, <1>7, <2>1 DEF ReducerInv, KidsInv
<1>10. ParentInv' /\ join_counter' \in 1..(N + 1)
  <2>1. Absent = join_counter - 1 /\ Absent \in 0..spawned /\ Enumerated(Active, Absent)
    BY <1>1 DEF Absent, ReducerInv, ParentInv
  <2>2. Absent' = Absent + 1
    BY <1>1, <1>2, <1>6, <2>1 DEF Absent, ReducerInv, TypeOK
  <2>3. Enumerated(Active', Absent')
    <3> DEFINE A == Active
               c == Absent
    <3>1. c \in Nat /\ Enumerated(A, c) /\ k \notin A
      BY <1>2, <1>8, <2>1
    <3> HIDE DEF A, c
    <3>2. Enumerated(A \cup {k}, c + 1)
      BY <3>1, Counting
    <3>3. QED
      BY <1>8, <2>2, <3>2 DEF A, c
  <2>4. Absent' \in 0..spawned' /\ join_counter' \in 1..(N + 1)
    <3>1. join_counter \in Int /\ join_counter' = join_counter + 1 /\ spawned' = spawned + 1
      BY <1>1, <1>2 DEF k, ReducerInv, TypeOK
    <3>2. spawned \in Nat /\ spawned + 1 <= N
      BY <1>2, <1>3 DEF k, Kids
    <3>3. QED
      BY <1>2, <2>1, <2>2, <3>1, <3>2
  <2>5. \A j \in Kids : pc'[j] \in {"new", "run", "slow", "spliced", "done"}
    BY <1>3, <1>6 DEF ReducerInv, ParentInv
  <2>6. QED
    BY <1>1, <1>6, <2>3, <2>4, <2>5 DEF ReducerInv, ParentInv
<1>11. /\ n \in Open /\ k \in Int \ Open /\ k < n /\ n \notin Going /\ Going \subseteq Open
       /\ \A j \in Open \ {n} : j < k
  BY <1>2, <1>3, <1>4, <1>8 DEF Open, Kids
<1>12. MapInv'
  <2>1. /\ \A j \in Spots \ {n, k} : OwnViews'[j] = OwnViews[j]
        /\ \A j \in Spots : RightViews'[j] = RightViews[j]
        /\ OwnViews'[k] = OwnViews[n] /\ OwnViews'[n] = {}
        /\ OwnViews[k] = {} /\ RightViews[k] = {} /\ RightViews[n] = {}
    <3>1. /\ \A j \in Spots \ {n, k} : OwnViews'[j] = OwnViews[j]
      BY <1>2, <1>3, <1>7 DEF OwnViews
    <3>2. \A j \in Spots : RightViews'[j] = RightViews[j]
      BY <1>1 DEF RightViews
    <3>3. OwnViews'[k] = OwnViews[n] /\ OwnViews'[n] = {} /\ OwnViews[k] = {}
      BY <1>2, <1>3, <1>4, <1>7, ContentEmpty DEF OwnViews
    <3>4. RightViews[k] = {} /\ RightViews[n] = {}
      BY <1>2, <1>3, <1>4, ContentEmpty DEF RightViews
    <3>5. QED
      BY <3>1, <3>2, <3>3, <3>4
  <2>2. /\ Whole(OwnViews, RightViews, Open) /\ Serial(OwnViews, RightViews, Open, Going)
        /\ Held(OwnViews, RightViews) = updates /\ \A a \in updates : a <= 2 * spawned
        /\ updates \subseteq Int
    BY PlaceFacts DEF ReducerInv, MapInv, TypeOK
  <2>3. \A j \in Open : \A a \in OwnViews[j] \cup RightViews[j] : a < 2 * k - 1
    <3>1. \A j \in Spots : OwnViews[j] \cup RightViews[j] \subseteq updates
      BY <2>2 DEF Held
    <3>2. \A a \in updates : a < 2 * k - 1
      BY <1>2, <2>2 DEF k
    <3>3. QED
      BY <1>2, <3>1, <3>2
  <2>4. Insert(OwnViews, RightViews, Open, Going, OwnViews', RightViews', k, n)
    <3>1. \A j \in Open \ {n} : OwnViews'[j] = OwnViews[j] /\ RightViews'[j] = RightViews[j]
      BY <1>2, <1>8, <2>1
    <3>2. RightViews'[k] = {} /\ RightViews'[n] = {}
      BY <1>2, <1>3, <2>1, Zenon
    <3>3. QED
      BY <1>11, <2>1, <2>2, <2>3, <3>1, <3>2 DEF Insert
  <2>5. Serial(OwnViews', RightViews', Open', Going')
    BY <1>8, <2>4, SerialSpawn
  <2>6. Held(OwnViews', RightViews') = updates
    <3>1. ASSUME NEW b
          PROVE  b \in Held(OwnViews', RightViews') <=> b \in Held(OwnViews, RightViews)
      <4>1. /\ b \in Held(OwnViews', RightViews') <=>
                 \E j \in Spots : b \in OwnViews'[j] \/ b \in RightViews'[j]
            /\ b \in Held(OwnViews, RightViews) <=>
                 \E j \in Spots : b \in OwnViews[j] \/ b \in RightViews[j]
        BY DEF Held
      <4>2. ASSUME NEW j \in Spots, b \in OwnViews'[j] \/ b \in RightViews'[j]
            PROVE  \E h \in Spots : b \in OwnViews[h] \/ b \in RightViews[h]
        BY <1>2, <1>3, <2>1, <4>2, Zenon
      <4>3. ASSUME NEW j \in Spots, b \in OwnViews[j] \/ b \in RightViews[j]
            PROVE  \E h \in Spots : b \in OwnViews'[h] \/ b \in RightViews'[h]
        BY <1>2, <1>3, <2>1, <4>3, Zenon
      <4>4. QED
        BY <4>1, <4>2, <4>3
    <3>2. QED
      BY <2>2, <3>1
  <2>7. \A j \in All : Increasing(reducer_map'[j])
    BY <1>3, <1>7, ContentEmpty DEF ReducerInv, MapInv
  <2>8. \A a \in updates : a <= 2 * spawned'
    BY <1>1, <1>2, <2>2 DEF k
  <2>9. QED
    BY <1>1, <2>5, <2>6, <2>7, <2>8, Zenon DEF ReducerInv, MapInv, Held
<1>13. ThrowInv'
  <2>1. /\ OwnThrows' = OwnThrows /\ RightThrows' = RightThrows
        /\ OwnThrows[n] = {} /\ OwnThrows[k] = {} /\ RightThrows[k] = {} /\ RightThrows[n] = {}
    BY <1>1, <1>2, <1>3, <1>4 DEF OwnThrows, RightThrows
  <2>2. /\ Whole(OwnThrows, RightThrows, Open) /\ Serial(OwnThrows, RightThrows, Open, Going)
        /\ Held(OwnThrows, RightThrows) \subseteq thrown /\ \A a \in thrown : a <= 2 * spawned
        /\ thrown \subseteq Int
    BY PlaceFacts DEF ReducerInv, ThrowInv, TypeOK
  <2>3. \A a \in thrown : a < 2 * k - 1 /\ a # 2 * spawned' /\ a <= 2 * spawned'
    BY <1>1, <1>2, <2>2 DEF k
  <2>4. \A j \in Open : \A a \in OwnThrows[j] \cup RightThrows[j] : a < 2 * k - 1
    <3>1. \A j \in Spots : OwnThrows[j] \cup RightThrows[j] \subseteq thrown
      BY <2>2, Zenon DEF Held
    <3>2. QED
      BY <1>2, <2>3, <3>1
  <2>5. Insert(OwnThrows, RightThrows, Open, Going, OwnThrows, RightThrows, k, n)
    BY <1>11, <2>1, <2>2, <2>4 DEF Insert
  <2>6. Serial(OwnThrows, RightThrows, Open', Going')
    BY <1>8, <2>5, SerialSpawn
  <2>7. \A g \in Going' : 2 * g - 1 \in thrown => pending_exception[g] # None
    BY <1>2, <1>3, <1>8, <2>3 DEF ReducerInv, ThrowInv
  <2>8. QED
    BY <1>1, <2>1, <2>3, <2>6, <2>7 DEF ReducerInv, ThrowInv, Held
<1>14. TypeOK'
  <2>1. spawned' \in 0..N
    BY <1>1, <1>2, <1>3
  <2>2. /\ right_reducer_map' \in [Kids -> Seq(S)] /\ children_reducer_map' \in Seq(S)
        /\ pending_exception' \in [All -> S \cup {None}]
        /\ right_pending_exception' \in [Kids -> S \cup {None}]
        /\ child_pending_exception' \in S \cup {None}
        /\ updates' \subseteq S /\ thrown' \subseteq S /\ unsynched' \in BOOLEAN
    BY <1>1 DEF ReducerInv, TypeOK, S
  <2>3. QED
    BY <1>5, <1>6, <1>7, <1>10, <2>1, <2>2 DEF TypeOK, PC, S
<1>15. QED
  BY <1>9, <1>10, <1>12, <1>13, <1>14 DEF ReducerInv

\* Only the first place and the last place, n, hold anything.
AtEnds(own, right, n) ==
  /\ n = N + 1 /\ n \in Spots /\ 0 \in Spots
  /\ \A j \in Spots \ {0, n} : own[j] = {} /\ right[j] = {}

\* What the places hold when the children hold nothing.
LEMMA HeldAtEnds ==
  ASSUME NEW own, NEW right, NEW n, AtEnds(own, right, n)
  PROVE  Held(own, right) = own[0] \cup right[0] \cup own[n] \cup right[n]
<1>1. ASSUME NEW a
      PROVE  a \in Held(own, right) <=> a \in own[0] \cup right[0] \cup own[n] \cup right[n]
  <2>1. a \in Held(own, right) <=> \E j \in Spots : a \in own[j] \/ a \in right[j]
    BY DEF Held
  <2>2. QED
    BY <2>1, Zenon DEF AtEnds
<1>2. QED
  BY <1>1

\* Nothing is held by children that are not linked.
LEMMA OnlyEnds ==
  ASSUME ReducerInv, Linked = {}
  PROVE  /\ Open = {0, N + 1} /\ Going = {} /\ N + 1 # 0
         /\ \A j \in Spots \ {0, N + 1} : /\ OwnViews[j] = {} /\ RightViews[j] = {}
                                          /\ OwnThrows[j] = {} /\ RightThrows[j] = {}
         /\ OwnViews[0] = {} /\ RightViews[N + 1] = {}
         /\ OwnThrows[0] = {} /\ RightThrows[N + 1] = {}
         /\ OwnViews[N + 1] = Content(reducer_map[0])
         /\ RightViews[0] = Content(children_reducer_map)
         /\ OwnThrows[N + 1] = {pending_exception[0]} \ {None}
         /\ RightThrows[0] = {child_pending_exception} \ {None}
         /\ Held(OwnViews, RightViews) = OwnViews[N + 1] \cup RightViews[0]
         /\ Held(OwnThrows, RightThrows) = OwnThrows[N + 1] \cup RightThrows[0]
<1>1. N \in Nat /\ Going \subseteq Linked /\ 0 \in Spots /\ N + 1 \in Spots /\ N + 1 # 0
  BY PlaceFacts DEF Spots
<1>2. \A j \in Spots \ {0, N + 1} : j \in Kids
  BY <1>1 DEF Spots, Kids
<1>3. \A j \in Kids : /\ reducer_map[j] = <<>> /\ right_reducer_map[j] = <<>>
                      /\ pending_exception[j] = None /\ right_pending_exception[j] = None
  BY DEF ReducerInv, KidsInv
<1>4. \A j \in Spots \ {0, N + 1} : /\ OwnViews[j] = {} /\ RightViews[j] = {}
                                    /\ OwnThrows[j] = {} /\ RightThrows[j] = {}
  BY <1>2, <1>3, ContentEmpty DEF OwnViews, RightViews, OwnThrows, RightThrows
<1>5. /\ OwnViews[0] = {} /\ RightViews[N + 1] = {}
      /\ OwnThrows[0] = {} /\ RightThrows[N + 1] = {}
      /\ OwnViews[N + 1] = Content(reducer_map[0])
      /\ RightViews[0] = Content(children_reducer_map)
      /\ OwnThrows[N + 1] = {pending_exception[0]} \ {None}
      /\ RightThrows[0] = {child_pending_exception} \ {None}
  BY <1>1 DEF OwnViews, RightViews, OwnThrows, RightThrows
<1>6. /\ Held(OwnViews, RightViews) = OwnViews[N + 1] \cup RightViews[0]
      /\ Held(OwnThrows, RightThrows) = OwnThrows[N + 1] \cup RightThrows[0]
  <2>1. AtEnds(OwnViews, RightViews, N + 1) /\ AtEnds(OwnThrows, RightThrows, N + 1)
    BY <1>1, <1>4, Zenon DEF AtEnds
  <2>2. /\ Held(OwnViews, RightViews)
             = OwnViews[0] \cup RightViews[0] \cup OwnViews[N + 1] \cup RightViews[N + 1]
        /\ Held(OwnThrows, RightThrows)
             = OwnThrows[0] \cup RightThrows[0] \cup OwnThrows[N + 1] \cup RightThrows[N + 1]
    BY <2>1, HeldAtEnds
  <2>3. QED
    BY <1>5, <2>2
<1>7. QED
  BY <1>1, <1>4, <1>5, <1>6 DEF Open

\* Arriving at the sync preserves the invariant: the last to arrive installs what
\* the children left, the others only count down.
LEMMA ArrivePreserves ==
  ASSUME ReducerInv, NEW x \in All, Arrive(x)
  PROVE  ReducerInv'
<1> DEFINE n == N + 1
           S == 0..(2 * N)
           PC == {"new", "run", "slow", "stalled", "waiting", "spliced", "done"}
<1>1. /\ pc[x] = IF x = 0 THEN "stalled" ELSE "spliced"
      /\ spawned' = spawned /\ kids' = kids
      /\ right_reducer_map' = right_reducer_map
      /\ right_pending_exception' = right_pending_exception
      /\ updates' = updates /\ thrown' = thrown
  BY DEF Arrive, history
<1>2. /\ N \in Nat /\ pc \in [All -> PC] /\ reducer_map \in [All -> Seq(S)]
      /\ pending_exception \in [All -> S \cup {None}] /\ children_reducer_map \in Seq(S)
      /\ child_pending_exception \in S \cup {None} /\ unsynched \in BOOLEAN
      /\ join_counter \in 1..(N + 1) /\ None \notin Int
  <2>1. N \in Nat /\ None \notin Int
    BY PlaceFacts, Zenon
  <2>2. QED
    BY <2>1, Zenon DEF ReducerInv, TypeOK
<1>3. /\ 0 \in All /\ (\A j \in Kids : j \in All /\ j # 0) /\ (x # 0 => x \in Kids)
  BY <1>2 DEF All, Kids
<1> DEFINE A == Active
           c == Absent
<1>4. /\ (x # 0 => x \in A) /\ c \in Nat /\ c <= spawned /\ Enumerated(A, c)
      /\ join_counter = c + (IF pc[0] = "waiting" THEN 0 ELSE 1) /\ spawned \in 0..N
  <2>1. c \in 0..spawned /\ Enumerated(A, c) /\ spawned \in 0..N
    BY DEF ReducerInv, ParentInv, TypeOK
  <2>2. x # 0 => x \in A
    BY <1>1, <1>3 DEF Active
  <2>3. join_counter = c + (IF pc[0] = "waiting" THEN 0 ELSE 1)
    BY <1>2 DEF Absent
  <2>4. QED
    BY <1>2, <2>1, <2>2, <2>3
<1>5. /\ c = 0 <=> A = {}
      /\ x # 0 => /\ Enumerated(A \ {x}, c - 1) /\ c - 1 \in Nat
                  /\ c = 1 => A \ {x} = {}
  <2> HIDE DEF A, c
  <2>1. QED
    BY <1>4, Counting, Zenon
<1>6. unsynched = TRUE
  BY <1>1, <1>2, <1>4 DEF ReducerInv, ParentInv
<1>7. Linked' = Linked
  BY <1>1 DEF Linked
<1> HIDE DEF S, PC
<1>8. CASE ~LastArrival
  <2>1. /\ join_counter' = join_counter - 1
        /\ pc' = [pc EXCEPT ![x] = IF x = 0 THEN "waiting" ELSE "done"]
        /\ unsynched' = unsynched /\ reducer_map' = reducer_map
        /\ children_reducer_map' = children_reducer_map
        /\ pending_exception' = pending_exception
        /\ child_pending_exception' = child_pending_exception
    BY <1>8 DEF Arrive, Goto
  <2>2. /\ pc' \in [All -> PC] /\ pc'[x] = IF x = 0 THEN "waiting" ELSE "done"
        /\ \A j \in All \ {x} : pc'[j] = pc[j]
    BY <1>2, <2>1 DEF PC
  <2>3. join_counter' \in 1..(N + 1)
    BY <1>2, <1>8, <2>1 DEF LastArrival
  <2>4. Active' = IF x = 0 THEN Active ELSE Active \ {x}
    BY <1>3, <1>4, <2>2 DEF Active
  <2>5. Absent' \in 0..spawned' /\ Enumerated(Active', Absent')
    <3>1. CASE x = 0
      <4>1. Absent' = c /\ Active' = A
        BY <1>1, <1>2, <1>4, <2>1, <2>2, <2>4, <3>1 DEF Absent
      <4> HIDE DEF A, c
      <4>2. QED
        BY <1>1, <1>4, <4>1
    <3>2. CASE x # 0
      <4>1. pc'[0] = pc[0]
        BY <1>3, <2>2, <3>2
      <4>2. Absent' = c - 1 /\ Active' = A \ {x}
        BY <1>2, <2>1, <2>4, <3>2, <4>1 DEF Absent
      <4> HIDE DEF A, c
      <4>3. QED
        BY <1>1, <1>4, <1>5, <3>2, <4>2
    <3>3. QED
      BY <3>1, <3>2
  <2>6. KidsInv'
    BY <1>1, <1>3, <1>7, <2>1, <2>2 DEF ReducerInv, KidsInv
  <2>7. ParentInv'
    <3>1. /\ pc'[0] \in {"run", "slow", "stalled", "waiting"}
          /\ \A i \in Kids : pc'[i] \in {"new", "run", "slow", "spliced", "done"}
      BY <1>3, <2>2 DEF ReducerInv, ParentInv
    <3>2. pc'[0] \in {"stalled", "waiting"} =>
             reducer_map[0] = <<>> /\ pending_exception[0] = None
      BY <1>1, <1>3, <2>2, Zenon DEF ReducerInv, ParentInv
    <3>3. QED
      BY <1>6, <2>1, <2>5, <3>1, <3>2 DEF ParentInv
  <2>8. Going' = Going /\ Open' = Open
    BY <1>1, <1>3, <1>7, <2>2 DEF Going, Open
  <2>9. MapInv'
    <3>1. OwnViews' = OwnViews /\ RightViews' = RightViews
      BY <1>1, <2>1 DEF OwnViews, RightViews
    <3>2. QED
      BY <1>1, <2>1, <2>8, <3>1 DEF ReducerInv, MapInv, Held
  <2>10. ThrowInv'
    <3>1. OwnThrows' = OwnThrows /\ RightThrows' = RightThrows
      BY <1>1, <2>1 DEF OwnThrows, RightThrows
    <3>2. pc'[0] = "run" => pc[0] = "run"
      BY <1>3, <2>2
    <3>3. QED
      BY <1>1, <2>1, <2>8, <3>1, <3>2, Zenon DEF ReducerInv, ThrowInv, Held
  <2>11. TypeOK'
    BY <1>1, <2>1, <2>2, <2>3, Zenon DEF ReducerInv, TypeOK, PC
  <2>12. QED
    BY <2>6, <2>7, <2>9, <2>10, <2>11 DEF ReducerInv
<1>9. CASE LastArrival
  <2> DEFINE e == MergeExceptions(child_pending_exception, pending_exception[0])
             m == IF children_reducer_map # <<>> THEN children_reducer_map ELSE reducer_map[0]
  <2>1. /\ unsynched' = FALSE
        /\ pending_exception' = [pending_exception EXCEPT ![0] = e]
        /\ child_pending_exception' = None
        /\ reducer_map' = [reducer_map EXCEPT ![0] = m]
        /\ children_reducer_map' = <<>>
        /\ pc' = [pc EXCEPT ![x] = "done", ![0] = "run"]
        /\ join_counter' = join_counter /\ join_counter = 1
    BY <1>9 DEF Arrive, LastArrival
  <2>2. /\ pc' \in [All -> PC] /\ pc'[0] = "run" /\ (x # 0 => pc'[x] = "done")
        /\ \A j \in All \ {0, x} : pc'[j] = pc[j]
    BY <1>2, <1>3, <2>1 DEF PC
  <2>3. pc[0] \in {"stalled", "waiting"} /\ Active \ {x} = {}
    <3>1. CASE x = 0
      BY <1>1, <1>4, <1>5, <2>1, <3>1
    <3>2. CASE x # 0
      <4>1. c # 0
        BY <1>4, <1>5, <3>2
      <4> HIDE DEF A, c
      <4>2. pc[0] = "waiting" /\ c = 1
        BY <1>4, <2>1, <4>1
      <4>3. QED
        BY <1>5, <3>2, <4>2 DEF A
    <3>3. QED
      BY <3>1, <3>2
  <2>4. reducer_map[0] = <<>> /\ pending_exception[0] = None
    BY <2>3 DEF ReducerInv, ParentInv
  <2>5. m = children_reducer_map /\ e = child_pending_exception
    BY <2>4 DEF MergeExceptions
  <2> HIDE DEF m, e
  <2>6. Linked = {}
    <3>1. \A j \in Linked : j \in Kids /\ pc[j] \in {"run", "slow"}
      BY PlaceFacts DEF ReducerInv, KidsInv, Kids
    <3>2. \A j \in Linked : j \in Active /\ j # x
      BY <1>1, <1>3, <3>1 DEF Active
    <3>3. QED
      BY <2>3, <3>2
  <2>7. Active' = {}
    BY <1>3, <2>2, <2>3 DEF Active
  <2>8. Absent' = 0 /\ Enumerated(Active', 0) /\ Absent' \in 0..spawned'
    <3>1. Absent' = 0
      BY <2>1, <2>2 DEF Absent
    <3>2. Enumerated({}, 0)
      BY NothingCounts
    <3>3. QED
      BY <1>1, <1>4, <2>7, <3>1, <3>2
  <2>9. Going' = {} /\ Open' = {0, n}
    <3>1. Going' \subseteq Active'
      BY DEF Going, Active
    <3>2. QED
      BY <1>7, <2>6, <2>7, <3>1 DEF Open
  <2>10. /\ reducer_map' \in [All -> Seq(S)] /\ reducer_map'[0] = children_reducer_map
         /\ \A j \in All \ {0} : reducer_map'[j] = reducer_map[j]
         /\ pending_exception' \in [All -> S \cup {None}]
         /\ pending_exception'[0] = child_pending_exception
         /\ \A j \in All \ {0} : pending_exception'[j] = pending_exception[j]
    BY <1>2, <1>3, <2>1, <2>5
  <2>11. KidsInv'
    BY <1>1, <1>3, <1>7, <2>1, <2>2, <2>6, <2>10 DEF ReducerInv, KidsInv
  <2>12. ParentInv'
    <3>1. \A i \in Kids : pc'[i] \in {"new", "run", "slow", "spliced", "done"}
      BY <1>3, <2>2 DEF ReducerInv, ParentInv
    <3>2. QED
      BY <2>1, <2>2, <2>7, <2>8, <3>1 DEF ParentInv
  <2>13. /\ 0 \in Spots /\ n \in Spots /\ n # 0
         /\ \A j \in Spots \ {0, n} : j \in Kids /\ j \in All \ {0}
    BY <1>2 DEF Spots, Kids, All
  <2>14. MapInv'
    <3>1. /\ \A j \in Spots \ {0, n} : OwnViews'[j] = OwnViews[j] /\ RightViews'[j] = RightViews[j]
          /\ OwnViews'[0] = {} /\ OwnViews'[n] = Content(children_reducer_map)
          /\ RightViews'[0] = {} /\ RightViews'[n] = {}
      BY <1>1, <2>1, <2>10, <2>13, ContentEmpty DEF OwnViews, RightViews
    <3>2. Serial(OwnViews', RightViews', Open', Going')
      <4>1. n \in Nat /\ n # 0
        BY <1>2
      <4> HIDE DEF n
      <4>2. Serial(OwnViews', RightViews', {0, n}, {})
        BY <3>1, <4>1, SerialEnds
      <4>3. QED
        BY <2>9, <4>2
    <3>3. Held(OwnViews', RightViews') = updates
      <4>1. /\ \A j \in Spots \ {0, n} : OwnViews[j] = {} /\ RightViews[j] = {}
            /\ Held(OwnViews, RightViews) = OwnViews[n] \cup RightViews[0]
            /\ OwnViews[n] = {} /\ RightViews[0] = Content(children_reducer_map)
        BY <2>4, <2>6, OnlyEnds, ContentEmpty, Zenon
      <4>2. Held(OwnViews', RightViews') = Content(children_reducer_map)
        <5>1. \A j \in Spots \ {0, n} : OwnViews'[j] = {} /\ RightViews'[j] = {}
          BY <3>1, <4>1, Zenon
        <5>2. n = N + 1
          OBVIOUS
        <5> HIDE DEF n
        <5>3. AtEnds(OwnViews', RightViews', n)
          BY <2>13, <5>1, <5>2, Zenon DEF AtEnds
        <5>4. Held(OwnViews', RightViews')
                = OwnViews'[0] \cup RightViews'[0] \cup OwnViews'[n] \cup RightViews'[n]
          BY <5>3, HeldAtEnds
        <5>5. QED
          BY <3>1, <5>4
      <4>3. QED
        BY <4>1, <4>2, Zenon DEF ReducerInv, MapInv
    <3>4. \A j \in All : Increasing(reducer_map'[j])
      BY <2>10, Zenon DEF ReducerInv, MapInv
    <3>5. QED
      BY <1>1, <2>1, <3>2, <3>3, <3>4, ContentEmpty DEF ReducerInv, MapInv, Held
  <2>15. ThrowInv'
    <3>1. /\ \A j \in Spots \ {0, n} : OwnThrows'[j] = OwnThrows[j] /\ RightThrows'[j] = RightThrows[j]
          /\ OwnThrows'[0] = {} /\ OwnThrows'[n] = {child_pending_exception} \ {None}
          /\ RightThrows'[0] = {} /\ RightThrows'[n] = {}
      BY <1>1, <2>1, <2>10, <2>13, Zenon DEF OwnThrows, RightThrows
    <3>2. Serial(OwnThrows', RightThrows', Open', Going')
      <4>1. n \in Nat /\ n # 0
        BY <1>2
      <4> HIDE DEF n
      <4>2. OwnThrows'[0] = {} /\ RightThrows'[0] = {} /\ RightThrows'[n] = {}
        BY <3>1, Zenon
      <4>3. Serial(OwnThrows', RightThrows', {0, n}, {})
        BY <4>1, <4>2, SerialEnds
      <4>4. QED
        BY <2>9, <4>3
    <3>3. /\ Held(OwnThrows', RightThrows') = Held(OwnThrows, RightThrows)
          /\ Held(OwnThrows, RightThrows) = {child_pending_exception} \ {None}
      <4>1. /\ \A j \in Spots \ {0, n} : OwnThrows[j] = {} /\ RightThrows[j] = {}
            /\ Held(OwnThrows, RightThrows) = OwnThrows[n] \cup RightThrows[0]
            /\ OwnThrows[n] = {} /\ RightThrows[0] = {child_pending_exception} \ {None}
        BY <2>4, <2>6, OnlyEnds
      <4>2. Held(OwnThrows', RightThrows') = {child_pending_exception} \ {None}
        <5>1. \A j \in Spots \ {0, n} : OwnThrows'[j] = {} /\ RightThrows'[j] = {}
          BY <3>1, <4>1, Zenon
        <5>2. n = N + 1
          OBVIOUS
        <5> HIDE DEF n
        <5>3. AtEnds(OwnThrows', RightThrows', n)
          BY <2>13, <5>1, <5>2, Zenon DEF AtEnds
        <5>4. Held(OwnThrows', RightThrows')
                = OwnThrows'[0] \cup RightThrows'[0] \cup OwnThrows'[n] \cup RightThrows'[n]
          BY <5>3, HeldAtEnds
        <5>5. QED
          BY <3>1, <5>4
      <4>3. QED
        BY <4>1, <4>2
    <3>4. 2 * spawned \in thrown => child_pending_exception # None
      BY <3>3 DEF ReducerInv, ThrowInv
    <3>5. QED
      BY <1>1, <2>9, <2>10, <3>2, <3>3, <3>4, Zenon DEF ReducerInv, ThrowInv, Held
  <2>16. TypeOK'
    <3>1. <<>> \in Seq(S) /\ None \in S \cup {None} /\ FALSE \in BOOLEAN
      OBVIOUS
    <3>2. /\ spawned \in 0..N /\ kids \in Seq(Kids)
          /\ right_reducer_map \in [Kids -> Seq(S)]
          /\ right_pending_exception \in [Kids -> S \cup {None}]
          /\ updates \subseteq S /\ thrown \subseteq S
      BY DEF ReducerInv, TypeOK, S
    <3>3. /\ spawned' \in 0..N /\ kids' \in Seq(Kids) /\ unsynched' \in BOOLEAN
          /\ join_counter' \in 1..(N + 1) /\ children_reducer_map' \in Seq(S)
          /\ right_reducer_map' \in [Kids -> Seq(S)]
          /\ right_pending_exception' \in [Kids -> S \cup {None}]
          /\ child_pending_exception' \in S \cup {None}
          /\ updates' \subseteq S /\ thrown' \subseteq S
      BY <1>1, <1>2, <2>1, <3>1, <3>2, Zenon
    <3>4. QED
      BY <2>2, <2>10, <3>3, Zenon DEF TypeOK, PC, S
  <2>17. QED
    BY <2>11, <2>12, <2>14, <2>15, <2>16 DEF ReducerInv
<1>10. QED
  BY <1>8, <1>9

-----------------------------------------------------------------------------
(***************************************************************************)
(* The invariant holds, and implies the properties.                        *)
(***************************************************************************)
LEMMA InitReducerInv ==
  ASSUME Init
  PROVE  ReducerInv
<1>1. N \in Nat /\ None \notin Int
  BY ReducerAssumption
<1>2. /\ spawned = 0 /\ kids = <<>> /\ unsynched = FALSE /\ join_counter = 1
      /\ reducer_map = [x \in All |-> <<>>] /\ right_reducer_map = [i \in Kids |-> <<>>]
      /\ children_reducer_map = <<>>
      /\ pending_exception = [x \in All |-> None]
      /\ right_pending_exception = [i \in Kids |-> None]
      /\ child_pending_exception = None
      /\ pc = [x \in All |-> IF x = 0 THEN "run" ELSE "new"]
      /\ updates = {} /\ thrown = {}
  BY DEF Init
<1>3. /\ 0 \in All /\ \A i \in Kids : i \in All /\ i # 0 /\ i > 0
  BY <1>1 DEF All, Kids
<1>4. pc[0] = "run" /\ \A i \in Kids : pc[i] = "new"
  BY <1>2, <1>3
<1>5. Linked = {} /\ Going = {} /\ Active = {} /\ Open = {0, N + 1}
  BY <1>2, <1>4, ContentEmpty, Zenon DEF Linked, Going, Active, Open
<1>6. TypeOK
  <2>1. 1 \in 1..(N + 1) /\ 0 \in 0..N
    BY <1>1
  <2>2. <<>> \in Seq(0..(2 * N)) /\ <<>> \in Seq(Kids)
    OBVIOUS
  <2>3. QED
    BY <1>2, <2>1, <2>2, Zenon DEF TypeOK
<1>7. KidsInv
  BY <1>2, <1>3, <1>4, <1>5, ContentEmpty DEF KidsInv
<1>8. ParentInv
  <2>1. Absent = 0
    BY <1>2, <1>4 DEF Absent
  <2>2. QED
    BY <1>2, <1>4, <1>5, <2>1, NothingCounts DEF ParentInv
<1>9. \A j \in Spots : j = 0 \/ (IF j = N + 1 THEN 0 ELSE j) \in All
  BY <1>1 DEF Spots, All
<1>10. \A j \in Spots : j = 0 \/ j = N + 1 \/ j \in Kids
  BY <1>1 DEF Spots, Kids
<1>11. \A j \in Spots : /\ OwnViews[j] = {} /\ RightViews[j] = {}
                        /\ OwnThrows[j] = {} /\ RightThrows[j] = {}
  BY <1>2, <1>9, <1>10, ContentEmpty DEF OwnViews, RightViews, OwnThrows, RightThrows
<1>12. Held(OwnViews, RightViews) = {} /\ Held(OwnThrows, RightThrows) = {}
  BY <1>11 DEF Held
<1>13. /\ Serial(OwnViews, RightViews, {0, N + 1}, {})
       /\ Serial(OwnThrows, RightThrows, {0, N + 1}, {})
  <2> DEFINE n == N + 1
  <2>1. n \in Nat /\ n # 0 /\ 0 \in Spots /\ n \in Spots
    BY <1>1 DEF Spots
  <2> HIDE DEF n
  <2>2. Serial(OwnViews, RightViews, {0, n}, {}) /\ Serial(OwnThrows, RightThrows, {0, n}, {})
    BY <1>11, <2>1, SerialEnds, Zenon
  <2>3. QED
    BY <2>2 DEF n
<1>14. MapInv
  BY <1>2, <1>5, <1>12, <1>13, ContentEmpty DEF MapInv
<1>15. ThrowInv
  BY <1>2, <1>5, <1>12, <1>13 DEF ThrowInv
<1>16. QED
  BY <1>6, <1>7, <1>8, <1>14, <1>15 DEF ReducerInv

\* Every step preserves the invariant.
LEMMA NextReducerInv ==
  ASSUME ReducerInv, [Next]_vars
  PROVE  ReducerInv'
<1>1. TypeOK /\ KidsInv /\ N \in Nat
  BY PlaceFacts DEF ReducerInv
<1>2. CASE StolenSpawn
  BY <1>2, SpawnPreserves
<1>3. ASSUME NEW x \in All, Update(x)
      PROVE  ReducerInv'
  BY <1>3, UpdatePreserves
<1>4. ASSUME NEW x \in All, Throw(x)
      PROVE  ReducerInv'
  BY <1>4, ThrowPreserves
<1>5. ASSUME NEW x \in All, x # 0, FastPath(x) \/ SlowPath(x)
      PROVE  ReducerInv'
  <2>1. x \in Kids
    BY <1>5 DEF All, Kids
  <2>2. Move(x)
    BY <1>1, <1>5, <2>1, PathIsMove
  <2>3. QED
    BY <2>1, <2>2, MovePreserves
<1>6. CASE SyncFastPath
  BY <1>6, SyncFastPathPreserves
<1>7. CASE SyncSlowPath
  BY <1>1, <1>7, SyncPathIsMove, SyncPreserves
<1>8. ASSUME NEW x \in All, Arrive(x)
      PROVE  ReducerInv'
  BY <1>8, ArrivePreserves
<1>9. CASE UNCHANGED vars
  <2>1. /\ spawned' = spawned /\ kids' = kids /\ unsynched' = unsynched
        /\ reducer_map' = reducer_map /\ right_reducer_map' = right_reducer_map
        /\ children_reducer_map' = children_reducer_map
        /\ pending_exception' = pending_exception
        /\ right_pending_exception' = right_pending_exception
        /\ child_pending_exception' = child_pending_exception
        /\ join_counter' = join_counter /\ pc' = pc /\ updates' = updates /\ thrown' = thrown
    BY <1>9, Zenon DEF vars, tree, maps, exceptions, history
  <2>2. /\ Absent' = Absent /\ Linked' = Linked /\ Active' = Active /\ Going' = Going /\ Open' = Open
        /\ OwnViews' = OwnViews /\ RightViews' = RightViews
        /\ OwnThrows' = OwnThrows /\ RightThrows' = RightThrows
    BY <2>1, Zenon DEF Absent, Linked, Active, Going, Open, OwnViews, RightViews, OwnThrows, RightThrows
  <2>3. TypeOK' /\ KidsInv' /\ ParentInv'
    BY <2>1, <2>2 DEF ReducerInv, TypeOK, KidsInv, ParentInv
  <2>4. MapInv' /\ ThrowInv'
    BY <2>1, <2>2, Zenon DEF ReducerInv, MapInv, ThrowInv, Held
  <2>5. QED
    BY <2>3, <2>4 DEF ReducerInv
<1>10. QED
  BY <1>2, <1>3, <1>4, <1>5, <1>6, <1>7, <1>8, <1>9 DEF Next, UserCode, Runtime

\* The inductive invariant of the reducer protocol, for any number of stolen
\* children: the open places hold the strands in serial order whatever the
\* workers deposit while a reduction has the frame's lock released.
THEOREM ReducerInvariance == Spec => []ReducerInv
<1>1. Init => ReducerInv
  BY InitReducerInv
<1>2. ReducerInv /\ [Next]_vars => ReducerInv'
  BY NextReducerInv
<1>3. QED
  BY <1>1, <1>2, PTL DEF Spec

-----------------------------------------------------------------------------
\* The places of the frame, by their position and by the number of the child.
SpotOf(j) == IF j = 0 THEN 0 ELSE IF j > Len(kids) THEN N + 1 ELSE kids[j]

\* Positions in the list of children and the numbers of the children are two
\* increasing numberings of the same places.
LEMMA SpotOfPlaces ==
  ASSUME ReducerInv
  PROVE  /\ \A j \in Places : SpotOf(j) \in Open /\ SpotOf(j) \in Spots /\ SpotOf(j) \in Int
         /\ \A j, k \in Places : j < k => SpotOf(j) < SpotOf(k)
         /\ \A i \in Open : \E j \in Places : SpotOf(j) = i
         /\ Places \subseteq Nat /\ Len(kids) \in Nat
         /\ \A j \in Places : j # 0 /\ ~(j > Len(kids)) =>
              kids[j] \in Kids /\ kids[j] \in All /\ kids[j] # 0 /\ kids[j] # N + 1
<1>1. /\ N \in Nat /\ kids \in Seq(Kids) /\ Increasing(kids) /\ Open \subseteq Spots
  BY PlaceFacts DEF ReducerInv, TypeOK, KidsInv
<1>2. /\ Len(kids) \in Nat /\ DOMAIN kids = 1..Len(kids)
      /\ \A j \in 1..Len(kids) : kids[j] \in 1..N /\ kids[j] \in Linked
  <2>1. Len(kids) \in Nat /\ DOMAIN kids = 1..Len(kids)
    BY <1>1
  <2>2. \A j \in 1..Len(kids) : kids[j] \in 1..N
    BY <1>1, <2>1 DEF Kids
  <2>3. \A j \in 1..Len(kids) : kids[j] \in Linked
    BY <2>1, Zenon DEF Linked, Content
  <2>4. QED
    BY <2>1, <2>2, <2>3
<1>3. \A j \in Places : j \in Nat /\ (j = 0 \/ j = Len(kids) + 1 \/ j \in 1..Len(kids))
  BY <1>2 DEF Places
<1>4. \A j \in Places : SpotOf(j) \in Open /\ SpotOf(j) \in Int
  BY <1>1, <1>2, <1>3 DEF SpotOf, Open
<1>5. ASSUME NEW j \in Places, NEW k \in Places, j < k
      PROVE  SpotOf(j) < SpotOf(k)
  <2>1. CASE j = 0
    BY <1>1, <1>2, <1>3, <1>5, <2>1 DEF SpotOf
  <2>2. CASE j \in 1..Len(kids) /\ k = Len(kids) + 1
    BY <1>1, <1>2, <2>2 DEF SpotOf
  <2>3. CASE j \in 1..Len(kids) /\ k \in 1..Len(kids)
    <3>1. SpotOf(j) = kids[j] /\ SpotOf(k) = kids[k]
      BY <1>2, <2>3 DEF SpotOf
    <3>2. kids[j] < kids[k]
      BY <1>1, <1>2, <1>5, <2>3 DEF Increasing
    <3>3. QED
      BY <3>1, <3>2
  <2>4. QED
    BY <1>2, <1>3, <1>5, <2>1, <2>2, <2>3
<1>6. ASSUME NEW i \in Open
      PROVE  \E j \in Places : SpotOf(j) = i
  <2>1. 0 \in Places /\ Len(kids) + 1 \in Places /\ 1..Len(kids) \subseteq Places
    BY <1>2 DEF Places
  <2>2. CASE i = 0
    BY <2>1, <2>2 DEF SpotOf
  <2>3. CASE i = N + 1
    <3>1. SpotOf(Len(kids) + 1) = N + 1
      BY <1>2 DEF SpotOf
    <3>2. QED
      BY <2>1, <2>3, <3>1
  <2>4. CASE i \in Linked
    <3>1. PICK j \in 1..Len(kids) : kids[j] = i
      BY <1>2, <2>4 DEF Linked, Content
    <3>2. SpotOf(j) = i
      BY <1>2, <3>1 DEF SpotOf
    <3>3. QED
      BY <2>1, <3>2
  <2>5. QED
    BY <2>2, <2>3, <2>4 DEF Open
<1>7. \A j \in Places : j # 0 /\ ~(j > Len(kids)) =>
              kids[j] \in Kids /\ kids[j] \in All /\ kids[j] # 0 /\ kids[j] # N + 1
  BY <1>1, <1>2, <1>3 DEF Kids, All
<1>8. QED
  BY <1>1, <1>2, <1>3, <1>4, <1>5, <1>6, <1>7

\* A place that is not open holds nothing.
LEMMA ClosedEmpty ==
  ASSUME ReducerInv
  PROVE  \A i \in Spots \ Open : /\ OwnViews[i] = {} /\ RightViews[i] = {}
                                 /\ OwnThrows[i] = {} /\ RightThrows[i] = {}
<1> TAKE i \in Spots \ Open
<1>1. i \in Kids /\ i \notin Linked /\ i # 0 /\ i # N + 1
  BY PlaceFacts DEF Spots, Open, Kids
<1>2. /\ reducer_map[i] = <<>> /\ right_reducer_map[i] = <<>>
      /\ pending_exception[i] = None /\ right_pending_exception[i] = None
  BY <1>1 DEF ReducerInv, KidsInv
<1>3. QED
  BY <1>1, <1>2, ContentEmpty, Zenon DEF OwnViews, RightViews, OwnThrows, RightThrows

\* The invariant orders the views.
LEMMA ViewsOrdered ==
  ASSUME ReducerInv
  PROVE  ViewsInOrder
<1>1. /\ \A j \in Places : SpotOf(j) \in Open /\ SpotOf(j) \in Spots /\ SpotOf(j) \in Int
      /\ \A j, k \in Places : j < k => SpotOf(j) < SpotOf(k)
      /\ \A i \in Open : \E j \in Places : SpotOf(j) = i
      /\ \A j \in Places : j # 0 /\ ~(j > Len(kids)) =>
           kids[j] \in Kids /\ kids[j] \in All /\ kids[j] # 0 /\ kids[j] # N + 1
      /\ Places \subseteq Nat /\ Len(kids) \in Nat
  BY SpotOfPlaces
<1>2. /\ N \in Nat /\ 0 \in All /\ 0 \in Spots /\ N + 1 \in Spots /\ N + 1 # 0
  BY PlaceFacts DEF All, Spots
<1>3. /\ Serial(OwnViews, RightViews, Open, Going) /\ Held(OwnViews, RightViews) = updates
      /\ \A x \in All : Increasing(reducer_map[x]) /\ reducer_map[x] \in Seq(0..(2 * N))
      /\ \A x \in Kids : /\ Increasing(right_reducer_map[x])
                         /\ right_reducer_map[x] \in Seq(0..(2 * N))
      /\ Increasing(children_reducer_map)
  BY Zenon DEF ReducerInv, TypeOK, MapInv
<1>4. ASSUME NEW j \in Places
      PROVE  /\ Increasing(View(j))
             /\ Content(View(j)) = OwnViews[SpotOf(j)] \cup RightViews[SpotOf(j)]
  <2>1. CASE j = 0
    BY <1>2, <1>3, <2>1 DEF View, SpotOf, OwnViews, RightViews
  <2>2. CASE j > Len(kids)
    <3>1. j # 0
      BY <1>1, <2>2
    <3>2. QED
      BY <1>2, <1>3, <2>2, <3>1, Zenon DEF View, SpotOf, OwnViews, RightViews
  <2>3. CASE j # 0 /\ ~(j > Len(kids))
    <3> DEFINE i == kids[j]
               S == 0..(2 * N)
    <3>1. /\ SpotOf(j) = i /\ View(j) = reducer_map[i] \o right_reducer_map[i]
          /\ i \in Kids /\ i \in All /\ i # 0 /\ i # N + 1 /\ i \in Open /\ i \in Spots
      <4>1. SpotOf(j) = i
        BY <2>3, Zenon DEF SpotOf
      <4>2. QED
        BY <1>1, <2>3, <4>1, Zenon DEF View
    <3>2. OwnViews[i] = Content(reducer_map[i]) /\ RightViews[i] = Content(right_reducer_map[i])
      BY <3>1, Zenon DEF OwnViews, RightViews
    <3>3. Less(OwnViews[i], RightViews[i])
      BY <1>3, <3>1, Zenon DEF Serial
    <3>4. /\ reducer_map[i] \in Seq(S) /\ right_reducer_map[i] \in Seq(S) /\ S \in SUBSET Int
          /\ Increasing(reducer_map[i]) /\ Increasing(right_reducer_map[i])
      BY <1>3, <3>1
    <3> HIDE DEF i, S
    <3>5. Content(View(j)) = Content(reducer_map[i]) \cup Content(right_reducer_map[i])
      BY <3>1, <3>4, ContentConcat
    <3>6. Increasing(View(j))
      BY <3>1, <3>2, <3>3, <3>4, IncreasingConcat
    <3>7. QED
      BY <3>1, <3>2, <3>5, <3>6
  <2>4. QED
    BY <2>1, <2>2, <2>3, Zenon
<1>5. ASSUME NEW j \in Places, NEW k \in Places, j < k
      PROVE  Before(View(j), View(k))
  <2>1. Less(OwnViews[SpotOf(j)] \cup RightViews[SpotOf(j)],
             OwnViews[SpotOf(k)] \cup RightViews[SpotOf(k)])
    BY <1>1, <1>3, <1>5 DEF Serial
  <2>2. QED
    BY <1>4, <2>1, Zenon DEF Before, Less
<1>6. UNION {Content(View(j)) : j \in Places} = updates
  <2>1. ASSUME NEW j \in Places, NEW a \in Content(View(j))
        PROVE  a \in updates
    BY <1>1, <1>3, <1>4, Zenon DEF Held
  <2>2. ASSUME NEW a \in updates
        PROVE  \E j \in Places : a \in Content(View(j))
    <3>1. PICK i \in Spots : a \in OwnViews[i] \cup RightViews[i]
      BY <1>3, Zenon DEF Held
    <3>2. i \in Open
      BY <3>1, ClosedEmpty, Zenon
    <3>3. PICK j \in Places : SpotOf(j) = i
      BY <1>1, <3>2
    <3>4. QED
      BY <1>4, <3>1, <3>3
  <2>3. QED
    BY <2>1, <2>2
<1>7. QED
  BY <1>4, <1>5, <1>6 DEF ViewsInOrder

\* No update of a reducer is lost, duplicated or combined out of the serial
\* order, for any number of stolen children: spawn returns and syncs join the
\* maps of neighbours, left before right.
THEOREM ViewsInOrderHolds == Spec => []ViewsInOrder
<1>1. ReducerInv => ViewsInOrder
  BY ViewsOrdered
<1>2. QED
  BY <1>1, ReducerInvariance, PTL

\* After a sync the worker that resumed the frame holds every update, in serial
\* order: setup_for_execution_reducers installs what the children left.
THEOREM SynchedMapHolds == Spec => []SynchedMap
<1>1. ReducerInv => SynchedMap
  <2> SUFFICES ASSUME ReducerInv, pc[0] = "run", ~unsynched
               PROVE  Increasing(reducer_map[0]) /\ Content(reducer_map[0]) = updates
    BY DEF SynchedMap
  <2>1. Active = {} /\ children_reducer_map = <<>>
    BY DEF ReducerInv, ParentInv
  <2>2. Linked = {}
    <3>1. \A i \in Linked : i \in Kids /\ pc[i] \in {"run", "slow"}
      BY PlaceFacts DEF ReducerInv, KidsInv, Kids
    <3>2. QED
      BY <2>1, <3>1 DEF Active
  <2>3. Held(OwnViews, RightViews) = Content(reducer_map[0])
    BY <2>1, <2>2, OnlyEnds, ContentEmpty, Zenon
  <2>4. 0 \in All
    BY PlaceFacts DEF All
  <2>5. QED
    BY <2>3, <2>4 DEF ReducerInv, MapInv
<1>2. QED
  BY <1>1, ReducerInvariance, PTL

\* The exception a place would report is the first of those it holds.
LEMMA PendingInOrder ==
  ASSUME ReducerInv, NEW j \in Places
  PROVE  LET own == OwnThrows[SpotOf(j)]
             right == RightThrows[SpotOf(j)] IN
         /\ Pending(j) # <<>> <=> own \cup right # {}
         /\ own \cup right # {} =>
              /\ Pending(j)[1] \in own \cup right
              /\ \A e \in own \cup right : Pending(j)[1] <= e
<1>1. /\ SpotOf(j) \in Open /\ SpotOf(j) \in Spots /\ j \in Nat /\ Len(kids) \in Nat
      /\ j # 0 /\ ~(j > Len(kids)) =>
           kids[j] \in Kids /\ kids[j] \in All /\ kids[j] # 0 /\ kids[j] # N + 1
  BY SpotOfPlaces
<1>2. /\ N \in Nat /\ 0 \in All /\ 0 \in Spots /\ N + 1 \in Spots /\ N + 1 # 0 /\ None \notin Int
  BY PlaceFacts DEF All, Spots
<1>3. /\ \A x \in All : pending_exception[x] \in Int \cup {None}
      /\ \A x \in Kids : right_pending_exception[x] \in Int \cup {None}
      /\ child_pending_exception \in Int \cup {None}
      /\ Serial(OwnThrows, RightThrows, Open, Going)
  BY DEF ReducerInv, TypeOK, ThrowInv
<1>4. ASSUME NEW e \in Int \cup {None}
      PROVE  /\ Exc(e) # <<>> <=> {e} \ {None} # {}
             /\ {e} \ {None} # {} => Exc(e)[1] = e /\ Exc(e)[1] \in {e} \ {None}
  BY <1>2, Zenon DEF Exc
<1>5. CASE j = 0
  <2>1. /\ OwnThrows[SpotOf(j)] = {} /\ RightThrows[SpotOf(j)] = {child_pending_exception} \ {None}
        /\ Pending(j) = Exc(child_pending_exception)
    BY <1>2, <1>5 DEF SpotOf, OwnThrows, RightThrows, Pending
  <2>2. QED
    BY <1>3, <1>4, <2>1
<1>6. CASE j # 0 /\ j > Len(kids)
  <2>1. /\ OwnThrows[SpotOf(j)] = {pending_exception[0]} \ {None} /\ RightThrows[SpotOf(j)] = {}
        /\ Pending(j) = Exc(pending_exception[0])
    BY <1>2, <1>6 DEF SpotOf, OwnThrows, RightThrows, Pending
  <2> DEFINE x == pending_exception[0]
  <2>2. x \in Int \cup {None}
    BY <1>2, <1>3
  <2>3. /\ Exc(x) # <<>> <=> {x} \ {None} # {}
        /\ {x} \ {None} # {} => Exc(x)[1] = x /\ x \in Int
    BY <1>4, <2>2, Zenon
  <2> HIDE DEF x
  <2>4. QED
    BY <2>1, <2>3 DEF x
<1>7. CASE j # 0 /\ ~(j > Len(kids))
  <2> DEFINE i == kids[j]
             x == pending_exception[i]
             y == right_pending_exception[i]
  <2>1. SpotOf(j) = i /\ i \in Kids /\ i \in All /\ i # 0 /\ i # N + 1 /\ i \in Open /\ i \in Spots
    <3>1. SpotOf(j) = i
      BY <1>7 DEF SpotOf
    <3>2. QED
      BY <1>1, <1>7, <3>1, Zenon
  <2>2. /\ OwnThrows[i] = {x} \ {None} /\ RightThrows[i] = {y} \ {None}
        /\ Pending(j) = Exc(x) \o Exc(y)
    BY <1>7, <2>1 DEF OwnThrows, RightThrows, Pending
  <2>3. /\ Less({x} \ {None}, {y} \ {None}) /\ x \in Int \cup {None} /\ y \in Int \cup {None}
    <3>1. Less(OwnThrows[i], RightThrows[i])
      BY <1>3, <2>1, Zenon DEF Serial
    <3>2. QED
      BY <1>3, <2>1, <2>2, <3>1, Zenon
  <2> HIDE DEF x, y, i
  <2>4. CASE x = None
    <3>1. Exc(x) \o Exc(y) = Exc(y)
      BY <1>2, <2>3, <2>4 DEF Exc
    <3>2. QED
      BY <1>4, <2>1, <2>2, <2>3, <2>4, <3>1
  <2>5. CASE x # None
    <3>1. Exc(x) = <<x>> /\ (Exc(y) = <<>> \/ Exc(y) = <<y>>)
      BY <2>5 DEF Exc
    <3>2. Exc(x) \o Exc(y) # <<>> /\ (Exc(x) \o Exc(y))[1] = x
      BY <2>3, <3>1
    <3>3. \A e \in ({x} \ {None}) \cup ({y} \ {None}) : x <= e
      BY <1>2, <2>3, <2>5 DEF Less
    <3>4. QED
      BY <2>1, <2>2, <2>5, <3>2, <3>3
  <2>6. QED
    BY <2>4, <2>5, Zenon
<1>8. QED
  BY <1>5, <1>6, <1>7

\* The invariant keeps the first exception.
LEMMA FirstKept ==
  ASSUME ReducerInv
  PROVE  FirstExceptionKept
<1> SUFFICES ASSUME thrown # {}
             PROVE  \E j \in Places :
                      /\ Pending(j) # <<>> /\ \A k \in Places : k < j => Pending(k) = <<>>
                      /\ \A s \in thrown : Pending(j)[1] <= s
  BY DEF FirstExceptionKept
<1> DEFINE H(j) == OwnThrows[SpotOf(j)] \cup RightThrows[SpotOf(j)]
<1>1. /\ \A j \in Places : SpotOf(j) \in Open /\ SpotOf(j) \in Spots
      /\ \A j, k \in Places : j < k => SpotOf(j) < SpotOf(k)
      /\ \A i \in Open : \E j \in Places : SpotOf(j) = i
      /\ Places \subseteq Nat
  BY SpotOfPlaces
<1>2. \A j \in Places : /\ Pending(j) # <<>> <=> H(j) # {}
                        /\ H(j) # {} => /\ Pending(j)[1] \in H(j)
                                        /\ \A e \in H(j) : Pending(j)[1] <= e
  BY PendingInOrder
<1>3. /\ Serial(OwnThrows, RightThrows, Open, Going) /\ thrown \subseteq Int
      /\ \E e \in Held(OwnThrows, RightThrows) : \A s \in thrown : e <= s
      /\ Held(OwnThrows, RightThrows) \subseteq thrown
  BY DEF ReducerInv, TypeOK, ThrowInv
<1>4. ASSUME NEW e \in Held(OwnThrows, RightThrows)
      PROVE  \E j \in Places : e \in H(j)
  <2>1. PICK i \in Spots : e \in OwnThrows[i] \cup RightThrows[i]
    BY DEF Held
  <2>2. i \in Open
    BY <2>1, ClosedEmpty
  <2>3. PICK j \in Places : SpotOf(j) = i
    BY <1>1, <2>2
  <2>4. QED
    BY <2>1, <2>3
<1>5. \A j \in Places : H(j) \subseteq Held(OwnThrows, RightThrows)
  BY <1>1, Zenon DEF Held
<1>6. \A j, k \in Places : j < k => Less(H(j), H(k))
  BY <1>1, <1>3 DEF Serial
<1> HIDE DEF H
<1>7. PICK e \in Held(OwnThrows, RightThrows) : \A s \in thrown : e <= s
  BY <1>3
<1>8. PICK j \in Places : e \in H(j)
  BY <1>4
<1>9. Pending(j) # <<>> /\ Pending(j)[1] \in Int /\ Pending(j)[1] <= e
  BY <1>2, <1>3, <1>5, <1>8, Zenon
<1>10. ASSUME NEW k \in Places, k < j, Pending(k) # <<>>
       PROVE  FALSE
  <2>1. PICK d \in H(k) : d < e
    BY <1>2, <1>6, <1>8, <1>10 DEF Less
  <2>2. d \in thrown /\ d \in Int /\ e \in Int
    BY <1>3, <1>5, Zenon
  <2>3. QED
    BY <1>7, <2>1, <2>2
<1>11. \A s \in thrown : Pending(j)[1] <= s
  <2>1. e \in Int /\ \A s \in thrown : s \in Int
    BY <1>3, Zenon
  <2>2. QED
    BY <1>7, <1>9, <2>1
<1>12. QED
  BY <1>9, <1>10, <1>11

\* The exception a serial execution would have thrown first is never discarded
\* or overtaken, for any number of stolen children and of exceptions.
THEOREM FirstExceptionKeptHolds == Spec => []FirstExceptionKept
<1>1. ReducerInv => FirstExceptionKept
  BY FirstKept
<1>2. QED
  BY <1>1, ReducerInvariance, PTL
=============================================================================
