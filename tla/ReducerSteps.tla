-------------------------------- MODULE ReducerSteps --------------------------
(***************************************************************************)
(* The invariant of the reducer protocol is preserved by the steps in      *)
(* which a child that returns and a worker that stalls at a sync deposit   *)
(* what they hold to their left.                                           *)
(***************************************************************************)
EXTENDS ReducerStrands

\* compute_left_ptrs_for_spawn_return finds the nearest linked child on the left.
LEMMA LeftOfNearest ==
  ASSUME kids \in Seq(Kids), N \in Nat, Increasing(kids), NEW i \in Linked
  PROVE  /\ Place(i) \in DOMAIN kids /\ kids[Place(i)] = i
         /\ LeftOf(i) \in Linked \cup {0} /\ LeftOf(i) < i /\ LeftOf(i) \in Int
         /\ \A k \in Linked : k <= LeftOf(i) \/ i <= k
<1>1. \E j \in DOMAIN kids : kids[j] = i
  BY DEF Linked, Content
<1>2. Place(i) \in DOMAIN kids /\ kids[Place(i)] = i
  BY <1>1 DEF Place
<1>3. DOMAIN kids = 1..Len(kids) /\ Len(kids) \in Nat /\ \A j \in DOMAIN kids : kids[j] \in 1..N
  BY DEF Kids
<1> DEFINE p == Place(i)
<1> HIDE DEF p
<1>4. p \in 1..Len(kids) /\ kids[p] = i
  BY <1>2, <1>3 DEF p
<1>5. LeftOf(i) = IF p = 1 THEN 0 ELSE kids[p - 1]
  BY DEF LeftOf, p
<1>6. \A j \in DOMAIN kids : /\ j < p => kids[j] < i
                             /\ p < j => i < kids[j]
  BY <1>3, <1>4 DEF Increasing
<1>7. CASE p = 1
  <2>1. \A j \in DOMAIN kids : i <= kids[j]
    BY <1>3, <1>4, <1>6, <1>7
  <2>2. QED
    BY <1>2, <1>3, <1>4, <1>5, <1>7, <2>1 DEF Linked, Content
<1>8. CASE p # 1
  <2>1. p - 1 \in DOMAIN kids /\ kids[p - 1] < i
    BY <1>3, <1>4, <1>6, <1>8
  <2>2. \A j \in DOMAIN kids : kids[j] <= kids[p - 1] \/ i <= kids[j]
    <3> TAKE j \in DOMAIN kids
    <3>1. j < p - 1 \/ j = p - 1 \/ j = p \/ p < j
      BY <1>3, <1>4
    <3>2. j < p - 1 => kids[j] < kids[p - 1]
      BY <2>1 DEF Increasing
    <3>3. kids[j] \in Int /\ kids[p - 1] \in Int /\ i \in Int /\ kids[p] = i
      BY <1>3, <1>4, <2>1
    <3>4. QED
      BY <1>6, <3>1, <3>2, <3>3
  <2>3. QED
    BY <1>2, <1>3, <1>5, <1>8, <2>1, <2>2 DEF Linked, Content
<1>9. QED
  BY <1>7, <1>8

\* compute_left_ptrs_for_sync finds the rightmost linked child.
LEMMA LeftOfSyncNearest ==
  ASSUME kids \in Seq(Kids), N \in Nat, Increasing(kids)
  PROVE  /\ LeftOfSync \in Linked \cup {0} /\ LeftOfSync < N + 1 /\ LeftOfSync \in Int
         /\ \A k \in Linked : k <= LeftOfSync
<1>1. DOMAIN kids = 1..Len(kids) /\ Len(kids) \in Nat /\ \A j \in DOMAIN kids : kids[j] \in 1..N
  BY DEF Kids
<1>2. CASE kids = <<>>
  BY <1>2, ContentEmpty DEF LeftOfSync, Linked
<1>3. CASE kids # <<>>
  <2>1. Len(kids) \in DOMAIN kids
    BY <1>1, <1>3
  <2>2. \A j \in DOMAIN kids : kids[j] <= kids[Len(kids)]
    BY <1>1, <2>1 DEF Increasing
  <2>3. QED
    BY <1>1, <1>3, <2>1, <2>2 DEF LeftOfSync, Linked, Content
<1>4. QED
  BY <1>2, <1>3

-----------------------------------------------------------------------------
(***************************************************************************)
(* What the fast path and a turn of the slow path come to: the three maps  *)
(* are joined, and go to the left or to the worker.                        *)
(***************************************************************************)
Joined(i) == LeftMap(LeftOf(i)) \o reducer_map[i] \o right_reducer_map[i]

Move(i) ==
  /\ pc[i] \in {"run", "slow"}
  /\ SpliceExceptions(i, LeftOf(i))
  /\ \/ /\ Deposit(LeftOf(i), Joined(i), i, <<>>)
        /\ reducer_map' = [reducer_map EXCEPT ![i] = <<>>]
        /\ Finish(i)
     \/ /\ Deposit(LeftOf(i), <<>>, i, <<>>)
        /\ reducer_map' = [reducer_map EXCEPT ![i] = Joined(i)]
        /\ Goto(i, "slow") /\ UNCHANGED kids
  /\ UNCHANGED <<spawned, unsynched, join_counter, history>>

JoinedAtSync == LeftMap(LeftOfSync) \o reducer_map[0]

MoveAtSync ==
  LET l == LeftOfSync
      e == MergeExceptions(IF l = 0 THEN child_pending_exception
                                    ELSE right_pending_exception[l],
                           pending_exception[0]) IN
  /\ pc[0] \in {"run", "slow"} /\ (pc[0] = "run" => unsynched)
  /\ child_pending_exception' = IF l = 0 THEN e ELSE child_pending_exception
  /\ right_pending_exception' = [k \in Kids |-> IF k = l THEN e
                                                ELSE right_pending_exception[k]]
  /\ pending_exception' = [pending_exception EXCEPT ![0] = None]
  /\ \/ /\ Deposit(l, JoinedAtSync, 0, <<>>)
        /\ reducer_map' = [reducer_map EXCEPT ![0] = <<>>]
        /\ Goto(0, "stalled")
     \/ /\ Deposit(l, <<>>, 0, <<>>)
        /\ reducer_map' = [reducer_map EXCEPT ![0] = JoinedAtSync]
        /\ Goto(0, "slow")
  /\ UNCHANGED <<tree, join_counter, history>>

\* The map on the left of a place is a sequence of strands.
LEMMA LeftMapType ==
  ASSUME TypeOK, N \in Nat, NEW l \in 0..N
  PROVE  LeftMap(l) \in Seq(0..(2 * N))
BY DEF TypeOK, LeftMap, Kids

\* The two paths of a child that returns are one kind of move: what it holds goes
\* to its left, or it takes what is there and tries again.
LEMMA PathIsMove ==
  ASSUME TypeOK, KidsInv, N \in Nat, NEW i \in Kids, FastPath(i) \/ SlowPath(i)
  PROVE  Move(i)
<1>1. CASE FastPath(i)
  BY <1>1 DEF FastPath, Move, Joined
<1>2. CASE SlowPath(i)
  <2>1. i \in Linked
    BY <1>2, Zenon DEF SlowPath, KidsInv
  <2>2. LeftOf(i) \in 0..N
    <3>1. Linked \subseteq 1..N
      BY ContentType DEF TypeOK, Linked, Kids
    <3>2. LeftOf(i) \in Linked \cup {0}
      BY <2>1, LeftOfNearest DEF TypeOK, KidsInv
    <3>3. \A l \in Linked \cup {0} : l \in 0..N
      BY <3>1
    <3>4. QED
      BY <3>2, <3>3, Zenon
  <2> DEFINE L == LeftMap(LeftOf(i))
             M == reducer_map[i]
             R == right_reducer_map[i]
             left == IF L = <<>> THEN M ELSE L
             m1 == IF L = <<>> THEN <<>> ELSE M
             middle == IF m1 = <<>> THEN R ELSE m1
             right == IF m1 = <<>> THEN <<>> ELSE R
  <2>3. L \in Seq(0..(2 * N)) /\ M \in Seq(0..(2 * N)) /\ R \in Seq(0..(2 * N))
    <3>1. L \in Seq(0..(2 * N))
      BY <2>2, LeftMapType
    <3>2. i \in All
      BY DEF Kids, All
    <3>3. QED
      BY <3>1, <3>2 DEF TypeOK
  <2>4. /\ left \o middle \o right = L \o M \o R
        /\ middle = <<>> => right = <<>> /\ left = L \o M \o R
    <3> HIDE DEF L, M, R
    <3>1. \A s \in Seq(0..(2 * N)) : s \o <<>> = s /\ <<>> \o s = s
      OBVIOUS
    <3>2. L \o M \in Seq(0..(2 * N)) /\ M \o R \in Seq(0..(2 * N))
      BY <2>3
    <3>3. CASE L = <<>>
      BY <2>3, <3>1, <3>2, <3>3
    <3>4. CASE L # <<>> /\ M = <<>>
      BY <2>3, <3>1, <3>2, <3>4
    <3>5. CASE L # <<>> /\ M # <<>>
      BY <3>5
    <3>6. QED
      BY <3>3, <3>4, <3>5, Zenon
  <2>5. /\ pc[i] \in {"run", "slow"}
        /\ SpliceExceptions(i, LeftOf(i))
        /\ IF middle = <<>>
           THEN /\ Deposit(LeftOf(i), left, i, right)
                /\ reducer_map' = [reducer_map EXCEPT ![i] = <<>>]
                /\ Finish(i)
           ELSE /\ Deposit(LeftOf(i), <<>>, i, <<>>)
                /\ reducer_map' = [reducer_map EXCEPT ![i] = left \o middle \o right]
                /\ Goto(i, "slow")
                /\ UNCHANGED kids
        /\ UNCHANGED <<spawned, unsynched, join_counter, history>>
    BY <1>2, Zenon DEF SlowPath
  <2>6. Joined(i) = L \o M \o R
    BY DEF Joined
  <2> HIDE DEF L, M, R, left, middle, right, m1
  <2>7. CASE middle = <<>>
    BY <2>4, <2>5, <2>6, <2>7, Zenon DEF Move
  <2>8. CASE middle # <<>>
    BY <2>4, <2>5, <2>6, <2>8 DEF Move
  <2>9. QED
    BY <2>7, <2>8, Zenon
<1>3. QED
  BY <1>1, <1>2

\* So is the slow path of a worker that reaches the sync.
LEMMA SyncPathIsMove ==
  ASSUME TypeOK, KidsInv, N \in Nat, SyncSlowPath
  PROVE  MoveAtSync
<1>1. LeftOfSync \in 0..N
  <2>1. LeftOfSync \in Linked \cup {0} /\ Linked \subseteq Kids
    BY LeftOfSyncNearest, ContentType DEF TypeOK, KidsInv, Linked
  <2>2. QED
    BY <2>1 DEF Kids
<1>2. LeftMap(LeftOfSync) \in Seq(0..(2 * N)) /\ reducer_map[0] \in Seq(0..(2 * N))
  <2>1. LeftMap(LeftOfSync) \in Seq(0..(2 * N))
    BY <1>1, LeftMapType
  <2>2. 0 \in All
    BY DEF All
  <2>3. QED
    BY <2>1, <2>2, Zenon DEF TypeOK
<1>3. /\ LeftMap(LeftOfSync) = <<>> => JoinedAtSync = reducer_map[0]
      /\ reducer_map[0] = <<>> => JoinedAtSync = LeftMap(LeftOfSync)
  <2> DEFINE p == LeftMap(LeftOfSync)
             q == reducer_map[0]
             S == 0..(2 * N)
  <2>1. p \in Seq(S) /\ q \in Seq(S)
    BY <1>2
  <2> HIDE DEF p, q, S
  <2>2. p = <<>> => p \o q = q
    BY <2>1
  <2>3. q = <<>> => p \o q = p
    BY <2>1
  <2>4. QED
    BY <2>2, <2>3 DEF JoinedAtSync, p, q
<1>4. CASE LeftMap(LeftOfSync) = <<>>
  BY <1>3, <1>4 DEF SyncSlowPath, MoveAtSync
<1>5. CASE LeftMap(LeftOfSync) # <<>>
  BY <1>3, <1>5, Zenon DEF SyncSlowPath, MoveAtSync, JoinedAtSync
<1>6. QED
  BY <1>4, <1>5

-----------------------------------------------------------------------------
(***************************************************************************)
(* A child that returns: its place, and the place on its left.             *)
(***************************************************************************)
\* Around a child that returns: its left neighbour, and the list after it.
LEMMA MoveFacts ==
  ASSUME ReducerInv, NEW i \in Kids, Move(i)
  PROVE  /\ i \in Linked /\ i \in Open /\ i \in Int /\ i \in All /\ i \in Spots
         /\ i # 0 /\ i # N + 1
         /\ LeftOf(i) \in 0..N /\ LeftOf(i) \in Open /\ LeftOf(i) < i
         /\ LeftOf(i) = 0 \/ LeftOf(i) \in Linked
         /\ \A k \in Open : k <= LeftOf(i) \/ i <= k
         /\ kids' \in Seq(Kids) /\ Increasing(kids')
         /\ \/ Linked' = Linked \ {i} /\ pc' = [pc EXCEPT ![i] = "spliced"]
            \/ Linked' = Linked /\ pc' = [pc EXCEPT ![i] = "slow"]
         /\ Open' \subseteq Open /\ LeftOf(i) \in Open'
         /\ Going' = Going \ {i}
         /\ Going' \subseteq (Going \cap Open') \ {i}
<1>1. /\ N \in Nat /\ Linked \subseteq 1..N
  BY PlaceFacts
<1>2. /\ i \in Linked /\ i \in Open /\ i \in Int /\ i \in All /\ i \in Spots
      /\ i # 0 /\ i # N + 1
  BY <1>1 DEF Move, ReducerInv, KidsInv, Open, Kids, All, Spots
<1>3. kids \in Seq(Kids) /\ Increasing(kids)
  BY DEF ReducerInv, TypeOK, KidsInv
<1>4. /\ Place(i) \in DOMAIN kids /\ kids[Place(i)] = i
      /\ LeftOf(i) \in Linked \cup {0} /\ LeftOf(i) < i /\ LeftOf(i) \in Int
      /\ \A k \in Linked : k <= LeftOf(i) \/ i <= k
  BY <1>1, <1>2, <1>3, LeftOfNearest
<1> DEFINE l == LeftOf(i)
<1> HIDE DEF l
<1>5. /\ l \in Linked \cup {0} /\ l < i /\ l \in Int
      /\ \A k \in Linked : k <= l \/ i <= k
  BY <1>4 DEF l
<1>6. l \in 0..N /\ l \in Open /\ (l = 0 \/ l \in Linked)
  BY <1>1, <1>5 DEF Open
<1>7. \A k \in Open : k <= l \/ i <= k
  BY <1>1, <1>2, <1>5, <1>6 DEF Open, Kids
<1>8. /\ kids' \in Seq(Kids) /\ Increasing(kids')
      /\ \/ Linked' = Linked \ {i} /\ pc' = [pc EXCEPT ![i] = "spliced"]
         \/ Linked' = Linked /\ pc' = [pc EXCEPT ![i] = "slow"]
  <2>1. CASE Finish(i)
    <3>1. /\ kids' = SubSeq(kids, 1, Place(i) - 1) \o SubSeq(kids, Place(i) + 1, Len(kids))
          /\ pc' = [pc EXCEPT ![i] = "spliced"]
      BY <2>1 DEF Finish, Goto
    <3>2. Kids \subseteq Int
      BY DEF Kids
    <3>3. /\ kids' \in Seq(Kids) /\ Increasing(kids')
          /\ Content(kids') = Content(kids) \ {i}
      BY <1>3, <1>4, <3>1, <3>2, ContentRemove
    <3>4. QED
      BY <3>1, <3>3 DEF Linked
  <2>2. CASE Goto(i, "slow") /\ UNCHANGED kids
    BY <1>3, <2>2 DEF Goto, Linked
  <2>3. QED
    BY <2>1, <2>2 DEF Move
<1>9. Open' \subseteq Open /\ l \in Open'
  BY <1>5, <1>6, <1>8 DEF Open
<1>10. Going' = Going \ {i}
  <2>1. pc \in [All -> {"new", "run", "slow", "stalled", "waiting", "spliced", "done"}]
    BY DEF ReducerInv, TypeOK
  <2>2. /\ pc'[i] # "run"
        /\ \A k \in Kids \ {i} : pc'[k] = pc[k]
    BY <1>1, <1>2, <1>8, <2>1 DEF Kids, All
  <2>3. QED
    BY <2>2 DEF Going
<1>11. Going' \subseteq (Going \cap Open') \ {i}
  BY <1>8, <1>10, PlaceFacts DEF Open
<1>12. QED
  BY <1>2, <1>5, <1>6, <1>7, <1>8, <1>9, <1>10, <1>11 DEF l

\* The three maps of a child that returns are joined in serial order.
LEMMA JoinedInOrder ==
  ASSUME ReducerInv, NEW i \in Kids, Move(i)
  PROVE  /\ Joined(i) \in Seq(0..(2 * N)) /\ Increasing(Joined(i))
         /\ Content(Joined(i)) =
              RightViews[LeftOf(i)] \cup OwnViews[i] \cup RightViews[i]
<1> DEFINE l == LeftOf(i)
           S == 0..(2 * N)
<1>1. /\ i \in Open /\ i \in Int /\ i \in All /\ i \in Spots /\ i # 0 /\ i # N + 1
      /\ l \in 0..N /\ l \in Open /\ l < i /\ N \in Nat /\ l \in Spots
  BY MoveFacts, PlaceFacts
<1>2. S \in SUBSET Int
  OBVIOUS
<1>3. /\ LeftMap(l) \in Seq(S) /\ reducer_map[i] \in Seq(S)
      /\ right_reducer_map[i] \in Seq(S)
  BY <1>1, LeftMapType, Zenon DEF ReducerInv, TypeOK
<1>4. /\ Increasing(LeftMap(l)) /\ Increasing(reducer_map[i])
      /\ Increasing(right_reducer_map[i])
  BY <1>1 DEF ReducerInv, MapInv, LeftMap, Kids
<1>5. /\ RightViews[l] = Content(LeftMap(l))
      /\ OwnViews[i] = Content(reducer_map[i])
      /\ RightViews[i] = Content(right_reducer_map[i])
  BY <1>1 DEF RightViews, OwnViews, LeftMap
<1>6. /\ Less(OwnViews[i], RightViews[i])
      /\ Less(OwnViews[l] \cup RightViews[l], OwnViews[i] \cup RightViews[i])
  BY <1>1 DEF ReducerInv, MapInv, Serial
<1> HIDE DEF l, S
<1> DEFINE L == LeftMap(l)
           M == reducer_map[i]
           R == right_reducer_map[i]
<1>7. /\ L \in Seq(S) /\ M \in Seq(S) /\ R \in Seq(S)
      /\ Increasing(L) /\ Increasing(M) /\ Increasing(R)
      /\ Less(Content(L), Content(M)) /\ Less(Content(M), Content(R))
      /\ Less(Content(L), Content(R))
  BY <1>3, <1>4, <1>5, <1>6 DEF Less
<1> HIDE DEF L, M, R
<1>8. /\ L \o M \in Seq(S) /\ Increasing(L \o M)
      /\ Content(L \o M) = Content(L) \cup Content(M)
  BY <1>2, <1>7, ContentConcat, IncreasingConcat
<1>9. Less(Content(L \o M), Content(R))
  BY <1>7, <1>8 DEF Less
<1>10. /\ (L \o M) \o R \in Seq(S) /\ Increasing((L \o M) \o R)
       /\ Content((L \o M) \o R) = Content(L) \cup Content(M) \cup Content(R)
  <2> DEFINE P == L \o M
  <2>1. /\ P \in Seq(S) /\ Increasing(P) /\ Less(Content(P), Content(R))
        /\ Content(P) = Content(L) \cup Content(M)
    BY <1>8, <1>9
  <2> HIDE DEF P
  <2>2. P \o R \in Seq(S) /\ Content(P \o R) = Content(P) \cup Content(R)
    BY <1>7, <2>1, ContentConcat
  <2>3. Increasing(P \o R)
    BY <1>2, <1>7, <2>1, IncreasingConcat, Zenon
  <2>4. QED
    BY <2>1, <2>2, <2>3 DEF P
<1>11. QED
  BY <1>5, <1>10 DEF Joined, L, M, R, l, S

\* Moving sets between the places of a frame loses nothing.
Rearranged(own, right, own2, right2, l, i) ==
  /\ l \in Spots /\ i \in Spots
  /\ \A k \in Spots \ {i} : own2[k] = own[k]
  /\ \A k \in Spots \ {i, l} : right2[k] = right[k]
  /\ own2[i] \cup right2[i] \cup right2[l] = own[i] \cup right[i] \cup right[l]

\* A move loses no strand and makes none up.
LEMMA AllShift ==
  ASSUME NEW own, NEW right, NEW own2, NEW right2, NEW l, NEW i,
         Rearranged(own, right, own2, right2, l, i)
  PROVE  Held(own2, right2) = Held(own, right)
<1> USE DEF Rearranged
<1>1. ASSUME NEW a
      PROVE  a \in Held(own2, right2) <=> a \in Held(own, right)
  <2>1. /\ a \in Held(own2, right2) <=> \E k \in Spots : a \in own2[k] \/ a \in right2[k]
        /\ a \in Held(own, right) <=> \E k \in Spots : a \in own[k] \/ a \in right[k]
    BY DEF Held
  <2>2. ASSUME NEW k \in Spots, a \in own2[k] \/ a \in right2[k]
        PROVE  \E j \in Spots : a \in own[j] \/ a \in right[j]
    BY <2>2
  <2>3. ASSUME NEW k \in Spots, a \in own[k] \/ a \in right[k]
        PROVE  \E j \in Spots : a \in own2[j] \/ a \in right2[j]
    BY <2>3
  <2>4. QED
    BY <2>1, <2>2, <2>3
<1>2. QED
  BY <1>1

\* The maps when a child returns.
LEMMA MoveMaps ==
  ASSUME ReducerInv, NEW i \in Kids, Move(i)
  PROVE  /\ MapInv'
         /\ reducer_map' \in [All -> Seq(0..(2 * N))]
         /\ right_reducer_map' \in [Kids -> Seq(0..(2 * N))]
         /\ children_reducer_map' \in Seq(0..(2 * N))
<1> DEFINE l == LeftOf(i)
           S == 0..(2 * N)
           J == Joined(i)
<1>1. /\ i \in Open /\ i \in Int /\ i \in All /\ i \in Spots /\ i # 0 /\ i # N + 1
      /\ l \in 0..N /\ l \in Open /\ l < i /\ l \in Spots /\ l # i /\ l # N + 1
      /\ \A k \in Open : k <= l \/ i <= k
      /\ Open' \subseteq Open /\ l \in Open'
      /\ Going' \subseteq (Going \cap Open') \ {i}
      /\ N \in Nat /\ Going \subseteq Open /\ Open \subseteq Spots
      /\ Whole(OwnViews, RightViews, Open)
  BY MoveFacts, PlaceFacts
<1>2. /\ J \in Seq(S) /\ Increasing(J) /\ <<>> \in Seq(S) /\ Increasing(<<>>)
      /\ Content(<<>>) = {}
      /\ Content(J) = RightViews[l] \cup OwnViews[i] \cup RightViews[i]
  BY JoinedInOrder, ContentEmpty
<1> HIDE DEF J, S
<1>3. PICK m, w : /\ (m = J /\ w = <<>>) \/ (m = <<>> /\ w = J)
                  /\ Deposit(l, m, i, <<>>)
                  /\ reducer_map' = [reducer_map EXCEPT ![i] = w]
  BY DEF Move, J
<1>4. /\ m \in Seq(S) /\ w \in Seq(S) /\ Increasing(m) /\ Increasing(w)
      /\ Content(m) = {} \/ Content(w) = {}
      /\ Content(m) \cup Content(w) = RightViews[l] \cup OwnViews[i] \cup RightViews[i]
  BY <1>2, <1>3, Zenon
<1>5. /\ children_reducer_map' = IF l = 0 THEN m ELSE children_reducer_map
      /\ right_reducer_map' = [k \in Kids |-> IF k = l THEN m
                                  ELSE IF k = i THEN <<>> ELSE right_reducer_map[k]]
      /\ reducer_map' = [reducer_map EXCEPT ![i] = w]
  BY <1>3 DEF Deposit
<1> HIDE DEF l
<1>6. /\ reducer_map \in [All -> Seq(S)] /\ right_reducer_map \in [Kids -> Seq(S)]
      /\ children_reducer_map \in Seq(S)
  BY DEF ReducerInv, TypeOK, S
<1>7. /\ reducer_map' \in [All -> Seq(S)] /\ right_reducer_map' \in [Kids -> Seq(S)]
      /\ children_reducer_map' \in Seq(S)
  BY <1>2, <1>4, <1>5, <1>6, Zenon
<1>8. /\ \A x \in All : Increasing(reducer_map'[x])
      /\ \A x \in Kids : Increasing(right_reducer_map'[x])
      /\ Increasing(children_reducer_map')
  BY <1>2, <1>4, <1>5, <1>6 DEF ReducerInv, MapInv
<1>9. \A k \in Spots : /\ k = 0 \/ k = N + 1 \/ k \in Kids
                       /\ k \in Kids => k \in All /\ k # 0 /\ k # N + 1
  BY <1>1 DEF Spots, Kids, All
<1>10. \A k \in Spots \ {i} : OwnViews'[k] = OwnViews[k]
  BY <1>1, <1>5, <1>6, <1>9 DEF OwnViews
<1>11. OwnViews'[i] = Content(w)
  BY <1>1, <1>5, <1>6 DEF OwnViews
<1>12. \A k \in Spots \ {i, l} : RightViews'[k] = RightViews[k]
  BY <1>1, <1>5, <1>6, <1>9 DEF RightViews
<1>13. RightViews'[i] = {} /\ RightViews'[l] = Content(m)
  <2>1. l # 0 => l \in Kids
    BY <1>1 DEF Kids
  <2>2. QED
    BY <1>1, <1>2, <1>5, <1>6, <2>1 DEF RightViews
<1>14. Serial(OwnViews, RightViews, Open, Going)
  BY DEF ReducerInv, MapInv
<1>15. Serial(OwnViews', RightViews', Open', Going')
  <2>1. /\ \A k \in Open' \ {i} : OwnViews'[k] = OwnViews[k]
        /\ \A k \in Open' \ {i, l} : RightViews'[k] = RightViews[k]
    BY <1>1, <1>10, <1>12, Zenon
  <2>2. /\ OwnViews'[i] \subseteq RightViews[l] \cup OwnViews[i] \cup RightViews[i]
        /\ RightViews'[l] \subseteq RightViews[l] \cup OwnViews[i] \cup RightViews[i]
        /\ RightViews'[i] = {} /\ (OwnViews'[i] = {} \/ RightViews'[l] = {})
    BY <1>4, <1>11, <1>13
  <2>3. Shift(OwnViews, RightViews, Open, Going, OwnViews', RightViews', Open', Going', l, i)
    BY <1>1, <1>14, <2>1, <2>2 DEF Shift
  <2>4. QED
    BY <2>3, SerialShift
<1>16. Held(OwnViews', RightViews') = Held(OwnViews, RightViews)
  <2>1. OwnViews'[i] \cup RightViews'[i] \cup RightViews'[l]
          = OwnViews[i] \cup RightViews[i] \cup RightViews[l]
    BY <1>4, <1>11, <1>13
  <2>2. Rearranged(OwnViews, RightViews, OwnViews', RightViews', l, i)
    BY <1>1, <1>10, <1>12, <2>1 DEF Rearranged
  <2>3. QED
    BY <2>2, AllShift
<1>17. updates' = updates /\ spawned' = spawned
  BY DEF Move, history
<1>18. MapInv'
  BY <1>8, <1>15, <1>16, <1>17 DEF ReducerInv, MapInv, Held
<1>19. QED
  BY <1>7, <1>18 DEF S

\* The exceptions when the first of two neighbours survives.
Kept(own, right, own2, right2, l, i) ==
  /\ l \in Spots /\ i \in Spots
  /\ \A k \in Spots \ {i} : own2[k] = own[k]
  /\ \A k \in Spots \ {i, l} : right2[k] = right[k]
  /\ own2[i] = {} /\ right2[i] = {}
  /\ right2[l] \subseteq right[l] \cup own[i] \cup right[i]
  /\ \A e \in right[l] \cup own[i] \cup right[i] : \E f \in right2[l] : f <= e
  /\ \A k \in Spots : own[k] \subseteq Int /\ right[k] \subseteq Int

\* A move that may drop all but the first exception keeps the first of T.
LEMMA AllKept ==
  ASSUME NEW own, NEW right, NEW own2, NEW right2, NEW l, NEW i, NEW T \in SUBSET Int,
         Kept(own, right, own2, right2, l, i),
         Held(own, right) \subseteq T,
         T # {} => \E e \in Held(own, right) : \A s \in T : e <= s
  PROVE  /\ Held(own2, right2) \subseteq T
         /\ T # {} => \E e \in Held(own2, right2) : \A s \in T : e <= s
<1> USE DEF Kept
<1>1. /\ \A a : a \in Held(own2, right2) <=> \E k \in Spots : a \in own2[k] \/ a \in right2[k]
      /\ \A a : a \in Held(own, right) <=> \E k \in Spots : a \in own[k] \/ a \in right[k]
  BY DEF Held
<1>2. Held(own2, right2) \subseteq T
  <2>1. ASSUME NEW a, NEW k \in Spots, a \in own2[k] \/ a \in right2[k]
        PROVE  \E j \in Spots : a \in own[j] \/ a \in right[j]
    BY <2>1
  <2>2. QED
    BY <1>1, <2>1
<1>3. ASSUME NEW e, NEW k \in Spots, e \in own[k] \/ e \in right[k]
      PROVE  \E f \in Held(own2, right2) : f <= e
  <2>1. CASE e \in right[l] \cup own[i] \cup right[i]
    <3>1. PICK f \in right2[l] : f <= e
      BY <2>1
    <3>2. f \in Held(own2, right2)
      BY <1>1
    <3>3. QED
      BY <3>1, <3>2
  <2>2. CASE e \notin right[l] \cup own[i] \cup right[i]
    <3>1. e \in own2[k] \/ e \in right2[k]
      BY <1>3, <2>2
    <3>2. e \in Held(own2, right2) /\ e \in Int
      BY <1>1, <1>3, <3>1
    <3>3. QED
      BY <3>2
  <2>3. QED
    BY <2>1, <2>2
<1>4. ASSUME T # {}
      PROVE  \E f \in Held(own2, right2) : \A s \in T : f <= s
  <2>1. PICK e \in Held(own, right) : \A s \in T : e <= s
    BY <1>4
  <2>2. PICK k \in Spots : e \in own[k] \/ e \in right[k]
    BY <1>1
  <2>3. PICK f \in Held(own2, right2) : f <= e
    BY <1>3, <2>2
  <2>4. e \in Int /\ f \in Int /\ \A s \in T : s \in Int
    BY <1>2, <2>2, Zenon
  <2>5. QED
    BY <2>1, <2>3, <2>4
<1>5. QED
  BY <1>2, <1>4

\* The exceptions when a child returns.
LEMMA MoveThrows ==
  ASSUME ReducerInv, NEW i \in Kids, Move(i)
  PROVE  /\ ThrowInv'
         /\ pending_exception' \in [All -> 0..(2 * N) \cup {None}]
         /\ right_pending_exception' \in [Kids -> 0..(2 * N) \cup {None}]
         /\ child_pending_exception' \in 0..(2 * N) \cup {None}
<1> DEFINE l == LeftOf(i)
           S == 0..(2 * N) \cup {None}
           x == IF l = 0 THEN child_pending_exception ELSE right_pending_exception[l]
           y == pending_exception[i]
           z == right_pending_exception[i]
           m == MergeExceptions(MergeExceptions(x, y), z)
<1>1. /\ i \in Open /\ i \in Int /\ i \in All /\ i \in Spots /\ i # 0 /\ i # N + 1
      /\ l \in 0..N /\ l \in Open /\ l < i /\ l \in Spots /\ l # i /\ l # N + 1
      /\ \A k \in Open : k <= l \/ i <= k
      /\ Open' \subseteq Open /\ l \in Open'
      /\ Going' = Going \ {i} /\ Going' \subseteq (Going \cap Open') \ {i}
      /\ N \in Nat /\ Going \subseteq Open /\ Open \subseteq Spots /\ None \notin Int
      /\ Whole(OwnThrows, RightThrows, Open)
      /\ pc'[0] = pc[0]
  <2>1. pc \in [All -> {"new", "run", "slow", "stalled", "waiting", "spliced", "done"}]
    BY DEF ReducerInv, TypeOK
  <2>2. 0 \in All /\ i # 0
    BY MoveFacts, PlaceFacts DEF All
  <2>3. pc'[0] = pc[0]
    BY <2>1, <2>2, MoveFacts
  <2>4. QED
    BY <2>3, MoveFacts, PlaceFacts
<1>2. /\ child_pending_exception' = IF l = 0 THEN m ELSE child_pending_exception
      /\ right_pending_exception' = [k \in Kids |-> IF k = l THEN m
                                   ELSE IF k = i THEN None ELSE right_pending_exception[k]]
      /\ pending_exception' = [pending_exception EXCEPT ![i] = None]
  BY DEF Move, SpliceExceptions
<1>3. l # 0 => l \in Kids
  BY <1>1 DEF Kids
<1> HIDE DEF l
<1>4. /\ pending_exception \in [All -> S] /\ right_pending_exception \in [Kids -> S]
      /\ child_pending_exception \in S
  BY DEF ReducerInv, TypeOK
<1>5. x \in S /\ y \in S /\ z \in S
  BY <1>1, <1>3, <1>4
<1>6. /\ RightThrows[l] = {x} \ {None} /\ OwnThrows[i] = {y} \ {None}
      /\ RightThrows[i] = {z} \ {None}
  BY <1>1 DEF RightThrows, OwnThrows
<1>7. Serial(OwnThrows, RightThrows, Open, Going)
  BY DEF ReducerInv, ThrowInv
<1>8. /\ Less(OwnThrows[i], RightThrows[i])
      /\ Less(OwnThrows[l] \cup RightThrows[l], OwnThrows[i] \cup RightThrows[i])
  BY <1>1, <1>7 DEF Serial
<1>9. /\ m \in {x, y, z}
      /\ {m} \ {None} \subseteq RightThrows[l] \cup OwnThrows[i] \cup RightThrows[i]
      /\ \A e \in RightThrows[l] \cup OwnThrows[i] \cup RightThrows[i] : m # None /\ m <= e
  <2> HIDE DEF x, y, z
  <2>1. x \in Int \cup {None} /\ y \in Int \cup {None} /\ z \in Int \cup {None}
    BY <1>5
  <2>2. /\ Less({x} \ {None}, {y} \ {None}) /\ Less({y} \ {None}, {z} \ {None})
        /\ Less({x} \ {None}, {z} \ {None})
    BY <1>6, <1>8 DEF Less
  <2>3. /\ m \in {x, y, z}
        /\ {m} \ {None} \subseteq ({x} \ {None}) \cup ({y} \ {None}) \cup ({z} \ {None})
        /\ \A e \in {x, y, z} \ {None} : m # None /\ m <= e
    BY <1>1, <2>1, <2>2 DEF MergeExceptions, Less
  <2>4. QED
    BY <1>6, <2>3
<1> HIDE DEF x, y, z, m
<1>10. m \in S
  BY <1>5, <1>9
<1>11. /\ pending_exception' \in [All -> S] /\ right_pending_exception' \in [Kids -> S]
       /\ child_pending_exception' \in S
  BY <1>2, <1>4, <1>10, Zenon
<1>12. \A k \in Spots : /\ k = 0 \/ k = N + 1 \/ k \in Kids
                        /\ k \in Kids => k \in All /\ k # 0 /\ k # N + 1
  BY <1>1 DEF Spots, Kids, All
<1>13. \A k \in Spots \ {i} : OwnThrows'[k] = OwnThrows[k]
  <2>1. \A j \in All \ {i} : pending_exception'[j] = pending_exception[j]
    BY <1>2, <1>4
  <2>2. \A k \in Spots \ {i} : (IF k = N + 1 THEN 0 ELSE k) = i => k = 0
    BY <1>1
  <2>3. \A k \in Spots : k # 0 => (IF k = N + 1 THEN 0 ELSE k) \in All
    BY <1>1, <1>12 DEF All
  <2>4. QED
    BY <2>1, <2>2, <2>3 DEF OwnThrows
<1>14. OwnThrows'[i] = {}
  BY <1>1, <1>2, <1>4 DEF OwnThrows
<1>15. \A k \in Spots \ {i, l} : RightThrows'[k] = RightThrows[k]
  BY <1>1, <1>2, <1>4, <1>12, Zenon DEF RightThrows
<1>16. RightThrows'[i] = {} /\ RightThrows'[l] = {m} \ {None}
  BY <1>1, <1>2, <1>3, <1>4 DEF RightThrows
<1>17. Serial(OwnThrows', RightThrows', Open', Going')
  <2>1. /\ \A k \in Open' \ {i} : OwnThrows'[k] = OwnThrows[k]
        /\ \A k \in Open' \ {i, l} : RightThrows'[k] = RightThrows[k]
    BY <1>1, <1>13, <1>15
  <2>2. /\ RightThrows'[l] \subseteq RightThrows[l] \cup OwnThrows[i] \cup RightThrows[i]
        /\ OwnThrows'[i] \subseteq RightThrows[l] \cup OwnThrows[i] \cup RightThrows[i]
    BY <1>9, <1>14, <1>16
  <2>3. Shift(OwnThrows, RightThrows, Open, Going, OwnThrows', RightThrows', Open', Going', l, i)
    BY <1>1, <1>7, <1>14, <1>16, <2>1, <2>2 DEF Shift
  <2>4. QED
    BY <2>3, SerialShift
<1>18. thrown' = thrown /\ spawned' = spawned
  BY DEF Move, history
<1>19. /\ Held(OwnThrows', RightThrows') \subseteq thrown
       /\ thrown # {} => \E e \in Held(OwnThrows', RightThrows') : \A s \in thrown : e <= s
  <2>1. \A e \in RightThrows[l] \cup OwnThrows[i] \cup RightThrows[i] :
          \E f \in RightThrows'[l] : f <= e
    BY <1>9, <1>16
  <2>2. \A k \in Spots : OwnThrows[k] \subseteq Int /\ RightThrows[k] \subseteq Int
    BY <1>1, <1>4, <1>12 DEF OwnThrows, RightThrows, All
  <2>3. Kept(OwnThrows, RightThrows, OwnThrows', RightThrows', l, i)
    BY <1>1, <1>9, <1>13, <1>14, <1>15, <1>16, <2>1, <2>2 DEF Kept
  <2>4. /\ thrown \in SUBSET Int /\ Held(OwnThrows, RightThrows) \subseteq thrown
        /\ thrown # {} => \E e \in Held(OwnThrows, RightThrows) : \A s \in thrown : e <= s
    BY DEF ReducerInv, TypeOK, ThrowInv
  <2>5. QED
    BY <2>3, <2>4, AllKept
<1>20. /\ \A g \in Going' : 2 * g - 1 \in thrown => pending_exception'[g] # None
       /\ 2 * spawned \in thrown /\ pc'[0] = "run" => pending_exception'[0] # None
  <2>1. \A g \in Going : 2 * g - 1 \in thrown => pending_exception[g] # None
    BY DEF ReducerInv, ThrowInv
  <2>2. 2 * spawned \in thrown /\ pc[0] = "run" => pending_exception[0] # None
    BY DEF ReducerInv, ThrowInv
  <2>3. 0 \in All /\ \A g \in Going : g \in All
    BY <1>1 DEF All, Going, Kids
  <2>4. QED
    BY <1>1, <1>2, <1>4, <2>1, <2>2, <2>3
<1>21. ThrowInv'
  BY <1>17, <1>18, <1>19, <1>20 DEF ReducerInv, ThrowInv, Held
<1>22. QED
  BY <1>11, <1>21

\* The links, the states of the workers and the join counter when a child returns.
LEMMA MovePreserves ==
  ASSUME ReducerInv, NEW i \in Kids, Move(i)
  PROVE  ReducerInv'
<1> DEFINE l == LeftOf(i)
           PC == {"new", "run", "slow", "stalled", "waiting", "spliced", "done"}
<1>1. /\ i \in Linked /\ i \in All /\ i # 0 /\ l # i /\ (l = 0 \/ l \in Linked)
      /\ kids' \in Seq(Kids) /\ Increasing(kids') /\ N \in Nat /\ Linked \subseteq 1..N
      /\ \/ Linked' = Linked \ {i} /\ pc' = [pc EXCEPT ![i] = "spliced"]
         \/ Linked' = Linked /\ pc' = [pc EXCEPT ![i] = "slow"]
  BY MoveFacts, PlaceFacts
<1>2. /\ pc \in [All -> PC] /\ pc[i] \in {"run", "slow"}
      /\ reducer_map \in [All -> Seq(0..(2 * N))]
      /\ pending_exception \in [All -> 0..(2 * N) \cup {None}]
  BY DEF ReducerInv, TypeOK, Move
<1>3. /\ pc' \in [All -> PC]
      /\ \A k \in All \ {i} : pc'[k] = pc[k]
      /\ \/ Linked' = Linked \ {i} /\ pc'[i] = "spliced"
         \/ Linked' = Linked /\ pc'[i] = "slow"
  <2>1. "spliced" \in PC /\ "slow" \in PC
    OBVIOUS
  <2> HIDE DEF PC
  <2>2. QED
    BY <1>1, <1>2, <2>1, Zenon
<1>4. 0 \in All /\ (\A k \in Kids : k \in All /\ k # 0)
  BY <1>1 DEF All, Kids
<1> HIDE DEF l, PC
<1>5. /\ pending_exception' = [pending_exception EXCEPT ![i] = None]
      /\ \A k \in Kids \ {l} : /\ k # i => right_pending_exception'[k] = right_pending_exception[k]
                               /\ k = i => right_pending_exception'[k] = None
      /\ l = 0 \/ child_pending_exception' = child_pending_exception
  BY DEF Move, SpliceExceptions, l
<1>6. /\ \A k \in Kids \ {l} : /\ k # i => right_reducer_map'[k] = right_reducer_map[k]
                               /\ k = i => right_reducer_map'[k] = <<>>
      /\ l = 0 \/ children_reducer_map' = children_reducer_map
  BY DEF Move, Deposit, l
<1>7. /\ \A k \in All \ {i} : reducer_map'[k] = reducer_map[k]
      /\ pc'[i] = "spliced" => reducer_map'[i] = <<>>
  <2>1. CASE Goto(i, "slow")
    <3>1. pc'[i] = "slow"
      BY <1>1, <1>2, <2>1 DEF Goto
    <3>2. QED
      BY <1>1, <1>2, <3>1 DEF Move
  <2>2. CASE ~Goto(i, "slow")
    BY <1>1, <1>2, <2>2 DEF Move
  <2>3. QED
    BY <2>1, <2>2
<1>8. spawned' = spawned /\ unsynched' = unsynched /\ join_counter' = join_counter
      /\ updates' = updates /\ thrown' = thrown
  BY DEF Move, history
<1>9. KidsInv'
  <2>1. \A k \in Kids : /\ k \in Linked' <=> pc'[k] \in {"run", "slow"}
                        /\ k > spawned' <=> pc'[k] = "new"
    BY <1>1, <1>2, <1>3, <1>4, <1>8 DEF ReducerInv, KidsInv
  <2>2. ASSUME NEW k \in Kids, k \notin Linked'
        PROVE  /\ reducer_map'[k] = <<>> /\ right_reducer_map'[k] = <<>>
               /\ pending_exception'[k] = None /\ right_pending_exception'[k] = None
    <3>1. CASE k = i
      <4>1. pc'[i] = "spliced"
        BY <1>1, <1>3, <2>2, <3>1
      <4>2. QED
        BY <1>1, <1>2, <1>5, <1>6, <1>7, <3>1, <4>1
    <3>2. CASE k # i
      <4>1. k \notin Linked /\ k # l
        BY <1>1, <1>3, <1>4, <2>2, <3>2
      <4>2. /\ reducer_map[k] = <<>> /\ right_reducer_map[k] = <<>>
            /\ pending_exception[k] = None /\ right_pending_exception[k] = None
        BY <4>1 DEF ReducerInv, KidsInv
      <4>3. QED
        BY <1>2, <1>4, <1>5, <1>6, <1>7, <3>2, <4>1, <4>2
    <3>3. QED
      BY <3>1, <3>2
  <2>3. QED
    BY <1>1, <2>1, <2>2 DEF KidsInv
<1>10. ParentInv'
  <2>1. Active' = Active
    BY <1>2, <1>3, <1>4 DEF Active
  <2>2. i \in Active
    BY <1>2 DEF Active
  <2>3. unsynched = TRUE
    BY <2>2, Zenon DEF ReducerInv, ParentInv
  <2>4. pc'[0] = pc[0] /\ reducer_map'[0] = reducer_map[0]
        /\ pending_exception'[0] = pending_exception[0]
    BY <1>2, <1>3, <1>4, <1>5, <1>7, Zenon
  <2>5. \A k \in Kids : pc'[k] \in {"new", "run", "slow", "spliced", "done"}
    BY <1>3, <1>4, Zenon DEF ReducerInv, ParentInv
  <2>6. Absent' = Absent
    BY <1>8, <2>4 DEF Absent
  <2>7. QED
    BY <1>8, <2>1, <2>3, <2>4, <2>5, <2>6 DEF ReducerInv, ParentInv
<1>11. TypeOK'
  BY <1>1, <1>3, <1>8, MoveMaps, MoveThrows, Zenon DEF ReducerInv, TypeOK, PC
<1>12. QED
  BY <1>9, <1>10, <1>11, MoveMaps, MoveThrows DEF ReducerInv

-----------------------------------------------------------------------------
(***************************************************************************)
(* The worker on the frame at a sync: the rightmost place.                 *)
(***************************************************************************)
LEMMA SyncFacts ==
  ASSUME ReducerInv
  PROVE  /\ LeftOfSync \in 0..N /\ LeftOfSync \in Open /\ LeftOfSync < N + 1
         /\ LeftOfSync \in Spots /\ LeftOfSync # N + 1
         /\ LeftOfSync = 0 \/ LeftOfSync \in Linked
         /\ LeftOfSync # 0 => LeftOfSync \in Kids
         /\ \A k \in Open : k <= LeftOfSync \/ N + 1 <= k
         /\ N + 1 \in Open /\ N + 1 \in Spots /\ N + 1 \notin Kids /\ N + 1 # 0
         /\ N + 1 \in Int /\ N + 1 \notin Going
<1>1. N \in Nat /\ Linked \subseteq 1..N /\ Open \subseteq Spots
  BY PlaceFacts
<1>2. /\ LeftOfSync \in Linked \cup {0} /\ LeftOfSync < N + 1 /\ LeftOfSync \in Int
      /\ \A k \in Linked : k <= LeftOfSync
  BY <1>1, LeftOfSyncNearest DEF ReducerInv, TypeOK, KidsInv
<1>3. /\ N + 1 \in Open /\ N + 1 \in Spots /\ N + 1 \notin Kids /\ N + 1 # 0
      /\ N + 1 \in Int /\ N + 1 \notin Going
  BY <1>1 DEF Open, Spots, Kids, Going
<1>4. \A k \in Open : k <= LeftOfSync \/ N + 1 <= k
  BY <1>1, <1>2 DEF Open
<1>5. QED
  BY <1>1, <1>2, <1>3, <1>4 DEF Open, Kids

\* The maps when the worker on the frame deposits at a sync.
LEMMA SyncMaps ==
  ASSUME ReducerInv, MoveAtSync
  PROVE  /\ MapInv'
         /\ reducer_map' \in [All -> Seq(0..(2 * N))]
         /\ right_reducer_map' \in [Kids -> Seq(0..(2 * N))]
         /\ children_reducer_map' \in Seq(0..(2 * N))
<1> DEFINE l == LeftOfSync
           i == N + 1
           S == 0..(2 * N)
           J == JoinedAtSync
<1>1. /\ l \in 0..N /\ l \in Open /\ l < i /\ l \in Spots /\ l # i /\ (l # 0 => l \in Kids)
      /\ \A k \in Open : k <= l \/ i <= k
      /\ i \in Open /\ i \in Spots /\ i \notin Kids /\ i # 0 /\ i \in Int /\ i \notin Going
      /\ N \in Nat /\ Going \subseteq Open /\ Open \subseteq Spots
      /\ Whole(OwnViews, RightViews, Open)
      /\ 0 \in All
  BY SyncFacts, PlaceFacts DEF All
<1>2. /\ \A k \in Kids : k \in All /\ k # 0
      /\ \A k \in Spots : k = 0 \/ k = i \/ k \in Kids
  BY <1>1 DEF All, Kids, Spots
<1>3. S \in SUBSET Int /\ <<>> \in Seq(S) /\ Increasing(<<>>) /\ Content(<<>>) = {}
  BY ContentEmpty
<1>4. /\ reducer_map \in [All -> Seq(S)] /\ right_reducer_map \in [Kids -> Seq(S)]
      /\ children_reducer_map \in Seq(S)
  BY DEF ReducerInv, TypeOK
<1> DEFINE L == LeftMap(l)
           M == reducer_map[0]
<1>5. L \in Seq(S) /\ M \in Seq(S) /\ Increasing(L) /\ Increasing(M)
  BY <1>1, <1>4 DEF ReducerInv, MapInv, LeftMap
<1>6. /\ RightViews[l] = Content(L) /\ OwnViews[i] = Content(M) /\ RightViews[i] = {}
  BY <1>1 DEF RightViews, OwnViews, LeftMap
<1>7. Serial(OwnViews, RightViews, Open, Going)
  BY DEF ReducerInv, MapInv
<1>8. Less(Content(L), Content(M))
  <2>1. Less(OwnViews[l] \cup RightViews[l], OwnViews[i] \cup RightViews[i])
    BY <1>1, <1>7 DEF Serial
  <2>2. QED
    BY <1>6, <2>1 DEF Less
<1>9. J \in Seq(S) /\ Increasing(J) /\ Content(J) = RightViews[l] \cup OwnViews[i]
  <2> HIDE DEF L, M, S
  <2>1. L \o M \in Seq(S) /\ Content(L \o M) = Content(L) \cup Content(M)
    BY <1>5, ContentConcat
  <2>2. Increasing(L \o M)
    BY <1>3, <1>5, <1>8, IncreasingConcat
  <2>3. J = L \o M
    BY DEF JoinedAtSync, L, M
  <2>4. QED
    BY <1>6, <2>1, <2>2, <2>3
<1> HIDE DEF J, S, L, M
<1>10. PICK m, w : /\ (m = J /\ w = <<>>) \/ (m = <<>> /\ w = J)
                   /\ Deposit(l, m, 0, <<>>)
                   /\ reducer_map' = [reducer_map EXCEPT ![0] = w]
  BY DEF MoveAtSync, J
<1>11. /\ m \in Seq(S) /\ w \in Seq(S) /\ Increasing(m) /\ Increasing(w)
       /\ Content(m) = {} \/ Content(w) = {}
       /\ Content(m) \cup Content(w) = RightViews[l] \cup OwnViews[i] \cup RightViews[i]
  BY <1>3, <1>6, <1>9, <1>10, Zenon
<1>12. /\ children_reducer_map' = IF l = 0 THEN m ELSE children_reducer_map
       /\ right_reducer_map' = [k \in Kids |-> IF k = l THEN m ELSE right_reducer_map[k]]
       /\ reducer_map' = [reducer_map EXCEPT ![0] = w]
  BY <1>2, <1>10 DEF Deposit
<1> HIDE DEF l
<1>13. /\ reducer_map' \in [All -> Seq(S)] /\ right_reducer_map' \in [Kids -> Seq(S)]
       /\ children_reducer_map' \in Seq(S)
  BY <1>4, <1>11, <1>12, Zenon
<1>14. /\ \A x \in All : Increasing(reducer_map'[x])
       /\ \A x \in Kids : Increasing(right_reducer_map'[x])
       /\ Increasing(children_reducer_map')
  BY <1>4, <1>11, <1>12 DEF ReducerInv, MapInv
<1>15. Open' = Open /\ Going' = Going
  <2>1. kids' = kids
    BY DEF MoveAtSync, tree
  <2>2. pc' = [pc EXCEPT ![0] = "stalled"] \/ pc' = [pc EXCEPT ![0] = "slow"]
    BY DEF MoveAtSync, Goto
  <2>3. pc \in [All -> {"new", "run", "slow", "stalled", "waiting", "spliced", "done"}]
    BY DEF ReducerInv, TypeOK
  <2>4. \A k \in Kids : pc'[k] = pc[k]
    BY <1>2, <2>2, <2>3
  <2>5. QED
    BY <2>1, <2>4 DEF Open, Linked, Going
<1>16. \A k \in Spots \ {i} : OwnViews'[k] = OwnViews[k]
  BY <1>1, <1>2, <1>4, <1>12 DEF OwnViews
<1>17. OwnViews'[i] = Content(w)
  BY <1>1, <1>4, <1>12 DEF OwnViews
<1>18. \A k \in Spots \ {i, l} : RightViews'[k] = RightViews[k]
  BY <1>1, <1>2, <1>4, <1>12 DEF RightViews
<1>19. RightViews'[i] = {} /\ RightViews'[l] = Content(m)
  BY <1>1, <1>4, <1>12 DEF RightViews
<1> HIDE DEF i
<1>20. Serial(OwnViews', RightViews', Open', Going')
  <2>1. /\ OwnViews'[i] \subseteq RightViews[l] \cup OwnViews[i] \cup RightViews[i]
        /\ RightViews'[l] \subseteq RightViews[l] \cup OwnViews[i] \cup RightViews[i]
        /\ RightViews'[i] = {} /\ (OwnViews'[i] = {} \/ RightViews'[l] = {})
    BY <1>11, <1>17, <1>19
  <2>2. /\ Open' \subseteq Open /\ l \in Open' /\ Going' \subseteq (Going \cap Open') \ {i}
        /\ \A k \in Open' \ {i} : OwnViews'[k] = OwnViews[k]
        /\ \A k \in Open' \ {i, l} : RightViews'[k] = RightViews[k]
    BY <1>1, <1>15, <1>16, <1>18, Zenon
  <2>3. Shift(OwnViews, RightViews, Open, Going, OwnViews', RightViews', Open', Going', l, i)
    BY <1>1, <1>7, <2>1, <2>2 DEF Shift
  <2>4. QED
    BY <2>3, SerialShift
<1>21. Held(OwnViews', RightViews') = Held(OwnViews, RightViews)
  <2>1. OwnViews'[i] \cup RightViews'[i] \cup RightViews'[l]
          = OwnViews[i] \cup RightViews[i] \cup RightViews[l]
    BY <1>11, <1>17, <1>19
  <2>2. Rearranged(OwnViews, RightViews, OwnViews', RightViews', l, i)
    BY <1>1, <1>16, <1>18, <2>1, Zenon DEF Rearranged
  <2>3. QED
    BY <2>2, AllShift
<1>22. updates' = updates /\ spawned' = spawned
  BY Zenon DEF MoveAtSync, history, tree
<1>23. MapInv'
  BY <1>14, <1>20, <1>21, <1>22 DEF ReducerInv, MapInv, Held
<1>24. QED
  BY <1>13, <1>23 DEF S

\* The exceptions when the worker on the frame deposits at a sync.
LEMMA SyncThrows ==
  ASSUME ReducerInv, MoveAtSync
  PROVE  /\ ThrowInv'
         /\ pending_exception' \in [All -> 0..(2 * N) \cup {None}]
         /\ right_pending_exception' \in [Kids -> 0..(2 * N) \cup {None}]
         /\ child_pending_exception' \in 0..(2 * N) \cup {None}
<1> DEFINE l == LeftOfSync
           i == N + 1
           S == 0..(2 * N) \cup {None}
           x == IF l = 0 THEN child_pending_exception ELSE right_pending_exception[l]
           y == pending_exception[0]
           m == MergeExceptions(x, y)
<1>1. /\ l \in 0..N /\ l \in Open /\ l < i /\ l \in Spots /\ l # i /\ (l # 0 => l \in Kids)
      /\ \A k \in Open : k <= l \/ i <= k
      /\ i \in Open /\ i \in Spots /\ i \notin Kids /\ i # 0 /\ i \in Int /\ i \notin Going
      /\ N \in Nat /\ Going \subseteq Open /\ Open \subseteq Spots /\ None \notin Int
      /\ Whole(OwnThrows, RightThrows, Open)
      /\ 0 \in All
  BY SyncFacts, PlaceFacts DEF All
<1>2. /\ \A k \in Kids : k \in All /\ k # 0
      /\ \A k \in Spots : k = 0 \/ k = i \/ k \in Kids
  BY <1>1 DEF All, Kids, Spots
<1>3. /\ child_pending_exception' = IF l = 0 THEN m ELSE child_pending_exception
      /\ right_pending_exception' = [k \in Kids |-> IF k = l THEN m
                                                    ELSE right_pending_exception[k]]
      /\ pending_exception' = [pending_exception EXCEPT ![0] = None]
  BY DEF MoveAtSync
<1> HIDE DEF l
<1>4. /\ pending_exception \in [All -> S] /\ right_pending_exception \in [Kids -> S]
      /\ child_pending_exception \in S
  BY DEF ReducerInv, TypeOK
<1>5. x \in S /\ y \in S
  BY <1>1, <1>4
<1>6. /\ RightThrows[l] = {x} \ {None} /\ OwnThrows[i] = {y} \ {None}
      /\ RightThrows[i] = {}
  BY <1>1 DEF RightThrows, OwnThrows
<1>7. Serial(OwnThrows, RightThrows, Open, Going)
  BY DEF ReducerInv, ThrowInv
<1>8. Less(RightThrows[l], OwnThrows[i])
  <2>1. Less(OwnThrows[l] \cup RightThrows[l], OwnThrows[i] \cup RightThrows[i])
    BY <1>1, <1>7, Zenon DEF Serial
  <2>2. QED
    BY <2>1 DEF Less
<1>9. /\ m \in {x, y}
      /\ {m} \ {None} \subseteq RightThrows[l] \cup OwnThrows[i] \cup RightThrows[i]
      /\ \A e \in RightThrows[l] \cup OwnThrows[i] \cup RightThrows[i] : m # None /\ m <= e
  <2> HIDE DEF x, y
  <2>1. x \in Int \cup {None} /\ y \in Int \cup {None}
    BY <1>5
  <2>2. Less({x} \ {None}, {y} \ {None})
    BY <1>6, <1>8
  <2>3. QED
    BY <1>1, <1>6, <2>1, <2>2 DEF MergeExceptions, Less
<1> HIDE DEF x, y, m
<1>10. m \in S
  BY <1>5, <1>9
<1>11. /\ pending_exception' \in [All -> S] /\ right_pending_exception' \in [Kids -> S]
       /\ child_pending_exception' \in S
  BY <1>3, <1>4, <1>10, Zenon
<1>12. \A k \in Spots \ {i} : OwnThrows'[k] = OwnThrows[k]
  BY <1>1, <1>2, <1>3, <1>4 DEF OwnThrows
<1>13. OwnThrows'[i] = {}
  BY <1>1, <1>3, <1>4 DEF OwnThrows
<1>14. \A k \in Spots \ {i, l} : RightThrows'[k] = RightThrows[k]
  BY <1>1, <1>2, <1>3, <1>4, Zenon DEF RightThrows
<1>15. RightThrows'[i] = {} /\ RightThrows'[l] = {m} \ {None}
  BY <1>1, <1>3, <1>4 DEF RightThrows
<1>16. /\ Open' = Open /\ Going' = Going /\ pc'[0] # "run"
       /\ \A k \in Kids : pc'[k] = pc[k]
  <2>1. kids' = kids
    BY DEF MoveAtSync, tree
  <2>2. pc' = [pc EXCEPT ![0] = "stalled"] \/ pc' = [pc EXCEPT ![0] = "slow"]
    BY DEF MoveAtSync, Goto
  <2>3. pc \in [All -> {"new", "run", "slow", "stalled", "waiting", "spliced", "done"}]
    BY DEF ReducerInv, TypeOK
  <2>4. (\A k \in Kids : pc'[k] = pc[k]) /\ pc'[0] # "run"
    BY <1>1, <1>2, <2>2, <2>3, Zenon
  <2>5. QED
    BY <2>1, <2>4 DEF Open, Linked, Going
<1> HIDE DEF i
<1>17. Serial(OwnThrows', RightThrows', Open', Going')
  <2>1. /\ Open' \subseteq Open /\ l \in Open' /\ Going' \subseteq (Going \cap Open') \ {i}
        /\ \A k \in Open' \ {i} : OwnThrows'[k] = OwnThrows[k]
        /\ \A k \in Open' \ {i, l} : RightThrows'[k] = RightThrows[k]
    BY <1>1, <1>12, <1>14, <1>16
  <2>2. /\ RightThrows'[l] \subseteq RightThrows[l] \cup OwnThrows[i] \cup RightThrows[i]
        /\ OwnThrows'[i] \subseteq RightThrows[l] \cup OwnThrows[i] \cup RightThrows[i]
    BY <1>9, <1>13, <1>15, Zenon
  <2>3. Shift(OwnThrows, RightThrows, Open, Going, OwnThrows', RightThrows', Open', Going', l, i)
    BY <1>1, <1>7, <1>13, <1>15, <2>1, <2>2 DEF Shift
  <2>4. QED
    BY <2>3, SerialShift
<1>18. thrown' = thrown /\ spawned' = spawned
  BY DEF MoveAtSync, history, tree
<1>19. /\ Held(OwnThrows', RightThrows') \subseteq thrown
       /\ thrown # {} => \E e \in Held(OwnThrows', RightThrows') : \A s \in thrown : e <= s
  <2>1. \A e \in RightThrows[l] \cup OwnThrows[i] \cup RightThrows[i] :
          \E f \in RightThrows'[l] : f <= e
    BY <1>9, <1>15, Zenon
  <2>2. \A k \in Spots : OwnThrows[k] \subseteq Int /\ RightThrows[k] \subseteq Int
    BY <1>1, <1>2, <1>4 DEF OwnThrows, RightThrows, i
  <2>3. Kept(OwnThrows, RightThrows, OwnThrows', RightThrows', l, i)
    BY <1>1, <1>9, <1>12, <1>13, <1>14, <1>15, <2>1, <2>2 DEF Kept
  <2>4. /\ thrown \in SUBSET Int /\ Held(OwnThrows, RightThrows) \subseteq thrown
        /\ thrown # {} => \E e \in Held(OwnThrows, RightThrows) : \A s \in thrown : e <= s
    BY DEF ReducerInv, TypeOK, ThrowInv
  <2>5. QED
    BY <2>3, <2>4, AllKept
<1>20. \A g \in Going' : 2 * g - 1 \in thrown => pending_exception'[g] # None
  <2>1. \A g \in Going : g \in Kids /\ (2 * g - 1 \in thrown => pending_exception[g] # None)
    BY Zenon DEF ReducerInv, ThrowInv, Going
  <2>2. QED
    BY <1>2, <1>3, <1>4, <1>16, <2>1
<1>21. ThrowInv'
  BY <1>16, <1>17, <1>18, <1>19, <1>20 DEF ReducerInv, ThrowInv, Held
<1>22. QED
  BY <1>11, <1>21

\* The slow path of the sync preserves the invariant.
LEMMA SyncPreserves ==
  ASSUME ReducerInv, MoveAtSync
  PROVE  ReducerInv'
<1> DEFINE l == LeftOfSync
           PC == {"new", "run", "slow", "stalled", "waiting", "spliced", "done"}
<1>1. /\ (l = 0 \/ l \in Linked) /\ N \in Nat /\ 0 \in All
      /\ \A k \in Kids : k \in All /\ k # 0
  BY SyncFacts, PlaceFacts DEF All, Kids
<1>2. /\ pc \in [All -> PC] /\ reducer_map \in [All -> Seq(0..(2 * N))]
      /\ pending_exception \in [All -> 0..(2 * N) \cup {None}]
      /\ unsynched \in BOOLEAN
  BY DEF ReducerInv, TypeOK
<1>3. /\ pc' = [pc EXCEPT ![0] = "stalled"] \/ pc' = [pc EXCEPT ![0] = "slow"]
      /\ pc[0] \in {"run", "slow"}
  BY DEF MoveAtSync, Goto
<1>4. /\ pc' \in [All -> PC] /\ pc'[0] \in {"stalled", "slow"}
      /\ \A k \in Kids : pc'[k] = pc[k]
  BY <1>1, <1>2, <1>3, Zenon
<1>5. /\ kids' = kids /\ spawned' = spawned /\ unsynched' = unsynched
      /\ join_counter' = join_counter /\ updates' = updates /\ thrown' = thrown
  BY Zenon DEF MoveAtSync, tree, history
<1>6. /\ \A k \in Kids \ {l} : /\ right_reducer_map'[k] = right_reducer_map[k]
                               /\ right_pending_exception'[k] = right_pending_exception[k]
      /\ \A k \in Kids : reducer_map'[k] = reducer_map[k]
      /\ \A k \in Kids : pending_exception'[k] = pending_exception[k]
      /\ pending_exception'[0] = None
  BY <1>1, <1>2 DEF MoveAtSync, Deposit
<1>7. pc'[0] = "stalled" => reducer_map'[0] = <<>>
  <2>1. CASE Goto(0, "slow")
    <3>1. pc'[0] = "slow"
      BY <1>1, <1>2, <2>1 DEF Goto
    <3>2. QED
      BY <3>1
  <2>2. CASE ~Goto(0, "slow")
    BY <1>1, <1>2, <2>2 DEF MoveAtSync
  <2>3. QED
    BY <2>1, <2>2
<1> HIDE DEF l
<1>8. KidsInv'
  <2>1. Linked' = Linked
    BY <1>5 DEF Linked
  <2>2. ASSUME NEW k \in Kids, k \notin Linked
        PROVE  /\ reducer_map'[k] = <<>> /\ right_reducer_map'[k] = <<>>
               /\ pending_exception'[k] = None /\ right_pending_exception'[k] = None
    BY <1>1, <1>6, <2>2 DEF ReducerInv, KidsInv
  <2>3. QED
    BY <1>4, <1>5, <2>1, <2>2 DEF ReducerInv, KidsInv
<1>9. ParentInv'
  <2>1. Active' = Active
    BY <1>4 DEF Active
  <2>2. unsynched = TRUE
    BY <1>2, <1>3 DEF ReducerInv, ParentInv, MoveAtSync
  <2>3. Absent' = Absent
    BY <1>3, <1>4, <1>5 DEF Absent
  <2>4. QED
    BY <1>3, <1>4, <1>5, <1>6, <1>7, <2>1, <2>2, <2>3 DEF ReducerInv, ParentInv
<1>10. TypeOK'
  BY <1>4, <1>5, SyncMaps, SyncThrows, Zenon DEF ReducerInv, TypeOK
<1>11. QED
  BY <1>8, <1>9, <1>10, SyncMaps, SyncThrows DEF ReducerInv
=============================================================================
