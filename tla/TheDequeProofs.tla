--------------------------- MODULE TheDequeProofs ---------------------------
(***************************************************************************)
(* Proofs about TheDeque, for every set of thieves, every size of the      *)
(* deque and every number of pushes.                                       *)
(***************************************************************************)
EXTENDS TheDeque, TLAPS

(***************************************************************************)
(* Facts about the slots h..n-1 of an array q that holds numbers, and      *)
(* about what happens to them when a slot is added at the top or taken     *)
(* from either end.                                                        *)
(***************************************************************************)
\* Each of 1..p is in exactly one place: a slot of h..n-1, r or s; and the slots
\* are in increasing order.
Content(h, n, q, p, r, s) ==
  /\ \A i \in h..(n - 1) : q[i] \in 1..p /\ q[i] \notin r \union s
  /\ \A i, j \in h..(n - 1) : i < j => q[i] < q[j]
  /\ r \union s \subseteq 1..p
  /\ r \intersect s = {}
  /\ \A f \in 1..p : f \in r \union s \/ \E i \in h..(n - 1) : q[i] = f

\* Moving the slots elsewhere changes nothing.
LEMMA ContentMove ==
  ASSUME NEW h \in Int, NEW n \in Int, NEW q, NEW p \in Nat, NEW r, NEW s,
         NEW h2 \in Int, NEW n2 \in Int, NEW q2,
         Content(h, n, q, p, r, s),
         n2 - h2 = n - h, \A k \in 0..(n - h - 1) : q2[h2 + k] = q[h + k]
  PROVE  Content(h2, n2, q2, p, r, s)
<1>1. \A i \in h2..(n2 - 1) : (i - h2) + h \in h..(n - 1) /\ q2[i] = q[(i - h2) + h]
  <2> TAKE i \in h2..(n2 - 1)
  <2>1. i - h2 \in 0..(n - h - 1) /\ h2 + (i - h2) = i /\ h + (i - h2) = (i - h2) + h
    OBVIOUS
  <2>2. q2[h2 + (i - h2)] = q[h + (i - h2)]
    BY <2>1
  <2> QED BY <2>1, <2>2
<1>2. \A i \in h..(n - 1) : (i - h) + h2 \in h2..(n2 - 1) /\ q2[(i - h) + h2] = q[i]
  <2> TAKE i \in h..(n - 1)
  <2>1. i - h \in 0..(n - h - 1) /\ h2 + (i - h) = (i - h) + h2 /\ h + (i - h) = i
    OBVIOUS
  <2>2. q2[h2 + (i - h)] = q[h + (i - h)]
    BY <2>1
  <2> QED BY <2>1, <2>2
<1>3. \A i, j \in h2..(n2 - 1) : i < j => q2[i] < q2[j]
  <2> TAKE i, j \in h2..(n2 - 1)
  <2>1. i < j => (i - h2) + h < (j - h2) + h
    OBVIOUS
  <2> QED BY <2>1, <1>1 DEF Content
<1> QED BY <1>1, <1>2, <1>3 DEF Content

\* A new number goes on top.
LEMMA ContentPush ==
  ASSUME NEW h \in Int, NEW n \in Int, NEW q, NEW p \in Nat, NEW r, NEW s,
         Content(h, n, q, p, r, s), h <= n, q[n] = p + 1
  PROVE  Content(h, n + 1, q, p + 1, r, s)
<1>1. \A i \in h..((n + 1) - 1) : i \in h..(n - 1) \/ i = n
  OBVIOUS
<1>2. \A i \in h..((n + 1) - 1) : q[i] \in 1..(p + 1) /\ q[i] \notin r \union s
  BY <1>1 DEF Content
<1>3. \A i, j \in h..((n + 1) - 1) : i < j => q[i] < q[j]
  <2> TAKE i, j \in h..((n + 1) - 1)
  <2>1. CASE i < j /\ j = n
    BY <2>1, <1>1 DEF Content
  <2>2. CASE i < j /\ j # n
    BY <2>2, <1>1 DEF Content
  <2> QED BY <2>1, <2>2
<1>4. \A f \in 1..(p + 1) : f \in r \union s \/ \E i \in h..((n + 1) - 1) : q[i] = f
  <2> TAKE f \in 1..(p + 1)
  <2>1. f \in 1..p \/ f = p + 1 OBVIOUS
  <2>2. n \in h..((n + 1) - 1) OBVIOUS
  <2> QED BY <2>1, <2>2, <1>1 DEF Content
<1> QED BY <1>2, <1>3, <1>4 DEF Content

\* The top slot is taken for r.
LEMMA ContentTakeTop ==
  ASSUME NEW h \in Int, NEW n \in Int, NEW q, NEW p \in Nat, NEW r, NEW s,
         Content(h, n, q, p, r, s), h < n
  PROVE  Content(h, n - 1, q, p, r \union {q[n - 1]}, s)
  BY DEF Content

\* The bottom slot is taken for s.
LEMMA ContentTakeHead ==
  ASSUME NEW h \in Int, NEW n \in Int, NEW q, NEW p \in Nat, NEW r, NEW s,
         Content(h, n, q, p, r, s), h < n
  PROVE  Content(h + 1, n, q, p, r, s \union {q[h]})
  BY DEF Content

-----------------------------------------------------------------------------
\* The slots h..n-1 of q, as a sequence.
Slice(h, n, q) == [i \in 1..(n - h) |-> q[h + i - 1]]

\* Sequences of the same length and elements are the same.
LEMMA SameSeq ==
  ASSUME NEW S, NEW s \in Seq(S), NEW t \in Seq(S), Len(s) = Len(t),
         \A i \in 1..Len(s) : s[i] = t[i]
  PROVE  s = t
OBVIOUS

\* A slice of numbers is a sequence of numbers.
LEMMA SliceSeq ==
  ASSUME NEW h \in Int, NEW n \in Int, NEW q, h <= n, \A i \in h..(n - 1) : q[i] \in Nat
  PROVE  Slice(h, n, q) \in Seq(Nat) /\ Len(Slice(h, n, q)) = n - h
<1>1. \A i \in 1..(n - h) : q[h + i - 1] \in Nat
  <2> TAKE i \in 1..(n - h)
  <2>1. h + i - 1 \in h..(n - 1) OBVIOUS
  <2> QED BY <2>1
<1> QED BY <1>1 DEF Slice

\* Extending a slice by one slot appends that slot.
LEMMA SlicePush ==
  ASSUME NEW h \in Int, NEW n \in Int, NEW q, h <= n, \A i \in h..n : q[i] \in Nat
  PROVE  Slice(h, n + 1, q) = Append(Slice(h, n, q), q[n])
<1>1. Slice(h, n, q) \in Seq(Nat) /\ Len(Slice(h, n, q)) = n - h
  BY SliceSeq
<1>2. Slice(h, n + 1, q) \in Seq(Nat) /\ Len(Slice(h, n + 1, q)) = (n + 1) - h
  BY SliceSeq
<1>3. q[n] \in Nat OBVIOUS
<1>4. \A i \in 1..((n + 1) - h) : Slice(h, n + 1, q)[i] = Append(Slice(h, n, q), q[n])[i]
  BY <1>1, <1>3 DEF Slice
<1>5. Append(Slice(h, n, q), q[n]) \in Seq(Nat) /\ Len(Append(Slice(h, n, q), q[n])) = (n + 1) - h
  BY <1>1, <1>3
<1> QED BY <1>2, <1>4, <1>5, SameSeq, Zenon

\* Dropping the last slot of a slice drops the last element.
LEMMA SliceTakeTop ==
  ASSUME NEW h \in Int, NEW n \in Int, NEW q, h < n, \A i \in h..(n - 1) : q[i] \in Nat
  PROVE  LET S == Slice(h, n, q) IN
         /\ S # << >>
         /\ S[Len(S)] = q[n - 1]
         /\ Slice(h, n - 1, q) = SubSeq(S, 1, Len(S) - 1)
<1> DEFINE S == Slice(h, n, q)
<1>1. S \in Seq(Nat) /\ Len(S) = n - h
  BY SliceSeq
<1>2. S # << >> /\ S[Len(S)] = q[n - 1]
  <2>1. n - h \in 1..(n - h) /\ h + (n - h) - 1 = n - 1 OBVIOUS
  <2> QED BY <1>1, <2>1 DEF Slice
<1>3. Slice(h, n - 1, q) \in Seq(Nat) /\ Len(Slice(h, n - 1, q)) = (n - 1) - h
  BY SliceSeq
<1>4. SubSeq(S, 1, Len(S) - 1) \in Seq(Nat) /\ Len(SubSeq(S, 1, Len(S) - 1)) = (n - 1) - h
  BY <1>1
<1>5. \A i \in 1..((n - 1) - h) : SubSeq(S, 1, Len(S) - 1)[i] = Slice(h, n - 1, q)[i]
  BY <1>1 DEF Slice
<1> QED BY <1>2, <1>3, <1>4, <1>5, SameSeq, Zenon

\* Dropping the first slot of a slice drops the first element.
LEMMA SliceTakeHead ==
  ASSUME NEW h \in Int, NEW n \in Int, NEW q, h < n, \A i \in h..(n - 1) : q[i] \in Nat
  PROVE  LET S == Slice(h, n, q) IN
         /\ S # << >>
         /\ Head(S) = q[h]
         /\ Slice(h + 1, n, q) = Tail(S)
<1> DEFINE S == Slice(h, n, q)
<1>1. S \in Seq(Nat) /\ Len(S) = n - h
  BY SliceSeq
<1>2. S # << >> /\ Head(S) = q[h]
  <2>1. 1 \in 1..(n - h) /\ h + 1 - 1 = h OBVIOUS
  <2> QED BY <1>1, <2>1 DEF Slice
<1>3. Slice(h + 1, n, q) \in Seq(Nat) /\ Len(Slice(h + 1, n, q)) = n - (h + 1)
  BY SliceSeq
<1>4. Tail(S) \in Seq(Nat) /\ Len(Tail(S)) = n - (h + 1)
  BY <1>1, <1>2
<1>5. \A i \in 1..(n - (h + 1)) : Tail(S)[i] = Slice(h + 1, n, q)[i]
  <2> TAKE i \in 1..(n - (h + 1))
  <2>1. Tail(S)[i] = S[i + 1] BY <1>1, <1>2
  <2>2. i + 1 \in 1..(n - h) /\ h + (i + 1) - 1 = (h + 1) + i - 1 OBVIOUS
  <2> QED BY <2>1, <2>2 DEF Slice
<1> QED BY <1>2, <1>3, <1>4, <1>5, SameSeq, Zenon

-----------------------------------------------------------------------------
\* The owner is about to run a frame that it does not hold yet.
Unframed == pc = "sched" \/ (op = "setup" /\ pc \in {"calling", "want", "locked"})

\* The owner has found its deque empty and is on its way to the scheduler.
Drained == pc = "leaving" \/ (after = "leaving" /\ pc \in {"unlock", "clear"})

Holding == {"won", "locked", "incE", "chkT", "chkP", "decE", "detach", "unlock"}

\* lock is held by whoever is inside a critical section, and by nobody else.
LockInv ==
  /\ lock = Owner <=> pc \in {"locked", "unlock"}
  /\ \A t \in Thieves : lock = t <=> tpc[t] \in Holding

\* How the owner's place bounds the indices.
IndexInv ==
  /\ head <= Top
  /\ Unframed \/ Drained => head = tail
  /\ pc = "pushing" => pushed < MaxFrames /\ ltq[tail] = pushed + 1
  /\ Top <= pushed

\* A thief that has seen head < tail keeps the owner from the frame at head, and one
\* that has seen head < protected_tail is inside the array.
ThiefInv ==
  /\ \A t \in Thieves : tpc[t] \in {"chkP", "detach"} => head < Top
  /\ \A t \in Thieves : tpc[t] = "detach" => head < LtqSize

\* The owner is without a full frame only inside the scheduler.
FrameInv == frame_ff <=> ~Unframed

\* What the deque holds.
ContentInv == Content(head, Top, ltq, pushed, resumed, stolen)

\* The inductive invariant behind ExactlyOnce.
IInv ==
  TypeOK /\ LockInv /\ IndexInv /\ ExcTracksHead /\ ThiefInv /\ FrameInv /\ ContentInv

\* The four things a step can do to the unclaimed continuations.
Quiet ==
  /\ UNCHANGED <<pushed, resumed, stolen>>
  /\ Top' - head' = Top - head
  /\ \A k \in 0..(Top - head - 1) : ltq'[head' + k] = ltq[head + k]

PushTop ==
  /\ ltq[Top] = pushed + 1
  /\ head' = head /\ Top' = Top + 1 /\ ltq' = ltq
  /\ pushed' = pushed + 1 /\ UNCHANGED <<resumed, stolen>>

TakeTop ==
  /\ head < Top
  /\ head' = head /\ Top' = Top - 1 /\ ltq' = ltq
  /\ resumed' = resumed \union {ltq[Top - 1]} /\ UNCHANGED <<pushed, stolen>>

TakeHead ==
  /\ head < Top
  /\ head' = head + 1 /\ Top' = Top /\ ltq' = ltq
  /\ stolen' = stolen \union {ltq[head]} /\ UNCHANGED <<pushed, resumed>>

Effect == Quiet \/ PushTop \/ TakeTop \/ TakeHead

\* The invariant in the form most steps use it.
LEMMA IntegerIndices ==
  ASSUME IInv
  PROVE  /\ head \in Nat /\ tail \in Int /\ Top \in Int /\ pushed \in Nat /\ head <= Top
         /\ \A i \in head..(Top - 1) : ltq[i] \in Nat /\ ltq[i] \in 1..pushed
         /\ head < Top => ltq[head] \in 1..pushed
<1>1. TypeOK BY DEF IInv
<1>2. head \in Nat /\ tail \in Int /\ pushed \in Nat BY <1>1 DEF TypeOK
<1>3. Top \in Int BY <1>2 DEF Top
<1>4. head <= Top BY DEF IInv, IndexInv
<1>5. \A i \in head..(Top - 1) : ltq[i] \in 1..pushed BY DEF IInv, ContentInv, Content
<1> QED BY <1>2, <1>3, <1>4, <1>5

-----------------------------------------------------------------------------
(* The steps of the owner.                                                 *)

\* The owner holds its lock from AcquireLock to ReleaseLock.
LEMMA OwnerLock ==
  ASSUME IInv, OwnerUser \/ OwnerRuntime PROVE LockInv'
<1> USE DEF IInv, LockInv, index, locks, own, history
<1>1. UNCHANGED tpc
  BY Zenon DEF OwnerUser, OwnerRuntime, DetachStore, UndoDetachStore, ReturnException, PromoteOwnDeque, Sync, Resume,
    DisallowStealing, RestoreStealing,
    DetachPublish, UndoDetachCheck, LeaveFrame, SetDoNotSteal, AcquireLock, ReleaseLock,
    ClearDoNotSteal, THEExceptionCheck, PopTail, PromoteOne, PromoteDone,
    SetupForExecution
<1>2. CASE OwnerUser
  BY <1>1, <1>2, Zenon DEF OwnerUser, DetachStore, UndoDetachStore, ReturnException, PromoteOwnDeque, Sync, Resume,
    DisallowStealing, RestoreStealing, Goto
<1>3. CASE OwnerRuntime
  BY <1>1, <1>3, WorkersAssumption, Zenon DEF TypeOK, OwnerRuntime,
    DetachPublish, UndoDetachCheck, LeaveFrame, SetDoNotSteal, AcquireLock, ReleaseLock,
    ClearDoNotSteal, THEExceptionCheck, PopTail, PromoteOne, PromoteDone,
    SetupForExecution, Goto
<1> QED BY <1>2, <1>3

\* The owner moves exc only with its lock, when no thief is in the protocol.
LEMMA OwnerExc ==
  ASSUME IInv, OwnerUser \/ OwnerRuntime PROVE ExcTracksHead'
<1> USE DEF IInv, ExcTracksHead, InDekker, index, locks, own, history
<1>1. UNCHANGED tpc
  BY Zenon DEF OwnerUser, OwnerRuntime, DetachStore, UndoDetachStore, ReturnException, PromoteOwnDeque, Sync, Resume,
    DisallowStealing, RestoreStealing,
    DetachPublish, UndoDetachCheck, LeaveFrame, SetDoNotSteal, AcquireLock, ReleaseLock,
    ClearDoNotSteal, THEExceptionCheck, PopTail, PromoteOne, PromoteDone,
    SetupForExecution
<1>2. CASE OwnerUser
  BY <1>1, <1>2, Zenon DEF OwnerUser, DetachStore, UndoDetachStore, ReturnException, PromoteOwnDeque, Sync, Resume,
    DisallowStealing, RestoreStealing, Goto
<1>3. CASE OwnerRuntime
  BY <1>1, <1>3, WorkersAssumption, Zenon DEF TypeOK, LockInv, Holding, OwnerRuntime,
    DetachPublish, UndoDetachCheck, LeaveFrame, SetDoNotSteal, AcquireLock, ReleaseLock,
    ClearDoNotSteal, THEExceptionCheck, PopTail, PromoteOne, PromoteDone,
    SetupForExecution, Goto
<1> QED BY <1>2, <1>3

\* head never overtakes the unclaimed frames, and an idle owner has none.
LEMMA OwnerIndex ==
  ASSUME IInv, OwnerUser \/ OwnerRuntime PROVE IndexInv'
<1> USE SizesAssumption DEF IInv, TypeOK, IndexInv, Top, Undecided, Unframed, Drained,
      ExcTracksHead, Goto, index, locks, own, history, can_steal_from
<1>1. CASE DetachStore BY <1>1 DEF DetachStore, Slot
<1>2. CASE UndoDetachStore BY <1>2 DEF UndoDetachStore
<1>3. CASE ReturnException BY <1>3 DEF ReturnException
<1>4. CASE PromoteOwnDeque BY <1>4 DEF PromoteOwnDeque
<1>5. CASE Sync BY <1>5 DEF Sync
<1>6. CASE Resume BY <1>6 DEF Resume
<1>7. CASE DisallowStealing BY <1>7 DEF DisallowStealing
<1>8. CASE RestoreStealing BY <1>8 DEF RestoreStealing
<1>9. CASE DetachPublish BY <1>9 DEF DetachPublish
<1>10. CASE UndoDetachCheck BY <1>10 DEF UndoDetachCheck
<1>11. CASE LeaveFrame BY <1>11 DEF LeaveFrame
<1>12. CASE SetDoNotSteal BY <1>12 DEF SetDoNotSteal
<1>13. CASE AcquireLock BY <1>13 DEF AcquireLock
<1>14. CASE ReleaseLock BY <1>14 DEF ReleaseLock
<1>15. CASE ClearDoNotSteal BY <1>15 DEF ClearDoNotSteal
<1>16. CASE THEExceptionCheck BY <1>16 DEF THEExceptionCheck
<1>17. CASE PopTail BY <1>17 DEF PopTail
<1>18. CASE PromoteOne BY <1>18 DEF PromoteOne
<1>19. CASE PromoteDone BY <1>19 DEF PromoteDone
<1>20. CASE SetupForExecution BY <1>20 DEF SetupForExecution
<1> HIDE SizesAssumption DEF IInv, TypeOK, IndexInv, Top, Undecided, Unframed,
      Drained, ExcTracksHead, Goto, index, locks, own, history, can_steal_from
<1> QED BY <1>1, <1>2, <1>3, <1>4, <1>5, <1>6, <1>7, <1>8, <1>9, <1>10, <1>11,
      <1>12, <1>13, <1>14, <1>15, <1>16, <1>17, <1>18, <1>19, <1>20, Zenon DEF OwnerUser,
      OwnerRuntime

\* frame_ff is cleared on the way to the scheduler and set by setup_for_execution.
LEMMA OwnerFrame ==
  ASSUME IInv, OwnerUser \/ OwnerRuntime PROVE FrameInv'
<1> USE DEF IInv, TypeOK, FrameInv, Unframed, Goto, index, locks, own, history
<1>1. CASE DetachStore BY <1>1 DEF DetachStore
<1>2. CASE UndoDetachStore BY <1>2 DEF UndoDetachStore
<1>3. CASE ReturnException BY <1>3 DEF ReturnException
<1>4. CASE PromoteOwnDeque BY <1>4 DEF PromoteOwnDeque
<1>5. CASE Sync BY <1>5 DEF Sync
<1>6. CASE Resume BY <1>6 DEF Resume
<1>7. CASE DisallowStealing BY <1>7 DEF DisallowStealing
<1>8. CASE RestoreStealing BY <1>8 DEF RestoreStealing
<1>9. CASE DetachPublish BY <1>9 DEF DetachPublish
<1>10. CASE UndoDetachCheck BY <1>10 DEF UndoDetachCheck
<1>11. CASE LeaveFrame BY <1>11 DEF LeaveFrame
<1>12. CASE SetDoNotSteal BY <1>12 DEF SetDoNotSteal
<1>13. CASE AcquireLock BY <1>13 DEF AcquireLock
<1>14. CASE ReleaseLock BY <1>14 DEF ReleaseLock
<1>15. CASE ClearDoNotSteal BY <1>15 DEF ClearDoNotSteal
<1>16. CASE THEExceptionCheck BY <1>16 DEF THEExceptionCheck
<1>17. CASE PopTail BY <1>17 DEF PopTail
<1>18. CASE PromoteOne BY <1>18 DEF PromoteOne
<1>19. CASE PromoteDone BY <1>19 DEF PromoteDone
<1>20. CASE SetupForExecution BY <1>20 DEF SetupForExecution
<1> HIDE DEF IInv, TypeOK, FrameInv, Unframed, Goto, index, locks, own, history
<1> QED BY <1>1, <1>2, <1>3, <1>4, <1>5, <1>6, <1>7, <1>8, <1>9, <1>10, <1>11,
      <1>12, <1>13, <1>14, <1>15, <1>16, <1>17, <1>18, <1>19, <1>20, Zenon DEF OwnerUser,
      OwnerRuntime

\* The owner leaves a frame alone that a thief is about to detach: exc is above
\* head, so the check of undo_detach sends it to its lock, which the thief holds.
LEMMA OwnerThief ==
  ASSUME IInv, OwnerUser \/ OwnerRuntime PROVE ThiefInv'
<1> USE WorkersAssumption DEF IInv, TypeOK, ThiefInv, LockInv, Holding, IndexInv,
      ExcTracksHead, InDekker, Top, Undecided, Unframed, Drained, Goto, index, locks, own, history
<1>1. CASE DetachStore BY <1>1 DEF DetachStore
<1>2. CASE UndoDetachStore BY <1>2 DEF UndoDetachStore
<1>3. CASE ReturnException BY <1>3 DEF ReturnException
<1>4. CASE PromoteOwnDeque BY <1>4 DEF PromoteOwnDeque
<1>5. CASE Sync BY <1>5 DEF Sync
<1>6. CASE Resume BY <1>6 DEF Resume
<1>7. CASE DisallowStealing BY <1>7 DEF DisallowStealing
<1>8. CASE RestoreStealing BY <1>8 DEF RestoreStealing
<1>9. CASE DetachPublish BY <1>9 DEF DetachPublish
<1>10. CASE UndoDetachCheck BY <1>10 DEF UndoDetachCheck
<1>11. CASE LeaveFrame BY <1>11 DEF LeaveFrame
<1>12. CASE SetDoNotSteal BY <1>12 DEF SetDoNotSteal
<1>13. CASE AcquireLock BY <1>13 DEF AcquireLock
<1>14. CASE ReleaseLock BY <1>14 DEF ReleaseLock
<1>15. CASE ClearDoNotSteal BY <1>15 DEF ClearDoNotSteal
<1>16. CASE THEExceptionCheck BY <1>16 DEF THEExceptionCheck
<1>17. CASE PopTail BY <1>17 DEF PopTail
<1>18. CASE PromoteOne BY <1>18 DEF PromoteOne
<1>19. CASE PromoteDone BY <1>19 DEF PromoteDone
<1>20. CASE SetupForExecution BY <1>20 DEF SetupForExecution
<1> HIDE WorkersAssumption DEF IInv, TypeOK, ThiefInv, LockInv, Holding, IndexInv,
      ExcTracksHead, InDekker, Top, Undecided, Unframed, Drained, Goto, index, locks,
      own, history
<1> QED BY <1>1, <1>2, <1>3, <1>4, <1>5, <1>6, <1>7, <1>8, <1>9, <1>10, <1>11,
      <1>12, <1>13, <1>14, <1>15, <1>16, <1>17, <1>18, <1>19, <1>20, Zenon DEF OwnerUser,
      OwnerRuntime

\* A step of the owner pushes, takes the youngest frame, promotes the oldest one,
\* or leaves the unclaimed frames as they are.
LEMMA OwnerEffect ==
  ASSUME IInv, OwnerUser \/ OwnerRuntime PROVE Effect
<1> USE SizesAssumption DEF IInv, TypeOK, IndexInv, ExcTracksHead, Top, Undecided,
      Unframed, Drained, Goto, index, locks, own, history, can_steal_from, Effect, Quiet
<1>1. CASE DetachStore BY <1>1 DEF DetachStore
<1>2. CASE UndoDetachStore BY <1>2 DEF UndoDetachStore
<1>3. CASE ReturnException BY <1>3 DEF ReturnException
<1>4. CASE PromoteOwnDeque BY <1>4 DEF PromoteOwnDeque
<1>5. CASE Sync BY <1>5 DEF Sync
<1>6. CASE Resume BY <1>6 DEF Resume
<1>7. CASE DisallowStealing BY <1>7 DEF DisallowStealing
<1>8. CASE RestoreStealing BY <1>8 DEF RestoreStealing
<1>9. CASE DetachPublish BY <1>9 DEF DetachPublish, PushTop
<1>10. CASE UndoDetachCheck BY <1>10 DEF UndoDetachCheck, TakeTop
<1>11. CASE LeaveFrame BY <1>11 DEF LeaveFrame
<1>12. CASE SetDoNotSteal BY <1>12 DEF SetDoNotSteal
<1>13. CASE AcquireLock BY <1>13 DEF AcquireLock
<1>14. CASE ReleaseLock BY <1>14 DEF ReleaseLock
<1>15. CASE ClearDoNotSteal BY <1>15 DEF ClearDoNotSteal
<1>16. CASE THEExceptionCheck BY <1>16 DEF THEExceptionCheck, TakeTop
<1>17. CASE PopTail BY <1>17 DEF PopTail, TakeTop
<1>18. CASE PromoteOne BY <1>18 DEF PromoteOne, TakeHead
<1>19. CASE PromoteDone BY <1>19 DEF PromoteDone
<1>20. CASE SetupForExecution BY <1>20 DEF SetupForExecution
<1> HIDE SizesAssumption DEF IInv, TypeOK, IndexInv, ExcTracksHead, Top, Undecided,
      Unframed, Drained, Goto, index, locks, own, history, can_steal_from, Effect,
      Quiet
<1> QED BY <1>1, <1>2, <1>3, <1>4, <1>5, <1>6, <1>7, <1>8, <1>9, <1>10, <1>11,
      <1>12, <1>13, <1>14, <1>15, <1>16, <1>17, <1>18, <1>19, <1>20, Zenon DEF OwnerUser,
      OwnerRuntime

-----------------------------------------------------------------------------
(* The steps of a thief.                                                   *)

\* A thief touches head only in detach_for_steal, and nothing the owner writes.
LEMMA ThiefKeeps ==
  ASSUME NEW t \in Thieves, ThiefStart(t) \/ ThiefRuntime(t)
  PROVE  /\ UNCHANGED <<tail, protected_tail, saved, do_not_steal, frame_ff, pc, op, after,
                        ltq, pushed, resumed, guarded>>
         /\ UNCHANGED <<head, stolen>> \/ DetachForSteal(t)
  BY DEF ThiefStart, ThiefRuntime, QuickCheckTail, QuickCheckProtected, TryStealLock, CheckDoNotSteal, TryLock,
    ReleaseStealLock, CheckVictim, IncrementE, CheckTail, CheckProtected,
    DecrementE, DetachForSteal, UnlockOther, Step, own

\* A thief is in the victim's critical section exactly while it holds its lock.
LEMMA ThiefLock ==
  ASSUME IInv, NEW t \in Thieves, ThiefStart(t) \/ ThiefRuntime(t)
  PROVE  LockInv'
<1> USE WorkersAssumption DEF IInv, TypeOK, LockInv, Holding, Step, own
<1>1. CASE QuickCheckTail(t) BY <1>1 DEF QuickCheckTail
<1>2. CASE QuickCheckProtected(t) BY <1>2 DEF QuickCheckProtected
<1>3. CASE TryStealLock(t) BY <1>3 DEF TryStealLock
<1>4. CASE CheckDoNotSteal(t) BY <1>4 DEF CheckDoNotSteal
<1>5. CASE TryLock(t) BY <1>5 DEF TryLock
<1>6. CASE ReleaseStealLock(t) BY <1>6 DEF ReleaseStealLock
<1>7. CASE CheckVictim(t) BY <1>7 DEF CheckVictim
<1>8. CASE IncrementE(t) BY <1>8 DEF IncrementE
<1>9. CASE CheckTail(t) BY <1>9 DEF CheckTail
<1>10. CASE CheckProtected(t) BY <1>10 DEF CheckProtected
<1>11. CASE DecrementE(t) BY <1>11 DEF DecrementE
<1>12. CASE DetachForSteal(t) BY <1>12 DEF DetachForSteal
<1>13. CASE UnlockOther(t) BY <1>13 DEF UnlockOther
<1> HIDE WorkersAssumption DEF IInv, TypeOK, LockInv, Holding, Step, own
<1> QED BY <1>1, <1>2, <1>3, <1>4, <1>5, <1>6, <1>7, <1>8, <1>9, <1>10, <1>11,
      <1>12, <1>13, Zenon DEF ThiefStart, ThiefRuntime

\* increment_E, decrement_E and the detach keep exc and head in step.
LEMMA ThiefExc ==
  ASSUME IInv, NEW t \in Thieves, ThiefStart(t) \/ ThiefRuntime(t)
  PROVE  ExcTracksHead'
<1> USE WorkersAssumption DEF IInv, TypeOK, LockInv, Holding, ExcTracksHead, InDekker, Step
<1>1. CASE QuickCheckTail(t) BY <1>1 DEF QuickCheckTail
<1>2. CASE QuickCheckProtected(t) BY <1>2 DEF QuickCheckProtected
<1>3. CASE TryStealLock(t) BY <1>3 DEF TryStealLock
<1>4. CASE CheckDoNotSteal(t) BY <1>4 DEF CheckDoNotSteal
<1>5. CASE TryLock(t) BY <1>5 DEF TryLock
<1>6. CASE ReleaseStealLock(t) BY <1>6 DEF ReleaseStealLock
<1>7. CASE CheckVictim(t) BY <1>7 DEF CheckVictim
<1>8. CASE IncrementE(t) BY <1>8 DEF IncrementE
<1>9. CASE CheckTail(t) BY <1>9 DEF CheckTail
<1>10. CASE CheckProtected(t) BY <1>10 DEF CheckProtected
<1>11. CASE DecrementE(t) BY <1>11 DEF DecrementE
<1>12. CASE DetachForSteal(t) BY <1>12 DEF DetachForSteal
<1>13. CASE UnlockOther(t) BY <1>13 DEF UnlockOther
<1> HIDE WorkersAssumption DEF IInv, TypeOK, LockInv, Holding, ExcTracksHead,
      InDekker, Step
<1> QED BY <1>1, <1>2, <1>3, <1>4, <1>5, <1>6, <1>7, <1>8, <1>9, <1>10, <1>11,
      <1>12, <1>13, Zenon DEF ThiefStart, ThiefRuntime

\* Only the thief that holds the lock can be past the check of tail.
LEMMA ThiefThief ==
  ASSUME IInv, NEW t \in Thieves, ThiefStart(t) \/ ThiefRuntime(t)
  PROVE  ThiefInv'
<1> USE WorkersAssumption, SizesAssumption DEF IInv, TypeOK, LockInv, Holding, ThiefInv,
      Top, Undecided, Step, own
<1>1. CASE QuickCheckTail(t) BY <1>1 DEF QuickCheckTail
<1>2. CASE QuickCheckProtected(t) BY <1>2 DEF QuickCheckProtected
<1>3. CASE TryStealLock(t) BY <1>3 DEF TryStealLock
<1>4. CASE CheckDoNotSteal(t) BY <1>4 DEF CheckDoNotSteal
<1>5. CASE TryLock(t) BY <1>5 DEF TryLock
<1>6. CASE ReleaseStealLock(t) BY <1>6 DEF ReleaseStealLock
<1>7. CASE CheckVictim(t) BY <1>7 DEF CheckVictim
<1>8. CASE IncrementE(t) BY <1>8 DEF IncrementE
<1>9. CASE CheckTail(t) BY <1>9 DEF CheckTail
<1>10. CASE CheckProtected(t) BY <1>10 DEF CheckProtected
<1>11. CASE DecrementE(t) BY <1>11 DEF DecrementE
<1>12. CASE DetachForSteal(t) BY <1>12 DEF DetachForSteal
<1>13. CASE UnlockOther(t) BY <1>13 DEF UnlockOther
<1> HIDE WorkersAssumption, SizesAssumption DEF IInv, TypeOK, LockInv, Holding, ThiefInv,
      Top, Undecided, Step, own
<1> QED BY <1>1, <1>2, <1>3, <1>4, <1>5, <1>6, <1>7, <1>8, <1>9, <1>10, <1>11,
      <1>12, <1>13, Zenon DEF ThiefStart, ThiefRuntime

\* A detach moves head by one, from a slot of the array below Top.
LEMMA ThiefIndex ==
  ASSUME IInv, NEW t \in Thieves, ThiefStart(t) \/ ThiefRuntime(t)
  PROVE  IndexInv' /\ FrameInv' /\ head' \in 0..LtqSize /\ Top' = Top
<1>1. head \in 0..LtqSize /\ Top \in Int /\ Top <= pushed /\ head <= Top
  BY SizesAssumption DEF IInv, TypeOK, IndexInv, Top, Undecided
<1>2. Top' = Top /\ UNCHANGED <<pc, op, after, tail, ltq, pushed, frame_ff>>
  BY ThiefKeeps DEF Top, Undecided
<1>3. head' = head \/ (head' = head + 1 /\ head < Top /\ head < LtqSize)
  BY ThiefKeeps DEF IInv, ThiefInv, DetachForSteal, Step
<1>4. FrameInv'
  BY <1>2 DEF IInv, FrameInv, Unframed
<1>5. Unframed \/ Drained => head' = tail
  BY <1>1, <1>3 DEF IInv, IndexInv, TypeOK, Top, Undecided, Unframed, Drained
<1>6. IndexInv'
  BY <1>1, <1>2, <1>3, <1>5 DEF IInv, IndexInv, Unframed, Drained
<1> QED BY <1>1, <1>2, <1>3, <1>4, <1>6, SizesAssumption

\* A step of a thief takes the oldest unclaimed frame or changes none.
LEMMA ThiefEffect ==
  ASSUME IInv, NEW t \in Thieves, ThiefStart(t) \/ ThiefRuntime(t)
  PROVE  Effect
<1>1. head \in Int /\ tail \in Int /\ Top' = Top
  BY ThiefIndex DEF IInv, TypeOK
<1>2. CASE UNCHANGED <<head, stolen>>
  BY <1>1, <1>2, ThiefKeeps DEF Effect, Quiet
<1>3. CASE DetachForSteal(t)
  BY <1>1, <1>3, ThiefKeeps DEF IInv, ThiefInv, DetachForSteal, Step, Effect, TakeHead
<1> QED BY <1>2, <1>3, ThiefKeeps

-----------------------------------------------------------------------------
(* The invariant.                                                          *)

\* What an effect does to the contents.
LEMMA ContentStep ==
  ASSUME IInv, Effect, head' \in Int, Top' \in Int
  PROVE  ContentInv'
<1>1. head \in Int /\ Top \in Int /\ pushed \in Nat /\ head <= Top
  BY IntegerIndices
<1>2. Content(head, Top, ltq, pushed, resumed, stolen)
  BY DEF IInv, ContentInv
<1>3. CASE Quiet
  BY <1>1, <1>2, <1>3, ContentMove, Zenon DEF ContentInv, Quiet
<1>4. CASE PushTop
  BY <1>1, <1>2, <1>4, ContentPush, Zenon DEF ContentInv, PushTop
<1>5. CASE TakeTop
  BY <1>1, <1>2, <1>5, ContentTakeTop DEF ContentInv, TakeTop
<1>6. CASE TakeHead
  BY <1>1, <1>2, <1>6, ContentTakeHead DEF ContentInv, TakeHead
<1> QED BY <1>3, <1>4, <1>5, <1>6 DEF Effect

\* Whatever is taken is the number of a continuation.
LEMMA TakenFrames ==
  ASSUME IInv, Effect PROVE resumed' \subseteq Frame /\ stolen' \subseteq Frame
<1>1. \A i \in head..(Top - 1) : ltq[i] \in Frame
  BY SizesAssumption DEF IInv, TypeOK, ContentInv, Content, Frame
<1>2. head \in Int /\ Top \in Int
  BY DEF IInv, TypeOK, Top, Undecided
<1>3. head < Top => ltq[head] \in Frame /\ ltq[Top - 1] \in Frame
  BY <1>1, <1>2
<1> QED BY <1>3 DEF IInv, TypeOK, Effect, Quiet, PushTop, TakeTop, TakeHead

\* The owner keeps every variable in its type.
LEMMA OwnerType ==
  ASSUME IInv, OwnerUser \/ OwnerRuntime PROVE TypeOK'
<1>1. /\ head' \in Nat /\ tail' \in Int /\ pushed' \in 0..MaxFrames
      /\ ltq' \in [Slot -> 0..MaxFrames]
  <2>1. /\ head \in Nat /\ tail \in Int /\ pushed \in 0..MaxFrames
        /\ ltq \in [Slot -> 0..MaxFrames]
    BY DEF IInv, TypeOK
  <2>2. CASE DetachStore
    <3>1. ltq' = [ltq EXCEPT ![tail] = pushed + 1] /\ pushed + 1 \in 0..MaxFrames
      BY <2>1, <2>2, SizesAssumption DEF DetachStore
    <3> QED BY <2>1, <2>2, <3>1, Zenon DEF DetachStore, history
  <2>3. CASE DetachPublish
    BY <2>1, <2>3, SizesAssumption DEF DetachPublish, IInv, IndexInv
  <2>4. CASE ~DetachStore /\ ~DetachPublish
    <3>1. UNCHANGED <<ltq, pushed>>
      BY <2>4, Zenon DEF OwnerUser, OwnerRuntime, DetachStore, UndoDetachStore, ReturnException, PromoteOwnDeque, Sync, Resume,
    DisallowStealing, RestoreStealing,
      DetachPublish, UndoDetachCheck, LeaveFrame, SetDoNotSteal, AcquireLock, ReleaseLock,
    ClearDoNotSteal, THEExceptionCheck, PopTail, PromoteOne, PromoteDone,
    SetupForExecution, index, history
    <3>2. head' \in {head, head + 1, 0} /\ tail' \in {tail, tail + 1, tail - 1, 0}
      BY <2>4, Zenon DEF OwnerUser, OwnerRuntime, DetachStore, UndoDetachStore, ReturnException, PromoteOwnDeque, Sync, Resume,
    DisallowStealing, RestoreStealing,
      DetachPublish, UndoDetachCheck, LeaveFrame, SetDoNotSteal, AcquireLock, ReleaseLock,
    ClearDoNotSteal, THEExceptionCheck, PopTail, PromoteOne, PromoteDone,
    SetupForExecution, index
    <3> QED BY <2>1, <3>1, <3>2
  <2> QED BY <2>2, <2>3, <2>4
<1>2. /\ head' \in 0..LtqSize /\ tail' \in -1..MaxFrames /\ exc' \in 0..(LtqSize + 1)
  <2>1. IndexInv' /\ ExcTracksHead' BY OwnerIndex, OwnerExc
  <2>2. head' <= Top' /\ Top' <= pushed' /\ (Top' = tail' \/ Top' = tail' + 1)
    BY <2>1 DEF IndexInv, Top
  <2>3. exc' = head' \/ exc' = head' + 1
    BY <2>1 DEF ExcTracksHead
  <2>4. head' \in {head, 0} \/ (head' = head + 1 /\ head < protected_tail)
    BY Zenon DEF OwnerUser, OwnerRuntime, DetachStore, UndoDetachStore, ReturnException,
      PromoteOwnDeque, Sync, Resume, DisallowStealing, RestoreStealing, DetachPublish,
      UndoDetachCheck, LeaveFrame, SetDoNotSteal, AcquireLock, ReleaseLock,
      ClearDoNotSteal, THEExceptionCheck, PopTail, PromoteOne, PromoteDone,
      SetupForExecution, can_steal_from, index
  <2>5. head' \in 0..LtqSize
    BY <2>4, SizesAssumption DEF IInv, TypeOK
  <2> QED BY <1>1, <2>2, <2>3, <2>5, SizesAssumption
<1>3. resumed' \subseteq Frame /\ stolen' \subseteq Frame
  BY OwnerEffect, TakenFrames
<1>4. /\ protected_tail' \in {0, LtqSize} /\ saved' \in {-1, 0, LtqSize}
      /\ tpc' \in [Thieves -> ThiefPc] /\ steal_lock' \in Thieves \union {NoOne}
      /\ bypass' \in Nat
  <2>1. UNCHANGED <<tpc, steal_lock>> /\ bypass' \in {bypass, 0}
    BY Zenon DEF locks, history, OwnerUser, OwnerRuntime, DetachStore, UndoDetachStore, ReturnException, PromoteOwnDeque, Sync, Resume,
    DisallowStealing, RestoreStealing,
      DetachPublish, UndoDetachCheck, LeaveFrame, SetDoNotSteal, AcquireLock, ReleaseLock,
    ClearDoNotSteal, THEExceptionCheck, PopTail, PromoteOne, PromoteDone,
    SetupForExecution
  <2>2. \/ UNCHANGED <<protected_tail, saved>>
        \/ protected_tail' = 0 /\ saved' = protected_tail
        \/ protected_tail' = saved /\ saved # -1 /\ saved' = -1
    BY DEF OwnerUser, OwnerRuntime, DetachStore, UndoDetachStore, ReturnException, PromoteOwnDeque, Sync, Resume,
    DisallowStealing, RestoreStealing,
      DetachPublish, UndoDetachCheck, LeaveFrame, SetDoNotSteal, AcquireLock, ReleaseLock,
    ClearDoNotSteal, THEExceptionCheck, PopTail, PromoteOne, PromoteDone,
    SetupForExecution
  <2> QED BY <2>1, <2>2 DEF IInv, TypeOK
<1>5. guarded' \subseteq Frame
  <2>1. CASE DetachPublish
    BY <1>1, <2>1, SizesAssumption DEF IInv, TypeOK, Frame, DetachPublish
  <2>2. CASE ~DetachPublish
    BY <2>2, Zenon DEF IInv, TypeOK, history, OwnerUser, OwnerRuntime, DetachStore, UndoDetachStore, ReturnException, PromoteOwnDeque, Sync, Resume,
    DisallowStealing, RestoreStealing,
    DetachPublish, UndoDetachCheck, LeaveFrame, SetDoNotSteal, AcquireLock, ReleaseLock,
    ClearDoNotSteal, THEExceptionCheck, PopTail, PromoteOne, PromoteDone,
    SetupForExecution
  <2> QED BY <2>1, <2>2
<1>6. /\ lock' \in Thieves \union {Owner, NoOne} /\ do_not_steal' \in BOOLEAN
      /\ frame_ff' \in BOOLEAN
  BY Zenon DEF IInv, TypeOK, locks, OwnerUser, OwnerRuntime, DetachStore, UndoDetachStore, ReturnException, PromoteOwnDeque, Sync, Resume,
    DisallowStealing, RestoreStealing,
    DetachPublish, UndoDetachCheck, LeaveFrame, SetDoNotSteal, AcquireLock, ReleaseLock,
    ClearDoNotSteal, THEExceptionCheck, PopTail, PromoteOne, PromoteDone,
    SetupForExecution
<1>7. pc' \in OwnerPc /\ op' \in OwnerOp /\ after' \in {"user", "leaving"}
  <2>1. CASE OwnerUser
    BY <2>1 DEF IInv, TypeOK, own, Goto, OwnerPc, OwnerOp, OwnerUser,
      DetachStore, UndoDetachStore, ReturnException, PromoteOwnDeque, Sync, Resume,
    DisallowStealing, RestoreStealing
  <2>2. CASE OwnerRuntime
    BY <2>2, Zenon DEF IInv, TypeOK, own, Goto, OwnerPc, OwnerOp, OwnerRuntime,
      DetachPublish, UndoDetachCheck, LeaveFrame, SetDoNotSteal, AcquireLock, ReleaseLock,
    ClearDoNotSteal, THEExceptionCheck, PopTail, PromoteOne, PromoteDone,
    SetupForExecution
  <2> QED BY <2>1, <2>2
<1> QED BY <1>1, <1>2, <1>3, <1>4, <1>5, <1>6, <1>7 DEF TypeOK

\* A thief keeps every variable in its type.
LEMMA ThiefType ==
  ASSUME IInv, NEW t \in Thieves, ThiefStart(t) \/ ThiefRuntime(t)
  PROVE  TypeOK'
<1>1. tpc' \in [Thieves -> ThiefPc]
  <2>1. PICK from \in ThiefPc, to \in ThiefPc : Step(t, from, to)
    BY DEF ThiefPc, ThiefStart, ThiefRuntime,
      QuickCheckTail, QuickCheckProtected, TryStealLock, CheckDoNotSteal, TryLock,
    ReleaseStealLock, CheckVictim, IncrementE, CheckTail, CheckProtected,
    DecrementE, DetachForSteal, UnlockOther
  <2> QED BY <2>1 DEF IInv, TypeOK, Step
<1>2. /\ lock' \in {lock, t, NoOne}
      /\ steal_lock' \in {steal_lock, t, NoOne}
      /\ bypass' \in {bypass, 1, 2}
  BY DEF ThiefStart, ThiefRuntime,
    QuickCheckTail, QuickCheckProtected, TryStealLock, CheckDoNotSteal, TryLock,
    ReleaseStealLock, CheckVictim, IncrementE, CheckTail, CheckProtected,
    DecrementE, DetachForSteal, UnlockOther
<1>3. stolen' \subseteq Frame
  BY ThiefEffect, TakenFrames
<1>4. exc' \in 0..(LtqSize + 1)
  BY ThiefExc, ThiefIndex, SizesAssumption DEF ExcTracksHead
<1>5. head' \in 0..LtqSize
  BY ThiefIndex
<1>6. UNCHANGED <<tail, protected_tail, saved, do_not_steal, frame_ff, pc, op, after,
                  ltq, pushed, resumed, guarded>>
  BY ThiefKeeps
<1> QED BY <1>1, <1>2, <1>3, <1>4, <1>5, <1>6 DEF IInv, TypeOK

\* Initially the deque is empty and everybody is outside.
LEMMA InitIInv == Init => IInv
<1> SUFFICES ASSUME Init PROVE IInv
  OBVIOUS
<1> USE WorkersAssumption, SizesAssumption DEF Init
<1>1. TypeOK
  <2>1. ltq \in [Slot -> 0..MaxFrames] /\ tpc \in [Thieves -> ThiefPc]
    BY DEF ThiefPc
  <2>2. /\ head \in 0..LtqSize /\ tail \in -1..MaxFrames /\ exc \in 0..(LtqSize + 1)
        /\ pushed \in 0..MaxFrames /\ bypass \in Nat
    OBVIOUS
  <2> QED BY <2>1, <2>2, Zenon DEF TypeOK, OwnerPc, OwnerOp
<1>2. LockInv /\ ExcTracksHead /\ ThiefInv
  BY DEF LockInv, Holding, ExcTracksHead, InDekker, ThiefInv
<1>3. IndexInv /\ FrameInv
  BY DEF IndexInv, FrameInv, Top, Undecided, Unframed, Drained
<1>4. ContentInv
  BY DEF ContentInv, Content, Top, Undecided
<1> QED BY <1>1, <1>2, <1>3, <1>4 DEF IInv

\* Every step preserves the invariant, and has one of the four effects.
LEMMA NextIInv == IInv /\ [Next]_vars => IInv' /\ Effect
<1> SUFFICES ASSUME IInv, [Next]_vars PROVE IInv' /\ Effect
  OBVIOUS
<1>1. CASE OwnerUser \/ OwnerRuntime
  <2>1. TypeOK' BY <1>1, OwnerType
  <2>2. LockInv' /\ IndexInv' BY <1>1, OwnerLock, OwnerIndex
  <2>3. ExcTracksHead' /\ ThiefInv' BY <1>1, OwnerExc, OwnerThief
  <2>4. FrameInv' /\ Effect BY <1>1, OwnerFrame, OwnerEffect
  <2>5. head' \in Int /\ Top' \in Int BY <2>1 DEF TypeOK, Top, Undecided
  <2>6. ContentInv' BY <2>4, <2>5, ContentStep
  <2> QED BY <2>1, <2>2, <2>3, <2>4, <2>6 DEF IInv
<1>2. ASSUME NEW t \in Thieves, ThiefStart(t) \/ ThiefRuntime(t) PROVE IInv' /\ Effect
  <2>1. TypeOK' BY <1>2, ThiefType
  <2>2. LockInv' /\ IndexInv' /\ FrameInv' BY <1>2, ThiefLock, ThiefIndex
  <2>3. ExcTracksHead' /\ ThiefInv' BY <1>2, ThiefExc, ThiefThief
  <2>4. Effect BY <1>2, ThiefEffect
  <2>5. head' \in Int /\ Top' \in Int BY <2>1 DEF TypeOK, Top, Undecided
  <2>6. ContentInv' BY <2>4, <2>5, ContentStep
  <2> QED BY <2>1, <2>2, <2>3, <2>4, <2>6 DEF IInv
<1>3. CASE UNCHANGED vars
  <2> USE <1>3 DEF vars, index, locks, own, history
  <2>1. Top' = Top BY DEF Top, Undecided
  <2>2. Effect BY <2>1 DEF IInv, TypeOK, Effect, Quiet, Top
  <2>3. TypeOK' BY DEF IInv, TypeOK
  <2>5. LockInv' /\ ExcTracksHead'
    BY DEF IInv, LockInv, ExcTracksHead, InDekker
  <2>4. IndexInv' /\ ThiefInv' /\ FrameInv' /\ ContentInv'
    BY <2>1 DEF IInv, IndexInv, ThiefInv, FrameInv, ContentInv, Unframed, Drained
  <2> QED BY <2>2, <2>3, <2>4, <2>5 DEF IInv
<1> QED BY <1>1, <1>2, <1>3 DEF Next

\* The invariant holds in every reachable state.
THEOREM Invariance == Spec => []IInv
  BY InitIInv, NextIInv, PTL DEF Spec

\* Type correctness of the deque, for any number of thieves, slots and pushes: head
\* stays within ltq_limit and exc within one of it, on the strength of the checks
\* of protected_tail alone, since no push compares tail with the limit.
THEOREM TypeCorrect == Spec => []TypeOK
  BY Invariance, PTL DEF IInv

\* Every pushed continuation is unclaimed, returned to or stolen, and only one of
\* these: the THE protocol neither loses nor duplicates work.
THEOREM ExactlyOnceHolds == Spec => []ExactlyOnce
<1>1. IInv => ExactlyOnce
  <2> SUFFICES ASSUME IInv PROVE ExactlyOnce
    OBVIOUS
  <2>1. Content(head, Top, ltq, pushed, resumed, stolen)
    BY DEF IInv, ContentInv
  <2>2. Unclaimed \intersect (resumed \union stolen) = {}
    BY <2>1 DEF Content, Unclaimed
  <2>3. Unclaimed \union resumed \union stolen \subseteq 1..pushed
    BY <2>1 DEF Content, Unclaimed
  <2>4. 1..pushed \subseteq Unclaimed \union resumed \union stolen
    BY <2>1 DEF Content, Unclaimed
  <2>5. resumed \intersect stolen = {}
        /\ \A i, j \in head..(Top - 1) : i < j => ltq[i] < ltq[j]
    BY <2>1 DEF Content
  <2> QED BY <2>2, <2>3, <2>4, <2>5 DEF ExactlyOnce
<1> QED BY <1>1, Invariance, PTL

\* exc is above head exactly while a thief is in dekker_protocol.
THEOREM ExcTracksHeadHolds == Spec => []ExcTracksHead
  BY Invariance, PTL DEF IInv

\* A thief that passed dekker_protocol finds a full frame and an unclaimed slot of
\* the array, although the owner clears frame_ff and pops without the lock and
\* pushes without a look at ltq_limit.
THEOREM DetachIsSoundHolds == Spec => []DetachIsSound
<1>1. IInv => DetachIsSound
  <2> SUFFICES ASSUME IInv, NEW t \in Thieves, tpc[t] = "detach"
               PROVE  frame_ff /\ head < Top /\ head < LtqSize
    BY DEF DetachIsSound
  <2>1. head < Top /\ head < LtqSize BY DEF IInv, ThiefInv
  <2>2. ~Unframed BY <2>1 DEF IInv, TypeOK, IndexInv, Top, Undecided, Unframed
  <2> QED BY <2>1, <2>2 DEF IInv, FrameInv
<1> QED BY <1>1, Invariance, PTL

-----------------------------------------------------------------------------
(* Protected continuations.                                                *)

\* protected_tail is down exactly while a saved value waits to be restored, and
\* a thief past the check of protected_tail is not after a protected frame.
GuardInv ==
  /\ GuardedNotStolen
  /\ guarded \subseteq 1..pushed
  /\ saved = -1 <=> protected_tail = LtqSize
  /\ saved # -1 => saved = LtqSize
  /\ guarded # {} => protected_tail = 0
  /\ \A t \in Thieves : tpc[t] = "detach" => ltq[head] \notin guarded

\* Disallowing stealing protects what is pushed afterwards: no continuation
\* pushed between disallow_stealing and restore_stealing is stolen in between.
THEOREM GuardedNotStolenHolds == Spec => []GuardedNotStolen
<1>1. Init => GuardInv
  BY SizesAssumption DEF Init, GuardInv, GuardedNotStolen
<1>2. IInv /\ GuardInv /\ [Next]_vars => GuardInv'
  <2> SUFFICES ASSUME IInv, GuardInv, [Next]_vars PROVE GuardInv'
    OBVIOUS
  <2>1. /\ head \in Nat /\ Top \in Int /\ pushed \in Nat
        /\ head < Top => ltq[head] \in 1..pushed
    BY IntegerIndices
  <2>2. \A t \in Thieves : tpc[t] = "detach" => head < Top /\ lock = t
    BY DEF IInv, ThiefInv, LockInv, Holding
  <2>3. CASE OwnerUser
    <3>1. CASE DetachStore
      <4>1. tail = Top /\ ltq' = [ltq EXCEPT ![tail] = pushed + 1] /\ UNCHANGED head
        BY <3>1 DEF DetachStore, Top, Undecided
      <4>2. \A t \in Thieves : tpc[t] = "detach" => ltq'[head] = ltq[head]
        BY <2>1, <2>2, <4>1 DEF IInv, TypeOK
      <4> QED BY <3>1, <4>1, <4>2 DEF GuardInv, GuardedNotStolen, DetachStore, history
    <3>2. CASE DisallowStealing \/ RestoreStealing
      BY <3>2, SizesAssumption DEF GuardInv, GuardedNotStolen,
        DisallowStealing, RestoreStealing, index, locks, own, history
    <3>3. CASE UndoDetachStore \/ ReturnException \/ PromoteOwnDeque \/ Sync \/ Resume
      BY <3>3, Zenon DEF GuardInv, GuardedNotStolen, UndoDetachStore, ReturnException,
        PromoteOwnDeque, Sync, Resume, index, locks, own, history
    <3> QED BY <2>3, <3>1, <3>2, <3>3 DEF OwnerUser
  <2>4. CASE OwnerRuntime
    <3>1. CASE DetachPublish
      <4>1. /\ pushed' = pushed + 1 /\ UNCHANGED <<head, ltq, tpc, stolen, saved, protected_tail>>
            /\ guarded' = IF saved = -1 THEN guarded ELSE guarded \union {pushed + 1}
        BY <3>1 DEF DetachPublish
      <4>2. stolen \subseteq 1..pushed
        BY DEF IInv, ContentInv, Content
      <4>3. GuardedNotStolen' /\ guarded' \subseteq 1..pushed'
        BY <2>1, <4>1, <4>2 DEF GuardInv, GuardedNotStolen
      <4>4. \A t \in Thieves : tpc[t] = "detach" => ltq[head] \notin guarded'
        BY <2>1, <2>2, <4>1 DEF GuardInv
      <4> QED BY <4>1, <4>3, <4>4, SizesAssumption DEF GuardInv, IInv, TypeOK
    <3>2. CASE PromoteOne
      <4>1. lock = Owner /\ protected_tail # 0
        BY <2>1, <3>2 DEF IInv, LockInv, PromoteOne, can_steal_from
      <4> QED BY <4>1, <2>2, <3>2, WorkersAssumption
            DEF GuardInv, GuardedNotStolen, PromoteOne, own, locks
    <3>3. CASE THEExceptionCheck \/ PopTail \/ SetupForExecution
      <4>1. lock = Owner
        BY <3>3 DEF IInv, LockInv, THEExceptionCheck, PopTail, SetupForExecution
      <4> QED BY <4>1, <2>2, <3>3, WorkersAssumption, Zenon
            DEF GuardInv, GuardedNotStolen, THEExceptionCheck, PopTail, SetupForExecution,
              history
    <3>4. CASE UndoDetachCheck \/ LeaveFrame \/ SetDoNotSteal \/ AcquireLock \/ ReleaseLock
                 \/ ClearDoNotSteal \/ PromoteDone
      BY <3>4, Zenon DEF GuardInv, GuardedNotStolen, UndoDetachCheck, LeaveFrame, SetDoNotSteal,
        AcquireLock, ReleaseLock, ClearDoNotSteal, PromoteDone, Goto, index, locks, own, history
    <3> QED BY <2>4, <3>1, <3>2, <3>3, <3>4 DEF OwnerRuntime
  <2>5. ASSUME NEW t \in Thieves, ThiefStart(t) \/ ThiefRuntime(t) PROVE GuardInv'
    <3>1. /\ UNCHANGED <<protected_tail, saved, pushed, guarded, ltq>>
          /\ UNCHANGED <<head, stolen>> \/ DetachForSteal(t)
      BY <2>5, ThiefKeeps
    <3>2. CASE DetachForSteal(t)
      <4>1. \A u \in Thieves : tpc'[u] # "detach"
        BY <2>2, <3>2 DEF DetachForSteal, Step, IInv, TypeOK
      <4> QED BY <3>1, <3>2, <4>1 DEF GuardInv, GuardedNotStolen, DetachForSteal, Step
    <3>3. CASE UNCHANGED <<head, stolen>> /\ ~DetachForSteal(t)
      <4>1. \A u \in Thieves : tpc'[u] = "detach" => tpc[u] = "detach" \/ protected_tail # 0
        <5>1. CASE CheckProtected(t)
          <6>1. tpc \in [Thieves -> ThiefPc] BY DEF IInv, TypeOK
          <6> QED BY <2>1, <5>1, <6>1 DEF CheckProtected, Step
        <5>2. CASE ~CheckProtected(t)
          BY <2>5, <3>3, <5>2, Zenon DEF IInv, TypeOK, ThiefStart, ThiefRuntime,
            QuickCheckTail, QuickCheckProtected, TryStealLock, CheckDoNotSteal, TryLock,
    ReleaseStealLock, CheckVictim, IncrementE, CheckTail, CheckProtected,
    DecrementE, DetachForSteal, UnlockOther, Step
        <5> QED BY <5>1, <5>2
      <4> QED BY <3>1, <3>3, <4>1 DEF GuardInv, GuardedNotStolen
    <3> QED BY <3>1, <3>2, <3>3
  <2>6. CASE UNCHANGED vars
    BY <2>6 DEF vars, index, locks, own, history, GuardInv, GuardedNotStolen
  <2> QED BY <2>3, <2>4, <2>5, <2>6 DEF Next
<1>3. GuardInv => GuardedNotStolen
  BY DEF GuardInv
<1> QED BY <1>1, <1>2, <1>3, Invariance, PTL DEF Spec

-----------------------------------------------------------------------------
(* The lock handshake.                                                     *)

\* steal_lock admits one thief to the test of do_not_steal and the trylock that
\* follows it, and once a thief has overtaken the owner no other is past the test.
HandshakeInv ==
  /\ tpc \in [Thieves -> ThiefPc]
  /\ \A t \in Thieves : steal_lock = t <=> tpc[t] \in {"flag", "trylock", "won", "drop"}
  /\ pc = "want" => do_not_steal = TRUE
  /\ bypass \in {0, 1}
  /\ pc = "want" /\ bypass = 1 => \A t \in Thieves : tpc[t] # "trylock"

\* At most one thief takes the lock of a worker that has set do_not_steal.
THEOREM AtMostOneBypassHolds == Spec => []AtMostOneBypass
<1>1. Init => HandshakeInv
  BY WorkersAssumption DEF Init, HandshakeInv, ThiefPc
<1>2. TypeOK /\ HandshakeInv /\ [Next]_vars => HandshakeInv'
  <2> SUFFICES ASSUME TypeOK, HandshakeInv, [Next]_vars PROVE HandshakeInv'
    OBVIOUS
  <2>1. CASE OwnerUser
    <3>1. UNCHANGED <<tpc, steal_lock, bypass>> /\ pc' # "want"
      BY <2>1, Zenon DEF OwnerUser, DetachStore, UndoDetachStore, ReturnException, PromoteOwnDeque, Sync, Resume,
    DisallowStealing, RestoreStealing, Goto, index, locks, own, history
    <3> QED BY <3>1 DEF HandshakeInv
  <2>2. CASE OwnerRuntime
    <3>1. UNCHANGED <<tpc, steal_lock>>
      BY <2>2, Zenon DEF OwnerRuntime, DetachPublish, UndoDetachCheck, LeaveFrame, SetDoNotSteal, AcquireLock, ReleaseLock,
    ClearDoNotSteal, THEExceptionCheck, PopTail, PromoteOne, PromoteDone,
    SetupForExecution, locks
    <3>2. CASE SetDoNotSteal
      BY <3>1, <3>2 DEF HandshakeInv, SetDoNotSteal
    <3>3. CASE ~SetDoNotSteal
      <4>1. bypass' = bypass
        BY <2>2, <3>3, Zenon DEF OwnerRuntime, DetachPublish, UndoDetachCheck, LeaveFrame, SetDoNotSteal, AcquireLock, ReleaseLock,
    ClearDoNotSteal, THEExceptionCheck, PopTail, PromoteOne, PromoteDone,
    SetupForExecution, history
      <4>2. pc' # "want"
        BY <2>2, <3>3, Zenon DEF TypeOK, OwnerRuntime, DetachPublish, UndoDetachCheck, LeaveFrame, SetDoNotSteal, AcquireLock, ReleaseLock,
    ClearDoNotSteal, THEExceptionCheck, PopTail, PromoteOne, PromoteDone,
    SetupForExecution, Goto, own
      <4> QED BY <3>1, <4>1, <4>2 DEF HandshakeInv
    <3> QED BY <3>2, <3>3
  <2>3. ASSUME NEW t \in Thieves, ThiefStart(t) \/ ThiefRuntime(t) PROVE HandshakeInv'
    <3>0. UNCHANGED pc /\ (pc = "want" => do_not_steal = TRUE)
      BY <2>3, ThiefKeeps DEF HandshakeInv
    <3>00. UNCHANGED do_not_steal
      BY <2>3, ThiefKeeps
    <3> USE <3>0, <3>00, WorkersAssumption DEF HandshakeInv, ThiefPc, Step
    <3>1. CASE QuickCheckTail(t) BY <3>1 DEF QuickCheckTail
    <3>2. CASE QuickCheckProtected(t) BY <3>2 DEF QuickCheckProtected
    <3>3. CASE TryStealLock(t) BY <3>3 DEF TryStealLock
    <3>4. CASE CheckDoNotSteal(t) BY <3>4 DEF CheckDoNotSteal
    <3>5. CASE TryLock(t) BY <3>5 DEF TryLock
    <3>6. CASE ReleaseStealLock(t) BY <3>6 DEF ReleaseStealLock
    <3>7. CASE CheckVictim(t) BY <3>7 DEF CheckVictim
    <3>8. CASE IncrementE(t) BY <3>8 DEF IncrementE
    <3>9. CASE CheckTail(t) BY <3>9 DEF CheckTail
    <3>10. CASE CheckProtected(t) BY <3>10 DEF CheckProtected
    <3>11. CASE DecrementE(t) BY <3>11 DEF DecrementE
    <3>12. CASE DetachForSteal(t) BY <3>12 DEF DetachForSteal
    <3>13. CASE UnlockOther(t) BY <3>13 DEF UnlockOther
    <3> HIDE DEF HandshakeInv, ThiefPc, Step
    <3> QED BY <2>3, <3>1, <3>2, <3>3, <3>4, <3>5, <3>6, <3>7, <3>8, <3>9, <3>10, <3>11,
          <3>12, <3>13 DEF ThiefStart, ThiefRuntime
  <2>4. CASE UNCHANGED vars
    BY <2>4 DEF vars, index, locks, own, history, HandshakeInv
  <2> QED BY <2>1, <2>2, <2>3, <2>4 DEF Next
<1>3. HandshakeInv => AtMostOneBypass
  BY DEF HandshakeInv, AtMostOneBypass
<1> QED BY <1>1, <1>2, <1>3, TypeCorrect, PTL DEF Spec

-----------------------------------------------------------------------------
(* Refinement.                                                             *)

\* The detailed protocol implements the queue with atomic operations: each step
\* is a Push, a Pop, a Steal or invisible.
THEOREM Refinement == Spec => ImplementsWorkQueue
<1> DEFINE q == Slice(head, Top, ltq)
<1>1. Init => WQ!Init
  <2> SUFFICES ASSUME Init PROVE WQ!Init
    OBVIOUS
  <2>1. Top - head = 0 BY DEF Init, Top, Undecided
  <2> QED BY <2>1 DEF Init, WQ!Init
<1>2. IInv /\ IInv' /\ Effect => [WQ!Next]_(WQ!vars)
  <2> SUFFICES ASSUME IInv, IInv', Effect PROVE [WQ!Next]_(WQ!vars)
    OBVIOUS
  <2>1. /\ head \in Int /\ Top \in Int /\ pushed \in Nat /\ head <= Top
        /\ head' \in Int /\ Top' \in Int
    <3>1. TypeOK' BY DEF IInv
    <3>2. head' \in Int /\ tail' \in Int BY <3>1 DEF TypeOK
    <3> QED BY <3>2, IntegerIndices DEF Top
  <2>2. \A i \in head..(Top - 1) : ltq[i] \in Nat
    BY IntegerIndices
  <2>3. CASE Quiet
    <3>1. /\ Top' - head' = Top - head
          /\ \A k \in 0..(Top - head - 1) : ltq'[head' + k] = ltq[head + k]
      BY <2>3 DEF Quiet
    <3>2. \A i \in 1..(Top - head) : ltq'[head' + i - 1] = ltq[head + i - 1]
      <4> TAKE i \in 1..(Top - head)
      <4>1. i - 1 \in 0..(Top - head - 1) /\ head' + (i - 1) = head' + i - 1
            /\ head + (i - 1) = head + i - 1
        BY <2>1
      <4>2. ltq'[head' + (i - 1)] = ltq[head + (i - 1)]
        BY <3>1, <4>1
      <4> QED BY <4>1, <4>2
    <3> QED BY <2>3, <3>1, <3>2, Zenon DEF Quiet, WQ!vars
  <2>4. CASE PushTop
    <3>1. head' = head /\ Top' = Top + 1 /\ ltq' = ltq /\ ltq[Top] = pushed' /\ pushed' \in Nat
      BY <2>1, <2>4 DEF PushTop
    <3>2. \A i \in head..Top : ltq[i] \in Nat
      <4> TAKE i \in head..Top
      <4>1. i \in head..(Top - 1) \/ i = Top BY <2>1
      <4> QED BY <4>1, <2>2, <3>1
    <3>3. Slice(head', Top', ltq') = Append(q, pushed')
      BY <2>1, <3>1, <3>2, SlicePush, Zenon
    <3> QED BY <2>4, <3>3, Zenon DEF PushTop, Slice, WQ!Next, WQ!Push
  <2>5. CASE TakeTop
    <3>1. q # << >> /\ q[Len(q)] = ltq[Top - 1]
          /\ Slice(head', Top', ltq') = SubSeq(q, 1, Len(q) - 1)
      <4>1. head < Top /\ head' = head /\ Top' = Top - 1 /\ ltq' = ltq BY <2>5 DEF TakeTop
      <4> QED BY <2>1, <2>2, <4>1, SliceTakeTop
    <3> QED BY <2>5, <3>1, Zenon DEF TakeTop, Slice, WQ!Next, WQ!Pop
  <2>6. CASE TakeHead
    <3>1. q # << >> /\ Head(q) = ltq[head] /\ Slice(head', Top', ltq') = Tail(q)
      <4>1. head < Top /\ head' = head + 1 /\ Top' = Top /\ ltq' = ltq BY <2>6 DEF TakeHead
      <4>2. Head(q) = ltq[head] /\ q # << >> /\ Slice(head + 1, Top, ltq) = Tail(q)
        BY <2>1, <2>2, <4>1, SliceTakeHead
      <4> QED BY <4>1, <4>2
    <3> QED BY <2>6, <3>1, Zenon DEF TakeHead, Slice, WQ!Next, WQ!Steal
  <2> QED BY <2>3, <2>4, <2>5, <2>6 DEF Effect
<1> QED BY <1>1, <1>2, NextIInv, Invariance, PTL DEF Spec, ImplementsWorkQueue, WQ!Spec
=============================================================================
