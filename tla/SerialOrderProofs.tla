------------------------- MODULE SerialOrderProofs --------------------------
(***************************************************************************)
(* What keeps strands in serial order: a place that hands what it holds to *)
(* its left neighbour, a strand that is added where it fits, a new place at *)
(* the right end; and the sequences of strands and children these come from. *)
(***************************************************************************)
EXTENDS SerialOrder, TLAPS

\* Whole numbers only, at the places of K.
Whole(own, right, K) ==
  K \subseteq Int /\ \A k \in K : own[k] \subseteq Int /\ right[k] \subseteq Int

\* A place i moves what it holds, in part or all, to its left neighbour l, or
\* takes what the neighbour has from its right; it runs no longer.
Shift(own, right, K, G, own2, right2, K2, G2, l, i) ==
  /\ Whole(own, right, K) /\ Serial(own, right, K, G)
  /\ l \in K2 /\ i \in K /\ l < i /\ (\A k \in K : k <= l \/ i <= k)
  /\ K2 \subseteq K /\ G \subseteq K /\ G2 \subseteq (G \cap K2) \ {i}
  /\ \A k \in K2 \ {i} : own2[k] = own[k]
  /\ \A k \in K2 \ {i, l} : right2[k] = right[k]
  /\ own2[i] \subseteq right[l] \cup own[i] \cup right[i]
  /\ right2[l] \subseteq right[l] \cup own[i] \cup right[i]
  /\ right2[i] = {} /\ (own2[i] = {} \/ right2[l] = {})

\* Such a move keeps the strands in serial order.
LEMMA SerialShift ==
  ASSUME NEW own, NEW right, NEW K, NEW G, NEW own2, NEW right2, NEW K2, NEW G2,
         NEW l, NEW i, Shift(own, right, K, G, own2, right2, K2, G2, l, i)
  PROVE  Serial(own2, right2, K2, G2)
<1> USE DEF Shift
<1> DEFINE U == right[l] \cup own[i] \cup right[i]
<1>0. l \in K /\ l \in Int /\ i \in Int /\ \A k \in K : k \in Int
  BY DEF Whole
<1>1. /\ \A k \in K : k < l => Less(own[k] \cup right[k], U)
      /\ \A k \in K : i < k => Less(U, own[k] \cup right[k])
      /\ Less(own[l], U)
  BY <1>0 DEF Serial, Less, Whole
<1>2. \A g \in G2 : /\ g \in Int /\ g # i
                    /\ \A a \in U : (l < g => a < 2 * g - 1) /\ (g < i => 2 * g - 1 < a)
  BY <1>0 DEF Serial, Less, Whole
<1>3. \A k \in K2 : Less(own2[k], right2[k])
  <2> TAKE k \in K2
  <2>1. CASE k = i
    BY <2>1 DEF Less
  <2>2. CASE k = l
    BY <2>2, <1>0, <1>1 DEF Less
  <2>3. CASE k # i /\ k # l
    BY <2>3 DEF Serial
  <2>4. QED
    BY <2>1, <2>2, <2>3
<1>4. ASSUME NEW j \in K2, NEW k \in K2, j < k
      PROVE  Less(own2[j] \cup right2[j], own2[k] \cup right2[k])
  <2> USE <1>0, <1>4
  <2>1. CASE j = i
    <3>1. i < k /\ k # i /\ k # l /\ k \in K
      BY <2>1
    <3>2. Less(U, own2[k] \cup right2[k])
      BY <3>1, <1>1, Zenon
    <3>3. QED
      BY <2>1, <3>2 DEF Less
  <2>2. CASE k = i
    <3>1. CASE j = l
      BY <3>1, <2>2, <1>1 DEF Less
    <3>2. CASE j # l
      <4>1. j < l /\ j # i
        BY <3>2, <2>2
      <4>2. QED
        BY <4>1, <3>2, <2>2, <1>1 DEF Less
    <3>3. QED
      BY <3>1, <3>2
  <2>3. CASE j = l /\ k # i
    <3>1. i < k /\ k # l
      BY <2>3
    <3>2. Less(own[l] \cup right[l], own[k] \cup right[k])
      BY <3>1 DEF Serial
    <3>3. QED
      BY <3>1, <3>2, <2>3, <1>1 DEF Less
  <2>4. CASE k = l
    <3>1. j < l /\ j \in K2 \ {i} /\ j \in K2 \ {i, l} /\ l \in K2 \ {i}
      BY <2>4
    <3>2. Less(own[j] \cup right[j], own[l] \cup right[l])
      BY <3>1, Zenon DEF Serial
    <3>3. Less(own[j] \cup right[j], U)
      BY <3>1, <1>1, Zenon
    <3>4. own2[j] = own[j] /\ right2[j] = right[j] /\ own2[l] = own[l]
      BY <3>1, Zenon
    <3>5. QED
      BY <3>2, <3>3, <3>4, <2>4 DEF Less
  <2>5. CASE j # i /\ k # i /\ j # l /\ k # l
    <3>1. own2[j] = own[j] /\ right2[j] = right[j] /\ own2[k] = own[k] /\ right2[k] = right[k]
      BY <2>5, Zenon
    <3>2. Less(own[j] \cup right[j], own[k] \cup right[k])
      BY <1>4 DEF Serial
    <3>3. QED
      BY <3>1, <3>2
  <2>6. QED
    BY <2>1, <2>2, <2>3, <2>4, <2>5
<1>5. ASSUME NEW g \in G2
      PROVE  /\ \A a \in own2[g] : a <= 2 * g - 1
             /\ \A a \in right2[g] : 2 * g - 1 < a
             /\ \A k \in K2 : \A a \in own2[k] \cup right2[k] :
                  (k < g => a < 2 * g - 1) /\ (g < k => 2 * g - 1 < a)
  <2> USE <1>0
  <2>1. g \in G /\ g # i /\ g \in Int
    BY <1>2
  <2>2. \A k \in K2 : \A a \in own2[k] \cup right2[k] :
          (k < g => a < 2 * g - 1) /\ (g < k => 2 * g - 1 < a)
    <3> TAKE k \in K2
    <3>1. CASE k = i
      <4>1. g <= l \/ i < g
        BY <2>1
      <4>2. QED
        BY <3>1, <4>1, <2>1, <1>2
    <3>2. CASE k = l
      <4>1. g <= l \/ i < g
        BY <2>1
      <4>2. QED
        BY <3>2, <4>1, <2>1, <1>2 DEF Serial
    <3>3. CASE k # i /\ k # l
      BY <3>3, <2>1, Zenon DEF Serial
    <3>4. QED
      BY <3>1, <3>2, <3>3
  <2>3. /\ \A a \in own2[g] : a <= 2 * g - 1
        /\ \A a \in right2[g] : 2 * g - 1 < a
    <3>1. CASE g \in K2 /\ g # l
      BY <3>1, <2>1 DEF Serial
    <3>2. CASE g = l
      BY <3>2, <2>1, <1>2 DEF Serial
    <3>3. QED
      BY <3>1, <3>2
  <2>4. QED
    BY <2>2, <2>3
<1>6. QED
  BY <1>3, <1>4, <1>5 DEF Serial

\* The place i gets a strand a that fits there.
Add(own, right, K, G, own2, i, a) ==
  /\ Whole(own, right, K) /\ Serial(own, right, K, G) /\ G \subseteq K
  /\ i \in K /\ a \in Int
  /\ \A k \in K \ {i} : own2[k] = own[k]
  /\ own2[i] \subseteq own[i] \cup {a}
  /\ \A b \in right[i] : a < b
  /\ \A k \in K : \A b \in own[k] \cup right[k] : (k < i => b < a) /\ (i < k => a < b)
  /\ \A g \in G : /\ g = i => a <= 2 * g - 1
                  /\ i < g => a < 2 * g - 1
                  /\ g < i => 2 * g - 1 < a

\* A strand added where it fits keeps the strands in serial order.
LEMMA SerialAdd ==
  ASSUME NEW own, NEW right, NEW K, NEW G, NEW own2, NEW i, NEW a,
         Add(own, right, K, G, own2, i, a)
  PROVE  Serial(own2, right, K, G)
<1> USE DEF Add
<1>0. \A k \in K : k \in Int
  BY DEF Whole
<1>1. \A k \in K : Less(own2[k], right[k])
  <2> TAKE k \in K
  <2>1. CASE k = i
    BY <2>1 DEF Serial, Less
  <2>2. CASE k # i
    BY <2>2 DEF Serial
  <2>3. QED
    BY <2>1, <2>2
<1>2. ASSUME NEW j \in K, NEW k \in K, j < k
      PROVE  Less(own2[j] \cup right[j], own2[k] \cup right[k])
  <2>1. Less(own[j] \cup right[j], own[k] \cup right[k])
    BY <1>2 DEF Serial
  <2>2. CASE j = i
    <3>1. k # i /\ own2[k] = own[k]
      BY <1>0, <1>2, <2>2
    <3>2. QED
      BY <1>2, <2>1, <2>2, <3>1 DEF Less
  <2>3. CASE k = i
    <3>1. j # i /\ own2[j] = own[j]
      BY <1>0, <1>2, <2>3
    <3>2. QED
      BY <1>2, <2>1, <2>3, <3>1 DEF Less
  <2>4. CASE j # i /\ k # i
    <3>1. own2[j] = own[j] /\ own2[k] = own[k]
      BY <2>4
    <3>2. QED
      BY <2>1, <3>1
  <2>5. QED
    BY <2>2, <2>3, <2>4
<1>3. ASSUME NEW g \in G
      PROVE  /\ \A b \in own2[g] : b <= 2 * g - 1
             /\ \A b \in right[g] : 2 * g - 1 < b
             /\ \A k \in K : \A b \in own2[k] \cup right[k] :
                  (k < g => b < 2 * g - 1) /\ (g < k => 2 * g - 1 < b)
  <2>1. /\ \A b \in own[g] : b <= 2 * g - 1
        /\ \A b \in right[g] : 2 * g - 1 < b
        /\ \A k \in K : \A b \in own[k] \cup right[k] :
             (k < g => b < 2 * g - 1) /\ (g < k => 2 * g - 1 < b)
    BY DEF Serial
  <2>2. \A b \in own2[g] : b <= 2 * g - 1
    BY <2>1
  <2>3. ASSUME NEW k \in K, NEW b \in own2[k] \cup right[k]
        PROVE  (k < g => b < 2 * g - 1) /\ (g < k => 2 * g - 1 < b)
    <3>1. CASE b \in own[k] \cup right[k]
      BY <3>1, <2>1
    <3>2. CASE k = i /\ b = a
      BY <3>2
    <3>3. QED
      BY <2>3, <3>1, <3>2
  <2>4. QED
    BY <2>1, <2>2, <2>3
<1>4. QED
  BY <1>1, <1>2, <1>3 DEF Serial

\* What the rightmost place n held goes to a new place k, just to its left.
Insert(own, right, K, G, own2, right2, k, n) ==
  /\ Whole(own, right, K) /\ Serial(own, right, K, G) /\ G \subseteq K
  /\ n \in K /\ k \in Int \ K /\ k < n /\ (\A j \in K \ {n} : j < k) /\ n \notin G
  /\ \A j \in K \ {n} : own2[j] = own[j] /\ right2[j] = right[j]
  /\ own2[k] = own[n] /\ right2[k] = {} /\ own2[n] = {} /\ right2[n] = {}
  /\ \A j \in K : \A a \in own[j] \cup right[j] : a < 2 * k - 1

\* A new place at the right end keeps the strands in serial order.
LEMMA SerialSpawn ==
  ASSUME NEW own, NEW right, NEW K, NEW G, NEW own2, NEW right2, NEW k, NEW n,
         Insert(own, right, K, G, own2, right2, k, n)
  PROVE  Serial(own2, right2, K \cup {k}, G \cup {k})
<1> USE DEF Insert
<1>0. \A j \in K : j \in Int
  BY DEF Whole
<1>1. \A j \in K \cup {k} : Less(own2[j], right2[j])
  <2> TAKE j \in K \cup {k}
  <2>1. CASE j = k \/ j = n
    BY <2>1 DEF Less
  <2>2. CASE j # k /\ j # n
    BY <2>2 DEF Serial
  <2>3. QED
    BY <2>1, <2>2
<1>2. ASSUME NEW j \in K \cup {k}, NEW m \in K \cup {k}, j < m
      PROVE  Less(own2[j] \cup right2[j], own2[m] \cup right2[m])
  <2>1. CASE m = n
    BY <2>1 DEF Less
  <2>2. CASE m = k
    <3>1. j \in K \ {n} /\ j < n
      BY <1>0, <1>2, <2>2
    <3>2. Less(own[j] \cup right[j], own[n] \cup right[n])
      BY <3>1 DEF Serial
    <3>3. QED
      BY <2>2, <3>1, <3>2 DEF Less
  <2>3. CASE m \in K \ {n}
    <3>1. j \in K \ {n}
      BY <1>0, <1>2, <2>3
    <3>2. Less(own[j] \cup right[j], own[m] \cup right[m])
      BY <1>2, <2>3, <3>1 DEF Serial
    <3>3. QED
      BY <2>3, <3>1, <3>2, Zenon
  <2>4. QED
    BY <2>1, <2>2, <2>3
<1>3. ASSUME NEW g \in G \cup {k}
      PROVE  /\ \A a \in own2[g] : a <= 2 * g - 1
             /\ \A a \in right2[g] : 2 * g - 1 < a
             /\ \A j \in K \cup {k} : \A a \in own2[j] \cup right2[j] :
                  (j < g => a < 2 * g - 1) /\ (g < j => 2 * g - 1 < a)
  <2>1. CASE g = k
    <3>1. \A j \in K \cup {k} : k < j => own2[j] \cup right2[j] = {}
      BY <1>0
    <3>2. \A j \in K \cup {k} : \A a \in own2[j] \cup right2[j] : a < 2 * k - 1 /\ a \in Int
      BY DEF Whole
    <3>3. QED
      BY <2>1, <3>1, <3>2
  <2>2. CASE g \in G
    <3>1. g \in K \ {n} /\ g \in Int /\ g < k /\ g < n
      BY <1>0, <2>2
    <3>2. \A a \in own[n] \cup right[n] : 2 * g - 1 < a
      BY <2>2, <3>1 DEF Serial
    <3>3. \A j \in K \ {n} : \A a \in own[j] \cup right[j] :
             (j < g => a < 2 * g - 1) /\ (g < j => 2 * g - 1 < a)
      BY <2>2 DEF Serial
    <3>4. \A j \in K \cup {k} : \A a \in own2[j] \cup right2[j] :
             (j < g => a < 2 * g - 1) /\ (g < j => 2 * g - 1 < a)
      BY <1>0, <3>1, <3>2, <3>3
    <3>5. QED
      BY <2>2, <3>1, <3>4 DEF Serial
  <2>3. QED
    BY <2>1, <2>2
<1>4. QED
  BY <1>1, <1>2, <1>3 DEF Serial

\* With all at the rightmost place there is nothing to be out of order.
LEMMA SerialEnds ==
  ASSUME NEW own, NEW right, NEW n \in Nat, n # 0,
         own[0] = {}, right[0] = {}, right[n] = {}
  PROVE  Serial(own, right, {0, n}, {})
<1>1. \A i \in {0, n} : Less(own[i], right[i])
  BY DEF Less
<1>2. ASSUME NEW i \in {0, n}, NEW k \in {0, n}, i < k
      PROVE  Less(own[i] \cup right[i], own[k] \cup right[k])
  <2>1. i = 0
    BY <1>2
  <2>2. QED
    BY <2>1 DEF Less
<1>3. QED
  BY <1>1, <1>2 DEF Serial


-----------------------------------------------------------------------------
(***************************************************************************)
(* Sequences of strands and of children.                                   *)
(***************************************************************************)
LEMMA ContentEmpty == Content(<<>>) = {} /\ Increasing(<<>>)
BY DEF Content, Increasing

\* What a sequence over S contains is in S.
LEMMA ContentType ==
  ASSUME NEW S, NEW s \in Seq(S)
  PROVE  Content(s) \subseteq S
BY DEF Content

\* A concatenation contains what its two parts contain.
LEMMA ContentConcat ==
  ASSUME NEW S, NEW s \in Seq(S), NEW t \in Seq(S)
  PROVE  s \o t \in Seq(S) /\ Content(s \o t) = Content(s) \cup Content(t)
<1> DEFINE c == s \o t
<1>1. /\ c \in Seq(S) /\ Len(c) = Len(s) + Len(t) /\ DOMAIN c = 1..(Len(s) + Len(t))
      /\ \A i \in 1..Len(s) : c[i] = s[i]
      /\ \A i \in 1..Len(t) : c[Len(s) + i] = t[i]
  OBVIOUS
<1>2. DOMAIN s = 1..Len(s) /\ DOMAIN t = 1..Len(t) /\ Len(s) \in Nat /\ Len(t) \in Nat
  OBVIOUS
<1> HIDE DEF c
<1>3. \A i \in DOMAIN c : c[i] \in Content(s) \cup Content(t)
  <2> TAKE i \in DOMAIN c
  <2>1. CASE i <= Len(s)
    BY <1>1, <1>2, <2>1 DEF Content
  <2>2. CASE i > Len(s)
    <3>1. i - Len(s) \in 1..Len(t) /\ c[i] = t[i - Len(s)]
      BY <1>1, <1>2, <2>2
    <3>2. QED
      BY <3>1, <1>2 DEF Content
  <2>3. QED
    BY <1>1, <1>2, <2>1, <2>2
<1>4. \A i \in DOMAIN s : s[i] \in Content(c)
  BY <1>1, <1>2 DEF Content
<1>5. \A i \in DOMAIN t : t[i] \in Content(c)
  <2> TAKE i \in DOMAIN t
  <2>1. Len(s) + i \in DOMAIN c /\ c[Len(s) + i] = t[i]
    BY <1>1, <1>2
  <2>2. QED
    BY <2>1 DEF Content
<1>6. Content(c) = Content(s) \cup Content(t)
  BY <1>3, <1>4, <1>5 DEF Content
<1>7. QED
  BY <1>1, <1>6 DEF c

\* Two increasing sequences, all of the first below the second, concatenate to an
\* increasing one: merge_two_rts keeps serial order.
LEMMA IncreasingConcat ==
  ASSUME NEW S \in SUBSET Int, NEW s \in Seq(S), NEW t \in Seq(S),
         Increasing(s), Increasing(t), Less(Content(s), Content(t))
  PROVE  Increasing(s \o t)
<1> DEFINE c == s \o t
<1>1. /\ DOMAIN c = 1..(Len(s) + Len(t))
      /\ \A i \in 1..Len(s) : c[i] = s[i]
      /\ \A i \in 1..Len(t) : c[Len(s) + i] = t[i]
  OBVIOUS
<1>2. DOMAIN s = 1..Len(s) /\ DOMAIN t = 1..Len(t) /\ Len(s) \in Nat /\ Len(t) \in Nat
  OBVIOUS
<1> HIDE DEF c
<1>3. ASSUME NEW i \in DOMAIN c, NEW j \in DOMAIN c, i < j
      PROVE  c[i] < c[j]
  <2>1. CASE j <= Len(s)
    BY <1>1, <1>2, <1>3, <2>1 DEF Increasing
  <2>2. CASE Len(s) < i
    <3>1. /\ i - Len(s) \in 1..Len(t) /\ c[i] = t[i - Len(s)]
          /\ j - Len(s) \in 1..Len(t) /\ c[j] = t[j - Len(s)]
          /\ i - Len(s) < j - Len(s)
      BY <1>1, <1>2, <1>3, <2>2
    <3>2. QED
      BY <3>1, <1>2 DEF Increasing
  <2>3. CASE i <= Len(s) /\ Len(s) < j
    <3>1. /\ i \in 1..Len(s) /\ c[i] = s[i]
          /\ j - Len(s) \in 1..Len(t) /\ c[j] = t[j - Len(s)]
      BY <1>1, <1>2, <1>3, <2>3
    <3>2. c[i] \in Content(s) /\ c[j] \in Content(t)
      BY <3>1, <1>2 DEF Content
    <3>3. QED
      BY <3>2 DEF Less
  <2>4. QED
    BY <1>1, <1>2, <2>1, <2>2, <2>3
<1>4. QED
  BY <1>3 DEF Increasing, c

\* Appending the largest element.
LEMMA ContentAppend ==
  ASSUME NEW S \in SUBSET Int, NEW s \in Seq(S), NEW a \in S,
         Increasing(s), \A b \in Content(s) : b < a
  PROVE  /\ Append(s, a) \in Seq(S) /\ Content(Append(s, a)) = Content(s) \cup {a}
         /\ Increasing(Append(s, a))
<1> DEFINE c == Append(s, a)
<1>1. /\ c \in Seq(S) /\ DOMAIN c = 1..(Len(s) + 1)
      /\ \A i \in 1..Len(s) : c[i] = s[i]
      /\ c[Len(s) + 1] = a
  OBVIOUS
<1>2. DOMAIN s = 1..Len(s) /\ Len(s) \in Nat
  OBVIOUS
<1> HIDE DEF c
<1>3. \A i \in DOMAIN c : (i \in DOMAIN s /\ c[i] = s[i]) \/ (i = Len(s) + 1 /\ c[i] = a)
  <2> TAKE i \in DOMAIN c
  <2>1. i \in 1..Len(s) \/ i = Len(s) + 1
    BY <1>1, <1>2
  <2>2. QED
    BY <2>1, <1>1, <1>2
<1>4. \A i \in DOMAIN s : i \in DOMAIN c /\ c[i] = s[i] /\ s[i] \in Content(s)
  BY <1>1, <1>2 DEF Content
<1>5. Len(s) + 1 \in DOMAIN c
  BY <1>1, <1>2
<1>6. Content(c) = Content(s) \cup {a}
  BY <1>1, <1>3, <1>4, <1>5 DEF Content
<1>7. \A i, j \in DOMAIN c : i < j => c[i] < c[j]
  BY <1>1, <1>2, <1>3, <1>4 DEF Increasing
<1>8. QED
  BY <1>1, <1>6, <1>7 DEF c, Increasing

\* Taking the element at p out of an increasing sequence.
LEMMA ContentRemove ==
  ASSUME NEW S \in SUBSET Int, NEW s \in Seq(S), Increasing(s), NEW p \in DOMAIN s
  PROVE  LET c == SubSeq(s, 1, p - 1) \o SubSeq(s, p + 1, Len(s)) IN
         c \in Seq(S) /\ Increasing(c) /\ Content(c) = Content(s) \ {s[p]}
<1> DEFINE u == SubSeq(s, 1, p - 1)
           v == SubSeq(s, p + 1, Len(s))
<1>1. /\ DOMAIN s = 1..Len(s) /\ Len(s) \in Nat /\ p \in 1..Len(s) /\ p \in Int
      /\ \A i \in DOMAIN s : s[i] \in Int
  <2>1. /\ DOMAIN s = 1..Len(s) /\ Len(s) \in Nat
        /\ \A i \in DOMAIN s : s[i] \in S
    OBVIOUS
  <2>2. \A i \in DOMAIN s : s[i] \in Int
    BY <2>1, Zenon
  <2>3. QED
    BY <2>1, <2>2
<1>2. /\ u \in Seq(S) /\ Len(u) = p - 1 /\ DOMAIN u = 1..(p - 1)
      /\ \A i \in 1..(p - 1) : u[i] = s[i]
  BY <1>1
<1>3. /\ v \in Seq(S) /\ Len(v) = Len(s) - p /\ DOMAIN v = 1..(Len(s) - p)
      /\ \A i \in 1..(Len(s) - p) : v[i] = s[p + i]
  <2> DEFINE m == p + 1
             n == Len(s)
  <2>1. m \in Int /\ n \in Int /\ \A i \in m..n : s[i] \in S
    BY <1>1
  <2> HIDE DEF m, n
  <2>2. SubSeq(s, m, n) \in Seq(S)
    BY <2>1
  <2>3. Len(SubSeq(s, m, n)) = IF m <= n THEN n - m + 1 ELSE 0
    BY <2>1
  <2>4. \A i \in 1..(n - m + 1) : SubSeq(s, m, n)[i] = s[m + i - 1]
    BY <2>1
  <2>5. Len(v) = Len(s) - p /\ n - m + 1 = Len(s) - p
    BY <1>1, <2>3 DEF m, n
  <2>6. \A i \in 1..(Len(s) - p) : v[i] = s[p + i]
    <3> TAKE i \in 1..(Len(s) - p)
    <3>1. m + i - 1 = p + i
      BY <1>1 DEF m
    <3>2. v[i] = s[m + i - 1]
      BY <2>4, <2>5 DEF m, n
    <3>3. QED
      BY <3>1, <3>2
  <2>7. v \in Seq(S)
    BY <2>2 DEF m, n
  <2>8. QED
    BY <2>5, <2>6, <2>7
<1> HIDE DEF u, v
<1>4. Content(u) = {s[i] : i \in 1..(p - 1)}
  BY <1>2, Zenon DEF Content
<1>5. Content(v) = {s[i] : i \in (p + 1)..Len(s)}
  <2>1. \A i \in (p + 1)..Len(s) : i - p \in DOMAIN v /\ v[i - p] = s[i]
    <3> TAKE i \in (p + 1)..Len(s)
    <3>1. i - p \in 1..(Len(s) - p) /\ p + (i - p) = i
      BY <1>1
    <3>2. v[i - p] = s[p + (i - p)]
      BY <1>3, <3>1
    <3>3. QED
      BY <1>3, <3>1, <3>2
  <2>2. \A i \in DOMAIN v : p + i \in (p + 1)..Len(s) /\ v[i] = s[p + i]
    BY <1>1, <1>3
  <2>3. QED
    BY <2>1, <2>2 DEF Content
<1>6. \A i \in 1..Len(s) : /\ i < p => s[i] < s[p]
                           /\ p < i => s[p] < s[i]
  BY <1>1 DEF Increasing
<1>7. Increasing(u)
  BY <1>1, <1>2 DEF Increasing
<1>8. Increasing(v)
  <2>1. \A i \in DOMAIN v : p + i \in DOMAIN s /\ v[i] = s[p + i] /\ i \in Int
    BY <1>1, <1>3
  <2>2. ASSUME NEW i \in DOMAIN v, NEW j \in DOMAIN v, i < j
        PROVE  v[i] < v[j]
    <3>1. p + i \in DOMAIN s /\ p + j \in DOMAIN s /\ p + i < p + j
      BY <1>1, <2>1, <2>2
    <3>2. QED
      BY <2>1, <3>1, Zenon DEF Increasing
  <2>3. QED
    BY <2>2, Zenon DEF Increasing
<1>9. Less(Content(u), Content(v))
  <2>1. ASSUME NEW i \in 1..(p - 1), NEW j \in (p + 1)..Len(s)
        PROVE  s[i] < s[j]
    BY <1>1, <1>6
  <2>2. QED
    BY <1>4, <1>5, <2>1 DEF Less
<1>10. Content(u) \cup Content(v) = Content(s) \ {s[p]}
  <2>1. Content(s) = {s[i] : i \in 1..Len(s)}
    BY <1>1 DEF Content
  <2>2. \A i \in 1..Len(s) : i \in 1..(p - 1) \/ i = p \/ i \in (p + 1)..Len(s)
    BY <1>1
  <2>3. 1..(p - 1) \subseteq 1..Len(s) /\ (p + 1)..Len(s) \subseteq 1..Len(s)
    BY <1>1
  <2>4. \A i \in 1..(p - 1) : s[i] # s[p]
    BY <1>1, <1>6
  <2>5. \A i \in (p + 1)..Len(s) : s[i] # s[p]
    BY <1>1, <1>6
  <2>6. QED
    BY <1>4, <1>5, <2>1, <2>2, <2>3, <2>4, <2>5
<1>11. u \o v \in Seq(S) /\ Content(u \o v) = Content(s) \ {s[p]}
  BY <1>2, <1>3, <1>10, ContentConcat
<1>12. Increasing(u \o v)
  BY <1>2, <1>3, <1>7, <1>8, <1>9, IncreasingConcat
<1>13. QED
  BY <1>11, <1>12 DEF u, v

-----------------------------------------------------------------------------
(***************************************************************************)
(* Counting a set by an enumeration of it.                                 *)
(***************************************************************************)
\* One element more, and one less.
LEMMA Counting ==
  ASSUME NEW A, NEW c \in Nat, Enumerated(A, c)
  PROVE  /\ c = 0 <=> A = {}
         /\ \A x \in A : /\ c - 1 \in Nat /\ Enumerated(A \ {x}, c - 1)
                         /\ c = 1 => A \ {x} = {}
         /\ \A x : x \notin A => Enumerated(A \cup {x}, c + 1)
<1>1. PICK f \in [1..c -> A] : /\ \A a \in A : \E k \in 1..c : f[k] = a
                              /\ \A k, m \in 1..c : f[k] = f[m] => k = m
  BY DEF Enumerated
<1>2. c = 0 <=> A = {}
  BY <1>1
<1>3. ASSUME NEW x \in A
      PROVE  /\ c - 1 \in Nat /\ Enumerated(A \ {x}, c - 1)
             /\ c = 1 => A \ {x} = {}
  <2>1. PICK k \in 1..c : f[k] = x
    BY <1>1
  <2> DEFINE g == [m \in 1..(c - 1) |-> IF m = k THEN f[c] ELSE f[m]]
  <2>2. c - 1 \in Nat /\ 1..(c - 1) \subseteq 1..c /\ c \in 1..c
    BY <2>1
  <2>3. \A m \in 1..(c - 1) : m # c
    OBVIOUS
  <2>4. g \in [1..(c - 1) -> A \ {x}]
    BY <1>1, <2>1, <2>2, <2>3
  <2>5. ASSUME NEW a \in A \ {x}
        PROVE  \E m \in 1..(c - 1) : g[m] = a
    <3>1. PICK m \in 1..c : f[m] = a
      BY <1>1
    <3>2. m # k
      BY <2>1, <3>1
    <3>3. CASE m = c
      <4>1. k \in 1..(c - 1) /\ g[k] = a
        BY <3>1, <3>2, <3>3
      <4>2. QED
        BY <4>1
    <3>4. CASE m # c
      <4>1. m \in 1..(c - 1) /\ g[m] = a
        BY <3>1, <3>2, <3>4
      <4>2. QED
        BY <4>1
    <3>5. QED
      BY <3>3, <3>4
  <2>6. \A m, j \in 1..(c - 1) : g[m] = g[j] => m = j
    BY <1>1, <2>2, <2>3
  <2> HIDE DEF g
  <2>7. Enumerated(A \ {x}, c - 1)
    BY <2>4, <2>5, <2>6, Zenon DEF Enumerated
  <2>8. c = 1 => A \ {x} = {}
    BY <2>5
  <2>9. QED
    BY <2>2, <2>7, <2>8
<1>4. ASSUME NEW x, x \notin A
      PROVE  Enumerated(A \cup {x}, c + 1)
  <2> DEFINE g == [m \in 1..(c + 1) |-> IF m = c + 1 THEN x ELSE f[m]]
  <2>1. \A m \in 1..(c + 1) : m # c + 1 => m \in 1..c
    OBVIOUS
  <2>2. g \in [1..(c + 1) -> A \cup {x}]
    BY <2>1
  <2>3. \A a \in A \cup {x} : \E m \in 1..(c + 1) : g[m] = a
    <3>1. c + 1 \in 1..(c + 1) /\ 1..c \subseteq 1..(c + 1) /\ \A m \in 1..c : m # c + 1
      OBVIOUS
    <3>2. QED
      BY <1>1, <3>1
  <2>4. \A m, j \in 1..(c + 1) : g[m] = g[j] => m = j
    BY <1>1, <1>4, <2>1
  <2> HIDE DEF g
  <2>5. QED
    BY <2>2, <2>3, <2>4, Zenon DEF Enumerated
<1>5. QED
  BY <1>2, <1>3, <1>4, Zenon

\* The empty set has no elements.
LEMMA NothingCounts == Enumerated({}, 0)
<1> DEFINE f == [k \in 1..0 |-> 0]
<1>1. 1..0 = {} /\ f \in [1..0 -> {}]
  OBVIOUS
<1>2. QED
  BY <1>1, Zenon DEF Enumerated
=============================================================================
