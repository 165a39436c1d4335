------------------------ MODULE PromptQueue_proofs ------------------------
(***************************************************************************)
(* Proofs about the durable prompt queue: a prompt runs at most once       *)
(* (RunsOnce), the fence names the head in memory and in the file          *)
(* (FenceIsHead), and the running head stays what it was (RunningHead).    *)
(*                                                                         *)
(* RunsOnce is not inductive: a prompt that has had its turn must not be   *)
(* dispatched again, so it may be in a queue only behind its own fence,    *)
(* where settlement and recovery remove it (Unrun); and an input that is   *)
(* still on its way to the queue must not be in it already (Flight).  That *)
(* needs to know what the fence and the file hold wherever the actor can   *)
(* be stopped (Actor).  QueueInv is the conjunction.  The first part of    *)
(* the module is about the operations on snapshots, the second about the   *)
(* three places an operation changes, the last about the actions.          *)
(***************************************************************************)
EXTENDS PromptQueue, SequenceTheorems, FiniteSetTheorems, TLAPS

-----------------------------------------------------------------------------
(* The items of a queue: their ids, and that no two share one.             *)
Items      == [id : Inputs, text : Nat]
ItemIds(t) == {t[i].id : i \in DOMAIN t}
Unique(t)  == \A i, j \in DOMAIN t : t[i].id = t[j].id => i = j

(* The head of a sequence of items is its first element.                   *)
LEMMA HeadItem ==
    ASSUME NEW t \in Seq(Items), t # <<>>
    PROVE  /\ Len(t) \in Nat \ {0} /\ DOMAIN t = 1 .. Len(t) /\ 1 \in DOMAIN t
           /\ Head(t) = t[1] /\ Head(t) \in Items /\ Head(t).id \in ItemIds(t)
<1>1. Len(t) \in Nat \ {0} /\ DOMAIN t = 1 .. Len(t)
  BY EmptySeq, LenProperties
<1>2. Head(t) = t[1] /\ t[1] \in Items
  BY <1>1, ElementOfSeq
<1> QED BY <1>1, <1>2 DEF ItemIds

LEMMA NonEmptyItems ==
    ASSUME NEW t \in Seq(Items), 1 \in DOMAIN t
    PROVE  t # <<>>
<1>1. Len(t) # 0
  BY LenProperties
<1> QED BY <1>1, EmptySeq

(* push_back of an item with a new id.                                     *)
LEMMA AppendItem ==
    ASSUME NEW t \in Seq(Items), Unique(t), NEW x \in Items, x.id \notin ItemIds(t)
    PROVE  LET u == Append(t, x) IN
           /\ u \in Seq(Items) /\ Unique(u) /\ ItemIds(u) = ItemIds(t) \cup {x.id}
           /\ u # <<>> /\ (t # <<>> => Head(u) = Head(t))
<1> DEFINE u == Append(t, x)
<1>1. /\ u \in Seq(Items) /\ u # <<>> /\ Len(u) = Len(t) + 1
      /\ \A i \in 1 .. Len(t) : u[i] = t[i]
      /\ u[Len(t) + 1] = x
  BY AppendProperties
<1>2. DOMAIN u = 1 .. Len(t) + 1 /\ DOMAIN t = 1 .. Len(t) /\ Len(t) \in Nat
  BY <1>1, LenProperties
<1> HIDE DEF u
<1>3. Unique(u)
  BY <1>1, <1>2 DEF Unique, ItemIds
<1>4. ItemIds(u) = ItemIds(t) \cup {x.id}
  BY <1>1, <1>2 DEF ItemIds
<1>5. t # <<>> => Head(u) = Head(t)
  BY <1>1, <1>2, HeadItem
<1> QED BY <1>1, <1>3, <1>4, <1>5 DEF u

(* pop_front.                                                              *)
LEMMA TailItems ==
    ASSUME NEW t \in Seq(Items), Unique(t), t # <<>>
    PROVE  /\ Tail(t) \in Seq(Items) /\ Unique(Tail(t))
           /\ ItemIds(Tail(t)) = ItemIds(t) \ {Head(t).id}
<1> DEFINE u == Tail(t)
<1>1. /\ u \in Seq(Items) /\ Len(u) = Len(t) - 1
      /\ \A i \in 1 .. Len(u) : u[i] = t[i + 1]
  BY HeadTailProperties
<1>2. /\ Len(t) \in Nat \ {0} /\ DOMAIN t = 1 .. Len(t) /\ Head(t) = t[1]
      /\ DOMAIN u = 1 .. Len(t) - 1
  BY <1>1, HeadItem, LenProperties
<1> HIDE DEF u
<1>3. Unique(u)
  <2> SUFFICES ASSUME NEW i \in 1 .. Len(t) - 1, NEW j \in 1 .. Len(t) - 1, u[i].id = u[j].id
               PROVE  i = j
    BY <1>2 DEF Unique
  <2>1. /\ i + 1 \in 1 .. Len(t) /\ u[i] = t[i + 1]
        /\ j + 1 \in 1 .. Len(t) /\ u[j] = t[j + 1]
    BY <1>1, <1>2
  <2>2. i + 1 = j + 1
    BY <1>2, <2>1 DEF Unique
  <2> QED BY <2>2
<1>4. ItemIds(u) = ItemIds(t) \ {Head(t).id}
  <2>1. ASSUME NEW p \in ItemIds(u) PROVE p \in ItemIds(t) \ {Head(t).id}
    BY <1>1, <1>2, <2>1 DEF ItemIds, Unique
  <2>2. ASSUME NEW p \in ItemIds(t) \ {Head(t).id} PROVE p \in ItemIds(u)
    <3>1. PICK i \in 1 .. Len(t) : t[i].id = p /\ i # 1
      BY <1>2 DEF ItemIds
    <3>2. i - 1 \in 1 .. Len(t) - 1 /\ u[i - 1] = t[i]
      BY <1>1, <1>2, <3>1
    <3> QED BY <1>2, <3>1, <3>2 DEF ItemIds
  <2> QED BY <2>1, <2>2
<1> QED BY <1>1, <1>3, <1>4 DEF u

(* Vec::remove of one index.                                               *)
LEMMA RemoveItem ==
    ASSUME NEW t \in Seq(Items), Unique(t), NEW k \in DOMAIN t
    PROVE  LET u == RemoveAt(t, k) IN
           /\ u \in Seq(Items) /\ Unique(u) /\ ItemIds(u) = ItemIds(t) \ {t[k].id}
           /\ k # 1 => u # <<>> /\ Head(u) = Head(t)
<1> DEFINE a == SubSeq(t, 1, k - 1)
           b == SubSeq(t, k + 1, Len(t))
           u == RemoveAt(t, k)
<1>1. Len(t) \in Nat /\ DOMAIN t = 1 .. Len(t) /\ k \in 1 .. Len(t)
  BY LenProperties
<1>2. \A i \in 1 .. Len(t) : t[i] \in Items
  BY ElementOfSeq
<1>3. /\ a \in Seq(Items) /\ Len(a) = k - 1
      /\ \A i \in 1 .. k - 1 : a[i] = t[i]
  <2>1. \A i \in 1 .. k - 1 : t[i] \in Items
    BY <1>1, <1>2
  <2>2. /\ a \in Seq(Items)
        /\ Len(a) = IF 1 <= k - 1 THEN k - 1 - 1 + 1 ELSE 0
        /\ \A i \in 1 .. k - 1 - 1 + 1 : a[i] = t[1 + i - 1]
    <3> HIDE DEF a
    <3>1. 1 \in Int /\ k - 1 \in Int BY <1>1
    <3> QED BY <2>1, <3>1, SubSeqProperties DEF a
  <2> HIDE DEF a
  <2>3. Len(a) = k - 1
    BY <1>1, <2>2
  <2>4. ASSUME NEW i \in 1 .. k - 1 PROVE a[i] = t[i]
    <3>1. i \in 1 .. k - 1 - 1 + 1 /\ 1 + i - 1 = i
      BY <1>1
    <3> QED BY <2>2, <3>1
  <2> QED BY <2>2, <2>3, <2>4
<1>4. /\ b \in Seq(Items) /\ Len(b) = Len(t) - k
      /\ \A i \in 1 .. Len(t) - k : b[i] = t[k + i]
  <2>1. \A i \in k + 1 .. Len(t) : t[i] \in Items
    BY <1>1, <1>2
  <2>2. /\ b \in Seq(Items)
        /\ Len(b) = IF k + 1 <= Len(t) THEN Len(t) - (k + 1) + 1 ELSE 0
        /\ \A i \in 1 .. Len(t) - (k + 1) + 1 : b[i] = t[k + 1 + i - 1]
    <3> HIDE DEF b
    <3>1. k + 1 \in Int /\ Len(t) \in Int BY <1>1
    <3> QED BY <2>1, <3>1, SubSeqProperties DEF b
  <2> HIDE DEF b
  <2>3. Len(b) = Len(t) - k
    BY <1>1, <2>2
  <2>4. ASSUME NEW i \in 1 .. Len(t) - k PROVE b[i] = t[k + i]
    <3>1. i \in 1 .. Len(t) - (k + 1) + 1 /\ k + 1 + i - 1 = k + i
      BY <1>1
    <3> QED BY <2>2, <3>1
  <2> QED BY <2>2, <2>3, <2>4
<1>5. u = a \o b
  BY DEF RemoveAt
<1> HIDE DEF a, b, u
<1>6. /\ u \in Seq(Items) /\ Len(u) = Len(t) - 1
      /\ \A i \in 1 .. Len(t) - 1 : u[i] = IF i < k THEN t[i] ELSE t[i + 1]
  <2>1. /\ u \in Seq(Items) /\ Len(u) = Len(a) + Len(b)
        /\ \A i \in 1 .. Len(a) + Len(b) : u[i] = IF i <= Len(a) THEN a[i] ELSE b[i - Len(a)]
    BY <1>3, <1>4, <1>5, ConcatProperties
  <2>2. ASSUME NEW i \in 1 .. Len(t) - 1, i < k PROVE u[i] = t[i]
    BY <1>1, <1>3, <1>4, <2>1, <2>2
  <2>3. ASSUME NEW i \in 1 .. Len(t) - 1, ~(i < k) PROVE u[i] = t[i + 1]
    <3>1. u[i] = b[i - (k - 1)] /\ i - (k - 1) \in 1 .. Len(t) - k
      BY <1>1, <1>3, <1>4, <2>1, <2>3
    <3>2. k + (i - (k - 1)) = i + 1
      BY <1>1
    <3> QED BY <1>4, <3>1, <3>2
  <2> QED BY <1>1, <1>3, <1>4, <2>1, <2>2, <2>3
<1>7. DOMAIN u = 1 .. Len(t) - 1
  BY <1>6, LenProperties
<1>8. Unique(u)
  <2> SUFFICES ASSUME NEW i \in 1 .. Len(t) - 1, NEW j \in 1 .. Len(t) - 1, u[i].id = u[j].id
               PROVE  i = j
    BY <1>7 DEF Unique
  <2> DEFINE A(n) == IF n < k THEN n ELSE n + 1
  <2>1. /\ A(i) \in 1 .. Len(t) /\ u[i] = t[A(i)]
        /\ A(j) \in 1 .. Len(t) /\ u[j] = t[A(j)]
    BY <1>1, <1>6
  <2>2. A(i) = A(j)
    BY <1>1, <2>1 DEF Unique
  <2> QED BY <1>1, <2>2
<1>9. ItemIds(u) = ItemIds(t) \ {t[k].id}
  <2>1. ASSUME NEW p \in ItemIds(u) PROVE p \in ItemIds(t) \ {t[k].id}
    BY <1>1, <1>6, <1>7, <2>1 DEF ItemIds, Unique
  <2>2. ASSUME NEW p \in ItemIds(t) \ {t[k].id} PROVE p \in ItemIds(u)
    <3>1. PICK i \in 1 .. Len(t) : t[i].id = p /\ i # k
      BY <1>1 DEF ItemIds
    <3>2. CASE i < k
      BY <1>1, <1>6, <1>7, <3>1, <3>2 DEF ItemIds
    <3>3. CASE i > k
      <4>1. i - 1 \in 1 .. Len(t) - 1 /\ u[i - 1] = t[i]
        BY <1>1, <1>6, <3>3
      <4> QED BY <1>7, <3>1, <4>1 DEF ItemIds
    <3> QED BY <1>1, <3>1, <3>2, <3>3
  <2> QED BY <2>1, <2>2
<1>10. ASSUME k # 1 PROVE u # <<>> /\ Head(u) = Head(t)
  <2>1. 1 \in 1 .. Len(t) - 1 /\ u[1] = t[1]
    BY <1>1, <1>6, <1>10
  <2>2. u # <<>> /\ t # <<>>
    BY <1>6, <1>7, <1>1, <2>1, EmptySeq
  <2> QED BY <1>6, <2>1, <2>2, HeadItem
<1> QED BY <1>6, <1>8, <1>9, <1>10 DEF u

(* A sequence with the same number of items, each with the id it had.      *)
LEMMA EditItems ==
    ASSUME NEW t \in Seq(Items), Unique(t), NEW u \in Seq(Items), DOMAIN u = DOMAIN t,
           \A i \in DOMAIN t : u[i].id = t[i].id
    PROVE  Unique(u) /\ ItemIds(u) = ItemIds(t) /\ (t # <<>> => u # <<>>)
<1>1. Unique(u) /\ ItemIds(u) = ItemIds(t)
  BY DEF Unique, ItemIds
<1>2. ASSUME t # <<>> PROVE u # <<>>
  BY <1>2, HeadItem, EmptySeq
<1> QED BY <1>1, <1>2

(* A sequence of the same items in another order: k says where each was.   *)
LEMMA PermuteItems ==
    ASSUME NEW t \in Seq(Items), Unique(t), NEW u \in Seq(Items),
           NEW k \in [DOMAIN u -> DOMAIN t],
           \A i \in DOMAIN u : u[i].id = t[k[i]].id,
           \A i, j \in DOMAIN u : k[i] = k[j] => i = j,
           \A n \in DOMAIN t : \E i \in DOMAIN u : k[i] = n
    PROVE  Unique(u) /\ ItemIds(u) = ItemIds(t)
<1>1. Unique(u)
  BY DEF Unique
<1>2. ASSUME NEW i \in DOMAIN u PROVE u[i].id \in ItemIds(t)
  BY DEF ItemIds
<1>3. ASSUME NEW n \in DOMAIN t PROVE t[n].id \in ItemIds(u)
  BY DEF ItemIds
<1>4. ItemIds(u) \subseteq ItemIds(t)
  BY <1>2 DEF ItemIds
<1>5. ItemIds(t) \subseteq ItemIds(u)
  BY <1>3 DEF ItemIds
<1> QED BY <1>1, <1>4, <1>5

(* The reorder that brings the last item to the front.                     *)
LEMMA RotatePlaces ==
    ASSUME NEW t \in Seq(Items), t # <<>>
    PROVE  LET u == <<Last(t)>> \o Front(t) IN
           /\ u \in Seq(Items) /\ Len(u) = Len(t) /\ DOMAIN u = 1 .. Len(t)
           /\ \A i \in 1 .. Len(t) : u[i] = IF i = 1 THEN t[Len(t)] ELSE t[i - 1]
<1> DEFINE n == Len(t)
           f == Front(t)
           l == <<Last(t)>>
           u == l \o f
<1>1. n \in Nat \ {0} /\ DOMAIN t = 1 .. n
  BY HeadItem
<1>2. t[n] \in Items /\ l \in Seq(Items) /\ Len(l) = 1 /\ l[1] = t[n]
  BY <1>1, ElementOfSeq DEF Last
<1>3. f \in Seq(Items) /\ Len(f) = n - 1 /\ \A i \in 1 .. n - 1 : f[i] = t[i]
  <2>1. f = SubSeq(t, 1, n - 1)
    BY DEF Front
  <2>2. \A i \in 1 .. n - 1 : t[i] \in Items
    BY <1>1, ElementOfSeq
  <2> HIDE DEF f, n
  <2>3. 1 \in Int /\ n - 1 \in Int
    BY <1>1
  <2>4. /\ f \in Seq(Items)
        /\ Len(f) = IF 1 <= n - 1 THEN n - 1 - 1 + 1 ELSE 0
        /\ \A i \in 1 .. n - 1 - 1 + 1 : f[i] = t[1 + i - 1]
    BY <2>1, <2>2, <2>3, SubSeqProperties
  <2>5. Len(f) = n - 1
    BY <1>1, <2>4
  <2>6. ASSUME NEW i \in 1 .. n - 1 PROVE f[i] = t[i]
    <3>1. i \in 1 .. n - 1 - 1 + 1 /\ 1 + i - 1 = i
      BY <1>1
    <3> QED BY <2>4, <3>1
  <2> QED BY <2>4, <2>5, <2>6
<1> HIDE DEF f, l, n
<1>4. /\ u \in Seq(Items) /\ Len(u) = Len(l) + Len(f)
      /\ \A i \in 1 .. Len(l) + Len(f) : u[i] = IF i <= Len(l) THEN l[i] ELSE f[i - Len(l)]
  BY <1>2, <1>3, ConcatProperties
<1> HIDE DEF u
<1>5. Len(u) = n /\ DOMAIN u = 1 .. n
  <2>1. Len(u) = n
    BY <1>1, <1>2, <1>3, <1>4
  <2> QED BY <1>4, <2>1, LenProperties
<1>6. \A i \in 1 .. n : u[i] = IF i = 1 THEN t[n] ELSE t[i - 1]
  <2>1. u[1] = t[n]
    BY <1>1, <1>2, <1>3, <1>4
  <2>2. ASSUME NEW i \in 1 .. n, i # 1 PROVE u[i] = t[i - 1]
    BY <1>1, <1>2, <1>3, <1>4, <2>2
  <2> QED BY <2>1, <2>2
<1> QED BY <1>4, <1>5, <1>6 DEF u, l, f, n

LEMMA RotateItems ==
    ASSUME NEW t \in Seq(Items), Unique(t), t # <<>>
    PROVE  LET u == <<Last(t)>> \o Front(t) IN
           u \in Seq(Items) /\ Unique(u) /\ ItemIds(u) = ItemIds(t)
<1> DEFINE n == Len(t)
           u == <<Last(t)>> \o Front(t)
<1>1. n \in Nat \ {0} /\ DOMAIN t = 1 .. n
  BY HeadItem
<1>2. u \in Seq(Items) /\ DOMAIN u = 1 .. n
  BY RotatePlaces
<1>3. \A i \in 1 .. n : u[i] = IF i = 1 THEN t[n] ELSE t[i - 1]
  BY RotatePlaces
<1> HIDE DEF u, n
<1> DEFINE k == [i \in 1 .. n |-> IF i = 1 THEN n ELSE i - 1]
<1>4. k \in [DOMAIN u -> DOMAIN t]
  BY <1>1, <1>2
<1>5. \A i \in DOMAIN u : u[i].id = t[k[i]].id
  BY <1>2, <1>3
<1>6. \A i, j \in DOMAIN u : k[i] = k[j] => i = j
  BY <1>1, <1>2
<1>7. ASSUME NEW m \in DOMAIN t PROVE \E i \in DOMAIN u : k[i] = m
  <2>1. CASE m = n
    <3>1. 1 \in 1 .. n /\ k[1] = m
      BY <1>1, <2>1
    <3> QED BY <1>2, <3>1
  <2>2. CASE m # n
    <3>1. m + 1 \in 1 .. n /\ k[m + 1] = m
      BY <1>1, <2>2
    <3> QED BY <1>2, <3>1
  <2> QED BY <2>1, <2>2
<1> HIDE DEF k
<1>8. Unique(u) /\ ItemIds(u) = ItemIds(t)
  BY <1>2, <1>4, <1>5, <1>6, <1>7, PermuteItems
<1> QED BY <1>2, <1>8 DEF u

(* The item a reorder puts in a place is the one with the id that it asks  *)
(* for, and an order that has every id and as many entries as the queue    *)
(* has each id once: the ids are as many as the items, so an order that    *)
(* reaches every id repeats none.                                          *)
LEMMA ReorderItems ==
    ASSUME NEW s, s.items \in Seq(Items), Unique(s.items), NEW o \in Seq(Inputs),
           ToSet(o) = ItemIds(s.items), Len(o) = Len(s.items)
    PROVE  LET u == Reordered(s, o) IN
           /\ u \in Seq(Items) /\ Unique(u) /\ ItemIds(u) = ItemIds(s.items)
           /\ s.items # <<>> /\ Head(s.items).id = o[1] => u # <<>> /\ Head(u) = Head(s.items)
<1> DEFINE t == s.items
           n == Len(t)
           u == Reordered(s, o)
<1>1. n \in Nat /\ DOMAIN t = 1 .. n /\ DOMAIN o = 1 .. n
  BY LenProperties
<1>2. \A i \in 1 .. n : t[i] \in Items
  BY ElementOfSeq
<1>3. ASSUME NEW i \in 1 .. n PROVE \E m \in 1 .. n : t[m].id = o[i]
  BY <1>1, <1>3 DEF ToSet, ItemIds
<1>4. ASSUME NEW i \in 1 .. n, NEW m \in 1 .. n, t[m].id = o[i]
      PROVE  u[i] = t[m]
  <2>1. u[i] = CHOOSE x \in ToSet(t) : x.id = o[i]
    BY <1>1 DEF Reordered
  <2>2. t[m] \in ToSet(t)
    BY <1>1 DEF ToSet
  <2>3. ASSUME NEW x \in ToSet(t), x.id = o[i] PROVE x = t[m]
    BY <1>1, <1>4, <2>3 DEF ToSet, Unique
  <2> HIDE DEF t, u
  <2> QED BY <1>4, <2>1, <2>2, <2>3
<1>5. u = [i \in 1 .. n |-> u[i]]
  BY <1>1 DEF Reordered
<1>6. \A i \in 1 .. n : u[i] \in Items
  BY <1>2, <1>3, <1>4
<1> HIDE DEF u
<1>7. u \in Seq(Items) /\ DOMAIN u = 1 .. n
  <2>1. u \in [1 .. n -> Items]
    BY <1>5, <1>6
  <2> QED BY <1>1, <2>1, SeqDef
<1> DEFINE k == [i \in 1 .. n |-> CHOOSE m \in 1 .. n : t[m].id = o[i]]
<1>8. \A i \in 1 .. n : k[i] \in 1 .. n /\ t[k[i]].id = o[i]
  BY <1>3
<1>9. k \in Surjection(1 .. n, 1 .. n)
  <2>1. k \in [1 .. n -> 1 .. n]
    BY <1>8
  <2>2. ASSUME NEW m \in 1 .. n PROVE \E i \in 1 .. n : k[i] = m
    <3>1. PICK i \in 1 .. n : o[i] = t[m].id
      BY <1>1, <2>2 DEF ToSet, ItemIds
    <3>2. k[i] \in 1 .. n /\ t[k[i]].id = t[m].id
      BY <1>8, <3>1
    <3> HIDE DEF k
    <3> QED BY <1>1, <3>2 DEF Unique
  <2> HIDE DEF k
  <2> QED BY <2>1, <2>2 DEF Surjection
<1> HIDE DEF k, t, n
<1>10. k \in Injection(1 .. n, 1 .. n)
  <2>1. IsFiniteSet(1 .. n)
    BY <1>1, FS_Interval
  <2> QED BY <1>9, <2>1, FS_Surjection
<1>11. \A i, j \in 1 .. n : k[i] = k[j] => i = j
  BY <1>10 DEF Injection, IsInjective
<1>12. \A i \in 1 .. n : u[i] = t[k[i]]
  BY <1>4, <1>8
<1>13. Unique(u) /\ ItemIds(u) = ItemIds(t)
  <2>1. k \in [DOMAIN u -> DOMAIN t] /\ \A m \in DOMAIN t : \E i \in DOMAIN u : k[i] = m
    BY <1>1, <1>7, <1>9 DEF Surjection, t
  <2>2. /\ \A i \in DOMAIN u : u[i].id = t[k[i]].id
        /\ \A i, j \in DOMAIN u : k[i] = k[j] => i = j
    BY <1>7, <1>11, <1>12
  <2> QED BY <1>7, <2>1, <2>2, PermuteItems DEF t
<1>14. ASSUME t # <<>>, Head(t).id = o[1] PROVE u # <<>> /\ Head(u) = Head(t)
  <2>1. n \in Nat \ {0} /\ Head(t) = t[1] /\ t[1].id = o[1]
    BY <1>14, HeadItem DEF t, n
  <2>2. u[1] = t[1] /\ 1 \in 1 .. n
    BY <1>4, <2>1
  <2>3. u # <<>>
    BY <1>7, <2>2, NonEmptyItems
  <2> QED BY <1>7, <2>1, <2>2, <2>3, HeadItem
<1> QED BY <1>7, <1>13, <1>14 DEF u, t

-----------------------------------------------------------------------------
(* Snapshots, field by field.                                              *)
Fences == {NoFence} \cup [kind : {"prepared", "accepted"}, id : Inputs]

Snapshot(r, b, t, f) == [rev |-> r, paused |-> b, items |-> t, fence |-> f]

LEMMA SnapshotFields ==
    ASSUME NEW s \in Snapshots
    PROVE  /\ s.rev \in Nat /\ s.paused \in BOOLEAN /\ s.items \in Seq(Items) /\ s.fence \in Fences
           /\ s = Snapshot(s.rev, s.paused, s.items, s.fence)
           /\ s.rev + 1 \in Nat
           /\ Bump(s) = Snapshot(s.rev + 1, s.paused, s.items, s.fence)
  BY DEF Snapshots, Items, Fences, Snapshot, Bump

LEMMA SnapshotType ==
    ASSUME NEW r \in Nat, NEW b \in BOOLEAN, NEW t \in Seq(Items), NEW f \in Fences
    PROVE  LET s == Snapshot(r, b, t, f) IN
           /\ s \in Snapshots /\ s.rev = r /\ s.paused = b /\ s.items = t /\ s.fence = f
           /\ Ids(s) = ItemIds(t)
  BY DEF Snapshots, Items, Fences, Snapshot, Ids, ItemIds

LEMMA ExceptItems ==
    ASSUME NEW s \in Snapshots, NEW t \in Seq(Items)
    PROVE  [s EXCEPT !.items = t] = Snapshot(s.rev, s.paused, t, s.fence)
  BY DEF Snapshots, Items, Fences, Snapshot

LEMMA ExceptPaused ==
    ASSUME NEW s \in Snapshots, NEW b \in BOOLEAN
    PROVE  [s EXCEPT !.paused = b] = Snapshot(s.rev, b, s.items, s.fence)
  BY DEF Snapshots, Items, Fences, Snapshot

LEMMA ExceptFence ==
    ASSUME NEW s \in Snapshots, NEW f \in Fences
    PROVE  [s EXCEPT !.fence = f] = Snapshot(s.rev, s.paused, s.items, f)
  BY DEF Snapshots, Items, Fences, Snapshot

LEMMA BumpFields ==
    ASSUME NEW s \in Snapshots
    PROVE  /\ Bump(s) \in Snapshots /\ Bump(s).rev = s.rev + 1 /\ Bump(s).paused = s.paused
           /\ Bump(s).items = s.items /\ Bump(s).fence = s.fence
  BY DEF Snapshots, Bump

(* The changes of apply and of the dispatch, as records.                   *)
LEMMA BumpItems ==
    ASSUME NEW s \in Snapshots, NEW t \in Seq(Items)
    PROVE  [Bump(s) EXCEPT !.items = t] = Snapshot(s.rev + 1, s.paused, t, s.fence)
  BY BumpFields, ExceptItems

LEMMA BumpPaused ==
    ASSUME NEW s \in Snapshots, NEW b \in BOOLEAN
    PROVE  [Bump(s) EXCEPT !.paused = b] = Snapshot(s.rev + 1, b, s.items, s.fence)
  BY BumpFields, ExceptPaused

LEMMA BumpItemsFence ==
    ASSUME NEW s \in Snapshots, NEW t \in Seq(Items), NEW f \in Fences
    PROVE  [Bump(s) EXCEPT !.items = t, !.fence = f] = Snapshot(s.rev + 1, s.paused, t, f)
<1> DEFINE u == [Bump(s) EXCEPT !.items = t]
<1>1. u = Snapshot(s.rev + 1, s.paused, t, s.fence)
  BY BumpItems
<1>2. u \in Snapshots /\ u.rev = s.rev + 1 /\ u.paused = s.paused /\ u.items = t
  <2> HIDE DEF u
  <2>1. s.rev + 1 \in Nat /\ s.paused \in BOOLEAN /\ s.fence \in Fences
    BY SnapshotFields
  <2> QED BY <1>1, <2>1, SnapshotType
<1>3. [Bump(s) EXCEPT !.items = t, !.fence = f] = [u EXCEPT !.fence = f]
  BY Zenon DEF u
<1> HIDE DEF u
<1> QED BY <1>2, <1>3, ExceptFence

LEMMA FenceFields ==
    ASSUME NEW f \in Fences
    PROVE  /\ f = NoFence <=> f.kind = "none"
           /\ f # NoFence => /\ f.kind \in {"prepared", "accepted"} /\ f.id \in Inputs
                             /\ f = [kind |-> f.kind, id |-> f.id]
           /\ f.id = NoInput <=> f = NoFence
  BY NoInputAssumption DEF Fences, NoFence

(* What every queue the actor builds satisfies: a snapshot of items with   *)
(* ids of their own, whose fence, if there is one, names the head.         *)
Fenced(s) == s.fence # NoFence => HeadIs(s, s.fence.id)
Sound(s)  == s \in Snapshots /\ Unique(s.items) /\ Fenced(s)

LEMMA SoundEmpty == Sound(Empty) /\ Ids(Empty) = {} /\ Empty.fence = NoFence /\ Empty.rev = 0
<1> DEFINE e == <<>>
           b == FALSE
           z == 0
<1>1. z \in Nat /\ b \in BOOLEAN /\ e \in Seq(Items) /\ DOMAIN e = {}
  <2>1. e \in Seq(Items) /\ Len(e) = 0
    BY EmptySeq
  <2> QED BY <2>1, LenProperties
<1>2. Empty = Snapshot(z, b, e, NoFence)
  BY DEF Empty, Snapshot
<1> HIDE DEF e, b, z
<1>3. NoFence \in Fences
  BY DEF Fences
<1>4. Empty \in Snapshots /\ Empty.rev = z /\ Empty.items = e /\ Empty.fence = NoFence
  <2> DEFINE S == Snapshot(z, b, e, NoFence)
  <2>1. S \in Snapshots
    BY <1>1, <1>3, SnapshotType
  <2>2. S.rev = z /\ S.items = e /\ S.fence = NoFence
    BY DEF Snapshot
  <2> QED BY <1>2, <2>1, <2>2
<1> QED BY <1>1, <1>4 DEF Sound, Unique, Ids, Fenced, z

(* What a queue built from s keeps of it.                                  *)
Follows(s, u) == /\ Sound(u)
                 /\ u.rev = s.rev + 1

LEMMA PreparedIs ==
    ASSUME NEW s, Sound(s), s.items # <<>>
    PROVE  LET u == Prepared(s) IN
           /\ Follows(s, u) /\ Ids(u) = Ids(s) /\ u.paused = s.paused /\ u.items = s.items
           /\ u.fence = [kind |-> "prepared", id |-> Head(s.items).id]
<1> DEFINE f == [kind |-> "prepared", id |-> Head(s.items).id]
           u == Prepared(s)
<1>1. s \in Snapshots /\ Unique(s.items)
  BY DEF Sound
<1>2. u = Snapshot(s.rev + 1, s.paused, s.items, f)
  BY <1>1, SnapshotFields DEF Prepared, Snapshot
<1>3. f \in Fences
  <2>1. Head(s.items).id \in Inputs
    BY <1>1, SnapshotFields, HeadItem DEF Items
  <2> QED BY <2>1 DEF Fences
<1> HIDE DEF f, u
<1>4. /\ u \in Snapshots /\ u.rev = s.rev + 1 /\ u.paused = s.paused /\ u.items = s.items
      /\ u.fence = f
  BY <1>1, <1>2, <1>3, SnapshotFields, SnapshotType
<1>5. Fenced(u)
  BY <1>4 DEF Fenced, HeadIs, f
<1> QED BY <1>1, <1>4, <1>5 DEF u, f, Follows, Sound, Ids

LEMMA AcceptedIs ==
    ASSUME NEW s, Sound(s), s.fence # NoFence
    PROVE  LET u == Accepted(s) IN
           /\ Follows(s, u) /\ Ids(u) = Ids(s) /\ u.paused = s.paused /\ u.items = s.items
           /\ u.fence = [kind |-> "accepted", id |-> s.fence.id]
<1> DEFINE f == [kind |-> "accepted", id |-> s.fence.id]
           u == Accepted(s)
<1>1. s \in Snapshots /\ Unique(s.items) /\ s.fence \in Fences /\ HeadIs(s, s.fence.id)
  BY SnapshotFields DEF Sound, Fenced
<1>2. s.fence = [kind |-> s.fence.kind, id |-> s.fence.id] /\ s.fence.id \in Inputs
  BY <1>1, FenceFields
<1>3. u = Snapshot(s.rev + 1, s.paused, s.items, f)
  <2>1. [s.fence EXCEPT !.kind = "accepted"] = f
    BY <1>2
  <2>2. u = Snapshot(s.rev + 1, s.paused, s.items, [s.fence EXCEPT !.kind = "accepted"])
    BY <1>1, SnapshotFields DEF Accepted, Snapshot
  <2> QED BY <2>1, <2>2
<1>4. f \in Fences
  BY <1>2 DEF Fences
<1> HIDE DEF u
<1>5. /\ u \in Snapshots /\ u.rev = s.rev + 1 /\ u.paused = s.paused /\ u.items = s.items
      /\ u.fence = f
  BY <1>1, <1>3, <1>4, SnapshotFields, SnapshotType
<1>6. Fenced(u)
  BY <1>1, <1>5 DEF Fenced, HeadIs
<1> QED BY <1>1, <1>5, <1>6 DEF u, Follows, Sound, Ids

LEMMA ConsumedIs ==
    ASSUME NEW s, Sound(s), s.fence # NoFence
    PROVE  LET u == Consumed(s) IN
           /\ Follows(s, u) /\ Ids(u) = Ids(s) \ {s.fence.id} /\ u.paused = s.paused
           /\ u.fence = NoFence
<1> DEFINE t == Tail(s.items)
           u == Consumed(s)
<1>1. s \in Snapshots /\ Unique(s.items) /\ s.items # <<>> /\ Head(s.items).id = s.fence.id
  BY DEF Sound, Fenced, HeadIs
<1>2. u = Snapshot(s.rev + 1, s.paused, t, NoFence)
  <2>1. Bump(s) = Snapshot(s.rev + 1, s.paused, s.items, s.fence)
    BY <1>1, SnapshotFields
  <2>2. Bump(s).items = s.items
    BY <2>1 DEF Snapshot
  <2>3. u = [Bump(s) EXCEPT !.items = t, !.fence = NoFence]
    BY <2>2, Zenon DEF Consumed
  <2>4. t \in Seq(Items) /\ NoFence \in Fences
    BY <1>1, SnapshotFields, TailItems DEF Fences
  <2> HIDE DEF t, u
  <2> QED BY <1>1, <2>3, <2>4, BumpItemsFence
<1>3. t \in Seq(Items) /\ Unique(t) /\ ItemIds(t) = Ids(s) \ {s.fence.id}
  BY <1>1, SnapshotFields, TailItems DEF Ids, ItemIds
<1>4. NoFence \in Fences
  BY DEF Fences
<1> HIDE DEF t, u
<1>5. /\ u \in Snapshots /\ u.rev = s.rev + 1 /\ u.paused = s.paused /\ u.items = t
      /\ u.fence = NoFence /\ Ids(u) = ItemIds(t)
  <2>1. s.rev + 1 \in Nat /\ s.paused \in BOOLEAN
    BY <1>1, SnapshotFields
  <2> QED BY <1>2, <1>3, <1>4, <2>1, SnapshotType
<1> QED BY <1>3, <1>5 DEF u, Follows, Sound, Fenced

LEMMA RolledBackIs ==
    ASSUME NEW s, Sound(s)
    PROVE  LET u == RolledBack(s) IN
           /\ Follows(s, u) /\ Ids(u) = Ids(s) /\ u.paused = s.paused /\ u.items = s.items
           /\ u.fence = NoFence
<1> DEFINE u == RolledBack(s)
<1>1. s \in Snapshots /\ Unique(s.items)
  BY DEF Sound
<1>2. u = Snapshot(s.rev + 1, s.paused, s.items, NoFence)
  BY <1>1, SnapshotFields DEF RolledBack, Snapshot
<1>3. NoFence \in Fences
  BY DEF Fences
<1> HIDE DEF u
<1>4. /\ u \in Snapshots /\ u.rev = s.rev + 1 /\ u.paused = s.paused /\ u.items = s.items
      /\ u.fence = NoFence /\ Ids(u) = Ids(s)
  <2>1. s.rev + 1 \in Nat /\ s.paused \in BOOLEAN /\ s.items \in Seq(Items)
    BY <1>1, SnapshotFields
  <2>2. Ids(s) = ItemIds(s.items)
    BY DEF Ids, ItemIds
  <2> QED BY <1>2, <1>3, <2>1, <2>2, SnapshotType
<1> QED BY <1>1, <1>4 DEF u, Follows, Sound, Fenced

(* The changes that leave the fence alone, and with it the fenced head.    *)
LEMMA KeepsFence ==
    ASSUME NEW s, Sound(s), NEW b \in BOOLEAN, NEW t \in Seq(Items), Unique(t),
           s.fence # NoFence => t # <<>> /\ Head(t) = Head(s.items),
           NEW u, u = Snapshot(s.rev + 1, b, t, s.fence)
    PROVE  /\ Follows(s, u) /\ Ids(u) = ItemIds(t) /\ u.paused = b /\ u.items = t
           /\ u.fence = s.fence
<1>1. s \in Snapshots /\ s.rev + 1 \in Nat /\ s.fence \in Fences
  BY SnapshotFields DEF Sound
<1>2. /\ u \in Snapshots /\ u.rev = s.rev + 1 /\ u.paused = b /\ u.items = t
      /\ u.fence = s.fence /\ Ids(u) = ItemIds(t)
  BY <1>1, SnapshotType
<1>3. Fenced(u)
  BY <1>2 DEF Sound, Fenced, HeadIs
<1> QED BY <1>2, <1>3 DEF Follows, Sound

LEMMA PausingIs ==
    ASSUME NEW s, Sound(s)
    PROVE  LET u == Pausing(s) IN
           /\ Follows(s, u) /\ Ids(u) = Ids(s) /\ u.paused = TRUE /\ u.items = s.items
           /\ u.fence = s.fence
<1>1. s \in Snapshots /\ s.items \in Seq(Items) /\ Unique(s.items) /\ Ids(s) = ItemIds(s.items)
  BY SnapshotFields DEF Sound, Ids, ItemIds
<1> DEFINE b == TRUE
<1>2. b \in BOOLEAN /\ Pausing(s) = Snapshot(s.rev + 1, b, s.items, s.fence)
  <2>1. b \in BOOLEAN /\ Pausing(s) = [Bump(s) EXCEPT !.paused = b]
    BY Zenon DEF Pausing
  <2> HIDE DEF b
  <2> QED BY <1>1, <2>1, BumpPaused
<1>3. s.fence # NoFence => s.items # <<>>
  BY DEF Sound, Fenced, HeadIs
<1>4. LET u == Pausing(s) IN
      /\ Follows(s, u) /\ Ids(u) = Ids(s) /\ u.paused = b /\ u.items = s.items
      /\ u.fence = s.fence
  <2> HIDE DEF b
  <2> QED BY <1>1, <1>2, <1>3, KeepsFence
<1> QED BY <1>4, Zenon

LEMMA AppendedIs ==
    ASSUME NEW s, Sound(s), NEW p \in Inputs, p \notin Ids(s)
    PROVE  LET u == Appended(s, p) IN
           /\ Follows(s, u) /\ Ids(u) = Ids(s) \cup {p} /\ u.paused = s.paused
           /\ u.fence = s.fence /\ u.items # <<>>
           /\ s.items # <<>> => Head(u.items) = Head(s.items)
<1> DEFINE t == Append(s.items, Item(p, 0))
<1>1. s \in Snapshots /\ s.items \in Seq(Items) /\ Unique(s.items) /\ Ids(s) = ItemIds(s.items)
  BY SnapshotFields DEF Sound, Ids, ItemIds
<1>2. Appended(s, p) = Snapshot(s.rev + 1, s.paused, t, s.fence)
  <2>1. Bump(s) = Snapshot(s.rev + 1, s.paused, s.items, s.fence)
    BY <1>1, SnapshotFields
  <2>2. Bump(s).items = s.items
    BY <2>1 DEF Snapshot
  <2> QED BY <2>1, <2>2 DEF Appended, Snapshot
<1>3. Item(p, 0) \in Items /\ Item(p, 0).id = p
  BY DEF Item, Items
<1>4. /\ t \in Seq(Items) /\ Unique(t) /\ ItemIds(t) = ItemIds(s.items) \cup {p}
      /\ t # <<>> /\ (s.items # <<>> => Head(t) = Head(s.items))
  BY <1>1, <1>3, AppendItem
<1>5. s.fence # NoFence => s.items # <<>>
  BY DEF Sound, Fenced, HeadIs
<1>6. s.paused \in BOOLEAN
  BY <1>1, SnapshotFields
<1> HIDE DEF t
<1> QED BY <1>1, <1>2, <1>4, <1>5, <1>6, KeepsFence

LEMMA ToFrontIs ==
    ASSUME NEW s, Sound(s), s.items # <<>>, s.fence = NoFence
    PROVE  LET u == ToFront(s) IN
           /\ Follows(s, u) /\ Ids(u) = Ids(s) /\ u.paused = s.paused /\ u.fence = NoFence
<1> DEFINE t == <<Last(s.items)>> \o Front(s.items)
<1>1. s \in Snapshots /\ s.items \in Seq(Items) /\ Unique(s.items) /\ Ids(s) = ItemIds(s.items)
  BY SnapshotFields DEF Sound, Ids, ItemIds
<1>3. t \in Seq(Items) /\ Unique(t) /\ ItemIds(t) = ItemIds(s.items)
  BY <1>1, RotateItems
<1>2. ToFront(s) = Snapshot(s.rev + 1, s.paused, t, s.fence)
  <2>1. Bump(s) = Snapshot(s.rev + 1, s.paused, s.items, s.fence)
    BY <1>1, SnapshotFields
  <2>2. Bump(s).items = s.items
    BY <2>1 DEF Snapshot
  <2>3. ToFront(s) = [Bump(s) EXCEPT !.items = t]
    BY <2>2, Zenon DEF ToFront
  <2> HIDE DEF t
  <2> QED BY <1>1, <1>3, <2>3, BumpItems
<1>4. s.paused \in BOOLEAN
  BY <1>1, SnapshotFields
<1> HIDE DEF t
<1> QED BY <1>1, <1>2, <1>3, <1>4, KeepsFence

(* apply: what each command does to a sound queue that admits it.  Only an *)
(* addition brings an id, only a deletion takes one, only a start unpauses *)
(* the queue, and the item that runs stays the head.                       *)
Sent == [kind : {"add", "update", "delete", "reorder", "pause", "start"},
         view : Snapshots, input : Inputs \cup {NoInput},
         order : Seq(Inputs), seen : Nat]

AppliedTo(s, m, u) ==
    /\ Follows(s, u) /\ u.fence = s.fence
    /\ Ids(u) = CASE m.kind = "add"    -> Ids(s) \cup {m.input}
                  [] m.kind = "delete" -> Ids(s) \ {m.input}
                  [] OTHER             -> Ids(s)
    /\ s.fence # NoFence => Head(u.items) = Head(s.items)
    /\ s.paused /\ ~u.paused => m.kind = "start" /\ Current(s, m)

(* A sound queue, with what the lemmas on its items ask for.               *)
LEMMA SoundItems ==
    ASSUME NEW s, Sound(s)
    PROVE  /\ s \in Snapshots /\ s.items \in Seq(Items) /\ Unique(s.items)
           /\ Ids(s) = ItemIds(s.items) /\ s.paused \in BOOLEAN /\ s.fence \in Fences
           /\ s.fence # NoFence => s.items # <<>> /\ Head(s.items).id = s.fence.id
  BY SnapshotFields DEF Sound, Ids, ItemIds, Fenced, HeadIs

LEMMA UpdateApplied ==
    ASSUME NEW s, Sound(s), NEW m \in Sent, m.kind = "update", PendingMutable(s, m),
           s.fence.kind # "prepared"
    PROVE  AppliedTo(s, m, Applied(s, m))
<1> DEFINE e(i) == IF s.items[i].id = m.input
                   THEN Item(m.input, s.items[i].text + 1) ELSE s.items[i]
           t == [i \in DOMAIN s.items |-> e(i)]
           u == Applied(s, m)
<1>1. /\ s \in Snapshots /\ s.items \in Seq(Items) /\ Unique(s.items)
      /\ Ids(s) = ItemIds(s.items) /\ s.paused \in BOOLEAN
      /\ s.fence # NoFence => s.items # <<>> /\ Head(s.items).id = s.fence.id
  BY SoundItems
<1>2. ASSUME NEW i \in DOMAIN s.items PROVE e(i) \in Items /\ e(i).id = s.items[i].id
  <2>1. s.items[i] \in Items
    BY <1>1, <1>2, ElementOfSeq, LenProperties
  <2> QED BY <2>1 DEF Items, Item
<1>3. t \in Seq(Items) /\ DOMAIN t = DOMAIN s.items
  <2>1. Len(s.items) \in Nat /\ DOMAIN s.items = 1 .. Len(s.items)
    BY <1>1, LenProperties
  <2>2. t \in [1 .. Len(s.items) -> Items]
    BY <1>2, <2>1
  <2> QED BY <2>1, <2>2, SeqDef
<1>4. u = [Bump(s) EXCEPT !.items = t]
  <2>1. Bump(s).items = s.items
    BY <1>1, BumpFields
  <2>2. u = [Bump(s) EXCEPT !.items =
             [i \in DOMAIN Bump(s).items |->
                IF Bump(s).items[i].id = m.input
                THEN Item(m.input, Bump(s).items[i].text + 1) ELSE Bump(s).items[i]]]
    BY DEF Applied
  <2> QED BY <2>1, <2>2, Zenon
<1>5. \A i \in DOMAIN s.items : t[i].id = s.items[i].id
  BY <1>2
<1>6. s.fence # NoFence => t # <<>> /\ Head(t) = Head(s.items)
  <2> SUFFICES ASSUME s.fence # NoFence PROVE t # <<>> /\ Head(t) = Head(s.items)
    OBVIOUS
  <2>1. s.fence.id # m.input
    BY <1>1, SoundItems, FenceFields DEF PendingMutable
  <2>2. 1 \in DOMAIN s.items /\ s.items[1] = Head(s.items) /\ s.items[1].id = s.fence.id
    BY <1>1, HeadItem
  <2>3. t[1] = s.items[1]
    BY <2>1, <2>2
  <2> HIDE DEF t
  <2>4. t # <<>>
    BY <1>3, <2>2, NonEmptyItems
  <2> QED BY <1>3, <2>2, <2>3, <2>4, HeadItem
<1> HIDE DEF t, u
<1>7. Unique(t) /\ ItemIds(t) = Ids(s)
  BY <1>1, <1>3, <1>5, EditItems
<1>8. u = Snapshot(s.rev + 1, s.paused, t, s.fence)
  BY <1>1, <1>3, <1>4, BumpItems
<1>9. /\ Follows(s, u) /\ Ids(u) = Ids(s) /\ u.paused = s.paused /\ u.items = t
      /\ u.fence = s.fence
  BY <1>1, <1>3, <1>6, <1>7, <1>8, KeepsFence
<1> QED BY <1>6, <1>9 DEF AppliedTo, u

LEMMA DeleteApplied ==
    ASSUME NEW s, Sound(s), NEW m \in Sent, m.kind = "delete", PendingMutable(s, m),
           s.fence.kind # "prepared"
    PROVE  AppliedTo(s, m, Applied(s, m))
<1> DEFINE k == Position(s, m.input)
           t == RemoveAt(s.items, k)
           u == Applied(s, m)
<1>1. /\ s \in Snapshots /\ s.items \in Seq(Items) /\ Unique(s.items)
      /\ Ids(s) = ItemIds(s.items) /\ s.paused \in BOOLEAN
      /\ s.fence # NoFence => s.items # <<>> /\ Head(s.items).id = s.fence.id
  BY SoundItems
<1>2. k \in DOMAIN s.items /\ s.items[k].id = m.input
  <2>1. PICK i \in DOMAIN s.items : s.items[i].id = m.input
    BY DEF PendingMutable, Ids
  <2>2. DOMAIN s.items = 1 .. Len(s.items) /\ Len(s.items) \in Nat
    BY <1>1, LenProperties
  <2>3. \A j \in 1 .. i - 1 : s.items[j].id # m.input
    BY <1>1, <2>1, <2>2 DEF Unique
  <2> QED BY <2>1, <2>3 DEF Position
<1>3. u = [Bump(s) EXCEPT !.items = t]
  <2>1. Bump(s).items = s.items
    BY <1>1, BumpFields
  <2>2. u = [Bump(s) EXCEPT !.items = RemoveAt(Bump(s).items, Position(s, m.input))]
    BY DEF Applied
  <2> QED BY <2>1, <2>2, Zenon
<1> HIDE DEF k, u
<1>4. /\ t \in Seq(Items) /\ Unique(t) /\ ItemIds(t) = Ids(s) \ {m.input}
      /\ k # 1 => t # <<>> /\ Head(t) = Head(s.items)
  BY <1>1, <1>2, RemoveItem
<1>5. s.fence # NoFence => t # <<>> /\ Head(t) = Head(s.items)
  <2>1. ASSUME s.fence # NoFence PROVE k # 1
    <3>1. s.fence.id # m.input
      BY <2>1, SoundItems, FenceFields DEF PendingMutable
    <3> QED BY <1>1, <1>2, <2>1, <3>1, HeadItem
  <2> HIDE DEF t
  <2> QED BY <1>4, <2>1
<1> HIDE DEF t
<1>6. u = Snapshot(s.rev + 1, s.paused, t, s.fence)
  BY <1>1, <1>3, <1>4, BumpItems
<1>7. /\ Follows(s, u) /\ Ids(u) = Ids(s) \ {m.input} /\ u.paused = s.paused /\ u.items = t
      /\ u.fence = s.fence
  BY <1>1, <1>4, <1>5, <1>6, KeepsFence
<1> QED BY <1>5, <1>7 DEF AppliedTo, u

LEMMA ReorderApplied ==
    ASSUME NEW s, Sound(s), NEW m \in Sent, m.kind = "reorder", Reorderable(s, m)
    PROVE  AppliedTo(s, m, Applied(s, m))
<1> DEFINE t == Reordered(s, m.order)
           u == Applied(s, m)
<1>1. /\ s \in Snapshots /\ s.items \in Seq(Items) /\ Unique(s.items)
      /\ Ids(s) = ItemIds(s.items) /\ s.paused \in BOOLEAN /\ s.fence \in Fences
      /\ s.fence # NoFence => s.items # <<>> /\ Head(s.items).id = s.fence.id
  BY SoundItems
<1>2. m.order \in Seq(Inputs)
  BY DEF Sent
<1>3. ToSet(m.order) = ItemIds(s.items) /\ Len(m.order) = Len(s.items)
  BY <1>1 DEF Reorderable
<1>4. u = [Bump(s) EXCEPT !.items = t]
  BY Zenon DEF Applied
<1> HIDE DEF t, u
<1>5. /\ t \in Seq(Items) /\ Unique(t) /\ ItemIds(t) = Ids(s)
      /\ s.items # <<>> /\ Head(s.items).id = m.order[1] => t # <<>> /\ Head(t) = Head(s.items)
  BY <1>1, <1>2, <1>3, ReorderItems DEF t
<1>6. s.fence # NoFence => t # <<>> /\ Head(t) = Head(s.items)
  <2>1. ASSUME s.fence # NoFence PROVE m.order[1] = s.fence.id
    BY <1>1, <2>1, FenceFields DEF Reorderable, Mutable
  <2> QED BY <1>1, <1>5, <2>1
<1>7. u = Snapshot(s.rev + 1, s.paused, t, s.fence)
  BY <1>1, <1>4, <1>5, BumpItems
<1>8. /\ Follows(s, u) /\ Ids(u) = Ids(s) /\ u.paused = s.paused /\ u.items = t
      /\ u.fence = s.fence
  BY <1>1, <1>5, <1>6, <1>7, KeepsFence
<1> QED BY <1>6, <1>8 DEF AppliedTo, u

LEMMA AppliedIs ==
    ASSUME NEW s, Sound(s), NEW m \in Sent, Admits(s, m),
           m.kind = "add" => m.input \in Inputs \ Ids(s)
    PROVE  AppliedTo(s, m, Applied(s, m))
<1> DEFINE u == Applied(s, m)
<1>1. m.kind \in {"add", "update", "delete", "reorder", "pause", "start"}
  BY DEF Sent
<1>2. CASE m.kind = "add"
  <2>1. u = Appended(s, m.input)
    BY <1>2 DEF Applied
  <2>2. s.fence # NoFence => s.items # <<>>
    BY SoundItems
  <2>3. /\ Follows(s, u) /\ Ids(u) = Ids(s) \cup {m.input} /\ u.paused = s.paused
        /\ u.fence = s.fence
        /\ s.items # <<>> => Head(u.items) = Head(s.items)
    BY <1>2, <2>1, AppendedIs
  <2> QED BY <1>2, <2>2, <2>3 DEF AppliedTo
<1>3. CASE m.kind = "update"
  <2>1. PendingMutable(s, m) /\ s.fence.kind # "prepared"
    BY <1>3 DEF Admits, PendingMutable, Mutable
  <2> QED BY <1>3, <2>1, UpdateApplied
<1>4. CASE m.kind = "delete"
  <2>1. PendingMutable(s, m) /\ s.fence.kind # "prepared"
    BY <1>4 DEF Admits, PendingMutable, Mutable
  <2> QED BY <1>4, <2>1, DeleteApplied
<1>5. CASE m.kind = "reorder"
  <2>1. Reorderable(s, m)
    BY <1>5 DEF Admits
  <2> QED BY <1>5, <2>1, ReorderApplied
<1>6. CASE m.kind = "pause"
  <2>1. u = Pausing(s)
    BY <1>6 DEF Applied
  <2>2. /\ Follows(s, u) /\ Ids(u) = Ids(s) /\ u.paused = TRUE /\ u.items = s.items
        /\ u.fence = s.fence
    BY <2>1, PausingIs
  <2> QED BY <1>6, <2>2 DEF AppliedTo
<1>7. CASE m.kind = "start"
  <2> DEFINE b == FALSE
  <2>1. u = [Bump(s) EXCEPT !.paused = b]
    BY <1>7 DEF Applied
  <2>6. b \in BOOLEAN
    OBVIOUS
  <2>2. /\ s \in Snapshots /\ s.items \in Seq(Items) /\ Unique(s.items)
        /\ Ids(s) = ItemIds(s.items)
        /\ s.fence # NoFence => s.items # <<>>
    BY SoundItems
  <2> HIDE DEF b, u
  <2>3. u = Snapshot(s.rev + 1, b, s.items, s.fence)
    BY <2>1, <2>2, <2>6, BumpPaused
  <2>4. /\ Follows(s, u) /\ Ids(u) = Ids(s) /\ u.items = s.items
        /\ u.fence = s.fence
    BY <2>2, <2>3, <2>6, KeepsFence
  <2>5. Current(s, m)
    BY <1>7 DEF Admits
  <2> QED BY <1>7, <2>4, <2>5 DEF AppliedTo, u
<1> QED BY <1>1, <1>2, <1>3, <1>4, <1>5, <1>6, <1>7

(* recover_dispatch leaves a sound queue without a fence; what it takes is *)
(* a head that was accepted, or one that has its turn.                     *)
LEMMA RecoveredIs ==
    ASSUME NEW s, Sound(s)
    PROVE  LET u == Recovered(s) IN
           /\ Sound(u) /\ u.fence = NoFence
           /\ u = s \/ u.rev > 0
           /\ \/ s.fence = NoFence /\ Ids(u) = Ids(s)
              \/ /\ s.fence # NoFence /\ ~(turns[s.fence.id] > 0)
                 /\ Ids(u) = Ids(s)
              \/ /\ s.fence # NoFence
                 /\ s.fence.kind = "accepted" \/ turns[s.fence.id] > 0
                 /\ Ids(u) = Ids(s) \ {s.fence.id}
<1> DEFINE u == Recovered(s)
<1>1. s.rev \in Nat /\ s.fence \in Fences
  BY SnapshotFields DEF Sound
<1>2. CASE s.fence = NoFence
  <2>1. u = s
    BY <1>2 DEF Recovered, NoFence
  <2> QED BY <1>2, <2>1
<1>3. CASE s.fence # NoFence /\ s.fence.kind = "prepared"
  <2>1. HeadIs(s, s.fence.id)
    BY <1>3 DEF Sound, Fenced
  <2>2. CASE turns[s.fence.id] > 0
    <3> DEFINE a == Accepted(s)
    <3>1. u = Consumed(a)
      BY <1>3, <2>1, <2>2 DEF Recovered
    <3>2. Sound(a) /\ a.rev = s.rev + 1 /\ Ids(a) = Ids(s) /\ a.fence = [kind |-> "accepted", id |-> s.fence.id]
      BY <1>3, AcceptedIs DEF Follows
    <3>3. a.fence # NoFence /\ a.fence.id = s.fence.id
      BY <3>2 DEF NoFence
    <3> HIDE DEF a, u
    <3>4. Sound(u) /\ u.rev = a.rev + 1 /\ Ids(u) = Ids(a) \ {a.fence.id} /\ u.fence = NoFence
      BY <3>1, <3>2, <3>3, ConsumedIs DEF Follows
    <3>5. u.rev > 0
      BY <1>1, <3>2, <3>4
    <3> QED BY <1>3, <2>2, <3>2, <3>3, <3>4, <3>5 DEF u
  <2>3. CASE ~(turns[s.fence.id] > 0)
    <3>1. u = RolledBack(s)
      BY <1>3, <2>1, <2>3 DEF Recovered
    <3>2. Sound(u) /\ u.rev = s.rev + 1 /\ Ids(u) = Ids(s) /\ u.fence = NoFence
      BY <3>1, RolledBackIs DEF Follows
    <3>3. u.rev > 0
      BY <1>1, <3>2
    <3> QED BY <1>3, <2>3, <3>2, <3>3
  <2> QED BY <2>2, <2>3
<1>4. CASE s.fence # NoFence /\ s.fence.kind = "accepted"
  <2>1. HeadIs(s, s.fence.id)
    BY <1>4 DEF Sound, Fenced
  <2>2. u = Consumed(s)
    BY <1>4, <2>1 DEF Recovered
  <2>3. Sound(u) /\ u.rev = s.rev + 1 /\ Ids(u) = Ids(s) \ {s.fence.id} /\ u.fence = NoFence
    BY <1>4, <2>2, ConsumedIs DEF Follows
  <2>4. u.rev > 0
    BY <1>1, <2>3
  <2> QED BY <1>4, <2>3, <2>4
<1> QED BY <1>1, <1>2, <1>3, <1>4, FenceFields

-----------------------------------------------------------------------------
(***************************************************************************)
(* The inductive invariant.                                                *)
(***************************************************************************)
Operation == [prompt : Inputs \cup {NoInput}, text : Nat,
              phase : {"none", "spawned", "running", "ended"},
              outcome : {"none", "completed", "cancelled", "failed", "backgrounded"},
              cancelled : BOOLEAN, resume : BOOLEAN, steer : Seq(Inputs)]
Points == {"top", "select", "prepared", "started", "pausing", "finishing", "requeue",
           "reorder", "down"}

(* The types that the other parts rest on.                                 *)
Types ==
    /\ published \in Snapshots
    /\ turns \in [Inputs -> Nat]
    /\ active \in Operation
    /\ pc \in Points
    /\ todo \in Seq(Inputs) /\ left \in Seq(Inputs)
    /\ mail \in [Clients -> {NoCommand} \cup Sent]
    /\ used \subseteq Inputs
    /\ interrupts \in Nat

(* A prompt that has its turn is in a queue only behind its fence, where   *)
(* settlement and recovery take it out.                                    *)
Unrun(s) == \A p \in Ids(s) : turns[p] > 0 => s.fence # NoFence /\ s.fence.id = p

Queues == /\ Sound(q) /\ Sound(disk)
          /\ Unrun(q) /\ Unrun(disk)
          /\ RunsOnce

(* Where the loop is, what runs and what the fence says go together.       *)
Idle    == {"top", "prepared", "pausing", "requeue", "reorder", "down"}
Running == /\ q.fence = [kind |-> "accepted", id |-> active.prompt]
           /\ Head(q.items) = Item(active.prompt, active.text)

Actor ==
    /\ active.phase = "none" => active = NoOp
    /\ pc \in Idle => active = NoOp
    /\ pc \in {"started", "finishing"} => active.phase # "none"
    /\ pc = "finishing" => active.phase = "ended"
    /\ pc \in Idle \ {"prepared"} => q.fence = NoFence
    /\ pc = "prepared" => /\ q.fence.kind = "prepared"
                          /\ q.fence = disk.fence
                          /\ turns[q.fence.id] = 0
    /\ pc = "started" => /\ q.fence = [kind |-> "prepared", id |-> active.prompt]
                         /\ active.prompt # NoInput
                         /\ Head(q.items) = Item(active.prompt, active.text)
    /\ pc \in {"select", "finishing"} =>
         IF active.prompt = NoInput THEN q.fence = NoFence ELSE Running
    /\ active.prompt # NoInput => disk.fence.id = active.prompt
    /\ active.phase = "spawned" /\ active.prompt # NoInput => turns[active.prompt] = 0
    /\ todo # <<>> <=> pc \in {"requeue", "reorder"}
    /\ pc = "reorder" => q.items # <<>>

(* An input on its way to the queue: typed, in no queue and without a turn.*)
Outside(p) == p \in used /\ p \notin Ids(q) /\ p \notin Ids(disk) /\ turns[p] = 0
Adds(c)    == mail[c].kind = "add"

(* The steer inputs that wait for the queue: all but the one being moved.  *)
Waits == IF pc = "reorder" THEN 1 .. Len(todo) - 1 ELSE 1 .. Len(todo)

MailApart ==
    \A c \in Clients : Adds(c) =>
      /\ mail[c].input \in Inputs
      /\ Outside(mail[c].input)
      /\ \A i \in DOMAIN active.steer : active.steer[i] # mail[c].input
      /\ \A i \in DOMAIN todo : todo[i] # mail[c].input
      /\ \A d \in Clients : Adds(d) /\ mail[d].input = mail[c].input => d = c
SteerApart ==
    \A i \in DOMAIN active.steer :
      /\ Outside(active.steer[i])
      /\ \A j \in DOMAIN active.steer : active.steer[i] = active.steer[j] => i = j
TodoApart ==
    /\ \A i, j \in DOMAIN todo : todo[i] = todo[j] => i = j
    /\ \A i \in DOMAIN todo : todo[i] \in used
    /\ \A i \in Waits : Outside(todo[i])

(* An input is in one place: on its way from a client, pending in a turn,  *)
(* on its way back, or in the queue.                                       *)
Flight ==
    /\ MailApart /\ SteerApart /\ TodoApart
    /\ Ids(q) \subseteq used /\ Ids(disk) \subseteq used
    /\ \A p \in Inputs : turns[p] > 0 => p \in used

QueueInv == Types /\ Queues /\ Actor /\ Flight

-----------------------------------------------------------------------------
(* Facts about sequences of inputs.                                        *)
LEMMA EmptyInputs == <<>> \in Seq(Inputs) /\ Len(<<>>) = 0 /\ DOMAIN <<>> = {}
<1>1. <<>> \in Seq(Inputs) /\ Len(<<>>) = 0
  BY EmptySeq
<1> QED BY <1>1, LenProperties

LEMMA NoOpFields ==
    /\ NoOp \in Operation /\ NoOp.prompt = NoInput /\ NoOp.text = 0 /\ NoOp.phase = "none"
    /\ NoOp.steer = <<>> /\ DOMAIN NoOp.steer = {} /\ ToSet(NoOp.steer) = {}
<1>1. NoOp.prompt = NoInput /\ NoOp.text = 0 /\ NoOp.phase = "none" /\ NoOp.steer = <<>>
  BY DEF NoOp
<1>2. NoOp \in Operation
  BY EmptyInputs DEF NoOp, Operation
<1> QED BY <1>1, <1>2, EmptyInputs DEF ToSet

LEMMA QueueInit == Init => QueueInv
<1> SUFFICES ASSUME Init PROVE QueueInv OBVIOUS
<1>1. Sound(Empty) /\ Ids(Empty) = {} /\ Empty.fence = NoFence /\ Empty \in Snapshots
  BY SoundEmpty DEF Sound
<1>2. \A p \in Inputs : turns[p] = 0
  BY DEF Init
<1>3. Types
  BY <1>1, NoOpFields, EmptyInputs DEF Init, Types, Points
<1>4. Queues
  BY <1>1, <1>2 DEF Init, Queues, Unrun, RunsOnce
<1>5. Actor
  BY <1>1, NoOpFields DEF Init, Actor, Idle
<1>6. Flight
  <2>1. \A c \in Clients : ~Adds(c)
    BY DEF Init, Adds, NoCommand
  <2>2. DOMAIN active.steer = {} /\ DOMAIN todo = {} /\ Waits = {}
    BY NoOpFields, EmptyInputs DEF Init, Waits
  <2> QED BY <1>1, <1>2, <2>1, <2>2 DEF Init, Flight, MailApart, SteerApart, TodoApart
<1> QED BY <1>3, <1>4, <1>5, <1>6 DEF QueueInv

-----------------------------------------------------------------------------
(* What a step may do to the queues, and what is left to show then.        *)

(* The new queue s is kept in memory, in the file, in both or in neither.  *)
Writes(s) == /\ q' \in {q, s} /\ disk' \in {disk, s}
             /\ published' = published \/ (published' = s /\ q' = s)

LEMMA ChangeWrites ==
    ASSUME NEW s, Change(s) \/ ChangeFails(s) \/ Settle(s)
    PROVE  Writes(s) /\ faults' \in {faults, faults + 1}
  BY DEF Change, ChangeFails, Settle, Saved, SaveFails, Writes

(* Queues is kept by a write of a sound queue that fences what has run.    *)
LEMMA WriteKeeps ==
    ASSUME QueueInv, NEW s, Sound(s), Unrun(s), Writes(s), turns' = turns
    PROVE  Queues' /\ published' \in Snapshots
<1>1. Sound(q)' /\ Sound(disk)'
  BY DEF QueueInv, Queues, Writes
<1>2. Unrun(q)' /\ Unrun(disk)'
  BY DEF QueueInv, Queues, Writes, Unrun
<1>3. RunsOnce'
  BY DEF QueueInv, Queues, RunsOnce
<1>4. published' \in Snapshots
  BY DEF QueueInv, Types, Writes, Sound
<1> QED BY <1>1, <1>2, <1>3, <1>4 DEF Queues

LEMMA SameQueues ==
    ASSUME QueueInv, q' = q, disk' = disk, turns' = turns
    PROVE  Queues'
  BY DEF QueueInv, Queues, RunsOnce, Unrun

(* Flight is kept when nothing enters: no input is typed, the queues take  *)
(* none in, commands and pending inputs only leave.                        *)
LEMMA FlightKept ==
    ASSUME QueueInv,
           Ids(q') \subseteq Ids(q) \cup Ids(disk), Ids(disk') \subseteq Ids(q) \cup Ids(disk),
           turns' = turns, used' = used,
           \A c \in Clients : Adds(c)' => mail'[c] = mail[c],
           active'.steer = active.steer \/ active'.steer = <<>>,
           todo' = todo, (pc' = "reorder") <=> (pc = "reorder")
    PROVE  Flight'
<1>1. ASSUME NEW p, Outside(p) PROVE Outside(p)'
  BY <1>1 DEF Outside
<1>2. ASSUME NEW c \in Clients, Adds(c)' PROVE Adds(c)
  BY <1>2 DEF Adds
<1>3. DOMAIN active'.steer = {} \/ active'.steer = active.steer
  BY EmptyInputs
<1>4. MailApart'
  BY <1>1, <1>2, <1>3 DEF QueueInv, Flight, MailApart
<1>5. SteerApart'
  BY <1>1, <1>3 DEF QueueInv, Flight, SteerApart
<1>6. TodoApart'
  BY <1>1 DEF QueueInv, Flight, TodoApart, Waits
<1> QED BY <1>4, <1>5, <1>6 DEF QueueInv, Flight

(* Actor is kept by a step that starts and ends nothing.                   *)
LEMMA ActorKept ==
    ASSUME QueueInv,
           active'.prompt = active.prompt, active'.text = active.text,
           active.phase = "none" => active' = active,
           active.phase # "none" => active'.phase # "none",
           active'.phase = "spawned" => active.phase = "spawned",
           pc = "finishing" => active'.phase = "ended",
           q'.fence = q.fence, q.fence # NoFence => Head(q'.items) = Head(q.items),
           disk'.fence = disk.fence \/ (disk'.fence = q.fence /\ pc = "select"),
           turns' = turns, todo' = todo, q'.items = q.items \/ pc = "select",
           \/ pc' = pc
           \/ pc = "select" /\ pc' = "top" /\ active'.phase = "none"
           \/ pc = "select" /\ pc' = "finishing" /\ active'.phase = "ended"
    PROVE  Actor'
<1>1. active'.phase = "none" => active' = NoOp /\ active = NoOp
  BY DEF QueueInv, Actor
<1>2. pc' \in Idle => active' = NoOp /\ q'.fence = q.fence
  BY <1>1, NoOpFields DEF QueueInv, Actor, Idle
<1>3. q'.fence # NoFence => Head(q'.items) = Head(q.items)
  OBVIOUS
<1>4. /\ pc' \in {"started", "finishing"} => active'.phase # "none"
      /\ pc' = "finishing" => active'.phase = "ended"
  BY DEF QueueInv, Actor
<1>5. pc' \in Idle \ {"prepared"} => q'.fence = NoFence
  BY <1>1, NoOpFields DEF QueueInv, Actor, Idle
<1>6. pc' = "prepared" => /\ q'.fence.kind = "prepared"
                          /\ q'.fence = disk'.fence
                          /\ turns'[q'.fence.id] = 0
  BY DEF QueueInv, Actor
<1>7. pc' = "started" => /\ q'.fence = [kind |-> "prepared", id |-> active'.prompt]
                         /\ active'.prompt # NoInput
                         /\ Head(q'.items) = Item(active'.prompt, active'.text)
  <2> SUFFICES ASSUME pc' = "started"
               PROVE  /\ q'.fence = [kind |-> "prepared", id |-> active'.prompt]
                      /\ active'.prompt # NoInput
                      /\ Head(q'.items) = Item(active'.prompt, active'.text)
    OBVIOUS
  <2>1. /\ q.fence = [kind |-> "prepared", id |-> active.prompt]
        /\ active.prompt # NoInput
        /\ Head(q.items) = Item(active.prompt, active.text)
    BY DEF QueueInv, Actor
  <2>2. q.fence # NoFence
    BY <2>1 DEF NoFence
  <2> QED BY <2>1, <2>2
<1>8. pc' \in {"select", "finishing"} =>
         IF active'.prompt = NoInput THEN q'.fence = NoFence ELSE Running'
  <2> SUFFICES ASSUME pc' \in {"select", "finishing"}
               PROVE  IF active'.prompt = NoInput THEN q'.fence = NoFence ELSE Running'
    OBVIOUS
  <2>1. IF active.prompt = NoInput THEN q.fence = NoFence ELSE Running
    BY DEF QueueInv, Actor
  <2>2. Running => q.fence # NoFence
    BY DEF Running, NoFence
  <2> QED BY <2>1, <2>2 DEF Running
<1>9. active'.prompt # NoInput => disk'.fence.id = active'.prompt
  <2>1. ASSUME active.prompt # NoInput, pc = "select" PROVE q.fence.id = active.prompt
    BY <2>1 DEF QueueInv, Actor, Running
  <2> QED BY <2>1 DEF QueueInv, Actor
<1>10. active'.phase = "spawned" /\ active'.prompt # NoInput => turns'[active'.prompt] = 0
  BY DEF QueueInv, Actor
<1>11. todo' # <<>> <=> pc' \in {"requeue", "reorder"}
  BY DEF QueueInv, Actor
<1>12. pc' = "reorder" => q'.items # <<>>
  BY DEF QueueInv, Actor
<1> QED BY <1>1, <1>2, <1>4, <1>5, <1>6, <1>7, <1>8, <1>9, <1>10, <1>11, <1>12 DEF Actor

-----------------------------------------------------------------------------
(* Clients.                                                                *)
LEMMA CommandFields ==
    ASSUME NEW v \in Snapshots, interrupts \in Nat, NEW m \in Commands(v)
    PROVE  /\ m \in Sent /\ m.view = v /\ m.seen = interrupts /\ m # NoCommand
           /\ m.kind = "add" => m.input \in Inputs \ used
<1> DEFINE C(k, p, o) == [kind |-> k, view |-> v, input |-> p, order |-> o, seen |-> interrupts]
<1>1. v.items \in Seq(Items) /\ DOMAIN v.items = 1 .. Len(v.items) /\ Len(v.items) \in Nat
  BY SnapshotFields, LenProperties
<1>2. Ids(v) \subseteq Inputs
  <2>1. \A i \in DOMAIN v.items : v.items[i] \in Items
    BY <1>1, ElementOfSeq
  <2> QED BY <2>1 DEF Ids, Items
<1>3. ASSUME NEW o \in Orders(v) PROVE o \in Seq(Inputs)
  <2>1. o \in [1 .. Len(v.items) -> Inputs]
    BY <1>2, <1>3 DEF Orders
  <2> QED BY <1>1, <2>1, SeqDef
<1>4. <<>> \in Seq(Inputs)
  BY EmptyInputs
<1>5. PICK k, p, o : /\ m = C(k, p, o)
                     /\ k \in {"add", "update", "delete", "reorder", "pause", "start"}
                     /\ p \in Inputs \cup {NoInput}
                     /\ o \in Seq(Inputs)
                     /\ k = "add" => p \in Inputs \ used
  <2>1. \/ \E p \in Inputs \ used : m = C("add", p, <<>>)
        \/ \E k \in {"update", "delete"}, p \in Ids(v) : m = C(k, p, <<>>)
        \/ \E o \in Orders(v) : m = C("reorder", NoInput, o)
        \/ \E k \in {"pause", "start"} : m = C(k, NoInput, <<>>)
    BY DEF Commands
  <2> HIDE DEF C
  <2>2. CASE \E p \in Inputs \ used : m = C("add", p, <<>>)
    BY <1>4, <2>2
  <2>3. CASE \E k \in {"update", "delete"}, p \in Ids(v) : m = C(k, p, <<>>)
    BY <1>2, <1>4, <2>3
  <2>4. CASE \E o \in Orders(v) : m = C("reorder", NoInput, o)
    BY <1>3, <2>4
  <2>5. CASE \E k \in {"pause", "start"} : m = C(k, NoInput, <<>>)
    BY <1>4, <2>5
  <2> QED BY <2>1, <2>2, <2>3, <2>4, <2>5
<1>6. m \in Sent
  BY <1>5 DEF Sent
<1>7. m.kind = k /\ m.view = v /\ m.input = p /\ m.seen = interrupts
  BY <1>5
<1> QED BY <1>5, <1>6, <1>7 DEF NoCommand

(* Where a command comes from: the last queue published, or a list.        *)
LEMMA SendIs ==
    ASSUME QueueInv, NEW c \in Clients, Send(c)
    PROVE  \E v \in {published, q}, m \in Sent :
             /\ v \in Snapshots
             /\ mail[c] = NoCommand /\ mail' = [mail EXCEPT ![c] = m]
             /\ m.view = v /\ m.seen = interrupts /\ m # NoCommand
             /\ IF m.kind = "add"
                THEN m.input \in Inputs \ used /\ used' = used \cup {m.input}
                ELSE used' = used
             /\ UNCHANGED <<q, disk, published, turns, active, pc, todo, left, interrupts>>
<1>1. PICK v \in {published, q} : \E m \in Commands(v) :
         /\ mail' = [mail EXCEPT ![c] = m]
         /\ IF m.kind = "add"
            THEN used' = used \cup {m.input} /\ UNCHANGED commands
            ELSE Commanded /\ UNCHANGED used
  BY DEF Send
<1>2. PICK m \in Commands(v) :
         /\ mail' = [mail EXCEPT ![c] = m]
         /\ IF m.kind = "add"
            THEN used' = used \cup {m.input} /\ UNCHANGED commands
            ELSE Commanded /\ UNCHANGED used
  BY <1>1
<1>3. v \in Snapshots
  BY <1>1 DEF QueueInv, Types, Queues, Sound
<1>4. /\ m \in Sent /\ m.view = v /\ m.seen = interrupts /\ m # NoCommand
      /\ m.kind = "add" => m.input \in Inputs \ used
  BY <1>2, <1>3, CommandFields DEF QueueInv, Types
<1>5. UNCHANGED <<q, disk, published, turns, active, pc, todo, left, interrupts>>
  BY DEF Send, queueVars, historyVars
<1>6. mail[c] = NoCommand
  BY DEF Send
<1> QED BY <1>1, <1>2, <1>3, <1>4, <1>5, <1>6

LEMMA SendKeeps ==
    ASSUME QueueInv, NEW c \in Clients, Send(c)
    PROVE  QueueInv'
<1>1. PICK m \in Sent :
         /\ mail' = [mail EXCEPT ![c] = m]
         /\ IF m.kind = "add"
            THEN m.input \in Inputs \ used /\ used' = used \cup {m.input}
            ELSE used' = used
         /\ UNCHANGED <<q, disk, published, turns, active, pc, todo, left, interrupts>>
  BY SendIs
<1>2. Types'
  BY <1>1 DEF QueueInv, Types
<1>3. Queues'
  BY <1>1, SameQueues
<1>4. Actor'
  BY <1>1, ActorKept DEF QueueInv, Actor
<1>5. mail'[c] = m /\ \A d \in Clients \ {c} : mail'[d] = mail[d]
  BY <1>1 DEF QueueInv, Types
<1>6. Flight'
  <2>1. CASE m.kind # "add"
    BY <1>1, <1>5, <2>1, FlightKept DEF Adds
  <2>2. CASE m.kind = "add"
    <3>1. m.input \in Inputs \ used /\ used' = used \cup {m.input}
      BY <1>1, <2>2
    <3>2. ASSUME NEW p, Outside(p) PROVE Outside(p)' /\ p # m.input
      BY <1>1, <3>1, <3>2 DEF Outside
    <3>3. Outside(m.input)'
      <4>1. turns[m.input] = 0
        BY <3>1 DEF QueueInv, Flight, Types
      <4> QED BY <1>1, <3>1, <4>1 DEF QueueInv, Flight, Outside
    <3>4. \A i \in DOMAIN active.steer : active.steer[i] # m.input
      BY <3>2 DEF QueueInv, Flight, SteerApart
    <3>5. \A i \in DOMAIN todo : todo[i] # m.input
      BY <3>1 DEF QueueInv, Flight, TodoApart
    <3>6. MailApart'
      BY <1>1, <1>5, <3>1, <3>2, <3>3, <3>4, <3>5 DEF QueueInv, Flight, MailApart, Adds
    <3>7. SteerApart'
      BY <1>1, <3>2 DEF QueueInv, Flight, SteerApart
    <3>8. TodoApart'
      BY <1>1, <3>2 DEF QueueInv, Flight, TodoApart, Waits
    <3> QED BY <1>1, <3>1, <3>6, <3>7, <3>8 DEF QueueInv, Flight
  <2> QED BY <2>1, <2>2
<1> QED BY <1>2, <1>3, <1>4, <1>6 DEF QueueInv

(* A command that the queue admits: what it makes of the queue.            *)
LEMMA HandledIs ==
    ASSUME QueueInv, NEW c \in Clients, pc = "select", mail[c] # NoCommand,
           Admits(q, mail[c])
    PROVE  /\ mail[c] \in Sent
           /\ mail[c].kind = "add" => mail[c].input \in Inputs \ Ids(q)
           /\ AppliedTo(q, mail[c], Applied(q, mail[c]))
           /\ Unrun(Applied(q, mail[c]))
<1> DEFINE m == mail[c]
           u == Applied(q, m)
<1>1. m \in Sent
  BY DEF QueueInv, Types
<1>2. m.kind = "add" => m.input \in Inputs \ Ids(q) /\ turns[m.input] = 0
  BY DEF QueueInv, Flight, MailApart, Adds, Outside
<1>3. AppliedTo(q, m, u)
  BY <1>1, <1>2, AppliedIs DEF QueueInv, Queues
<1>4. u.fence = q.fence /\ Ids(u) \subseteq Ids(q) \cup {p \in {m.input} : m.kind = "add"}
  BY <1>3 DEF AppliedTo
<1>5. Unrun(u)
  BY <1>2, <1>4 DEF QueueInv, Queues, Unrun
<1> QED BY <1>1, <1>2, <1>3, <1>5

(* Handle, with the queue it writes if the command is admitted.            *)
LEMMA HandleIs ==
    ASSUME QueueInv, NEW c \in Clients, Handle(c)
    PROVE  /\ pc = "select" /\ mail[c] \in Sent
           /\ mail' = [mail EXCEPT ![c] = NoCommand]
           /\ UNCHANGED <<turns, active, todo, used, left, interrupts>>
           /\ pc' = IF active.phase = "none" THEN "top" ELSE "select"
           /\ \/ UNCHANGED <<q, disk, published>>
              \/ /\ Admits(q, mail[c]) /\ Writes(Applied(q, mail[c]))
                 /\ Sound(Applied(q, mail[c])) /\ Unrun(Applied(q, mail[c]))
                 /\ AppliedTo(q, mail[c], Applied(q, mail[c]))
<1>1. pc = "select" /\ mail[c] # NoCommand
  BY DEF Handle
<1>2. /\ mail' = [mail EXCEPT ![c] = NoCommand]
      /\ UNCHANGED <<turns, active, todo, used, left, interrupts>>
      /\ pc' = IF active.phase = "none" THEN "top" ELSE "select"
  BY DEF Handle, Loop
<1>3. mail[c] \in Sent
  BY <1>1 DEF QueueInv, Types
<1>4. \/ UNCHANGED <<q, disk, published>>
      \/ /\ Admits(q, mail[c])
         /\ Change(Applied(q, mail[c])) \/ ChangeFails(Applied(q, mail[c]))
  BY DEF Handle, queueVars
<1>5. CASE UNCHANGED <<q, disk, published>>
  BY <1>1, <1>2, <1>3, <1>5
<1>6. CASE /\ Admits(q, mail[c])
           /\ Change(Applied(q, mail[c])) \/ ChangeFails(Applied(q, mail[c]))
  <2>1. Writes(Applied(q, mail[c]))
    BY <1>6, ChangeWrites
  <2>2. AppliedTo(q, mail[c], Applied(q, mail[c])) /\ Unrun(Applied(q, mail[c]))
    BY <1>1, <1>6, HandledIs
  <2>3. Sound(Applied(q, mail[c]))
    BY <2>2 DEF AppliedTo, Follows
  <2> QED BY <1>1, <1>2, <1>3, <1>6, <2>1, <2>2, <2>3
<1> QED BY <1>4, <1>5, <1>6

LEMMA HandleKeeps ==
    ASSUME QueueInv, NEW c \in Clients, Handle(c)
    PROVE  QueueInv'
<1> DEFINE m == mail[c]
           u == Applied(q, m)
<1>1. /\ pc = "select" /\ m \in Sent
      /\ mail' = [mail EXCEPT ![c] = NoCommand]
      /\ UNCHANGED <<turns, active, todo, used, left, interrupts>>
      /\ pc' = IF active.phase = "none" THEN "top" ELSE "select"
      /\ \/ UNCHANGED <<q, disk, published>>
         \/ Writes(u) /\ Sound(u) /\ Unrun(u) /\ AppliedTo(q, m, u)
  BY HandleIs
<1> HIDE DEF u
<1>2. /\ \A d \in Clients \ {c} : mail'[d] = mail[d]
      /\ mail'[c] = NoCommand /\ mail' \in [Clients -> {NoCommand} \cup Sent]
  BY <1>1 DEF QueueInv, Types
<1>3. \A d \in Clients : Adds(d)' => d # c /\ mail'[d] = mail[d]
  BY <1>2 DEF Adds, NoCommand
<1>4. pc' \in {"select", "top"} /\ (pc' = "top" => active.phase = "none")
  BY <1>1
<1>5. CASE UNCHANGED <<q, disk, published>>
  <2>1. Types'
    BY <1>1, <1>2, <1>4, <1>5 DEF QueueInv, Types, Points
  <2>2. Queues'
    BY <1>1, <1>5, SameQueues
  <2>3. Actor'
    BY <1>1, <1>4, <1>5, ActorKept
  <2>4. Flight'
    BY <1>1, <1>3, <1>4, <1>5, FlightKept
  <2> QED BY <2>1, <2>2, <2>3, <2>4 DEF QueueInv
<1>6. CASE Writes(u) /\ Sound(u) /\ Unrun(u) /\ AppliedTo(q, m, u)
  <2>1. Queues' /\ published' \in Snapshots
    BY <1>1, <1>6, WriteKeeps
  <2>2. Types'
    BY <1>1, <1>2, <1>4, <2>1 DEF QueueInv, Types, Points
  <2>3. u.fence = q.fence /\ (q.fence # NoFence => Head(u.items) = Head(q.items))
    BY <1>6 DEF AppliedTo
  <2>4. /\ q'.fence = q.fence /\ (q.fence # NoFence => Head(q'.items) = Head(q.items))
        /\ disk'.fence = disk.fence \/ disk'.fence = q.fence
    BY <1>6, <2>3 DEF Writes
  <2>5. Actor'
    BY <1>1, <1>4, <2>4, ActorKept
  <2>6. Flight'
    <3>1. CASE m.kind # "add"
      <4>1. Ids(u) \subseteq Ids(q)
        BY <1>6, <3>1 DEF AppliedTo
      <4>2. Ids(q') \subseteq Ids(q) \cup Ids(disk) /\ Ids(disk') \subseteq Ids(q) \cup Ids(disk)
        BY <1>6, <4>1 DEF Writes
      <4> QED BY <1>1, <1>3, <1>4, <4>2, FlightKept
    <3>2. CASE m.kind = "add"
      <4>1. Ids(u) = Ids(q) \cup {m.input}
        BY <1>6, <3>2 DEF AppliedTo
      <4>2. /\ Ids(q') \subseteq Ids(q) \cup {m.input}
            /\ Ids(disk') \subseteq Ids(q) \cup Ids(disk) \cup {m.input}
        BY <1>6, <4>1 DEF Writes
      <4>3. /\ Outside(m.input)
            /\ \A i \in DOMAIN active.steer : active.steer[i] # m.input
            /\ \A i \in DOMAIN todo : todo[i] # m.input
            /\ \A d \in Clients : Adds(d) /\ mail[d].input = m.input => d = c
        BY <3>2 DEF QueueInv, Flight, MailApart, Adds
      <4>4. ASSUME NEW p, Outside(p), p # m.input PROVE Outside(p)'
        BY <1>1, <4>2, <4>4 DEF Outside
      <4>5. MailApart'
        <5>1. ASSUME NEW d \in Clients, Adds(d)'
              PROVE  Adds(d) /\ mail'[d] = mail[d] /\ mail[d].input # m.input
          <6>1. d # c /\ mail'[d] = mail[d]
            BY <1>3, <5>1
          <6>2. Adds(d)
            BY <5>1, <6>1 DEF Adds
          <6> QED BY <4>3, <6>1, <6>2
        <5>2. ASSUME NEW d \in Clients, Adds(d)'
              PROVE  /\ mail'[d].input \in Inputs
                     /\ Outside(mail[d].input)'
                     /\ \A i \in DOMAIN active'.steer : active'.steer[i] # mail'[d].input
                     /\ \A i \in DOMAIN todo' : todo'[i] # mail'[d].input
          BY <1>1, <4>4, <5>1, <5>2 DEF QueueInv, Flight, MailApart
        <5>3. ASSUME NEW d \in Clients, Adds(d)', NEW b \in Clients, Adds(b)',
                     mail'[b].input = mail'[d].input
              PROVE  b = d
          BY <5>1, <5>3 DEF QueueInv, Flight, MailApart
        <5> QED BY <5>2, <5>3 DEF MailApart
      <4>6. SteerApart'
        BY <1>1, <4>3, <4>4 DEF QueueInv, Flight, SteerApart
      <4>7. TodoApart'
        <5>1. \A i \in Waits : Outside(todo[i]) /\ todo[i] # m.input
          <6>1. DOMAIN todo = 1 .. Len(todo) /\ Len(todo) \in Nat
            BY LenProperties DEF QueueInv, Types
          <6>2. Waits \subseteq DOMAIN todo
            BY <6>1 DEF Waits
          <6> QED BY <4>3, <6>2 DEF QueueInv, Flight, TodoApart
        <5>2. Waits' = Waits
          BY <1>1, <1>4 DEF Waits
        <5> QED BY <1>1, <4>4, <5>1, <5>2 DEF QueueInv, Flight, TodoApart
      <4> QED BY <1>1, <4>2, <4>3, <4>5, <4>6, <4>7 DEF QueueInv, Flight, Outside
    <3> QED BY <3>1, <3>2
  <2> QED BY <2>1, <2>2, <2>5, <2>6 DEF QueueInv
<1> QED BY <1>1, <1>5, <1>6

-----------------------------------------------------------------------------
(* Dispatch.                                                               *)
LEMMA DrainNothingKeeps ==
    ASSUME QueueInv, DrainNothing
    PROVE  QueueInv'
<1>1. /\ pc = "top" /\ pc' = "select"
      /\ UNCHANGED <<q, disk, published, turns, active, todo, left, mail, used, interrupts>>
  BY DEF DrainNothing, queueVars, boundVars, historyVars
<1>2. active = NoOp /\ q.fence = NoFence /\ todo = <<>>
  BY <1>1 DEF QueueInv, Actor, Idle
<1>3. Types'
  BY <1>1 DEF QueueInv, Types, Points
<1>4. Queues'
  BY <1>1, SameQueues
<1>5. Actor'
  BY <1>1, <1>2, NoOpFields DEF Actor, Idle
<1>6. Flight'
  BY <1>1, FlightKept
<1> QED BY <1>3, <1>4, <1>5, <1>6 DEF QueueInv

(* A dispatch is prepared only once the file has it.                       *)
LEMMA PrepareIs ==
    ASSUME QueueInv, PrepareDispatch
    PROVE  LET s == Prepared(q) IN
           /\ pc = "top" /\ q.fence = NoFence /\ q.items # <<>> /\ active = NoOp /\ todo = <<>>
           /\ Follows(q, s) /\ Ids(s) = Ids(q) /\ s.paused = q.paused
           /\ s.fence = [kind |-> "prepared", id |-> Head(q.items).id]
           /\ Writes(s) /\ Unrun(s) /\ turns[Head(q.items).id] = 0
           /\ \/ pc' = "prepared" /\ q' = s /\ disk' = s
              \/ pc' = "select" /\ q' = q
           /\ UNCHANGED <<turns, active, todo, left, mail, used, interrupts>>
<1> DEFINE s == Prepared(q)
<1>1. pc = "top" /\ q.fence = NoFence /\ q.items # <<>>
  BY DEF PrepareDispatch, Drains
<1>2. active = NoOp /\ todo = <<>>
  BY <1>1 DEF QueueInv, Actor, Idle
<1>3. /\ Follows(q, s) /\ Ids(s) = Ids(q) /\ s.paused = q.paused
      /\ s.fence = [kind |-> "prepared", id |-> Head(q.items).id]
  BY <1>1, PreparedIs DEF QueueInv, Queues
<1>4. /\ Change(s) \/ ChangeFails(s)
      /\ \/ pc' = "prepared" /\ q' = s /\ disk' = s
         \/ pc' = "select" /\ q' = q
      /\ UNCHANGED <<turns, active, todo, left, mail, used, interrupts>>
  BY DEF PrepareDispatch, Change, ChangeFails, Saved, historyVars
<1>5. Writes(s)
  BY <1>4, ChangeWrites
<1>6. \A p \in Ids(q) : ~(turns[p] > 0)
  BY <1>1 DEF QueueInv, Queues, Unrun
<1>7. Unrun(s)
  BY <1>3, <1>6 DEF Unrun
<1>8. turns[Head(q.items).id] = 0
  <2>1. Head(q.items).id \in Ids(q) /\ Head(q.items).id \in Inputs
    <3>1. q.items \in Seq(Items) /\ Ids(q) = ItemIds(q.items)
      BY SoundItems DEF QueueInv, Queues
    <3>2. Head(q.items) \in Items /\ Head(q.items).id \in Ids(q)
      BY <1>1, <3>1, HeadItem
    <3> QED BY <3>2 DEF Items
  <2>2. turns[Head(q.items).id] \in Nat
    BY <2>1 DEF QueueInv, Types
  <2> QED BY <1>6, <2>1, <2>2
<1> QED BY <1>1, <1>2, <1>3, <1>4, <1>5, <1>7, <1>8

LEMMA PrepareKeeps ==
    ASSUME QueueInv, PrepareDispatch
    PROVE  QueueInv'
<1> DEFINE s == Prepared(q)
           h == Head(q.items).id
<1>1. /\ pc = "top" /\ q.fence = NoFence /\ active = NoOp /\ todo = <<>>
      /\ Sound(s) /\ Ids(s) = Ids(q) /\ s.fence = [kind |-> "prepared", id |-> h]
      /\ Writes(s) /\ Unrun(s) /\ turns[h] = 0
      /\ \/ pc' = "prepared" /\ q' = s /\ disk' = s
         \/ pc' = "select" /\ q' = q
      /\ UNCHANGED <<turns, active, todo, left, mail, used, interrupts>>
  BY PrepareIs DEF Follows
<1> HIDE DEF s, h
<1>2. Queues' /\ published' \in Snapshots
  BY <1>1, WriteKeeps
<1>3. Types'
  BY <1>1, <1>2 DEF QueueInv, Types, Points
<1>4. Actor'
  BY <1>1, NoOpFields DEF Actor, Idle
<1>5. Flight'
  <2>1. Ids(q') \subseteq Ids(q) \cup Ids(disk) /\ Ids(disk') \subseteq Ids(q) \cup Ids(disk)
    BY <1>1 DEF Writes
  <2> QED BY <1>1, <2>1, FlightKept
<1> QED BY <1>2, <1>3, <1>4, <1>5 DEF QueueInv

(* The turn that starts runs the fenced head.                              *)
LEMMA StartIs ==
    ASSUME QueueInv, StartTurn
    PROVE  /\ pc = "prepared" /\ pc' = "started"
           /\ q.fence = [kind |-> "prepared", id |-> active'.prompt]
           /\ disk.fence = q.fence
           /\ active'.prompt \in Inputs /\ active'.phase = "spawned" /\ active'.steer = <<>>
           /\ active' \in Operation
           /\ Head(q.items) = Item(active'.prompt, active'.text)
           /\ turns[active'.prompt] = 0
           /\ started' = started \cup {active'.prompt}
           /\ active = NoOp /\ todo = <<>>
           /\ UNCHANGED <<q, disk, published, turns, todo, left, mail, used, interrupts>>
<1> DEFINE h == Head(q.items)
<1>1. /\ pc = "prepared" /\ pc' = "started"
      /\ active' = [NoOp EXCEPT !.prompt = h.id, !.text = h.text, !.phase = "spawned"]
      /\ started' = started \cup {h.id}
      /\ UNCHANGED <<q, disk, published, turns, todo, left, mail, used, interrupts>>
  BY DEF StartTurn, queueVars, boundVars
<1>2. /\ q.fence.kind = "prepared" /\ q.fence = disk.fence /\ turns[q.fence.id] = 0
      /\ active = NoOp /\ todo = <<>>
  BY <1>1 DEF QueueInv, Actor, Idle
<1>3. q.fence # NoFence /\ q.fence \in Fences /\ q.fence.id = h.id /\ h \in Items
  BY <1>2, SoundItems, HeadItem DEF QueueInv, Queues, NoFence
<1>4. q.fence = [kind |-> "prepared", id |-> h.id]
  BY <1>2, <1>3, FenceFields
<1>5. h.id \in Inputs /\ h.text \in Nat /\ h = Item(h.id, h.text)
  BY <1>3 DEF Items, Item
<1> HIDE DEF h
<1>6. /\ active'.prompt = h.id /\ active'.text = h.text /\ active'.phase = "spawned"
      /\ active'.steer = <<>> /\ active' \in Operation
  BY <1>1, <1>5, EmptyInputs DEF NoOp, Operation
<1> QED BY <1>1, <1>2, <1>3, <1>4, <1>5, <1>6 DEF h

LEMMA StartKeeps ==
    ASSUME QueueInv, StartTurn
    PROVE  QueueInv'
<1>1. /\ pc = "prepared" /\ pc' = "started"
      /\ q.fence = [kind |-> "prepared", id |-> active'.prompt]
      /\ disk.fence = q.fence
      /\ active'.prompt \in Inputs /\ active'.phase = "spawned" /\ active'.steer = <<>>
      /\ active' \in Operation
      /\ Head(q.items) = Item(active'.prompt, active'.text)
      /\ turns[active'.prompt] = 0
      /\ active = NoOp /\ todo = <<>>
      /\ UNCHANGED <<q, disk, published, turns, todo, left, mail, used, interrupts>>
  BY StartIs
<1>2. Types'
  BY <1>1 DEF QueueInv, Types, Points
<1>3. Queues'
  BY <1>1, SameQueues
<1>4. Actor'
  BY <1>1, NoInputAssumption DEF Actor, Idle
<1>5. Flight'
  BY <1>1, FlightKept
<1> QED BY <1>2, <1>3, <1>4, <1>5 DEF QueueInv

LEMMA AcceptIs ==
    ASSUME QueueInv, AcceptDispatch
    PROVE  LET s == Accepted(q) IN
           /\ pc = "started" /\ pc' = "select" /\ q' = s /\ Writes(s)
           /\ Follows(q, s) /\ Ids(s) = Ids(q) /\ s.paused = q.paused /\ s.items = q.items
           /\ s.fence = [kind |-> "accepted", id |-> active.prompt]
           /\ Unrun(s)
           /\ UNCHANGED <<turns, active, todo, left, mail, used, interrupts>>
<1> DEFINE s == Accepted(q)
<1>1. /\ pc = "started" /\ pc' = "select" /\ Settle(s) /\ q' = s
      /\ UNCHANGED <<turns, active, todo, left, mail, used, interrupts>>
  BY DEF AcceptDispatch, Settle, historyVars
<1>2. q.fence = [kind |-> "prepared", id |-> active.prompt]
  BY <1>1 DEF QueueInv, Actor
<1>3. q.fence # NoFence /\ q.fence.id = active.prompt
  BY <1>2 DEF NoFence
<1>4. /\ Follows(q, s) /\ Ids(s) = Ids(q) /\ s.paused = q.paused /\ s.items = q.items
      /\ s.fence = [kind |-> "accepted", id |-> active.prompt]
  BY <1>3, AcceptedIs DEF QueueInv, Queues
<1>5. Writes(s)
  BY <1>1, ChangeWrites
<1> HIDE DEF s
<1>6. s.fence # NoFence /\ s.fence.id = active.prompt
  BY <1>4 DEF NoFence
<1>7. Unrun(s)
  BY <1>3, <1>4, <1>6 DEF QueueInv, Queues, Unrun
<1> QED BY <1>1, <1>4, <1>5, <1>7 DEF s

LEMMA AcceptKeeps ==
    ASSUME QueueInv, AcceptDispatch
    PROVE  QueueInv'
<1> DEFINE s == Accepted(q)
<1>1. /\ pc = "started" /\ pc' = "select" /\ q' = s /\ Writes(s)
      /\ Sound(s) /\ Ids(s) = Ids(q) /\ s.items = q.items
      /\ s.fence = [kind |-> "accepted", id |-> active.prompt]
      /\ Unrun(s)
      /\ UNCHANGED <<turns, active, todo, left, mail, used, interrupts>>
  BY AcceptIs DEF Follows
<1> HIDE DEF s
<1>2. Queues' /\ published' \in Snapshots
  BY <1>1, WriteKeeps
<1>3. Types'
  BY <1>1, <1>2 DEF QueueInv, Types, Points
<1>4. Actor'
  <2>1. /\ active.prompt # NoInput /\ Head(q.items) = Item(active.prompt, active.text)
        /\ disk.fence.id = active.prompt /\ active.phase # "none" /\ todo = <<>>
        /\ active.phase = "spawned" => turns[active.prompt] = 0
    BY <1>1 DEF QueueInv, Actor
  <2>2. disk'.fence.id = active.prompt
    BY <1>1, <2>1 DEF Writes
  <2>3. Running'
    BY <1>1, <2>1 DEF Running
  <2> QED BY <1>1, <2>1, <2>2, <2>3 DEF Actor, Idle
<1>5. Flight'
  <2>1. Ids(q') \subseteq Ids(q) \cup Ids(disk) /\ Ids(disk') \subseteq Ids(q) \cup Ids(disk)
    BY <1>1 DEF Writes
  <2> QED BY <1>1, <2>1, FlightKept
<1> QED BY <1>2, <1>3, <1>4, <1>5 DEF QueueInv

LEMMA RollBackIs ==
    ASSUME QueueInv, RollBackDispatch
    PROVE  LET s == RolledBack(q) IN
           /\ pc = "prepared" /\ pc' = "pausing" /\ q' = s /\ Writes(s)
           /\ Follows(q, s) /\ Ids(s) = Ids(q) /\ s.paused = q.paused /\ s.fence = NoFence
           /\ Unrun(s) /\ active = NoOp /\ todo = <<>>
           /\ UNCHANGED <<turns, active, todo, left, mail, used, interrupts>>
<1> DEFINE s == RolledBack(q)
<1>1. /\ pc = "prepared" /\ pc' = "pausing" /\ q' = s /\ disk' \in {disk, s}
      /\ published' \in {published, s}
      /\ UNCHANGED <<turns, active, todo, left, mail, used, interrupts>>
  BY DEF RollBackDispatch, historyVars
<1>2. Follows(q, s) /\ Ids(s) = Ids(q) /\ s.paused = q.paused /\ s.fence = NoFence
  BY RolledBackIs DEF QueueInv, Queues
<1>3. Writes(s)
  BY <1>1 DEF Writes
<1>4. ~(turns[q.fence.id] > 0) /\ active = NoOp /\ todo = <<>>
  BY <1>1 DEF QueueInv, Actor, Idle
<1>5. Unrun(s)
  BY <1>2, <1>4 DEF QueueInv, Queues, Unrun
<1> QED BY <1>1, <1>2, <1>3, <1>4, <1>5

LEMMA RollBackKeeps ==
    ASSUME QueueInv, RollBackDispatch
    PROVE  QueueInv'
<1> DEFINE s == RolledBack(q)
<1>1. /\ pc = "prepared" /\ pc' = "pausing" /\ q' = s /\ Writes(s)
      /\ Sound(s) /\ Ids(s) = Ids(q) /\ s.fence = NoFence
      /\ Unrun(s) /\ active = NoOp /\ todo = <<>>
      /\ UNCHANGED <<turns, active, todo, left, mail, used, interrupts>>
  BY RollBackIs DEF Follows
<1> HIDE DEF s
<1>2. Queues' /\ published' \in Snapshots
  BY <1>1, WriteKeeps
<1>3. Types'
  BY <1>1, <1>2 DEF QueueInv, Types, Points
<1>4. Actor'
  BY <1>1, NoOpFields DEF Actor, Idle
<1>5. Flight'
  <2>1. Ids(q') \subseteq Ids(q) \cup Ids(disk) /\ Ids(disk') \subseteq Ids(q) \cup Ids(disk)
    BY <1>1 DEF Writes
  <2> QED BY <1>1, <2>1, FlightKept
<1> QED BY <1>2, <1>3, <1>4, <1>5 DEF QueueInv

LEMMA PauseIs ==
    ASSUME QueueInv
    PROVE  LET s == Pausing(q) IN
           /\ Follows(q, s) /\ Ids(s) = Ids(q) /\ s.paused = TRUE /\ s.items = q.items
           /\ s.fence = q.fence /\ Unrun(s)
<1>1. LET s == Pausing(q) IN
      /\ Follows(q, s) /\ Ids(s) = Ids(q) /\ s.paused = TRUE /\ s.items = q.items
      /\ s.fence = q.fence
  BY PausingIs DEF QueueInv, Queues
<1>2. Unrun(Pausing(q))
  BY <1>1 DEF QueueInv, Queues, Unrun
<1> QED BY <1>1, <1>2

LEMMA PauseForBoundaryKeeps ==
    ASSUME QueueInv, PauseForBoundary
    PROVE  QueueInv'
<1> DEFINE s == Pausing(q)
<1>1. /\ pc = "pausing" /\ pc' = "select" /\ (Change(s) \/ ChangeFails(s))
      /\ UNCHANGED <<turns, active, todo, left, mail, used, interrupts>>
  BY DEF PauseForBoundary, historyVars
<1>2. Writes(s) /\ Sound(s) /\ Unrun(s) /\ Ids(s) = Ids(q) /\ s.fence = q.fence
  BY <1>1, ChangeWrites, PauseIs DEF Follows
<1> HIDE DEF s
<1>3. active = NoOp /\ todo = <<>> /\ q.fence = NoFence
  BY <1>1 DEF QueueInv, Actor, Idle
<1>4. Queues' /\ published' \in Snapshots
  BY <1>1, <1>2, WriteKeeps
<1>5. Types'
  BY <1>1, <1>4 DEF QueueInv, Types, Points
<1>6. Actor'
  <2>1. q'.fence = NoFence
    BY <1>2, <1>3 DEF Writes
  <2> QED BY <1>1, <1>3, <2>1, NoOpFields DEF Actor, Idle
<1>7. Flight'
  <2>1. Ids(q') \subseteq Ids(q) \cup Ids(disk) /\ Ids(disk') \subseteq Ids(q) \cup Ids(disk)
    BY <1>2 DEF Writes
  <2> QED BY <1>1, <2>1, FlightKept
<1> QED BY <1>4, <1>5, <1>6, <1>7 DEF QueueInv

-----------------------------------------------------------------------------
(* The generation.                                                         *)
LEMMA GenerationIs ==
    ASSUME GenerationFrame
    PROVE  UNCHANGED <<q, disk, published, pc, todo, left, mail, used, interrupts, acked, started>>
  BY DEF GenerationFrame, queueVars, actorVars

(* A turn that goes on or ends, for the same prompt and with the same      *)
(* inputs pending or none.                                                 *)
LEMMA OperationMoves ==
    ASSUME QueueInv, active.phase # "none", active' \in Operation,
           active'.prompt = active.prompt, active'.text = active.text,
           active'.steer = active.steer \/ active'.steer = <<>>,
           active'.phase \in {active.phase, "running", "ended"},
           pc = "finishing" => active'.phase = "ended",
           pc' = pc \/ (pc = "select" /\ pc' = "finishing" /\ active'.phase = "ended"),
           UNCHANGED <<q, disk, published, turns, todo, left, mail, used, interrupts>>
    PROVE  QueueInv'
<1>1. Types'
  BY DEF QueueInv, Types, Points
<1>2. Queues'
  BY SameQueues
<1>3. Actor'
  BY ActorKept
<1>4. Flight'
  <2>1. (pc' = "reorder") <=> (pc = "reorder")
    OBVIOUS
  <2> QED BY <2>1, FlightKept
<1> QED BY <1>1, <1>2, <1>3, <1>4 DEF QueueInv

LEMMA RecordIs ==
    ASSUME QueueInv, RecordPrompt
    PROVE  /\ active.phase = "spawned" /\ active' \in Operation
           /\ active'.prompt = active.prompt /\ active'.text = active.text
           /\ active'.steer = active.steer
           /\ \/ active'.phase = "running"
                 /\ turns' = [p \in Inputs |-> IF p = active.prompt THEN turns[p] + 1 ELSE turns[p]]
              \/ active'.phase = "ended" /\ turns' = turns
           /\ UNCHANGED <<q, disk, published, pc, todo, left, mail, used, interrupts, acked, started>>
<1>1. active \in Operation
  BY DEF QueueInv, Types
<1>2. UNCHANGED <<q, disk, published, pc, todo, left, mail, used, interrupts, acked, started>>
  BY GenerationIs DEF RecordPrompt
<1>3. CASE /\ active' = [active EXCEPT !.phase = "running"]
           /\ turns' = [p \in Inputs |-> IF p = active.prompt THEN turns[p] + 1 ELSE turns[p]]
  <2>1. /\ active' \in Operation /\ active'.prompt = active.prompt /\ active'.text = active.text
        /\ active'.steer = active.steer /\ active'.phase = "running"
    BY <1>1, <1>3 DEF Operation
  <2> QED BY <1>2, <1>3, <2>1 DEF RecordPrompt
<1>4. CASE /\ active' = [active EXCEPT !.phase = "ended", !.outcome = "failed"]
           /\ turns' = turns
  <2>1. /\ active' \in Operation /\ active'.prompt = active.prompt /\ active'.text = active.text
        /\ active'.steer = active.steer /\ active'.phase = "ended"
    BY <1>1, <1>4 DEF Operation
  <2> QED BY <1>2, <1>4, <2>1 DEF RecordPrompt
<1> QED BY <1>3, <1>4 DEF RecordPrompt

(* The prompt of a spawned turn is the fenced head of both queues, so that *)
(* recording it leaves nothing that has run in front of the fence.         *)
LEMMA RecordKeeps ==
    ASSUME QueueInv, RecordPrompt
    PROVE  QueueInv'
<1>1. /\ active.phase = "spawned" /\ active' \in Operation
      /\ active'.prompt = active.prompt /\ active'.text = active.text
      /\ active'.steer = active.steer
      /\ \/ active'.phase = "running"
            /\ turns' = [p \in Inputs |-> IF p = active.prompt THEN turns[p] + 1 ELSE turns[p]]
         \/ active'.phase = "ended" /\ turns' = turns
      /\ UNCHANGED <<q, disk, published, pc, todo, left, mail, used, interrupts>>
  BY RecordIs
<1>2. pc \in {"started", "select"}
  BY <1>1, NoOpFields DEF QueueInv, Types, Points, Actor, Idle
<1>3. CASE turns' = turns
  BY <1>1, <1>2, <1>3, OperationMoves
<1>4. CASE active.prompt = NoInput /\ active'.phase = "running"
  <2>1. turns' = turns
    <3>1. turns = [p \in Inputs |-> turns[p]]
      BY DEF QueueInv, Types
    <3> QED BY <1>1, <1>4, <3>1, NoInputAssumption
  <2> QED BY <1>1, <1>2, <2>1, OperationMoves
<1>5. CASE active.prompt # NoInput /\ active'.phase = "running"
  <2> DEFINE p == active.prompt
  <2>1. p \in Inputs /\ turns \in [Inputs -> Nat] /\ turns[p] = 0
    BY <1>1, <1>5 DEF QueueInv, Types, Operation, Actor
  <2>2. /\ turns' \in [Inputs -> Nat] /\ turns'[p] = 1
        /\ \A r \in Inputs \ {p} : turns'[r] = turns[r]
    BY <1>1, <1>5, <2>1
  <2>3. q.fence # NoFence /\ q.fence.id = p /\ disk.fence.id = p
    BY <1>2, <1>5 DEF QueueInv, Actor, Running, NoFence
  <2>4. disk.fence # NoFence
    BY <2>3, <1>5 DEF NoFence
  <2>5. Ids(q) \subseteq used /\ Ids(disk) \subseteq used /\ used \subseteq Inputs
    BY DEF QueueInv, Flight, Types
  <2>6. Unrun(q)' /\ Unrun(disk)'
    BY <1>1, <2>2, <2>3, <2>4, <2>5 DEF QueueInv, Queues, Unrun
  <2>7. RunsOnce'
    BY <2>2 DEF QueueInv, Queues, RunsOnce
  <2>8. Queues'
    BY <1>1, <2>6, <2>7 DEF QueueInv, Queues
  <2>9. Types'
    BY <1>1, <2>2 DEF QueueInv, Types
  <2>10. Actor'
    <3>1. pc' = "started" => /\ q'.fence = [kind |-> "prepared", id |-> active'.prompt]
                             /\ active'.prompt # NoInput
                             /\ Head(q'.items) = Item(active'.prompt, active'.text)
      BY <1>1 DEF QueueInv, Actor
    <3>2. pc' = "select" => Running'
      BY <1>1, <1>5 DEF QueueInv, Actor, Running
    <3>3. todo = <<>>
      BY <1>2 DEF QueueInv, Actor
    <3> QED BY <1>1, <1>2, <1>5, <2>3, <3>1, <3>2, <3>3 DEF Actor, Idle
  <2>11. Flight'
    <3>1. p \in Ids(q)
      <4>1. q.items \in Seq(Items) /\ q.items # <<>> /\ Head(q.items).id = p /\ Ids(q) = ItemIds(q.items)
        BY <2>3, SoundItems DEF QueueInv, Queues
      <4> QED BY <4>1, HeadItem
    <3>2. ASSUME NEW r, Outside(r) PROVE Outside(r)'
      BY <1>1, <2>2, <2>5, <3>1, <3>2 DEF Outside
    <3>3. MailApart'
      BY <1>1, <3>2 DEF QueueInv, Flight, MailApart, Adds
    <3>4. SteerApart'
      BY <1>1, <3>2 DEF QueueInv, Flight, SteerApart
    <3>5. TodoApart'
      BY <1>1, <3>2 DEF QueueInv, Flight, TodoApart, Waits
    <3>6. \A r \in Inputs : turns'[r] > 0 => r \in used'
      BY <1>1, <2>2, <2>5, <3>1 DEF QueueInv, Flight
    <3> QED BY <1>1, <3>3, <3>4, <3>5, <3>6 DEF QueueInv, Flight
  <2> QED BY <2>8, <2>9, <2>10, <2>11 DEF QueueInv
<1> QED BY <1>1, <1>3, <1>4, <1>5

LEMMA ApplySteerKeeps ==
    ASSUME QueueInv, ApplySteer
    PROVE  QueueInv'
<1>1. /\ active.phase = "running" /\ turns' = turns
      /\ UNCHANGED <<q, disk, published, pc, todo, left, mail, used, interrupts>>
  BY GenerationIs DEF ApplySteer
<1>2. active \in Operation
  BY DEF QueueInv, Types
<1>3. /\ active' \in Operation /\ active'.prompt = active.prompt /\ active'.text = active.text
      /\ active'.steer = <<>> /\ active'.phase \in {"running", "ended"}
  <2>1. \/ active' = [active EXCEPT !.steer = <<>>]
        \/ active' = [active EXCEPT !.steer = <<>>, !.phase = "ended", !.outcome = "failed"]
    BY DEF ApplySteer
  <2> QED BY <1>1, <1>2, <2>1, EmptyInputs DEF Operation
<1>4. pc # "finishing"
  BY <1>1 DEF QueueInv, Actor
<1> QED BY <1>1, <1>3, <1>4, OperationMoves

LEMMA EndTurnKeeps ==
    ASSUME QueueInv, EndTurn
    PROVE  QueueInv'
<1>1. /\ active.phase = "running" /\ turns' = turns
      /\ UNCHANGED <<q, disk, published, pc, todo, left, mail, used, interrupts>>
  BY GenerationIs DEF EndTurn
<1>2. active \in Operation
  BY DEF QueueInv, Types
<1>3. /\ active' \in Operation /\ active'.prompt = active.prompt /\ active'.text = active.text
      /\ active'.steer = active.steer /\ active'.phase = "ended"
  <2>1. PICK o \in {"completed", "cancelled", "failed", "backgrounded"} :
          active' = [active EXCEPT !.phase = "ended", !.outcome = o]
    BY DEF EndTurn
  <2> QED BY <1>2, <2>1 DEF Operation
<1> QED BY <1>1, <1>3, OperationMoves

-----------------------------------------------------------------------------
(* What else the actor selects on.                                         *)
LEMMA ListKeeps ==
    ASSUME QueueInv, List
    PROVE  QueueInv'
<1>1. UNCHANGED <<q, disk, published, turns, active, pc, todo, left, mail, used, interrupts>>
  BY DEF List, queueVars, boundVars, historyVars
<1>2. Types'
  BY <1>1 DEF QueueInv, Types
<1>3. Queues'
  BY <1>1, SameQueues
<1>4. Actor'
  BY <1>1, ActorKept DEF QueueInv, Actor
<1>5. Flight'
  BY <1>1, FlightKept
<1> QED BY <1>2, <1>3, <1>4, <1>5 DEF QueueInv

LEMMA PollKeeps ==
    ASSUME QueueInv, Poll
    PROVE  QueueInv'
<1>1. /\ pc = "select" /\ pc' = "top" /\ active.phase = "none"
      /\ UNCHANGED <<q, disk, published, turns, active, todo, left, mail, used, interrupts>>
  BY DEF Poll, Busy, queueVars, boundVars, historyVars
<1>2. Types'
  BY <1>1 DEF QueueInv, Types, Points
<1>3. Queues'
  BY <1>1, SameQueues
<1>4. Actor'
  BY <1>1, ActorKept
<1>5. Flight'
  BY <1>1, FlightKept
<1> QED BY <1>2, <1>3, <1>4, <1>5 DEF QueueInv

LEMMA DirectTurnKeeps ==
    ASSUME QueueInv, DirectTurn
    PROVE  QueueInv'
<1>1. /\ pc = "select" /\ active.phase = "none"
      /\ active' = [NoOp EXCEPT !.phase = "spawned"]
      /\ UNCHANGED <<q, disk, published, turns, todo, left, mail, used, interrupts>>
  BY DEF DirectTurn, Busy, queueVars, boundVars, historyVars
<1>2. active = NoOp
  BY <1>1 DEF QueueInv, Actor
<1>3. /\ active' \in Operation /\ active'.prompt = NoInput /\ active'.phase = "spawned"
      /\ active'.steer = <<>>
  BY <1>1, EmptyInputs DEF NoOp, Operation
<1>4. pc' = "select"
  BY <1>3 DEF DirectTurn, Loop
<1>5. Types'
  BY <1>1, <1>3, <1>4 DEF QueueInv, Types, Points
<1>6. Queues'
  BY <1>1, SameQueues
<1>7. Actor'
  <2>1. q.fence = NoFence /\ todo = <<>>
    BY <1>1, <1>2, NoOpFields DEF QueueInv, Actor
  <2> QED BY <1>1, <1>3, <1>4, <2>1 DEF Actor, Idle
<1>8. Flight'
  BY <1>1, <1>3, <1>4, FlightKept
<1> QED BY <1>5, <1>6, <1>7, <1>8 DEF QueueInv

LEMMA InterruptIs ==
    ASSUME QueueInv, Interrupt
    PROVE  LET s == Pausing(q) IN
           /\ pc = "select" /\ pc' = "select" /\ active.phase # "none"
           /\ active' \in Operation /\ active'.prompt = active.prompt
           /\ active'.text = active.text /\ active'.steer = active.steer
           /\ active'.phase = active.phase
           /\ Writes(s)
           /\ \/ q' = s /\ interrupts' = interrupts + 1
              \/ q' = q /\ published' = published /\ interrupts' = interrupts
           /\ UNCHANGED <<turns, todo, left, mail, used, acked, started>>
<1> DEFINE s == Pausing(q)
<1>1. /\ pc = "select" /\ active.phase # "none"
      /\ active' = [active EXCEPT !.cancelled = TRUE]
      /\ Change(s) \/ ChangeFails(s)
      /\ UNCHANGED <<turns, todo, left, mail, used, acked, started>>
  BY DEF Interrupt, Busy, Interrupted
<1>2. \/ q' = s /\ interrupts' = interrupts + 1
      \/ q' = q /\ published' = published /\ interrupts' = interrupts
  BY DEF Interrupt, Interrupted, Change, ChangeFails, SaveFails
<1>3. active \in Operation
  BY DEF QueueInv, Types
<1>4. /\ active' \in Operation /\ active'.prompt = active.prompt
      /\ active'.text = active.text /\ active'.steer = active.steer
      /\ active'.phase = active.phase
  BY <1>1, <1>3 DEF Operation
<1>5. pc' = "select"
  BY <1>1, <1>4 DEF Interrupt, Loop
<1>6. Writes(s)
  BY <1>1, ChangeWrites
<1> QED BY <1>1, <1>2, <1>4, <1>5, <1>6

LEMMA InterruptKeeps ==
    ASSUME QueueInv, Interrupt
    PROVE  QueueInv'
<1> DEFINE s == Pausing(q)
<1>1. /\ pc = "select" /\ pc' = "select" /\ active.phase # "none"
      /\ active' \in Operation /\ active'.prompt = active.prompt
      /\ active'.text = active.text /\ active'.steer = active.steer
      /\ active'.phase = active.phase
      /\ Writes(s)
      /\ interrupts' \in {interrupts, interrupts + 1}
      /\ UNCHANGED <<turns, todo, left, mail, used>>
  BY InterruptIs
<1>2. Sound(s) /\ Unrun(s) /\ Ids(s) = Ids(q) /\ s.fence = q.fence /\ s.items = q.items
  BY PauseIs DEF Follows
<1> HIDE DEF s
<1>3. Queues' /\ published' \in Snapshots
  BY <1>1, <1>2, WriteKeeps
<1>4. Types'
  BY <1>1, <1>3 DEF QueueInv, Types
<1>5. Actor'
  <2>1. /\ q'.fence = q.fence /\ q'.items = q.items
        /\ disk'.fence = disk.fence \/ disk'.fence = q.fence
    BY <1>1, <1>2 DEF Writes
  <2> QED BY <1>1, <2>1, ActorKept
<1>6. Flight'
  <2>1. Ids(q') \subseteq Ids(q) \cup Ids(disk) /\ Ids(disk') \subseteq Ids(q) \cup Ids(disk)
    BY <1>1, <1>2 DEF Writes
  <2> QED BY <1>1, <2>1, FlightKept
<1> QED BY <1>3, <1>4, <1>5, <1>6 DEF QueueInv

LEMMA SteerIs ==
    ASSUME QueueInv, Steer
    PROVE  \E p \in Inputs \ used :
             /\ pc = "select" /\ pc' = "select" /\ active.phase # "none"
             /\ active' \in Operation /\ active'.prompt = active.prompt
             /\ active'.text = active.text /\ active'.phase = active.phase
             /\ active'.steer = Append(active.steer, p)
             /\ used' = used \cup {p}
             /\ UNCHANGED <<q, disk, published, turns, todo, left, mail, interrupts, acked, started>>
<1>1. PICK p \in Inputs \ used :
        /\ active' = [active EXCEPT !.steer = Append(active.steer, p)]
        /\ used' = used \cup {p}
  BY DEF Steer
<1>2. /\ pc = "select" /\ active.phase # "none"
      /\ UNCHANGED <<q, disk, published, turns, todo, left, mail, interrupts, acked, started>>
  BY DEF Steer, AcceptsSteer, queueVars
<1>3. active \in Operation /\ active.steer \in Seq(Inputs)
  BY DEF QueueInv, Types, Operation
<1>4. Append(active.steer, p) \in Seq(Inputs)
  BY <1>3, AppendProperties
<1>5. /\ active' \in Operation /\ active'.prompt = active.prompt
      /\ active'.text = active.text /\ active'.phase = active.phase
      /\ active'.steer = Append(active.steer, p)
  BY <1>1, <1>3, <1>4 DEF Operation
<1>6. pc' = "select"
  BY <1>2, <1>5 DEF Steer, Loop
<1> QED BY <1>1, <1>2, <1>5, <1>6

LEMMA SteerKeeps ==
    ASSUME QueueInv, Steer
    PROVE  QueueInv'
<1>1. PICK p \in Inputs \ used :
        /\ pc = "select" /\ pc' = "select" /\ active.phase # "none"
        /\ active' \in Operation /\ active'.prompt = active.prompt
        /\ active'.text = active.text /\ active'.phase = active.phase
        /\ active'.steer = Append(active.steer, p)
        /\ used' = used \cup {p}
        /\ UNCHANGED <<q, disk, published, turns, todo, left, mail, interrupts>>
  BY SteerIs
<1>2. Types'
  BY <1>1 DEF QueueInv, Types
<1>3. Queues'
  BY <1>1, SameQueues
<1>4. Actor'
  BY <1>1, ActorKept
<1> DEFINE n == Len(active.steer)
<1>5. /\ n \in Nat /\ DOMAIN active.steer = 1 .. n /\ DOMAIN active'.steer = 1 .. n + 1
      /\ \A i \in 1 .. n : active'.steer[i] = active.steer[i]
      /\ active'.steer[n + 1] = p
  <2>1. active.steer \in Seq(Inputs)
    BY DEF QueueInv, Types, Operation
  <2> QED BY <1>1, <2>1, AppendProperties, LenProperties
<1>6. ASSUME NEW r, Outside(r) PROVE Outside(r)' /\ r # p
  BY <1>1, <1>6 DEF Outside
<1>7. Outside(p)'
  <2>1. turns[p] = 0
    BY <1>1 DEF QueueInv, Flight, Types
  <2> QED BY <1>1, <2>1 DEF QueueInv, Flight, Outside
<1> HIDE DEF n
<1>8. MailApart'
  <2>1. ASSUME NEW c \in Clients, Adds(c)
        PROVE  mail[c].input # p /\ \A i \in DOMAIN active'.steer : active'.steer[i] # mail[c].input
    <3>1. mail[c].input # p
      BY <1>6, <2>1 DEF QueueInv, Flight, MailApart
    <3>2. ASSUME NEW i \in 1 .. n + 1 PROVE active'.steer[i] # mail[c].input
      <4>1. CASE i \in 1 .. n
        BY <1>5, <2>1, <4>1 DEF QueueInv, Flight, MailApart
      <4>2. CASE i = n + 1
        BY <1>5, <3>1, <4>2
      <4> QED BY <1>5, <4>1, <4>2
    <3> QED BY <1>5, <3>1, <3>2
  <2> QED BY <1>1, <1>6, <2>1 DEF QueueInv, Flight, MailApart, Adds
<1>9. SteerApart'
  <2>1. ASSUME NEW i \in 1 .. n PROVE Outside(active.steer[i]) /\ active.steer[i] # p
    BY <1>5, <1>6 DEF QueueInv, Flight, SteerApart
  <2>2. ASSUME NEW i \in 1 .. n + 1 PROVE Outside(active.steer[i])'
    <3>1. CASE i \in 1 .. n
      BY <1>5, <1>6, <2>1, <3>1
    <3>2. CASE i = n + 1
      BY <1>5, <1>7, <3>2
    <3> QED BY <1>5, <3>1, <3>2
  <2>3. ASSUME NEW i \in 1 .. n + 1, NEW j \in 1 .. n + 1, active'.steer[i] = active'.steer[j]
        PROVE  i = j
    <3>1. CASE i \in 1 .. n /\ j \in 1 .. n
      BY <1>5, <2>3, <3>1 DEF QueueInv, Flight, SteerApart
    <3>2. CASE i = n + 1 /\ j \in 1 .. n
      BY <1>5, <2>1, <2>3, <3>2
    <3>3. CASE i \in 1 .. n /\ j = n + 1
      BY <1>5, <2>1, <2>3, <3>3
    <3> QED BY <1>5, <3>1, <3>2, <3>3
  <2> QED BY <1>5, <2>2, <2>3 DEF SteerApart
<1>10. TodoApart'
  BY <1>1, <1>6 DEF QueueInv, Flight, TodoApart, Waits
<1>11. Flight'
  BY <1>1, <1>8, <1>9, <1>10 DEF QueueInv, Flight
<1> QED BY <1>2, <1>3, <1>4, <1>11 DEF QueueInv

LEMMA QueueResumeKeeps ==
    ASSUME QueueInv, QueueResume
    PROVE  QueueInv'
<1>1. /\ pc = "select" /\ active.phase # "none"
      /\ active' = [active EXCEPT !.resume = TRUE]
      /\ UNCHANGED <<q, disk, published, turns, todo, left, mail, used, interrupts>>
  BY DEF QueueResume, Busy, queueVars, boundVars, historyVars
<1>2. active \in Operation
  BY DEF QueueInv, Types
<1>3. /\ active' \in Operation /\ active'.prompt = active.prompt
      /\ active'.text = active.text /\ active'.steer = active.steer
      /\ active'.phase = active.phase
  BY <1>1, <1>2 DEF Operation
<1>4. pc' = "select"
  BY <1>1, <1>3 DEF QueueResume, Loop
<1> QED BY <1>1, <1>3, <1>4, OperationMoves

LEMMA NextGenerationKeeps ==
    ASSUME QueueInv, NextGeneration
    PROVE  QueueInv'
<1>1. /\ pc = "select" /\ active.phase = "ended"
      /\ active' = [active EXCEPT !.phase = "running", !.outcome = "none",
                                  !.cancelled = FALSE, !.resume = FALSE, !.steer = <<>>]
      /\ UNCHANGED <<q, disk, published, turns, pc, todo, left, mail, used, interrupts>>
  BY DEF NextGeneration, queueVars, actorVars, boundVars, historyVars
<1>2. active \in Operation
  BY DEF QueueInv, Types
<1>3. /\ active' \in Operation /\ active'.prompt = active.prompt
      /\ active'.text = active.text /\ active'.steer = <<>>
      /\ active'.phase = "running"
  BY <1>1, <1>2, EmptyInputs DEF Operation
<1> QED BY <1>1, <1>3, OperationMoves

LEMMA ResumeFailsKeeps ==
    ASSUME QueueInv, ResumeFails
    PROVE  QueueInv'
<1>1. /\ pc = "select" /\ active.phase = "ended" /\ pc' = "finishing"
      /\ active' = [active EXCEPT !.outcome = "failed"]
      /\ UNCHANGED <<q, disk, published, turns, todo, left, mail, used, interrupts>>
  BY DEF ResumeFails, queueVars, historyVars
<1>2. active \in Operation
  BY DEF QueueInv, Types
<1>3. /\ active' \in Operation /\ active'.prompt = active.prompt
      /\ active'.text = active.text /\ active'.steer = active.steer
      /\ active'.phase = "ended"
  BY <1>1, <1>2 DEF Operation
<1> QED BY <1>1, <1>3, OperationMoves

-----------------------------------------------------------------------------
(* The end of a turn, and the inputs it gives back.                        *)

LEMMA FrontInputs ==
    ASSUME NEW t \in Seq(Inputs), t # <<>>
    PROVE  /\ Len(t) \in Nat \ {0} /\ DOMAIN t = 1 .. Len(t)
           /\ Last(t) \in Inputs /\ Last(t) = t[Len(t)]
           /\ Front(t) \in Seq(Inputs) /\ Len(Front(t)) = Len(t) - 1
           /\ DOMAIN Front(t) = 1 .. Len(t) - 1
           /\ \A i \in 1 .. Len(t) - 1 : Front(t)[i] = t[i]
<1> DEFINE n == Len(t)
           f == Front(t)
<1>1. n \in Nat \ {0} /\ DOMAIN t = 1 .. n
  BY EmptySeq, LenProperties
<1>2. Last(t) = t[n] /\ t[n] \in Inputs
  BY <1>1, ElementOfSeq DEF Last
<1>3. f = SubSeq(t, 1, n - 1)
  BY DEF Front
<1>4. \A i \in 1 .. n - 1 : t[i] \in Inputs
  BY <1>1, ElementOfSeq
<1> HIDE DEF f, n
<1>5. 1 \in Int /\ n - 1 \in Int
  BY <1>1
<1>6. /\ f \in Seq(Inputs)
      /\ Len(f) = IF 1 <= n - 1 THEN n - 1 - 1 + 1 ELSE 0
      /\ \A i \in 1 .. n - 1 - 1 + 1 : f[i] = t[1 + i - 1]
  BY <1>3, <1>4, <1>5, SubSeqProperties
<1>7. Len(f) = n - 1
  BY <1>1, <1>6
<1>8. DOMAIN f = 1 .. n - 1
  BY <1>6, <1>7, LenProperties
<1>9. ASSUME NEW i \in 1 .. n - 1 PROVE f[i] = t[i]
  <2>1. i \in 1 .. n - 1 - 1 + 1 /\ 1 + i - 1 = i
    BY <1>1
  <2> QED BY <1>6, <2>1
<1> QED BY <1>1, <1>2, <1>6, <1>7, <1>8, <1>9 DEF n, f

LEMMA FinishIs ==
    ASSUME QueueInv, FinishOperation
    PROVE  /\ pc \in {"select", "finishing"} /\ active.phase = "ended" /\ active' = NoOp
           /\ left' = active.steer /\ (todo' = active.steer \/ todo' = <<>>)
           /\ pc' = IF todo' = <<>> THEN "top" ELSE "requeue"
           /\ UNCHANGED <<turns, mail, used, interrupts, acked, started>>
           /\ \/ active.prompt = NoInput /\ UNCHANGED <<q, disk, published>>
              \/ LET s == Consumed(q) IN
                 /\ active.prompt # NoInput /\ Writes(s) /\ q' = s
                 /\ Follows(q, s) /\ Ids(s) = Ids(q) \ {active.prompt} /\ s.paused = q.paused
                 /\ s.fence = NoFence /\ Unrun(s)
<1>1. /\ pc \in {"select", "finishing"} /\ active.phase = "ended" /\ active' = NoOp
      /\ left' = active.steer /\ (todo' = active.steer \/ todo' = <<>>)
      /\ pc' = IF todo' = <<>> THEN "top" ELSE "requeue"
      /\ UNCHANGED <<turns, mail, used, interrupts, acked, started>>
  BY DEF FinishOperation, LeftOver
<1>2. IF active.prompt = NoInput THEN q.fence = NoFence ELSE Running
  BY <1>1 DEF QueueInv, Actor
<1>3. CASE active.prompt = NoInput
  <2>1. ~Completes
    BY <1>2, <1>3 DEF Completes, NoFence
  <2>2. UNCHANGED <<q, disk, published>>
    BY <2>1 DEF FinishOperation, queueVars
  <2> QED BY <1>1, <1>3, <2>2
<1>4. CASE active.prompt # NoInput
  <2> DEFINE s == Consumed(q)
  <2>1. q.fence = [kind |-> "accepted", id |-> active.prompt]
    BY <1>2, <1>4 DEF Running
  <2>2. Settle(s)
    BY <2>1 DEF FinishOperation, Completes
  <2>3. Writes(s) /\ q' = s
    BY <2>2, ChangeWrites DEF Settle
  <2>4. q.fence # NoFence /\ q.fence.id = active.prompt
    BY <2>1 DEF NoFence
  <2>5. /\ Follows(q, s) /\ Ids(s) = Ids(q) \ {active.prompt} /\ s.paused = q.paused
        /\ s.fence = NoFence
    BY <2>4, ConsumedIs DEF QueueInv, Queues
  <2>6. Unrun(s)
    BY <2>4, <2>5 DEF QueueInv, Queues, Unrun
  <2> QED BY <1>1, <1>4, <2>3, <2>5, <2>6
<1> QED BY <1>3, <1>4

LEMMA FinishKeeps ==
    ASSUME QueueInv, FinishOperation
    PROVE  QueueInv'
<1>1. /\ pc \in {"select", "finishing"} /\ active.phase = "ended" /\ active' = NoOp
      /\ left' = active.steer /\ (todo' = active.steer \/ todo' = <<>>)
      /\ pc' = IF todo' = <<>> THEN "top" ELSE "requeue"
      /\ UNCHANGED <<turns, mail, used, interrupts>>
  BY FinishIs
<1>2. pc' \in {"top", "requeue"} /\ (todo' = <<>> <=> pc' = "top")
  BY <1>1
<1>3. active.steer \in Seq(Inputs) /\ todo' \in Seq(Inputs)
  BY <1>1, EmptyInputs DEF QueueInv, Types, Operation
<1>4. /\ Queues' /\ published' \in Snapshots /\ q'.fence = NoFence
      /\ Ids(q') \subseteq Ids(q) /\ Ids(disk') \subseteq Ids(q) \cup Ids(disk)
  <2>1. CASE active.prompt = NoInput /\ UNCHANGED <<q, disk, published>>
    <3>1. q.fence = NoFence
      BY <1>1, <2>1 DEF QueueInv, Actor
    <3> QED BY <1>1, <2>1, <3>1, SameQueues DEF QueueInv, Types
  <2>2. CASE LET s == Consumed(q) IN
                 /\ active.prompt # NoInput /\ Writes(s) /\ q' = s
                 /\ Follows(q, s) /\ Ids(s) = Ids(q) \ {active.prompt} /\ s.paused = q.paused
                 /\ s.fence = NoFence /\ Unrun(s)
    <3> DEFINE s == Consumed(q)
    <3>1. /\ Writes(s) /\ q' = s /\ Sound(s) /\ Ids(s) \subseteq Ids(q)
          /\ s.fence = NoFence /\ Unrun(s)
      BY <2>2 DEF Follows
    <3> HIDE DEF s
    <3>2. Queues' /\ published' \in Snapshots
      BY <1>1, <3>1, WriteKeeps
    <3> QED BY <3>1, <3>2 DEF Writes
  <2> QED BY <2>1, <2>2, FinishIs
<1>5. Types'
  BY <1>1, <1>2, <1>3, <1>4, NoOpFields DEF QueueInv, Types, Points
<1>6. Actor'
  BY <1>1, <1>2, <1>4, NoOpFields DEF Actor, Idle
<1>7. Flight'
  <2>1. ASSUME NEW p, Outside(p) PROVE Outside(p)'
    BY <1>1, <1>4, <2>1 DEF Outside
  <2>2. DOMAIN active'.steer = {}
    BY <1>1, NoOpFields
  <2>3. DOMAIN todo' = {} \/ todo' = active.steer
    BY <1>1, EmptyInputs
  <2>4. DOMAIN todo' = 1 .. Len(todo') /\ Waits' = DOMAIN todo'
    BY <1>2, <1>3, LenProperties DEF Waits
  <2>5. MailApart'
    BY <1>1, <2>1, <2>2, <2>3 DEF QueueInv, Flight, MailApart, Adds
  <2>6. SteerApart'
    BY <2>2 DEF SteerApart
  <2>7. TodoApart'
    <3>1. ASSUME NEW i \in DOMAIN todo' PROVE Outside(todo[i])' /\ todo'[i] \in used'
      BY <1>1, <2>1, <2>3, <3>1 DEF QueueInv, Flight, SteerApart, Outside
    <3>2. ASSUME NEW i \in DOMAIN todo', NEW j \in DOMAIN todo', todo'[i] = todo'[j] PROVE i = j
      BY <2>3, <3>2 DEF QueueInv, Flight, SteerApart
    <3> QED BY <2>4, <3>1, <3>2 DEF TodoApart
  <2> QED BY <1>1, <1>4, <2>5, <2>6, <2>7 DEF QueueInv, Flight
<1> QED BY <1>4, <1>5, <1>6, <1>7 DEF QueueInv

(* The last of the inputs to be given back may enter the queues; the       *)
(* others still wait.                                                      *)
LEMMA GiveBackKeeps ==
    ASSUME QueueInv, todo # <<>>,
           Ids(q') \subseteq Ids(q) \cup {Last(todo)},
           Ids(disk') \subseteq Ids(q) \cup Ids(disk) \cup {Last(todo)},
           UNCHANGED <<turns, active, mail, used>>,
           \/ todo' = Front(todo) /\ pc' # "reorder"
           \/ todo' = todo /\ pc' = "reorder"
    PROVE  Flight'
<1> DEFINE n == Len(todo)
           l == Last(todo)
<1>1. /\ n \in Nat \ {0} /\ DOMAIN todo = 1 .. n /\ l = todo[n]
      /\ Front(todo) \in Seq(Inputs) /\ Len(Front(todo)) = n - 1
      /\ DOMAIN Front(todo) = 1 .. n - 1
      /\ \A i \in 1 .. n - 1 : Front(todo)[i] = todo[i]
  BY FrontInputs DEF QueueInv, Types
<1> HIDE DEF n, l
<1>2. n \in DOMAIN todo
  BY <1>1
<1>3. ASSUME NEW p, Outside(p), p # l PROVE Outside(p)'
  BY <1>3 DEF Outside, l
<1>4. Waits' = 1 .. n - 1
  BY <1>1 DEF Waits, n
<1>5. DOMAIN todo' \subseteq DOMAIN todo /\ \A i \in DOMAIN todo' : todo'[i] = todo[i]
  BY <1>1
<1>6. MailApart'
  <2>1. ASSUME NEW c \in Clients, Adds(c)
        PROVE  mail[c].input # l /\ \A i \in DOMAIN todo' : todo'[i] # mail[c].input
    BY <1>1, <1>2, <1>5, <2>1 DEF QueueInv, Flight, MailApart
  <2> QED BY <1>3, <2>1 DEF QueueInv, Flight, MailApart, Adds
<1>7. SteerApart'
  <2>1. pc \in {"requeue", "reorder"}
    BY DEF QueueInv, Actor
  <2>2. DOMAIN active'.steer = {}
    BY <2>1, NoOpFields DEF QueueInv, Actor, Idle
  <2> QED BY <2>2 DEF SteerApart
<1>8. TodoApart'
  <2>1. ASSUME NEW i \in 1 .. n - 1 PROVE Outside(todo[i]) /\ todo[i] # l /\ i \in DOMAIN todo'
    <3>1. i \in 1 .. n - 1 /\ i \in 1 .. n /\ i # n
      BY <1>1, <2>1
    <3>2. Waits = 1 .. n - 1 \/ Waits = 1 .. n
      BY DEF Waits, n
    <3>3. i \in Waits /\ i \in DOMAIN todo
      BY <1>1, <3>1, <3>2
    <3> QED BY <1>1, <1>2, <2>1, <3>1, <3>3 DEF QueueInv, Flight, TodoApart
  <2>2. ASSUME NEW i \in 1 .. n - 1 PROVE Outside(todo[i])'
    <3>1. todo'[i] = todo[i]
      BY <1>5, <2>1
    <3> QED BY <1>3, <2>1, <3>1
  <2> QED BY <1>4, <1>5, <2>2 DEF QueueInv, Flight, TodoApart
<1>9. l \in used
  BY <1>1, <1>2 DEF QueueInv, Flight, TodoApart
<1> QED BY <1>6, <1>7, <1>8, <1>9 DEF QueueInv, Flight, l

LEMMA RequeueAddIs ==
    ASSUME QueueInv, RequeueAdd
    PROVE  LET s == Appended(q, Last(todo)) IN
           /\ pc = "requeue" /\ todo # <<>> /\ active = NoOp
           /\ Last(todo) \in Inputs /\ Outside(Last(todo))
           /\ UNCHANGED <<turns, active, left, mail, used, interrupts, acked, started>>
           /\ Follows(q, s) /\ Ids(s) = Ids(q) \cup {Last(todo)} /\ s.paused = q.paused
           /\ s.fence = NoFence /\ s.items # <<>> /\ Unrun(s)
           /\ \/ Writes(s) /\ q' = s /\ pc' = "reorder" /\ todo' = todo
              \/ /\ UNCHANGED <<q, disk, published>> \/ (Writes(s) /\ q' = q)
                 /\ todo' = Front(todo)
                 /\ pc' = IF todo' = <<>> THEN "top" ELSE "requeue"
<1> DEFINE p == Last(todo)
           s == Appended(q, p)
<1>1. /\ pc = "requeue"
      /\ UNCHANGED <<turns, active, left, mail, used, interrupts, acked, started>>
  BY DEF RequeueAdd, historyVars
<1>2. active = NoOp /\ todo # <<>> /\ q.fence = NoFence
  BY <1>1 DEF QueueInv, Actor, Idle
<1>3. p \in Inputs /\ Outside(p)
  <2>1. p \in Inputs /\ p = todo[Len(todo)] /\ Len(todo) \in Nat \ {0}
    BY <1>2, FrontInputs DEF QueueInv, Types
  <2>2. Len(todo) \in Waits
    BY <1>1, <2>1 DEF Waits
  <2> QED BY <2>1, <2>2 DEF QueueInv, Flight, TodoApart
<1>4. /\ Follows(q, s) /\ Ids(s) = Ids(q) \cup {p} /\ s.paused = q.paused
      /\ s.fence = NoFence /\ s.items # <<>>
  BY <1>2, <1>3, AppendedIs DEF QueueInv, Queues, Outside
<1>5. Unrun(s)
  BY <1>2, <1>3, <1>4 DEF QueueInv, Queues, Unrun, Outside
<1>6. \/ Change(s) /\ pc' = "reorder" /\ todo' = todo
      \/ /\ UNCHANGED <<q, disk, published>> \/ ChangeFails(s)
         /\ todo' = Front(todo)
         /\ pc' = IF todo' = <<>> THEN "top" ELSE "requeue"
  BY DEF RequeueAdd, queueVars
<1>7. \/ Writes(s) /\ q' = s /\ pc' = "reorder" /\ todo' = todo
      \/ /\ UNCHANGED <<q, disk, published>> \/ (Writes(s) /\ q' = q)
         /\ todo' = Front(todo)
         /\ pc' = IF todo' = <<>> THEN "top" ELSE "requeue"
  BY <1>6, ChangeWrites DEF Change, ChangeFails
<1> QED BY <1>1, <1>2, <1>3, <1>4, <1>5, <1>7

LEMMA RequeueAddKeeps ==
    ASSUME QueueInv, RequeueAdd
    PROVE  QueueInv'
<1> DEFINE p == Last(todo)
           s == Appended(q, p)
<1>1. /\ pc = "requeue" /\ todo # <<>> /\ active = NoOp
      /\ UNCHANGED <<turns, active, left, mail, used, interrupts>>
      /\ Sound(s) /\ Ids(s) = Ids(q) \cup {p} /\ s.fence = NoFence /\ s.items # <<>> /\ Unrun(s)
      /\ \/ Writes(s) /\ q' = s /\ pc' = "reorder" /\ todo' = todo
         \/ /\ UNCHANGED <<q, disk, published>> \/ (Writes(s) /\ q' = q)
            /\ todo' = Front(todo)
            /\ pc' = IF todo' = <<>> THEN "top" ELSE "requeue"
  BY RequeueAddIs DEF Follows
<1> HIDE DEF s
<1>2. Queues' /\ published' \in Snapshots
  <2>1. CASE Writes(s)
    BY <1>1, <2>1, WriteKeeps
  <2>2. CASE UNCHANGED <<q, disk, published>>
    BY <1>1, <2>2, SameQueues DEF QueueInv, Types
  <2> QED BY <1>1, <2>1, <2>2
<1>3. todo' \in Seq(Inputs) /\ pc' \in {"reorder", "top", "requeue"}
  BY <1>1, FrontInputs DEF QueueInv, Types
<1>4. Types'
  BY <1>1, <1>2, <1>3 DEF QueueInv, Types, Points
<1>5. Actor'
  <2>1. q.fence = NoFence
    BY <1>1 DEF QueueInv, Actor, Idle
  <2>2. q'.fence = NoFence /\ (pc' = "reorder" => q'.items # <<>>)
    BY <1>1, <2>1
  <2>3. todo' # <<>> <=> pc' \in {"requeue", "reorder"}
    BY <1>1
  <2> QED BY <1>1, <1>3, <2>2, <2>3, NoOpFields DEF Actor, Idle
<1>6. Flight'
  <2>1. /\ Ids(q') \subseteq Ids(q) \cup {p}
        /\ Ids(disk') \subseteq Ids(q) \cup Ids(disk) \cup {p}
    BY <1>1 DEF Writes
  <2>2. \/ todo' = Front(todo) /\ pc' # "reorder"
        \/ todo' = todo /\ pc' = "reorder"
    BY <1>1
  <2> QED BY <1>1, <2>1, <2>2, GiveBackKeeps
<1> QED BY <1>2, <1>4, <1>5, <1>6 DEF QueueInv

LEMMA RequeueReorderIs ==
    ASSUME QueueInv, RequeueReorder
    PROVE  LET s == ToFront(q) IN
           /\ pc = "reorder" /\ todo # <<>> /\ active = NoOp
           /\ UNCHANGED <<turns, active, left, mail, used, interrupts, acked, started>>
           /\ Follows(q, s) /\ Ids(s) = Ids(q) /\ s.paused = q.paused
           /\ s.fence = NoFence /\ Unrun(s) /\ Writes(s)
           /\ todo' = Front(todo)
           /\ pc' = IF todo' = <<>> THEN "top" ELSE "requeue"
<1> DEFINE s == ToFront(q)
<1>1. /\ pc = "reorder" /\ (Change(s) \/ ChangeFails(s))
      /\ todo' = Front(todo)
      /\ pc' = IF todo' = <<>> THEN "top" ELSE "requeue"
      /\ UNCHANGED <<turns, active, left, mail, used, interrupts, acked, started>>
  BY DEF RequeueReorder, Moved, historyVars
<1>2. active = NoOp /\ todo # <<>> /\ q.fence = NoFence /\ q.items # <<>>
  BY <1>1 DEF QueueInv, Actor, Idle
<1>3. Follows(q, s) /\ Ids(s) = Ids(q) /\ s.paused = q.paused /\ s.fence = NoFence
  BY <1>2, ToFrontIs DEF QueueInv, Queues
<1>4. Unrun(s)
  BY <1>2, <1>3 DEF QueueInv, Queues, Unrun
<1>5. Writes(s)
  BY <1>1, ChangeWrites
<1> QED BY <1>1, <1>2, <1>3, <1>4, <1>5

LEMMA RequeueReorderKeeps ==
    ASSUME QueueInv, RequeueReorder
    PROVE  QueueInv'
<1> DEFINE s == ToFront(q)
<1>1. /\ pc = "reorder" /\ todo # <<>> /\ active = NoOp
      /\ UNCHANGED <<turns, active, left, mail, used, interrupts>>
      /\ Sound(s) /\ Ids(s) = Ids(q) /\ s.fence = NoFence /\ Unrun(s) /\ Writes(s)
      /\ todo' = Front(todo)
      /\ pc' = IF todo' = <<>> THEN "top" ELSE "requeue"
  BY RequeueReorderIs DEF Follows
<1> HIDE DEF s
<1>2. Queues' /\ published' \in Snapshots
  BY <1>1, WriteKeeps
<1>3. todo' \in Seq(Inputs) /\ pc' \in {"top", "requeue"} /\ (todo' # <<>> <=> pc' = "requeue")
  BY <1>1, FrontInputs DEF QueueInv, Types
<1>4. Types'
  BY <1>1, <1>2, <1>3 DEF QueueInv, Types, Points
<1>5. Actor'
  <2>1. q.fence = NoFence
    BY <1>1 DEF QueueInv, Actor, Idle
  <2>2. q'.fence = NoFence
    BY <1>1, <2>1 DEF Writes
  <2> QED BY <1>1, <1>3, <2>2, NoOpFields DEF Actor, Idle
<1>6. Flight'
  <2>1. /\ Ids(q') \subseteq Ids(q) \cup {Last(todo)}
        /\ Ids(disk') \subseteq Ids(q) \cup Ids(disk) \cup {Last(todo)}
    BY <1>1 DEF Writes
  <2> QED BY <1>1, <1>3, <2>1, GiveBackKeeps
<1> QED BY <1>2, <1>4, <1>5, <1>6 DEF QueueInv

-----------------------------------------------------------------------------
(* Exit and recovery.                                                      *)
LEMMA CrashIs ==
    ASSUME Crash
    PROVE  /\ pc # "down" /\ pc' = "down" /\ todo' = <<>> /\ active' = NoOp
           /\ mail' = [c \in Clients |-> NoCommand] /\ published' = Empty /\ q' = Empty
           /\ UNCHANGED <<disk, turns, used, left, interrupts, acked, started>>
  BY DEF Crash

LEMMA CrashKeeps ==
    ASSUME QueueInv, Crash
    PROVE  QueueInv'
<1>1. /\ pc' = "down" /\ todo' = <<>> /\ active' = NoOp
      /\ mail' = [c \in Clients |-> NoCommand] /\ published' = Empty /\ q' = Empty
      /\ UNCHANGED <<disk, turns, used, left, interrupts>>
  BY CrashIs
<1>2. Sound(Empty) /\ Ids(Empty) = {} /\ Empty.fence = NoFence /\ Empty \in Snapshots
  BY SoundEmpty DEF Sound
<1>3. Types'
  BY <1>1, <1>2, NoOpFields, EmptyInputs DEF QueueInv, Types, Points
<1>4. Queues'
  BY <1>1, <1>2 DEF QueueInv, Queues, Unrun, RunsOnce
<1>5. Actor'
  BY <1>1, <1>2, NoOpFields DEF Actor, Idle
<1>6. Flight'
  <2>1. \A c \in Clients : ~Adds(c)'
    BY <1>1 DEF Adds, NoCommand
  <2>2. DOMAIN active'.steer = {} /\ DOMAIN todo' = {} /\ Waits' = {}
    BY <1>1, NoOpFields, EmptyInputs DEF Waits
  <2> QED BY <1>1, <1>2, <2>1, <2>2 DEF QueueInv, Flight, MailApart, SteerApart, TodoApart
<1> QED BY <1>3, <1>4, <1>5, <1>6 DEF QueueInv

LEMMA RestartIs ==
    ASSUME QueueInv, Restart
    PROVE  LET s == Recovered(disk) IN
           /\ pc = "down" /\ pc' = "top" /\ active = NoOp /\ todo = <<>>
           /\ q' = s /\ disk' \in {disk, s} /\ published' = published
           /\ Sound(s) /\ s.fence = NoFence /\ Unrun(s)
           /\ s = disk \/ s.rev > 0
           /\ Ids(s) \subseteq Ids(disk)
           /\ \A p \in Ids(disk) \ Ids(s) : /\ p = disk.fence.id /\ disk.fence # NoFence
                                            /\ disk.fence.kind = "accepted" \/ turns[p] > 0
           /\ UNCHANGED <<turns, active, todo, left, mail, used, interrupts, acked, started>>
<1> DEFINE s == Recovered(disk)
<1>1. /\ pc = "down" /\ pc' = "top" /\ q' = s /\ disk' \in {disk, s} /\ published' = published
      /\ UNCHANGED <<turns, active, todo, left, mail, used, interrupts, acked, started>>
  BY DEF Restart, historyVars
<1>2. active = NoOp /\ todo = <<>>
  BY <1>1 DEF QueueInv, Actor, Idle
<1>3. /\ Sound(s) /\ s.fence = NoFence
      /\ s = disk \/ s.rev > 0
      /\ \/ disk.fence = NoFence /\ Ids(s) = Ids(disk)
         \/ /\ disk.fence # NoFence /\ ~(turns[disk.fence.id] > 0)
            /\ Ids(s) = Ids(disk)
         \/ /\ disk.fence # NoFence
            /\ disk.fence.kind = "accepted" \/ turns[disk.fence.id] > 0
            /\ Ids(s) = Ids(disk) \ {disk.fence.id}
  BY RecoveredIs DEF QueueInv, Queues
<1> HIDE DEF s
<1>4. Unrun(s)
  <2>1. \A p \in Ids(disk) : turns[p] > 0 => disk.fence # NoFence /\ disk.fence.id = p
    BY DEF QueueInv, Queues, Unrun
  <2>2. \A p \in Ids(s) : ~(turns[p] > 0)
    BY <1>3, <2>1
  <2> QED BY <2>2 DEF Unrun
<1>5. /\ Ids(s) \subseteq Ids(disk)
      /\ \A p \in Ids(disk) \ Ids(s) : /\ p = disk.fence.id /\ disk.fence # NoFence
                                       /\ disk.fence.kind = "accepted" \/ turns[p] > 0
  BY <1>3
<1> QED BY <1>1, <1>2, <1>3, <1>4, <1>5 DEF s

LEMMA RestartKeeps ==
    ASSUME QueueInv, Restart
    PROVE  QueueInv'
<1> DEFINE s == Recovered(disk)
<1>1. /\ pc = "down" /\ pc' = "top" /\ active = NoOp /\ todo = <<>>
      /\ q' = s /\ disk' \in {disk, s} /\ published' = published
      /\ Sound(s) /\ s.fence = NoFence /\ Unrun(s)
      /\ Ids(s) \subseteq Ids(disk)
      /\ UNCHANGED <<turns, active, todo, left, mail, used, interrupts>>
  BY RestartIs
<1> HIDE DEF s
<1>2. Queues'
  BY <1>1 DEF QueueInv, Queues, Unrun, RunsOnce
<1>3. Types'
  BY <1>1 DEF QueueInv, Types, Points
<1>4. Actor'
  BY <1>1, NoOpFields DEF Actor, Idle
<1>5. Flight'
  BY <1>1, FlightKept
<1> QED BY <1>2, <1>3, <1>4, <1>5 DEF QueueInv

LEMMA RestartUnreadKeeps ==
    ASSUME QueueInv, RestartUnread
    PROVE  QueueInv'
<1>1. /\ pc = "down" /\ pc' = "top"
      /\ UNCHANGED <<q, disk, published, turns, active, todo, left, mail, used, interrupts>>
  BY DEF RestartUnread, queueVars, historyVars
<1>2. active = NoOp /\ todo = <<>> /\ q.fence = NoFence
  BY <1>1 DEF QueueInv, Actor, Idle
<1>3. Queues'
  BY <1>1, SameQueues
<1>4. Types'
  BY <1>1 DEF QueueInv, Types, Points
<1>5. Actor'
  BY <1>1, <1>2, NoOpFields DEF Actor, Idle
<1>6. Flight'
  BY <1>1, FlightKept
<1> QED BY <1>3, <1>4, <1>5, <1>6 DEF QueueInv

(* A step that changes nothing.                                            *)
LEMMA StutterKeeps ==
    ASSUME QueueInv, UNCHANGED vars
    PROVE  QueueInv'
<1>1. UNCHANGED <<q, disk, published, turns, active, pc, todo, left, mail, used, interrupts>>
  BY DEF vars, queueVars, actorVars, boundVars, historyVars
<1>2. Types'
  BY <1>1 DEF QueueInv, Types
<1>3. Queues'
  BY <1>1, SameQueues
<1>4. Actor'
  BY <1>1, ActorKept DEF QueueInv, Actor
<1>5. Flight'
  BY <1>1, FlightKept
<1> QED BY <1>2, <1>3, <1>4, <1>5 DEF QueueInv

LEMMA QueueStep == QueueInv /\ [Next]_vars => QueueInv'
<1> SUFFICES ASSUME QueueInv, [Next]_vars PROVE QueueInv' OBVIOUS
<1>1. CASE \E c \in Clients : Send(c) \/ Handle(c)
  BY <1>1, SendKeeps, HandleKeeps
<1>2. CASE ActorStep
  BY <1>2, DrainNothingKeeps, PrepareKeeps, StartKeeps, AcceptKeeps, RollBackKeeps,
     PauseForBoundaryKeeps, NextGenerationKeeps, ResumeFailsKeeps, FinishKeeps,
     RequeueAddKeeps, RequeueReorderKeeps DEF ActorStep
<1>3. CASE GenerationStep
  BY <1>3, RecordKeeps, ApplySteerKeeps, EndTurnKeeps DEF GenerationStep
<1>4. CASE List \/ DirectTurn \/ Interrupt \/ Steer \/ QueueResume \/ Poll
  BY <1>4, ListKeeps, DirectTurnKeeps, InterruptKeeps, SteerKeeps, QueueResumeKeeps, PollKeeps
<1>5. CASE Crash \/ Restart \/ RestartUnread
  BY <1>5, CrashKeeps, RestartKeeps, RestartUnreadKeeps
<1>6. CASE UNCHANGED vars
  BY <1>6, StutterKeeps
<1> QED BY <1>1, <1>2, <1>3, <1>4, <1>5, <1>6 DEF Next

LEMMA QueueHolds == Spec => []QueueInv
  BY QueueInit, QueueStep, PTL DEF Spec

(* RunsOnce: a queued prompt becomes at most one user turn of the session, *)
(* whatever exits and failed saves fall between preparing its dispatch,    *)
(* recording its turn, accepting and settling it (prepare_dispatch,        *)
(* accept_dispatch, consume_accepted, recover_dispatch).                   *)
THEOREM PromptRunsOnce == Spec => []RunsOnce
<1>1. QueueInv => RunsOnce
  BY DEF QueueInv, Queues
<1> QED BY <1>1, QueueHolds, PTL

(* FenceIsHead: the fence, in memory and in the file, names the head of    *)
(* the queue, so that accept_dispatch, consume_accepted and                *)
(* recover_dispatch always find what they settle.                          *)
THEOREM FenceNamesHead == Spec => []FenceIsHead
<1>1. QueueInv => FenceIsHead
  BY DEF QueueInv, Queues, Sound, Fenced, FenceIsHead
<1> QED BY <1>1, QueueHolds, PTL

(* RunningHead: while a queued prompt runs, the queue shows it as its      *)
(* accepted head with the text that runs, whatever clients edit, delete    *)
(* and reorder meanwhile; while nothing runs no fence is left, which       *)
(* reconcile_prompt_queue_dispatch would have to settle.                   *)
THEOREM RunningIsHead == Spec => []RunningHead
<1>1. QueueInv => RunningHead
  <2> SUFFICES ASSUME QueueInv, pc = "select"
               PROVE  IF active.prompt = NoInput THEN q.fence = NoFence
                      ELSE /\ q.fence = [kind |-> "accepted", id |-> active.prompt]
                           /\ q.items # <<>>
                           /\ Head(q.items) = Item(active.prompt, active.text)
    BY DEF RunningHead
  <2>1. IF active.prompt = NoInput THEN q.fence = NoFence ELSE Running
    BY DEF QueueInv, Actor
  <2>2. Running => q.fence # NoFence
    BY DEF Running, NoFence
  <2>3. q.fence # NoFence => q.items # <<>>
    BY DEF QueueInv, Queues, Sound, Fenced, HeadIs
  <2> QED BY <2>1, <2>2, <2>3 DEF Running
<1> QED BY <1>1, QueueHolds, PTL
=============================================================================
